------------------------------ MODULE DiagWindow ------------------------------
(***************************************************************************)
(* MainWindow, the diagnostic host window: scans, connections, UDS         *)
(* requests and flashing run in workers with a thread each; their results, *)
(* the lambdas that give buttons back and the ends of their threads come   *)
(* back as events of the GUI; BusSession lets one of them at a time use a  *)
(* session's channel.  A session is replaced when a connection is made     *)
(* again and closed when the backend is changed.                           *)
(***************************************************************************)
EXTENDS Naturals, Sequences

CONSTANTS
    Slots,       \* bound on the workers alive at one time
    MaxStarts,   \* bound on the workers started
    MaxSessions, \* bound on the sessions opened
    MaxCloses,   \* bound on the attempts to close the window
    MaxFaults    \* bound on logs that cannot be opened or closed

ASSUME DiagAssumption == {MaxStarts, MaxSessions, MaxCloses, MaxFaults} \subseteq Nat

Buttons    == {"backend", "scan", "connect", "uds", "flash"}
Operations == {"backend", "scan", "connect"}
Diagnostics == {"uds", "flash"}
Sessions   == 1..MaxSessions

VARIABLES
    window,   \* "open", "closing" (closeEvent waits for the threads) or "gone"
    enabled,  \* the buttons that can be clicked
    listed,   \* the device tree shows channels
    current,  \* _session, 0 for None
    opened,   \* sessions opened so far
    closed,   \* those that were closed
    owner,    \* _diag_owner of each session
    job,      \* what each worker does, on which session, and how far it is
    tokens,   \* workers whose token is set
    quits,    \* threads that were told to quit
    threads,  \* _active_threads
    queue,    \* events posted to the GUI: a name and a worker, kind or session
    stuck,    \* history: sessions whose log failed while they were owned
    starts, closes, faults

guiVars  == <<window, enabled, listed, current, threads, queue>>
busVars  == <<opened, closed, owner, stuck>>
workVars == <<job, tokens, quits>>
counters == <<starts, closes, faults>>
vars     == <<guiVars, busVars, workVars, counters>>

Kinds == {"scan", "connect", "uds", "flash"}
Events(sessions) == ({"connected"} \X sessions) \cup ({"buttons"} \X Kinds)
                    \cup ({"listed", "quit", "over"} \X Slots)

Phases == {"none", "start", "log", "loaded", "work", "ended", "over"}
Job == [kind : {"none"} \cup Kinds, on : Nat, at : Phases]
NoJob == [kind |-> "none", on |-> 0, at |-> "none"]

Init ==
    /\ window = "open" /\ enabled = Operations /\ listed = FALSE
    /\ current = 0 /\ opened = 0 /\ closed = {}
    /\ owner = [s \in Sessions |-> "none"]
    /\ job = [w \in Slots |-> NoJob]
    /\ tokens = {} /\ quits = {} /\ threads = {} /\ queue = <<>> /\ stuck = {}
    /\ starts = 0 /\ closes = 0 /\ faults = 0

Free == {w \in Slots : job[w] = NoJob}

\* Workers that use the channel of session s.
Uses(w)    == job[w].kind \in Diagnostics /\ job[w].at \in {"log", "work"}
Holders(s) == {w \in Slots : Uses(w) /\ job[w].on = s}

-------------------------------------------------------------------------------
(* The user.                                                               *)

\* _start_worker, after the clicked handler took buttons away.
StartWorker(kind, taken) ==
    /\ window = "open" /\ kind \in enabled
    /\ starts < MaxStarts /\ starts' = starts + 1
    /\ Free # {}
    /\ LET w == CHOOSE w \in Free : TRUE
           on == IF kind \in Diagnostics THEN current ELSE 0
       IN /\ job' = [job EXCEPT ![w] = [kind |-> kind, on |-> on, at |-> "start"]]
          /\ threads' = threads \cup {w}
    /\ enabled' = enabled \ (Operations \cup taken)
    /\ UNCHANGED <<window, listed, current, queue, busVars, tokens, quits,
                   closes, faults>>

ScanClicked    == StartWorker("scan", {})
ConnectClicked == listed /\ StartWorker("connect", {})
UdsSendClicked == current # 0 /\ StartWorker("uds", Diagnostics)
FlashStartClicked == current # 0 /\ StartWorker("flash", Diagnostics)

\* The session that is there is closed.
ClosedNow == closed \cup ({current} \ {0})

BackendChanged ==
    /\ window = "open" /\ "backend" \in enabled
    /\ closed' = ClosedNow
    /\ current' = 0 /\ listed' = FALSE
    /\ enabled' = enabled \ Diagnostics
    /\ UNCHANGED <<window, threads, queue, opened, owner, stuck, workVars, counters>>

\* closeEvent cancels what can be cancelled, tells every running thread to quit
\* and waits for each; meanwhile the GUI handles nothing.
CloseEvent ==
    /\ window = "open" /\ closes < MaxCloses /\ closes' = closes + 1
    /\ window' = "closing"
    /\ tokens' = tokens \cup {w \in threads : job[w].kind \in Diagnostics}
    /\ quits' = quits \cup threads
    /\ UNCHANGED <<enabled, listed, current, threads, queue, busVars, job,
                   starts, faults>>

Running(w) == job[w].at # "over"

\* The buttons after _refresh_operation_controls; a mutant: it only gives back.
RefreshedAlways(left) == enabled \cup Operations
Refreshed(left) == IF left = {} THEN enabled \cup Operations ELSE enabled \ Operations

\* The window goes only without running threads; a mutant: after the wait.
GoesAfterWait(left) == TRUE
Goes(left) == left = {}

\* Each wait ends with its thread or after wait_ms.
StopReturns ==
    /\ window = "closing"
    /\ LET left == {w \in threads : Running(w)}
       IN /\ threads' = left
          /\ enabled' = Refreshed(left)
          /\ window' = IF Goes(left) THEN "gone" ELSE "open"
    /\ UNCHANGED <<listed, current, queue, busVars, workVars, counters>>

-------------------------------------------------------------------------------
(* The workers.                                                            *)

\* The buttons the lambdas connected to finished give back; a mutant: a UDS
\* worker gives only its own back.
ButtonsOfOwn(kind) == IF kind \in Diagnostics THEN {"uds"} ELSE {kind}
ButtonsOf(kind) ==
    CASE kind = "uds"   -> {"uds"} \cup (IF current # 0 THEN {"flash"} ELSE {})
      [] kind = "flash" -> Diagnostics
      [] OTHER          -> {kind}

\* finished is connected to the thread's quit; a mutant: it is not.
QuitLost(w) == <<>>
QuitPosted(w) == <<<<"quit", w>>>>

\* run() ends: its result is posted, then finished is emitted.  Where a lambda
\* without a receiver runs depends on PySide6: in the worker's thread at once or
\* as an event.  quit is an event, as the QThread belongs to the GUI's thread.
Ends(w, posted) ==
    /\ job' = [job EXCEPT ![w].at = "ended"]
    /\ \/ /\ enabled' = enabled \cup ButtonsOf(job[w].kind)
          /\ queue' = queue \o posted \o QuitPosted(w)
       \/ /\ queue' = queue \o posted \o <<<<"buttons", job[w].kind>>>> \o QuitPosted(w)
          /\ UNCHANGED enabled
    /\ UNCHANGED <<window, listed, current, threads, tokens, quits, starts, closes>>

Moves(w, at) ==
    /\ job' = [job EXCEPT ![w].at = at]
    /\ UNCHANGED <<guiVars, tokens, quits, starts, closes>>

At(w, kind, at) == job[w].kind = kind /\ job[w].at = at

LogFails == faults < MaxFaults /\ faults' = faults + 1

\* scan() and connect() return or raise.
Scan(w) ==
    /\ At(w, "scan", "start")
    /\ \E posted \in {<<>>, <<<<"listed", w>>>>} : Ends(w, posted)
    /\ UNCHANGED <<busVars, faults>>

Connect(w) ==
    /\ At(w, "connect", "start")
    /\ \/ /\ opened < MaxSessions /\ opened' = opened + 1
          /\ Ends(w, <<<<"connected", opened + 1>>>>)
       \/ Ends(w, <<>>) /\ UNCHANGED opened
    /\ UNCHANGED <<closed, owner, stuck, faults>>

\* enter_diag_exclusive; a mutant: it does not look at the owner.
EnterUnchecked(s) == owner[s] \in {"none", "uds", "flash"}
MayEnter(s) == owner[s] = "none"

\* request_uds: the token is seen, the channel is busy, or it is taken.
UdsEnters(w) ==
    /\ At(w, "uds", "start")
    /\ \/ /\ (w \in tokens \/ ~MayEnter(job[w].on)) /\ Ends(w, <<>>) /\ UNCHANGED owner
       \/ /\ w \notin tokens /\ MayEnter(job[w].on)
          /\ owner' = [owner EXCEPT ![job[w].on] = "uds"]
          /\ Moves(w, "log")
    /\ UNCHANGED <<opened, closed, stuck, faults>>

\* The log is opened after the channel was taken and outside the try block.
UdsOpensLog(w) ==
    /\ At(w, "uds", "log")
    /\ \/ Moves(w, "work") /\ UNCHANGED <<stuck, faults>>
       \/ LogFails /\ Ends(w, <<>>) /\ stuck' = stuck \cup {job[w].on}
    /\ UNCHANGED <<opened, closed, owner>>

\* release_diag_exclusive in the finally clause.
Released(w) == [owner EXCEPT ![job[w].on] = "none"]

\* The request is answered, fails or is cancelled.  The log is closed before the
\* channel is released.
UdsEnds(w) ==
    /\ At(w, "uds", "work")
    /\ \/ owner' = Released(w) /\ UNCHANGED <<stuck, faults>>
       \/ LogFails /\ stuck' = stuck \cup {job[w].on} /\ UNCHANGED owner
    /\ Ends(w, <<>>)
    /\ UNCHANGED <<opened, closed>>

\* flash_e68 opens its log and loads the images, which may fail.
FlashLoads(w) ==
    /\ At(w, "flash", "start")
    /\ \/ w \notin tokens /\ Moves(w, "loaded")
       \/ Ends(w, <<>>)
    /\ UNCHANGED <<busVars, faults>>

\* FlashWorkflow.run: busy, or the channel is taken for the whole workflow.
FlashEnters(w) ==
    /\ At(w, "flash", "loaded")
    /\ IF MayEnter(job[w].on)
       THEN /\ owner' = [owner EXCEPT ![job[w].on] = "flash"]
            /\ Moves(w, "work")
       ELSE Ends(w, <<>>) /\ UNCHANGED owner
    /\ UNCHANGED <<opened, closed, stuck, faults>>

\* It succeeds, fails or sees the token; the log is closed afterwards.
FlashEnds(w) ==
    /\ At(w, "flash", "work")
    /\ owner' = Released(w)
    /\ Ends(w, <<>>)
    /\ UNCHANGED <<opened, closed, stuck, faults>>

\* The thread's event loop ends and it posts its own end.
ThreadEnds(w) ==
    /\ job[w].at = "ended" /\ w \in quits
    /\ job' = [job EXCEPT ![w].at = "over"]
    /\ queue' = Append(queue, <<"over", w>>)
    /\ UNCHANGED <<window, enabled, listed, current, threads, busVars, tokens,
                   quits, counters>>

Work(w) ==
    \/ Scan(w) \/ Connect(w) \/ UdsEnters(w) \/ UdsOpensLog(w) \/ UdsEnds(w)
    \/ FlashLoads(w) \/ FlashEnters(w) \/ FlashEnds(w) \/ ThreadEnds(w)

-------------------------------------------------------------------------------
(* The GUI's event loop.                                                   *)

\* The event at the head of the queue.
Event(name) == window = "open" /\ queue # <<>> /\ Head(queue)[1] = name
               /\ queue' = Tail(queue)
Subject == Head(queue)[2]

\* The tree is filled anew, perhaps with nothing.
PopulateDevices ==
    /\ Event("listed") /\ listed' \in BOOLEAN
    /\ UNCHANGED <<window, enabled, current, threads, busVars, workVars, counters>>

OnConnected ==
    /\ Event("connected")
    /\ current' = Subject /\ enabled' = enabled \cup Diagnostics
    /\ UNCHANGED <<window, listed, threads, busVars, workVars, counters>>

GiveButtonsBack ==
    /\ Event("buttons") /\ enabled' = enabled \cup ButtonsOf(Subject)
    /\ UNCHANGED <<window, listed, current, threads, busVars, workVars, counters>>

QuitThread ==
    /\ Event("quit") /\ quits' = quits \cup {Subject}
    /\ UNCHANGED <<window, enabled, listed, current, threads, busVars, job,
                   tokens, counters>>

\* _remove_thread and _refresh_operation_controls.
ThreadFinished ==
    /\ Event("over")
    /\ threads' = threads \ {Subject}
    /\ enabled' = Refreshed(threads \ {Subject})
    /\ job' = [job EXCEPT ![Subject] = NoJob]
    /\ tokens' = tokens \ {Subject} /\ quits' = quits \ {Subject}
    /\ UNCHANGED <<window, listed, current, busVars, counters>>

Handle == PopulateDevices \/ OnConnected \/ GiveButtonsBack \/ QuitThread \/ ThreadFinished

User ==
    \/ ScanClicked \/ ConnectClicked \/ UdsSendClicked \/ FlashStartClicked
    \/ BackendChanged \/ CloseEvent

Next == User \/ StopReturns \/ Handle \/ (\E w \in Slots : Work(w))

Spec == Init /\ [][Next]_vars

\* Every thread runs and its requests have timeouts; the event loop handles what
\* is posted; closeEvent's waits are limited.
FairSpec ==
    /\ Spec /\ WF_vars(Handle) /\ WF_vars(StopReturns)
    /\ \A w \in Slots : WF_vars(Work(w))

-------------------------------------------------------------------------------
(* Properties.                                                             *)

TypeOK ==
    /\ window \in {"open", "closing", "gone"}
    /\ enabled \subseteq Buttons /\ listed \in BOOLEAN
    /\ opened \in 0..MaxSessions /\ current \in 0..opened /\ closed \subseteq 1..opened
    /\ owner \in [Sessions -> {"none"} \cup Diagnostics]
    /\ job \in [Slots -> Job]
    /\ \A w \in Slots : job[w].on \in 0..opened
    /\ tokens \subseteq Slots /\ quits \subseteq Slots /\ threads \subseteq Slots
    /\ queue \in Seq(Events(1..opened))
    /\ stuck \subseteq Sessions

\* A session's channel is used by one worker at a time, whichever buttons were
\* given back while it worked; its owner is always that worker's kind, so that
\* the release never raises; and nobody owns it otherwise, however the worker
\* ended, unless the log failed while it was owned.
OwnerIsAtWork ==
    \A s \in Sessions :
        IF Holders(s) = {} THEN owner[s] = "none" \/ s \in stuck
        ELSE \E w \in Slots : Holders(s) = {w} /\ owner[s] = job[w].kind

\* No worker uses a session that was closed when the backend was changed.
SessionInUseIsOpen == \A s \in closed : Holders(s) = {}

\* The window never goes while a thread runs, which would end the process.
GoneIsQuiet == window = "gone" => \A w \in Slots : job[w].at \in {"none", "over"}

\* When everything has ended, every operation can be chosen again, and the
\* diagnostics exactly when there is a session to use them on.
IdleIsUsable ==
    window = "open" /\ Free = Slots /\ queue = <<>> =>
        enabled = Operations \cup (IF current = 0 THEN {} ELSE Diagnostics)

\* Every worker's thread comes to its end and is taken off the list.
ThreadsEnd == threads # {} ~> threads = {}

\* The design lets one request at a time run on the active channel.  The sessions
\* of two connections share the channel but not the BusSession.
OneRequestPerChannel ==
    \A v, w \in Slots : Uses(v) /\ Uses(w) /\ job[v].at = "work" /\ job[w].at = "work"
        => v = w
===============================================================================
