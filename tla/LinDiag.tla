------------------------------- MODULE LinDiag -------------------------------
(***************************************************************************)
(* LinDiagTransport: UDS requests in LIN frames of eight bytes, answers in *)
(* single frames that a header asks for.  There is no flow control and no  *)
(* buffer that could be cleared: what a call leaves behind on the bus, in  *)
(* the ECU's assembler or in the slave's answers is met by the next one.   *)
(* The ECU puts a request together as LinUdsRequestAssembler does.         *)
(***************************************************************************)
EXTENDS Integers, Sequences

CONSTANTS
    Cfs,        \* consecutive frames of a request; 0: a single frame
    SnModulus,  \* modulus of the consecutive frames' number (16 in the code)
    MaxCalls,   \* bound on the calls to request()
    MaxFaults   \* bound on losses, garbled frames and negative responses

ASSUME ConstantsAssumption ==
    /\ Cfs \subseteq Nat /\ SnModulus \in Nat \ {0}
    /\ MaxCalls \in Nat /\ MaxFaults \in Nat

\* request_uds passes no prefix and takes any positive answer; the workflow
\* gives a prefix with every request and puts up with invalid answers.
Services == {"uds", "ident", "erase"}
ExpectsPrefix(s) == s # "uds"
IgnoresInvalid(s) == s # "uds"
AllowsPending(s) == s = "erase"

VARIABLES
    pc,        \* where request() is: "idle", "send" or "poll"
    call, svc, cfs, \* number, service and consecutive frames of the current call
    sent,      \* frames sent
    unexpected,\* last_unexpected_response: its category or "none"
    result,    \* what the last call ended with
    cancelled,
    bus,       \* frames on their way to the ECU
    rx,        \* answers the slave has ready, in order
    asm,       \* the request being assembled
    todo,      \* the request the ECU works on
    executed,  \* history: the requests the ECU carried out, in order
    given,     \* history: the call whose answer was returned last
    disturbed, \* history: something went wrong during this call
    leftover,  \* history: a request was left unfinished in the ECU or on the bus
    faults

hostVars == <<pc, call, svc, cfs, sent, unexpected, result, given>>
ecuVars  == <<asm, todo, executed>>
vars     == <<hostVars, cancelled, bus, rx, ecuVars, disturbed, leftover, faults>>

None == [of |-> 0, svc |-> "uds", n |-> 0, got |-> 0, whole |-> TRUE]
Request == [None EXCEPT !.of = call, !.svc = svc, !.n = cfs]

\* _build_request_frames: the k-th frame; pos is history, sn is what it says.
Frame(k) ==
    [type |-> IF cfs = 0 THEN "SF" ELSE IF k = 0 THEN "FF" ELSE "CF",
     pos |-> k, sn |-> k % SnModulus, req |-> Request]

Init ==
    /\ pc = "idle" /\ call = 0 /\ svc = "uds" /\ cfs = 0 /\ sent = 0
    /\ unexpected = "none" /\ result = [outcome |-> "none", of |-> 0]
    /\ cancelled = FALSE /\ given = 0
    /\ bus = <<>> /\ rx = <<>> /\ asm = None /\ todo = None /\ executed = <<>>
    /\ disturbed = FALSE /\ leftover = FALSE /\ faults = 0

-------------------------------------------------------------------------------
(* The host.                                                               *)

Underway == bus # <<>> \/ rx # <<>> \/ todo # None

Start(s, n) ==
    /\ pc = "idle" /\ call < MaxCalls
    /\ pc' = "send" /\ call' = call + 1 /\ svc' = s /\ cfs' = n
    /\ result' = [outcome |-> "none", of |-> 0] /\ cancelled' = FALSE
    /\ disturbed' = Underway
    /\ leftover' = (leftover \/ asm # None \/ bus # <<>>)
    /\ UNCHANGED <<sent, unexpected, given, bus, rx, ecuVars, faults>>

SendFrame ==
    /\ pc = "send" /\ ~cancelled
    /\ bus' = Append(bus, Frame(sent)) /\ sent' = sent + 1
    /\ pc' = IF sent = cfs THEN "poll" ELSE "send"
    /\ UNCHANGED <<call, svc, cfs, unexpected, result, given, cancelled, rx,
                   ecuVars, disturbed, leftover, faults>>

End(outcome, of) ==
    /\ pc' = "idle" /\ result' = [outcome |-> outcome, of |-> of]
    /\ given' = IF outcome = "returned" THEN of ELSE given
    /\ sent' = 0 /\ unexpected' = "none"
    /\ UNCHANGED <<call, svc, cfs>>

Ignored(category) ==
    /\ unexpected' = category
    /\ UNCHANGED <<pc, call, svc, cfs, sent, result, given>>

\* 0x78 is waited for where it is allowed; a mutant: nowhere.
WaitsNever(s) == FALSE
Waits(s) == AllowsPending(s)

\* _poll_response with one frame.  An answer whose length, NAD or type is
\* wrong is "bad"; one with another prefix is remembered in either case.
TakeFrame ==
    /\ pc = "poll" /\ ~cancelled /\ rx # <<>>
    /\ rx' = Tail(rx)
    /\ LET a == Head(rx) IN
         CASE a.info = "bad" /\ IgnoresInvalid(svc) -> Ignored("TRANSPORT")
           [] a.info = "bad" /\ ~IgnoresInvalid(svc) -> End("TRANSPORT", call)
           [] a.info = "pending" /\ Waits(svc) -> UNCHANGED hostVars
           [] a.info = "pending" /\ ~Waits(svc) -> End("UDS", call)
           [] a.info = "negative" -> End("UDS", call)
           [] a.info = "positive" /\ ExpectsPrefix(svc) /\ a.svc # svc -> Ignored("UDS")
           [] OTHER -> End("returned", a.of)
    /\ UNCHANGED <<cancelled, bus, ecuVars, disturbed, leftover, faults>>

\* The deadline is set once: 0x78 does not move it.  It disturbs a call when
\* something is still to come.
ResponseTimeout ==
    /\ pc = "poll" /\ disturbed' = (disturbed \/ Underway)
    /\ End(IF unexpected # "none" THEN unexpected ELSE "TRANSPORT", call)
    /\ UNCHANGED <<cancelled, bus, rx, ecuVars, leftover, faults>>

NoticeCancel ==
    /\ pc # "idle" /\ cancelled
    /\ End("cancelled", call)
    /\ UNCHANGED <<cancelled, bus, rx, ecuVars, disturbed, leftover, faults>>

Host == SendFrame \/ TakeFrame \/ ResponseTimeout \/ NoticeCancel

Cancel ==
    /\ pc # "idle" /\ ~cancelled
    /\ cancelled' = TRUE /\ disturbed' = TRUE
    /\ UNCHANGED <<hostVars, bus, rx, ecuVars, leftover, faults>>

-------------------------------------------------------------------------------
(* The bus and the ECU.                                                    *)

Fault ==
    /\ faults < MaxFaults /\ faults' = faults + 1 /\ disturbed' = TRUE
    /\ UNCHANGED <<hostVars, cancelled, leftover>>

\* feed_frame: a single or a first frame resets what was there before; a
\* consecutive one that is not next is refused and changes nothing.
Fits(f) == asm # None /\ f.sn = (asm.got + 1) % SnModulus
Extended(f) ==
    [asm EXCEPT !.got = @ + 1,
                !.whole = @ /\ f.req = [asm EXCEPT !.got = 0, !.whole = TRUE]
                            /\ f.pos = asm.got + 1]

\* A mutant: a first frame does not reset what another one began.
ResetsWhenEmpty(f) == f.type = "SF" \/ (f.type = "FF" /\ asm = None)
Resets(f) == f.type \in {"SF", "FF"}

Assembled(f) ==
    IF Resets(f) THEN f.req
    ELSE IF f.type = "CF" /\ Fits(f) THEN Extended(f)
    ELSE asm

EcuReceives ==
    /\ bus # <<>> /\ todo = None /\ bus' = Tail(bus)
    /\ LET f == Head(bus)
           a == Assembled(f)
           moved == f.type # "CF" \/ Fits(f)
       IN IF moved /\ a # None /\ a.got = a.n
          THEN /\ asm' = None /\ todo' = a
               /\ executed' = Append(executed, [of |-> a.of, whole |-> a.whole])
          ELSE asm' = a /\ UNCHANGED <<todo, executed>>
    /\ UNCHANGED <<hostVars, cancelled, rx, disturbed, leftover, faults>>

Says(info) == rx' = Append(rx, [of |-> todo.of, svc |-> todo.svc, info |-> info])

EcuAnswers ==
    /\ todo # None /\ Says("positive") /\ todo' = None
    /\ UNCHANGED <<hostVars, cancelled, bus, asm, executed, disturbed, leftover, faults>>

\* Once is enough: every further 0x78 is dropped like the first.
EcuPending ==
    /\ todo # None /\ rx = <<>> /\ Says("pending")
    /\ disturbed' = (disturbed \/ todo.svc # "erase")
    /\ UNCHANGED <<hostVars, cancelled, bus, ecuVars, leftover, faults>>

EcuRefuses ==
    /\ todo # None /\ Says("negative") /\ todo' = None
    /\ Fault /\ UNCHANGED <<bus, asm, executed>>

Lose ==
    /\ \/ rx # <<>> /\ rx' = Tail(rx) /\ UNCHANGED bus
       \/ bus # <<>> /\ bus' = Tail(bus) /\ UNCHANGED rx
    /\ Fault /\ UNCHANGED ecuVars

Garble ==
    /\ rx # <<>> /\ rx' = [rx EXCEPT ![1].info = "bad"]
    /\ Fault /\ UNCHANGED <<bus, ecuVars>>

Environment ==
    Cancel \/ EcuReceives \/ EcuAnswers \/ EcuPending \/ EcuRefuses \/ Lose \/ Garble

Next == (\E s \in Services, n \in Cfs : Start(s, n)) \/ Host \/ Environment

Spec == Init /\ [][Next]_vars

-------------------------------------------------------------------------------
(* Properties.                                                             *)

\* The type invariant; a call sends no frame beyond the last of its request.
TypeOK ==
    /\ pc \in {"idle", "send", "poll"} /\ call \in 0..MaxCalls
    /\ svc \in Services /\ cfs \in Cfs \cup {0} /\ sent \in 0..(cfs + 1)
    /\ unexpected \in {"none", "TRANSPORT", "UDS"}
    /\ result.outcome \in {"none", "returned", "TRANSPORT", "UDS", "cancelled"}
    /\ asm.got \in 0..asm.n

\* A call that nothing disturbs returns the answer to this very call, whatever
\* an earlier call has left in the ECU's assembler.
UndisturbedCallReturns ==
    result.outcome # "none" /\ ~disturbed =>
        result = [outcome |-> "returned", of |-> call]

\* Two requests are mixed into one only when a frame is lost after a request
\* was left unfinished; otherwise the ECU carries out what was asked, in that
\* order, and answers are returned at most once and in order.
Channel == INSTANCE UdsChannel WITH
    asked <- call, open <- (pc # "idle"), returned <- given,
    carried <- [i \in DOMAIN executed |-> executed[i].of],
    intact <- (\A i \in DOMAIN executed : executed[i].whole),
    noise <- (leftover /\ faults > 0)
KeepsChannel == Channel!Spec
===============================================================================
