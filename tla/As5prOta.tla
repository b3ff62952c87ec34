------------------------------- MODULE As5prOta -------------------------------
(***************************************************************************)
(* The AS5PR over-the-air update: As5prOtaStateMachine.run with its        *)
(* identity probe, seen through the outcomes of transport.request, talking *)
(* to an ECU over a bus that loses requests and answers.  A request is     *)
(* three steps (begin, transmit, wait) so that a cancellation, an answer   *)
(* to an earlier request, a timeout or an ECU restart can fall between     *)
(* any two of them; an ECU may serve a request after the tool gave up.     *)
(* Several runs follow one another, each with a freshly opened adapter.    *)
(***************************************************************************)
EXTENDS As5prEcu, Sequences

CONSTANTS
    MaxRuns,     \* bound on the number of OTA runs
    MaxFaults,   \* bound on bus losses, ECU refusals, bad answers and restarts
    MaxBus,      \* requests the ECU's receive buffer holds
    MaxRx,       \* answers the host's receive buffer holds
    Targets      \* what may be connected: {"AS5PR"}, {"AS5PR", "Other"}

ASSUME BoundAssumption ==
    /\ MaxRuns \in Nat /\ MaxFaults \in Nat
    /\ MaxBus \in Nat \ {0} /\ MaxRx \in Nat \ {0}
    /\ Targets \subseteq {"AS5PR", "Other"}

VARIABLES
    step,         \* the request run() is at
    phase,        \* of that request; "idle" between runs
    block,        \* blocks of the current image handed to the transport
    destructive,  \* _destructive_started
    cancelled,    \* the cancellation token of this run
    expired,      \* the post-reset deadline has passed
    odd,          \* this wait discarded an answer to something else
    result,       \* status of the run that ended last, "none" while one runs
    bus,          \* requests the ECU has not served
    rx,           \* answers the host has not read
    ecu, target,  \* the ECU, and whether it is the project's
    runs, claims, \* history: runs so far and the statuses they reported
    disturbed,    \* history: something outside the tool disturbed this run
    confirmed,    \* history: Boot identified itself since the last $10 02
    faults

toolVars == <<step, phase, block, destructive, odd, result, claims, confirmed>>
ecuVars  == <<bus, rx, ecu, target>>
envVars  == <<cancelled, expired, disturbed, faults, runs>>
vars     == <<toolVars, ecuVars, envVars>>

(***************************************************************************)
(* The programming chain: the service each step requests and, where the    *)
(* answer leaves no choice, the step that follows.                         *)
(***************************************************************************)
Service ==
    [probe |-> "ident", default |-> "default", extended |-> "extended",
     appSeed |-> "seed1", appKey |-> "key1", precheck |-> "precheck",
     handover |-> "program", probeBoot |-> "ident", seed |-> "seedF",
     key |-> "keyF", session |-> "program", probeSession |-> "ident",
     seedRetry |-> "seedF", keyRetry |-> "keyF", drvDownload |-> "download",
     drvTransfer |-> "transfer", drvExit |-> "exit", drvRun |-> "run",
     erase |-> "erase", appDownload |-> "download", appTransfer |-> "transfer",
     appExit |-> "exit", auth |-> "auth", reset |-> "reset",
     verify |-> "ident", version |-> "version"]

Steps == DOMAIN Service

Following ==
    [default |-> "extended", extended |-> "appSeed", appSeed |-> "appKey",
     appKey |-> "precheck", precheck |-> "handover", handover |-> "probeBoot",
     seed |-> "key", key |-> "drvDownload", session |-> "probeSession",
     seedRetry |-> "keyRetry", keyRetry |-> "drvDownload",
     drvDownload |-> "drvTransfer", drvTransfer |-> "drvExit",
     drvExit |-> "drvRun", drvRun |-> "erase", erase |-> "appDownload",
     appDownload |-> "appTransfer", appTransfer |-> "appExit",
     appExit |-> "auth", auth |-> "reset", reset |-> "verify"]

Probes     == {"probe", "probeBoot", "probeSession", "verify"}
Downloads  == {"drvDownload", "appDownload"}
Transfers  == {"drvTransfer", "appTransfer"}
AfterErase == {"appDownload", "appTransfer", "appExit", "auth", "reset",
               "verify", "version"}
Programming == {"drvDownload", "drvTransfer", "drvExit", "drvRun", "erase"} \cup AfterErase

AreaOf(s) == CASE s \in {"drvDownload", "drvTransfer", "drvExit"} -> "driver"
               [] s \in {"appDownload", "appTransfer", "appExit"} -> "app"
               [] OTHER -> "none"

SafeStatuses      == {"CANCELLED_SAFE", "PACKAGE_REJECTED", "IDENTITY_REJECTED"}
CommittedStatuses == {"COMPLETED", "COMPLETED_UNVERIFIED"}
Statuses == SafeStatuses \cup CommittedStatuses \cup {"ECU_IN_BOOT", "FAILED_UNKNOWN"}

\* A mutant of RequestOf: the block sequence starts at zero.
RequestOfFromZero(s) ==
    [svc |-> Service[s], area |-> AreaOf(s), run |-> runs,
     seq |-> CASE s \in Transfers -> (block - 1) % SeqMod
               [] s \in {"drvExit", "appExit"} -> block
               [] OTHER -> 0]

RequestOf(s) ==
    [svc |-> Service[s], area |-> AreaOf(s), run |-> runs,
     seq |-> CASE s \in Transfers -> block % SeqMod
               [] s \in {"drvExit", "appExit"} -> block
               [] OTHER -> 0]

\* A mutant of Matches: no prefix holds the routine's status byte.
MatchesAnyStatus(m) == m.svc = Service[step] /\ m.seq = RequestOf(step).seq

\* expect_prefix.  The routines' prefixes hold the status byte, except erase's.
Matches(m) ==
    /\ m.svc = Service[step]
    /\ m.seq = RequestOf(step).seq
    /\ m.svc \in {"precheck", "run", "auth", "exit"} => m.info # "bad"

Init ==
    /\ step = "probe" /\ phase = "idle" /\ block = 0
    /\ destructive = FALSE /\ odd = FALSE /\ result = "none"
    /\ claims = {} /\ confirmed = FALSE
    /\ bus = <<>> /\ rx = <<>>
    /\ ecu \in {FactoryEcu, BlankEcu}
    /\ target \in Targets
    /\ cancelled = FALSE /\ expired = FALSE /\ disturbed = FALSE
    /\ faults = 0 /\ runs = 0

-------------------------------------------------------------------------------
(* How a run moves on or ends.                                             *)

Finish(status) ==
    /\ result' = status /\ claims' = claims \cup {status}
    /\ phase' = "idle" /\ step' = "probe" /\ block' = 0
    /\ UNCHANGED <<destructive, odd>>

\* A mutant of Goto: the identity is not read again after $10 02.
GotoUnprobed(s) ==
    /\ step' = IF s = "probeSession" THEN "seedRetry" ELSE s
    /\ phase' = "ready"
    /\ block' = IF s \in Transfers THEN block + 1
                ELSE IF s \in Downloads THEN 0 ELSE block
    /\ UNCHANGED <<destructive, odd, result, claims>>

Goto(s) ==
    /\ step' = s /\ phase' = "ready"
    /\ block' = IF s \in Transfers THEN block + 1
                ELSE IF s \in Downloads THEN 0 ELSE block
    /\ UNCHANGED <<destructive, odd, result, claims>>

\* Mutants: a status of its own, and every failure reported as safe.
CancelledPlainly == Finish("CANCELLED")
FailSafely == Finish("CANCELLED_SAFE")

\* except OperationCancelled, except Exception.
Cancelled == Finish(IF destructive THEN "ECU_IN_BOOT" ELSE "CANCELLED_SAFE")
Fail      == Finish(IF destructive THEN "FAILED_UNKNOWN" ELSE "CANCELLED_SAFE")

\* What run() does with the status probe_identity returns.
Identity(status) ==
    /\ confirmed' = (status = "BOOT_CONFIRMED")
    /\ CASE step = "probe" ->
              IF status = "APP_CONFIRMED" THEN Goto("default")
              ELSE IF status = "BOOT_CONFIRMED" THEN Goto("seed")
              ELSE Finish("IDENTITY_REJECTED")
         [] step = "probeBoot" ->
              IF status = "BOOT_CONFIRMED" THEN Goto("seed")
              ELSE Finish("IDENTITY_REJECTED")
         [] step = "probeSession" ->
              IF status = "BOOT_CONFIRMED" THEN Goto("seedRetry") ELSE Fail
         [] step = "verify" ->
              IF status = "APP_CONFIRMED" THEN Goto("version")
              ELSE IF status \in {"WRONG_TARGET", "AMBIGUOUS"}
                   THEN Finish("COMPLETED_UNVERIFIED")
              ELSE Goto("verify")

\* A mutant of StatusOf: the target is not compared.
StatusOfAnyTarget(info) == CASE info = "App" -> "APP_CONFIRMED"
                             [] info \in {"Boot", "Wrong"} -> "BOOT_CONFIRMED"
                             [] OTHER -> "AMBIGUOUS"

StatusOf(info) == CASE info = "App"   -> "APP_CONFIRMED"
                    [] info = "Boot"  -> "BOOT_CONFIRMED"
                    [] info = "Wrong" -> "WRONG_TARGET"
                    [] OTHER          -> "AMBIGUOUS"

\* The answer the step was waiting for.
Accepted(m) ==
    IF step \in Probes THEN Identity(StatusOf(m.info))
    ELSE /\ UNCHANGED confirmed
         /\ CASE m.info = "bad" /\ Service[step] \in {"seed1", "seedF", "download"} -> Fail
              [] step = "version" -> Finish("COMPLETED")
              [] step \in Transfers /\ block < BlocksOf(AreaOf(step)) -> Goto(step)
              [] OTHER -> Goto(Following[step])

\* HostToolError(UDS): a negative response, or 0x78 where it is not allowed.
UdsError(m) ==
    IF step \in Probes THEN Identity("AMBIGUOUS")
    ELSE /\ UNCHANGED confirmed
         /\ IF step \in {"seed", "key"} /\ m.kind = "negative" /\ m.info = "7F"
            THEN Goto("session") ELSE Fail

-------------------------------------------------------------------------------
(* The tool's steps.                                                       *)

\* run(package, token) on a newly opened adapter.
Start(matches) ==
    /\ phase = "idle" /\ runs < MaxRuns
    /\ runs' = runs + 1 /\ rx' = <<>>
    /\ destructive' = FALSE /\ odd' = FALSE /\ confirmed' = FALSE
    /\ cancelled' = FALSE /\ expired' = FALSE
    /\ disturbed' = (bus # <<>> \/ target # "AS5PR" \/ ecu.booting)
    /\ step' = "probe" /\ block' = 0
    /\ IF matches
       THEN phase' = "ready" /\ result' = "none" /\ UNCHANGED claims
       ELSE /\ phase' = "idle" /\ result' = "PACKAGE_REJECTED"
            /\ claims' = claims \cup {"PACKAGE_REJECTED"}
    /\ UNCHANGED <<bus, ecu, target, faults>>

\* The post-reset loop ends at its deadline; a mutant: it never does.
NoLoopEnd == FALSE
LoopOver == step = "verify" /\ expired

\* The request that starts the destructive part; a mutant: the flag is raised
\* when the erase has been answered.
DestructiveOnceAnswered(s) == s = "appDownload"
Destructive(s) == s = "erase"

\* A mutant of SeesToken: the token is only looked at between two requests.
SeesTokenBetween == phase = "ready" /\ step \notin Probes

\* Where a set token stops the run: before a request, and inside the transport
\* of every request but the probes, which are given no token.
SeesToken ==
    CASE phase = "ready" -> /\ step \notin {"probeBoot", "probeSession"}
                            /\ ~LoopOver
      [] phase \in {"sending", "waiting"} -> step \notin Probes
      [] OTHER -> FALSE

NoticeCancel ==
    /\ cancelled /\ SeesToken
    /\ Cancelled
    /\ UNCHANGED <<confirmed, ecuVars, envVars>>

GiveUp ==
    /\ phase = "ready" /\ LoopOver
    /\ Finish("COMPLETED_UNVERIFIED")
    /\ UNCHANGED <<confirmed, ecuVars, envVars>>

Begin ==
    /\ phase = "ready"
    /\ ~(cancelled /\ SeesToken)
    /\ ~LoopOver
    /\ phase' = "sending"
    /\ destructive' = (destructive \/ Destructive(step))
    /\ UNCHANGED <<step, block, odd, result, claims, confirmed, ecuVars, envVars>>

\* A request the ECU has no room for is lost.
Transmit ==
    /\ phase = "sending"
    /\ ~(cancelled /\ SeesToken)
    /\ phase' = "waiting" /\ odd' = FALSE
    /\ bus' = IF Len(bus) < MaxBus THEN Append(bus, RequestOf(step)) ELSE bus
    /\ confirmed' = (confirmed /\ Service[step] # "program")
    /\ UNCHANGED <<step, block, destructive, result, claims, rx, ecu, target, envVars>>

Receive ==
    /\ phase = "waiting" /\ rx # <<>>
    /\ ~(cancelled /\ SeesToken)
    /\ rx' = Tail(rx)
    /\ LET m == Head(rx)
           pendingOk == m.kind = "pending" /\ step \in {"erase", "auth"}
       IN CASE pendingOk -> UNCHANGED toolVars
            [] m.kind # "positive" /\ ~pendingOk -> UdsError(m)
            [] m.kind = "positive" /\ Matches(m) -> Accepted(m)
            [] OTHER -> /\ odd' = TRUE
                        /\ UNCHANGED <<step, phase, block, destructive, result,
                                       claims, confirmed>>
    /\ UNCHANGED <<bus, ecu, target, envVars>>

\* The deadline of one request: an exception, which a probe turns into a status.
TimeOut ==
    /\ phase = "waiting"
    /\ IF step \in Probes
       THEN Identity(IF odd THEN "AMBIGUOUS" ELSE "NO_RESPONSE")
       ELSE Fail /\ UNCHANGED confirmed
    /\ disturbed' = TRUE
    /\ UNCHANGED <<ecuVars, cancelled, expired, faults, runs>>

ToolStep == NoticeCancel \/ GiveUp \/ Begin \/ Transmit \/ Receive \/ TimeOut

-------------------------------------------------------------------------------
(* The user, the clock, the bus and the ECU.                               *)

Cancel ==
    /\ phase # "idle" /\ ~cancelled
    /\ cancelled' = TRUE /\ disturbed' = TRUE
    /\ UNCHANGED <<toolVars, ecuVars, expired, faults, runs>>

DeadlinePasses ==
    /\ phase # "idle" /\ step = "verify" /\ ~expired
    /\ expired' = TRUE /\ disturbed' = TRUE
    /\ UNCHANGED <<toolVars, ecuVars, cancelled, faults, runs>>

Deliver(m) == rx' = IF Len(rx) < MaxRx THEN Append(rx, m) ELSE rx

EcuServe ==
    /\ bus # <<>> /\ bus' = Tail(bus)
    /\ LET q == Head(bus)
           known == target = "AS5PR"
           info == IF q.svc # "ident" THEN "ok"
                   ELSE IF known THEN ecu.role ELSE "Wrong"
       IN IF Accepts(ecu, q) /\ (known \/ q.svc = "ident")
          THEN ecu' = After(ecu, q) /\ Deliver(Positive(q, info))
          ELSE UNCHANGED ecu /\ Deliver(Refusal(ecu, q))
    /\ UNCHANGED <<toolVars, target, envVars>>

EcuStillBusy ==
    /\ bus # <<>> /\ Head(bus).svc \in {"erase", "auth"} /\ Len(rx) < MaxRx
    /\ Deliver(Pending(Head(bus)))
    /\ UNCHANGED <<toolVars, bus, ecu, target, envVars>>

EcuStartsApp ==
    /\ ecu.booting
    /\ ecu' = [ecu EXCEPT !.role = "App", !.booting = FALSE]
    /\ UNCHANGED <<toolVars, bus, rx, target, envVars>>

Fault ==
    /\ faults < MaxFaults /\ faults' = faults + 1 /\ disturbed' = TRUE
    /\ UNCHANGED <<target, cancelled, expired, runs>>

LoseRequest ==
    /\ bus # <<>> /\ bus' = Tail(bus)
    /\ Fault /\ UNCHANGED <<toolVars, rx, ecu>>

LoseAnswer ==
    /\ rx # <<>> /\ rx' = Tail(rx)
    /\ Fault /\ UNCHANGED <<toolVars, bus, ecu>>

\* The ECU refuses a request, or answers one it did not carry out.
EcuRefuses ==
    /\ bus # <<>> /\ bus' = Tail(bus)
    /\ \/ Deliver(Negative(Head(bus), "7F"))
       \/ Deliver(Negative(Head(bus), "other"))
       \/ Head(bus).svc \in Qualified /\ Deliver(Positive(Head(bus), "bad"))
    /\ Fault /\ UNCHANGED <<toolVars, ecu>>

EcuRestarts ==
    /\ ecu' = Restarted(ecu) /\ bus' = <<>>
    /\ Fault /\ UNCHANGED <<toolVars, rx>>

\* The adapter rejects the frame: DEVICE errors pass through a probe, TRANSPORT
\* errors (no flow control) make it report no response.
SendFails ==
    /\ phase = "sending"
    /\ \/ step \in Probes /\ Identity("NO_RESPONSE")
       \/ Fail /\ UNCHANGED confirmed
    /\ Fault /\ UNCHANGED <<bus, rx, ecu>>

Environment ==
    \/ Cancel \/ DeadlinePasses \/ EcuServe \/ EcuStillBusy \/ EcuStartsApp
    \/ LoseRequest \/ LoseAnswer \/ EcuRefuses \/ EcuRestarts \/ SendFails

Next == (\E matches \in BOOLEAN : Start(matches)) \/ ToolStep \/ Environment

Spec == Init /\ [][Next]_vars

(***************************************************************************)
(* The thread that runs the state machine keeps running, and the clock     *)
(* reaches the deadline of a request and of the post-reset loop.  Nothing  *)
(* is assumed of the ECU, the bus or the user.                             *)
(***************************************************************************)
FairSpec ==
    /\ Spec /\ WF_vars(ToolStep) /\ WF_vars(TimeOut) /\ WF_vars(DeadlinePasses)

-------------------------------------------------------------------------------
(* Properties.                                                             *)

TypeOK ==
    /\ step \in Steps /\ phase \in {"idle", "ready", "sending", "waiting"}
    /\ block \in Nat
    /\ destructive \in BOOLEAN /\ odd \in BOOLEAN /\ confirmed \in BOOLEAN
    /\ cancelled \in BOOLEAN /\ expired \in BOOLEAN /\ disturbed \in BOOLEAN
    /\ result \in Statuses \cup {"none"} /\ claims \subseteq Statuses
    /\ bus \in Seq(Request) /\ rx \in Seq(Response)
    /\ ecu \in Ecu /\ target \in Targets
    /\ runs \in Nat /\ faults \in Nat

\* Some run has told, or is bound to tell, that the App flash may be lost.
Exposed == destructive \/ ~(claims \subseteq SafeStatuses)

\* The App flash changes only under a run that has set _destructive_started, or
\* after one that reported an unsafe status: an ECU that carries out an erase
\* or a download long after the tool gave up never contradicts a run that said
\* CANCELLED_SAFE.  This is why the flag is set before the request is handed to
\* the transport and not when the answer arrives.
DamageIsDeclared == [][ecu'.app # ecu.app => Exposed]_vars

\* COMPLETED and COMPLETED_UNVERIFIED are only reported when the App of this
\* very run was authenticated, whatever answers to earlier requests arrived.
CommittedVerdicts ==
    result \in CommittedStatuses => ecu.app = "valid" /\ ecu.image = runs

\* From the first download on, Boot has identified itself since the last change
\* to the programming session: neither the answer to $10 02 nor an identity
\* read before it opens the programming chain.
IdentityBeforeProgramming ==
    phase # "idle" /\ step \in Programming \ {"verify", "version"} => confirmed

\* An ECU of another project is never sent anything but the identity request.
OtherEcuIsOnlyProbed ==
    target = "Other" => \A i \in DOMAIN bus : bus[i].svc = "ident"

\* Once the token is set, no request leaves the host any more, except an
\* identity probe, which changes nothing in the ECU.
CancelStopsRequests ==
    [][cancelled /\ Len(bus') > Len(bus) => bus'[Len(bus')].svc = "ident"]_vars

\* A run with a matching ECU that nothing disturbs ends with COMPLETED, from
\* whatever state earlier runs left the ECU in: Boot with a blank or half
\* written App, a transfer in progress, the driver running, a session open.
UndisturbedRunCompletes ==
    result \notin {"none", "PACKAGE_REJECTED"} /\ ~disturbed => result = "COMPLETED"

\* Every run ends, though the ECU may stay silent or answer 0x78 for ever.
RunEnds == phase # "idle" ~> phase = "idle"

\* The runs keep the promises of OtaPromise.
Promise == INSTANCE OtaPromise WITH
    Safe <- SafeStatuses, Committed <- CommittedStatuses,
    Unsettled <- {"ECU_IN_BOOT", "FAILED_UNKNOWN"},
    verdict <- result, risk <- destructive, exposed <- Exposed,
    flash <- ecu.app,
    installed <- (runs > 0 /\ ecu.app = "valid" /\ ecu.image = runs)
KeepsPromise == Promise!Spec

\* The design has CANCELLED_SAFE for cancellations before the App handed over
\* to Boot.  The code does not keep this; a run shows how.
CancelledSafeLeavesApp ==
    result = "CANCELLED_SAFE" /\ runs = 1 /\ ecu.image = 0 /\ ecu.app = "valid"
        => ecu.role = "App"
===============================================================================
