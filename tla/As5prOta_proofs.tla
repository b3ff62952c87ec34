--------------------------- MODULE As5prOta_proofs ---------------------------
(***************************************************************************)
(* What TLAPS proves of As5prOta for every value of the constants: the     *)
(* types, that the programming chain is only walked behind the identity    *)
(* gate, that the App flash never changes under a run that may say it is   *)
(* safe, that a cancelled run sends nothing more, that another project's   *)
(* ECU is only asked who it is, that COMPLETED speaks of the App of its    *)
(* own run, that the runs implement OtaPromise, and that a run which       *)
(* nothing disturbs completes.                                             *)
(***************************************************************************)
EXTENDS As5prOta, SequenceTheorems, TLAPS

\* The table of the chain is closed: every step has a service, and a successor
\* unless it is a probe or the last one.
LEMMA StepTable ==
    /\ \A s \in Steps : Service[s] \in Services
    /\ \A s \in Steps \ (Probes \cup {"version"}) :
          s \in DOMAIN Following /\ Following[s] \in Steps
    /\ Probes \cup Transfers \cup Downloads \cup AfterErase \cup Programming
          \subseteq Steps
<1>1. \A s \in Steps : Service[s] \in Services
  BY DEF Steps, Service, Services
<1>2. \A s \in Steps \ (Probes \cup {"version"}) :
          s \in DOMAIN Following /\ Following[s] \in Steps
  BY DEF Steps, Service, Following, Probes
<1>3. Probes \cup Transfers \cup Downloads \cup AfterErase \cup Programming
          \subseteq Steps
  BY DEF Steps, Service, Probes, Transfers, Downloads, AfterErase, Programming
<1> QED
  BY <1>1, <1>2, <1>3

\* What _request sends in a step is a request.
LEMMA RequestType ==
    ASSUME NEW s \in Steps, block \in Nat, runs \in Nat
    PROVE  RequestOf(s) \in Request
<1>1. AreaOf(s) \in Areas
  BY DEF AreaOf, Areas
<1>2. block % SeqMod \in Nat
  BY ImageAssumption
<1> QED
  BY <1>1, <1>2, StepTable DEF RequestOf, Request

\* A restart leaves the ECU in a state of the ECU.
LEMMA RestartedType ==
    ASSUME NEW e \in Ecu
    PROVE  Restarted(e) \in Ecu
BY DEF Restarted, Ecu, Areas

\* So does serving any request.
LEMMA EcuTypes ==
    ASSUME NEW e \in Ecu, NEW q \in Request
    PROVE  Restarted(e) \in Ecu /\ After(e, q) \in Ecu
<1>1. Restarted(e) \in Ecu
  BY RestartedType
<1>2. Handover(e) \in Ecu
  BY DEF Handover, Ecu, Areas
<1>3. TransferDone(e) \in Ecu
  BY DEF TransferDone, Ecu, Areas
<1>4. After(e, q) \in Ecu
  <2>1. CASE q.svc \in {"default", "extended"}
    BY <2>1 DEF After, Ecu
  <2>2. CASE q.svc \in {"key1", "keyF"}
    BY <2>2 DEF After, Ecu
  <2>3. CASE q.svc = "program"
    BY <2>3, <1>2 DEF After
  <2>4. CASE q.svc = "download"
    BY <2>4 DEF After, Ecu, Request
  <2>5. CASE q.svc = "transfer"
    BY <2>5 DEF After, Ecu
  <2>6. CASE q.svc = "exit"
    BY <2>6, <1>3 DEF After
  <2>7. CASE q.svc = "run"
    BY <2>7 DEF After, Ecu
  <2>8. CASE q.svc = "erase"
    BY <2>8 DEF After, Ecu, Areas
  <2>9. CASE q.svc = "auth"
    BY <2>9 DEF After, Ecu, Request
  <2>10. CASE q.svc = "reset"
    BY <2>10, <1>1 DEF After
  <2>11. CASE q.svc \in {"ident", "seed1", "precheck", "seedF", "version"}
    BY <2>11 DEF After
  <2> QED
    BY <2>1, <2>2, <2>3, <2>4, <2>5, <2>6, <2>7, <2>8, <2>9, <2>10, <2>11
    DEF Request, Services
<1> QED
  BY <1>1, <1>4

-------------------------------------------------------------------------------
(***************************************************************************)
(* The inductive invariant.  RunOK is about the tool alone: the types of   *)
(* its variables, where in the chain _destructive_started is set, that a   *)
(* destructive run never ends with a safe status, and that the chain past  *)
(* the identity gate is only walked with a confirmed Boot.  WireOK says    *)
(* that nothing that can change the App flash is in flight, or half done   *)
(* in the ECU, unless some run has exposed it.                             *)
(***************************************************************************)
PastGate == (Programming \ {"verify", "version"})
              \cup {"seed", "key", "seedRetry", "keyRetry"}

RunOK ==
    /\ step \in Steps /\ phase \in {"idle", "ready", "sending", "waiting"}
    /\ block \in Nat
    /\ destructive \in BOOLEAN /\ odd \in BOOLEAN /\ confirmed \in BOOLEAN
    /\ result \in Statuses \cup {"none"} /\ claims \subseteq Statuses
    /\ destructive /\ phase = "idle" => ~(claims \subseteq SafeStatuses)
    /\ phase # "idle" =>
         (destructive <=> step \in AfterErase \/ (step = "erase" /\ phase # "ready"))
    /\ phase # "idle" /\ step \in PastGate => confirmed

Reaches(q) == q.svc \in {"erase", "auth"} \/ q.area = "app"

WireOK ==
    /\ \A i \in DOMAIN bus : Reaches(bus[i]) => Exposed
    /\ ecu.area = "app" => Exposed

IInv == TypeOK /\ RunOK /\ WireOK

USE DEF Steps, Service

\* Finishing a run keeps what RunOK says of it.
LEMMA FinishMove ==
    ASSUME RunOK, NEW v \in Statuses, Finish(v), confirmed' \in BOOLEAN,
           destructive => v \notin SafeStatuses
    PROVE  RunOK' /\ (Exposed => Exposed')
BY DEF RunOK, Finish, Exposed

\* Goto keeps the run in the part of the chain its flag stands for.
LEMMA GotoMove ==
    ASSUME RunOK, NEW s \in Steps, Goto(s), confirmed' \in BOOLEAN,
           destructive <=> s \in AfterErase, s \in PastGate => confirmed'
    PROVE  RunOK' /\ (Exposed => Exposed')
BY DEF RunOK, Goto, Exposed

\* So does the mapping of an exception to a status, which looks at the
\* destructive flag.
LEMMA FailMove ==
    ASSUME RunOK, confirmed' \in BOOLEAN, Fail \/ Cancelled
    PROVE  RunOK' /\ (Exposed => Exposed')
<1>1. {"ECU_IN_BOOT", "FAILED_UNKNOWN", "CANCELLED_SAFE"} \subseteq Statuses
  BY DEF Statuses, SafeStatuses
<1>2. {"ECU_IN_BOOT", "FAILED_UNKNOWN"} \cap SafeStatuses = {}
  BY DEF SafeStatuses
<1>3. CASE destructive
  BY <1>1, <1>2, <1>3, FinishMove DEF Fail, Cancelled
<1>4. CASE ~destructive
  BY <1>1, <1>4, FinishMove DEF Fail, Cancelled
<1> QED
  BY <1>3, <1>4

\* So does what a run does with an identity it has read.
LEMMA IdentityMove ==
    ASSUME RunOK, phase \in {"sending", "waiting"}, step \in Probes,
           NEW status, Identity(status)
    PROVE  RunOK' /\ (Exposed => Exposed')
<1>1. confirmed' \in BOOLEAN /\ (confirmed' <=> status = "BOOT_CONFIRMED")
  BY DEF Identity
<1>2. destructive <=> step = "verify"
  BY DEF RunOK, Probes, AfterErase
<1>3. {"IDENTITY_REJECTED", "COMPLETED_UNVERIFIED"} \subseteq Statuses
      /\ "COMPLETED_UNVERIFIED" \notin SafeStatuses
  BY DEF Statuses, SafeStatuses, CommittedStatuses
<1>4. {"default", "seed", "seedRetry"} \cap AfterErase = {}
      /\ {"verify", "version"} \subseteq AfterErase
      /\ {"default", "verify", "version"} \cap PastGate = {}
  BY DEF AfterErase, PastGate, Programming
<1>5. CASE step = "probe"
  <2>1. \/ Goto("default")
        \/ status = "BOOT_CONFIRMED" /\ Goto("seed")
        \/ Finish("IDENTITY_REJECTED")
    BY <1>5 DEF Identity
  <2> QED
    BY <2>1, <1>1, <1>2, <1>3, <1>4, <1>5, GotoMove, FinishMove
<1>6. CASE step = "probeBoot"
  <2>1. \/ status = "BOOT_CONFIRMED" /\ Goto("seed")
        \/ Finish("IDENTITY_REJECTED")
    BY <1>6 DEF Identity
  <2> QED
    BY <2>1, <1>1, <1>2, <1>3, <1>4, <1>6, GotoMove, FinishMove
<1>7. CASE step = "probeSession"
  <2>1. \/ status = "BOOT_CONFIRMED" /\ Goto("seedRetry")
        \/ Fail
    BY <1>7 DEF Identity
  <2> QED
    BY <2>1, <1>1, <1>2, <1>4, <1>7, GotoMove, FailMove
<1>8. CASE step = "verify"
  <2>1. Goto("version") \/ Goto("verify") \/ Finish("COMPLETED_UNVERIFIED")
    BY <1>8 DEF Identity
  <2> QED
    BY <2>1, <1>1, <1>2, <1>3, <1>4, <1>8, GotoMove, FinishMove
<1> QED
  BY <1>5, <1>6, <1>7, <1>8 DEF Probes

\* So does the step after an accepted answer: the chain is entered only at its
\* start.
LEMMA AcceptedMove ==
    ASSUME RunOK, phase = "waiting", NEW m, Accepted(m)
    PROVE  RunOK' /\ (Exposed => Exposed')
<1>1. CASE step \in Probes
  <2>1. Identity(StatusOf(m.info))
    BY <1>1 DEF Accepted
  <2> QED
    BY <1>1, <2>1, IdentityMove
<1>2. CASE step \notin Probes
  <2> USE <1>2
  <2>1. confirmed' = confirmed /\ confirmed' \in BOOLEAN
    BY DEF Accepted, RunOK
  <2>2. \/ Fail
        \/ step = "version" /\ Finish("COMPLETED")
        \/ step \in Transfers /\ Goto(step)
        \/ step # "version" /\ Goto(Following[step])
    BY DEF Accepted
  <2>3. CASE Fail
    BY <2>1, <2>3, FailMove
  <2>4. CASE step = "version" /\ Finish("COMPLETED")
    BY <2>1, <2>4, FinishMove DEF Statuses, SafeStatuses, CommittedStatuses
  <2>5. CASE step \in Transfers /\ Goto(step)
    BY <2>1, <2>5, GotoMove DEF RunOK, Transfers, AfterErase
  <2>6. CASE step # "version" /\ Goto(Following[step])
    <3>1. Following[step] \in Steps
      BY <2>6, StepTable DEF RunOK
    <3>2. destructive <=> Following[step] \in AfterErase
      BY <2>6 DEF RunOK, Following, AfterErase, Probes
    <3>3. Following[step] \in PastGate => confirmed
      BY <2>6 DEF RunOK, Following, PastGate, Programming, AfterErase, Probes
    <3> QED
      BY <2>1, <2>6, <3>1, <3>2, <3>3, GotoMove
  <2> QED
    BY <2>2, <2>3, <2>4, <2>5, <2>6
<1> QED
  BY <1>1, <1>2

\* So does a negative answer, also the NRC 0x7F that repeats $10 02.
LEMMA UdsErrorMove ==
    ASSUME RunOK, phase = "waiting", NEW m, UdsError(m)
    PROVE  RunOK' /\ (Exposed => Exposed')
<1>1. CASE step \in Probes
  BY <1>1, IdentityMove DEF UdsError
<1>2. CASE step \notin Probes
  <2>1. confirmed' = confirmed /\ confirmed' \in BOOLEAN
    BY <1>2 DEF UdsError, RunOK
  <2>2. CASE step \in {"seed", "key"} /\ Goto("session")
    <3>1. ~destructive /\ "session" \in Steps \ (AfterErase \cup PastGate)
      BY <2>2 DEF RunOK, AfterErase, PastGate, Programming
    <3> QED
      BY <2>1, <2>2, <3>1, GotoMove
  <2>3. CASE Fail
    BY <2>1, <2>3, FailMove
  <2> QED
    BY <1>2, <2>2, <2>3 DEF UdsError
<1> QED
  BY <1>1, <1>2

\* A tool action keeps RunOK, and never takes an exposure back.
LEMMA ToolKeepsRun ==
    ASSUME RunOK, (\E matches \in BOOLEAN : Start(matches)) \/ ToolStep
    PROVE  RunOK' /\ (Exposed => Exposed')
<1>1. ASSUME NEW matches \in BOOLEAN, Start(matches)
      PROVE  RunOK' /\ (Exposed => Exposed')
  <2>1. "probe" \in Steps \ (AfterErase \cup PastGate)
    BY DEF AfterErase, PastGate, Programming
  <2>2. "PACKAGE_REJECTED" \in Statuses
    BY DEF Statuses, SafeStatuses
  <2>3. step' \in Steps /\ block' \in Nat
    BY <1>1, <2>1 DEF Start
  <2>4. destructive' = FALSE /\ odd' = FALSE /\ confirmed' = FALSE /\ step' = "probe"
    BY <1>1 DEF Start
  <2>5. /\ phase' \in {"idle", "ready"} /\ result' \in Statuses \cup {"none"}
        /\ claims \subseteq claims' /\ claims' \subseteq Statuses
    BY <1>1, <2>2 DEF Start, RunOK
  <2>6. Exposed => Exposed'
    BY <1>1, <2>5 DEF Start, RunOK, Exposed
  <2> QED
    BY <2>1, <2>3, <2>4, <2>5, <2>6 DEF RunOK
<1>2. CASE NoticeCancel
  BY <1>2, FailMove DEF NoticeCancel, RunOK
<1>3. CASE GiveUp
  BY <1>3, FinishMove DEF GiveUp, LoopOver, RunOK, Statuses, CommittedStatuses, SafeStatuses
<1>4. CASE Begin
  <2>1. /\ phase = "ready" /\ phase' = "sending" /\ step' = step
        /\ destructive' = (destructive \/ step = "erase")
        /\ UNCHANGED <<block, odd, result, claims, confirmed>>
    BY <1>4 DEF Begin, Destructive
  <2>2. "erase" \notin AfterErase
    BY DEF AfterErase
  <2> QED
    BY <2>1, <2>2 DEF RunOK, Exposed
<1>5. CASE Transmit
  <2>1. /\ phase = "sending" /\ phase' = "waiting" /\ odd' = FALSE
        /\ confirmed' = (confirmed /\ Service[step] # "program")
        /\ UNCHANGED <<step, block, destructive, result, claims>>
    BY <1>5 DEF Transmit
  <2>2. step \in PastGate => Service[step] # "program"
    BY DEF PastGate, Programming, AfterErase
  <2> QED
    BY <2>1, <2>2 DEF RunOK, Exposed
<1>6. CASE Receive
  <2>1. phase = "waiting"
    BY <1>6 DEF Receive
  <2>2. \/ UNCHANGED toolVars
        \/ UdsError(Head(rx))
        \/ Accepted(Head(rx))
        \/ odd' = TRUE
           /\ UNCHANGED <<step, phase, block, destructive, result, claims, confirmed>>
    BY <1>6 DEF Receive
  <2>3. CASE UNCHANGED toolVars
    BY <2>3 DEF RunOK, toolVars, Exposed
  <2>4. CASE odd' = TRUE
           /\ UNCHANGED <<step, phase, block, destructive, result, claims, confirmed>>
    BY <2>4 DEF RunOK, Exposed
  <2> QED
    BY <2>1, <2>2, <2>3, <2>4, UdsErrorMove, AcceptedMove
<1>7. CASE TimeOut
  <2>1. CASE step \in Probes
    BY <1>7, <2>1, IdentityMove DEF TimeOut
  <2>2. CASE step \notin Probes
    BY <1>7, <2>2, FailMove DEF TimeOut, RunOK
  <2> QED
    BY <2>1, <2>2
<1> QED
  BY <1>1, <1>2, <1>3, <1>4, <1>5, <1>6, <1>7 DEF ToolStep

\* What the bus, the ECU, the clock and the user do leaves the run alone.
LEMMA WorldKeepsRun ==
    ASSUME RunOK, Environment
    PROVE  RunOK' /\ (Exposed => Exposed')
<1>1. CASE SendFails
  <2>1. CASE step \in Probes /\ Identity("NO_RESPONSE")
    BY <1>1, <2>1, IdentityMove DEF SendFails
  <2>2. CASE Fail /\ UNCHANGED confirmed
    BY <2>2, FailMove DEF RunOK
  <2> QED
    BY <1>1, <2>1, <2>2 DEF SendFails
<1>2. CASE ~SendFails
  <2>1. UNCHANGED toolVars
    BY <1>2 DEF Environment, Cancel, DeadlinePasses, EcuServe, EcuStillBusy,
                EcuStartsApp, LoseRequest, LoseAnswer, EcuRefuses, EcuRestarts
  <2> QED
    BY <2>1 DEF toolVars, RunOK, Exposed
<1> QED
  BY <1>1, <1>2

-------------------------------------------------------------------------------
(* The bus and the ECU.                                                    *)

\* The receive buffer keeps its type when an answer arrives.
LEMMA DeliverType ==
    ASSUME rx \in Seq(Response), NEW m \in Response, Deliver(m)
    PROVE  rx' \in Seq(Response)
BY DEF Deliver

\* What the ECU answers is a response.
LEMMA AnswerTypes ==
    ASSUME NEW q \in Request, NEW e \in Ecu, NEW info \in Infos
    PROVE  /\ Positive(q, info) \in Response /\ Negative(q, info) \in Response
           /\ Pending(q) \in Response /\ Refusal(e, q) \in Response
BY DEF Positive, Negative, Pending, Refusal, Request, Response, Infos

\* The App flash changes, or a transfer into it opens, only through a request
\* that reaches it or the end of such a transfer.
LEMMA AfterReaches ==
    ASSUME NEW e \in Ecu, NEW q \in Request
    PROVE  /\ After(e, q).app # e.app => Reaches(q) \/ e.area = "app" \/ e.area = "none"
           /\ After(e, q).area = "app" => Reaches(q) \/ e.area = "app"
           /\ Restarted(e).app = e.app /\ Restarted(e).area = "none"
<1>1. Restarted(e).app = e.app /\ Restarted(e).area = "none"
  BY DEF Restarted, Ecu
<1>2. CASE q.svc \in {"erase", "auth"}
  BY <1>1, <1>2 DEF Reaches
<1>3. CASE q.svc = "exit"
  <2>1. After(e, q) = TransferDone(e)
    BY <1>3 DEF After
  <2> QED
    BY <1>1, <2>1 DEF TransferDone, Ecu, Areas
<1>4. CASE q.svc = "download"
  BY <1>1, <1>4 DEF After, Ecu, Reaches
<1>5. CASE q.svc \in {"program", "reset"}
  BY <1>1, <1>5 DEF After, Ecu, Handover
<1>6. CASE q.svc \in {"default", "extended", "key1", "keyF", "transfer", "run"}
  BY <1>1, <1>6 DEF After, Ecu
<1>7. CASE q.svc \in {"ident", "seed1", "precheck", "seedF", "version"}
  BY <1>1, <1>7 DEF After
<1> QED
  BY <1>2, <1>3, <1>4, <1>5, <1>6, <1>7 DEF Request, Services

\* What a step may do to the bus and the ECU: no request appears but the one the
\* run is at, and the ECU changes by serving a request, by restarting or by
\* starting the App.
BusMove ==
    \/ bus' = bus
    \/ bus # <<>> /\ bus' = Tail(bus)
    \/ bus' = <<>>
    \/ Transmit /\ bus' = Append(bus, RequestOf(step))

EcuMove ==
    \/ ecu' = ecu
    \/ bus # <<>> /\ ecu' = After(ecu, Head(bus)) /\ Accepts(ecu, Head(bus))
    \/ ecu' = Restarted(ecu)
    \/ ecu' = [ecu EXCEPT !.role = "App", !.booting = FALSE]

\* Every step moves the bus and the ECU in one of these ways.
LEMMA WireSteps ==
    ASSUME TypeOK, Next
    PROVE  BusMove /\ EcuMove /\ rx' \in Seq(Response) /\ target' = target
<1> USE DEF TypeOK, BusMove, EcuMove
<1>1. CASE \E matches \in BOOLEAN : Start(matches)
  <2>1. UNCHANGED <<bus, ecu, target>> /\ rx' = <<>>
    BY <1>1 DEF Start
  <2> QED
    BY <2>1
<1>2. CASE NoticeCancel \/ GiveUp \/ Begin \/ TimeOut \/ Cancel \/ DeadlinePasses
  BY <1>2 DEF NoticeCancel, GiveUp, Begin, TimeOut, Cancel, DeadlinePasses, ecuVars
<1>3. CASE Transmit
  <2>1. UNCHANGED <<rx, ecu, target>>
        /\ (bus' = bus \/ bus' = Append(bus, RequestOf(step)))
    BY <1>3 DEF Transmit
  <2> QED
    BY <1>3, <2>1
<1>4. CASE Receive
  <2>1. UNCHANGED <<bus, ecu, target>> /\ rx # <<>> /\ rx' = Tail(rx)
    BY <1>4 DEF Receive
  <2> QED
    BY <2>1
<1>5. CASE EcuServe
  <2>1. bus # <<>> /\ bus' = Tail(bus) /\ target' = target /\ Head(bus) \in Request
    BY <1>5 DEF EcuServe
  <2>2. ecu.role \in Infos /\ "Wrong" \in Infos /\ "ok" \in Infos
    BY DEF Ecu, Infos
  <2>3. \/ Accepts(ecu, Head(bus)) /\ ecu' = After(ecu, Head(bus))
             /\ \E info \in Infos : Deliver(Positive(Head(bus), info))
        \/ ecu' = ecu /\ Deliver(Refusal(ecu, Head(bus)))
    BY <1>5, <2>2 DEF EcuServe
  <2>4. rx' \in Seq(Response)
    BY <2>1, <2>2, <2>3, AnswerTypes, DeliverType
  <2> QED
    BY <2>1, <2>3, <2>4
<1>6. CASE EcuStillBusy
  <2>1. Head(bus) \in Request /\ Deliver(Pending(Head(bus)))
        /\ UNCHANGED <<bus, ecu, target>>
    BY <1>6 DEF EcuStillBusy
  <2>2. "ok" \in Infos
    BY DEF Infos
  <2> QED
    BY <2>1, <2>2, AnswerTypes, DeliverType
<1>7. CASE EcuStartsApp
  BY <1>7 DEF EcuStartsApp
<1>8. CASE LoseRequest \/ LoseAnswer \/ EcuRestarts
  <2>1. CASE LoseRequest
    BY <2>1 DEF LoseRequest, Fault
  <2>2. CASE LoseAnswer
    <3>1. UNCHANGED <<bus, ecu, target>> /\ rx # <<>> /\ rx' = Tail(rx)
      BY <2>2 DEF LoseAnswer, Fault
    <3> QED
      BY <3>1
  <2>3. CASE EcuRestarts
    BY <2>3 DEF EcuRestarts, Fault
  <2> QED
    BY <1>8, <2>1, <2>2, <2>3
<1>9. CASE EcuRefuses
  <2>1. bus # <<>> /\ bus' = Tail(bus) /\ UNCHANGED <<ecu, target>>
        /\ Head(bus) \in Request
    BY <1>9 DEF EcuRefuses, Fault
  <2>2. {"7F", "other", "bad"} \subseteq Infos
    BY DEF Infos
  <2>3. rx' \in Seq(Response)
    BY <1>9, <2>1, <2>2, AnswerTypes, DeliverType DEF EcuRefuses
  <2> QED
    BY <2>1, <2>3
<1>10. CASE SendFails
  BY <1>10 DEF SendFails, Fault
<1> QED
  BY <1>1, <1>2, <1>3, <1>4, <1>5, <1>6, <1>7, <1>8, <1>9, <1>10
  DEF Next, ToolStep, Environment

\* The flags and counters of the environment keep their types.
LEMMA ClockTypes ==
    ASSUME TypeOK, Next
    PROVE  /\ cancelled' \in BOOLEAN /\ expired' \in BOOLEAN /\ disturbed' \in BOOLEAN
           /\ runs' \in Nat /\ faults' \in Nat
<1> USE DEF TypeOK
<1>1. CASE \E matches \in BOOLEAN : Start(matches)
  <2>1. cancelled' = FALSE /\ expired' = FALSE /\ runs' = runs + 1 /\ faults' = faults
    BY <1>1 DEF Start
  <2>2. disturbed' = (bus # <<>> \/ target # "AS5PR" \/ ecu.booting)
    BY <1>1 DEF Start
  <2>3. disturbed' \in BOOLEAN
    BY <2>2, Zenon
  <2>4. runs' \in Nat /\ faults' \in Nat
    BY <2>1
  <2>5. cancelled' \in BOOLEAN /\ expired' \in BOOLEAN
    BY <2>1
  <2> QED
    BY <2>3, <2>4, <2>5, Zenon
<1>2. CASE NoticeCancel \/ GiveUp \/ Begin \/ Transmit \/ Receive \/ TimeOut
  <2>1. UNCHANGED <<cancelled, expired, faults, runs>>
        /\ (disturbed' = disturbed \/ disturbed' = TRUE)
    BY <1>2 DEF NoticeCancel, GiveUp, Begin, Transmit, Receive, TimeOut, envVars
  <2> QED
    BY <2>1
<1>3. CASE Cancel \/ DeadlinePasses
  BY <1>3 DEF Cancel, DeadlinePasses
<1>4. CASE EcuServe \/ EcuStillBusy \/ EcuStartsApp
  <2>1. UNCHANGED envVars
    BY <1>4 DEF EcuServe, EcuStillBusy, EcuStartsApp
  <2> QED
    BY <2>1 DEF envVars
<1>5. CASE LoseRequest \/ LoseAnswer \/ EcuRefuses \/ EcuRestarts \/ SendFails
  <2>1. Fault
    BY <1>5 DEF LoseRequest, LoseAnswer, EcuRefuses, EcuRestarts, SendFails
  <2> QED
    BY <2>1 DEF Fault
<1> QED
  BY <1>1, <1>2, <1>3, <1>4, <1>5 DEF Next, ToolStep, Environment

\* Every step keeps the inductive invariant.
LEMMA StepKeepsIInv ==
    ASSUME IInv, Next
    PROVE  IInv'
<1>0. TypeOK /\ RunOK /\ WireOK
  BY DEF IInv
<1>1. RunOK' /\ (Exposed => Exposed')
  BY <1>0, ToolKeepsRun, WorldKeepsRun DEF Next
<1>2. bus \in Seq(Request) /\ ecu \in Ecu
  BY <1>0 DEF TypeOK
<1>3. bus' \in Seq(Request)
  <2>1. RequestOf(step) \in Request
    BY <1>0, RequestType DEF TypeOK
  <2>2. BusMove
    BY <1>0, WireSteps
  <2>3. bus # <<>> => Tail(bus) \in Seq(Request)
    BY <1>2
  <2>4. Append(bus, RequestOf(step)) \in Seq(Request) /\ <<>> \in Seq(Request)
    BY <1>2, <2>1
  <2> QED
    BY <1>2, <2>2, <2>3, <2>4 DEF BusMove
<1>4. ecu' \in Ecu
  <2>1. [ecu EXCEPT !.role = "App", !.booting = FALSE] \in Ecu
    BY <1>2 DEF Ecu
  <2>2. bus # <<>> => Head(bus) \in Request
    BY <1>2
  <2>3. \A q \in Request : Restarted(ecu) \in Ecu /\ After(ecu, q) \in Ecu
    BY <1>2, EcuTypes
  <2>4. EcuMove /\ Restarted(ecu) \in Ecu
    BY <1>0, <1>2, WireSteps, RestartedType
  <2> QED
    BY <1>2, <2>1, <2>2, <2>3, <2>4 DEF EcuMove
<1>5. TypeOK'
  BY <1>0, <1>1, <1>3, <1>4, WireSteps, ClockTypes DEF TypeOK, RunOK
<1>6. \A i \in DOMAIN bus' : Reaches(bus'[i]) => Exposed'
  <2>1. CASE Transmit /\ bus' = Append(bus, RequestOf(step))
    <3>1. Reaches(RequestOf(step)) => destructive
      BY <1>0, <2>1 DEF Transmit, Reaches, RequestOf, AreaOf, RunOK, AfterErase
    <3>2. \A i \in DOMAIN bus' : \/ i \in DOMAIN bus /\ bus'[i] = bus[i]
                                 \/ bus'[i] = RequestOf(step)
      BY <1>2, <2>1
    <3> QED
      BY <1>0, <1>1, <3>1, <3>2 DEF WireOK, Exposed
  <2>2. CASE bus # <<>> /\ bus' = Tail(bus)
    <3>1. \A i \in DOMAIN bus' : i + 1 \in DOMAIN bus /\ bus'[i] = bus[i + 1]
      BY <1>2, <2>2
    <3> QED
      BY <1>0, <1>1, <3>1 DEF WireOK
  <2>3. CASE bus' = bus
    BY <1>0, <1>1, <2>3 DEF WireOK
  <2>4. CASE bus' = <<>>
    BY <2>4
  <2> QED
    BY <1>0, <2>1, <2>2, <2>3, <2>4, WireSteps DEF BusMove
<1>7. ecu'.area = "app" => Exposed'
  <2>1. bus # <<>> => Head(bus) \in Request /\ (Reaches(Head(bus)) => Exposed)
    BY <1>0, <1>2 DEF WireOK
  <2>2. [ecu EXCEPT !.role = "App", !.booting = FALSE].area = ecu.area
    BY <1>2 DEF Ecu
  <2>3. Restarted(ecu).area = "none"
    BY <1>2 DEF Restarted, Ecu
  <2>4. \A q \in Request : After(ecu, q).area = "app" => Reaches(q) \/ ecu.area = "app"
    BY <1>2, AfterReaches
  <2>5. EcuMove
    BY <1>0, WireSteps
  <2> QED
    BY <1>0, <1>1, <2>1, <2>2, <2>3, <2>4, <2>5 DEF WireOK, EcuMove
<1> QED
  BY <1>1, <1>5, <1>6, <1>7 DEF IInv, WireOK

\* It holds initially.
LEMMA InitIInv == Init => IInv
<1> SUFFICES ASSUME Init PROVE IInv
  OBVIOUS
<1>1. FactoryEcu \in Ecu /\ BlankEcu \in Ecu
  BY DEF FactoryEcu, BlankEcu, Ecu, Areas
<1>2. FactoryEcu.area = "none" /\ BlankEcu.area = "none"
  BY DEF FactoryEcu, BlankEcu
<1>3. ecu \in Ecu /\ ecu.area = "none" /\ bus = <<>>
  BY <1>1, <1>2 DEF Init
<1>4. RunOK
  BY DEF Init, RunOK
<1>5. TypeOK
  <2>1. bus \in Seq(Request) /\ rx \in Seq(Response)
    BY DEF Init
  <2>2. /\ cancelled \in BOOLEAN /\ expired \in BOOLEAN /\ disturbed \in BOOLEAN
        /\ target \in Targets /\ runs \in Nat /\ faults \in Nat
    BY DEF Init
  <2> QED
    BY <1>3, <1>4, <2>1, <2>2 DEF TypeOK, RunOK
<1>6. WireOK
  BY <1>3 DEF WireOK
<1> QED
  BY <1>4, <1>5, <1>6 DEF IInv

\* A stuttering step keeps it.
LEMMA StutterKeepsIInv == IInv /\ UNCHANGED vars => IInv'
BY DEF IInv, TypeOK, RunOK, WireOK, Exposed, vars, toolVars, ecuVars, envVars

\* The inductive invariant holds in every reachable state of every instance.
THEOREM Inductive == Spec => []IInv
<1>1. IInv /\ [Next]_vars => IInv'
  BY StepKeepsIInv, StutterKeepsIInv
<1> QED
  BY InitIInv, <1>1, PTL DEF Spec

\* The types of the OTA run, of what is in flight and of the ECU, for any
\* number of runs, faults and blocks.
THEOREM TypeCorrect == Spec => []TypeOK
<1>1. IInv => TypeOK
  BY DEF IInv
<1> QED
  BY <1>1, Inductive, PTL

\* Neither the answer to $10 02 nor an identity read before it opens the
\* programming chain of _program.
THEOREM IdentityGate == Spec => []IdentityBeforeProgramming
<1>1. IInv => IdentityBeforeProgramming
  BY DEF IInv, RunOK, IdentityBeforeProgramming, PastGate
<1> QED
  BY <1>1, Inductive, PTL

\* A step that changes the App flash is the ECU's, and serves a request that
\* only an exposed run has sent.
LEMMA DamageStep ==
    ASSUME IInv, Next, ecu'.app # ecu.app
    PROVE  Exposed
<1>1. ecu \in Ecu /\ bus \in Seq(Request)
  BY DEF IInv, TypeOK
<1>2. PICK q \in Request : /\ bus # <<>> /\ q = Head(bus)
                           /\ ecu' = After(ecu, q) /\ Accepts(ecu, q)
  <2>1. [ecu EXCEPT !.role = "App", !.booting = FALSE].app = ecu.app
    BY <1>1 DEF Ecu
  <2>2. Restarted(ecu).app = ecu.app
    BY <1>1 DEF Restarted, Ecu
  <2>3. EcuMove
    BY WireSteps DEF IInv
  <2>4. bus # <<>> => Head(bus) \in Request
    BY <1>1
  <2>5. bus # <<>> /\ ecu' = After(ecu, Head(bus)) /\ Accepts(ecu, Head(bus))
    BY <2>1, <2>2, <2>3 DEF EcuMove
  <2> QED
    BY <2>4, <2>5
<1>3. CASE ecu.area = "none"
  <2>1. CASE q.svc = "exit"
    BY <1>2, <1>3, <2>1 DEF Accepts
  <2>2. CASE q.svc \in {"default", "extended", "key1", "keyF", "transfer", "run", "download"}
    BY <1>1, <1>2, <2>2 DEF After, Ecu
  <2>3. CASE q.svc \in {"program", "reset"}
    BY <1>1, <1>2, <2>3 DEF After, Handover, Restarted, Ecu
  <2>4. CASE q.svc \in {"ident", "seed1", "precheck", "seedF", "version"}
    BY <1>2, <2>4 DEF After
  <2>5. CASE q.svc \in {"erase", "auth"}
    BY <1>1, <1>2, <2>5 DEF IInv, WireOK, Reaches
  <2> QED
    BY <2>1, <2>2, <2>3, <2>4, <2>5 DEF Request, Services
<1>4. CASE ecu.area # "none"
  BY <1>1, <1>2, <1>4, AfterReaches DEF IInv, WireOK
<1> QED
  BY <1>3, <1>4

\* The App flash changes only under a run that has set _destructive_started or
\* after one that reported an unsafe status, whatever is lost, late or repeated.
THEOREM NoUndeclaredDamage == Spec => DamageIsDeclared
<1>1. IInv /\ [Next]_vars => [ecu'.app # ecu.app => Exposed]_vars
  BY DamageStep
<1> QED
  BY <1>1, Inductive, PTL DEF Spec, DamageIsDeclared

\* A set cancellation token stops every request but the identity probe.
THEOREM CancellationStops == Spec => CancelStopsRequests
<1>1. IInv /\ [Next]_vars =>
        [cancelled /\ Len(bus') > Len(bus) => bus'[Len(bus')].svc = "ident"]_vars
  <2> SUFFICES ASSUME IInv, Next, cancelled, Len(bus') > Len(bus)
               PROVE  bus'[Len(bus')].svc = "ident"
    OBVIOUS
  <2>1. bus \in Seq(Request) /\ RequestOf(step) \in Request
    BY RequestType DEF IInv, TypeOK
  <2>2. Transmit /\ bus' = Append(bus, RequestOf(step))
    <3>1. BusMove
      BY WireSteps DEF IInv
    <3>2. Len(<<>>) <= Len(bus) /\ (bus # <<>> => Len(Tail(bus)) <= Len(bus))
      BY <2>1
    <3> QED
      BY <2>1, <3>1, <3>2 DEF BusMove
  <2>3. step \in Probes
    BY <2>2 DEF Transmit, SeesToken
  <2>4. RequestOf(step).svc = "ident"
    BY <2>3 DEF RequestOf, Probes
  <2> QED
    BY <2>1, <2>2, <2>4
<1> QED
  BY <1>1, Inductive, PTL DEF Spec, CancelStopsRequests
-------------------------------------------------------------------------------
(***************************************************************************)
(* An ECU of another project.  The run never leaves its first probe: none  *)
(* of the answers that may be on their way confirms an identity, and every *)
(* other outcome of the probe ends the run.                                *)
(***************************************************************************)

\* An answer that identifies the project's App or its Boot.
Confirms(m) == m.kind = "positive" /\ m.info \in {"App", "Boot"}

OtherOK ==
    target = "Other" =>
        /\ step = "probe"
        /\ \A i \in DOMAIN bus : bus[i].svc = "ident"
        /\ \A i \in DOMAIN rx : ~Confirms(rx[i])

\* The first probe has one way on, a confirmed identity.
LEMMA ProbeStays ==
    ASSUME step = "probe", NEW status, status \notin {"APP_CONFIRMED", "BOOT_CONFIRMED"},
           Identity(status)
    PROVE  step' = "probe"
BY DEF Identity, Finish

\* So a step of the tool, or of an adapter that fails, leaves the run at it.
LEMMA StepStays ==
    ASSUME IInv, OtherOK, Next, target = "Other"
    PROVE  step' = "probe"
<1>1. step = "probe" /\ step \in Probes
  BY DEF OtherOK, Probes
<1>2. CASE \E matches \in BOOLEAN : Start(matches)
  BY <1>2 DEF Start
<1>3. CASE NoticeCancel \/ GiveUp
  BY <1>3 DEF NoticeCancel, GiveUp, Cancelled, Finish
<1>4. CASE Begin \/ Transmit
  BY <1>1, <1>4 DEF Begin, Transmit
<1>5. CASE Receive
  <2>1. rx # <<>> /\ Head(rx) = rx[1] /\ 1 \in DOMAIN rx
    BY <1>5 DEF Receive, IInv, TypeOK
  <2>2. ~Confirms(Head(rx))
    BY <2>1 DEF OtherOK
  <2>3. \/ UNCHANGED step
        \/ UdsError(Head(rx))
        \/ Head(rx).kind = "positive" /\ Accepted(Head(rx))
    BY <1>5 DEF Receive, toolVars
  <2>4. UdsError(Head(rx)) => Identity("AMBIGUOUS")
    BY <1>1 DEF UdsError
  <2>5. Accepted(Head(rx)) => Identity(StatusOf(Head(rx).info))
    BY <1>1 DEF Accepted
  <2>6. Head(rx).kind = "positive" =>
            StatusOf(Head(rx).info) \notin {"APP_CONFIRMED", "BOOT_CONFIRMED"}
    BY <2>2 DEF Confirms, StatusOf
  <2> QED
    BY <1>1, <2>3, <2>4, <2>5, <2>6, ProbeStays
<1>6. CASE TimeOut
  <2>1. Identity("AMBIGUOUS") \/ Identity("NO_RESPONSE")
    BY <1>1, <1>6 DEF TimeOut
  <2> QED
    BY <1>1, <2>1, ProbeStays
<1>7. CASE SendFails
  <2>1. Identity("NO_RESPONSE") \/ Fail
    BY <1>7 DEF SendFails
  <2>2. Fail => step' = "probe"
    BY DEF Fail, Finish
  <2> QED
    BY <1>1, <2>1, <2>2, ProbeStays
<1>8. CASE Cancel \/ DeadlinePasses \/ EcuServe \/ EcuStillBusy \/ EcuStartsApp
           \/ LoseRequest \/ LoseAnswer \/ EcuRefuses \/ EcuRestarts
  BY <1>1, <1>8 DEF Cancel, DeadlinePasses, EcuServe, EcuStillBusy, EcuStartsApp,
     LoseRequest, LoseAnswer, EcuRefuses, EcuRestarts, toolVars
<1> QED
  BY <1>2, <1>3, <1>4, <1>5, <1>6, <1>7, <1>8 DEF Next, ToolStep, Environment

\* What arrives is harmless when the answer is, and nothing else arrives.
LEMMA DeliverHarmless ==
    ASSUME rx \in Seq(Response), NEW m \in Response, Deliver(m), ~Confirms(m),
           \A i \in DOMAIN rx : ~Confirms(rx[i])
    PROVE  \A i \in DOMAIN rx' : ~Confirms(rx'[i])
BY DEF Deliver

\* Such an ECU never confirms an identity.
LEMMA AnswersStay ==
    ASSUME IInv, OtherOK, Next, target = "Other"
    PROVE  \A i \in DOMAIN rx' : ~Confirms(rx'[i])
<1>1. rx \in Seq(Response) /\ bus \in Seq(Request) /\ ecu \in Ecu
  BY DEF IInv, TypeOK
<1>2. \A i \in DOMAIN rx : ~Confirms(rx[i])
  BY DEF OtherOK
<1>3. rx' = rx \/ rx' = <<>> \/ (rx # <<>> /\ rx' = Tail(rx)) =>
          \A i \in DOMAIN rx' : ~Confirms(rx'[i])
  <2>1. CASE rx # <<>> /\ rx' = Tail(rx)
    <3>1. \A i \in DOMAIN rx' : rx'[i] = rx[i + 1] /\ i + 1 \in DOMAIN rx
      BY <1>1, <2>1
    <3> QED
      BY <1>2, <3>1
  <2> QED
    BY <1>2, <2>1
<1>4. bus # <<>> => Head(bus) \in Request
  BY <1>1
<1>5. \A q \in Request :
          /\ Positive(q, "ok") \in Response /\ ~Confirms(Positive(q, "ok"))
          /\ Positive(q, "Wrong") \in Response /\ ~Confirms(Positive(q, "Wrong"))
          /\ Positive(q, "bad") \in Response /\ ~Confirms(Positive(q, "bad"))
          /\ Negative(q, "7F") \in Response /\ ~Confirms(Negative(q, "7F"))
          /\ Negative(q, "other") \in Response /\ ~Confirms(Negative(q, "other"))
          /\ Pending(q) \in Response /\ ~Confirms(Pending(q))
          /\ Refusal(ecu, q) \in Response /\ ~Confirms(Refusal(ecu, q))
  <2>1. {"ok", "Wrong", "bad", "7F", "other"} \subseteq Infos
    BY DEF Infos
  <2> QED
    BY <1>1, <2>1, AnswerTypes DEF Positive, Negative, Pending, Refusal, Confirms
<1>6. CASE EcuServe
  <2>1. \/ Deliver(Positive(Head(bus), "ok")) \/ Deliver(Positive(Head(bus), "Wrong"))
        \/ Deliver(Refusal(ecu, Head(bus)))
    BY <1>6 DEF EcuServe
  <2>2. bus # <<>>
    BY <1>6 DEF EcuServe
  <2> QED
    BY <1>1, <1>2, <1>4, <1>5, <2>1, <2>2, DeliverHarmless
<1>7. CASE EcuStillBusy
  BY <1>1, <1>2, <1>4, <1>5, <1>7, DeliverHarmless DEF EcuStillBusy
<1>8. CASE EcuRefuses
  BY <1>1, <1>2, <1>4, <1>5, <1>8, DeliverHarmless DEF EcuRefuses
<1>9. CASE (\E matches \in BOOLEAN : Start(matches)) \/ ToolStep
  <2>1. rx' = rx \/ rx' = <<>> \/ (rx # <<>> /\ rx' = Tail(rx))
    BY <1>9 DEF Start, ToolStep, NoticeCancel, GiveUp, Begin, Transmit, Receive,
       TimeOut, ecuVars
  <2> QED
    BY <1>3, <2>1
<1>10. CASE Cancel \/ DeadlinePasses \/ EcuStartsApp \/ LoseRequest \/ LoseAnswer
            \/ EcuRestarts \/ SendFails
  <2>1. rx' = rx \/ (rx # <<>> /\ rx' = Tail(rx))
    BY <1>10 DEF Cancel, DeadlinePasses, EcuStartsApp, LoseRequest, LoseAnswer,
       EcuRestarts, SendFails, ecuVars
  <2> QED
    BY <1>3, <2>1
<1> QED
  BY <1>6, <1>7, <1>8, <1>9, <1>10 DEF Next, Environment

\* No step takes the run, its requests or its answers further.
LEMMA OtherStep ==
    ASSUME IInv, OtherOK, Next
    PROVE  OtherOK'
<1> SUFFICES ASSUME target' = "Other"
             PROVE  /\ step' = "probe"
                    /\ \A i \in DOMAIN bus' : bus'[i].svc = "ident"
                    /\ \A i \in DOMAIN rx' : ~Confirms(rx'[i])
  BY DEF OtherOK, Confirms
<1>1. target = "Other" /\ BusMove
  BY WireSteps DEF IInv
<1>2. bus \in Seq(Request) /\ RequestOf(step) \in Request
  BY RequestType DEF IInv, TypeOK
<1>3. RequestOf(step).svc = "ident"
  BY <1>1 DEF OtherOK, RequestOf, Service
<1>4. \A i \in DOMAIN bus : bus[i].svc = "ident"
  BY <1>1 DEF OtherOK
<1>5. \A i \in DOMAIN bus' : bus'[i].svc = "ident"
  <2>1. CASE bus # <<>> /\ bus' = Tail(bus)
    <3>1. \A i \in DOMAIN bus' : bus'[i] = bus[i + 1] /\ i + 1 \in DOMAIN bus
      BY <1>2, <2>1
    <3> QED
      BY <1>4, <3>1
  <2>2. CASE bus' = Append(bus, RequestOf(step))
    <3>1. \A i \in DOMAIN bus' : \/ i \in DOMAIN bus /\ bus'[i] = bus[i]
                                \/ bus'[i] = RequestOf(step)
      BY <1>2, <2>2
    <3> QED
      BY <1>3, <1>4, <3>1
  <2>3. CASE bus' = bus \/ bus' = <<>>
    BY <1>4, <2>3
  <2> QED
    BY <1>1, <2>1, <2>2, <2>3 DEF BusMove
<1> QED
  BY <1>1, <1>5, StepStays, AnswersStay

\* An ECU of another project is never sent anything but the identity request,
\* whatever is lost, late or repeated.
THEOREM OtherEcuIsSpared == Spec => []OtherEcuIsOnlyProbed
<1>1. Init => OtherOK
  BY DEF Init, OtherOK
<1>2. IInv /\ OtherOK /\ [Next]_vars => OtherOK'
  <2>1. OtherOK /\ UNCHANGED vars => OtherOK'
    BY DEF OtherOK, Confirms, vars, toolVars, ecuVars
  <2> QED
    BY <2>1, OtherStep
<1>3. OtherOK => OtherEcuIsOnlyProbed
  BY DEF OtherOK, OtherEcuIsOnlyProbed
<1> QED
  BY <1>1, <1>2, <1>3, Inductive, PTL DEF Spec

-------------------------------------------------------------------------------
(***************************************************************************)
(* A run that reports COMPLETED or COMPLETED_UNVERIFIED has installed its  *)
(* own App.  The answers a run accepts may answer requests that an earlier *)
(* run left on the bus, so one has to count: a run accepts an answer at    *)
(* each step, those left over are at most MaxBus, and before the erase it  *)
(* has used up seven.  From the erase on, what it accepts is its own.      *)
(***************************************************************************)

\* The answers a run has used up at least when it reaches a step.
Rank ==
    [probe |-> 0, default |-> 1, extended |-> 2, appSeed |-> 3, appKey |-> 4,
     precheck |-> 5, handover |-> 6, probeBoot |-> 7, seed |-> 1, key |-> 2,
     session |-> 2, probeSession |-> 3, seedRetry |-> 4, keyRetry |-> 5,
     drvDownload |-> 3, drvTransfer |-> 4, drvExit |-> 5, drvRun |-> 6,
     erase |-> 7]

Chain == DOMAIN Rank
UsedUp == Rank[step]
EraseAwaited == step = "erase" /\ phase = "waiting"
Final(m) == m.kind # "pending"

\* Everything under way can be numbered in the order of the requests, what an
\* earlier run left with at most MaxBus and what the run has used up with less
\* than what is to come; an erase of this run is answered last.
AnswersNumbered(r, b, lr, lb, used, top, awaited) ==
    \A i \in 1..Len(r) : Final(r[i]) =>
        /\ lr[i] > used /\ lr[i] <= top
        /\ \A j \in 1..Len(r) : j > i /\ Final(r[j]) => lr[j] > lr[i]
        /\ \A j \in 1..Len(b) : lb[j] > lr[i]
        /\ lr[i] > MaxBus /\ r[i].svc = "erase" => Len(b) = 0 /\ i = Len(r) /\ awaited

RequestsNumbered(b, lb, used, top, awaited) ==
    \A i \in 1..Len(b) :
        /\ lb[i] > used /\ lb[i] <= top
        /\ \A j \in 1..Len(b) : j > i => lb[j] > lb[i]
        /\ lb[i] > MaxBus /\ b[i].svc = "erase" => i = Len(b) /\ awaited

AreNumbered(r, b, used, awaited) ==
    \E lr \in [Nat -> Nat], lb \in [Nat -> Nat], top \in Nat :
        /\ top >= MaxBus
        /\ AnswersNumbered(r, b, lr, lb, used, top, awaited)
        /\ RequestsNumbered(b, lb, used, top, awaited)

Numbered == AreNumbered(rx, bus, UsedUp, EraseAwaited)

\* Nothing is under way but the step's own request or its answer.
Alone ==
    /\ phase # "waiting" => Len(bus) = 0 /\ Len(rx) = 0
    /\ Len(bus) # 0 => Len(bus) = 1 /\ bus[1] = RequestOf(step)
    /\ \A i \in 1..Len(rx) : Final(rx[i]) => i = Len(rx) /\ Len(bus) = 0

Installed == ecu.app = "valid" /\ ecu.image = runs

\* The answer to the authentication is only given when it has worked.
AnswerIsTrue ==
    step = "auth" => \A i \in 1..Len(rx) :
        rx[i].kind = "positive" /\ rx[i].info # "bad" => Installed

\* Nothing that is still under way can undo the installation.
Settled ==
    Installed /\ \A i \in 1..Len(bus) : bus[i].svc \in {"reset", "ident", "version"}

Late    == {"appDownload", "appTransfer", "appExit", "auth"}
Closing == {"reset", "verify", "version"}

OwnOK ==
    /\ Len(bus) <= MaxBus
    /\ ecu.image <= runs /\ \A i \in 1..Len(bus) : bus[i].run <= runs
    /\ phase # "idle" => runs > 0
    /\ phase # "idle" => result = "none"
    /\ phase # "idle" /\ step \in Chain => Numbered
    /\ phase # "idle" /\ step \in Late => Alone /\ AnswerIsTrue
    /\ phase # "idle" /\ step \in Closing => Settled
    /\ result \in CommittedStatuses => Settled

\* What a step may do to the requests and answers under way.
Quiet   == bus' = bus /\ rx' = rx
Read    == rx # <<>> /\ rx' = Tail(rx) /\ bus' = bus
Served(m) ==
    /\ bus # <<>> /\ bus' = Tail(bus) /\ Final(m) /\ m.svc = Head(bus).svc
    /\ rx' = rx \/ rx' = Append(rx, m)
Delayed(m) == bus # <<>> /\ bus' = bus /\ ~Final(m) /\ rx' = Append(rx, m)
Cleared == bus' = <<>> /\ rx' = rx
Traffic ==
    Quiet \/ Read \/ Cleared \/ (\E m \in Response : Served(m) \/ Delayed(m))

\* Every step but the start of a run and a transmission moves them so.
LEMMA TrafficSteps ==
    ASSUME TypeOK, Next
    PROVE  (\E matches \in BOOLEAN : Start(matches)) \/ Transmit \/ Traffic
<1> USE DEF TypeOK, Traffic, Quiet, Read, Cleared
<1>1. bus # <<>> => Head(bus) \in Request
  OBVIOUS
<1>2. CASE NoticeCancel \/ GiveUp \/ Begin \/ TimeOut \/ Cancel \/ DeadlinePasses
  BY <1>2 DEF NoticeCancel, GiveUp, Begin, TimeOut, Cancel, DeadlinePasses, ecuVars
<1>3. CASE Receive \/ LoseAnswer
  BY <1>3 DEF Receive, LoseAnswer, Fault
<1>4. CASE EcuStartsApp \/ SendFails \/ EcuRestarts
  BY <1>4 DEF EcuStartsApp, SendFails, EcuRestarts, Fault
<1>5. ASSUME NEW q \in Request, q = Head(bus), bus # <<>>, bus' = Tail(bus),
             NEW m \in Response, Deliver(m), m.kind # "pending", m.svc = q.svc
      PROVE  Served(m)
  BY <1>5 DEF Served, Deliver, Final
<1>6. \A q \in Request, info \in Infos :
          /\ Positive(q, info) \in Response /\ Positive(q, info).kind # "pending"
          /\ Positive(q, info).svc = q.svc
          /\ Negative(q, info) \in Response /\ Negative(q, info).kind # "pending"
          /\ Negative(q, info).svc = q.svc
          /\ Refusal(ecu, q) \in Response /\ Refusal(ecu, q).kind # "pending"
          /\ Refusal(ecu, q).svc = q.svc
  BY AnswerTypes DEF Positive, Negative, Refusal
<1>7. CASE EcuServe
  <2>1. ecu.role \in Infos /\ "Wrong" \in Infos /\ "ok" \in Infos
    BY DEF Ecu, Infos
  <2>2. /\ bus # <<>> /\ bus' = Tail(bus)
        /\ \/ \E info \in Infos : Deliver(Positive(Head(bus), info))
           \/ Deliver(Refusal(ecu, Head(bus)))
    BY <1>7, <2>1 DEF EcuServe
  <2>3. \E info \in Infos : Deliver(Positive(Head(bus), info)) \/ Deliver(Refusal(ecu, Head(bus)))
    BY <2>1, <2>2
  <2>4. PICK info \in Infos :
            Deliver(Positive(Head(bus), info)) \/ Deliver(Refusal(ecu, Head(bus)))
    BY <2>3
  <2>5. Head(bus) \in Request
    BY <1>1, <2>2
  <2> QED
    BY <1>5, <1>6, <2>2, <2>4, <2>5
<1>8. CASE EcuRefuses
  <2>1. {"7F", "other", "bad"} \subseteq Infos
    BY DEF Infos
  <2>2. /\ bus # <<>> /\ bus' = Tail(bus)
        /\ \/ Deliver(Negative(Head(bus), "7F")) \/ Deliver(Negative(Head(bus), "other"))
           \/ Deliver(Positive(Head(bus), "bad"))
    BY <1>8 DEF EcuRefuses
  <2> QED
    BY <1>1, <1>5, <1>6, <2>1, <2>2
<1>9. CASE EcuStillBusy
  <2>1. /\ bus # <<>> /\ bus' = bus /\ Len(rx) < MaxRx
        /\ Deliver(Pending(Head(bus)))
    BY <1>9 DEF EcuStillBusy
  <2>2. "ok" \in Infos
    BY DEF Infos
  <2>3. Pending(Head(bus)) \in Response /\ ~Final(Pending(Head(bus)))
    BY <1>1, <2>1, <2>2, AnswerTypes DEF Pending, Final
  <2>4. rx' = Append(rx, Pending(Head(bus)))
    BY <2>1 DEF Deliver
  <2> QED
    BY <2>1, <2>3, <2>4 DEF Delayed
<1>10. CASE LoseRequest
  <2>1. bus # <<>> /\ bus' = Tail(bus) /\ rx' = rx
    BY <1>10 DEF LoseRequest
  <2>2. "ok" \in Infos
    BY DEF Infos
  <2>3. Positive(Head(bus), "ok") \in Response
    BY <1>1, <2>1, <2>2, <1>6
  <2>4. Served(Positive(Head(bus), "ok"))
    BY <1>1, <1>6, <2>1, <2>2 DEF Served, Final
  <2> QED
    BY <2>3, <2>4
<1> QED
  BY <1>2, <1>3, <1>4, <1>7, <1>8, <1>9, <1>10 DEF Next, ToolStep, Environment

\* A sequence without its head.
LEMMA TailFacts ==
    ASSUME NEW S, NEW s \in Seq(S), s # <<>>
    PROVE  /\ Len(s) \in Nat \ {0} /\ Tail(s) \in Seq(S)
           /\ Len(Tail(s)) = Len(s) - 1 /\ Head(s) = s[1] /\ Head(s) \in S
           /\ \A i \in 1..Len(Tail(s)) : Tail(s)[i] = s[i + 1] /\ i + 1 \in 1..Len(s)
BY EmptySeq, HeadTailProperties, LenProperties

\* A sequence with one element more.
LEMMA AppendFacts ==
    ASSUME NEW S, NEW s \in Seq(S), NEW e \in S
    PROVE  /\ Len(s) \in Nat /\ Len(Append(s, e)) = Len(s) + 1
           /\ \A i \in 1..Len(s) : Append(s, e)[i] = s[i]
           /\ Append(s, e)[Len(s) + 1] = e
BY AppendProperties, LenProperties

\* Numbers that move up with their sequence, or are given to one element more.
LEMMA NumberFacts ==
    ASSUME NEW l \in [Nat -> Nat], NEW n \in Nat, NEW k \in Nat
    PROVE  /\ [i \in Nat |-> l[i + 1]] \in [Nat -> Nat]
           /\ [l EXCEPT ![n] = k] \in [Nat -> Nat] /\ [l EXCEPT ![n] = k][n] = k
           /\ \A i \in Nat : i # n => [l EXCEPT ![n] = k][i] = l[i]
           /\ \A i \in Nat : l[i] \in Nat
<1>1. [i \in Nat |-> l[i + 1]] \in [Nat -> Nat]
  OBVIOUS
<1>2. \A i \in Nat : l[i] \in Nat
  OBVIOUS
<1> QED
  BY <1>1, <1>2

\* The index of the last element, before and after a sequence grows or shrinks.
LEMMA IndexFacts ==
    \A m, n \in Nat :
        /\ m = n - 1 => (1 = n => m = 0) /\ \A i \in Nat : i + 1 = n => i = m
        /\ m = n + 1 => \A i \in 1..m : i \in 1..n \/ i = n + 1
OBVIOUS

\* Numbers above others.
LEMMA OrderFacts ==
    \A u, v, x, y \in Nat :
        /\ x > u /\ v <= u => x > v
        /\ x > u /\ y > x /\ v <= u + 1 => y > v
        /\ x <= u /\ v > u => v > x /\ x <= v
OBVIOUS

\* A number above one that is not below x lies above x, and x is not above it.
LEMMA Above == \A x, y, z \in Nat : x <= y /\ z > y => z > x /\ x <= z
OBVIOUS

\* An answer that is read leaves the rest numbered.
LEMMA ReadKeepsNumbers ==
    ASSUME NEW r, NEW b, NEW t, NEW u \in Nat, NEW e \in BOOLEAN,
           Len(r) \in Nat, Len(b) \in Nat, Len(t) \in Nat, Len(t) = Len(r) - 1, Len(r) # 0,
           \A i \in 1..Len(t) : t[i] = r[i + 1], AreNumbered(r, b, u, e)
    PROVE  AreNumbered(t, b, u, e)
<1>1. PICK lr \in [Nat -> Nat], lb \in [Nat -> Nat], top \in Nat :
          /\ top >= MaxBus /\ AnswersNumbered(r, b, lr, lb, u, top, e)
          /\ RequestsNumbered(b, lb, u, top, e)
  BY DEF AreNumbered
<1> DEFINE l == [i \in Nat |-> lr[i + 1]]
<1>2. l \in [Nat -> Nat] /\ \A i \in Nat : l[i] = lr[i + 1]
  BY NumberFacts
<1> HIDE DEF l
<1>3. ASSUME NEW i \in 1..Len(t), Final(t[i])
      PROVE  /\ l[i] > u /\ l[i] <= top
             /\ \A j \in 1..Len(t) : j > i /\ Final(t[j]) => l[j] > l[i]
             /\ \A j \in 1..Len(b) : lb[j] > l[i]
             /\ l[i] > MaxBus /\ t[i].svc = "erase" => Len(b) = 0 /\ i = Len(t) /\ e
  <2>a. \A j \in 1..Len(t) : j \in Nat /\ j + 1 \in 1..Len(r)
    OBVIOUS
  <2>2. \A j \in 1..Len(t) : j \in Nat /\ j + 1 \in 1..Len(r) /\ t[j] = r[j + 1] /\ l[j] = lr[j + 1]
    BY <1>2, <2>a
  <2>1. i \in Nat /\ i + 1 \in 1..Len(r) /\ t[i] = r[i + 1] /\ l[i] = lr[i + 1]
    BY <2>2
  <2>3. /\ lr[i + 1] > u /\ lr[i + 1] <= top
        /\ \A j \in 1..Len(r) : j > i + 1 /\ Final(r[j]) => lr[j] > lr[i + 1]
        /\ \A j \in 1..Len(b) : lb[j] > lr[i + 1]
        /\ lr[i + 1] > MaxBus /\ r[i + 1].svc = "erase"
           => Len(b) = 0 /\ i + 1 = Len(r) /\ e
    BY <1>1, <1>3, <2>1 DEF AnswersNumbered
  <2>4. \A j \in 1..Len(t) : j > i /\ Final(t[j]) => l[j] > l[i]
    <3> SUFFICES ASSUME NEW j \in 1..Len(t), j > i, Final(t[j])
                 PROVE  l[j] > l[i]
      OBVIOUS
    <3>1. j + 1 > i + 1 /\ Final(r[j + 1])
      BY <2>2
    <3> QED
      BY <2>1, <2>2, <2>3, <3>1
  <2>5. i + 1 = Len(r) => i = Len(t)
    OBVIOUS
  <2> QED
    BY <2>1, <2>3, <2>4, <2>5
<1>4. AnswersNumbered(t, b, l, lb, u, top, e)
  BY <1>3 DEF AnswersNumbered
<1> QED
  BY <1>1, <1>2, <1>4 DEF AreNumbered

\* A request that is served or lost leaves the rest numbered.
LEMMA ServeKeepsNumbers ==
    ASSUME NEW r, NEW b, NEW t, NEW u \in Nat, NEW e \in BOOLEAN,
           Len(r) \in Nat, Len(b) \in Nat, Len(t) \in Nat, Len(t) = Len(b) - 1, Len(b) # 0,
           \A i \in 1..Len(t) : t[i] = b[i + 1], AreNumbered(r, b, u, e)
    PROVE  AreNumbered(r, t, u, e)
<1>1. PICK lr \in [Nat -> Nat], lb \in [Nat -> Nat], top \in Nat :
          /\ top >= MaxBus /\ AnswersNumbered(r, b, lr, lb, u, top, e)
          /\ RequestsNumbered(b, lb, u, top, e)
  BY DEF AreNumbered
<1> DEFINE l == [i \in Nat |-> lb[i + 1]]
<1>2. l \in [Nat -> Nat] /\ \A i \in Nat : l[i] = lb[i + 1]
  BY NumberFacts
<1> HIDE DEF l
<1>a. \A j \in 1..Len(t) : j \in Nat /\ j + 1 \in 1..Len(b)
  OBVIOUS
<1>3. \A j \in 1..Len(t) : j \in Nat /\ j + 1 \in 1..Len(b) /\ t[j] = b[j + 1] /\ l[j] = lb[j + 1]
  BY <1>2, <1>a
<1>4. AnswersNumbered(r, t, lr, l, u, top, e)
  <2> SUFFICES ASSUME NEW i \in 1..Len(r), Final(r[i])
               PROVE  /\ lr[i] > u /\ lr[i] <= top
                      /\ \A j \in 1..Len(r) : j > i /\ Final(r[j]) => lr[j] > lr[i]
                      /\ \A j \in 1..Len(t) : l[j] > lr[i]
                      /\ lr[i] > MaxBus /\ r[i].svc = "erase"
                         => Len(t) = 0 /\ i = Len(r) /\ e
    BY DEF AnswersNumbered
  <2>1. /\ lr[i] > u /\ lr[i] <= top
        /\ \A j \in 1..Len(r) : j > i /\ Final(r[j]) => lr[j] > lr[i]
        /\ \A j \in 1..Len(b) : lb[j] > lr[i]
        /\ ~(lr[i] > MaxBus /\ r[i].svc = "erase")
    BY <1>1 DEF AnswersNumbered
  <2>2. \A j \in 1..Len(t) : l[j] > lr[i]
    BY <1>3, <2>1
  <2> QED
    BY <2>1, <2>2
<1>5. RequestsNumbered(t, l, u, top, e)
  <2> SUFFICES ASSUME NEW i \in 1..Len(t)
               PROVE  /\ l[i] > u /\ l[i] <= top
                      /\ \A j \in 1..Len(t) : j > i => l[j] > l[i]
                      /\ l[i] > MaxBus /\ t[i].svc = "erase" => i = Len(t) /\ e
    BY DEF RequestsNumbered
  <2>1. i \in Nat /\ i + 1 \in 1..Len(b) /\ t[i] = b[i + 1] /\ l[i] = lb[i + 1]
    BY <1>3
  <2>2. /\ lb[i + 1] > u /\ lb[i + 1] <= top
        /\ \A j \in 1..Len(b) : j > i + 1 => lb[j] > lb[i + 1]
        /\ lb[i + 1] > MaxBus /\ b[i + 1].svc = "erase" => i + 1 = Len(b) /\ e
    BY <1>1, <2>1 DEF RequestsNumbered
  <2>3. \A j \in 1..Len(t) : j > i => l[j] > l[i]
    <3> SUFFICES ASSUME NEW j \in 1..Len(t), j > i
                 PROVE  l[j] > l[i]
      OBVIOUS
    <3>1. j + 1 > i + 1
      OBVIOUS
    <3> QED
      BY <1>3, <2>1, <2>2, <3>1
  <2>4. i + 1 = Len(b) => i = Len(t)
    BY <2>1, IndexFacts
  <2> QED
    BY <2>1, <2>2, <2>3, <2>4
<1> QED
  BY <1>1, <1>2, <1>4, <1>5 DEF AreNumbered

\* The answer to the request at the head takes over its number.
LEMMA AnswerKeepsNumbers ==
    ASSUME NEW r, NEW b, NEW a, NEW t, NEW u \in Nat, NEW e \in BOOLEAN,
           Len(r) \in Nat, Len(b) \in Nat, Len(t) \in Nat, Len(t) = Len(b) - 1, Len(b) # 0,
           \A i \in 1..Len(t) : t[i] = b[i + 1],
           Len(a) \in Nat, Len(a) = Len(r) + 1, \A i \in 1..Len(r) : a[i] = r[i],
           a[Len(r) + 1].svc = b[1].svc, AreNumbered(r, b, u, e)
    PROVE  AreNumbered(a, t, u, e)
<1>1. PICK lr \in [Nat -> Nat], lb \in [Nat -> Nat], top \in Nat :
          /\ top >= MaxBus /\ AnswersNumbered(r, b, lr, lb, u, top, e)
          /\ RequestsNumbered(b, lb, u, top, e)
  BY DEF AreNumbered
<1> DEFINE l == [i \in Nat |-> lb[i + 1]]
           k == [i \in Nat |-> IF i = Len(r) + 1 THEN lb[1] ELSE lr[i]]
<1>2. l \in [Nat -> Nat] /\ \A i \in Nat : l[i] = lb[i + 1]
  BY NumberFacts
<1>3. k \in [Nat -> Nat] /\ k[Len(r) + 1] = lb[1] /\ \A i \in 1..Len(r) : k[i] = lr[i]
  <2>1. \A i \in Nat : lr[i] \in Nat /\ lb[i] \in Nat
    OBVIOUS
  <2>2. lb[1] \in Nat /\ Len(r) + 1 \in Nat /\ \A i \in 1..Len(r) : i \in Nat /\ i # Len(r) + 1
    BY <2>1
  <2> QED
    BY <2>1, <2>2
<1> HIDE DEF l, k
<1>a. \A j \in 1..Len(t) : j \in Nat /\ j + 1 \in 1..Len(b)
  OBVIOUS
<1>4. \A j \in 1..Len(t) : j \in Nat /\ j + 1 \in 1..Len(b) /\ t[j] = b[j + 1] /\ l[j] = lb[j + 1]
  BY <1>2, <1>a
<1>5. /\ lb[1] > u /\ lb[1] <= top
      /\ \A j \in 1..Len(t) : l[j] > lb[1]
      /\ lb[1] > MaxBus /\ b[1].svc = "erase" => Len(t) = 0 /\ e
  <2>1. 1 \in 1..Len(b)
    OBVIOUS
  <2>2. /\ lb[1] > u /\ lb[1] <= top
        /\ \A j \in 1..Len(b) : j > 1 => lb[j] > lb[1]
        /\ lb[1] > MaxBus /\ b[1].svc = "erase" => 1 = Len(b) /\ e
    BY <1>1, <2>1 DEF RequestsNumbered
  <2>3. \A j \in 1..Len(t) : j + 1 > 1
    OBVIOUS
  <2>4. \A j \in 1..Len(t) : l[j] > lb[1]
    BY <1>4, <2>2, <2>3
  <2>5. 1 = Len(b) => Len(t) = 0
    BY IndexFacts
  <2> QED
    BY <2>2, <2>4, <2>5
<1>6. AnswersNumbered(a, t, k, l, u, top, e)
  <2> SUFFICES ASSUME NEW i \in 1..Len(a), Final(a[i])
               PROVE  /\ k[i] > u /\ k[i] <= top
                      /\ \A j \in 1..Len(a) : j > i /\ Final(a[j]) => k[j] > k[i]
                      /\ \A j \in 1..Len(t) : l[j] > k[i]
                      /\ k[i] > MaxBus /\ a[i].svc = "erase"
                         => Len(t) = 0 /\ i = Len(a) /\ e
    BY DEF AnswersNumbered
  <2>1. CASE i \in 1..Len(r)
    <3>1. a[i] = r[i] /\ k[i] = lr[i] /\ Final(r[i])
      BY <1>3, <2>1
    <3>2. /\ lr[i] > u /\ lr[i] <= top
          /\ \A j \in 1..Len(r) : j > i /\ Final(r[j]) => lr[j] > lr[i]
          /\ \A j \in 1..Len(b) : lb[j] > lr[i]
          /\ ~(lr[i] > MaxBus /\ r[i].svc = "erase")
      BY <1>1, <2>1, <3>1 DEF AnswersNumbered
    <3>3. \A j \in 1..Len(a) : j > i /\ Final(a[j]) => k[j] > k[i]
      <4> SUFFICES ASSUME NEW j \in 1..Len(a), j > i, Final(a[j])
                   PROVE  k[j] > k[i]
        OBVIOUS
      <4>1. CASE j \in 1..Len(r)
        BY <1>3, <3>1, <3>2, <4>1
      <4>2. CASE j = Len(r) + 1
        <5>1. 1 \in 1..Len(b)
          OBVIOUS
        <5> QED
          BY <1>3, <3>1, <3>2, <4>2, <5>1
      <4>3. j \in 1..Len(r) \/ j = Len(r) + 1
        BY IndexFacts
      <4> QED
        BY <4>1, <4>2, <4>3
    <3>4. \A j \in 1..Len(t) : l[j] > k[i]
      BY <1>4, <3>1, <3>2
    <3> QED
      BY <3>1, <3>2, <3>3, <3>4
  <2>2. CASE i = Len(r) + 1
    <3>1. a[i].svc = b[1].svc /\ k[i] = lb[1] /\ i = Len(a)
      BY <1>3, <2>2
    <3>2. \A j \in 1..Len(a) : ~(j > i)
      BY <3>1
    <3> QED
      BY <1>5, <3>1, <3>2
  <2>3. i \in 1..Len(r) \/ i = Len(r) + 1
    BY IndexFacts
  <2> QED
    BY <2>1, <2>2, <2>3
<1>7. RequestsNumbered(t, l, u, top, e)
  <2> SUFFICES ASSUME NEW i \in 1..Len(t)
               PROVE  /\ l[i] > u /\ l[i] <= top
                      /\ \A j \in 1..Len(t) : j > i => l[j] > l[i]
                      /\ l[i] > MaxBus /\ t[i].svc = "erase" => i = Len(t) /\ e
    BY DEF RequestsNumbered
  <2>1. i \in Nat /\ i + 1 \in 1..Len(b) /\ t[i] = b[i + 1] /\ l[i] = lb[i + 1]
    BY <1>4
  <2>2. /\ lb[i + 1] > u /\ lb[i + 1] <= top
        /\ \A j \in 1..Len(b) : j > i + 1 => lb[j] > lb[i + 1]
        /\ lb[i + 1] > MaxBus /\ b[i + 1].svc = "erase" => i + 1 = Len(b) /\ e
    BY <1>1, <2>1 DEF RequestsNumbered
  <2>3. \A j \in 1..Len(t) : j > i => l[j] > l[i]
    <3> SUFFICES ASSUME NEW j \in 1..Len(t), j > i
                 PROVE  l[j] > l[i]
      OBVIOUS
    <3>1. j + 1 > i + 1
      OBVIOUS
    <3> QED
      BY <1>4, <2>1, <2>2, <3>1
  <2>4. i + 1 = Len(b) => i = Len(t)
    BY <2>1, IndexFacts
  <2> QED
    BY <2>1, <2>2, <2>3, <2>4
<1> QED
  BY <1>1, <1>2, <1>3, <1>6, <1>7 DEF AreNumbered

\* An interim answer carries no number of its own.
LEMMA DelayKeepsNumbers ==
    ASSUME NEW r, NEW b, NEW a, NEW u \in Nat, NEW e \in BOOLEAN,
           Len(r) \in Nat, Len(b) \in Nat, Len(a) \in Nat, Len(a) = Len(r) + 1, Len(b) # 0,
           ~Final(a[Len(r) + 1]), \A i \in 1..Len(r) : a[i] = r[i], AreNumbered(r, b, u, e)
    PROVE  AreNumbered(a, b, u, e)
<1>1. PICK lr \in [Nat -> Nat], lb \in [Nat -> Nat], top \in Nat :
          /\ top >= MaxBus /\ AnswersNumbered(r, b, lr, lb, u, top, e)
          /\ RequestsNumbered(b, lb, u, top, e)
  BY DEF AreNumbered
<1>2. \A i \in 1..Len(a) : Final(a[i]) => i \in 1..Len(r) /\ a[i] = r[i]
  BY IndexFacts
<1>3. AnswersNumbered(a, b, lr, lb, u, top, e)
  <2> SUFFICES ASSUME NEW i \in 1..Len(a), Final(a[i])
               PROVE  /\ lr[i] > u /\ lr[i] <= top
                      /\ \A j \in 1..Len(a) : j > i /\ Final(a[j]) => lr[j] > lr[i]
                      /\ \A j \in 1..Len(b) : lb[j] > lr[i]
                      /\ lr[i] > MaxBus /\ a[i].svc = "erase"
                         => Len(b) = 0 /\ i = Len(a) /\ e
    BY DEF AnswersNumbered
  <2>1. i \in 1..Len(r) /\ a[i] = r[i]
    BY <1>2
  <2>2. /\ lr[i] > u /\ lr[i] <= top
        /\ \A j \in 1..Len(r) : j > i /\ Final(r[j]) => lr[j] > lr[i]
        /\ \A j \in 1..Len(b) : lb[j] > lr[i]
        /\ ~(lr[i] > MaxBus /\ r[i].svc = "erase")
    BY <1>1, <2>1 DEF AnswersNumbered
  <2>3. \A j \in 1..Len(a) : j > i /\ Final(a[j]) => lr[j] > lr[i]
    BY <1>2, <2>2
  <2> QED
    BY <2>1, <2>2, <2>3
<1> QED
  BY <1>1, <1>3 DEF AreNumbered

\* A step onward, and requests that are all lost, keep the numbers too.
LEMMA FewerKeepNumbers ==
    ASSUME NEW r, NEW b, NEW c, NEW u \in Nat, NEW v \in Nat, v <= u,
           NEW e \in BOOLEAN, NEW f \in BOOLEAN, e => f,
           Len(r) \in Nat, Len(b) \in Nat,
           c = b \/ Len(c) = 0, AreNumbered(r, b, u, e)
    PROVE  AreNumbered(r, c, v, f)
<1>1. PICK lr \in [Nat -> Nat], lb \in [Nat -> Nat], top \in Nat :
          /\ top >= MaxBus /\ AnswersNumbered(r, b, lr, lb, u, top, e)
          /\ RequestsNumbered(b, lb, u, top, e)
  BY DEF AreNumbered
<1>2. \A i \in Nat : lr[i] \in Nat /\ lb[i] \in Nat
  BY NumberFacts
<1>3. AnswersNumbered(r, c, lr, lb, v, top, f)
  <2> SUFFICES ASSUME NEW i \in 1..Len(r), Final(r[i])
               PROVE  /\ lr[i] > v /\ lr[i] <= top
                      /\ \A j \in 1..Len(r) : j > i /\ Final(r[j]) => lr[j] > lr[i]
                      /\ \A j \in 1..Len(c) : lb[j] > lr[i]
                      /\ lr[i] > MaxBus /\ r[i].svc = "erase"
                         => Len(c) = 0 /\ i = Len(r) /\ f
    BY DEF AnswersNumbered
  <2>1. /\ lr[i] > u /\ lr[i] <= top
        /\ \A j \in 1..Len(r) : j > i /\ Final(r[j]) => lr[j] > lr[i]
        /\ \A j \in 1..Len(b) : lb[j] > lr[i]
        /\ lr[i] > MaxBus /\ r[i].svc = "erase" => Len(b) = 0 /\ i = Len(r) /\ e
    BY <1>1 DEF AnswersNumbered
  <2>2. lr[i] > v
    BY <1>2, <2>1
  <2>3. \A j \in 1..Len(c) : lb[j] > lr[i]
    BY <2>1
  <2> QED
    BY <2>1, <2>2, <2>3
<1>4. RequestsNumbered(c, lb, v, top, f)
  <2> SUFFICES ASSUME NEW i \in 1..Len(c)
               PROVE  /\ lb[i] > v /\ lb[i] <= top
                      /\ \A j \in 1..Len(c) : j > i => lb[j] > lb[i]
                      /\ lb[i] > MaxBus /\ c[i].svc = "erase" => i = Len(c) /\ f
    BY DEF RequestsNumbered
  <2>1. c = b
    OBVIOUS
  <2>2. /\ lb[i] > u /\ lb[i] <= top
        /\ \A j \in 1..Len(b) : j > i => lb[j] > lb[i]
        /\ lb[i] > MaxBus /\ b[i].svc = "erase" => i = Len(b) /\ e
    BY <1>1, <2>1 DEF RequestsNumbered
  <2>3. lb[i] > v
    <3>1. i \in Nat
      OBVIOUS
    <3>2. lb[i] \in Nat
      BY <1>2, <3>1
    <3> QED
      BY <2>1, <2>2, <3>2, OrderFacts
  <2> QED
    BY <2>1, <2>2, <2>3
<1> QED
  BY <1>1, <1>3, <1>4 DEF AreNumbered

\* Whoever has read an answer may count one more as used up.
LEMMA FirstIsUsedUp ==
    ASSUME NEW r, NEW b, NEW t, NEW u \in Nat, NEW v \in Nat, v <= u + 1,
           NEW e \in BOOLEAN, NEW f \in BOOLEAN, e => f,
           Len(r) \in Nat, Len(b) \in Nat, Len(t) \in Nat, Len(t) = Len(r) - 1, Len(r) # 0,
           \A i \in 1..Len(t) : t[i] = r[i + 1], Final(r[1]), AreNumbered(r, b, u, e)
    PROVE  AreNumbered(t, b, v, f)
<1>1. PICK lr \in [Nat -> Nat], lb \in [Nat -> Nat], top \in Nat :
          /\ top >= MaxBus /\ AnswersNumbered(r, b, lr, lb, u, top, e)
          /\ RequestsNumbered(b, lb, u, top, e)
  BY DEF AreNumbered
<1>2. \A i \in Nat : lr[i] \in Nat /\ lb[i] \in Nat
  BY NumberFacts
<1>3. /\ lr[1] > u /\ \A j \in 1..Len(r) : j > 1 /\ Final(r[j]) => lr[j] > lr[1]
      /\ \A j \in 1..Len(b) : lb[j] > lr[1]
  <2>1. 1 \in 1..Len(r)
    OBVIOUS
  <2> QED
    BY <1>1, <2>1 DEF AnswersNumbered
<1> DEFINE l == [i \in Nat |-> lr[i + 1]]
<1>4. l \in [Nat -> Nat] /\ \A i \in Nat : l[i] = lr[i + 1]
  BY NumberFacts
<1> HIDE DEF l
<1>5. \A j \in 1..Len(t) : j \in Nat /\ j + 1 \in 1..Len(r) /\ j + 1 > 1
  OBVIOUS
<1>6. \A j \in 1..Len(t) : j \in Nat /\ j + 1 \in 1..Len(r) /\ t[j] = r[j + 1] /\ l[j] = lr[j + 1]
  BY <1>4, <1>5
<1>7. AnswersNumbered(t, b, l, lb, v, top, f)
  <2> SUFFICES ASSUME NEW i \in 1..Len(t), Final(t[i])
               PROVE  /\ l[i] > v /\ l[i] <= top
                      /\ \A j \in 1..Len(t) : j > i /\ Final(t[j]) => l[j] > l[i]
                      /\ \A j \in 1..Len(b) : lb[j] > l[i]
                      /\ l[i] > MaxBus /\ t[i].svc = "erase"
                         => Len(b) = 0 /\ i = Len(t) /\ f
    BY DEF AnswersNumbered
  <2>1. i \in Nat /\ i + 1 \in 1..Len(r) /\ t[i] = r[i + 1] /\ l[i] = lr[i + 1]
    BY <1>6
  <2>2. /\ lr[i + 1] <= top
        /\ \A j \in 1..Len(r) : j > i + 1 /\ Final(r[j]) => lr[j] > lr[i + 1]
        /\ \A j \in 1..Len(b) : lb[j] > lr[i + 1]
        /\ lr[i + 1] > MaxBus /\ r[i + 1].svc = "erase"
           => Len(b) = 0 /\ i + 1 = Len(r) /\ e
    BY <1>1, <2>1 DEF AnswersNumbered
  <2>3. \A j \in 1..Len(t) : j > i /\ Final(t[j]) => l[j] > l[i]
    <3> SUFFICES ASSUME NEW j \in 1..Len(t), j > i, Final(t[j])
                 PROVE  l[j] > l[i]
      OBVIOUS
    <3>1. j + 1 > i + 1 /\ Final(r[j + 1])
      BY <1>6
    <3> QED
      BY <1>6, <2>1, <2>2, <3>1
  <2>4. lr[i + 1] > lr[1]
    BY <1>3, <1>5, <2>1
  <2>5. lr[i + 1] \in Nat /\ lr[1] \in Nat
    BY <1>2, <2>1
  <2>6. lr[i + 1] > v
    <3> DEFINE x == lr[1]
               y == lr[i + 1]
    <3>1. x \in Nat /\ y \in Nat /\ x > u /\ y > x
      BY <1>3, <2>4, <2>5
    <3> HIDE DEF x, y
    <3>2. y > v
      BY <3>1
    <3> QED
      BY <3>2 DEF y
  <2>7. i + 1 = Len(r) => i = Len(t)
    BY <2>1, IndexFacts
  <2> QED
    BY <2>1, <2>2, <2>3, <2>6, <2>7
<1>8. RequestsNumbered(b, lb, v, top, f)
  <2> SUFFICES ASSUME NEW i \in 1..Len(b)
               PROVE  /\ lb[i] > v /\ lb[i] <= top
                      /\ \A j \in 1..Len(b) : j > i => lb[j] > lb[i]
                      /\ lb[i] > MaxBus /\ b[i].svc = "erase" => i = Len(b) /\ f
    BY DEF RequestsNumbered
  <2>1. /\ lb[i] <= top
        /\ \A j \in 1..Len(b) : j > i => lb[j] > lb[i]
        /\ lb[i] > MaxBus /\ b[i].svc = "erase" => i = Len(b) /\ e
    BY <1>1 DEF RequestsNumbered
  <2>a. i \in Nat
    OBVIOUS
  <2>2. lb[i] \in Nat /\ lr[1] \in Nat /\ lb[i] > lr[1]
    BY <1>2, <1>3, <2>a
  <2>3. lb[i] > v
    <3> DEFINE x == lr[1]
               y == lb[i]
    <3>1. x \in Nat /\ y \in Nat /\ x > u /\ y > x
      BY <1>3, <2>2
    <3> HIDE DEF x, y
    <3>2. y > v
      BY <3>1
    <3> QED
      BY <3>2 DEF y
  <2> QED
    BY <2>1, <2>3
<1> QED
  BY <1>1, <1>4, <1>7, <1>8 DEF AreNumbered

\* Once more than MaxBus are used up, an answer to an erase is the last thing
\* under way: the run has not asked for anything after it.
LEMMA EraseAnswerIsLast ==
    ASSUME NEW r, NEW b, NEW u \in Nat, NEW e \in BOOLEAN, u >= MaxBus,
           Len(r) \in Nat, Len(b) \in Nat, Len(r) # 0, Final(r[1]), r[1].svc = "erase",
           AreNumbered(r, b, u, e)
    PROVE  Len(b) = 0 /\ Len(r) = 1
<1>1. PICK lr \in [Nat -> Nat], lb \in [Nat -> Nat], top \in Nat :
          /\ top >= MaxBus /\ AnswersNumbered(r, b, lr, lb, u, top, e)
          /\ RequestsNumbered(b, lb, u, top, e)
  BY DEF AreNumbered
<1>2. 1 \in 1..Len(r) /\ lr[1] \in Nat /\ MaxBus \in Nat
  BY BoundAssumption, NumberFacts
<1>3. /\ lr[1] > u
      /\ lr[1] > MaxBus /\ r[1].svc = "erase" => Len(b) = 0 /\ 1 = Len(r)
  BY <1>1, <1>2 DEF AnswersNumbered
<1>4. lr[1] > MaxBus
  BY <1>2, <1>3
<1> QED
  BY <1>3, <1>4

\* A request that is sent gets a number above all others.
LEMMA SendKeepsNumbers ==
    ASSUME NEW r, NEW b, NEW a, NEW u \in Nat, NEW f \in BOOLEAN,
           Len(r) \in Nat, Len(b) \in Nat, Len(a) \in Nat, Len(a) = Len(b) + 1,
           \A i \in 1..Len(b) : a[i] = b[i], a[Len(b) + 1].svc = "erase" => f,
           AreNumbered(r, b, u, FALSE)
    PROVE  AreNumbered(r, a, u, f)
<1>1. PICK lr \in [Nat -> Nat], lb \in [Nat -> Nat], top \in Nat :
          /\ top >= MaxBus /\ AnswersNumbered(r, b, lr, lb, u, top, FALSE)
          /\ RequestsNumbered(b, lb, u, top, FALSE)
  BY DEF AreNumbered
<1>2. (\A i \in Nat : lr[i] \in Nat /\ lb[i] \in Nat) /\ MaxBus \in Nat
  BY NumberFacts, BoundAssumption
<1> DEFINE new == top + u + 1
           l   == [lb EXCEPT ![Len(b) + 1] = new]
<1>3. new \in Nat /\ new >= MaxBus /\ new > top /\ new > u
  BY <1>1, <1>2
<1>4. l \in [Nat -> Nat] /\ l[Len(b) + 1] = new /\ \A i \in 1..Len(b) : l[i] = lb[i]
  <2>1. Len(b) + 1 \in Nat /\ \A i \in 1..Len(b) : i \in Nat /\ i # Len(b) + 1
    OBVIOUS
  <2> HIDE DEF new
  <2>2. /\ l \in [Nat -> Nat] /\ l[Len(b) + 1] = new
        /\ \A i \in Nat : i # Len(b) + 1 => l[i] = lb[i]
    BY <1>3, <2>1, NumberFacts
  <2> QED
    BY <2>1, <2>2
<1> HIDE DEF l, new
<1>5. \A i \in 1..Len(a) : i \in 1..Len(b) \/ i = Len(b) + 1
  BY IndexFacts
<1>6. AnswersNumbered(r, a, lr, l, u, new, f)
  <2> SUFFICES ASSUME NEW i \in 1..Len(r), Final(r[i])
               PROVE  /\ lr[i] > u /\ lr[i] <= new
                      /\ \A j \in 1..Len(r) : j > i /\ Final(r[j]) => lr[j] > lr[i]
                      /\ \A j \in 1..Len(a) : l[j] > lr[i]
                      /\ ~(lr[i] > MaxBus /\ r[i].svc = "erase")
    BY DEF AnswersNumbered
  <2>1. /\ lr[i] > u /\ lr[i] <= top
        /\ \A j \in 1..Len(r) : j > i /\ Final(r[j]) => lr[j] > lr[i]
        /\ \A j \in 1..Len(b) : lb[j] > lr[i]
        /\ ~(lr[i] > MaxBus /\ r[i].svc = "erase")
    BY <1>1 DEF AnswersNumbered
  <2>a. i \in Nat
    OBVIOUS
  <2>b. lr[i] \in Nat
    BY <1>2, <2>a
  <2>2. lr[i] \in Nat /\ new > lr[i] /\ lr[i] <= new
    <3> DEFINE x == lr[i]
    <3>1. x \in Nat /\ x <= top
      BY <2>1, <2>b
    <3> HIDE DEF x
    <3>a. new \in Nat /\ new > top
      BY <1>3
    <3>2. new > x /\ x <= new
      BY <3>1, <3>a, Above
    <3> QED
      BY <2>b, <3>2 DEF x
  <2>3. \A j \in 1..Len(a) : l[j] > lr[i]
    <3> SUFFICES ASSUME NEW j \in 1..Len(a)
                 PROVE  l[j] > lr[i]
      OBVIOUS
    <3>1. CASE j \in 1..Len(b)
      BY <1>4, <2>1, <3>1
    <3>2. CASE j = Len(b) + 1
      BY <1>4, <2>2, <3>2
    <3> QED
      BY <1>5, <3>1, <3>2
  <2> QED
    BY <1>3, <2>1, <2>2, <2>3
<1>7. RequestsNumbered(a, l, u, new, f)
  <2> SUFFICES ASSUME NEW i \in 1..Len(a)
               PROVE  /\ l[i] > u /\ l[i] <= new
                      /\ \A j \in 1..Len(a) : j > i => l[j] > l[i]
                      /\ l[i] > MaxBus /\ a[i].svc = "erase" => i = Len(a) /\ f
    BY DEF RequestsNumbered
  <2>1. CASE i \in 1..Len(b)
    <3>a. i \in Nat
      OBVIOUS
    <3>1. a[i] = b[i] /\ l[i] = lb[i] /\ lb[i] \in Nat
      BY <1>2, <1>4, <2>1, <3>a
    <3>2. /\ lb[i] > u /\ lb[i] <= top
          /\ \A j \in 1..Len(b) : j > i => lb[j] > lb[i]
          /\ ~(lb[i] > MaxBus /\ b[i].svc = "erase")
      BY <1>1, <2>1 DEF RequestsNumbered
    <3>3. new > lb[i]
      BY <1>3, <3>1, <3>2, OrderFacts
    <3>4. \A j \in 1..Len(a) : j > i => l[j] > l[i]
      <4> SUFFICES ASSUME NEW j \in 1..Len(a), j > i
                   PROVE  l[j] > l[i]
        OBVIOUS
      <4>1. CASE j \in 1..Len(b)
        BY <1>4, <3>1, <3>2, <4>1
      <4>2. CASE j = Len(b) + 1
        BY <1>4, <3>1, <3>3, <4>2
      <4> QED
        BY <1>5, <4>1, <4>2
    <3>5. lb[i] <= new
      <4>1. \A x, y \in Nat : y > x => x <= y
        OBVIOUS
      <4>2. new \in Nat
        BY <1>3
      <4> QED
        BY <3>1, <3>3, <4>1, <4>2
    <3> QED
      BY <3>1, <3>2, <3>4, <3>5
  <2>2. CASE i = Len(b) + 1
    <3>1. l[i] = new /\ i = Len(a)
      BY <1>4, <2>2
    <3>2. \A j \in 1..Len(a) : ~(j > i)
      BY <3>1
    <3>3. new <= new
      BY <1>3
    <3> QED
      BY <1>3, <2>2, <3>1, <3>2, <3>3
  <2> QED
    BY <1>5, <2>1, <2>2
<1> QED
  BY <1>3, <1>4, <1>6, <1>7 DEF AreNumbered

\* What a run finds on the bus gets the numbers up to MaxBus.
LEMMA StartNumbers ==
    ASSUME NEW r, NEW b, NEW e \in BOOLEAN, Len(r) = 0, Len(b) \in Nat, Len(b) <= MaxBus
    PROVE  AreNumbered(r, b, 0, e)
<1> DEFINE l == [i \in Nat |-> i]
<1>1. l \in [Nat -> Nat] /\ \A i \in 1..Len(b) : l[i] = i
  OBVIOUS
<1> HIDE DEF l
<1>2. MaxBus \in Nat /\ MaxBus >= MaxBus
  BY BoundAssumption
<1>3. AnswersNumbered(r, b, l, l, 0, MaxBus, e)
  BY DEF AnswersNumbered
<1>4. RequestsNumbered(b, l, 0, MaxBus, e)
  <2> SUFFICES ASSUME NEW i \in 1..Len(b)
               PROVE  /\ l[i] > 0 /\ l[i] <= MaxBus
                      /\ \A j \in 1..Len(b) : j > i => l[j] > l[i]
                      /\ ~(l[i] > MaxBus)
    BY DEF RequestsNumbered
  <2>1. i > 0 /\ i <= MaxBus /\ ~(i > MaxBus)
    BY <1>2
  <2>2. l[i] = i /\ \A j \in 1..Len(b) : l[j] = j
    BY <1>1
  <2> QED
    BY <2>1, <2>2
<1> QED
  BY <1>1, <1>2, <1>3, <1>4 DEF AreNumbered

-------------------------------------------------------------------------------
(* How a run moves: it stays at its step, ends, reads the final answer     *)
(* that leads to the next step, or asks for the identity once more.        *)

EcuKept == ecu'.app = ecu.app /\ ecu'.image = ecu.image

Stays ==
    /\ step' = step /\ block' = block /\ result' = result
    /\ phase' = phase \/ (phase = "ready" /\ phase' = "sending")

Ends ==
    /\ phase # "idle" /\ phase' = "idle" /\ bus' = bus /\ ecu' = ecu
    /\ result' \in CommittedStatuses => step \in {"verify", "version"}

Leads(m) ==
    \/ step \in Chain \ {"erase"} /\ step' \in Chain /\ Rank[step'] <= Rank[step] + 1
    \/ step = "erase" /\ step' = "appDownload" /\ m.kind = "positive" /\ m.svc = "erase"
    \/ step \in Late \ {"auth"} /\ step' \in Late
    \/ step = "auth" /\ step' = "reset" /\ m.kind = "positive" /\ m.info # "bad"
    \/ step \in Closing /\ step' \in Closing

Onward ==
    /\ phase = "waiting" /\ phase' = "ready" /\ result' = result
    /\ rx # <<>> /\ rx' = Tail(rx) /\ bus' = bus /\ ecu' = ecu
    /\ Final(Head(rx)) /\ Leads(Head(rx))

Again ==
    /\ step = "verify" /\ step' = step /\ phase # "idle" /\ phase' = "ready"
    /\ result' = result /\ bus' = bus /\ ecu' = ecu

\* The chain, step by step: where a run goes from each of its steps.
LEMMA ChainTable ==
    /\ \A s \in Steps \ (Probes \cup {"version"}) :
          LET n == Following[s] IN
          \/ s \in Chain \ {"erase"} /\ n \in Chain /\ Rank[n] <= Rank[s] + 1
          \/ s = "erase" /\ n = "appDownload"
          \/ s \in Late \ {"auth"} /\ n \in Late
          \/ s = "auth" /\ n = "reset"
          \/ s \in Closing /\ n \in Closing
    /\ \A s \in {"seed", "key"} :
          s \in Chain \ {"erase"} /\ "session" \in Chain /\ Rank["session"] <= Rank[s] + 1
    /\ \A s \in {"probe", "probeBoot"} :
          s \in Chain \ {"erase"} /\ "seed" \in Chain /\ Rank["seed"] <= Rank[s] + 1
    /\ "default" \in Chain /\ Rank["default"] <= Rank["probe"] + 1
    /\ "probeSession" \in Chain \ {"erase"} /\ "seedRetry" \in Chain
    /\ Rank["seedRetry"] <= Rank["probeSession"] + 1
    /\ \A s \in Chain : Rank[s] \in Nat
    /\ \A s \in Steps : s \in Chain \/ s \in Late \/ s \in Closing
    /\ \A s \in Transfers : s \in Chain \ {"erase"} \/ s \in Late \ {"auth"}
    /\ \A s \in Transfers \cap Chain : Rank[s] <= Rank[s] + 1
    /\ Rank["probe"] = 0 /\ Rank["erase"] = 7
BY DEF Chain, Rank, Late, Closing, Transfers, Probes, Following

\* An exception ends the run without vouching for anything.
LEMMA FailEnds ==
    ASSUME phase # "idle", bus' = bus, ecu' = ecu, Fail \/ Cancelled
    PROVE  Ends
BY DEF Fail, Cancelled, Finish, Ends, CommittedStatuses

\* A probe ends the run, asks again, or leads on with an identity.
LEMMA IdentityMoves ==
    ASSUME phase # "idle", bus' = bus, ecu' = ecu, step \in Probes,
           NEW status, Identity(status)
    PROVE  \/ Ends \/ Again
           \/ /\ status \in {"APP_CONFIRMED", "BOOT_CONFIRMED"}
              /\ phase' = "ready" /\ result' = result
              /\ \A m : Leads(m)
<1>1. "IDENTITY_REJECTED" \notin CommittedStatuses
  BY DEF CommittedStatuses
<1>2. CASE step = "probe"
  <2>1. \/ status = "APP_CONFIRMED" /\ Goto("default")
        \/ status = "BOOT_CONFIRMED" /\ Goto("seed")
        \/ Finish("IDENTITY_REJECTED")
    BY <1>2 DEF Identity
  <2> QED
    BY <1>1, <1>2, <2>1, ChainTable DEF Goto, Finish, Ends, Leads
<1>3. CASE step = "probeBoot"
  <2>1. \/ status = "BOOT_CONFIRMED" /\ Goto("seed")
        \/ Finish("IDENTITY_REJECTED")
    BY <1>3 DEF Identity
  <2> QED
    BY <1>1, <1>3, <2>1, ChainTable DEF Goto, Finish, Ends, Leads
<1>4. CASE step = "probeSession"
  <2>1. \/ status = "BOOT_CONFIRMED" /\ Goto("seedRetry")
        \/ Fail
    BY <1>4 DEF Identity
  <2> QED
    BY <1>4, <2>1, ChainTable, FailEnds DEF Goto, Leads
<1>5. CASE step = "verify"
  <2>1. \/ status = "APP_CONFIRMED" /\ Goto("version")
        \/ Finish("COMPLETED_UNVERIFIED")
        \/ Goto("verify")
    BY <1>5 DEF Identity
  <2>2. "version" \in Closing /\ "verify" \in Closing
    BY DEF Closing
  <2> QED
    BY <1>5, <2>1, <2>2 DEF Goto, Finish, Ends, Leads, Again
<1> QED
  BY <1>2, <1>3, <1>4, <1>5 DEF Probes

\* An answer that is read leaves the run waiting, ends it or leads it on.
LEMMA ReceiveMoves ==
    ASSUME TypeOK, RunOK, Receive
    PROVE  Stays \/ Ends \/ Again \/ Onward
<1> DEFINE m == Head(rx)
<1>1. /\ phase = "waiting" /\ phase # "idle" /\ rx # <<>> /\ rx' = Tail(rx)
      /\ UNCHANGED <<bus, ecu, target, envVars>>
  BY DEF Receive
<1>2. \/ Stays
      \/ m.kind # "positive" /\ ~(m.kind = "pending" /\ step \in {"erase", "auth"})
         /\ UdsError(m)
      \/ m.kind = "positive" /\ Matches(m) /\ Accepted(m)
  BY DEF Receive, Stays, toolVars
<1> HIDE DEF m
<1>3. CASE step \in Probes
  <2>1. UdsError(m) => Identity("AMBIGUOUS")
    BY <1>3 DEF UdsError
  <2>2. Accepted(m) => Identity(StatusOf(m.info))
    BY <1>3 DEF Accepted
  <2>3. UdsError(m) => Ends \/ Again
    BY <1>1, <1>3, <2>1, IdentityMoves
  <2>4. m.kind = "positive" /\ Accepted(m) => Ends \/ Again \/ Onward
    BY <1>1, <1>3, <2>2, IdentityMoves DEF Onward, Final, m
  <2> QED
    BY <1>2, <2>3, <2>4
<1>4. CASE step \notin Probes
  <2>1. ASSUME m.kind # "positive", UdsError(m)
        PROVE  Ends \/ Onward
    <3>1. \/ Fail
          \/ step \in {"seed", "key"} /\ m.kind = "negative" /\ Goto("session")
      BY <1>4, <2>1 DEF UdsError
    <3>2. CASE Fail
      BY <1>1, <3>2, FailEnds
    <3>3. CASE step \in {"seed", "key"} /\ m.kind = "negative" /\ Goto("session")
      <4>1. step' = "session" /\ phase' = "ready" /\ result' = result /\ Final(m)
        BY <3>3 DEF Goto, Final
      <4>2. Leads(m)
        BY <3>3, <4>1, ChainTable DEF Leads
      <4> QED
        BY <1>1, <4>1, <4>2 DEF Onward, m
    <3> QED
      BY <3>1, <3>2, <3>3
  <2>2. ASSUME m.kind = "positive", Matches(m), Accepted(m)
        PROVE  Ends \/ Onward
    <3>1. \/ Fail
          \/ step = "version" /\ Finish("COMPLETED")
          \/ step \in Transfers /\ Goto(step)
          \/ step # "version" /\ Goto(Following[step])
      BY <1>4, <2>2 DEF Accepted
    <3>2. Final(m) /\ m.svc = Service[step]
          /\ (m.svc \in {"precheck", "run", "auth", "exit"} => m.info # "bad")
      BY <2>2 DEF Final, Matches
    <3>3. step \in Steps
      BY DEF RunOK
    <3>4. CASE Fail
      BY <1>1, <3>4, FailEnds
    <3>5. CASE step = "version" /\ Finish("COMPLETED")
      BY <1>1, <3>5 DEF Finish, Ends
    <3>6. CASE step \in Transfers /\ Goto(step)
      <4>1. step' = step /\ phase' = "ready" /\ result' = result
        BY <3>6 DEF Goto
      <4>2. Leads(m)
        BY <3>6, <4>1, ChainTable DEF Leads
      <4> QED
        BY <1>1, <3>2, <4>1, <4>2 DEF Onward, m
    <3>7. CASE step # "version" /\ Goto(Following[step])
      <4>1. step' = Following[step] /\ phase' = "ready" /\ result' = result
        BY <3>7 DEF Goto
      <4>2. step \in Steps \ (Probes \cup {"version"})
        BY <1>4, <3>3, <3>7
      <4>3. \/ step \in Chain \ {"erase"} /\ step' \in Chain /\ Rank[step'] <= Rank[step] + 1
            \/ step = "erase" /\ step' = "appDownload"
            \/ step \in Late \ {"auth"} /\ step' \in Late
            \/ step = "auth" /\ step' = "reset"
            \/ step \in Closing /\ step' \in Closing
        BY <4>1, <4>2, ChainTable
      <4>4. step = "erase" => m.svc = "erase"
        BY <3>2
      <4>5. step = "auth" => m.info # "bad"
        BY <3>2
      <4>6. Leads(m)
        BY <2>2, <4>3, <4>4, <4>5 DEF Leads
      <4> QED
        BY <1>1, <3>2, <4>1, <4>6 DEF Onward, m
    <3> QED
      BY <3>1, <3>4, <3>5, <3>6, <3>7
  <2> QED
    BY <1>2, <2>1, <2>2
<1> QED
  BY <1>3, <1>4

\* Every step but the start of a run and a transmission moves it so.
LEMMA RunMoves ==
    ASSUME TypeOK, RunOK, Next
    PROVE  \/ \E matches \in BOOLEAN : Start(matches)
           \/ Transmit
           \/ runs' = runs /\ (Stays \/ Ends \/ Again \/ Onward)
<1>1. CASE NoticeCancel
  <2>1. phase # "idle" /\ bus' = bus /\ ecu' = ecu /\ runs' = runs /\ Cancelled
    BY <1>1 DEF NoticeCancel, SeesToken, ecuVars, envVars
  <2> QED
    BY <2>1, FailEnds
<1>2. CASE GiveUp
  BY <1>2 DEF GiveUp, LoopOver, Finish, Ends, ecuVars, envVars
<1>3. CASE Begin
  BY <1>3 DEF Begin, Stays, envVars
<1>4. CASE Receive
  BY <1>4, ReceiveMoves DEF Receive, envVars
<1>5. CASE TimeOut
  <2>1. phase # "idle" /\ bus' = bus /\ ecu' = ecu /\ runs' = runs
    BY <1>5 DEF TimeOut, ecuVars
  <2>2. \/ step \in Probes /\ (Identity("AMBIGUOUS") \/ Identity("NO_RESPONSE"))
        \/ Fail
    BY <1>5 DEF TimeOut
  <2> QED
    BY <2>1, <2>2, IdentityMoves, FailEnds
<1>6. CASE SendFails
  <2>1. phase # "idle" /\ bus' = bus /\ ecu' = ecu /\ runs' = runs
    BY <1>6 DEF SendFails, Fault
  <2>2. (step \in Probes /\ Identity("NO_RESPONSE")) \/ Fail
    BY <1>6 DEF SendFails
  <2> QED
    BY <2>1, <2>2, IdentityMoves, FailEnds
<1>7. CASE Cancel \/ DeadlinePasses \/ EcuServe \/ EcuStillBusy \/ EcuStartsApp
  BY <1>7 DEF Cancel, DeadlinePasses, EcuServe, EcuStillBusy, EcuStartsApp,
     toolVars, envVars, Stays
<1>8. CASE LoseRequest \/ LoseAnswer \/ EcuRefuses \/ EcuRestarts
  BY <1>8 DEF LoseRequest, LoseAnswer, EcuRefuses, EcuRestarts, Fault, toolVars, Stays
<1> QED
  BY <1>1, <1>2, <1>3, <1>4, <1>5, <1>6, <1>7, <1>8 DEF Next, ToolStep, Environment

\* The ECU vouches for an authentication only by carrying it out.
LEMMA NewAnswers ==
    ASSUME TypeOK, Next
    PROVE  \/ bus # <<>> /\ Accepts(ecu, Head(bus)) /\ ecu' = After(ecu, Head(bus))
           \/ /\ EcuKept
              /\ \A i \in 1..Len(rx') : rx'[i].kind = "positive" /\ rx'[i].info # "bad" =>
                    \E j \in 1..Len(rx) : rx[j] = rx'[i]
<1> DEFINE Old(m) == m.kind = "positive" /\ m.info # "bad" =>
                        \E j \in 1..Len(rx) : rx[j] = m
<1>1. rx \in Seq(Response) /\ bus \in Seq(Request) /\ ecu \in Ecu
  BY DEF TypeOK
<1>2. ASSUME rx' = rx \/ rx' = <<>> \/ (rx # <<>> /\ rx' = Tail(rx))
      PROVE  \A i \in 1..Len(rx') : Old(rx'[i])
  <2>1. CASE rx' = rx
    BY <2>1
  <2>2. CASE rx' = <<>>
    <3>1. Len(rx') = 0
      BY <2>2, EmptySeq
    <3> QED
      BY <3>1
  <2>3. CASE rx # <<>> /\ rx' = Tail(rx)
    <3>1. \A i \in 1..Len(rx') : rx'[i] = rx[i + 1] /\ i + 1 \in 1..Len(rx)
      BY <1>1, <2>3, TailFacts
    <3> QED
      BY <3>1
  <2> QED
    BY <1>2, <2>1, <2>2, <2>3
<1>3. ASSUME NEW m \in Response, Deliver(m), m.kind # "positive" \/ m.info = "bad"
      PROVE  \A i \in 1..Len(rx') : Old(rx'[i])
  <2>1. CASE rx' = rx
    BY <2>1
  <2>2. CASE rx' = Append(rx, m)
    <3>1. Len(rx) \in Nat /\ Len(rx') = Len(rx) + 1 /\ rx'[Len(rx) + 1] = m
          /\ \A i \in 1..Len(rx) : rx'[i] = rx[i]
      BY <1>1, <2>2, AppendFacts
    <3>2. \A i \in 1..Len(rx') : i \in 1..Len(rx) \/ i = Len(rx) + 1
      BY <3>1
    <3> QED
      BY <1>3, <3>1, <3>2
  <2> QED
    BY <1>3, <2>1, <2>2 DEF Deliver
<1>4. bus # <<>> => Head(bus) \in Request
  BY <1>1
<1>5. \A q \in Request :
          /\ Positive(q, "bad") \in Response /\ Positive(q, "bad").info = "bad"
          /\ Negative(q, "7F") \in Response /\ Negative(q, "7F").kind # "positive"
          /\ Negative(q, "other") \in Response /\ Negative(q, "other").kind # "positive"
          /\ Pending(q) \in Response /\ Pending(q).kind # "positive"
          /\ Refusal(ecu, q) \in Response /\ Refusal(ecu, q).kind # "positive"
  <2>1. {"ok", "7F", "other", "bad"} \subseteq Infos
    BY DEF Infos
  <2> QED
    BY <1>1, <2>1, AnswerTypes DEF Positive, Negative, Pending, Refusal
<1>6. CASE (\E matches \in BOOLEAN : Start(matches)) \/ ToolStep
  <2>1. ecu' = ecu /\ (rx' = rx \/ rx' = <<>> \/ (rx # <<>> /\ rx' = Tail(rx)))
    BY <1>6 DEF Start, ToolStep, NoticeCancel, GiveUp, Begin, Transmit, Receive,
       TimeOut, ecuVars
  <2> QED
    BY <1>2, <2>1 DEF EcuKept
<1>7. CASE Cancel \/ DeadlinePasses \/ EcuStartsApp \/ LoseRequest \/ LoseAnswer
           \/ EcuRestarts \/ SendFails
  <2>1. rx' = rx \/ (rx # <<>> /\ rx' = Tail(rx))
    BY <1>7 DEF Cancel, DeadlinePasses, EcuStartsApp, LoseRequest, LoseAnswer,
       EcuRestarts, SendFails, ecuVars
  <2>2. \/ ecu' = ecu \/ ecu' = Restarted(ecu)
        \/ ecu' = [ecu EXCEPT !.role = "App", !.booting = FALSE]
    BY <1>7 DEF Cancel, DeadlinePasses, EcuStartsApp, LoseRequest, LoseAnswer,
       EcuRestarts, SendFails, ecuVars
  <2>3. EcuKept
    BY <1>1, <2>2 DEF EcuKept, Restarted, Ecu
  <2> QED
    BY <1>2, <2>1, <2>3
<1>8. CASE EcuServe
  <2>1. bus # <<>>
    BY <1>8 DEF EcuServe
  <2>2. \/ Accepts(ecu, Head(bus)) /\ ecu' = After(ecu, Head(bus))
        \/ ecu' = ecu /\ Deliver(Refusal(ecu, Head(bus)))
    BY <1>8 DEF EcuServe
  <2> QED
    BY <1>3, <1>4, <1>5, <2>1, <2>2 DEF EcuKept
<1>9. CASE EcuStillBusy
  BY <1>3, <1>4, <1>5, <1>9 DEF EcuKept, EcuStillBusy
<1>10. CASE EcuRefuses
  BY <1>3, <1>4, <1>5, <1>10 DEF EcuKept, EcuRefuses
<1> QED
  BY <1>6, <1>7, <1>8, <1>9, <1>10 DEF Next, Environment

\* What serving a request does to the App flash and whose image it holds.
LEMMA ServedImage ==
    ASSUME NEW e \in Ecu, NEW q \in Request
    PROVE  /\ After(e, q).image \in {e.image, q.run}
           /\ q.svc = "auth" => After(e, q).app = "valid" /\ After(e, q).image = q.run
           /\ q.svc \in {"reset", "ident", "version"} =>
                 After(e, q).app = e.app /\ After(e, q).image = e.image
<1>1. q.svc \in Services /\ q.run \in Nat
  BY DEF Request
<1>2. Restarted(e).app = e.app /\ Restarted(e).image = e.image
  BY DEF Restarted, Ecu
<1>3. Handover(e).image = e.image /\ TransferDone(e).image = e.image
  BY DEF Handover, TransferDone, Ecu
<1>4. CASE q.svc = "reset"
  BY <1>2, <1>4 DEF After
<1>5. CASE q.svc \in {"program", "exit"}
  BY <1>3, <1>5 DEF After
<1>6. CASE q.svc \notin {"reset", "program", "exit"}
  BY <1>1, <1>6 DEF After, Services, Ecu
<1> QED
  BY <1>4, <1>5, <1>6

-------------------------------------------------------------------------------
(* The steps keep OwnOK, part by part.                                     *)

\* The type facts the steps below rest on.
LEMMA WireFacts ==
    ASSUME TypeOK
    PROVE  /\ rx \in Seq(Response) /\ bus \in Seq(Request)
           /\ Len(rx) \in Nat /\ Len(bus) \in Nat
           /\ (rx = <<>> <=> Len(rx) = 0) /\ (bus = <<>> <=> Len(bus) = 0)
           /\ (Len(rx) # 0 => Head(rx) = rx[1]) /\ (Len(bus) # 0 => Head(bus) = bus[1])
           /\ ecu \in Ecu /\ runs \in Nat /\ MaxBus \in Nat
<1>1. rx \in Seq(Response) /\ bus \in Seq(Request) /\ ecu \in Ecu /\ runs \in Nat
  BY DEF TypeOK
<1>2. Len(rx) \in Nat /\ Len(bus) \in Nat
  BY <1>1, LenProperties
<1>3. (rx = <<>> <=> Len(rx) = 0) /\ (bus = <<>> <=> Len(bus) = 0)
  BY <1>1, EmptySeq
<1>4. (rx # <<>> => Head(rx) = rx[1]) /\ (bus # <<>> => Head(bus) = bus[1])
  BY <1>1, TailFacts
<1> QED
  BY <1>1, <1>2, <1>3, <1>4, BoundAssumption

\* Traffic keeps what is under way numbered.
LEMMA TrafficKeepsNumbers ==
    ASSUME TypeOK, Numbered, Traffic, UsedUp \in Nat, UsedUp' = UsedUp,
           EraseAwaited' = EraseAwaited
    PROVE  Numbered'
<1> DEFINE N(r, b) == AreNumbered(r, b, UsedUp, EraseAwaited)
<1>1. N(rx, bus) /\ EraseAwaited \in BOOLEAN
  BY DEF Numbered, EraseAwaited
<1>2. SUFFICES N(rx', bus')
  BY DEF Numbered
<1>3. CASE Quiet
  BY <1>1, <1>3 DEF Quiet
<1>4. CASE Read
  <2>1. /\ Len(rx) \in Nat /\ Len(bus) \in Nat /\ Len(rx') \in Nat /\ Len(rx) # 0
        /\ Len(rx') = Len(rx) - 1 /\ \A i \in 1..Len(rx') : rx'[i] = rx[i + 1]
    <3>1. rx \in Seq(Response) /\ rx # <<>> /\ rx' = Tail(rx)
      BY <1>4, WireFacts DEF Read
    <3>2. Len(rx) \in Nat \ {0} /\ Len(rx') = Len(rx) - 1
          /\ \A i \in 1..Len(rx') : rx'[i] = rx[i + 1]
      BY <3>1, TailFacts
    <3> QED
      BY <3>2, WireFacts
  <2>2. N(rx', bus)
    BY <1>1, <2>1, ReadKeepsNumbers
  <2> QED
    BY <1>4, <2>2 DEF Read
<1>5. CASE Cleared
  <2>1. Len(bus') = 0 /\ rx' = rx
    BY <1>5, EmptySeq DEF Cleared
  <2>2. UsedUp <= UsedUp
    OBVIOUS
  <2>3. N(rx, bus')
    BY <1>1, <2>1, <2>2, WireFacts, FewerKeepNumbers
  <2> QED
    BY <2>1, <2>3
<1>6. ASSUME NEW m \in Response, Delayed(m)
      PROVE  N(rx', bus')
  <2>1. rx' = Append(rx, m) /\ ~Final(m) /\ bus' = bus /\ Len(bus) # 0
    BY <1>6, WireFacts DEF Delayed
  <2>2. /\ Len(rx') = Len(rx) + 1 /\ Len(rx') \in Nat /\ rx'[Len(rx) + 1] = m
        /\ \A i \in 1..Len(rx) : rx'[i] = rx[i]
    BY <2>1, WireFacts, AppendFacts
  <2>3. N(rx', bus)
    BY <1>1, <2>1, <2>2, WireFacts, DelayKeepsNumbers
  <2> QED
    BY <2>1, <2>3
<1>7. ASSUME NEW m \in Response, Served(m)
      PROVE  N(rx', bus')
  <2>1. /\ bus # <<>> /\ bus' = Tail(bus) /\ m.svc = Head(bus).svc
        /\ rx' = rx \/ rx' = Append(rx, m)
    BY <1>7 DEF Served
  <2>2. /\ Len(bus) \in Nat \ {0} /\ Len(bus') = Len(bus) - 1 /\ m.svc = bus[1].svc
        /\ \A i \in 1..Len(bus') : bus'[i] = bus[i + 1]
    BY <2>1, WireFacts, TailFacts
  <2>3. Len(bus') \in Nat /\ Len(bus) # 0 /\ Len(bus) \in Nat /\ Len(rx) \in Nat
    BY <2>2, WireFacts
  <2>4. CASE rx' = rx
    BY <1>1, <2>2, <2>3, <2>4, ServeKeepsNumbers
  <2>5. CASE rx' = Append(rx, m)
    <3>1. /\ Len(rx') = Len(rx) + 1 /\ Len(rx') \in Nat /\ rx'[Len(rx) + 1] = m
          /\ \A i \in 1..Len(rx) : rx'[i] = rx[i]
      BY <2>5, WireFacts, AppendFacts
    <3>2. rx'[Len(rx) + 1].svc = bus[1].svc
      BY <2>2, <3>1
    <3>3. AreNumbered(rx, bus, UsedUp, EraseAwaited) /\ EraseAwaited \in BOOLEAN
      BY <1>1
    <3> HIDE DEF N
    <3> DEFINE a == rx'
               t == bus'
    <3>4. /\ Len(t) \in Nat /\ Len(t) = Len(bus) - 1 /\ Len(bus) # 0
          /\ \A i \in 1..Len(t) : t[i] = bus[i + 1]
          /\ Len(a) \in Nat /\ Len(a) = Len(rx) + 1
          /\ \A i \in 1..Len(rx) : a[i] = rx[i]
          /\ a[Len(rx) + 1].svc = bus[1].svc
      BY <2>2, <2>3, <3>1, <3>2
    <3> HIDE DEF a, t
    <3>5. AreNumbered(a, t, UsedUp, EraseAwaited)
      BY <2>3, <3>3, <3>4, AnswerKeepsNumbers, ZenonT(60)
    <3> QED
      BY <3>5 DEF N, a, t
  <2> QED
    BY <2>1, <2>4, <2>5
<1> QED
  BY <1>3, <1>4, <1>5, <1>6, <1>7 DEF Traffic

\* A transmission keeps it numbered: what is sent comes after everything else.
LEMMA TransmitKeepsNumbers ==
    ASSUME TypeOK, Numbered, Transmit, step \in Chain
    PROVE  Numbered'
<1>1. /\ phase = "sending" /\ phase' = "waiting" /\ step' = step /\ rx' = rx
      /\ bus' = IF Len(bus) < MaxBus THEN Append(bus, RequestOf(step)) ELSE bus
  BY DEF Transmit
<1>2. /\ EraseAwaited = FALSE /\ EraseAwaited' \in BOOLEAN
      /\ EraseAwaited' <=> step = "erase"
  BY <1>1 DEF EraseAwaited
<1>a. UsedUp \in Nat
  BY ChainTable DEF UsedUp
<1>3. UsedUp \in Nat /\ UsedUp' = UsedUp /\ UsedUp <= UsedUp
  BY <1>1, <1>a DEF UsedUp
<1>4. AreNumbered(rx, bus, UsedUp, FALSE)
  BY <1>2 DEF Numbered
<1>5. CASE bus' = bus
  <2> DEFINE f == EraseAwaited'
  <2>a. f \in BOOLEAN /\ FALSE \in BOOLEAN /\ (FALSE => f) /\ UsedUp <= UsedUp
    BY <1>2, <1>3
  <2> HIDE DEF f
  <2>b. AreNumbered(rx, bus, UsedUp, f)
    BY <1>3, <1>4, <2>a, WireFacts, FewerKeepNumbers
  <2>1. AreNumbered(rx, bus, UsedUp, EraseAwaited')
    BY <2>b DEF f
  <2> QED
    BY <1>1, <1>3, <1>5, <2>1 DEF Numbered
<1>6. CASE bus' = Append(bus, RequestOf(step))
  <2>1. RequestOf(step) \in Request
    BY RequestType DEF TypeOK
  <2>2. RequestOf(step).svc = Service[step]
    BY DEF RequestOf
  <2>3. RequestOf(step).svc = "erase" => step = "erase"
    BY <2>2 DEF TypeOK
  <2>4. /\ Len(bus') = Len(bus) + 1 /\ Len(bus') \in Nat
        /\ bus'[Len(bus) + 1] = RequestOf(step)
        /\ \A i \in 1..Len(bus) : bus'[i] = bus[i]
    BY <1>6, <2>1, WireFacts, AppendFacts
  <2>5. bus'[Len(bus) + 1].svc = "erase" => EraseAwaited'
    BY <1>2, <2>3, <2>4
  <2>6. AreNumbered(rx, bus', UsedUp, EraseAwaited')
    BY <1>2, <1>3, <1>4, <2>4, <2>5, WireFacts, SendKeepsNumbers
  <2> QED
    BY <1>1, <1>3, <2>6 DEF Numbered
<1> QED
  BY <1>1, <1>5, <1>6

\* So does reading the answer that leads from one step of the chain to the next.
LEMMA OnwardKeepsNumbers ==
    ASSUME TypeOK, Numbered, Onward, step \in Chain \ {"erase"}
    PROVE  step' \in Chain /\ Numbered'
<1>1. step' \in Chain /\ Rank[step'] <= Rank[step] + 1
  BY DEF Onward, Leads, Late, Closing, Chain, Rank
<1>2. UsedUp \in Nat /\ UsedUp' \in Nat /\ UsedUp' <= UsedUp + 1
  BY <1>1, ChainTable DEF UsedUp
<1>3. EraseAwaited = FALSE /\ EraseAwaited' = FALSE
  BY DEF EraseAwaited, Onward
<1>4. rx \in Seq(Response) /\ rx # <<>> /\ rx' = Tail(rx) /\ bus' = bus /\ Final(Head(rx))
  BY WireFacts DEF Onward
<1>5. /\ Len(rx) \in Nat \ {0} /\ Len(rx') = Len(rx) - 1 /\ Head(rx) = rx[1]
      /\ \A i \in 1..Len(rx') : rx'[i] = rx[i + 1]
  BY <1>4, TailFacts
<1>6. Len(rx') \in Nat /\ Len(rx) # 0 /\ Final(rx[1])
  BY <1>4, <1>5
<1>7. AreNumbered(rx, bus, UsedUp, FALSE)
  BY <1>3 DEF Numbered
<1>8. AreNumbered(rx', bus, UsedUp', FALSE)
  BY <1>2, <1>5, <1>6, <1>7, WireFacts, FirstIsUsedUp
<1> QED
  BY <1>1, <1>3, <1>4, <1>8 DEF Numbered

\* Traffic leaves a run alone with its own request.
LEMMA TrafficKeepsAlone ==
    ASSUME TypeOK, Alone, Stays, runs' = runs, Traffic
    PROVE  Alone'
<1> DEFINE q == RequestOf(step)
           Goal == /\ phase' # "waiting" => Len(bus') = 0 /\ Len(rx') = 0
                   /\ Len(bus') # 0 => Len(bus') = 1 /\ bus'[1] = q
                   /\ \A i \in 1..Len(rx') : Final(rx'[i]) => i = Len(rx') /\ Len(bus') = 0
<1>1. q' = q
  BY DEF Stays, RequestOf
<1>2. phase' # "waiting" => phase # "waiting"
  BY DEF Stays
<1>3. /\ phase # "waiting" => Len(bus) = 0 /\ Len(rx) = 0
      /\ Len(bus) # 0 => Len(bus) = 1 /\ bus[1] = q
      /\ \A i \in 1..Len(rx) : Final(rx[i]) => i = Len(rx) /\ Len(bus) = 0
  BY DEF Alone
<1> HIDE DEF q
<1>4. SUFFICES Goal
  BY <1>1 DEF Alone, Final, q
<1>5. CASE Quiet
  BY <1>2, <1>3, <1>5 DEF Quiet
<1>6. CASE Read
  <2>1. rx \in Seq(Response) /\ rx # <<>> /\ rx' = Tail(rx) /\ bus' = bus
    BY <1>6, WireFacts DEF Read
  <2>2. /\ Len(rx) \in Nat \ {0} /\ Len(rx') = Len(rx) - 1
        /\ \A i \in 1..Len(rx') : rx'[i] = rx[i + 1] /\ i + 1 \in 1..Len(rx)
    BY <2>1, TailFacts
  <2>3. \A i \in 1..Len(rx') : Final(rx'[i]) => i = Len(rx') /\ Len(bus) = 0
    BY <1>3, <2>2
  <2>4. phase' = "waiting"
    BY <1>2, <1>3, <2>2 DEF Stays
  <2> QED
    BY <1>3, <2>1, <2>3, <2>4
<1>7. CASE Cleared
  <2>1. Len(bus') = 0 /\ rx' = rx
    BY <1>7, EmptySeq DEF Cleared
  <2> QED
    BY <1>2, <1>3, <2>1
<1>8. ASSUME NEW m \in Response, Delayed(m)
      PROVE  Goal
  <2>1. rx' = Append(rx, m) /\ ~Final(m) /\ bus' = bus /\ Len(bus) # 0
    BY <1>8, WireFacts DEF Delayed
  <2>2. /\ Len(rx') = Len(rx) + 1 /\ rx'[Len(rx) + 1] = m /\ Len(rx) \in Nat
        /\ \A i \in 1..Len(rx) : rx'[i] = rx[i]
    BY <2>1, WireFacts, AppendFacts
  <2>3. \A i \in 1..Len(rx') : i \in 1..Len(rx) \/ i = Len(rx) + 1
    BY <2>2
  <2>4. \A i \in 1..Len(rx') : ~Final(rx'[i])
    BY <1>3, <2>1, <2>2, <2>3
  <2>5. phase' = "waiting"
    BY <1>2, <1>3, <2>1 DEF Stays
  <2> QED
    BY <1>3, <2>1, <2>4, <2>5
<1>9. ASSUME NEW m \in Response, Served(m)
      PROVE  Goal
  <2>1. /\ bus # <<>> /\ bus' = Tail(bus) /\ (rx' = rx \/ rx' = Append(rx, m))
        /\ Len(bus) = 1
    BY <1>3, <1>9, WireFacts DEF Served
  <2>2. Len(bus') = 0
    BY <2>1, WireFacts, TailFacts
  <2>3. /\ Len(rx) \in Nat
        /\ rx' = Append(rx, m) => /\ Len(rx') = Len(rx) + 1
                                  /\ \A i \in 1..Len(rx) : rx'[i] = rx[i]
    BY WireFacts, AppendFacts
  <2>4. \A i \in 1..Len(rx) : ~Final(rx[i])
    BY <1>3, <2>1
  <2>5. CASE rx' = rx
    BY <1>3, <2>1, <2>2, <2>4, <2>5 DEF Stays
  <2>6. CASE rx' = Append(rx, m)
    <3>1. \A i \in 1..Len(rx') : i \in 1..Len(rx) \/ i = Len(rx')
      BY <2>3, <2>6
    <3>2. \A i \in 1..Len(rx') : Final(rx'[i]) => i = Len(rx')
      BY <2>3, <2>4, <2>6, <3>1
    <3>3. phase' = "waiting"
      BY <1>3, <2>1 DEF Stays
    <3> QED
      BY <2>2, <3>2, <3>3
  <2> QED
    BY <2>1, <2>5, <2>6
<1> QED
  BY <1>5, <1>6, <1>7, <1>8, <1>9 DEF Traffic

\* So does the transmission of its request.
LEMMA TransmitKeepsAlone ==
    ASSUME TypeOK, Alone, Transmit
    PROVE  Alone' /\ Len(rx') = 0
<1>1. /\ phase = "sending" /\ phase' = "waiting" /\ rx' = rx
      /\ bus' = IF Len(bus) < MaxBus THEN Append(bus, RequestOf(step)) ELSE bus
      /\ RequestOf(step)' = RequestOf(step)
  BY DEF Transmit, RequestOf, envVars
<1>2. Len(bus) = 0 /\ Len(rx) = 0
  BY <1>1 DEF Alone
<1>3. RequestOf(step) \in Request
  BY RequestType DEF TypeOK
<1>4. Len(Append(bus, RequestOf(step))) = 1 /\ Append(bus, RequestOf(step))[1] = RequestOf(step)
  <2>1. Len(Append(bus, RequestOf(step))) = Len(bus) + 1
        /\ Append(bus, RequestOf(step))[Len(bus) + 1] = RequestOf(step)
    BY <1>3, WireFacts, AppendFacts
  <2> QED
    BY <1>2, <2>1
<1>5. Len(bus') # 0 => Len(bus') = 1 /\ bus'[1] = RequestOf(step)
  BY <1>1, <1>2, <1>4
<1>6. Len(rx') = 0
  BY <1>1, <1>2
<1> QED
  BY <1>1, <1>5, <1>6 DEF Alone

\* While the authentication is under way, the answer stays true.
LEMMA AnswerStaysTrue ==
    ASSUME TypeOK, Next, Alone, AnswerIsTrue, step' = step, runs' = runs
    PROVE  AnswerIsTrue'
<1> SUFFICES ASSUME step = "auth", NEW i \in 1..Len(rx'),
                    rx'[i].kind = "positive", rx'[i].info # "bad"
             PROVE  Installed'
  BY DEF AnswerIsTrue
<1>1. CASE bus # <<>> /\ Accepts(ecu, Head(bus)) /\ ecu' = After(ecu, Head(bus))
  <2>1. Len(bus) # 0 /\ Head(bus) = bus[1] /\ bus[1] = RequestOf(step)
    BY <1>1, WireFacts DEF Alone
  <2>2. RequestOf(step).svc = "auth" /\ RequestOf(step).run = runs
    BY DEF RequestOf
  <2>3. RequestOf(step) \in Request /\ ecu \in Ecu
    BY RequestType DEF TypeOK
  <2>4. ecu'.app = "valid" /\ ecu'.image = runs
    BY <1>1, <2>1, <2>2, <2>3, ServedImage
  <2> QED
    BY <2>4 DEF Installed
<1>2. CASE /\ EcuKept
           /\ \A k \in 1..Len(rx') : rx'[k].kind = "positive" /\ rx'[k].info # "bad" =>
                    \E j \in 1..Len(rx) : rx[j] = rx'[k]
  <2>1. PICK j \in 1..Len(rx) : rx[j] = rx'[i]
    BY <1>2
  <2>2. Installed
    BY <2>1 DEF AnswerIsTrue
  <2> QED
    BY <1>2, <2>2 DEF Installed, EcuKept
<1> QED
  BY <1>1, <1>2, NewAnswers

\* What is settled stays settled until the next run, also while the run asks the
\* ECU to reset and who it is.
LEMMA SettledStays ==
    ASSUME TypeOK, Next, Settled, runs' = runs, Transmit => step \in Closing
    PROVE  Settled'
<1>1. ecu.app = "valid" /\ ecu.image = runs
      /\ \A i \in 1..Len(bus) : bus[i].svc \in {"reset", "ident", "version"}
  BY DEF Settled, Installed
<1>2. EcuKept
  <2>1. CASE bus # <<>> /\ Accepts(ecu, Head(bus)) /\ ecu' = After(ecu, Head(bus))
    <3>1. Head(bus) = bus[1] /\ Head(bus) \in Request /\ 1 \in 1..Len(bus)
      BY <2>1, WireFacts, TailFacts
    <3>2. Head(bus).svc \in {"reset", "ident", "version"}
      BY <1>1, <3>1
    <3>3. ecu \in Ecu
      BY DEF TypeOK
    <3> QED
      BY <2>1, <3>1, <3>2, <3>3, ServedImage DEF EcuKept
  <2> QED
    BY <2>1, NewAnswers
<1>3. \A i \in 1..Len(bus') : bus'[i].svc \in {"reset", "ident", "version"}
  <2>1. BusMove
    BY WireSteps
  <2>2. CASE bus' = bus
    BY <1>1, <2>2
  <2>3. CASE bus # <<>> /\ bus' = Tail(bus)
    <3>1. \A i \in 1..Len(bus') : bus'[i] = bus[i + 1] /\ i + 1 \in 1..Len(bus)
      BY <2>3, WireFacts, TailFacts
    <3> QED
      BY <1>1, <3>1
  <2>4. CASE bus' = <<>>
    <3>1. Len(bus') = 0
      BY <2>4, EmptySeq
    <3> QED
      BY <3>1
  <2>5. CASE Transmit /\ bus' = Append(bus, RequestOf(step))
    <3>1. RequestOf(step) \in Request
      BY RequestType DEF TypeOK
    <3>2. RequestOf(step).svc \in {"reset", "ident", "version"}
      BY <2>5 DEF RequestOf, Closing
    <3>3. /\ Len(bus) \in Nat /\ Len(bus') = Len(bus) + 1
          /\ bus'[Len(bus) + 1] = RequestOf(step)
          /\ \A i \in 1..Len(bus) : bus'[i] = bus[i]
      BY <2>5, <3>1, WireFacts, AppendFacts
    <3>4. \A i \in 1..Len(bus') : i \in 1..Len(bus) \/ i = Len(bus) + 1
      BY <3>3
    <3> QED
      BY <1>1, <3>2, <3>3, <3>4
  <2> QED
    BY <2>1, <2>2, <2>3, <2>4, <2>5 DEF BusMove
<1> QED
  BY <1>1, <1>2, <1>3 DEF Settled, Installed, EcuKept

\* The bus never holds more than its buffer, and nothing on it or in the flash
\* is of a later run.
LEMMA BoundsStay ==
    ASSUME TypeOK, Next, Len(bus) <= MaxBus, ecu.image <= runs,
           \A i \in 1..Len(bus) : bus[i].run <= runs
    PROVE  /\ Len(bus') <= MaxBus /\ ecu'.image <= runs'
           /\ \A i \in 1..Len(bus') : bus'[i].run <= runs'
<1>1. runs \in Nat /\ runs' \in Nat /\ runs <= runs'
  <2>1. runs' = runs \/ runs' = runs + 1
    BY DEF Next, ToolStep, Environment, Start, NoticeCancel, GiveUp, Begin, Transmit,
       Receive, TimeOut, Cancel, DeadlinePasses, EcuServe, EcuStillBusy, EcuStartsApp,
       LoseRequest, LoseAnswer, EcuRefuses, EcuRestarts, SendFails, Fault, envVars
  <2> QED
    BY <2>1 DEF TypeOK
<1>2. \A q \in Request : q.run \in Nat
  BY DEF Request
<1>3. \A i \in 1..Len(bus) : bus[i] \in Request /\ bus[i].run <= runs'
  <2> SUFFICES ASSUME NEW i \in 1..Len(bus)
               PROVE  bus[i] \in Request /\ bus[i].run <= runs'
    OBVIOUS
  <2>1. bus[i] \in Request
    BY WireFacts
  <2>2. bus[i].run \in Nat
    BY <1>2, <2>1
  <2> QED
    BY <1>1, <2>1, <2>2
<1>4. ecu'.image <= runs'
  <2>1. CASE bus # <<>> /\ Accepts(ecu, Head(bus)) /\ ecu' = After(ecu, Head(bus))
    <3>1. 1 \in 1..Len(bus) /\ Head(bus) = bus[1] /\ Head(bus) \in Request /\ ecu \in Ecu
      BY <2>1, WireFacts, TailFacts
    <3>2. ecu'.image \in {ecu.image, bus[1].run}
      BY <2>1, <3>1, ServedImage
    <3>3. ecu.image \in Nat
      BY <3>1 DEF Ecu
    <3>4. ecu.image <= runs'
      BY <1>1, <3>3
    <3> QED
      BY <1>3, <3>1, <3>2, <3>4
  <2>2. CASE EcuKept
    <3>1. ecu.image \in Nat /\ ecu'.image = ecu.image
      BY <2>2 DEF EcuKept, TypeOK, Ecu
    <3> QED
      BY <1>1, <3>1
  <2> QED
    BY <2>1, <2>2, NewAnswers
<1>5. Len(bus') <= MaxBus /\ \A i \in 1..Len(bus') : bus'[i].run <= runs'
  <2>1. BusMove
    BY WireSteps
  <2>2. CASE bus' = bus
    BY <1>3, <2>2
  <2>3. CASE bus # <<>> /\ bus' = Tail(bus)
    <3>1. Len(bus) \in Nat /\ Len(bus') = Len(bus) - 1
          /\ \A i \in 1..Len(bus') : bus'[i] = bus[i + 1] /\ i + 1 \in 1..Len(bus)
      BY <2>3, WireFacts, TailFacts
    <3>2. Len(bus') <= MaxBus
      BY <3>1, WireFacts
    <3> QED
      BY <1>3, <3>1, <3>2
  <2>4. CASE bus' = <<>>
    <3>1. Len(bus') = 0
      BY <2>4, EmptySeq
    <3> QED
      BY <3>1, WireFacts
  <2>5. CASE Transmit /\ bus' = Append(bus, RequestOf(step)) /\ bus' # bus
    <3>1. RequestOf(step) \in Request
      BY RequestType DEF TypeOK
    <3>2. RequestOf(step).run = runs
      BY DEF RequestOf
    <3>3. /\ Len(bus) \in Nat /\ Len(bus') = Len(bus) + 1
          /\ bus'[Len(bus) + 1] = RequestOf(step)
          /\ \A i \in 1..Len(bus) : bus'[i] = bus[i]
      BY <2>5, <3>1, WireFacts, AppendFacts
    <3>4. \A i \in 1..Len(bus') : i \in 1..Len(bus) \/ i = Len(bus) + 1
      BY <3>3
    <3>5. Len(bus) < MaxBus
      BY <2>5 DEF Transmit
    <3>6. Len(bus') <= MaxBus
      BY <3>3, <3>5, WireFacts
    <3>7. \A i \in 1..Len(bus') : bus'[i].run <= runs'
      BY <1>1, <1>3, <3>2, <3>3, <3>4
    <3> QED
      BY <3>6, <3>7
  <2> QED
    BY <2>1, <2>2, <2>3, <2>4, <2>5 DEF BusMove
<1> QED
  BY <1>4, <1>5

\* The rest of OwnOK, without the bounds.
Course ==
    /\ phase # "idle" => result = "none"
    /\ phase # "idle" /\ step \in Chain => Numbered
    /\ phase # "idle" /\ step \in Late => Alone /\ AnswerIsTrue
    /\ phase # "idle" /\ step \in Closing => Settled
    /\ result \in CommittedStatuses => Settled

\* The parts of the chain are disjoint.
LEMMA ChainParts ==
    /\ "none" \notin CommittedStatuses
    /\ Chain \cap Late = {} /\ Chain \cap Closing = {} /\ Late \cap Closing = {}
    /\ "probe" \in Chain /\ "erase" \in Chain /\ "appDownload" \in Late
    /\ "auth" \in Late /\ {"reset", "verify", "version"} \subseteq Closing
BY DEF Chain, Rank, Late, Closing, CommittedStatuses

\* A new run counts what it finds; nothing else is asked of it.
LEMMA StartCourse ==
    ASSUME TypeOK, Len(bus) <= MaxBus, NEW matches \in BOOLEAN, Start(matches)
    PROVE  Course'
<1>1. /\ step' = "probe" /\ rx' = <<>> /\ bus' = bus
      /\ result' \in {"none", "PACKAGE_REJECTED"}
      /\ phase' # "idle" => result' = "none"
  BY DEF Start
<1>2. result' \notin CommittedStatuses
  BY <1>1 DEF CommittedStatuses
<1>3. Numbered'
  <2>1. Len(rx') = 0 /\ UsedUp' = 0
    BY <1>1, EmptySeq, ChainTable DEF UsedUp
  <2>2. EraseAwaited' \in BOOLEAN
    BY DEF EraseAwaited
  <2>3. AreNumbered(rx', bus, 0, EraseAwaited')
    BY <2>1, <2>2, WireFacts, StartNumbers
  <2> QED
    BY <1>1, <2>1, <2>3 DEF Numbered
<1>4. step' \notin Late /\ step' \notin Closing
  BY <1>1, ChainParts
<1> QED
  BY <1>1, <1>2, <1>3, <1>4 DEF Course

\* A request that is sent is counted, or is the only one, or is harmless.
LEMMA TransmitCourse ==
    ASSUME TypeOK, Next, Course, Transmit
    PROVE  Course'
<1>1. phase = "sending" /\ phase' = "waiting" /\ step' = step /\ result' = result /\ runs' = runs
  BY DEF Transmit, envVars
<1>2. step \in Chain => Numbered'
  BY <1>1, TransmitKeepsNumbers DEF Course
<1>3. step \in Late => Alone' /\ AnswerIsTrue'
  <2>1. step \in Late => Alone' /\ Len(rx') = 0
    BY <1>1, TransmitKeepsAlone DEF Course
  <2> QED
    BY <2>1 DEF AnswerIsTrue
<1>4. step \in Closing => Settled'
  BY <1>1, SettledStays DEF Course
<1>5. result = "none"
  BY <1>1 DEF Course
<1> QED
  BY <1>1, <1>2, <1>3, <1>4, <1>5, ChainParts DEF Course

\* Staying at its step, a run keeps its course.
LEMMA StaysCourse ==
    ASSUME TypeOK, Next, Course, Stays, runs' = runs, Traffic, ~Transmit
    PROVE  Course'
<1>1. step' = step /\ result' = result /\ (phase' # "idle" => phase # "idle")
      /\ (phase' = "idle" <=> phase = "idle")
  BY DEF Stays
<1>2. phase # "idle" /\ step \in Chain => Numbered'
  <2>1. EraseAwaited' = EraseAwaited
    BY DEF EraseAwaited, Stays
  <2>2. step \in Chain => UsedUp \in Nat /\ UsedUp' = UsedUp
    BY <1>1, ChainTable DEF UsedUp
  <2> QED
    BY <2>1, <2>2, TrafficKeepsNumbers DEF Course
<1>3. phase # "idle" /\ step \in Late => Alone' /\ AnswerIsTrue'
  BY <1>1, TrafficKeepsAlone, AnswerStaysTrue DEF Course
<1>4. (phase # "idle" /\ step \in Closing) \/ result \in CommittedStatuses => Settled'
  BY SettledStays DEF Course
<1> QED
  BY <1>1, <1>2, <1>3, <1>4 DEF Course

\* A run that ends vouches for what is settled; one that asks again stays so.
LEMMA EndsCourse ==
    ASSUME TypeOK, Next, Course, Ends \/ Again, runs' = runs, ~Transmit
    PROVE  Course'
<1>1. CASE Ends
  <2>1. phase # "idle" /\ phase' = "idle"
        /\ (result' \in CommittedStatuses => step \in {"verify", "version"})
    BY <1>1 DEF Ends
  <2>2. result' \in CommittedStatuses => Settled'
    BY <2>1, SettledStays, ChainParts DEF Course
  <2> QED
    BY <2>1, <2>2 DEF Course
<1>2. CASE Again
  <2>1. step = "verify" /\ step' = step /\ phase # "idle" /\ result' = result
    BY <1>2 DEF Again
  <2>2. Settled' /\ result = "none"
    BY <2>1, SettledStays, ChainParts DEF Course
  <2>3. step \notin Chain /\ step \notin Late
    BY <2>1, ChainParts
  <2> QED
    BY <2>1, <2>2, <2>3 DEF Course
<1> QED
  BY <1>1, <1>2

\* The answer that leads a run on is counted; the one to the erase shows that
\* nothing else is under way, the one to the authentication that the App of this
\* run is installed.
LEMMA OnwardCourse ==
    ASSUME MaxBus <= 7, TypeOK, Next, Course, Onward, runs' = runs, ~Transmit
    PROVE  Course'
<1> DEFINE m == Head(rx)
<1>1. /\ phase = "waiting" /\ phase' = "ready" /\ result' = result /\ result = "none"
      /\ rx # <<>> /\ rx' = Tail(rx) /\ bus' = bus /\ ecu' = ecu /\ Final(m) /\ Leads(m)
  BY DEF Onward, Course
<1>2. /\ Len(rx) \in Nat \ {0} /\ Len(rx') = Len(rx) - 1 /\ m = rx[1]
      /\ 1 \in 1..Len(rx)
  BY <1>1, WireFacts, TailFacts
<1> HIDE DEF m
<1>3. CASE step \in Chain \ {"erase"}
  <2>1. step' \in Chain /\ Numbered'
    BY <1>1, <1>3, OnwardKeepsNumbers DEF Course
  <2> QED
    BY <1>1, <2>1, ChainParts DEF Course
<1>4. CASE step = "erase"
  <2>1. step' = "appDownload" /\ m.svc = "erase"
    BY <1>1, <1>4, ChainParts DEF Leads
  <2>2. Numbered
    BY <1>1, <1>4, ChainParts DEF Course
  <2>3. UsedUp = 7 /\ EraseAwaited \in BOOLEAN
    BY <1>4, ChainTable DEF UsedUp, EraseAwaited
  <2>4. UsedUp \in Nat /\ UsedUp >= MaxBus
    BY <2>3, WireFacts
  <2>5. Len(bus) = 0 /\ Len(rx) = 1
    BY <1>1, <1>2, <2>1, <2>2, <2>3, <2>4, WireFacts, EraseAnswerIsLast DEF Numbered
  <2>6. Len(bus') = 0 /\ Len(rx') = 0
    BY <1>1, <1>2, <2>5
  <2>7. Alone' /\ AnswerIsTrue'
    BY <2>6 DEF Alone, AnswerIsTrue
  <2> QED
    BY <1>1, <2>1, <2>7, ChainParts DEF Course
<1>5. CASE step \in Late
  <2>1. Alone /\ AnswerIsTrue
    BY <1>1, <1>5 DEF Course
  <2>2. Len(rx) = 1 /\ Len(bus) = 0
    BY <1>1, <1>2, <2>1 DEF Alone
  <2>3. Len(bus') = 0 /\ Len(rx') = 0
    BY <1>1, <1>2, <2>2
  <2>4. CASE step' \in Late
    <3>1. Alone' /\ AnswerIsTrue'
      BY <2>3 DEF Alone, AnswerIsTrue
    <3> QED
      BY <1>1, <2>4, <3>1, ChainParts DEF Course
  <2>5. CASE step = "auth" /\ step' = "reset" /\ m.kind = "positive" /\ m.info # "bad"
    <3>1. Installed
      BY <1>2, <2>1, <2>5 DEF AnswerIsTrue
    <3>2. Settled'
      BY <1>1, <2>3, <3>1 DEF Settled, Installed
    <3> QED
      BY <1>1, <2>5, <3>2, ChainParts DEF Course
  <2> QED
    BY <1>1, <1>5, <2>4, <2>5, ChainParts DEF Leads
<1>6. CASE step \in Closing
  <2>1. step' \in Closing
    BY <1>1, <1>6, ChainParts DEF Leads
  <2>2. Settled'
    BY <1>1, <1>6, SettledStays DEF Course
  <2> QED
    BY <1>1, <2>1, <2>2, ChainParts DEF Course
<1> QED
  BY <1>3, <1>4, <1>5, <1>6, ChainTable DEF TypeOK

\* Every step keeps OwnOK.
LEMMA OwnStep ==
    ASSUME MaxBus <= 7, IInv, OwnOK, Next
    PROVE  OwnOK'
<1>1. TypeOK /\ RunOK /\ Course
  BY DEF IInv, OwnOK, Course
<1>2. /\ Len(bus') <= MaxBus /\ ecu'.image <= runs'
      /\ \A i \in 1..Len(bus') : bus'[i].run <= runs'
  BY <1>1, BoundsStay DEF OwnOK
<1>3. Course'
  <2>1. ASSUME NEW matches \in BOOLEAN, Start(matches)
        PROVE  Course'
    BY <1>1, <2>1, StartCourse DEF OwnOK
  <2>2. CASE Transmit
    BY <1>1, <2>2, TransmitCourse
  <2>3. CASE runs' = runs /\ Traffic /\ ~Transmit /\ Stays
    BY <1>1, <2>3, StaysCourse
  <2>4. CASE runs' = runs /\ ~Transmit /\ (Ends \/ Again)
    BY <1>1, <2>4, EndsCourse
  <2>5. CASE runs' = runs /\ ~Transmit /\ Onward
    BY <1>1, <2>5, OnwardCourse
  <2> QED
    BY <1>1, <2>1, <2>2, <2>3, <2>4, <2>5, RunMoves, TrafficSteps
<1>4. phase' # "idle" => runs' > 0
  <2>1. (\E matches \in BOOLEAN : Start(matches)) => runs' > 0
    BY <1>1 DEF Start, TypeOK
  <2>2. Transmit => phase # "idle" /\ runs' = runs
    BY DEF Transmit, envVars
  <2>3. (Stays \/ Ends \/ Again \/ Onward) /\ phase' # "idle" => phase # "idle"
    BY DEF Stays, Ends, Again, Onward
  <2> QED
    BY <1>1, <2>1, <2>2, <2>3, RunMoves DEF OwnOK
<1> QED
  BY <1>2, <1>3, <1>4 DEF OwnOK, Course

\* OwnOK holds from the start, and stays.
LEMMA OwnInitially == Init => OwnOK
<1> SUFFICES ASSUME Init
             PROVE  OwnOK
  OBVIOUS
<1>1. bus = <<>> /\ phase = "idle" /\ result = "none" /\ runs = 0
      /\ ecu \in {FactoryEcu, BlankEcu}
  BY DEF Init
<1>2. Len(bus) = 0
  BY <1>1, EmptySeq
<1>3. FactoryEcu.image = 0
  BY DEF FactoryEcu
<1>4. BlankEcu.image = 0
  BY DEF FactoryEcu, BlankEcu
<1>5. Len(bus) <= MaxBus /\ ecu.image <= runs
  BY <1>1, <1>2, <1>3, <1>4, BoundAssumption
<1> QED
  BY <1>1, <1>2, <1>5, ChainParts DEF OwnOK

\* Both hold throughout.
LEMMA OwnAlways ==
    ASSUME MaxBus <= 7
    PROVE  Spec => [](IInv /\ OwnOK)
<1>1. IInv /\ OwnOK /\ [Next]_vars => OwnOK'
  <2>1. ASSUME OwnOK, UNCHANGED vars
        PROVE  OwnOK'
    <3>1. /\ step' = step /\ phase' = phase /\ block' = block /\ result' = result
          /\ bus' = bus /\ rx' = rx /\ ecu' = ecu /\ runs' = runs
      BY <2>1 DEF vars, toolVars, ecuVars, envVars
    <3>2. Numbered' <=> Numbered
      BY <3>1 DEF Numbered, UsedUp, EraseAwaited
    <3>3. Alone' <=> Alone
      BY <3>1 DEF Alone, RequestOf
    <3>4. (AnswerIsTrue' <=> AnswerIsTrue) /\ (Settled' <=> Settled)
      BY <3>1 DEF AnswerIsTrue, Settled, Installed
    <3> QED
      BY <2>1, <3>1, <3>2, <3>3, <3>4 DEF OwnOK
  <2> QED
    BY <2>1, OwnStep
<1> QED
  BY <1>1, OwnInitially, Inductive, PTL DEF Spec

\* A run that reports COMPLETED or COMPLETED_UNVERIFIED has had its own App
\* authenticated, and no request of this or an earlier run can undo that before
\* the next run starts: provided the ECU buffers no more requests than a run
\* has answered before it erases.
THEOREM VerdictsAreTrue ==
    ASSUME MaxBus <= 7
    PROVE  Spec => []CommittedVerdicts
<1>1. IInv /\ OwnOK => CommittedVerdicts
  BY DEF OwnOK, CommittedVerdicts, Settled, Installed
<1> QED
  BY <1>1, OwnAlways, PTL

-------------------------------------------------------------------------------
(***************************************************************************)
(* The runs implement OtaPromise.  Start is Begin, handing over the erase  *)
(* is TakeRisk, the end of a run is Conclude, a request that the ECU       *)
(* carries out on its flash is Change, and everything else is a stutter.   *)
(***************************************************************************)

\* The end of a run: a safe status exactly when it was not destructive.
Concludes ==
    /\ phase # "idle"
    /\ \E v \in Statuses : Finish(v) /\ (v \in SafeStatuses <=> ~destructive)

Undecided == UNCHANGED <<destructive, result, claims>>

\* Which statuses are safe.
LEMMA StatusTable ==
    /\ {"ECU_IN_BOOT", "FAILED_UNKNOWN", "COMPLETED", "COMPLETED_UNVERIFIED"}
          \subseteq Statuses \ SafeStatuses
    /\ {"CANCELLED_SAFE", "IDENTITY_REJECTED", "PACKAGE_REJECTED"}
          \subseteq Statuses \cap SafeStatuses
    /\ CommittedStatuses \cap SafeStatuses = {}
    /\ Statuses = SafeStatuses \cup CommittedStatuses \cup {"ECU_IN_BOOT", "FAILED_UNKNOWN"}
BY DEF Statuses, SafeStatuses, CommittedStatuses

\* An exception concludes.
LEMMA FailConcludes ==
    ASSUME phase # "idle", destructive \in BOOLEAN, Fail \/ Cancelled
    PROVE  Concludes
<1>1. CASE destructive
  <2>1. Finish("FAILED_UNKNOWN") \/ Finish("ECU_IN_BOOT")
    BY <1>1 DEF Fail, Cancelled
  <2> QED
    BY <1>1, <2>1, StatusTable DEF Concludes
<1>2. CASE ~destructive
  <2>1. Finish("CANCELLED_SAFE")
    BY <1>2 DEF Fail, Cancelled
  <2> QED
    BY <1>2, <2>1, StatusTable DEF Concludes
<1> QED
  BY <1>1, <1>2

\* An identity concludes or leaves the verdict open.
LEMMA IdentityConcludes ==
    ASSUME RunOK, phase \in {"sending", "waiting"}, step \in Probes,
           NEW status, Identity(status)
    PROVE  Concludes \/ Undecided
<1>1. phase # "idle" /\ destructive \in BOOLEAN /\ (destructive <=> step = "verify")
  BY DEF RunOK, Probes, AfterErase
<1>2. CASE step \in {"probe", "probeBoot"}
  <2>1. Goto("default") \/ Goto("seed") \/ Finish("IDENTITY_REJECTED")
    BY <1>2 DEF Identity
  <2>2. Finish("IDENTITY_REJECTED") => Concludes
    BY <1>1, <1>2, StatusTable DEF Concludes
  <2> QED
    BY <2>1, <2>2 DEF Goto, Undecided
<1>3. CASE step = "probeSession"
  <2>1. Goto("seedRetry") \/ Fail
    BY <1>3 DEF Identity
  <2> QED
    BY <1>1, <2>1, FailConcludes DEF Goto, Undecided
<1>4. CASE step = "verify"
  <2>1. Goto("version") \/ Finish("COMPLETED_UNVERIFIED") \/ Goto("verify")
    BY <1>4 DEF Identity
  <2>2. Finish("COMPLETED_UNVERIFIED") => Concludes
    BY <1>1, <1>4, StatusTable DEF Concludes
  <2> QED
    BY <2>1, <2>2 DEF Goto, Undecided
<1> QED
  BY <1>2, <1>3, <1>4 DEF Probes

\* So does an answer, and every other step but the start of a run and of a request.
LEMMA StepConcludes ==
    ASSUME RunOK, Next
    PROVE  \/ \E matches \in BOOLEAN : Start(matches)
           \/ Begin \/ Concludes \/ Undecided
<1>1. destructive \in BOOLEAN
  BY DEF RunOK
<1>2. CASE NoticeCancel
  <2>1. phase # "idle" /\ Cancelled
    BY <1>2 DEF NoticeCancel, SeesToken
  <2> QED
    BY <1>1, <2>1, FailConcludes
<1>3. CASE GiveUp
  <2>1. phase # "idle" /\ step = "verify" /\ Finish("COMPLETED_UNVERIFIED")
    BY <1>3 DEF GiveUp, LoopOver
  <2>2. destructive
    BY <2>1 DEF RunOK, AfterErase
  <2> QED
    BY <2>1, <2>2, StatusTable DEF Concludes
<1>4. CASE Receive
  <2>1. phase = "waiting" /\ phase # "idle"
    BY <1>4 DEF Receive
  <2>2. Undecided \/ UdsError(Head(rx)) \/ Accepted(Head(rx))
    BY <1>4 DEF Receive, Undecided, toolVars
  <2>3. CASE step \in Probes
    <3>1. UdsError(Head(rx)) => Identity("AMBIGUOUS")
      BY <2>3 DEF UdsError
    <3>2. Accepted(Head(rx)) => Identity(StatusOf(Head(rx).info))
      BY <2>3 DEF Accepted
    <3> QED
      BY <2>1, <2>2, <2>3, <3>1, <3>2, IdentityConcludes
  <2>4. CASE step \notin Probes
    <3>1. UdsError(Head(rx)) => Fail \/ Goto("session")
      BY <2>4 DEF UdsError
    <3>2. Accepted(Head(rx)) =>
            \/ Fail \/ (step = "version" /\ Finish("COMPLETED"))
            \/ Goto(step) \/ Goto(Following[step])
      BY <2>4 DEF Accepted
    <3>3. step = "version" /\ Finish("COMPLETED") => Concludes
      <4>1. step = "version" => destructive
        BY <2>1 DEF RunOK, AfterErase
      <4> QED
        BY <2>1, <4>1, StatusTable DEF Concludes
    <3>4. \A s : Goto(s) => Undecided
      BY DEF Goto, Undecided
    <3> QED
      BY <1>1, <2>1, <2>2, <3>1, <3>2, <3>3, <3>4, FailConcludes
  <2> QED
    BY <2>3, <2>4
<1>5. CASE TimeOut \/ SendFails
  <2>1. phase \in {"sending", "waiting"}
    BY <1>5 DEF TimeOut, SendFails
  <2>2. \/ step \in Probes /\ (Identity("AMBIGUOUS") \/ Identity("NO_RESPONSE"))
        \/ Fail
    BY <1>5 DEF TimeOut, SendFails
  <2> QED
    BY <1>1, <2>1, <2>2, IdentityConcludes, FailConcludes
<1>6. CASE Transmit
  BY <1>6 DEF Transmit, Undecided
<1>7. CASE Cancel \/ DeadlinePasses \/ EcuServe \/ EcuStillBusy \/ EcuStartsApp
           \/ LoseRequest \/ LoseAnswer \/ EcuRefuses \/ EcuRestarts
  BY <1>7 DEF Cancel, DeadlinePasses, EcuServe, EcuStillBusy, EcuStartsApp,
     LoseRequest, LoseAnswer, EcuRefuses, EcuRestarts, toolVars, Undecided
<1> QED
  BY <1>2, <1>3, <1>4, <1>5, <1>6, <1>7 DEF Next, ToolStep, Environment

\* The flash keeps its content, or a request to an exposed one is carried out
\* that no verdict vouches for.
LEMMA FlashMoves ==
    ASSUME IInv, OwnOK, Next
    PROVE  \/ EcuKept
           \/ Exposed /\ result \notin CommittedStatuses /\ ecu' \in Ecu /\ EcuServe
<1>1. TypeOK /\ RunOK /\ IInv'
  BY StepKeepsIInv DEF IInv
<1>2. CASE bus # <<>> /\ Accepts(ecu, Head(bus)) /\ ecu' = After(ecu, Head(bus)) /\ ~EcuKept
  <2>1. EcuServe
    <3>1. EcuStartsApp \/ EcuRestarts => EcuKept
      BY <1>1 DEF EcuStartsApp, EcuRestarts, EcuKept, Restarted, TypeOK, Ecu
    <3>2. ecu' # ecu
      BY <1>2 DEF EcuKept
    <3> QED
      BY <1>2, <3>1, <3>2 DEF Next, ToolStep, Environment, Start, NoticeCancel, GiveUp,
         Begin, Transmit, Receive, TimeOut, Cancel, DeadlinePasses, EcuStillBusy,
         LoseRequest, LoseAnswer, EcuRefuses, SendFails, ecuVars
  <2>2. ecu'.app # ecu.app
    <3>1. ecu \in Ecu /\ Head(bus) \in Request
      BY <1>1, <1>2, WireFacts, TailFacts
    <3>2. Head(bus).svc # "auth" => After(ecu, Head(bus)).image = ecu.image
      <4>1. Restarted(ecu).image = ecu.image /\ Handover(ecu).image = ecu.image
            /\ TransferDone(ecu).image = ecu.image
        BY <3>1 DEF Restarted, Handover, TransferDone, Ecu
      <4> QED
        BY <3>1, <4>1 DEF After, Ecu
    <3>3. Head(bus).svc = "auth" => ecu.app = "loaded" /\ After(ecu, Head(bus)).app = "valid"
      BY <1>2, <3>1, ServedImage DEF Accepts
    <3> QED
      BY <1>2, <3>2, <3>3 DEF EcuKept
  <2>3. Exposed
    BY <2>2, DamageStep
  <2>4. result \notin CommittedStatuses
    <3>1. runs' = runs /\ ~Transmit
      BY <2>1, <1>2 DEF EcuServe, Transmit, envVars, toolVars, EcuKept
    <3>2. Settled => Settled'
      BY <1>1, <3>1, SettledStays
    <3>3. Settled /\ Settled' => EcuKept
      BY <3>1 DEF Settled, Installed, EcuKept
    <3> QED
      BY <1>2, <3>2, <3>3 DEF OwnOK
  <2> QED
    BY <1>1, <2>1, <2>3, <2>4 DEF IInv, TypeOK
<1> QED
  BY <1>1, <1>2, NewAnswers

\* A step of the system is a step of the promise, or none.
LEMMA PromiseStep ==
    ASSUME IInv, OwnOK, [Next]_vars, OwnOK'
    PROVE  [Promise!Next]_(Promise!promiseVars)
<1> DEFINE inst == runs > 0 /\ ecu.app = "valid" /\ ecu.image = runs
<1>1. TypeOK /\ RunOK /\ runs \in Nat
  BY DEF IInv, TypeOK
<1>2. CASE UNCHANGED vars
  BY <1>2 DEF vars, toolVars, ecuVars, envVars, Promise!promiseVars, Exposed
<1>3. ASSUME NEW matches \in BOOLEAN, Start(matches)
      PROVE  Promise!Begin
  <2>1. /\ phase = "idle" /\ runs' = runs + 1 /\ destructive' = FALSE /\ ecu' = ecu
        /\ \/ result' = "none" /\ claims' = claims
           \/ result' = "PACKAGE_REJECTED" /\ claims' = claims \cup {"PACKAGE_REJECTED"}
    BY <1>3 DEF Start
  <2>2. result' \in {"none"} \cup SafeStatuses
    BY <2>1, StatusTable
  <2>3. claims' \subseteq SafeStatuses <=> claims \subseteq SafeStatuses
    BY <2>1, StatusTable
  <2>4. destructive => ~(claims \subseteq SafeStatuses)
    BY <1>1, <2>1 DEF RunOK
  <2>5. Exposed' = Exposed
    BY <2>1, <2>3, <2>4 DEF Exposed
  <2>6. inst' = FALSE
    <3>1. ecu.image \in Nat /\ ecu.image <= runs
      BY <1>1 DEF OwnOK, TypeOK, Ecu
    <3>2. ecu'.image # runs'
      BY <1>1, <2>1, <3>1
    <3> QED
      BY <3>2
  <2> QED
    BY <2>1, <2>2, <2>5, <2>6 DEF Promise!Begin
<1>4. ASSUME Next, ~(\E matches \in BOOLEAN : Start(matches)), ~EcuKept
      PROVE  Promise!Change
  <2>1. Exposed /\ result \notin CommittedStatuses /\ ecu' \in Ecu /\ EcuServe
    BY <1>4, FlashMoves
  <2>2. UNCHANGED <<result, destructive, claims, runs>>
    BY <2>1 DEF EcuServe, toolVars, envVars
  <2>3. Exposed' = Exposed
    BY <2>2 DEF Exposed
  <2>4. ecu'.app \in {"valid", "blank", "loaded"}
    BY <2>1 DEF Ecu
  <2>5. inst' \in {FALSE, ecu'.app = "valid"}
    OBVIOUS
  <2> QED
    BY <2>1, <2>2, <2>3, <2>4, <2>5 DEF Promise!Change
<1>5. ASSUME Next, ~(\E matches \in BOOLEAN : Start(matches)), EcuKept
      PROVE  Promise!TakeRisk \/ Promise!Conclude \/ UNCHANGED Promise!promiseVars
  <2>1. runs' = runs
    BY <1>1, <1>5, RunMoves DEF Transmit, envVars
  <2>2. inst' = inst /\ ecu'.app = ecu.app
    BY <1>5, <2>1 DEF EcuKept
  <2>3. CASE Undecided
    <3>1. Exposed' = Exposed
      BY <2>3 DEF Undecided, Exposed
    <3> QED
      BY <2>2, <2>3, <3>1 DEF Undecided, Promise!promiseVars
  <2>4. CASE Begin
    <3>1. /\ phase = "ready" /\ UNCHANGED <<result, claims>>
          /\ destructive' = (destructive \/ step = "erase")
      BY <2>4 DEF Begin, Destructive
    <3>2. CASE step = "erase"
      <4>1. destructive' = TRUE /\ Exposed' = TRUE
        BY <3>1, <3>2 DEF Exposed
      <4>2. result = "none"
        BY <3>1 DEF OwnOK
      <4> QED
        BY <2>2, <3>1, <4>1, <4>2 DEF Promise!TakeRisk
    <3>3. CASE step # "erase"
      <4>1. Undecided
        BY <1>1, <3>1, <3>3 DEF Undecided, RunOK
      <4> QED
        BY <2>3, <4>1
    <3> QED
      BY <3>2, <3>3
  <2>5. CASE Concludes
    <3>1. PICK v \in Statuses : Finish(v) /\ (v \in SafeStatuses <=> ~destructive)
      BY <2>5 DEF Concludes
    <3>2. /\ phase # "idle" /\ phase' = "idle" /\ result' = v /\ claims' = claims \cup {v}
          /\ destructive' = destructive /\ result = "none"
      BY <2>5, <3>1 DEF Concludes, Finish, OwnOK
    <3>3. Exposed' = Exposed
      BY <3>1, <3>2 DEF Exposed
    <3>4. v \in CommittedStatuses => inst
      <4>1. v \in CommittedStatuses => Settled'
        BY <3>2 DEF OwnOK
      <4>2. Settled' => ecu.app = "valid" /\ ecu.image = runs
        BY <1>5, <2>1 DEF Settled, Installed, EcuKept
      <4>3. runs > 0
        BY <1>1, <3>2 DEF OwnOK
      <4> QED
        BY <4>1, <4>2, <4>3
    <3> QED
      BY <1>1, <2>2, <3>1, <3>2, <3>3, <3>4, StatusTable DEF Promise!Conclude, RunOK
  <2> QED
    BY <1>1, <1>5, <2>3, <2>4, <2>5, StepConcludes
<1> QED
  BY <1>2, <1>3, <1>4, <1>5 DEF Promise!Next

\* The start of the system is a start of the promise.
LEMMA PromiseInitially == Init => Promise!Init
<1> SUFFICES ASSUME Init
             PROVE  Promise!Init
  OBVIOUS
<1>1. /\ result = "none" /\ destructive = FALSE /\ claims = {} /\ runs = 0
      /\ ecu \in {FactoryEcu, BlankEcu}
  BY DEF Init
<1>2. FactoryEcu.app = "valid" /\ BlankEcu.app = "blank"
  BY DEF FactoryEcu, BlankEcu
<1> QED
  BY <1>1, <1>2 DEF Promise!Init, Exposed

\* The runs keep the promises of OtaPromise: a status that says the flash was
\* left alone is reported only by a run that took no risk, the flash changes only
\* behind a declared risk, and a status that vouches for the App is true and stays
\* true until the next run.
THEOREM PromiseKept ==
    ASSUME MaxBus <= 7
    PROVE  Spec => KeepsPromise
<1>1. IInv /\ OwnOK /\ [Next]_vars /\ (IInv /\ OwnOK)' => [Promise!Next]_(Promise!promiseVars)
  BY PromiseStep
<1> QED
  BY <1>1, OwnAlways, PromiseInitially, PTL DEF Spec, KeepsPromise, Promise!Spec

-------------------------------------------------------------------------------
(***************************************************************************)
(* A run that nothing disturbs completes.  EcuAt says what state the ECU   *)
(* is in when a step's request reaches it; the answer to that request then *)
(* finds it in the state the next step needs.                              *)
(***************************************************************************)
InApp      == ecu.role = "App"
InBoot     == ecu.role = "Boot"
Programmed == InBoot /\ ecu.session = "programming"
Writable   == Programmed /\ ecu.unlocked

EcuAt(s, n) ==
    /\ s \notin Closing => ~ecu.booting
    /\ s \in {"default", "extended"} => InApp
    /\ s \in {"appSeed", "appKey"} => InApp /\ ecu.session = "extended"
    /\ s \in {"precheck", "handover"} => InApp /\ ecu.unlocked
    /\ s \in {"seed", "session"} => InBoot
    /\ s \in {"probeBoot", "probeSession", "key", "seedRetry", "keyRetry"} => Programmed
    /\ s \in {"drvDownload", "drvTransfer", "drvExit", "drvRun", "erase"} \cup Late => Writable
    /\ s \in Downloads => n = 0
    /\ s \in Transfers => ecu.area = AreaOf(s) /\ n = ecu.got + 1 /\ n <= BlocksOf(AreaOf(s))
    /\ s \in {"drvExit", "appExit"} =>
          ecu.area = AreaOf(s) /\ n = ecu.got /\ n = BlocksOf(AreaOf(s))
    /\ s = "drvRun" => ecu.driver = "loaded"
    /\ s \in {"erase", "appDownload"} => ecu.driver = "running"
    /\ s \in {"appDownload", "appTransfer", "appExit"} => ecu.app = "blank"
    /\ s = "auth" => ecu.app = "loaded"
    /\ s \in Closing => ecu.app = "valid"
    /\ s = "version" => InApp

BlockAt(s) == IF s \in Transfers THEN block + 1
              ELSE IF s \in Downloads THEN 0 ELSE block

\* The run can go on to s.
Opens(s) == EcuAt(s, BlockAt(s))

\* The answer to the step's request, and where it leads.
Fits(m) ==
    /\ m.svc = Service[step] /\ m.seq = RequestOf(step).seq
    /\ \/ m.kind = "positive" /\ m.info # "bad"
       \/ step = "seed" /\ m.kind = "negative" /\ m.info = "7F"

Shows(m) ==
    /\ step = "probe" => \/ m.info = "App" /\ Opens("default")
                         \/ m.info = "Boot" /\ Opens("seed")
    /\ step = "probeBoot" => m.info = "Boot" /\ Opens("seed")
    /\ step = "probeSession" => m.info = "Boot" /\ Opens("seedRetry")
    /\ step = "verify" => \/ m.info = "App" /\ Opens("version")
                          \/ m.info = "Boot" /\ Opens("verify")
    /\ step = "seed" /\ m.kind = "negative" => Opens("session")
    /\ step \in Transfers /\ block < BlocksOf(AreaOf(step)) => Opens(step)
    /\ /\ step \notin Probes \cup {"version"} /\ m.kind = "positive"
       /\ ~(step \in Transfers /\ block < BlocksOf(AreaOf(step)))
       => Opens(Following[step])

Answers(m) == Fits(m) /\ Shows(m)

Untroubled ==
    /\ target = "AS5PR" /\ ~cancelled /\ ~expired /\ Alone
    /\ (phase # "waiting" \/ Len(bus) # 0) => EcuAt(step, block)
    /\ \A i \in 1..Len(rx) : /\ Final(rx[i]) => Answers(rx[i])
                             /\ ~Final(rx[i]) => step \in {"erase", "auth"}

CalmOK ==
    ~disturbed => /\ phase # "idle" => Untroubled
                  /\ UndisturbedRunCompletes

\* The ECU accepts the request of every step it is in the state for, except the
\* first seed request outside the programming session.
LEMMA StepIsAccepted ==
    ASSUME TypeOK, EcuAt(step, block)
    PROVE  Accepts(ecu, RequestOf(step)) \/ (step = "seed" /\ ecu.session # "programming")
<1>1. step \in Steps /\ ecu \in Ecu /\ block \in Nat
  BY DEF TypeOK
<1>2. /\ RequestOf(step).svc = Service[step] /\ RequestOf(step).area = AreaOf(step)
      /\ step \in Transfers => RequestOf(step).seq = block % SeqMod
      /\ step \in {"drvExit", "appExit"} => RequestOf(step).seq = block
  BY DEF RequestOf, Transfers
<1> DEFINE q == RequestOf(step)
<1> HIDE DEF q
<1>3. /\ q.svc = Service[step] /\ q.area = AreaOf(step)
      /\ step \in Transfers => q.seq = block % SeqMod
      /\ step \in {"drvExit", "appExit"} => q.seq = block
  BY <1>2 DEF q
<1>4. SUFFICES Accepts(ecu, q) \/ (step = "seed" /\ ecu.session # "programming")
  BY DEF q
<1>a. CASE step \in Probes \cup {"reset"}
  <2>1. q.svc \in {"ident", "reset"}
    BY <1>3, <1>a DEF Probes
  <2> QED
    BY <2>1 DEF Accepts, Writable, Programmed, InBoot
<1>b. CASE step \in {"default", "extended", "version"}
  <2>1. q.svc \in {"default", "extended", "version"} /\ ecu.role = "App"
    BY <1>3, <1>b DEF EcuAt, InApp
  <2> QED
    BY <2>1 DEF Accepts, Writable, Programmed, InBoot
<1>c. CASE step \in {"appSeed", "appKey"}
  <2>1. q.svc \in {"seed1", "key1"} /\ ecu.role = "App" /\ ecu.session = "extended"
    BY <1>3, <1>c DEF EcuAt, InApp
  <2> QED
    BY <2>1 DEF Accepts, Writable, Programmed, InBoot
<1>d. CASE step \in {"precheck", "handover"}
  <2>1. q.svc \in {"precheck", "program"} /\ ecu.role = "App" /\ ecu.unlocked
    BY <1>3, <1>d DEF EcuAt, InApp
  <2> QED
    BY <2>1 DEF Accepts, Writable, Programmed, InBoot
<1>e. CASE step \in {"session"}
  <2>1. q.svc = "program" /\ ecu.role = "Boot"
    BY <1>3, <1>e DEF EcuAt, InBoot
  <2> QED
    BY <2>1 DEF Accepts, Writable, Programmed, InBoot
<1>f. CASE step \in {"seed"}
  <2>1. q.svc = "seedF" /\ ecu.role = "Boot" /\ step = "seed"
    BY <1>3, <1>f DEF EcuAt, InBoot
  <2> QED
    BY <2>1 DEF Accepts, Writable, Programmed, InBoot
<1>g. CASE step \in {"key", "seedRetry", "keyRetry"}
  <2>1. q.svc \in {"seedF", "keyF"} /\ ecu.role = "Boot" /\ ecu.session = "programming"
    BY <1>3, <1>g DEF EcuAt, InBoot, Programmed
  <2> QED
    BY <2>1 DEF Accepts, Writable, Programmed, InBoot
<1>h. CASE step \in {"drvDownload", "appDownload"}
  <2>1. /\ q.svc = "download" /\ Writable
        /\ q.area = "app" => ecu.driver = "running" /\ ecu.app = "blank"
    BY <1>3, <1>h DEF EcuAt, AreaOf, Late
  <2> QED
    BY <2>1 DEF Accepts, Writable, Programmed, InBoot
<1>i. CASE step \in {"drvRun"}
  <2>1. q.svc = "run" /\ Writable /\ ecu.driver = "loaded"
    BY <1>3, <1>i DEF EcuAt, Late
  <2> QED
    BY <2>1 DEF Accepts, Writable, Programmed, InBoot
<1>j. CASE step \in {"erase"}
  <2>1. q.svc = "erase" /\ Writable /\ ecu.driver = "running"
    BY <1>3, <1>j DEF EcuAt, Late
  <2> QED
    BY <2>1 DEF Accepts, Writable, Programmed, InBoot
<1>k. CASE step \in {"auth"}
  <2>1. q.svc = "auth" /\ Writable /\ ecu.app = "loaded"
    BY <1>3, <1>k DEF EcuAt, Late
  <2> QED
    BY <2>1 DEF Accepts, Writable, Programmed, InBoot
<1>9. CASE step \in Transfers
  <2>1. /\ ecu.area = AreaOf(step) /\ block = ecu.got + 1 /\ block <= BlocksOf(ecu.area)
        /\ q.svc = "transfer" /\ q.seq = block % SeqMod
    BY <1>3, <1>9 DEF EcuAt, Transfers
  <2>2. ecu.area # "none"
    BY <1>9, <2>1 DEF AreaOf, Transfers
  <2>3. ecu.got \in Nat
    BY <1>1 DEF Ecu
  <2>4. BlocksOf(ecu.area) \in Nat
    BY ImageAssumption DEF BlocksOf
  <2>5. ecu.got < BlocksOf(ecu.area)
    BY <2>1, <2>3, <2>4
  <2> QED
    BY <2>1, <2>2, <2>5 DEF Accepts
<1>10. CASE step \in {"drvExit", "appExit"}
  <2>1. ecu.area = AreaOf(step) /\ block = ecu.got /\ q.svc = "exit" /\ q.seq = block
    BY <1>3, <1>10 DEF EcuAt
  <2>2. ecu.area # "none"
    BY <1>10, <2>1 DEF AreaOf
  <2> QED
    BY <2>1, <2>2 DEF Accepts
<1> QED
  BY <1>1, <1>a, <1>b, <1>c, <1>d, <1>e, <1>f, <1>g, <1>h, <1>i, <1>j, <1>k, <1>9, <1>10 DEF Probes, Transfers

\* An accepted request leaves the ECU in the state for the next one.
LEMMA StepOpensNext ==
    ASSUME TypeOK, EcuAt(step, block), Accepts(ecu, RequestOf(step)),
           ecu' = After(ecu, RequestOf(step)), block' = block, step' = step,
           step \notin Probes \cup {"version"}
    PROVE  /\ step \in Transfers /\ block < BlocksOf(AreaOf(step)) => Opens(step)'
           /\ ~(step \in Transfers /\ block < BlocksOf(AreaOf(step))) =>
                 Opens(Following[step])'
<1>1. step \in Steps /\ ecu \in Ecu /\ block \in Nat
  BY DEF TypeOK
<1> DEFINE q == RequestOf(step)
<1>2. q.svc = Service[step] /\ q.area = AreaOf(step)
  BY DEF RequestOf
<1> HIDE DEF q
<1>3. EcuAt(step, block) /\ Accepts(ecu, q) /\ ecu' = After(ecu, q)
  BY DEF q

<1>5. CASE step = "default"
  <2>1. q.svc = "default" /\ Following[step] = "extended" /\ step \notin Transfers
    BY <1>2, <1>5 DEF Following, Transfers
  <2>2. ecu' = [ecu EXCEPT !.session = "default", !.unlocked = FALSE] /\ InApp /\ ~ecu.booting
    BY <1>1, <1>3, <1>5, <2>1 DEF After, EcuAt, InApp, Closing
  <2>3. InApp' /\ ~ecu'.booting
    BY <1>1, <2>2 DEF InApp, Ecu
  <2>4. EcuAt("extended", BlockAt("extended"))'
    BY <2>3 DEF EcuAt, Transfers, Late, Closing, Downloads, BlockAt
  <2> QED
    BY <2>1, <2>4 DEF Opens
<1>6. CASE step = "extended"
  <2>1. q.svc = "extended" /\ Following[step] = "appSeed" /\ step \notin Transfers
    BY <1>2, <1>6 DEF Following, Transfers
  <2>2. ecu' = [ecu EXCEPT !.session = "extended", !.unlocked = FALSE] /\ InApp /\ ~ecu.booting
    BY <1>1, <1>3, <1>6, <2>1 DEF After, EcuAt, InApp, Closing
  <2>3. InApp' /\ ~ecu'.booting /\ ecu'.session = "extended"
    BY <1>1, <2>2 DEF InApp, Ecu
  <2>4. EcuAt("appSeed", BlockAt("appSeed"))'
    BY <2>3 DEF EcuAt, Transfers, Late, Closing, Downloads, BlockAt
  <2> QED
    BY <2>1, <2>4 DEF Opens
<1>7. CASE step = "appSeed"
  <2>1. q.svc = "seed1" /\ Following[step] = "appKey" /\ step \notin Transfers
    BY <1>2, <1>7 DEF Following, Transfers
  <2>2. ecu' = ecu /\ InApp /\ ~ecu.booting /\ ecu.session = "extended"
    BY <1>1, <1>3, <1>7, <2>1 DEF After, EcuAt, InApp, Closing
  <2>3. InApp' /\ ~ecu'.booting /\ ecu'.session = "extended"
    BY <1>1, <2>2 DEF InApp, Ecu
  <2>4. EcuAt("appKey", BlockAt("appKey"))'
    BY <2>3 DEF EcuAt, Transfers, Late, Closing, Downloads, BlockAt
  <2> QED
    BY <2>1, <2>4 DEF Opens
<1>8. CASE step = "appKey"
  <2>1. q.svc = "key1" /\ Following[step] = "precheck" /\ step \notin Transfers
    BY <1>2, <1>8 DEF Following, Transfers
  <2>2. ecu' = [ecu EXCEPT !.unlocked = TRUE] /\ InApp /\ ~ecu.booting
    BY <1>1, <1>3, <1>8, <2>1 DEF After, EcuAt, InApp, Closing
  <2>3. InApp' /\ ~ecu'.booting /\ ecu'.unlocked
    BY <1>1, <2>2 DEF InApp, Ecu
  <2>4. EcuAt("precheck", BlockAt("precheck"))'
    BY <2>3 DEF EcuAt, Transfers, Late, Closing, Downloads, BlockAt
  <2> QED
    BY <2>1, <2>4 DEF Opens
<1>9. CASE step = "precheck"
  <2>1. q.svc = "precheck" /\ Following[step] = "handover" /\ step \notin Transfers
    BY <1>2, <1>9 DEF Following, Transfers
  <2>2. ecu' = ecu /\ InApp /\ ~ecu.booting /\ ecu.unlocked
    BY <1>1, <1>3, <1>9, <2>1 DEF After, EcuAt, InApp, Closing
  <2>3. InApp' /\ ~ecu'.booting /\ ecu'.unlocked
    BY <1>1, <2>2 DEF InApp, Ecu
  <2>4. EcuAt("handover", BlockAt("handover"))'
    BY <2>3 DEF EcuAt, Transfers, Late, Closing, Downloads, BlockAt
  <2> QED
    BY <2>1, <2>4 DEF Opens
<1>10. CASE step = "handover"
  <2>1. q.svc = "program" /\ Following[step] = "probeBoot" /\ step \notin Transfers
    BY <1>2, <1>10 DEF Following, Transfers
  <2>2. ecu' = Handover(ecu)
    BY <1>1, <1>3, <1>10, <2>1 DEF After, EcuAt
  <2>3. Programmed' /\ ~ecu'.booting
    BY <1>1, <2>2 DEF Programmed, InBoot, Ecu, Handover
  <2>4. EcuAt("probeBoot", BlockAt("probeBoot"))'
    BY <2>3 DEF EcuAt, Transfers, Late, Closing, Downloads, BlockAt
  <2> QED
    BY <2>1, <2>4 DEF Opens
<1>11. CASE step = "seed"
  <2>1. q.svc = "seedF" /\ Following[step] = "key" /\ step \notin Transfers
    BY <1>2, <1>11 DEF Following, Transfers
  <2>2. ecu' = ecu /\ Programmed /\ ~ecu.booting
    BY <1>1, <1>3, <1>11, <2>1 DEF After, EcuAt, InBoot, Programmed, Accepts, Closing
  <2>3. Programmed' /\ ~ecu'.booting
    BY <1>1, <2>2 DEF Programmed, InBoot, Ecu
  <2>4. EcuAt("key", BlockAt("key"))'
    BY <2>3 DEF EcuAt, Transfers, Late, Closing, Downloads, BlockAt
  <2> QED
    BY <2>1, <2>4 DEF Opens
<1>12. CASE step = "key"
  <2>1. q.svc = "keyF" /\ Following[step] = "drvDownload" /\ step \notin Transfers
    BY <1>2, <1>12 DEF Following, Transfers
  <2>2. ecu' = [ecu EXCEPT !.unlocked = TRUE] /\ Programmed /\ ~ecu.booting
    BY <1>1, <1>3, <1>12, <2>1 DEF After, EcuAt, Closing
  <2>3. Writable' /\ ~ecu'.booting
    BY <1>1, <2>2 DEF Writable, Programmed, InBoot, Ecu
  <2>4. EcuAt("drvDownload", BlockAt("drvDownload"))'
    BY <2>3 DEF EcuAt, Transfers, Late, Closing, Downloads, BlockAt
  <2> QED
    BY <2>1, <2>4 DEF Opens
<1>13. CASE step = "session"
  <2>1. q.svc = "program" /\ Following[step] = "probeSession" /\ step \notin Transfers
    BY <1>2, <1>13 DEF Following, Transfers
  <2>2. ecu' = Handover(ecu)
    BY <1>1, <1>3, <1>13, <2>1 DEF After, EcuAt
  <2>3. Programmed' /\ ~ecu'.booting
    BY <1>1, <2>2 DEF Programmed, InBoot, Ecu, Handover
  <2>4. EcuAt("probeSession", BlockAt("probeSession"))'
    BY <2>3 DEF EcuAt, Transfers, Late, Closing, Downloads, BlockAt
  <2> QED
    BY <2>1, <2>4 DEF Opens
<1>14. CASE step = "seedRetry"
  <2>1. q.svc = "seedF" /\ Following[step] = "keyRetry" /\ step \notin Transfers
    BY <1>2, <1>14 DEF Following, Transfers
  <2>2. ecu' = ecu /\ Programmed /\ ~ecu.booting
    BY <1>1, <1>3, <1>14, <2>1 DEF After, EcuAt, Closing
  <2>3. Programmed' /\ ~ecu'.booting
    BY <1>1, <2>2 DEF Programmed, InBoot, Ecu
  <2>4. EcuAt("keyRetry", BlockAt("keyRetry"))'
    BY <2>3 DEF EcuAt, Transfers, Late, Closing, Downloads, BlockAt
  <2> QED
    BY <2>1, <2>4 DEF Opens
<1>15. CASE step = "keyRetry"
  <2>1. q.svc = "keyF" /\ Following[step] = "drvDownload" /\ step \notin Transfers
    BY <1>2, <1>15 DEF Following, Transfers
  <2>2. ecu' = [ecu EXCEPT !.unlocked = TRUE] /\ Programmed /\ ~ecu.booting
    BY <1>1, <1>3, <1>15, <2>1 DEF After, EcuAt, Closing
  <2>3. Writable' /\ ~ecu'.booting
    BY <1>1, <2>2 DEF Writable, Programmed, InBoot, Ecu
  <2>4. EcuAt("drvDownload", BlockAt("drvDownload"))'
    BY <2>3 DEF EcuAt, Transfers, Late, Closing, Downloads, BlockAt
  <2> QED
    BY <2>1, <2>4 DEF Opens
<1>16. CASE step = "drvRun"
  <2>1. q.svc = "run" /\ Following[step] = "erase" /\ step \notin Transfers
    BY <1>2, <1>16 DEF Following, Transfers
  <2>2. ecu' = [ecu EXCEPT !.driver = "running"] /\ Writable /\ ~ecu.booting
    BY <1>1, <1>3, <1>16, <2>1 DEF After, EcuAt, Closing
  <2>3. Writable' /\ ~ecu'.booting /\ ecu'.driver = "running"
    BY <1>1, <2>2 DEF Writable, Programmed, InBoot, Ecu
  <2>4. EcuAt("erase", BlockAt("erase"))'
    BY <2>3 DEF EcuAt, Transfers, Late, Closing, Downloads, BlockAt
  <2> QED
    BY <2>1, <2>4 DEF Opens
<1>17. CASE step = "erase"
  <2>1. q.svc = "erase" /\ Following[step] = "appDownload" /\ step \notin Transfers
    BY <1>2, <1>17 DEF Following, Transfers
  <2>2. ecu' = [ecu EXCEPT !.app = "blank", !.area = "none", !.got = 0] /\ Writable /\ ~ecu.booting /\ ecu.driver = "running"
    BY <1>1, <1>3, <1>17, <2>1 DEF After, EcuAt, Closing
  <2>3. Writable' /\ ~ecu'.booting /\ ecu'.app = "blank" /\ ecu'.driver = "running"
    BY <1>1, <2>2 DEF Writable, Programmed, InBoot, Ecu
  <2>4. EcuAt("appDownload", BlockAt("appDownload"))'
    BY <2>3 DEF EcuAt, Transfers, Late, Closing, Downloads, BlockAt
  <2> QED
    BY <2>1, <2>4 DEF Opens
<1>18. CASE step = "auth"
  <2>1. q.svc = "auth" /\ Following[step] = "reset" /\ step \notin Transfers
    BY <1>2, <1>18 DEF Following, Transfers
  <2>2. ecu' = [ecu EXCEPT !.app = "valid", !.image = q.run]
    BY <1>1, <1>3, <1>18, <2>1 DEF After, EcuAt
  <2>3. ecu'.app = "valid"
    BY <1>1, <2>2 DEF Ecu
  <2>4. EcuAt("reset", BlockAt("reset"))'
    BY <2>3 DEF EcuAt, Transfers, Late, Closing, Downloads, BlockAt
  <2> QED
    BY <2>1, <2>4 DEF Opens
<1>19. CASE step = "reset"
  <2>1. q.svc = "reset" /\ Following[step] = "verify" /\ step \notin Transfers
    BY <1>2, <1>19 DEF Following, Transfers
  <2>2. ecu' = Restarted(ecu) /\ ecu.app = "valid"
    BY <1>1, <1>3, <1>19, <2>1 DEF After, EcuAt, Closing
  <2>3. ecu'.app = "valid"
    BY <1>1, <2>2 DEF Restarted, Ecu
  <2>4. EcuAt("verify", BlockAt("verify"))'
    BY <2>3 DEF EcuAt, Transfers, Late, Closing, Downloads, BlockAt
  <2> QED
    BY <2>1, <2>4 DEF Opens
<1>a. CASE step \in Downloads
  <2> DEFINE s == IF step = "drvDownload" THEN "drvTransfer" ELSE "appTransfer"
  <2>1. q.svc = "download" /\ Following[step] = s /\ step \notin Transfers
        /\ s \in {"drvTransfer", "appTransfer"} /\ q.area = AreaOf(s) /\ block' = block
    BY <1>2, <1>a DEF Following, Transfers, Downloads, AreaOf
  <2>2. /\ ecu' = [ecu EXCEPT !.area = q.area, !.got = 0] /\ Writable /\ ~ecu.booting
        /\ s = "appTransfer" => ecu.app = "blank"
    BY <1>3, <1>a, <2>1 DEF After, EcuAt, Closing, Late, Downloads
  <2>3. /\ Writable' /\ ~ecu'.booting /\ ecu'.area = AreaOf(s) /\ ecu'.got = 0
        /\ s = "appTransfer" => ecu'.app = "blank"
    BY <1>1, <2>1, <2>2 DEF Writable, Programmed, InBoot, Ecu
  <2>4. 1 <= BlocksOf(AreaOf(s)) /\ s' = s
    BY ImageAssumption DEF BlocksOf
  <2> HIDE DEF s
  <2>5. EcuAt(s, 1)'
    BY <2>1, <2>3, <2>4 DEF EcuAt, Transfers, Late, Closing, Downloads
  <2>6. BlockAt(s)' = 1
    <3>1. block = 0
      BY <1>3, <1>a DEF EcuAt
    <3> QED
      BY <2>1, <2>4, <3>1 DEF BlockAt, Transfers
  <2> QED
    BY <2>1, <2>4, <2>5, <2>6 DEF Opens
<1>b. CASE step \in Transfers
  <2> DEFINE s == IF step = "drvTransfer" THEN "drvExit" ELSE "appExit"
             last == BlocksOf(AreaOf(step))
  <2>1. /\ q.svc = "transfer" /\ Following[step] = s /\ s \notin Transfers \cup Downloads
        /\ s \in {"drvExit", "appExit"} /\ AreaOf(s) = AreaOf(step)
        /\ (s = "appExit" <=> step = "appTransfer") /\ step \notin Downloads
    BY <1>2, <1>b DEF Following, Transfers, Downloads, AreaOf
  <2>2. /\ ecu' = [ecu EXCEPT !.got = @ + 1] /\ Writable /\ ~ecu.booting
        /\ s = "appExit" => ecu.app = "blank"
        /\ ecu.area = AreaOf(step) /\ block = ecu.got + 1 /\ block <= last
    BY <1>3, <1>b, <2>1 DEF After, EcuAt, Closing, Late, Transfers
  <2>3. /\ Writable' /\ ~ecu'.booting /\ ecu'.area = AreaOf(step) /\ block = ecu'.got
        /\ s = "appExit" => ecu'.app = "blank"
    BY <1>1, <2>1, <2>2 DEF Writable, Programmed, InBoot, Ecu
  <2>4. last \in Nat /\ last' = last /\ s' = s /\ AreaOf(step)' = AreaOf(step)
    BY ImageAssumption DEF BlocksOf
  <2>5. BlockAt(step)' = block + 1 /\ BlockAt(s)' = block
    BY <1>b, <2>1, <2>4 DEF BlockAt
  <2> HIDE DEF s, last
  <2>6. ASSUME block < last
        PROVE  Opens(step)'
    <3>1. block + 1 <= last
      BY <1>1, <2>4, <2>6
    <3>2. EcuAt(step, block + 1)'
      BY <1>b, <2>1, <2>3, <2>4, <3>1 DEF EcuAt, Transfers, Late, Closing, Downloads, last
    <3> QED
      BY <2>5, <3>2 DEF Opens
  <2>7. ASSUME ~(block < last)
        PROVE  Opens(s)'
    <3>1. block = last
      BY <1>1, <2>2, <2>4, <2>7
    <3>2. EcuAt(s, block)'
      BY <2>1, <2>3, <2>4, <3>1 DEF EcuAt, Transfers, Late, Closing, Downloads, last
    <3> QED
      BY <2>5, <3>2 DEF Opens
  <2>8. Following[step'] = s'
    BY <2>1, <2>4
  <2>9. ~(block < last) => Opens(Following[step])'
    BY <2>7, <2>8 DEF Opens
  <2>10. block < last => Opens(step)'
    BY <2>6
  <2> QED
    BY <1>b, <2>4, <2>9, <2>10 DEF last
<1>c. CASE step = "drvExit"
  <2>1. q.svc = "exit" /\ Following[step] = "drvRun" /\ step \notin Transfers
    BY <1>2, <1>c DEF Following, Transfers
  <2>2. ecu' = TransferDone(ecu) /\ Writable /\ ~ecu.booting /\ ecu.area = "driver"
    BY <1>3, <1>c, <2>1 DEF After, EcuAt, Closing, Late, AreaOf
  <2>3. Writable' /\ ~ecu'.booting /\ ecu'.driver = "loaded"
    BY <1>1, <2>2 DEF Writable, Programmed, InBoot, Ecu, TransferDone
  <2>4. EcuAt("drvRun", BlockAt("drvRun"))'
    BY <2>3 DEF EcuAt, Transfers, Late, Closing, Downloads
  <2> QED
    BY <2>1, <2>4 DEF Opens
<1>d. CASE step = "appExit"
  <2>1. q.svc = "exit" /\ Following[step] = "auth" /\ step \notin Transfers
    BY <1>2, <1>d DEF Following, Transfers
  <2>2. /\ ecu' = TransferDone(ecu) /\ Writable /\ ~ecu.booting /\ ecu.area = "app"
        /\ ecu.got = AppBlocks
    BY <1>3, <1>d, <2>1 DEF After, EcuAt, Closing, Late, AreaOf, BlocksOf
  <2>3. Writable' /\ ~ecu'.booting /\ ecu'.app = "loaded"
    BY <1>1, <2>2 DEF Writable, Programmed, InBoot, Ecu, TransferDone
  <2>4. EcuAt("auth", BlockAt("auth"))'
    BY <2>3 DEF EcuAt, Transfers, Late, Closing, Downloads
  <2> QED
    BY <2>1, <2>4 DEF Opens
<1> QED
  BY <1>1, <1>a, <1>b, <1>c, <1>d, <1>5, <1>6, <1>7, <1>8, <1>9, <1>10, <1>11, <1>12, <1>13, <1>14, <1>15, <1>16, <1>17, <1>18, <1>19 DEF Probes, Transfers, Downloads

\* What the ECU's state is good for does not change with the tool's other steps,
\* nor when a reset Boot starts the App.
LEMMA OpensStays ==
    ASSUME ecu \in Ecu, ecu' = ecu \/ EcuStartsApp, block' = block, step' = step
    PROVE  /\ \A s : Opens(s) => Opens(s)'
           /\ Opens(step) => Opens(step)'
           /\ Opens(Following[step]) => Opens(Following[step])'
           /\ EcuAt(step, block) => EcuAt(step, block)'
<1> DEFINE Better == ecu.booting /\ ecu' = [ecu EXCEPT !.role = "App", !.booting = FALSE]
<1>1. ecu' = ecu \/ Better
  BY DEF EcuStartsApp
<1>2. CASE ecu' = ecu
  BY <1>2 DEF Opens, BlockAt, EcuAt, InApp, InBoot, Programmed, Writable
<1>3. CASE Better
  <2>1. /\ ecu.booting /\ ~ecu'.booting /\ ecu'.role = "App" /\ ecu'.app = ecu.app
    BY <1>3 DEF Ecu
  <2>2. ASSUME NEW s, NEW n, EcuAt(s, n)
        PROVE  s \in Closing /\ ecu.app = "valid"
    BY <2>1, <2>2 DEF EcuAt
  <2>3. ASSUME NEW s, s \in Closing
        PROVE  s \notin {"drvDownload", "drvTransfer", "drvExit", "drvRun", "erase",
                         "default", "extended", "appSeed", "appKey", "precheck", "handover",
                         "seed", "session", "probeBoot", "probeSession", "key", "seedRetry",
                         "keyRetry", "appExit"} \cup Late \cup Transfers \cup Downloads
    BY <2>3 DEF Closing, Late, Transfers, Downloads
  <2>4. ASSUME NEW s, Opens(s)
        PROVE  Opens(s)'
    <3>1. s \in Closing /\ ecu'.app = "valid" /\ ecu'.role = "App"
      BY <2>1, <2>2, <2>4 DEF Opens
    <3> QED
      BY <2>3, <3>1 DEF Opens, EcuAt, InApp, Late
  <2>5. Opens(step) => Opens(step)'
    <3> SUFFICES ASSUME Opens(step)
                 PROVE  Opens(step)'
      OBVIOUS
    <3>1. step' = step /\ step \in Closing /\ ecu'.app = "valid" /\ ecu'.role = "App"
      BY <2>1, <2>2 DEF Opens
    <3> QED
      BY <2>3, <3>1 DEF Opens, EcuAt, InApp, Late
  <2>6. Opens(Following[step]) => Opens(Following[step])'
    <3> SUFFICES ASSUME Opens(Following[step])
                 PROVE  Opens(Following[step])'
      OBVIOUS
    <3>1. /\ step' = step /\ Following[step] \in Closing /\ ecu'.app = "valid"
          /\ ecu'.role = "App"
      BY <2>1, <2>2 DEF Opens
    <3> QED
      BY <2>3, <3>1 DEF Opens, EcuAt, InApp, Late
  <2>7. EcuAt(step, block) => EcuAt(step, block)'
    <3> SUFFICES ASSUME EcuAt(step, block)
                 PROVE  EcuAt(step, block)'
      OBVIOUS
    <3>1. step' = step /\ step \in Closing /\ ecu'.app = "valid" /\ ecu'.role = "App"
      BY <2>1, <2>2
    <3> QED
      BY <2>3, <3>1 DEF EcuAt, InApp, Late
  <2> QED
    BY <2>4, <2>5, <2>6, <2>7
<1> QED
  BY <1>1, <1>2, <1>3

\* Nor do the answers that were given.
LEMMA AnswersStand ==
    ASSUME ecu \in Ecu, ecu' = ecu \/ EcuStartsApp, block' = block, step' = step,
           runs' = runs, NEW m, Answers(m)
    PROVE  Answers(m)'
<1>1. RequestOf(step)' = RequestOf(step)
  BY DEF RequestOf
<1>2. /\ Opens("default") => Opens("default")'
      /\ Opens("seed") => Opens("seed")'
      /\ Opens("seedRetry") => Opens("seedRetry")'
      /\ Opens("version") => Opens("version")'
      /\ Opens("verify") => Opens("verify")'
      /\ Opens("session") => Opens("session")'
      /\ Opens(step) => Opens(step)'
      /\ Opens(Following[step]) => Opens(Following[step])'
  BY OpensStays
<1>3. BlocksOf(AreaOf(step))' = BlocksOf(AreaOf(step))
  BY DEF BlocksOf, AreaOf
<1>4. Fits(m) => Fits(m)'
  BY <1>1 DEF Fits
<1>5. Shows(m) => Shows(m)'
  BY <1>2, <1>3 DEF Shows
<1> QED
  BY <1>4, <1>5 DEF Answers

\* The answer the ECU gives to the request of the step leads on.
LEMMA ServedAnswers ==
    ASSUME TypeOK, target = "AS5PR", EcuAt(step, block), bus # <<>>,
           Head(bus) = RequestOf(step), EcuServe
    PROVE  \E m \in Response : Final(m) /\ Answers(m)' /\ (rx' = rx \/ rx' = Append(rx, m))
<1>1. UNCHANGED <<step, block, runs>> /\ ecu \in Ecu /\ step \in Steps
  BY DEF EcuServe, toolVars, envVars, TypeOK
<1> DEFINE q == RequestOf(step)
           info == IF q.svc # "ident" THEN "ok" ELSE ecu.role
<1>2. q \in Request /\ q.svc = Service[step] /\ q' = q
  BY <1>1, RequestType DEF RequestOf, TypeOK
<1>3. info \in Infos /\ info # "bad" /\ (q.svc = "ident" => info = ecu.role)
  BY <1>1 DEF Infos, Ecu
<1> DEFINE known == target = "AS5PR"
<1>4. \/ Accepts(ecu, q) /\ ecu' = After(ecu, q) /\ Deliver(Positive(q, info))
      \/ ~Accepts(ecu, q) /\ ecu' = ecu /\ Deliver(Refusal(ecu, q))
  BY DEF EcuServe
<1> HIDE DEF info
<1>5. CASE Accepts(ecu, q) /\ ecu' = After(ecu, q) /\ Deliver(Positive(q, info))
  <2>0. PICK m \in Response : m = Positive(q, info)
    BY <1>1, <1>2, <1>3, AnswerTypes
  <2>1. /\ m.kind = "positive" /\ m.svc = q.svc /\ m.seq = q.seq
        /\ m.info = info
    BY <2>0 DEF Positive
  <2>a. Deliver(m)
    BY <1>5, <2>0
  <2>b. m.svc = Service[step'] /\ m.seq = q'.seq /\ m.kind = "positive" /\ m.info # "bad"
    BY <1>1, <1>2, <1>3, <2>1
  <2>2. Fits(m)' /\ m.kind = "positive"
    BY <2>b DEF Fits
  <2>c. Final(m) /\ (rx' = rx \/ rx' = Append(rx, m))
    BY <2>1, <2>a DEF Deliver, Final
  <2>3. CASE step \in Probes
    <3>1. q.svc = "ident" /\ m.info = ecu.role
      BY <1>2, <1>3, <2>1, <2>3 DEF Probes
    <3>2. ecu' = ecu
      BY <1>5, <3>1 DEF After
    <3>3. step = "probe" => \/ m.info = "App" /\ Opens("default")'
                            \/ m.info = "Boot" /\ Opens("seed")'
      <4>1. step = "probe" => ~ecu.booting
        BY DEF EcuAt, Closing
      <4>2. ecu.role \in {"App", "Boot"}
        BY <1>1 DEF Ecu
      <4> QED
        BY <3>1, <3>2, <4>1, <4>2
           DEF Opens, EcuAt, InApp, InBoot, Closing, Late, Transfers, Downloads
    <3>4. step = "probeBoot" => m.info = "Boot" /\ Opens("seed")'
      <4>1. step = "probeBoot" => ~ecu.booting /\ ecu.role = "Boot"
        BY DEF EcuAt, Closing, Programmed, InBoot
      <4> QED
        BY <3>1, <3>2, <4>1
           DEF Opens, EcuAt, InBoot, Closing, Late, Transfers, Downloads
    <3>5. step = "probeSession" => m.info = "Boot" /\ Opens("seedRetry")'
      <4>1. step = "probeSession" => ~ecu.booting /\ Programmed
        BY DEF EcuAt, Closing
      <4> QED
        BY <3>1, <3>2, <4>1
           DEF Opens, EcuAt, InBoot, Programmed, Closing, Late, Transfers, Downloads
    <3>6. step = "verify" => \/ m.info = "App" /\ Opens("version")'
                             \/ m.info = "Boot" /\ Opens("verify")'
      <4>1. step = "verify" => ecu.app = "valid"
        BY DEF EcuAt, Closing
      <4>2. ecu.role \in {"App", "Boot"}
        BY <1>1 DEF Ecu
      <4> QED
        BY <3>1, <3>2, <4>1, <4>2
           DEF Opens, EcuAt, InApp, Closing, Late, Transfers, Downloads
    <3>7. step' \in Probes /\ step' # "seed" /\ step' \notin Transfers
      BY <1>1, <2>3 DEF Probes, Transfers
    <3>8. Shows(m)'
      BY <1>1, <2>2, <3>3, <3>4, <3>5, <3>6, <3>7 DEF Shows
    <3> QED
      BY <2>1, <2>2, <2>c, <3>8 DEF Answers
  <2>4. CASE step \notin Probes
    <3>1. step \notin Probes \cup {"version"} =>
            /\ step \in Transfers /\ block < BlocksOf(AreaOf(step)) => Opens(step)'
            /\ ~(step \in Transfers /\ block < BlocksOf(AreaOf(step))) =>
                  Opens(Following[step])'
      BY <1>1, <1>5, <2>4, StepOpensNext
    <3>2. /\ BlocksOf(AreaOf(step))' = BlocksOf(AreaOf(step)) /\ step' = step
          /\ block' = block /\ "version" \notin Transfers
      BY <1>1 DEF BlocksOf, AreaOf, Transfers
    <3>3. step \notin {"probe", "probeBoot", "probeSession", "verify"}
      BY <2>4 DEF Probes
    <3>4. Shows(m)'
      BY <2>2, <2>4, <3>1, <3>2, <3>3 DEF Shows
    <3> QED
      BY <2>1, <2>2, <2>c, <3>4 DEF Answers
  <2> QED
    BY <2>3, <2>4
<1>6. CASE ~Accepts(ecu, q) /\ ecu' = ecu /\ Deliver(Refusal(ecu, q))
  <2>1. step = "seed" /\ ecu.session # "programming"
    BY <1>6, StepIsAccepted
  <2>2. q.svc = "seedF"
    BY <1>2, <2>1
  <2>3. "ok" \in Infos
    BY DEF Infos
  <2>0. PICK m \in Response : m = Refusal(ecu, q)
    BY <1>1, <1>2, <2>3, AnswerTypes
  <2>4. /\ m.kind = "negative" /\ m.svc = q.svc /\ m.seq = q.seq
        /\ m.info = "7F"
    BY <2>0, <2>1, <2>2 DEF Refusal, Negative
  <2>a. Deliver(m)
    BY <1>6, <2>0
  <2>5. ~ecu.booting /\ ecu.role = "Boot"
    BY <2>1 DEF EcuAt, Closing, InBoot
  <2>6. Opens("session")'
    BY <1>6, <2>5 DEF Opens, EcuAt, InBoot, Closing, Late, Transfers, Downloads
  <2>7. step' = "seed" /\ m.svc = Service[step'] /\ m.seq = q'.seq
    BY <1>1, <1>2, <2>1, <2>4
  <2>8. Fits(m)'
    BY <2>4, <2>7 DEF Fits
  <2>9. Shows(m)'
    BY <2>4, <2>6, <2>7 DEF Shows, Transfers
  <2> QED
    BY <2>4, <2>8, <2>9, <2>a DEF Deliver, Final, Answers
<1> QED
  BY <1>4, <1>5, <1>6

\* Serving the request of an undisturbed run keeps the run untroubled.
LEMMA ServeCalm ==
    ASSUME TypeOK, phase # "idle", Untroubled, EcuServe
    PROVE  Untroubled'
<1>1. /\ target = "AS5PR" /\ ~cancelled /\ ~expired /\ Alone
      /\ UNCHANGED <<toolVars, target, envVars>> /\ bus # <<>> /\ bus' = Tail(bus)
  BY DEF Untroubled, EcuServe
<1>2. /\ Len(bus) # 0 /\ Len(bus) = 1 /\ bus[1] = RequestOf(step) /\ Head(bus) = bus[1]
      /\ phase = "waiting" /\ Len(rx) \in Nat /\ rx \in Seq(Response) /\ bus \in Seq(Request)
  BY <1>1, WireFacts DEF Alone
<1>3. EcuAt(step, block)
  BY <1>2 DEF Untroubled
<1>4. PICK m \in Response : Final(m) /\ Answers(m)' /\ (rx' = rx \/ rx' = Append(rx, m))
  BY <1>1, <1>2, <1>3, ServedAnswers
<1>5. Alone'
  <2>1. Next
    BY DEF Next, Environment
  <2>2. ~Transmit /\ ~\E matches \in BOOLEAN : Start(matches)
    BY <1>2 DEF Transmit, Start
  <2>3. Stays /\ runs' = runs
    BY <1>1 DEF Stays, toolVars, envVars
  <2> QED
    BY <1>1, <2>1, <2>2, <2>3, TrafficSteps, TrafficKeepsAlone
<1>6. Len(bus') = 0
  BY <1>1, <1>2, TailFacts
<1>7. \A i \in 1..Len(rx) : ~Final(rx[i]) /\ step \in {"erase", "auth"}
  BY <1>1, <1>2 DEF Untroubled, Alone
<1>8. ASSUME NEW i \in 1..Len(rx')
      PROVE  /\ Final(rx[i])' => Answers(rx[i])'
             /\ ~Final(rx[i])' => step \in {"erase", "auth"}
  <2>1. CASE rx' = rx
    BY <1>7, <1>8, <2>1 DEF Final
  <2>2. CASE rx' = Append(rx, m)
    <3>1. /\ Len(rx') = Len(rx) + 1 /\ rx'[Len(rx) + 1] = m
          /\ \A j \in 1..Len(rx) : rx'[j] = rx[j]
      BY <1>2, <2>2, AppendFacts
    <3>2. i \in 1..Len(rx) \/ i = Len(rx) + 1
      BY <1>2, <3>1
    <3>3. CASE i = Len(rx) + 1
      <4>1. rx'[i] = m
        BY <3>1, <3>3
      <4> QED
        BY <1>4, <4>1 DEF Answers, Fits, Shows, Final
    <3> QED
      BY <1>7, <3>1, <3>2, <3>3 DEF Final
  <2> QED
    BY <1>4, <2>1, <2>2
<1>9. target' = "AS5PR" /\ ~cancelled' /\ ~expired' /\ phase' = "waiting" /\ step' = step
  BY <1>1, <1>2 DEF toolVars, envVars
<1> QED
  BY <1>5, <1>6, <1>8, <1>9 DEF Untroubled

\* A run that goes on to a step its ECU is in the state for stays untroubled.
LEMMA GotoCalm ==
    ASSUME target = "AS5PR", ~cancelled, ~expired, Len(bus) = 0, Len(rx') = 0,
           UNCHANGED <<bus, ecu, target, envVars>>,
           NEW s \in Steps, Opens(s), Goto(s)
    PROVE  phase' # "idle" /\ Untroubled'
<1>1. /\ step' = s /\ phase' = "ready" /\ block' = BlockAt(s) /\ ecu' = ecu /\ Len(bus') = 0
      /\ target' = "AS5PR" /\ ~cancelled' /\ ~expired'
  BY DEF Goto, BlockAt, envVars
<1>2. EcuAt(step, block)'
  BY <1>1 DEF Opens, EcuAt, InApp, InBoot, Programmed, Writable
<1>3. \A i : i \notin 1..Len(rx')
  OBVIOUS
<1>4. Alone'
  BY <1>1, <1>3 DEF Alone
<1> QED
  BY <1>1, <1>2, <1>3, <1>4 DEF Untroubled

\* So does one that reads the answer it waits for, unless it has completed.
LEMMA ReceiveCalm ==
    ASSUME TypeOK, phase # "idle", Untroubled, Receive
    PROVE  /\ phase' # "idle" => Untroubled'
           /\ phase' = "idle" => result' = "COMPLETED"
<1> DEFINE m == Head(rx)
<1>1. /\ target = "AS5PR" /\ ~cancelled /\ ~expired /\ Alone
      /\ phase = "waiting" /\ rx # <<>> /\ rx' = Tail(rx)
      /\ UNCHANGED <<bus, ecu, target, envVars>>
  BY DEF Untroubled, Receive
<1>2. /\ Len(rx) \in Nat \ {0} /\ rx \in Seq(Response) /\ Len(rx') = Len(rx) - 1
      /\ m = rx[1] /\ m \in Response /\ 1 \in 1..Len(rx) /\ Len(bus) \in Nat
      /\ \A i \in 1..Len(rx') : rx'[i] = rx[i + 1] /\ i + 1 \in 1..Len(rx)
      /\ step \in Steps
  BY <1>1, WireFacts, TailFacts DEF TypeOK
<1>3. /\ Final(m) => Answers(m) /\ Len(rx) = 1 /\ Len(bus) = 0
      /\ ~Final(m) => step \in {"erase", "auth"}
  BY <1>1, <1>2 DEF Untroubled, Alone
<1>4. \/ m.kind = "pending" /\ step \in {"erase", "auth"} /\ UNCHANGED toolVars
      \/ /\ m.kind # "positive" /\ ~(m.kind = "pending" /\ step \in {"erase", "auth"})
         /\ UdsError(m)
      \/ m.kind = "positive" /\ Matches(m) /\ Accepted(m)
      \/ m.kind = "positive" /\ ~Matches(m)
  BY DEF Receive
<1> HIDE DEF m
<1>5. CASE ~Final(m)
  <2>1. UNCHANGED toolVars /\ step \in {"erase", "auth"}
    BY <1>3, <1>4, <1>5 DEF Final
  <2>2. Alone'
    <3>1. Next
      BY DEF Next, ToolStep
    <3>2. ~Transmit /\ ~\E matches \in BOOLEAN : Start(matches)
      BY <1>1 DEF Transmit, Start
    <3>3. Stays /\ runs' = runs
      BY <1>1, <2>1 DEF Stays, toolVars, envVars
    <3> QED
      BY <1>1, <3>1, <3>2, <3>3, TrafficSteps, TrafficKeepsAlone
  <2>3. /\ phase' = phase /\ step' = step /\ block' = block /\ bus' = bus /\ ecu' = ecu
        /\ runs' = runs /\ target' = "AS5PR" /\ ~cancelled' /\ ~expired'
    BY <1>1, <2>1 DEF toolVars, envVars
  <2>4. Len(bus') # 0 => EcuAt(step, block)'
    BY <1>1, <2>3 DEF Untroubled, EcuAt, InApp, InBoot, Programmed, Writable
  <2>5. ASSUME NEW i \in 1..Len(rx')
        PROVE  /\ Final(rx[i])' => Answers(rx[i])'
               /\ ~Final(rx[i])' => step \in {"erase", "auth"}
    <3>1. PICK a : a = rx[i + 1]
      OBVIOUS
    <3>2. rx'[i] = a /\ (Final(a) => Answers(a))
      BY <1>2, <3>1 DEF Untroubled
    <3>3. ecu \in Ecu
      BY DEF TypeOK
    <3>4. Final(a) => Answers(a)'
      BY <2>3, <3>2, <3>3, AnswersStand
    <3> QED
      BY <2>1, <3>2, <3>4 DEF Final, Answers, Fits, Shows
  <2> QED
    BY <1>1, <2>2, <2>3, <2>4, <2>5 DEF Untroubled
<1>6. CASE Final(m)
  <2>a. Answers(m) /\ Len(rx) = 1 /\ Len(bus) = 0
    BY <1>3, <1>6
  <2>b. Len(rx') = 0
    BY <1>2, <2>a
  <2>1. Len(rx') = 0 /\ Len(bus) = 0 /\ Fits(m) /\ Shows(m)
    BY <2>a, <2>b DEF Answers
  <2>2. \A s \in Steps : Opens(s) /\ Goto(s) => phase' # "idle" /\ Untroubled'
    BY <1>1, <2>1, GotoCalm
  <2>3. CASE m.kind # "positive"
    <3>1. step = "seed" /\ m.kind = "negative" /\ m.info = "7F"
      BY <2>1, <2>3 DEF Fits
    <3>2. UdsError(m) /\ step \notin Probes
      BY <1>4, <2>3, <3>1 DEF Probes
    <3>3. Goto("session") /\ Opens("session")
      BY <2>1, <3>1, <3>2 DEF UdsError, Shows
    <3> QED
      BY <2>2, <3>3
  <2>4. CASE m.kind = "positive"
    <3>1. m.svc = Service[step] /\ m.seq = RequestOf(step).seq /\ m.info # "bad"
      BY <2>1, <2>4 DEF Fits
    <3>2. Accepted(m)
      BY <1>4, <2>4, <3>1 DEF Matches
    <3>3. CASE step \in Probes
      <4>1. Identity(StatusOf(m.info))
        BY <3>2, <3>3 DEF Accepted
      <4>2. /\ m.info = "App" => StatusOf(m.info) = "APP_CONFIRMED"
            /\ m.info = "Boot" => StatusOf(m.info) = "BOOT_CONFIRMED"
        BY DEF StatusOf
      <4>3. \E s \in {"default", "seed", "seedRetry", "version", "verify"} : Opens(s) /\ Goto(s)
        <5>1. CASE step = "probe"
          BY <2>1, <4>1, <4>2, <5>1 DEF Shows, Identity
        <5>2. CASE step = "probeBoot"
          BY <2>1, <4>1, <4>2, <5>2 DEF Shows, Identity
        <5>3. CASE step = "probeSession"
          BY <2>1, <4>1, <4>2, <5>3 DEF Shows, Identity
        <5>4. CASE step = "verify"
          BY <2>1, <4>1, <4>2, <5>4 DEF Shows, Identity
        <5> QED
          BY <3>3, <5>1, <5>2, <5>3, <5>4 DEF Probes
      <4> QED
        BY <2>2, <4>3
    <3>4. CASE step = "version"
      <4>1. Finish("COMPLETED")
        BY <3>1, <3>2, <3>4 DEF Accepted, Probes, Transfers
      <4> QED
        BY <4>1 DEF Finish
    <3>5. CASE step \notin Probes \cup {"version"}
      <4> DEFINE more == step \in Transfers /\ block < BlocksOf(AreaOf(step))
      <4>1. PICK s : s = IF more THEN step ELSE Following[step]
        OBVIOUS
      <4>2. Goto(s) /\ Opens(s)
        <5>1. CASE more
          BY <2>1, <3>1, <3>2, <3>5, <4>1, <5>1 DEF Accepted, Shows
        <5>2. CASE ~more
          BY <2>1, <2>4, <3>1, <3>2, <3>5, <4>1, <5>2 DEF Accepted, Shows
        <5> QED
          BY <5>1, <5>2
      <4>3. s \in Steps
        BY <1>2, <3>5, <4>1 DEF Following, Probes
      <4> QED
        BY <2>2, <4>2, <4>3
    <3> QED
      BY <3>3, <3>4, <3>5
  <2> QED
    BY <2>3, <2>4
<1> QED
  BY <1>5, <1>6

\* So do the other steps of a run that is not disturbed: handing a request to
\* the transport and the bus, a pending answer, and Boot starting the App.
LEMMA SendCalm ==
    ASSUME TypeOK, phase # "idle", Untroubled, Begin \/ Transmit
    PROVE  Untroubled'
<1>1. /\ target = "AS5PR" /\ ~cancelled /\ ~expired /\ Alone
      /\ target' = target /\ cancelled' = cancelled /\ expired' = expired
      /\ step' = step /\ block' = block /\ ecu' = ecu /\ phase # "waiting"
  BY DEF Untroubled, Begin, Transmit, ecuVars, envVars
<1>2. EcuAt(step, block)'
  <2>1. EcuAt(step, block)
    BY <1>1 DEF Untroubled
  <2> QED
    BY <1>1, <2>1 DEF EcuAt, InApp, InBoot, Programmed, Writable
<1>3. Alone' /\ Len(rx') = 0
  <2>1. CASE Transmit
    BY <1>1, <2>1, TransmitKeepsAlone
  <2>2. CASE Begin
    <3>1. Len(bus) = 0 /\ Len(rx) = 0 /\ bus' = bus /\ rx' = rx
      BY <1>1, <2>2 DEF Alone, Begin, ecuVars
    <3> QED
      BY <3>1 DEF Alone
  <2> QED
    BY <2>1, <2>2
<1>4. \A i : i \notin 1..Len(rx')
  BY <1>3
<1> QED
  BY <1>1, <1>2, <1>3, <1>4 DEF Untroubled

\* A pending answer.
LEMMA BusyCalm ==
    ASSUME TypeOK, phase # "idle", Untroubled, EcuStillBusy
    PROVE  Untroubled'
<1>1. /\ target = "AS5PR" /\ ~cancelled /\ ~expired /\ Alone
      /\ UNCHANGED <<toolVars, bus, ecu, target, envVars>>
      /\ bus # <<>> /\ Head(bus).svc \in {"erase", "auth"} /\ Deliver(Pending(Head(bus)))
  BY DEF Untroubled, EcuStillBusy
<1>2. /\ phase' = phase /\ step' = step /\ block' = block /\ bus' = bus /\ ecu' = ecu
      /\ runs' = runs /\ target' = "AS5PR" /\ ~cancelled' /\ ~expired'
  BY <1>1 DEF toolVars, envVars
<1>3. /\ Len(bus) # 0 /\ Head(bus) = RequestOf(step) /\ phase = "waiting"
      /\ Len(rx) \in Nat /\ rx \in Seq(Response) /\ Head(bus) \in Request
  BY <1>1, WireFacts, TailFacts DEF Alone
<1>4. step \in {"erase", "auth"}
  BY <1>1, <1>3 DEF RequestOf, TypeOK
<1>5. Alone'
  <2>1. Next
    BY DEF Next, Environment
  <2>2. ~Transmit /\ ~\E matches \in BOOLEAN : Start(matches)
    BY <1>3 DEF Transmit, Start
  <2>3. Stays /\ runs' = runs
    BY <1>1 DEF Stays, toolVars, envVars
  <2> QED
    BY <1>1, <2>1, <2>2, <2>3, TrafficSteps, TrafficKeepsAlone
<1>6. EcuAt(step, block)'
  <2>1. EcuAt(step, block)
    BY <1>3 DEF Untroubled
  <2> QED
    BY <1>2, <2>1 DEF EcuAt, InApp, InBoot, Programmed, Writable
<1>7. \A i \in 1..Len(rx) : ~Final(rx[i])
  BY <1>1, <1>3 DEF Alone
<1>8. \A i \in 1..Len(rx') : ~Final(rx'[i])
  <2>1. PICK m : m = Pending(Head(bus))
    OBVIOUS
  <2>2. m \in Response /\ ~Final(m)
    <3>1. Pending(Head(bus)).kind = "pending"
      BY DEF Pending
    <3>2. "ok" \in Infos
      BY DEF Infos
    <3>3. m \in Response
      BY <1>3, <2>1, <3>2, AnswerTypes DEF TypeOK
    <3> QED
      BY <2>1, <3>1, <3>3 DEF Final
  <2>3. CASE rx' = rx
    BY <1>7, <2>3
  <2>4. CASE rx' = Append(rx, m)
    <3>1. /\ Len(rx') = Len(rx) + 1 /\ rx'[Len(rx) + 1] = m
          /\ \A j \in 1..Len(rx) : rx'[j] = rx[j]
      BY <1>3, <2>2, <2>4, AppendFacts
    <3>2. \A i \in 1..Len(rx') : i \in 1..Len(rx) \/ i = Len(rx) + 1
      BY <1>3, <3>1
    <3> QED
      BY <1>7, <2>2, <3>1, <3>2
  <2> QED
    BY <1>1, <2>1, <2>3, <2>4 DEF Deliver
<1>9. ASSUME NEW i \in 1..Len(rx')
      PROVE  /\ Final(rx[i])' => Answers(rx[i])'
             /\ ~Final(rx[i])' => step \in {"erase", "auth"}
  BY <1>4, <1>8, <1>9 DEF Final
<1> QED
  BY <1>2, <1>5, <1>6, <1>9 DEF Untroubled

\* Boot starts the App.
LEMMA StartsAppCalm ==
    ASSUME TypeOK, phase # "idle", Untroubled, EcuStartsApp
    PROVE  Untroubled'
<1>1. /\ target = "AS5PR" /\ ~cancelled /\ ~expired /\ Alone
      /\ UNCHANGED <<toolVars, bus, rx, target, envVars>>
  BY DEF Untroubled, EcuStartsApp
<1>2. /\ phase' = phase /\ step' = step /\ block' = block /\ bus' = bus /\ rx' = rx
      /\ runs' = runs /\ target' = "AS5PR" /\ ~cancelled' /\ ~expired' /\ ecu \in Ecu
  BY <1>1 DEF toolVars, envVars, TypeOK
<1>3. Alone'
  <2>1. Next
    BY DEF Next, Environment
  <2>2. ~Transmit /\ ~\E matches \in BOOLEAN : Start(matches)
    BY <1>2 DEF Transmit, Start
  <2>3. Stays /\ runs' = runs
    BY <1>1 DEF Stays, toolVars, envVars
  <2> QED
    BY <1>1, <2>1, <2>2, <2>3, TrafficSteps, TrafficKeepsAlone
<1>4. (phase' # "waiting" \/ Len(bus') # 0) => EcuAt(step, block)'
  <2>1. (phase # "waiting" \/ Len(bus) # 0) => EcuAt(step, block)
    BY DEF Untroubled
  <2> QED
    BY <1>2, <2>1, OpensStays
<1>5. ASSUME NEW i \in 1..Len(rx')
      PROVE  /\ Final(rx[i])' => Answers(rx[i])'
             /\ ~Final(rx[i])' => step \in {"erase", "auth"}
  <2>1. PICK a : a = rx[i]
    OBVIOUS
  <2>2. rx'[i] = a /\ (Final(a) => Answers(a)) /\ (~Final(a) => step \in {"erase", "auth"})
    BY <1>2, <2>1 DEF Untroubled
  <2>3. Final(a) => Answers(a)'
    BY <1>2, <2>2, AnswersStand
  <2> QED
    BY <2>2, <2>3 DEF Final, Answers, Fits, Shows
<1> QED
  BY <1>2, <1>3, <1>4, <1>5 DEF Untroubled

\* Every step keeps an undisturbed run untroubled or completes it.
LEMMA CalmStep ==
    ASSUME IInv, CalmOK, [Next]_vars
    PROVE  CalmOK'
<1>0. TypeOK /\ RunOK
  BY DEF IInv
<1>1. CASE UNCHANGED vars
  <2>1. /\ disturbed' = disturbed /\ phase' = phase /\ result' = result /\ target' = target
        /\ cancelled' = cancelled /\ expired' = expired /\ step' = step /\ block' = block
        /\ bus' = bus /\ rx' = rx /\ ecu' = ecu /\ runs' = runs
    BY <1>1 DEF vars, toolVars, ecuVars, envVars
  <2> QED
    BY <2>1 DEF CalmOK, UndisturbedRunCompletes, Untroubled, Alone, Final, Answers, Fits, Shows,
        RequestOf, Opens, BlockAt, EcuAt, InApp, InBoot, Programmed, Writable
<1>2. ASSUME Next, ~disturbed'
      PROVE  /\ phase' # "idle" => Untroubled'
             /\ UndisturbedRunCompletes'
  <2>1. CASE \E matches \in BOOLEAN : Start(matches)
    <3>1. /\ bus = <<>> /\ bus' = bus /\ rx' = <<>> /\ target' = "AS5PR" /\ ~ecu.booting
          /\ ecu' = ecu /\ step' = "probe" /\ block' = 0 /\ ~cancelled' /\ ~expired'
          /\ result' \in {"none", "PACKAGE_REJECTED"} /\ phase' \in {"ready", "idle"}
      BY <1>2, <2>1 DEF Start
    <3>2. Len(bus') = 0 /\ Len(rx') = 0 /\ \A i : i \notin 1..Len(rx')
      BY <3>1, EmptySeq
    <3>3. Alone'
      BY <3>2 DEF Alone
    <3>4. EcuAt(step, block)'
      BY <3>1 DEF EcuAt, Late, Downloads, Transfers, Closing
    <3> QED
      BY <3>1, <3>2, <3>3, <3>4 DEF Untroubled, UndisturbedRunCompletes
  <2>2. CASE TimeOut \/ Cancel \/ DeadlinePasses \/ LoseRequest \/ LoseAnswer
             \/ EcuRefuses \/ EcuRestarts \/ SendFails
    BY <1>2, <2>2 DEF TimeOut, Cancel, DeadlinePasses, LoseRequest, LoseAnswer, EcuRefuses,
                      EcuRestarts, SendFails, Fault
  <2>3. CASE EcuServe \/ EcuStillBusy \/ EcuStartsApp
    <3>1. UNCHANGED <<toolVars, envVars>>
      BY <2>3 DEF EcuServe, EcuStillBusy, EcuStartsApp
    <3>2. disturbed' = disturbed /\ phase' = phase /\ result' = result
      BY <3>1 DEF toolVars, envVars
    <3>3. phase # "idle" => Untroubled
      BY <1>2, <3>2 DEF CalmOK
    <3>4. phase' # "idle" => Untroubled'
      BY <1>0, <2>3, <3>2, <3>3, ServeCalm, BusyCalm, StartsAppCalm
    <3> QED
      BY <1>2, <3>2, <3>4 DEF CalmOK, UndisturbedRunCompletes
  <2>4. CASE ToolStep /\ ~TimeOut
    <3>1. phase # "idle"
      BY <2>4 DEF ToolStep, NoticeCancel, GiveUp, Begin, Transmit, Receive, SeesToken
    <3>2. disturbed' = disturbed
      BY <2>4 DEF ToolStep, NoticeCancel, GiveUp, Begin, Transmit, Receive, envVars
    <3>3. Untroubled
      BY <1>2, <3>1, <3>2 DEF CalmOK
    <3>4. ~NoticeCancel /\ ~GiveUp
      BY <3>3 DEF Untroubled, NoticeCancel, GiveUp, LoopOver
    <3>5. CASE Begin \/ Transmit
      <4>1. result' = result /\ disturbed' = disturbed
        BY <3>5 DEF Begin, Transmit, envVars
      <4> QED
        BY <1>0, <1>2, <3>1, <3>3, <3>5, <4>1, SendCalm DEF CalmOK, UndisturbedRunCompletes
    <3>6. CASE Receive
      <4>1. /\ phase' # "idle" => Untroubled'
            /\ phase' = "idle" => result' = "COMPLETED"
        BY <1>0, <3>1, <3>3, <3>6, ReceiveCalm
      <4>2. phase' # "idle" => result' = result
        BY <1>0, <3>6, ReceiveMoves DEF Receive, Ends, Stays, Again, Onward
      <4> QED
        BY <1>2, <3>2, <4>1, <4>2 DEF CalmOK, UndisturbedRunCompletes
    <3> QED
      BY <2>4, <3>4, <3>5, <3>6 DEF ToolStep
  <2> QED
    BY <1>2, <2>1, <2>2, <2>3, <2>4 DEF Next, Environment, ToolStep
<1> QED
  BY <1>1, <1>2 DEF CalmOK

\* A run with a matching ECU that nothing disturbs ends with COMPLETED, whatever
\* state earlier runs left the ECU in and however many blocks the image has.
THEOREM UndisturbedCompletes == Spec => []UndisturbedRunCompletes
<1>1. Init => CalmOK
  BY DEF Init, CalmOK, UndisturbedRunCompletes
<1>2. IInv /\ CalmOK /\ [Next]_vars => CalmOK'
  BY CalmStep
<1>3. CalmOK => UndisturbedRunCompletes
  BY DEF CalmOK, UndisturbedRunCompletes
<1> QED
  BY <1>1, <1>2, <1>3, Inductive, PTL DEF Spec
===============================================================================
