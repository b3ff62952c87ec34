---------------------------- MODULE FlashWorkflow ----------------------------
(***************************************************************************)
(* FlashWorkflow.run, which e68 and as5pr have in the same words: one      *)
(* request after the other, each answered before the next goes out, from   *)
(* the default session to the App's first answer after its reset.  The     *)
(* transports are what they promise: answers come in the order in which    *)
(* the ECU gave them, to whichever call is waiting, and a call that has    *)
(* failed may still be carried out.  The ECU answers as the simulated one  *)
(* does (E68FlashResponsePlan); its flash, its restarts and its refusals   *)
(* of requests that come in the wrong state are external.                  *)
(***************************************************************************)
EXTENDS Naturals, Sequences, SequencesExt

CONSTANTS
    Blocks,     \* the number of transfer blocks of each image
    Modulus,    \* modulus of the block sequence counter (256 in the code)
    MaxFaults   \* bound on losses, untimely timeouts and restarts

Images == {"driver", "app"}

ASSUME WorkflowAssumption ==
    /\ Blocks \in [Images -> Nat \ {0}]
    /\ Modulus \in Nat \ {0} /\ MaxFaults \in Nat

VARIABLES
    phase,     \* of run(): "off", "send" or "wait", or "done", "failed", "cancelled"
    at,        \* the request of Chain it is at
    late,      \* the deadline of _wait_for_app_did_after_reset has passed
    cancelled, \* the token is set
    inbox,     \* requests on their way to the ECU
    wire,      \* answers on their way back
    ecu,       \* mode, stage of the protocol, download, flash content
    faults     \* history: how many things went wrong

runVars  == <<phase, at, late, cancelled>>
flowVars == <<runVars, inbox, wire, ecu, faults>>

-------------------------------------------------------------------------------
(* The requests.  An answer is recognised by its prefix: the service with  *)
(* its sub-function, the block's sequence number, the CRC.                 *)

Request(service) == [service |-> service, seq |-> 0, crc |-> "none", img |-> "none", block |-> 0]
Prefix(r) == [service |-> r.service, seq |-> r.seq, crc |-> r.crc]

SecurityAccess(seed, key) == <<Request(seed), Request(key)>>

Preprogramming ==
    <<Request("10 01"), Request("10 03")>> \o SecurityAccess("27 01", "27 02")
      \o <<Request("31 01 02 03"), Request("10 02")>>

\* block_sequence starts at 1 and wraps.
BlockSequence(n) == n % Modulus

DownloadImage(img) ==
    <<[Request("34") EXCEPT !.img = img]>>
      \o [n \in 1..Blocks[img] |->
            [Request("36") EXCEPT !.seq = BlockSequence(n), !.img = img, !.block = n]]
      \o <<[Request("37") EXCEPT !.img = img, !.crc = img]>>

\* A mutant: the App is erased before the driver runs.
BootProgrammingErasesFirst ==
    SecurityAccess("27 09", "27 0A")
      \o <<Request("31 01 FF 00")>> \o DownloadImage("driver") \o <<Request("31 01 02 02")>>
      \o DownloadImage("app") \o <<Request("31 01 FF 01"), Request("11 01")>>
BootProgramming ==
    SecurityAccess("27 09", "27 0A") \o DownloadImage("driver")
      \o <<Request("31 01 02 02"), Request("31 01 FF 00")>>
      \o DownloadImage("app") \o <<Request("31 01 FF 01"), Request("11 01")>>

Chain == Preprogramming \o BootProgramming \o <<Request("22 30 00")>>
Current == Chain[at]

\* The two routines that may answer 0x78 first.
PendingAllowed(r) == r.service \in {"31 01 FF 00", "31 01 FF 01"}
IsPoll(r) == r.service = "22 30 00"

-------------------------------------------------------------------------------
(* The ECU.  A download is the blocks as they came; the flash content is   *)
(* told by name: the old App, none, a part of the new one, all of it.      *)

NoDownload == [img |-> "none", blocks |-> <<>>]
Whole(img) == [img |-> img, blocks |-> [n \in 1..Blocks[img] |-> <<img, n>>]]

EcuSequence(n) == n % Modulus

\* What the ECU has to have been through before it serves a request.
StageFor == [s \in {r.service : r \in Range(Chain)} |->
    CASE s \in {"31 01 02 03", "10 02"} -> 1
      [] s \in {"27 09", "27 0A"} -> 2
      [] s \in {"34", "36", "37", "31 01 02 02"} -> 3
      [] s \in {"31 01 FF 00", "31 01 FF 01"} -> 4
      [] OTHER -> 0]

Refuses(r) ==
    \/ ecu.stage < StageFor[r.service]
    \/ r.service = "36" /\ ecu.load.img = "none"
    \/ r.service = "36" /\ r.seq # EcuSequence(Len(ecu.load.blocks) + 1)
    \/ r.service = "37" /\ ecu.load # Whole(r.crc)
    \/ r.service = "31 01 02 02" /\ ~ecu.driver
    \/ r.service = "31 01 FF 01" /\ ecu.app # "new"
    \/ IsPoll(r) /\ ecu.mode # "app"

Answer(r, code) == [service |-> r.service, seq |-> r.seq, crc |-> r.crc, code |-> code]

Responses(r) ==
    IF Refuses(r) THEN <<Answer(r, "refused")>>
    ELSE IF PendingAllowed(r) THEN <<Answer(r, "pending"), Answer(r, "ok")>>
    ELSE <<Answer(r, "ok")>>

\* FakeLinAdapter and FakeCanAdapter hold all the answers from the start.
FakeAnswers ==
    FlattenSeq([i \in DOMAIN Chain |->
        LET ok == <<Answer(Chain[i], "ok")>>
        IN IF PendingAllowed(Chain[i]) THEN <<Answer(Chain[i], "pending")>> \o ok ELSE ok])

\* Switched off and on, or reset: what was in RAM is gone.
Restarted(e) == [e EXCEPT !.mode = "restart", !.stage = 0, !.load = NoDownload, !.driver = FALSE]

Stored(e, r) ==
    CASE r.service = "10 01" -> [e EXCEPT !.stage = 0]
      [] r.service = "27 02" -> [e EXCEPT !.stage = 1]
      [] r.service = "10 02" -> [e EXCEPT !.stage = 2, !.mode = "boot"]
      [] r.service = "27 0A" -> [e EXCEPT !.stage = 3]
      [] r.service = "34" -> [e EXCEPT !.load = [img |-> r.img, blocks |-> <<>>]]
      [] r.service = "36" ->
           [e EXCEPT !.load.blocks = Append(@, <<r.img, r.block>>),
                     !.app = IF e.load.img = "app" THEN "part" ELSE @]
      [] r.service = "37" ->
           [e EXCEPT !.load = NoDownload, !.driver = @ \/ r.crc = "driver",
                     !.app = IF r.crc = "app" THEN "new" ELSE @]
      [] r.service = "31 01 02 02" -> [e EXCEPT !.stage = 4]
      [] r.service = "31 01 FF 00" -> [e EXCEPT !.app = "none", !.valid = FALSE,
                                            !.starts = TRUE, !.alive = FALSE]
      [] r.service = "31 01 FF 01" -> [e EXCEPT !.valid = TRUE]
      [] r.service = "11 01" -> Restarted(e)
      [] IsPoll(r) -> [e EXCEPT !.alive = TRUE]
      [] OTHER -> e

Fault == faults < MaxFaults /\ faults' = faults + 1

EcuServes ==
    /\ inbox # <<>>
    /\ inbox' = Tail(inbox)
    /\ LET r == Head(inbox) IN
         IF ecu.mode = "restart" THEN UNCHANGED <<wire, ecu>>
         ELSE /\ wire' = wire \o Responses(r)
              /\ ecu' = IF Refuses(r) THEN ecu ELSE Stored(ecu, r)
    /\ UNCHANGED <<runVars, faults>>

\* A seed that is too short, or blocks that are too small for the tool.
Checked(r) == r.service \in {"27 01", "27 09", "34"}
EcuAnswersBadly ==
    /\ Fault /\ inbox # <<>> /\ Checked(Head(inbox)) /\ ecu.mode # "restart"
    /\ inbox' = Tail(inbox)
    /\ wire' = Append(wire, Answer(Head(inbox), "unusable"))
    /\ UNCHANGED <<runVars, ecu>>

Startable == ecu.valid /\ ecu.starts

EcuIsBack ==
    /\ ecu.mode = "restart"
    /\ ecu' = [ecu EXCEPT !.mode = IF Startable THEN "app" ELSE "boot"]
    /\ UNCHANGED <<runVars, inbox, wire, faults>>

EcuRestarts ==
    /\ Fault /\ ecu.mode # "restart"
    /\ ecu' = Restarted(ecu) /\ inbox' = <<>>
    /\ UNCHANGED <<runVars, wire>>

\* The App does not come up, although it was found valid.
EcuStaysInBoot ==
    /\ Fault /\ ecu.mode = "restart"
    /\ ecu' = [ecu EXCEPT !.mode = "boot", !.starts = FALSE]
    /\ UNCHANGED <<runVars, inbox, wire>>

\* A request or an answer is lost on the bus.
Loss ==
    /\ Fault
    /\ \/ inbox # <<>> /\ inbox' = Tail(inbox) /\ UNCHANGED wire
       \/ wire # <<>> /\ wire' = Tail(wire) /\ UNCHANGED inbox
    /\ UNCHANGED <<runVars, ecu>>

-------------------------------------------------------------------------------
(* The run.                                                                *)

FlowInit ==
    /\ phase = "off" /\ at = 1 /\ late = FALSE /\ cancelled = FALSE
    /\ inbox = <<>> /\ wire = <<>> /\ faults = 0
    /\ ecu \in [mode : {"app", "boot"}, stage : {0}, load : {NoDownload},
                driver : {FALSE}, app : {"old"}, valid : {TRUE}, starts : {TRUE},
                alive : {FALSE}]

Begin ==
    /\ phase' = "send" /\ at' = 1 /\ late' = FALSE /\ cancelled' = FALSE
    /\ UNCHANGED <<inbox, ecu, faults>>

CheckCancel ==
    /\ phase \in {"send", "wait"} /\ cancelled
    /\ phase' = "cancelled"
    /\ UNCHANGED <<at, late, cancelled, inbox, wire, ecu, faults>>

SendRequest ==
    /\ phase = "send" /\ ~cancelled
    /\ phase' = "wait" /\ inbox' = Append(inbox, Current)
    /\ UNCHANGED <<at, late, cancelled, wire, ecu, faults>>

\* A request failed: the polling for the App tries again until its deadline;
\* a mutant: for ever.
RetriedForEver == IsPoll(Current)
Retried == IsPoll(Current) /\ ~late
Failed ==
    /\ phase' = IF Retried THEN "send" ELSE "failed"
    /\ UNCHANGED <<at, late, cancelled>>

Advanced ==
    /\ IF at = Len(Chain) THEN phase' = "done" /\ UNCHANGED at
                          ELSE phase' = "send" /\ at' = at + 1
    /\ UNCHANGED <<late, cancelled>>

\* startswith(expect_prefix); a mutant: the first byte is enough.
MatchesSid(a, r) == TRUE
Matches(a, r) == Prefix(a) = Prefix(r)

TakeAnswer ==
    /\ phase = "wait" /\ ~cancelled /\ wire # <<>>
    /\ wire' = Tail(wire)
    /\ LET a == Head(wire) IN
         CASE a.code = "pending" /\ PendingAllowed(Current) -> UNCHANGED runVars
           [] a.code = "pending" /\ ~PendingAllowed(Current) -> Failed
           [] a.code = "refused" -> Failed
           [] a.code = "unusable" /\ Matches(a, Current) -> Failed
           [] a.code = "ok" /\ Matches(a, Current) -> Advanced
           [] OTHER -> UNCHANGED runVars     \* ignore_invalid_responses
    /\ UNCHANGED <<inbox, ecu, faults>>

\* A timeout that passes while the ECU is at work, or an answer under way,
\* is one of the things that go wrong.
Underway == inbox # <<>> \/ wire # <<>>

Timeout ==
    /\ phase = "wait" /\ ~cancelled
    /\ IF Underway THEN Fault ELSE UNCHANGED faults
    /\ Failed
    /\ UNCHANGED <<inbox, wire, ecu>>

\* So is an ECU that needs longer than p2_star for its restart.
DeadlinePasses ==
    /\ phase \in {"send", "wait"} /\ IsPoll(Current) /\ ~late
    /\ IF Startable THEN Fault ELSE UNCHANGED faults
    /\ late' = TRUE
    /\ UNCHANGED <<phase, at, cancelled, inbox, wire, ecu>>

Cancel ==
    /\ phase \in {"send", "wait"} /\ ~cancelled
    /\ cancelled' = TRUE
    /\ UNCHANGED <<phase, at, late, inbox, wire, ecu, faults>>

RunStep == CheckCancel \/ SendRequest \/ TakeAnswer \/ Timeout \/ DeadlinePasses
EcuStep == EcuServes \/ EcuAnswersBadly \/ EcuIsBack \/ EcuRestarts \/ EcuStaysInBoot \/ Loss

-------------------------------------------------------------------------------
FlowTypeOK ==
    /\ phase \in {"off", "send", "wait", "done", "failed", "cancelled"}
    /\ at \in 1..Len(Chain) /\ late \in BOOLEAN /\ cancelled \in BOOLEAN
    /\ inbox \in Seq(Range(Chain))
    /\ wire \in Seq([service : DOMAIN StageFor, seq : 0..Modulus, crc : Images \cup {"none"},
                     code : {"ok", "pending", "refused", "unusable"}])
    /\ ecu.mode \in {"app", "boot", "restart"} /\ ecu.stage \in 0..4
    /\ ecu.app \in {"old", "none", "part", "new"}
    /\ faults \in 0..MaxFaults
===============================================================================
