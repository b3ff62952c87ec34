------------------------------- MODULE CanIsoTp -------------------------------
(***************************************************************************)
(* CanIsoTpTransport: UDS requests and responses carried by 8-byte CAN     *)
(* frames, with flow control in both directions, over an adapter whose     *)
(* receive queue outlives a call.  Calls to request() follow one another;  *)
(* the answer to one may arrive during the next, a timeout may pass while  *)
(* the awaited frame is on its way, and a frame may be lost.  The ECU's    *)
(* end of the connection is external.                                      *)
(***************************************************************************)
EXTENDS Integers, Sequences

CONSTANTS
    Cfs,         \* consecutive frames of a request or answer; 0: a single frame
    BlockSizes,  \* block sizes the ECU grants; 0: no limit
    SeqMod,      \* modulus of the consecutive frames' number (16 in the code)
    Attempts,    \* CAN_ISOTP_INITIAL_FC_ATTEMPTS
    MaxWaits,    \* CAN_ISOTP_MAX_WAIT_FRAMES
    IgnoreInvalid, \* ignore_invalid_responses, TRUE in every product call
    KeepsBatch,  \* the adapter keeps what follows the frame it returns
    MaxCalls,    \* bound on the calls to request()
    MaxFaults,   \* bound on losses, overflows and negative responses
    MaxRx        \* the ECU repeats WAIT and 0x78 only on a queue shorter than this

ASSUME ConstantsAssumption ==
    /\ Cfs \subseteq Nat /\ BlockSizes \subseteq Nat
    /\ SeqMod \in Nat \ {0} /\ Attempts \in Nat \ {0} /\ MaxWaits \in Nat
    /\ IgnoreInvalid \in BOOLEAN /\ KeepsBatch \in BOOLEAN
    /\ MaxCalls \in Nat /\ MaxFaults \in Nat /\ MaxRx \in Nat

\* "ident" is asked with allow_response_pending = FALSE, "erase" with TRUE.
Services == {"ident", "erase"}

VARIABLES
    pc,        \* where request() is; "idle" between calls
    call,      \* number of the current call
    svc, cfs,  \* its service and the consecutive frames of its payload
    attempt, waits, sent, inBlock, block,
    partial,   \* the response being reassembled
    unexpected,\* last_unexpected_response: its category or "none"
    result,    \* what the last call ended with
    cancelled,
    rx,        \* frames in the adapter's receive queue; delay is the ECU's
    inbox,     \* frames on their way to the ECU
    asm,       \* ECU: the request being received
    todo,      \* ECU: the request received and not answered
    out,       \* ECU: the answer whose consecutive frames wait for flow control
    executed,  \* history: the requests the ECU carried out, in order
    given,     \* history: the call whose answer was returned last
    disturbed, \* history: something went wrong during this call
    leftover,  \* history: a flow control for an earlier first frame may come
    overrun,   \* history: the ECU got more frames than it granted
    faults

hostVars == <<pc, call, svc, cfs, attempt, waits, sent, inBlock, block,
              partial, unexpected, result, given>>
ecuVars  == <<asm, todo, out, executed, overrun>>
vars     == <<hostVars, cancelled, rx, inbox, ecuVars, disturbed, leftover, faults>>

\* A frame.  of is the call it belongs to, pos its position in the payload
\* (history: frames carry only its remainder), info what it says.
Frame(type, of, s, n, pos, info) ==
    [type |-> type, of |-> of, svc |-> s, n |-> n, pos |-> pos, info |-> info]

None == [of |-> 0, svc |-> "ident", n |-> 0, got |-> 0, whole |-> TRUE,
         info |-> "none", left |-> 0]
Started(f) == [of |-> f.of, svc |-> f.svc, n |-> f.n, got |-> 0, whole |-> TRUE,
               info |-> f.info, left |-> 0]

\* The receiver's check of a consecutive frame, and the assembly with it added.
Expected(a, f) == f.type = "CF" /\ f.pos % SeqMod = (a.got + 1) % SeqMod
Extended(a, f) ==
    [a EXCEPT !.got = @ + 1, !.whole = @ /\ f.of = a.of /\ f.pos = a.got + 1]

Init ==
    /\ pc = "idle" /\ call = 0 /\ svc = "ident" /\ cfs = 0
    /\ attempt = 1 /\ waits = 0 /\ sent = 0 /\ inBlock = 0 /\ block = 0
    /\ partial = None /\ unexpected = "none"
    /\ result = [outcome |-> "none", of |-> 0, whole |-> TRUE]
    /\ cancelled = FALSE /\ given = 0
    /\ rx = <<>> /\ inbox = <<>>
    /\ asm = None /\ todo = None /\ out = None /\ executed = <<>>
    /\ disturbed = FALSE /\ leftover = FALSE /\ overrun = FALSE /\ faults = 0

-------------------------------------------------------------------------------
(* The host.                                                               *)

\* receive_can_frame: the TSMaster adapter drops the rest of what it read.
Rest == IF KeepsBatch THEN Tail(rx) ELSE <<>>

End(outcome, of, whole) ==
    /\ result' = [outcome |-> outcome, of |-> of, whole |-> whole]
    /\ given' = IF outcome = "returned" THEN of ELSE given
    /\ pc' = "idle" /\ partial' = None /\ unexpected' = "none"
    /\ attempt' = 1 /\ waits' = 0 /\ sent' = 0 /\ inBlock' = 0 /\ block' = 0
    /\ UNCHANGED <<call, svc, cfs>>

Raise(category) == End(category, call, TRUE)

\* Something of an earlier call is still under way.
Unclean == rx # <<>> \/ inbox # <<>>
             \/ asm # None \/ todo # None \/ out # None

\* request(): nothing is cleared, so rx may hold answers to earlier calls.
Start(s, n) ==
    /\ pc = "idle" /\ call < MaxCalls
    /\ call' = call + 1 /\ svc' = s /\ cfs' = n /\ pc' = "first"
    /\ result' = [outcome |-> "none", of |-> 0, whole |-> TRUE]
    /\ cancelled' = FALSE
    /\ disturbed' = Unclean /\ leftover' = (leftover \/ Unclean)
    /\ UNCHANGED <<attempt, waits, sent, inBlock, block, partial, unexpected,
                   given, rx, inbox, ecuVars, faults>>

SendFirst ==
    /\ pc = "first" /\ ~cancelled
    /\ rx' = IF attempt > 1 THEN <<>> ELSE rx
    /\ inbox' = Append(inbox, Frame(IF cfs = 0 THEN "SF" ELSE "FF",
                                    call, svc, cfs, 0, "request"))
    /\ pc' = IF cfs = 0 THEN "poll" ELSE "awaitFC"
    /\ waits' = 0
    /\ UNCHANGED <<call, svc, cfs, attempt, sent, inBlock, block, partial, unexpected,
                   result, given, cancelled, ecuVars, disturbed, leftover, faults>>

\* Only so many WAIT frames are put up with.
WaitsLeft == waits < MaxWaits

\* _receive_flow_control.
TakeFlowControl ==
    /\ pc = "awaitFC" /\ ~cancelled /\ rx # <<>>
    /\ rx' = Rest
    /\ LET f == Head(rx)
       IN CASE f.type # "FC" -> UNCHANGED hostVars
            [] f.type = "FC" /\ f.info = "go" ->
                 /\ pc' = "sendCF" /\ block' = f.n /\ inBlock' = 0
                 /\ UNCHANGED <<call, svc, cfs, attempt, waits, sent, partial,
                                unexpected, result, given>>
            [] f.type = "FC" /\ f.info = "wait" /\ WaitsLeft ->
                 /\ waits' = waits + 1
                 /\ UNCHANGED <<pc, call, svc, cfs, attempt, sent, inBlock, block,
                                partial, unexpected, result, given>>
            [] OTHER -> Raise("TRANSPORT")
    /\ UNCHANGED <<cancelled, inbox, ecuVars, disturbed, leftover, faults>>

\* Only the flow control of the first frame is asked for again.
FlowControlTimeout ==
    /\ pc = "awaitFC"
    /\ IF sent = 0 /\ attempt < Attempts
       THEN /\ pc' = "first" /\ attempt' = attempt + 1
            /\ UNCHANGED <<call, svc, cfs, waits, sent, inBlock, block, partial,
                           unexpected, result, given>>
       ELSE Raise("TRANSPORT")
    /\ disturbed' = TRUE /\ leftover' = TRUE
    /\ UNCHANGED <<cancelled, rx, inbox, ecuVars, faults>>

\* A block of consecutive frames is complete and a flow control must come before
\* the next, unless the payload is complete.  Mutants: also at the payload's end,
\* and one frame too late.
BlockDoneAlways  == block # 0 /\ inBlock + 1 >= block
BlockDoneTooLate == block # 0 /\ inBlock >= block /\ sent + 1 < cfs
BlockDone        == block # 0 /\ inBlock + 1 >= block /\ sent + 1 < cfs

SendConsecutive ==
    /\ pc = "sendCF" /\ ~cancelled
    /\ inbox' = Append(inbox, Frame("CF", call, svc, 0, sent + 1, "request"))
    /\ sent' = sent + 1
    /\ pc' = IF BlockDone THEN "awaitFC"
             ELSE IF sent + 1 = cfs THEN "poll" ELSE "sendCF"
    /\ inBlock' = IF BlockDone THEN 0 ELSE inBlock + 1
    /\ waits' = 0
    /\ UNCHANGED <<call, svc, cfs, attempt, block, partial, unexpected, result,
                   given, cancelled, rx, ecuVars, disturbed, leftover, faults>>

Goon == UNCHANGED <<call, svc, cfs, attempt, waits, sent, inBlock, block, result,
                   given>>

\* A frame that starts or continues no response.
Invalid ==
    IF IgnoreInvalid
    THEN pc' = "poll" /\ partial' = None /\ unexpected' = "TRANSPORT" /\ Goon
    ELSE Raise("TRANSPORT")

\* A mutant of WaitsOn: 0x78 is a negative response like any other.
WaitsOnNever(a) == FALSE
WaitsOn(a) == a.info = "pending" /\ svc = "erase"

\* A whole response payload.  Any 7F counts as the refusal of this request.
Answer(a) ==
    CASE WaitsOn(a) ->
           pc' = "poll" /\ partial' = None /\ UNCHANGED unexpected /\ Goon
      [] a.info \in {"pending", "negative"} /\ ~WaitsOn(a) -> Raise("UDS")
      [] a.info = "positive" /\ a.svc # svc ->
           pc' = "poll" /\ partial' = None /\ unexpected' = "UDS" /\ Goon
      [] a.info = "positive" /\ a.svc = svc -> End("returned", a.of, a.whole)

\* _poll_response and the first frame of _parse_response_payload.
Poll ==
    /\ pc = "poll" /\ ~cancelled /\ rx # <<>>
    /\ rx' = Rest
    /\ LET f == Head(rx)
       IN CASE f.type = "SF" -> Answer(Started(f)) /\ UNCHANGED inbox
            [] f.type = "FF" ->
                 /\ inbox' = Append(inbox, Frame("FC", call, svc, 0, 0, "go"))
                 /\ pc' = "assemble" /\ partial' = Started(f)
                 /\ UNCHANGED unexpected /\ Goon
            [] f.type \in {"CF", "FC"} -> Invalid /\ UNCHANGED inbox
    /\ UNCHANGED <<cancelled, ecuVars, disturbed, leftover, faults>>

\* A frame that does not continue the response ends its reassembly, and is gone;
\* a mutant: it is passed over.
BrokenPassedOver == UNCHANGED <<pc, partial, unexpected>> /\ Goon
Broken == Invalid

\* The loop of _parse_response_payload.
Assemble ==
    /\ pc = "assemble" /\ ~cancelled /\ rx # <<>>
    /\ rx' = Rest
    /\ LET f == Head(rx)
       IN CASE ~Expected(partial, f) -> Broken
            [] Expected(partial, f) /\ partial.got + 1 = partial.n ->
                 Answer(Extended(partial, f))
            [] OTHER -> /\ partial' = Extended(partial, f)
                        /\ UNCHANGED <<pc, unexpected>> /\ Goon
    /\ UNCHANGED <<cancelled, inbox, ecuVars, disturbed, leftover, faults>>

\* The deadline is set once: no frame, not even 0x78, moves it.  A mutant: it
\* starts again with every frame.
DeadlineRestarted == pc \in {"poll", "assemble"} /\ rx = <<>>
DeadlineRuns      == pc \in {"poll", "assemble"}

\* A mutant of ResponseTimeout: the request is sent again.
ResponseTimeoutRetries ==
    /\ DeadlineRuns
    /\ IF attempt < Attempts
       THEN /\ pc' = "first" /\ attempt' = attempt + 1 /\ sent' = 0
            /\ partial' = None
            /\ UNCHANGED <<call, svc, cfs, waits, inBlock, block, unexpected,
                           result, given>>
       ELSE Raise("TRANSPORT")
    /\ disturbed' = TRUE
    /\ UNCHANGED <<cancelled, rx, inbox, ecuVars, leftover, faults>>

ResponseTimeout ==
    /\ DeadlineRuns
    /\ Raise(IF pc = "poll" /\ unexpected # "none" THEN unexpected ELSE "TRANSPORT")
    /\ disturbed' = TRUE
    /\ UNCHANGED <<cancelled, rx, inbox, ecuVars, leftover, faults>>

NoticeCancel ==
    /\ pc # "idle" /\ cancelled
    /\ Raise("cancelled")
    /\ UNCHANGED <<cancelled, rx, inbox, ecuVars, disturbed, leftover, faults>>

Host == \/ SendFirst \/ TakeFlowControl \/ FlowControlTimeout \/ SendConsecutive
        \/ Poll \/ Assemble \/ ResponseTimeout \/ NoticeCancel

-------------------------------------------------------------------------------
(* The user, the bus and the ECU.                                          *)

Cancel ==
    /\ pc # "idle" /\ ~cancelled
    /\ cancelled' = TRUE /\ disturbed' = TRUE
    /\ UNCHANGED <<hostVars, rx, inbox, ecuVars, leftover, faults>>

Fault ==
    /\ faults < MaxFaults /\ faults' = faults + 1 /\ disturbed' = TRUE
    /\ UNCHANGED <<hostVars, cancelled, leftover>>

Lose ==
    /\ \/ rx # <<>> /\ rx' = Tail(rx) /\ UNCHANGED inbox
       \/ inbox # <<>> /\ inbox' = Tail(inbox) /\ UNCHANGED rx
    /\ Fault /\ UNCHANGED ecuVars

EcuReceives ==
    /\ inbox # <<>>
    /\ LET f == Head(inbox)
       IN CASE f.type = "SF" ->
                 /\ todo = None
                 /\ todo' = Started(f) /\ asm' = None /\ out' = None
                 /\ executed' = Append(executed, [of |-> f.of, whole |-> TRUE])
                 /\ UNCHANGED overrun
            [] f.type = "FF" ->
                 /\ todo = None
                 /\ asm' = Started(f) /\ out' = None
                 /\ UNCHANGED <<todo, executed, overrun>>
            [] f.type = "CF" ->
                 LET a == [Extended(asm, f) EXCEPT !.left = @ - 1]
                     good == asm # None /\ Expected(asm, f)
                     done == good /\ a.got = a.n
                 IN /\ asm' = IF good /\ ~done THEN a ELSE None
                    /\ todo' = IF done THEN Started(a) ELSE todo
                    /\ executed' = IF done
                                   THEN Append(executed, [of |-> a.of, whole |-> a.whole])
                                   ELSE executed
                    /\ overrun' = (overrun \/ (good /\ asm.left <= 0))
                    /\ UNCHANGED out
            [] f.type = "FC" ->
                 /\ out' = IF out = None THEN None ELSE [out EXCEPT !.info = "going"]
                 /\ UNCHANGED <<asm, todo, executed, overrun>>
    /\ inbox' = Tail(inbox)
    /\ UNCHANGED <<hostVars, cancelled, rx, disturbed, leftover, faults>>

\* The ECU owes a flow control when its grant is used up.
Owes == asm # None /\ asm.left <= 0
EcuGrants(bs) ==
    /\ Owes
    /\ rx' = Append(rx, Frame("FC", asm.of, asm.svc, bs, 0, "go"))
    /\ asm' = [asm EXCEPT !.left = IF bs = 0 THEN asm.n ELSE bs]
    /\ UNCHANGED <<hostVars, cancelled, inbox, todo, out, executed, overrun,
                   disturbed, leftover, faults>>

EcuStalls ==
    /\ Owes /\ Len(rx) < MaxRx
    /\ rx' = Append(rx, Frame("FC", asm.of, asm.svc, 0, 0, "wait"))
    /\ disturbed' = TRUE
    /\ UNCHANGED <<hostVars, cancelled, inbox, ecuVars, leftover, faults>>

EcuOverflows ==
    /\ Owes
    /\ rx' = Append(rx, Frame("FC", asm.of, asm.svc, 0, 0, "overflow"))
    /\ asm' = None
    /\ Fault /\ UNCHANGED <<inbox, todo, out, executed, overrun>>

EcuPending ==
    /\ todo # None /\ todo.svc = "erase" /\ Len(rx) < MaxRx
    /\ rx' = Append(rx, Frame("SF", todo.of, todo.svc, 0, 0, "pending"))
    /\ UNCHANGED <<hostVars, cancelled, inbox, ecuVars, disturbed, leftover, faults>>

EcuAnswers(n) ==
    /\ todo # None
    /\ rx' = Append(rx, Frame(IF n = 0 THEN "SF" ELSE "FF",
                                  todo.of, todo.svc, n, 0, "positive"))
    /\ out' = IF n = 0 THEN None ELSE [todo EXCEPT !.n = n, !.info = "owed"]
    /\ todo' = None
    /\ UNCHANGED <<hostVars, cancelled, inbox, asm, executed, overrun,
                   disturbed, leftover, faults>>

EcuRefuses ==
    /\ todo # None
    /\ rx' = Append(rx, Frame("SF", todo.of, todo.svc, 0, 0, "negative"))
    /\ todo' = None
    /\ Fault /\ UNCHANGED <<inbox, asm, out, executed, overrun>>

EcuContinues ==
    /\ out # None /\ out.info = "going"
    /\ rx' = Append(rx, Frame("CF", out.of, out.svc, 0, out.got + 1, "positive"))
    /\ out' = IF out.got + 1 = out.n THEN None ELSE [out EXCEPT !.got = @ + 1]
    /\ UNCHANGED <<hostVars, cancelled, inbox, asm, todo, executed, overrun,
                   disturbed, leftover, faults>>

Environment ==
    \/ Cancel \/ Lose \/ EcuReceives \/ EcuStalls \/ EcuOverflows
    \/ EcuPending \/ EcuRefuses \/ EcuContinues
    \/ (\E bs \in BlockSizes : EcuGrants(bs)) \/ (\E n \in Cfs : EcuAnswers(n))

Next == (\E s \in Services, n \in Cfs : Start(s, n)) \/ Host \/ Environment

Spec == Init /\ [][Next]_vars

\* The calling thread keeps running and the clock reaches each deadline, which a
\* WAIT sets anew; the ECU, the bus and the user are free.
FairSpec ==
    /\ Spec /\ WF_vars(Host) /\ WF_vars(ResponseTimeout)
    /\ \A k \in 0..MaxWaits : WF_vars(waits = k /\ FlowControlTimeout)

-------------------------------------------------------------------------------
(* Properties.                                                             *)

FrameOK(f) ==
    /\ f.type \in {"SF", "FF", "CF", "FC"} /\ f.svc \in Services
    /\ f.of \in Nat /\ f.n \in Nat /\ f.pos \in Nat

TypeOK ==
    /\ pc \in {"idle", "first", "awaitFC", "sendCF", "poll", "assemble"}
    /\ call \in 0..MaxCalls /\ svc \in Services /\ cfs \in Cfs \cup {0}
    /\ attempt \in 1..Attempts /\ waits \in 0..MaxWaits
    /\ sent \in 0..cfs /\ inBlock \in 0..cfs
    /\ result.outcome \in {"none", "returned", "TRANSPORT", "UDS", "cancelled"}
    /\ \A q \in {rx, inbox} : \A i \in DOMAIN q : FrameOK(q[i])

\* An answer put together from several frames is made of one answer's frames,
\* though the first frame of a late answer may be read during the next call:
\* again only a loss can mix two.
AnswersWhole == result.outcome = "returned" => result.whole \/ faults > 0

\* A call that nothing disturbs returns the answer to this very call.
UndisturbedCallReturns ==
    result.outcome # "none" /\ ~disturbed => /\ result.outcome = "returned"
                                             /\ result.of = call

\* As long as nothing went wrong, whatever the host waits for is still to come:
\* it has not thrown away the frame it needs.
NeverWaitsInVain ==
    ~disturbed /\ pc \in {"awaitFC", "poll", "assemble"} => Unclean

\* The host sends no more consecutive frames than the ECU granted, unless a flow
\* control for an earlier first frame, of this call or another, was under way:
\* the frame does not say what it answers.
GrantsRespected == overrun => leftover

\* Every call ends, though the ECU may send WAIT or 0x78 for ever.
CallEnds == pc # "idle" ~> pc = "idle"

\* The calls keep what UdsChannel promises and As5prOta relies on.
Channel == INSTANCE UdsChannel WITH
    asked <- call, carried <- [i \in DOMAIN executed |-> executed[i].of],
    intact <- (\A i \in DOMAIN executed : executed[i].whole),
    noise <- (leftover /\ faults > 0),
    returned <- given, open <- (pc # "idle")
KeepsChannel == Channel!Spec
===============================================================================
