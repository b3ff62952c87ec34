--------------------------- MODULE LinDiag_proofs ---------------------------
(***************************************************************************)
(* What TLAPS proves of LinDiag for any number of calls, faults and frames *)
(* of a request, and any modulus of the frame number: the transport keeps  *)
(* the promises of UdsChannel, and a call that nothing disturbs returns    *)
(* its own answer.                                                         *)
(***************************************************************************)
EXTENDS LinDiag, SequenceTheorems, TLAPS

Requests == [of : Nat, svc : Services, n : Nat, got : Nat, whole : BOOLEAN]
Frames   == [type : {"SF", "FF", "CF"}, pos : Nat, sn : Nat, req : Requests]
Answers  == [of : Nat, svc : Services, info : {"positive", "pending", "negative", "bad"}]
Done     == [of : Nat, whole : BOOLEAN]

\* The request that a frame or an assembler belongs to, as it was asked.
Base(a) == [a EXCEPT !.got = 0, !.whole = TRUE]

\* A frame as the host sends it.
Sound(f) ==
    /\ f.req.of # 0 /\ Base(f.req) = f.req
    /\ f.pos <= f.req.n /\ f.sn = f.pos % SnModulus
    /\ f.type = "CF" <=> f.pos # 0

Types ==
    /\ pc \in {"idle", "send", "poll"} /\ svc \in Services
    /\ call \in Nat /\ cfs \in Nat /\ sent \in Nat /\ given \in Nat /\ faults \in Nat
    /\ cancelled \in BOOLEAN /\ disturbed \in BOOLEAN /\ leftover \in BOOLEAN
    /\ unexpected \in {"none", "TRANSPORT", "UDS"}
    /\ bus \in Seq(Frames) /\ rx \in Seq(Answers)
    /\ asm \in Requests /\ todo \in Requests /\ executed \in Seq(Done)
    /\ pc # "idle" => call # 0
    /\ pc = "idle" => sent = 0
    /\ pc = "send" => sent <= cfs
    /\ pc = "poll" => sent = cfs + 1
    /\ \A i \in 1..Len(bus) : Sound(bus[i])
    /\ asm # None => asm.of # 0 /\ asm.got < asm.n
    /\ todo # None => todo.of # 0

\* A sequence without its head.
LEMMA TailFacts ==
    ASSUME NEW S, NEW s \in Seq(S), s # <<>>
    PROVE  /\ Len(s) \in Nat \ {0} /\ Tail(s) \in Seq(S)
           /\ Len(Tail(s)) = Len(s) - 1 /\ Head(s) = s[1] /\ Head(s) \in S
           /\ \A i \in 1..Len(Tail(s)) : Tail(s)[i] = s[i + 1] /\ i + 1 \in 1..Len(s)
BY EmptySeq, HeadTailProperties, LenProperties

\* A sequence with one element more.
LEMMA AppendFacts ==
    ASSUME NEW S, NEW s \in Seq(S), NEW e \in S
    PROVE  /\ Len(s) \in Nat /\ Len(Append(s, e)) = Len(s) + 1 /\ Append(s, e) \in Seq(S)
           /\ \A i \in 1..Len(s) : Append(s, e)[i] = s[i]
           /\ Append(s, e)[Len(s) + 1] = e
BY AppendProperties, LenProperties

\* What is in a sequence.
LEMMA ElementFacts ==
    ASSUME NEW S, NEW s \in Seq(S)
    PROVE  \A i \in 1..Len(s) : s[i] \in S
BY ElementOfSeq

\* The elements of a sequence that has grown, or lost its head.
LEMMA IndexFacts ==
    \A m, n \in Nat :
        /\ m = n - 1 => \A i \in 1..m : i + 1 \in 1..n
        /\ m = n + 1 => \A i \in 1..m : i \in 1..n \/ i = n + 1
OBVIOUS

\* A request is what its fields say.
LEMMA SameRequest ==
    ASSUME NEW r \in Requests, NEW q \in Requests, r.of = q.of, r.svc = q.svc,
           r.n = q.n, r.got = q.got, r.whole = q.whole
    PROVE  r = q
BY DEF Requests

\* What was asked is kept when the assembler counts.
LEMMA BaseFacts ==
    ASSUME NEW r \in Requests
    PROVE  /\ Base(r) \in Requests /\ Base(r).got = 0 /\ Base(r).whole = TRUE
           /\ Base(r).of = r.of /\ Base(r).svc = r.svc /\ Base(r).n = r.n
BY DEF Requests, Base

\* The request of the call at hand, and its frames.
LEMMA RequestFacts ==
    ASSUME call \in Nat, svc \in Services, cfs \in Nat
    PROVE  /\ Request \in Requests /\ Base(Request) = Request
           /\ Request.of = call /\ Request.svc = svc /\ Request.n = cfs
           /\ Request.got = 0 /\ Request.whole = TRUE
           /\ None \in Requests /\ Base(None) = None
           /\ None.of = 0 /\ None.got = 0 /\ None.n = 0 /\ None.whole = TRUE
<1>1. None \in Requests
  BY DEF None, Requests, Services
<1>2. None.of = 0 /\ None.got = 0 /\ None.n = 0 /\ None.whole = TRUE
  BY DEF None
<1>d. Request = [None EXCEPT !.of = call, !.svc = svc, !.n = cfs]
  BY DEF Request
<1> HIDE DEF Request
<1>4. /\ Request \in Requests /\ Request.of = call /\ Request.svc = svc
      /\ Request.n = cfs /\ Request.got = 0 /\ Request.whole = TRUE
  <2>1. PICK r \in Requests : r = None
    BY <1>1
  <2>2. Request = [r EXCEPT !.of = call, !.svc = svc, !.n = cfs]
    BY <1>d, <2>1
  <2>3. /\ Request \in Requests /\ Request.of = call /\ Request.svc = svc
        /\ Request.n = cfs /\ Request.got = r.got /\ Request.whole = r.whole
    BY <2>2 DEF Requests
  <2> QED
    BY <1>2, <2>1, <2>3
<1>5. Base(Request) = Request /\ Base(None) = None
  BY <1>1, <1>2, <1>4, BaseFacts, SameRequest
<1> QED
  BY <1>1, <1>2, <1>4, <1>5

\* A frame that is sent is one of the call's.
LEMMA FrameFacts ==
    ASSUME Types, pc = "send", NEW k \in Nat, k <= cfs
    PROVE  /\ Frame(k) \in Frames /\ Sound(Frame(k))
           /\ Frame(k).req = Request /\ Frame(k).pos = k
<1>1. k % SnModulus \in Nat
  BY ConstantsAssumption
<1>2. Request \in Requests /\ Base(Request) = Request /\ Request.n = cfs /\ Request.of = call
  BY RequestFacts DEF Types
<1>3. Frame(k) \in Frames /\ Frame(k).req = Request /\ Frame(k).pos = k
  BY <1>1, <1>2 DEF Frame, Frames
<1>4. Frame(k).sn = k % SnModulus /\ (Frame(k).type = "CF" <=> k # 0)
  BY DEF Frame, Types
<1>5. PICK f : f = Frame(k)
  OBVIOUS
<1>6. Sound(f)
  BY <1>2, <1>3, <1>4, <1>5 DEF Sound, Types
<1> QED
  BY <1>3, <1>5, <1>6

-------------------------------------------------------------------------------
(***************************************************************************)
(* What the ECU does with a frame: nothing, or it has a request a that is  *)
(* complete and carried out, or still to be continued.                     *)
(***************************************************************************)
Grows(f, a) ==
    /\ a.of # 0 /\ Base(a) = Base(IF f.pos = 0 THEN f.req ELSE asm)
    /\ f.pos = 0 => a.got = 0 /\ a.whole = TRUE
    /\ f.pos # 0 => asm # None /\ a.got = asm.got + 1
    /\ f.pos # 0 /\ asm.whole = TRUE /\ f.req = Base(asm) /\ f.pos = asm.got + 1
          => a.whole = TRUE
    /\ f.pos # 0 /\ asm.whole # TRUE => a.whole # TRUE
    /\ f.pos # 0 /\ a.whole = TRUE => f.req = Base(asm) /\ f.pos = asm.got + 1

Takes(a) ==
    \/ /\ a.got = a.n /\ asm' = None /\ todo' = a
       /\ executed' = Append(executed, [of |-> a.of, whole |-> a.whole])
    \/ a.got # a.n /\ asm' = a /\ todo' = todo /\ executed' = executed

\* A frame that is not the next one of what is assembled is dropped.
Drops(f) == f.pos # 0 /\ ~Fits(f) /\ UNCHANGED ecuVars

\* A frame reaches the ECU.
LEMMA Received ==
    ASSUME Types, EcuReceives
    PROVE  \E f \in Frames :
              /\ f = bus[1] /\ Sound(f) /\ bus # <<>> /\ bus' = Tail(bus) /\ todo = None
              /\ \/ Drops(f)
                 \/ \E a \in Requests : Grows(f, a) /\ a.got <= a.n /\ Takes(a)
<1>1. /\ bus # <<>> /\ todo = None /\ bus' = Tail(bus) /\ bus \in Seq(Frames)
      /\ asm \in Requests /\ Len(bus) \in Nat \ {0} /\ 1 \in 1..Len(bus)
  BY TailFacts DEF EcuReceives, Types
<1>2. PICK f \in Frames : f = Head(bus)
  BY <1>1, TailFacts
<1>3. f = bus[1] /\ Sound(f)
  BY <1>1, <1>2, TailFacts DEF Types
<1>4. /\ f.req \in Requests /\ f.pos \in Nat /\ f.type \in {"SF", "FF", "CF"}
      /\ (Resets(f) <=> f.pos = 0) /\ (f.type = "CF" <=> f.pos # 0)
      /\ f.req.of # 0 /\ Base(f.req) = f.req
  BY <1>2, <1>3 DEF Frames, Sound, Resets
<1>5. f.req.got = 0 /\ f.req.whole = TRUE
  BY <1>4, BaseFacts
<1>6. \/ (f.type # "CF" \/ Fits(f)) /\ Takes(Assembled(f)) /\ Assembled(f) # None
      \/ /\ ~((f.type # "CF" \/ Fits(f)) /\ Assembled(f) # None)
         /\ asm' = Assembled(f) /\ UNCHANGED <<todo, executed>>
  BY <1>2 DEF EcuReceives, Takes
<1>7. None \in Requests /\ None.of = 0
  BY RequestFacts DEF Types
<1>8. CASE f.pos = 0
  <2>1. Assembled(f) = f.req /\ f.req # None
    BY <1>4, <1>7, <1>8 DEF Assembled
  <2>2. Takes(f.req)
    BY <1>4, <1>6, <1>8, <2>1
  <2>3. Grows(f, f.req)
    BY <1>4, <1>5, <1>8 DEF Grows
  <2>4. f.req.got <= f.req.n
    BY <1>4, <1>5 DEF Requests
  <2> QED
    BY <1>1, <1>3, <1>4, <2>2, <2>3, <2>4
<1>9. CASE f.pos # 0 /\ ~Fits(f)
  <2>1. Assembled(f) = asm
    BY <1>4, <1>9 DEF Assembled
  <2>2. Drops(f)
    BY <1>4, <1>6, <1>9, <2>1 DEF Drops, ecuVars
  <2> QED
    BY <1>1, <1>3, <2>2
<1>10. CASE f.pos # 0 /\ Fits(f)
  <2> DEFINE b == asm.whole /\ f.req = Base(asm) /\ f.pos = asm.got + 1
  <2>1. PICK a : a = Extended(f)
    OBVIOUS
  <2>2. asm # None /\ asm.got \in Nat /\ asm.n \in Nat /\ asm.of # 0 /\ asm.got < asm.n
    BY <1>1, <1>10 DEF Fits, Types, Requests
  <2>3. /\ a \in Requests /\ a.of = asm.of /\ a.svc = asm.svc /\ a.n = asm.n
        /\ a.got = asm.got + 1 /\ (a.whole <=> b)
    <3>1. PICK w \in BOOLEAN : w = b
      OBVIOUS
    <3>2. Extended(f) = [asm EXCEPT !.got = asm.got + 1, !.whole = b]
      BY DEF Extended, Base
    <3> HIDE DEF b
    <3>3. a = [asm EXCEPT !.got = asm.got + 1, !.whole = w]
      BY <2>1, <3>1, <3>2
    <3>4. asm.got + 1 \in Nat
      BY <2>2
    <3>5. /\ a \in Requests /\ a.of = asm.of /\ a.svc = asm.svc /\ a.n = asm.n
          /\ a.got = asm.got + 1 /\ (a.whole <=> w)
      BY <1>1, <3>3, <3>4 DEF Requests
    <3> QED
      BY <3>1, <3>5
  <2>4. a.whole \in BOOLEAN /\ asm.whole \in BOOLEAN
    BY <1>1, <2>3 DEF Requests
  <2>5. Base(a) = Base(asm)
    <3>1. /\ Base(a) \in Requests /\ Base(a).got = 0 /\ Base(a).whole = TRUE
          /\ Base(a).of = a.of /\ Base(a).svc = a.svc /\ Base(a).n = a.n
      BY <2>3, BaseFacts
    <3>2. /\ Base(asm) \in Requests /\ Base(asm).got = 0 /\ Base(asm).whole = TRUE
          /\ Base(asm).of = asm.of /\ Base(asm).svc = asm.svc /\ Base(asm).n = asm.n
      BY <1>1, BaseFacts
    <3> QED
      BY <2>3, <3>1, <3>2, SameRequest
  <2>6. Grows(f, a)
    BY <1>10, <2>2, <2>3, <2>4, <2>5 DEF Grows
  <2>7. Assembled(f) = a /\ a # None
    <3>1. a.of # 0
      BY <2>2, <2>3
    <3> QED
      BY <1>4, <1>7, <1>10, <2>1, <3>1 DEF Assembled
  <2>8. Takes(a)
    BY <1>6, <1>10, <2>7
  <2>9. a.got <= a.n
    BY <2>2, <2>3
  <2> QED
    BY <1>1, <1>3, <2>3, <2>6, <2>8, <2>9
<1> QED
  BY <1>4, <1>8, <1>9, <1>10

-------------------------------------------------------------------------------
(* The types.                                                              *)

\* A request ends with an answer that was read, or without one.
LEMMA EndTypes ==
    ASSUME Types, pc # "idle", NEW outcome, NEW of \in Nat, End(outcome, of)
    PROVE  /\ pc' = "idle" /\ sent' = 0 /\ given' \in Nat /\ unexpected' = "none"
           /\ call' = call /\ svc' = svc /\ cfs' = cfs
BY DEF End, Types

\* What TakeFrame does with the answer it takes.
LEMMA Taken ==
    ASSUME Types, TakeFrame
    PROVE  \E a \in Answers :
              /\ a = rx[1] /\ rx # <<>> /\ rx' = Tail(rx) /\ pc = "poll" /\ ~cancelled
              /\ UNCHANGED <<cancelled, bus, ecuVars, disturbed, leftover, faults>>
              /\ \/ /\ UNCHANGED <<pc, call, svc, cfs, sent, result, given>>
                    /\ unexpected' \in {unexpected, "TRANSPORT", "UDS"}
                 \/ \E o \in {"TRANSPORT", "UDS"} : End(o, call)
                 \/ a.info = "positive" /\ End("returned", a.of)
<1>1. PICK a \in Answers : a = Head(rx) /\ a = rx[1]
  BY TailFacts DEF TakeFrame, Types
<1>2. a.info \in {"positive", "pending", "negative", "bad"}
  BY DEF Answers
<1>3. \/ a.info = "bad" /\ (Ignored("TRANSPORT") \/ End("TRANSPORT", call))
      \/ a.info = "pending" /\ (UNCHANGED hostVars \/ End("UDS", call))
      \/ a.info = "negative" /\ End("UDS", call)
      \/ a.info = "positive" /\ (Ignored("UDS") \/ End("returned", a.of))
  BY <1>1, <1>2 DEF TakeFrame
<1> QED
  BY <1>1, <1>3 DEF TakeFrame, Ignored, hostVars

\* The parts of the types that concern what is under way.
WireTypes ==
    /\ bus \in Seq(Frames) /\ rx \in Seq(Answers)
    /\ asm \in Requests /\ todo \in Requests /\ executed \in Seq(Done)
    /\ \A i \in 1..Len(bus) : Sound(bus[i])
    /\ asm # None => asm.of # 0 /\ asm.got < asm.n
    /\ todo # None => todo.of # 0

HostTypes ==
    /\ pc \in {"idle", "send", "poll"} /\ svc \in Services
    /\ call \in Nat /\ cfs \in Nat /\ sent \in Nat /\ given \in Nat /\ faults \in Nat
    /\ cancelled \in BOOLEAN /\ disturbed \in BOOLEAN /\ leftover \in BOOLEAN
    /\ unexpected \in {"none", "TRANSPORT", "UDS"}
    /\ pc # "idle" => call # 0
    /\ pc = "idle" => sent = 0
    /\ pc = "send" => sent <= cfs
    /\ pc = "poll" => sent = cfs + 1

\* The host's steps, the clock's and the user's keep the host's types.
LEMMA HostStepTypes ==
    ASSUME Types, Next
    PROVE  HostTypes'
<1>1. CASE \E s \in Services, n \in Cfs : Start(s, n)
  <2>1. PICK s \in Services, n \in Cfs : Start(s, n)
    BY <1>1
  <2>2. n \in Nat /\ call + 1 \in Nat /\ call + 1 # 0 /\ 0 <= n
    BY ConstantsAssumption DEF Types
  <2> QED
    BY <2>1, <2>2 DEF Start, Types, HostTypes, Underway
<1>2. CASE SendFrame
  <2>1. /\ sent + 1 \in Nat /\ (sent = cfs => sent + 1 = cfs + 1)
        /\ (sent # cfs /\ sent <= cfs => sent + 1 <= cfs)
    BY DEF Types
  <2> QED
    BY <1>2, <2>1 DEF SendFrame, Types, HostTypes
<1>3. CASE TakeFrame
  <2>1. PICK a \in Answers :
              /\ pc = "poll"
              /\ UNCHANGED <<cancelled, bus, ecuVars, disturbed, leftover, faults>>
              /\ \/ /\ UNCHANGED <<pc, call, svc, cfs, sent, result, given>>
                    /\ unexpected' \in {unexpected, "TRANSPORT", "UDS"}
                 \/ \E o \in {"TRANSPORT", "UDS"} : End(o, call)
                 \/ a.info = "positive" /\ End("returned", a.of)
    BY <1>3, Taken
  <2>2. a.of \in Nat /\ call \in Nat
    BY DEF Answers, Types
  <2> QED
    BY <2>1, <2>2 DEF Types, HostTypes, End
<1>4. CASE ResponseTimeout \/ NoticeCancel
  <2>1. /\ pc # "idle" /\ \E o : End(o, call)
        /\ UNCHANGED <<cancelled, leftover, faults>> /\ disturbed' \in BOOLEAN
    BY <1>4 DEF ResponseTimeout, NoticeCancel, Types
  <2>2. /\ pc' = "idle" /\ sent' = 0 /\ given' \in Nat /\ unexpected' = "none"
        /\ UNCHANGED <<call, svc, cfs>>
    BY <2>1, EndTypes DEF Types
  <2> QED
    BY <2>1, <2>2 DEF Types, HostTypes
<1>5. CASE Cancel \/ EcuReceives \/ EcuAnswers \/ EcuPending
  BY <1>5 DEF Cancel, EcuReceives, EcuAnswers, EcuPending, hostVars, Types, HostTypes
<1>6. CASE EcuRefuses \/ Lose \/ Garble
  <2>1. Fault
    BY <1>6 DEF EcuRefuses, Lose, Garble
  <2> QED
    BY <2>1 DEF Fault, hostVars, Types, HostTypes
<1> QED
  BY <1>1, <1>2, <1>3, <1>4, <1>5, <1>6 DEF Next, Host, Environment

\* A garbled answer is an answer.
LEMMA GarbledType ==
    ASSUME rx \in Seq(Answers), rx # <<>>
    PROVE  [rx EXCEPT ![1].info = "bad"] \in Seq(Answers)
<1>1. PICK a \in Answers : a = rx[1]
  BY TailFacts
<1>2. [a EXCEPT !.info = "bad"] \in Answers
  BY DEF Answers
<1>3. [rx EXCEPT ![1] = [a EXCEPT !.info = "bad"]] \in Seq(Answers)
  BY <1>2
<1> QED
  BY <1>1, <1>3

\* Every step keeps the types of what is under way.
LEMMA WireStepTypes ==
    ASSUME Types, Next
    PROVE  WireTypes'
<1> USE DEF Types, WireTypes
<1>0. None \in Requests /\ None.of = 0
  BY RequestFacts
<1>1. CASE \/ \E s \in Services, n \in Cfs : Start(s, n)
           \/ ResponseTimeout \/ NoticeCancel \/ Cancel
  BY <1>1 DEF Start, ResponseTimeout, NoticeCancel, Cancel, ecuVars
<1>2. CASE SendFrame
  <2>1. Frame(sent) \in Frames /\ Sound(Frame(sent))
    BY <1>2, FrameFacts DEF SendFrame
  <2>2. /\ bus' = Append(bus, Frame(sent)) /\ bus' \in Seq(Frames) /\ Len(bus) \in Nat
        /\ Len(bus') = Len(bus) + 1 /\ bus'[Len(bus) + 1] = Frame(sent)
        /\ \A i \in 1..Len(bus) : bus'[i] = bus[i]
    BY <1>2, <2>1, AppendFacts DEF SendFrame
  <2>3. \A i \in 1..Len(bus') : i \in 1..Len(bus) \/ i = Len(bus) + 1
    BY <2>2, IndexFacts
  <2>4. \A i \in 1..Len(bus') : Sound(bus'[i])
    BY <2>1, <2>2, <2>3
  <2> QED
    BY <1>2, <2>2, <2>4 DEF SendFrame, ecuVars, Sound
<1>3. CASE TakeFrame
  BY <1>3, TailFacts DEF TakeFrame, ecuVars
<1>4. ASSUME bus # <<>>, bus' = Tail(bus)
      PROVE  bus' \in Seq(Frames) /\ (\A i \in 1..Len(bus) : Sound(bus[i]))'
  <2>1. \A i \in 1..Len(bus') : bus'[i] = bus[i + 1] /\ i + 1 \in 1..Len(bus)
    BY <1>4, TailFacts
  <2>2. \A i \in 1..Len(bus') : Sound(bus'[i])
    BY <2>1
  <2> QED
    BY <1>4, <2>2, TailFacts DEF Sound
<1>5. CASE EcuReceives
  <2>1. PICK f \in Frames :
              /\ bus # <<>> /\ bus' = Tail(bus)
              /\ \/ Drops(f)
                 \/ \E a \in Requests : Grows(f, a) /\ a.got <= a.n /\ Takes(a)
    BY <1>5, Received
  <2>2. rx' = rx
    BY <1>5 DEF EcuReceives
  <2>3. CASE Drops(f)
    BY <1>4, <2>1, <2>2, <2>3 DEF Drops, ecuVars
  <2>4. CASE \E a \in Requests : Grows(f, a) /\ a.got <= a.n /\ Takes(a)
    <3>1. PICK a \in Requests : Grows(f, a) /\ a.got <= a.n /\ Takes(a)
      BY <2>4
    <3>2. a.of # 0 /\ a.got \in Nat /\ a.n \in Nat /\ (a.got # a.n => a.got < a.n)
      BY <3>1 DEF Grows, Requests
    <3>3. [of |-> a.of, whole |-> a.whole] \in Done
      BY DEF Requests, Done
    <3>4. executed' \in Seq(Done)
      BY <3>1, <3>3, AppendFacts DEF Takes
    <3>5. /\ asm' \in Requests /\ todo' \in Requests
          /\ asm' # None => asm'.of # 0 /\ asm'.got < asm'.n
          /\ todo' # None => todo'.of # 0
      BY <1>0, <3>1, <3>2 DEF Takes
    <3> QED
      BY <1>4, <2>1, <2>2, <3>4, <3>5
  <2> QED
    BY <2>1, <2>3, <2>4
<1>6. CASE EcuAnswers \/ EcuPending \/ EcuRefuses
  <2>1. PICK info \in {"positive", "pending", "negative"} : Says(info)
    BY <1>6 DEF EcuAnswers, EcuPending, EcuRefuses
  <2>2. [of |-> todo.of, svc |-> todo.svc, info |-> info] \in Answers
    BY DEF Requests, Answers
  <2>3. rx' \in Seq(Answers)
    BY <2>1, <2>2, AppendFacts DEF Says
  <2>4. bus' = bus /\ asm' = asm /\ executed' = executed /\ todo' \in {todo, None}
    BY <1>6 DEF EcuAnswers, EcuPending, EcuRefuses, ecuVars
  <2> QED
    BY <1>0, <2>3, <2>4 DEF Sound
<1>7. CASE Lose
  BY <1>4, <1>7, TailFacts DEF Lose, ecuVars, Sound
<1>8. CASE Garble
  BY <1>8, GarbledType DEF Garble, ecuVars, Sound
<1> QED
  BY <1>1, <1>2, <1>3, <1>5, <1>6, <1>7, <1>8 DEF Next, Host, Environment

\* The types hold throughout.
LEMMA TypesStep ==
    ASSUME Types, [Next]_vars
    PROVE  Types'
<1>1. CASE Next
  BY <1>1, HostStepTypes, WireStepTypes DEF Types, HostTypes, WireTypes
<1>2. CASE UNCHANGED vars
  BY <1>2 DEF Types, vars, hostVars, ecuVars, Sound
<1> QED
  BY <1>1, <1>2

\* They hold initially.
LEMMA TypesInitially == Init => Types
<1> SUFFICES ASSUME Init PROVE Types
  OBVIOUS
<1>1. None \in Requests
  BY RequestFacts DEF Init, Services
<1>2. Len(bus) = 0 /\ bus \in Seq(Frames) /\ rx \in Seq(Answers) /\ executed \in Seq(Done)
  BY EmptySeq DEF Init
<1>3. svc \in Services /\ \A i : i \notin 1..Len(bus)
  BY <1>2 DEF Init, Services
<1> QED
  BY <1>1, <1>2, <1>3 DEF Init, Types

\* Every step keeps the type invariant, too.
LEMMA TypeOKStep ==
    ASSUME Types, Types', TypeOK, Next
    PROVE  TypeOK'
<1>1. asm'.got \in 0..asm'.n
  <2>1. asm' \in Requests /\ (asm' # None => asm'.got < asm'.n)
    BY DEF Types, None
  <2>2. None.got = 0 /\ None.n = 0
    BY RequestFacts DEF Types
  <2>3. \A r \in Requests : (r.got < r.n \/ (r.got = 0 /\ r.n = 0)) => r.got \in 0..r.n
    BY DEF Requests
  <2> QED
    BY <2>1, <2>2, <2>3
<1>2. /\ pc' \in {"idle", "send", "poll"} /\ svc' \in Services
      /\ unexpected' \in {"none", "TRANSPORT", "UDS"}
      /\ sent' \in Nat /\ cfs' \in Nat
      /\ pc' = "idle" => sent' = 0
      /\ pc' = "send" => sent' <= cfs'
      /\ pc' = "poll" => sent' = cfs' + 1
  BY DEF Types
<1>3. sent' \in 0..(cfs' + 1)
  <2>1. \A s, c \in Nat : s = 0 \/ s <= c \/ s = c + 1 => s \in 0..(c + 1)
    OBVIOUS
  <2>2. sent' = 0 \/ sent' <= cfs' \/ sent' = cfs' + 1
    BY <1>2
  <2> QED
    BY <1>2, <2>1, <2>2
<1> DEFINE Outcomes == {"none", "returned", "TRANSPORT", "UDS", "cancelled"}
<1>4. call' \in 0..MaxCalls /\ cfs' \in Cfs \cup {0} /\ result'.outcome \in Outcomes
  <2>1. /\ call \in 0..MaxCalls /\ cfs \in Cfs \cup {0} /\ result.outcome \in Outcomes
        /\ call \in Nat /\ MaxCalls \in Nat /\ unexpected \in {"none", "TRANSPORT", "UDS"}
    BY ConstantsAssumption DEF TypeOK, Types
  <2>2. CASE \E s \in Services, n \in Cfs : Start(s, n)
    BY <2>1, <2>2 DEF Start
  <2>3. CASE TakeFrame
    BY <2>1, <2>3, Taken DEF End
  <2>4. CASE ResponseTimeout \/ NoticeCancel
    BY <2>1, <2>4 DEF ResponseTimeout, NoticeCancel, End
  <2>5. CASE \/ SendFrame \/ Cancel \/ EcuReceives \/ EcuAnswers \/ EcuPending
             \/ EcuRefuses \/ Lose \/ Garble
    BY <2>1, <2>5 DEF SendFrame, Cancel, EcuReceives, EcuAnswers, EcuPending, EcuRefuses, Lose,
                      Garble, Fault, hostVars
  <2> QED
    BY <2>2, <2>3, <2>4, <2>5 DEF Next, Host, Environment
<1> QED
  BY <1>1, <1>2, <1>3, <1>4 DEF TypeOK

\* The type invariant: no call sends a frame beyond the last of its request, and
\* the assembler never has more of a request than belongs to it.
THEOREM TypeCorrect == Spec => []TypeOK
<1>1. Init => Types /\ TypeOK
  <2> SUFFICES ASSUME Init PROVE Types /\ TypeOK
    OBVIOUS
  <2>1. None.got = 0 /\ None.n = 0
    BY DEF None
  <2> QED
    BY <2>1, TypesInitially, ConstantsAssumption DEF Init, TypeOK, Services
<1>2. Types /\ TypeOK /\ [Next]_vars => (Types /\ TypeOK)'
  <2> SUFFICES ASSUME Types, TypeOK, [Next]_vars
               PROVE  (Types /\ TypeOK)'
    OBVIOUS
  <2>1. Types'
    BY TypesStep
  <2>2. CASE Next
    BY <2>1, <2>2, TypeOKStep
  <2>3. CASE UNCHANGED vars
    BY <2>1, <2>3 DEF vars, hostVars, ecuVars, TypeOK
  <2> QED
    BY <2>1, <2>2, <2>3
<1> QED
  BY <1>1, <1>2, PTL DEF Spec

-------------------------------------------------------------------------------
(***************************************************************************)
(* The order of requests and answers.  The calls whose requests are on the *)
(* bus rise, above the one in the assembler and the one carried out last;  *)
(* the calls whose answers are ready rise, above the one whose answer was  *)
(* returned last.                                                          *)
(***************************************************************************)

\* The numbers n[1] to n[l] rise from above lo up to hi; a zero is no number.
Rising(n, l, lo, hi) ==
    /\ \A i \in 1..l : n[i] # 0 => lo < n[i] /\ n[i] <= hi
    /\ \A i, j \in 1..l : i < j /\ n[i] # 0 /\ n[j] # 0 => n[i] < n[j]

Last == IF executed = <<>> THEN 0 ELSE executed[Len(executed)].of
Floor == IF asm = None THEN Last ELSE asm.of
Top == IF pc = "send" /\ sent = 0 THEN call - 1 ELSE call
OnBus == [i \in 1..Len(bus) |-> IF bus[i].pos = 0 THEN bus[i].req.of ELSE 0]

RequestsRise ==
    /\ asm # None => Last < asm.of
    /\ Floor <= Top
    /\ Rising(OnBus, Len(bus), Floor, Top)

IsCarriedOut(c) == \E i \in 1..Len(executed) : executed[i].of = c
Ceiling == IF todo = None THEN Last ELSE Last - 1
Ready == [i \in 1..Len(rx) |-> IF rx[i].info = "positive" THEN rx[i].of ELSE 0]

AnswersRise ==
    /\ todo # None => todo.of = Last /\ executed # <<>>
    /\ given <= Ceiling
    /\ Rising(Ready, Len(rx), given, Ceiling)
    /\ \A i \in 1..Len(rx) :
          rx[i].info = "positive" => rx[i].of # 0 /\ IsCarriedOut(rx[i].of)

OrderOK == RequestsRise /\ AnswersRise

\* Rising numbers, without the first.
LEMMA RisingTail ==
    ASSUME NEW n, NEW m, NEW l \in Nat \ {0}, NEW k \in Nat, k = l - 1,
           NEW lo \in Nat, NEW hi \in Nat, Rising(n, l, lo, hi),
           \A i \in 1..k : m[i] = n[i + 1]
    PROVE  /\ Rising(m, k, lo, hi)
           /\ n[1] # 0 => lo < n[1] /\ n[1] <= hi /\ Rising(m, k, n[1], hi)
<1>1. /\ 1 \in 1..l /\ \A i \in 1..k : i + 1 \in 1..l /\ 1 < i + 1
      /\ \A i, j \in 1..k : i < j => i + 1 < j + 1
  OBVIOUS
<1> QED
  BY <1>1 DEF Rising

\* With one more at the end.
LEMMA RisingAppend ==
    ASSUME NEW n, NEW m, NEW l \in Nat, NEW k \in Nat, k = l + 1,
           NEW lo \in Nat, NEW hi \in Nat, NEW top \in Nat, lo <= hi, hi <= top,
           Rising(n, l, lo, hi), \A i \in 1..l : m[i] = n[i] /\ n[i] \in Nat,
           m[k] \in Nat, m[k] = 0 \/ (m[k] > hi /\ m[k] <= top)
    PROVE  Rising(m, k, lo, top)
<1>1. \A i \in 1..k : i \in 1..l \/ i = k
  OBVIOUS
<1>2. \A i \in 1..l : ~(k < i)
  OBVIOUS
<1>3. ASSUME NEW i \in 1..k, m[i] # 0
      PROVE  lo < m[i] /\ m[i] <= top
  <2>1. CASE i = k
    BY <1>3, <2>1
  <2>2. CASE i \in 1..l
    BY <1>3, <2>2 DEF Rising
  <2> QED
    BY <1>1, <2>1, <2>2
<1>4. ASSUME NEW i \in 1..k, NEW j \in 1..k, i < j, m[i] # 0, m[j] # 0
      PROVE  m[i] < m[j]
  <2>1. i \in 1..l
    BY <1>1, <1>4
  <2>2. CASE j \in 1..l
    BY <1>4, <2>1, <2>2 DEF Rising
  <2>3. CASE j = k
    <3>1. m[i] <= hi /\ m[i] \in Nat
      BY <1>4, <2>1 DEF Rising
    <3> QED
      BY <1>4, <2>3, <3>1
  <2> QED
    BY <1>1, <2>2, <2>3
<1> QED
  BY <1>3, <1>4 DEF Rising

\* The call carried out last, and the bounds of what rises.
LEMMA BoundTypes ==
    ASSUME Types
    PROVE  /\ Last \in Nat /\ Floor \in Nat /\ Top \in Nat
           /\ (todo = None \/ Last # 0) => Ceiling \in Nat
           /\ \A i \in 1..Len(bus) : OnBus[i] \in Nat
           /\ \A i \in 1..Len(rx) : Ready[i] \in Nat
<1>1. executed # <<>> => Len(executed) \in 1..Len(executed)
  BY EmptySeq DEF Types
<1>2. Last \in Nat
  <2>1. executed # <<>> => executed[Len(executed)] \in Done
    BY <1>1, ElementFacts DEF Types
  <2>2. \A d \in Done : d.of \in Nat
    BY DEF Done
  <2> QED
    BY <2>1, <2>2 DEF Last
<1>3. Floor \in Nat
  BY <1>2 DEF Floor, Types, Requests
<1>4. Top \in Nat
  BY DEF Top, Types
<1>5. (todo = None \/ Last # 0) => Ceiling \in Nat
  BY <1>2 DEF Ceiling
<1>6. \A i \in 1..Len(bus) : OnBus[i] \in Nat
  <2>1. \A f \in Frames : f.req.of \in Nat
    BY DEF Frames, Requests
  <2>2. \A i \in 1..Len(bus) : bus[i] \in Frames
    BY ElementFacts DEF Types
  <2> QED
    BY <2>1, <2>2 DEF OnBus
<1>7. \A i \in 1..Len(rx) : Ready[i] \in Nat
  <2>1. \A a \in Answers : a.of \in Nat
    BY DEF Answers
  <2>2. \A i \in 1..Len(rx) : rx[i] \in Answers
    BY ElementFacts DEF Types
  <2> QED
    BY <2>1, <2>2 DEF Ready
<1> QED
  BY <1>2, <1>3, <1>4, <1>5, <1>6, <1>7

\* The call whose request is carried out next.
LEMMA LastMoves ==
    ASSUME Types, NEW a \in Requests,
           executed' = Append(executed, [of |-> a.of, whole |-> a.whole])
    PROVE  /\ Last' = a.of /\ executed' # <<>> /\ IsCarriedOut(a.of)'
           /\ \A c : IsCarriedOut(c) => IsCarriedOut(c)'
<1>1. PICK d \in Done : d = [of |-> a.of, whole |-> a.whole]
  BY DEF Requests, Done
<1>2. /\ Len(executed) \in Nat /\ Len(executed') = Len(executed) + 1
      /\ executed'[Len(executed) + 1] = d /\ d.of = a.of
      /\ \A i \in 1..Len(executed) : executed'[i] = executed[i]
  BY <1>1, AppendFacts DEF Types
<1>3. executed' # <<>>
  BY <1>2, EmptySeq
<1>4. /\ Len(executed') \in 1..Len(executed')
      /\ \A i \in 1..Len(executed) : i \in 1..Len(executed')
  BY <1>2
<1> QED
  BY <1>2, <1>3, <1>4 DEF Last, IsCarriedOut

\* Below a higher bound.
LEMMA RisingHigher ==
    ASSUME NEW n, NEW l \in Nat, NEW lo, NEW hi \in Nat, NEW top \in Nat, hi <= top,
           Rising(n, l, lo, hi), \A i \in 1..l : n[i] \in Nat
    PROVE  Rising(n, l, lo, top)
BY DEF Rising

\* A frame leaves the bus.
LEMMA BusShrinks ==
    ASSUME Types, Types', Rising(OnBus, Len(bus), Floor, Top), bus # <<>>, bus' = Tail(bus)
    PROVE  /\ Rising(OnBus', Len(bus'), Floor, Top)
           /\ bus[1].pos = 0 => /\ Floor < bus[1].req.of /\ bus[1].req.of <= Top
                                /\ Rising(OnBus', Len(bus'), bus[1].req.of, Top)
<1>1. /\ Len(bus) \in Nat \ {0} /\ Len(bus') \in Nat /\ Len(bus') = Len(bus) - 1
      /\ \A i \in 1..Len(bus') : bus'[i] = bus[i + 1] /\ i + 1 \in 1..Len(bus)
      /\ 1 \in 1..Len(bus)
  BY TailFacts DEF Types
<1>2. \A i \in 1..Len(bus') : OnBus'[i] = OnBus[i + 1]
  BY <1>1 DEF OnBus
<1>3. bus[1].pos = 0 => OnBus[1] = bus[1].req.of /\ bus[1].req.of # 0
  BY <1>1 DEF OnBus, Types, Sound
<1>4. /\ Rising(OnBus', Len(bus'), Floor, Top)
      /\ OnBus[1] # 0 => /\ Floor < OnBus[1] /\ OnBus[1] <= Top
                         /\ Rising(OnBus', Len(bus'), OnBus[1], Top)
  BY <1>1, <1>2, BoundTypes, RisingTail
<1> QED
  BY <1>3, <1>4

\* A request of the call at hand goes out behind all others.
LEMMA SendRises ==
    ASSUME Types, Types', RequestsRise, SendFrame
    PROVE  RequestsRise'
<1>1. /\ bus' = Append(bus, Frame(sent)) /\ UNCHANGED ecuVars /\ pc = "send"
      /\ sent' = sent + 1 /\ call' = call /\ sent \in Nat
  BY DEF SendFrame, Types
<1>2. /\ Frame(sent) \in Frames /\ Frame(sent).pos = sent /\ Frame(sent).req.of = call
  BY <1>1, FrameFacts, RequestFacts DEF Types
<1>3. /\ Len(bus) \in Nat /\ Len(bus') = Len(bus) + 1 /\ bus'[Len(bus) + 1] = Frame(sent)
      /\ \A i \in 1..Len(bus) : bus'[i] = bus[i]
  BY <1>1, <1>2, AppendFacts DEF Types
<1>4. Floor' = Floor /\ Last' = Last /\ asm' = asm
  BY <1>1 DEF Floor, Last, ecuVars
<1>5. /\ Top' = call /\ (sent = 0 => Top = call - 1) /\ (sent # 0 => Top = call)
      /\ call \in Nat /\ call # 0
  BY <1>1 DEF Top, Types
<1>6. \A i \in 1..Len(bus) : OnBus'[i] = OnBus[i] /\ i \in 1..Len(bus')
  BY <1>3 DEF OnBus
<1>7. OnBus'[Len(bus')] = IF sent = 0 THEN call ELSE 0
  <2>1. Len(bus') \in 1..Len(bus')
    BY <1>3
  <2> QED
    BY <1>2, <1>3, <2>1 DEF OnBus
<1>8. Floor <= Top /\ Rising(OnBus, Len(bus), Floor, Top) /\ (asm # None => Last < asm.of)
  BY DEF RequestsRise
<1> DEFINE m == OnBus'[Len(bus')]
           hi == Top
<1>9. /\ hi \in Nat /\ Top' \in Nat /\ hi <= Top' /\ Floor \in Nat
      /\ m \in Nat /\ (m = 0 \/ (m > hi /\ m <= Top'))
  BY <1>5, <1>7, BoundTypes
<1>10. Len(bus') \in Nat /\ \A i \in 1..Len(bus) : OnBus[i] \in Nat
  BY <1>3, BoundTypes
<1>11. Rising(OnBus', Len(bus'), Floor, Top')
  BY <1>3, <1>6, <1>8, <1>9, <1>10, RisingAppend
<1>12. Floor <= Top'
  <2>1. \A x, y, z \in Nat : x <= y /\ y <= z => x <= z
    OBVIOUS
  <2> QED
    BY <1>8, <1>9, <2>1
<1> QED
  BY <1>4, <1>8, <1>11, <1>12 DEF RequestsRise

\* What the ECU assembles or carries out is the lowest of them.
LEMMA ReceiveRises ==
    ASSUME Types, Types', RequestsRise, EcuReceives
    PROVE  /\ RequestsRise'
           /\ \/ UNCHANGED <<todo, executed>>
              \/ \E a \in Requests :
                    /\ Last < a.of /\ a.of <= call /\ todo' = a /\ todo = None
                    /\ executed' = Append(executed, [of |-> a.of, whole |-> a.whole])
<1>1. PICK f \in Frames :
              /\ f = bus[1] /\ bus # <<>> /\ bus' = Tail(bus) /\ todo = None
              /\ \/ Drops(f)
                 \/ \E a \in Requests : Grows(f, a) /\ a.got <= a.n /\ Takes(a)
  BY Received
<1>2. /\ asm # None => Last < asm.of
      /\ Floor <= Top
      /\ Rising(OnBus, Len(bus), Floor, Top)
  BY DEF RequestsRise
<1>3. /\ Rising(OnBus', Len(bus'), Floor, Top)
      /\ f.pos = 0 => /\ Floor < f.req.of /\ f.req.of <= Top
                      /\ Rising(OnBus', Len(bus'), f.req.of, Top)
  BY <1>1, <1>2, BusShrinks
<1>4. Top' = Top /\ Top <= call /\ Top \in Nat /\ Floor \in Nat /\ Last \in Nat /\ call \in Nat
  <2>1. Top' = Top
    BY DEF EcuReceives, hostVars, Top
  <2>2. Top <= call
    BY DEF Top, Types
  <2> QED
    BY <2>1, <2>2, BoundTypes DEF Types
<1>5. CASE Drops(f)
  <2>1. Floor' = Floor /\ Last' = Last /\ asm' = asm /\ todo' = todo /\ executed' = executed
    BY <1>5 DEF Drops, ecuVars, Floor, Last
  <2> QED
    BY <1>2, <1>3, <1>4, <2>1 DEF RequestsRise
<1>6. CASE \E a \in Requests : Grows(f, a) /\ a.got <= a.n /\ Takes(a)
  <2>1. PICK a \in Requests : Grows(f, a) /\ Takes(a)
    BY <1>6
  <2>2. Last < a.of /\ a.of <= Top /\ Rising(OnBus', Len(bus'), a.of, Top) /\ a.of \in Nat
    <3>1. f.req \in Requests /\ asm \in Requests /\ a.of \in Nat
      BY DEF Frames, Types, Requests
    <3>2. a.of = IF f.pos = 0 THEN f.req.of ELSE asm.of
      <4>1. PICK r \in Requests : r = IF f.pos = 0 THEN f.req ELSE asm
        BY <3>1
      <4>2. Base(a) = Base(r)
        BY <2>1, <4>1 DEF Grows
      <4>3. Base(a).of = a.of /\ Base(r).of = r.of
        BY BaseFacts
      <4> QED
        BY <4>1, <4>2, <4>3
    <3>3. f.pos # 0 => asm # None
      BY <2>1 DEF Grows
    <3>4. CASE f.pos = 0
      <4>1. Last <= Floor
        BY <1>2, <1>4, <3>1 DEF Floor, Requests
      <4>2. \A x, y, z \in Nat : x <= y /\ y < z => x < z
        OBVIOUS
      <4> QED
        BY <1>3, <1>4, <3>1, <3>2, <3>4, <4>1, <4>2
    <3>5. CASE f.pos # 0
      <4>1. Floor = a.of
        BY <3>2, <3>3, <3>5 DEF Floor
      <4> QED
        BY <1>2, <1>3, <3>1, <3>2, <3>3, <3>5, <4>1
    <3> QED
      BY <3>4, <3>5
  <2>3. CASE asm' = a /\ todo' = todo /\ executed' = executed
    <3>1. a # None
      <4>1. None.of = 0
        BY RequestFacts DEF Types
      <4> QED
        BY <2>1, <4>1 DEF Grows
    <3>2. Floor' = a.of /\ Last' = Last
      BY <2>3, <3>1 DEF Floor, Last
    <3> QED
      BY <1>4, <2>2, <2>3, <3>2 DEF RequestsRise
  <2>4. CASE asm' = None /\ executed' = Append(executed, [of |-> a.of, whole |-> a.whole])
             /\ todo' = a
    <3>1. Last' = a.of
      BY <2>4, LastMoves
    <3>2. Floor' = a.of
      BY <2>4, <3>1 DEF Floor
    <3>3. a.of <= call
      BY <1>4, <2>2
    <3> QED
      BY <1>1, <1>4, <2>2, <2>4, <3>2, <3>3 DEF RequestsRise
  <2> QED
    BY <2>1, <2>3, <2>4 DEF Takes
<1> QED
  BY <1>1, <1>5, <1>6

\* So they rise after every step.
LEMMA RequestsStep ==
    ASSUME Types, Types', RequestsRise, Next
    PROVE  RequestsRise'
<1>1. /\ asm # None => Last < asm.of
      /\ Floor <= Top
      /\ Rising(OnBus, Len(bus), Floor, Top)
  BY DEF RequestsRise
<1>2. CASE SendFrame
  BY <1>2, SendRises
<1>3. CASE EcuReceives
  BY <1>3, ReceiveRises
<1>4. ASSUME UNCHANGED <<asm, executed>>, Top <= Top', Rising(OnBus', Len(bus'), Floor, Top)
      PROVE  RequestsRise'
  <2>1. Floor' = Floor /\ Last' = Last
    BY <1>4 DEF Floor, Last
  <2>2. /\ Top \in Nat /\ Floor \in Nat /\ Top' \in Nat
        /\ Len(bus') \in Nat /\ \A i \in 1..Len(bus') : OnBus'[i] \in Nat
    <3>1. Len(bus') \in Nat
      BY LenProperties DEF Types
    <3>2. Top' \in Nat
      <4>1. call' \in Nat /\ (pc' = "send" => call' # 0)
        BY DEF Types
      <4>2. Top' = IF pc' = "send" /\ sent' = 0 THEN call' - 1 ELSE call'
        BY DEF Top
      <4>3. \A c \in Nat : c # 0 => c - 1 \in Nat
        OBVIOUS
      <4> QED
        BY <4>1, <4>2, <4>3
    <3>3. \A i \in 1..Len(bus') : OnBus'[i] \in Nat
      <4>1. \A f \in Frames : f.req.of \in Nat
        BY DEF Frames, Requests
      <4>2. \A i \in 1..Len(bus') : bus'[i] \in Frames
        BY ElementFacts DEF Types
      <4> QED
        BY <4>1, <4>2 DEF OnBus
    <3> QED
      BY <3>1, <3>2, <3>3, BoundTypes
  <2>3. Rising(OnBus', Len(bus'), Floor, Top')
    BY <1>4, <2>2, RisingHigher
  <2>4. Floor <= Top'
    <3>1. \A x, y, z \in Nat : x <= y /\ y <= z => x <= z
      OBVIOUS
    <3> QED
      BY <1>1, <1>4, <2>2, <3>1
  <2> QED
    BY <1>1, <1>4, <2>1, <2>3, <2>4 DEF RequestsRise
<1>5. UNCHANGED bus => Rising(OnBus', Len(bus'), Floor, Top)
  BY <1>1 DEF OnBus
<1>6. CASE \E s \in Services, n \in Cfs : Start(s, n)
  <2>1. UNCHANGED <<bus, asm, executed>> /\ Top' = Top
    BY <1>6 DEF Start, ecuVars, Top, Types
  <2> QED
    BY <1>4, <1>5, <2>1, BoundTypes
<1>7. CASE TakeFrame \/ ResponseTimeout \/ NoticeCancel
  <2>1. /\ UNCHANGED <<bus, asm, executed>> /\ call' = call
        /\ \/ pc' = "idle"
           \/ pc' = pc /\ sent' = sent
    <3>1. CASE TakeFrame
      BY <3>1, Taken DEF ecuVars, End
    <3>2. CASE ResponseTimeout
      BY <3>2 DEF ResponseTimeout, ecuVars, End
    <3>3. CASE NoticeCancel
      BY <3>3 DEF NoticeCancel, ecuVars, End
    <3> QED
      BY <1>7, <3>1, <3>2, <3>3
  <2>2. Top <= Top'
    BY <2>1 DEF Top, Types
  <2> QED
    BY <1>4, <1>5, <2>1, <2>2
<1>8. CASE Cancel \/ EcuAnswers \/ EcuPending \/ EcuRefuses \/ Garble
  <2>1. UNCHANGED <<bus, asm, executed>> /\ Top' = Top
    BY <1>8 DEF Cancel, EcuAnswers, EcuPending, EcuRefuses, Garble, Fault, ecuVars, hostVars, Top
  <2> QED
    BY <1>4, <1>5, <2>1, BoundTypes
<1>9. CASE Lose
  <2>1. /\ UNCHANGED <<asm, executed>> /\ Top' = Top
        /\ bus' = bus \/ (bus # <<>> /\ bus' = Tail(bus))
    BY <1>9 DEF Lose, Fault, ecuVars, hostVars, Top
  <2>2. Rising(OnBus', Len(bus'), Floor, Top)
    BY <1>1, <1>5, <2>1, BusShrinks
  <2> QED
    BY <1>4, <2>1, <2>2, BoundTypes
<1> QED
  BY <1>2, <1>3, <1>6, <1>7, <1>8, <1>9 DEF Next, Host, Environment

\* An answer is taken from those that are ready, or lost.
LEMMA ReadyShrinks ==
    ASSUME Types, Types', AnswersRise, rx # <<>>, rx' = Tail(rx), Ceiling \in Nat
    PROVE  /\ Rising(Ready', Len(rx'), given, Ceiling)
           /\ rx[1].info = "positive" =>
                 /\ given < rx[1].of /\ rx[1].of <= Ceiling /\ IsCarriedOut(rx[1].of)
                 /\ Rising(Ready', Len(rx'), rx[1].of, Ceiling)
           /\ \A i \in 1..Len(rx') :
                 rx'[i].info = "positive" => rx'[i].of # 0 /\ IsCarriedOut(rx'[i].of)
<1>1. /\ Len(rx) \in Nat \ {0} /\ Len(rx') \in Nat /\ Len(rx') = Len(rx) - 1
      /\ \A i \in 1..Len(rx') : rx'[i] = rx[i + 1] /\ i + 1 \in 1..Len(rx)
      /\ 1 \in 1..Len(rx)
  BY TailFacts DEF Types
<1>2. \A i \in 1..Len(rx') : Ready'[i] = Ready[i + 1]
  BY <1>1 DEF Ready
<1>3. rx[1].info = "positive" => Ready[1] = rx[1].of /\ rx[1].of # 0 /\ IsCarriedOut(rx[1].of)
  BY <1>1 DEF Ready, AnswersRise
<1>4. /\ Rising(Ready', Len(rx'), given, Ceiling)
      /\ Ready[1] # 0 => /\ given < Ready[1] /\ Ready[1] <= Ceiling
                         /\ Rising(Ready', Len(rx'), Ready[1], Ceiling)
  <2>1. Rising(Ready, Len(rx), given, Ceiling) /\ given \in Nat
    BY DEF AnswersRise, Types
  <2> QED
    BY <1>1, <1>2, <2>1, RisingTail
<1>5. \A i \in 1..Len(rx') :
         rx'[i].info = "positive" => rx'[i].of # 0 /\ IsCarriedOut(rx'[i].of)
  BY <1>1 DEF AnswersRise
<1> QED
  BY <1>3, <1>4, <1>5

\* The ECU has something more to say of what it works on.
LEMMA ReadyGrows ==
    ASSUME Types, Types', AnswersRise, todo # None, Ceiling \in Nat, Last \in Nat,
           NEW info \in {"positive", "pending", "negative"}, Says(info)
    PROVE  /\ info # "positive" => Rising(Ready', Len(rx'), given, Ceiling)
           /\ Rising(Ready', Len(rx'), given, Last)
           /\ \A i \in 1..Len(rx') :
                 rx'[i].info = "positive" => rx'[i].of # 0 /\ IsCarriedOut(rx'[i].of)
<1> DEFINE e == [of |-> todo.of, svc |-> todo.svc, info |-> info]
<1>1. e \in Answers /\ e.info = info /\ e.of = Last /\ todo.of = Last /\ Last # 0
  BY DEF Types, Requests, Answers, AnswersRise
<1>2. rx' = Append(rx, e)
  BY DEF Says
<1> HIDE DEF e
<1>3. /\ Len(rx) \in Nat /\ Len(rx') = Len(rx) + 1 /\ rx'[Len(rx')] = e
      /\ \A i \in 1..Len(rx) : rx'[i] = rx[i]
  BY <1>1, <1>2, AppendFacts DEF Types
<1>4. \A i \in 1..Len(rx') : i \in 1..Len(rx) \/ i = Len(rx')
  BY <1>3
<1>5. Len(rx') \in 1..Len(rx') /\ \A i \in 1..Len(rx) : i \in 1..Len(rx')
  BY <1>3
<1>6. \A i \in 1..Len(rx) : Ready'[i] = Ready[i] /\ Ready[i] \in Nat
  BY <1>3, <1>5, BoundTypes DEF Ready
<1>7. Ready'[Len(rx')] = IF info = "positive" THEN Last ELSE 0
  BY <1>1, <1>3, <1>5 DEF Ready
<1>8. Ceiling = Last - 1 /\ Ceiling <= Last /\ Last > Ceiling
  BY DEF Ceiling
<1> DEFINE m == Ready'[Len(rx')]
<1>9. m \in Nat /\ (m = 0 \/ (m > Ceiling /\ m <= Last)) /\ (info # "positive" => m = 0)
  BY <1>7, <1>8
<1>10. Rising(Ready, Len(rx), given, Ceiling) /\ given \in Nat /\ given <= Ceiling
  BY DEF AnswersRise, Types
<1>11. Len(rx') \in Nat
  BY <1>3
<1>12. Rising(Ready', Len(rx'), given, Last)
  <2>1. Ceiling <= Last /\ m \in Nat /\ (m = 0 \/ (m > Ceiling /\ m <= Last))
    BY <1>8, <1>9
  <2> QED
    BY <1>3, <1>6, <1>10, <1>11, <2>1, RisingAppend
<1>13. info # "positive" => Rising(Ready', Len(rx'), given, Ceiling)
  <2>1. Ceiling <= Ceiling
    OBVIOUS
  <2>2. CASE info # "positive"
    <3>1. m \in Nat /\ (m = 0 \/ (m > Ceiling /\ m <= Ceiling))
      BY <1>9, <2>2
    <3> QED
      BY <1>3, <1>6, <1>10, <1>11, <2>1, <3>1, RisingAppend
  <2> QED
    BY <2>2
<1>14. IsCarriedOut(Last)
  <2>1. executed # <<>> /\ Len(executed) \in Nat
    BY LenProperties DEF AnswersRise, Types
  <2>2. Len(executed) \in 1..Len(executed)
    BY <2>1, EmptySeq DEF Types
  <2> QED
    BY <2>1, <2>2 DEF Last, IsCarriedOut
<1>15. \A i \in 1..Len(rx') :
          rx'[i].info = "positive" => rx'[i].of # 0 /\ IsCarriedOut(rx'[i].of)
  BY <1>1, <1>3, <1>4, <1>14 DEF AnswersRise
<1> QED
  BY <1>12, <1>13, <1>15

\* What is returned, answered and carried out keeps to the order in every step.
LEMMA AnswersStep ==
    ASSUME Types, Types', RequestsRise, AnswersRise, Next
    PROVE  AnswersRise'
<1>1. /\ Last \in Nat /\ Ceiling \in Nat /\ given \in Nat /\ given <= Ceiling /\ Ceiling <= Last
      /\ todo # None => todo.of = Last /\ executed # <<>>
  <2>1. todo # None => Last # 0
    BY DEF AnswersRise, Types
  <2>2. Last \in Nat /\ Ceiling \in Nat
    BY <2>1, BoundTypes
  <2>3. Ceiling <= Last
    BY <2>2 DEF Ceiling
  <2> QED
    BY <2>2, <2>3 DEF AnswersRise, Types
<1>2. executed' = executed => Last' = Last /\ \A c : IsCarriedOut(c)' <=> IsCarriedOut(c)
  BY DEF Last, IsCarriedOut
<1>3. ASSUME UNCHANGED <<rx, todo, executed, given>>
      PROVE  AnswersRise'
  <2>1. Ceiling' = Ceiling /\ Ready' = Ready /\ Len(rx') = Len(rx)
    BY <1>2, <1>3 DEF Ceiling, Ready
  <2> QED
    BY <1>2, <1>3, <2>1 DEF AnswersRise
<1>4. CASE \/ \E s \in Services, n \in Cfs : Start(s, n)
           \/ SendFrame \/ ResponseTimeout \/ NoticeCancel \/ Cancel
  <2>1. UNCHANGED <<rx, todo, executed, given>>
    BY <1>4 DEF Start, SendFrame, ResponseTimeout, NoticeCancel, Cancel, End, hostVars,
                ecuVars, Types
  <2> QED
    BY <1>3, <2>1
<1>5. CASE TakeFrame
  <2>1. PICK a \in Answers :
              /\ a = rx[1] /\ rx # <<>> /\ rx' = Tail(rx)
              /\ UNCHANGED <<todo, executed>>
              /\ \/ given' = given
                 \/ a.info = "positive" /\ given' = a.of
    BY <1>5, Taken DEF ecuVars, End
  <2>2. /\ Rising(Ready', Len(rx'), given, Ceiling)
        /\ a.info = "positive" =>
              /\ a.of <= Ceiling /\ Rising(Ready', Len(rx'), a.of, Ceiling)
        /\ \A i \in 1..Len(rx') :
              rx'[i].info = "positive" => rx'[i].of # 0 /\ IsCarriedOut(rx'[i].of)
    BY <1>1, <2>1, ReadyShrinks
  <2>3. Ceiling' = Ceiling /\ given' <= Ceiling /\ Rising(Ready', Len(rx'), given', Ceiling)
    BY <1>1, <1>2, <2>1, <2>2 DEF Ceiling
  <2> QED
    BY <1>1, <1>2, <2>1, <2>2, <2>3 DEF AnswersRise
<1>6. CASE EcuReceives
  <2>1. UNCHANGED <<rx, given>> /\ Ready' = Ready
    BY <1>6 DEF EcuReceives, hostVars, Ready
  <2>2. CASE UNCHANGED <<todo, executed>>
    BY <1>3, <2>1, <2>2
  <2>3. CASE \E a \in Requests :
                /\ Last < a.of /\ a.of <= call /\ todo' = a /\ todo = None
                /\ executed' = Append(executed, [of |-> a.of, whole |-> a.whole])
    <3>1. PICK a \in Requests :
                /\ Last < a.of /\ todo' = a /\ todo = None
                /\ executed' = Append(executed, [of |-> a.of, whole |-> a.whole])
      BY <2>3
    <3>2. /\ Last' = a.of /\ executed' # <<>>
          /\ \A c : IsCarriedOut(c) => IsCarriedOut(c)'
      BY <3>1, LastMoves
    <3>3. a.of \in Nat /\ a.of # 0 /\ None.of = 0
      BY <1>1, <3>1, RequestFacts DEF Requests, Types
    <3>4. Ceiling = Last /\ Ceiling' = a.of - 1 /\ a.of - 1 \in Nat /\ Ceiling <= a.of - 1
      BY <1>1, <3>1, <3>2, <3>3 DEF Ceiling
    <3>5. Len(rx) \in Nat /\ Rising(Ready, Len(rx), given, Ceiling)
      BY LenProperties DEF AnswersRise, Types
    <3>6. Rising(Ready, Len(rx), given, a.of - 1)
      BY <1>1, <3>4, <3>5, BoundTypes, RisingHigher
    <3>7. given <= a.of - 1
      <4>1. \A x, y, z \in Nat : x <= y /\ y <= z => x <= z
        OBVIOUS
      <4> QED
        BY <1>1, <3>4, <4>1
    <3>8. Rising(Ready', Len(rx'), given', Ceiling')
      BY <2>1, <3>4, <3>6
    <3>9. \A i \in 1..Len(rx) :
             rx[i].info = "positive" => rx[i].of # 0 /\ \E c : c = rx[i].of /\ IsCarriedOut(c)'
      BY <3>2 DEF AnswersRise
    <3>10. (\A i \in 1..Len(rx) :
             rx[i].info = "positive" => rx[i].of # 0 /\ IsCarriedOut(rx[i].of))'
      BY <2>1, <3>9 DEF IsCarriedOut
    <3> QED
      BY <2>1, <3>1, <3>2, <3>4, <3>7, <3>8, <3>10 DEF AnswersRise
  <2> QED
    BY <1>6, <2>2, <2>3, ReceiveRises
<1>7. CASE EcuAnswers
  <2>1. todo # None /\ Says("positive") /\ todo' = None /\ UNCHANGED <<executed, given>>
    BY <1>7 DEF EcuAnswers, hostVars
  <2>2. Ceiling' = Last
    BY <1>2, <2>1 DEF Ceiling
  <2>3. /\ Rising(Ready', Len(rx'), given, Last)
        /\ \A i \in 1..Len(rx') :
              rx'[i].info = "positive" => rx'[i].of # 0 /\ IsCarriedOut(rx'[i].of)
    BY <1>1, <2>1, ReadyGrows
  <2>4. given <= Last
    <3>1. \A x, y, z \in Nat : x <= y /\ y <= z => x <= z
      OBVIOUS
    <3> QED
      BY <1>1, <3>1
  <2> QED
    BY <1>2, <2>1, <2>2, <2>3, <2>4 DEF AnswersRise
<1>8. CASE EcuPending
  <2>1. todo # None /\ Says("pending") /\ UNCHANGED <<todo, executed, given>>
    BY <1>8 DEF EcuPending, hostVars, ecuVars
  <2>2. Ceiling' = Ceiling
    BY <1>2, <2>1 DEF Ceiling
  <2>3. /\ Rising(Ready', Len(rx'), given, Ceiling)
        /\ \A i \in 1..Len(rx') :
              rx'[i].info = "positive" => rx'[i].of # 0 /\ IsCarriedOut(rx'[i].of)
    BY <1>1, <2>1, ReadyGrows
  <2> QED
    BY <1>1, <1>2, <2>1, <2>2, <2>3 DEF AnswersRise
<1>9. CASE EcuRefuses
  <2>1. todo # None /\ Says("negative") /\ todo' = None /\ UNCHANGED <<executed, given>>
    BY <1>9 DEF EcuRefuses, Fault, hostVars
  <2>2. Ceiling' = Last
    BY <1>2, <2>1 DEF Ceiling
  <2>3. /\ Rising(Ready', Len(rx'), given, Last)
        /\ \A i \in 1..Len(rx') :
              rx'[i].info = "positive" => rx'[i].of # 0 /\ IsCarriedOut(rx'[i].of)
    BY <1>1, <2>1, ReadyGrows
  <2>4. given <= Last
    <3>1. \A x, y, z \in Nat : x <= y /\ y <= z => x <= z
      OBVIOUS
    <3> QED
      BY <1>1, <3>1
  <2> QED
    BY <1>2, <2>1, <2>2, <2>3, <2>4 DEF AnswersRise
<1>10. CASE Lose
  <2>1. UNCHANGED <<todo, executed, given>> /\ (rx' = rx \/ (rx # <<>> /\ rx' = Tail(rx)))
    BY <1>10 DEF Lose, Fault, ecuVars, hostVars
  <2>2. CASE rx' = rx
    BY <1>3, <2>1, <2>2
  <2>3. CASE rx # <<>> /\ rx' = Tail(rx)
    <3>1. Ceiling' = Ceiling
      BY <1>2, <2>1 DEF Ceiling
    <3>2. /\ Rising(Ready', Len(rx'), given, Ceiling)
          /\ \A i \in 1..Len(rx') :
                rx'[i].info = "positive" => rx'[i].of # 0 /\ IsCarriedOut(rx'[i].of)
      BY <1>1, <2>3, ReadyShrinks
    <3> QED
      BY <1>1, <1>2, <2>1, <3>1, <3>2 DEF AnswersRise
  <2> QED
    BY <2>1, <2>2, <2>3
<1>11. CASE Garble
  <2>1. UNCHANGED <<todo, executed, given>> /\ rx # <<>> /\ rx' = [rx EXCEPT ![1].info = "bad"]
    BY <1>11 DEF Garble, Fault, ecuVars, hostVars
  <2>2. /\ Len(rx) \in Nat /\ Len(rx') = Len(rx) /\ 1 \in 1..Len(rx) /\ rx[1] \in Answers
        /\ \A i \in 1..Len(rx) : i # 1 => rx'[i] = rx[i]
        /\ rx'[1].info = "bad"
    <3>1. Len(rx) \in Nat \ {0} /\ 1 \in 1..Len(rx) /\ rx[1] \in Answers /\ rx \in Seq(Answers)
      BY <2>1, TailFacts DEF Types
    <3>2. PICK a \in Answers : a = rx[1]
      BY <3>1
    <3>3. PICK b : b = [a EXCEPT !.info = "bad"]
      OBVIOUS
    <3>4. b.info = "bad"
      BY <3>3 DEF Answers
    <3>5. rx' = [rx EXCEPT ![1] = b]
      BY <2>1, <3>2, <3>3
    <3> QED
      BY <3>1, <3>4, <3>5
  <2>3. \A i \in 1..Len(rx') : Ready'[i] = Ready[i] \/ Ready'[i] = 0
    BY <2>2 DEF Ready
  <2>4. Rising(Ready', Len(rx'), given, Ceiling)
    BY <2>2, <2>3 DEF AnswersRise, Rising
  <2>5. Ceiling' = Ceiling
    BY <1>2, <2>1 DEF Ceiling
  <2>6. \A i \in 1..Len(rx') :
           rx'[i].info = "positive" => rx'[i].of # 0 /\ IsCarriedOut(rx'[i].of)
    BY <2>2 DEF AnswersRise
  <2> QED
    BY <1>1, <1>2, <2>1, <2>4, <2>5, <2>6 DEF AnswersRise
<1> QED
  BY <1>4, <1>5, <1>6, <1>7, <1>8, <1>9, <1>10, <1>11 DEF Next, Host, Environment

-------------------------------------------------------------------------------
(***************************************************************************)
(* Whole requests.  While no call has left anything unfinished, every      *)
(* frame is of the request at hand, each is further on than the one before *)
(* it, and a request that lacks a frame cannot be completed any more.      *)
(* While no frame was lost, each is the successor of the one before it.    *)
(***************************************************************************)

Unmixed == \A i \in 1..Len(executed) : executed[i].whole = TRUE

\* Position p is beyond what is assembled, and beyond what that lacks.
Ahead(p) == asm.got < p /\ (asm.whole # TRUE => asm.got + 1 < p)

InOrder ==
    /\ Unmixed
    /\ \A i \in 1..Len(bus) : bus[i].req = Request
    /\ \A i, j \in 1..Len(bus) : i < j => bus[i].pos < bus[j].pos
    /\ pc = "send" => \A i \in 1..Len(bus) : bus[i].pos < sent
    /\ asm # None =>
          /\ Base(asm) = Request
          /\ \A i \in 1..Len(bus) : Ahead(bus[i].pos)
          /\ pc = "send" => Ahead(sent)

\* The assembler waits for position p of request r.
Awaits(r, p) == asm # None /\ Base(asm) = r /\ asm.got + 1 = p

Unbroken ==
    /\ Unmixed
    /\ asm # None => asm.whole = TRUE
    /\ \A i, j \in 1..Len(bus) :
          j = i + 1 /\ bus[j].pos # 0
             => bus[j].req = bus[i].req /\ bus[j].pos = bus[i].pos + 1
    /\ bus # <<>> /\ bus[1].pos # 0 => Awaits(bus[1].req, bus[1].pos)
    /\ pc = "send" /\ sent # 0 /\ bus = <<>> => Awaits(Request, sent)
    /\ pc = "send" /\ sent # 0 /\ bus # <<>>
          => bus[Len(bus)].req = Request /\ bus[Len(bus)].pos + 1 = sent

WholeOK == (~leftover => InOrder) /\ (faults = 0 => Unbroken)

\* A whole request is carried out.
LEMMA UnmixedMoves ==
    ASSUME Types, NEW a \in Requests, a.whole = TRUE, Unmixed,
           executed' = Append(executed, [of |-> a.of, whole |-> a.whole])
    PROVE  Unmixed'
<1>1. PICK d \in Done : d = [of |-> a.of, whole |-> a.whole]
  BY DEF Requests, Done
<1>2. /\ Len(executed) \in Nat /\ Len(executed') = Len(executed) + 1
      /\ executed'[Len(executed) + 1] = d /\ d.whole = TRUE
      /\ \A i \in 1..Len(executed) : executed'[i] = executed[i]
  BY <1>1, AppendFacts DEF Types
<1>3. \A i \in 1..Len(executed') : i \in 1..Len(executed) \/ i = Len(executed) + 1
  BY <1>2
<1> QED
  BY <1>2, <1>3 DEF Unmixed

\* The frame that leaves the bus, and those that stay.
LEMMA BusLoses ==
    ASSUME Types, bus # <<>>, bus' = Tail(bus)
    PROVE  /\ Len(bus) \in Nat \ {0} /\ Len(bus') = Len(bus) - 1 /\ 1 \in 1..Len(bus)
           /\ \A i \in 1..Len(bus') : /\ bus'[i] = bus[i + 1] /\ i + 1 \in 1..Len(bus)
                                      /\ i \in Nat /\ 1 < i + 1
           /\ \A i, j \in 1..Len(bus') : i < j => i + 1 < j + 1
           /\ \A i \in 1..Len(bus) : bus[i].pos \in Nat /\ bus[i].req \in Requests
<1>1. /\ Len(bus) \in Nat \ {0} /\ Len(bus') = Len(bus) - 1
      /\ \A i \in 1..Len(bus') : bus'[i] = bus[i + 1] /\ i + 1 \in 1..Len(bus)
  BY TailFacts DEF Types
<1>2. \A i \in 1..Len(bus) : bus[i] \in Frames
  BY ElementFacts DEF Types
<1>3. \A f \in Frames : f.pos \in Nat /\ f.req \in Requests
  BY DEF Frames
<1>4. 1 \in 1..Len(bus) /\ \A i \in 1..Len(bus') : i \in Nat /\ 1 < i + 1
  BY <1>1
<1>5. \A i, j \in 1..Len(bus') : i < j => i + 1 < j + 1
  OBVIOUS
<1> QED
  BY <1>1, <1>2, <1>3, <1>4, <1>5

\* A frame of the request at hand goes out behind the others of it.
LEMMA InOrderSend ==
    ASSUME Types, InOrder, SendFrame
    PROVE  InOrder'
<1>1. /\ bus' = Append(bus, Frame(sent)) /\ UNCHANGED ecuVars /\ pc = "send"
      /\ sent' = sent + 1 /\ UNCHANGED <<call, svc, cfs>> /\ sent \in Nat
  BY DEF SendFrame, Types
<1>2. Frame(sent) \in Frames /\ Frame(sent).pos = sent /\ Frame(sent).req = Request
  BY <1>1, FrameFacts DEF Types
<1>3. /\ Len(bus) \in Nat /\ Len(bus') = Len(bus) + 1 /\ bus'[Len(bus) + 1] = Frame(sent)
      /\ \A i \in 1..Len(bus) : bus'[i] = bus[i]
  BY <1>1, <1>2, AppendFacts DEF Types
<1>4. \A i \in 1..Len(bus') : i \in 1..Len(bus) \/ i = Len(bus) + 1
  BY <1>3
<1>5. Request' = Request /\ None' = None /\ Unmixed' = Unmixed /\ asm' = asm
  BY <1>1 DEF Request, None, Unmixed, ecuVars
<1>6. \A i \in 1..Len(bus) : bus[i].pos \in Nat /\ bus[i].pos < sent
  <2>1. \A i \in 1..Len(bus) : bus[i] \in Frames
    BY ElementFacts DEF Types
  <2> QED
    BY <1>1, <2>1 DEF Frames, InOrder
<1>7. \A i \in 1..Len(bus') : bus'[i].req = Request
  BY <1>2, <1>3, <1>4 DEF InOrder
<1>8. \A i \in 1..Len(bus') : bus'[i].pos < sent + 1
  <2>1. \A p \in Nat : p < sent => p < sent + 1
    BY <1>1
  <2>2. sent < sent + 1
    BY <1>1
  <2> QED
    BY <1>2, <1>3, <1>4, <1>6, <2>1, <2>2
<1>9. ASSUME NEW i \in 1..Len(bus'), NEW j \in 1..Len(bus'), i < j
      PROVE  bus'[i].pos < bus'[j].pos
  <2>1. i \in 1..Len(bus)
    BY <1>3, <1>9
  <2> QED
    BY <1>2, <1>3, <1>4, <1>6, <1>9, <2>1 DEF InOrder
<1>10. asm # None => /\ Base(asm) = Request
                     /\ \A i \in 1..Len(bus') : Ahead(bus'[i].pos)
                     /\ Ahead(sent + 1)
  <2>1. asm.got \in Nat
    BY DEF Types, Requests
  <2>3. \A g, s \in Nat : (g < s => g < s + 1) /\ (g + 1 < s => g + 1 < s + 1)
    OBVIOUS
  <2>2. Ahead(sent) => Ahead(sent + 1)
    BY <1>1, <2>1, <2>3 DEF Ahead
  <2> QED
    BY <1>1, <1>2, <1>3, <1>4, <2>2 DEF InOrder
<1> QED
  BY <1>1, <1>5, <1>7, <1>8, <1>9, <1>10 DEF InOrder, Ahead

\* A frame is lost, or met by an assembler that cannot use it.
LEMMA InOrderLose ==
    ASSUME Types, InOrder, bus # <<>>, bus' = Tail(bus),
           UNCHANGED <<pc, call, svc, cfs, sent, asm, executed>>
    PROVE  InOrder'
<1>1. /\ \A i \in 1..Len(bus') : bus'[i] = bus[i + 1] /\ i + 1 \in 1..Len(bus)
      /\ \A i, j \in 1..Len(bus') : i < j => i + 1 < j + 1
  BY BusLoses
<1>2. Request' = Request /\ None' = None /\ Unmixed' = Unmixed
  BY DEF Request, None, Unmixed
<1> QED
  BY <1>1, <1>2 DEF InOrder, Ahead

\* A frame reaches the ECU: it continues the request at hand, or comes too late.
LEMMA InOrderReceive ==
    ASSUME Types, InOrder, EcuReceives
    PROVE  InOrder'
<1>1. PICK f \in Frames :
              /\ f = bus[1] /\ Sound(f) /\ bus # <<>> /\ bus' = Tail(bus)
              /\ \/ Drops(f)
                 \/ \E a \in Requests : Grows(f, a) /\ a.got <= a.n /\ Takes(a)
  BY Received
<1>2. UNCHANGED <<pc, call, svc, cfs, sent>> /\ Request' = Request /\ None' = None
  BY DEF EcuReceives, hostVars, Request, None
<1>3. CASE Drops(f)
  BY <1>1, <1>2, <1>3, InOrderLose DEF Drops, ecuVars
<1>4. CASE \E a \in Requests : Grows(f, a) /\ a.got <= a.n /\ Takes(a)
  <2>1. PICK a \in Requests : Grows(f, a) /\ Takes(a)
    BY <1>4
  <2>2. /\ f.pos \in Nat /\ f.req \in Requests /\ a.got \in Nat /\ a.n \in Nat
        /\ asm \in Requests /\ asm.got \in Nat /\ a.whole \in BOOLEAN /\ cfs \in Nat
        /\ sent \in Nat
    BY DEF Frames, Requests, Types
  <2>3. /\ \A i \in 1..Len(bus') : bus'[i] = bus[i + 1] /\ i + 1 \in 1..Len(bus) /\ 1 < i + 1
        /\ \A i, j \in 1..Len(bus') : i < j => i + 1 < j + 1
        /\ 1 \in 1..Len(bus) /\ \A i \in 1..Len(bus) : bus[i].pos \in Nat
    BY <1>1, BusLoses
  <2>4. /\ f.req = Request /\ (pc = "send" => f.pos < sent)
        /\ asm # None => Base(asm) = Request /\ Ahead(f.pos)
        /\ \A i \in 1..Len(bus') : f.pos < bus'[i].pos
    BY <1>1, <2>3 DEF InOrder
  <2>5. /\ Base(a) = Request /\ a.got <= f.pos /\ (a.whole # TRUE => a.got < f.pos)
    <3>1. Base(f.req) = f.req
      BY <1>1 DEF Sound
    <3>2. CASE f.pos = 0
      <4>1. Base(a) = Base(f.req) /\ a.got = 0 /\ a.whole = TRUE
        BY <2>1, <3>2 DEF Grows
      <4>2. Base(a) = Request
        BY <2>4, <3>1, <4>1
      <4>3. a.got <= f.pos
        BY <3>2, <4>1
      <4> QED
        BY <4>1, <4>2, <4>3
    <3>3. CASE f.pos # 0
      <4>1. /\ asm # None /\ a.got = asm.got + 1 /\ Base(a) = Base(asm) /\ Ahead(f.pos)
            /\ Base(asm) = Request
            /\ asm.whole = TRUE /\ f.pos = asm.got + 1 => a.whole = TRUE
        BY <2>1, <2>4, <3>3 DEF Grows
      <4>2. asm.got < f.pos /\ (asm.whole # TRUE => asm.got + 1 < f.pos)
        BY <4>1 DEF Ahead
      <4>3. \A g, p \in Nat : g < p /\ p # g + 1 => g + 1 < p
        OBVIOUS
      <4>4. \A g, p \in Nat : g < p => g + 1 <= p
        OBVIOUS
      <4> QED
        BY <2>2, <4>1, <4>2, <4>3, <4>4
    <3> QED
      BY <3>2, <3>3
  <2>6. a.n = cfs /\ f.pos <= cfs
    <3>1. Base(a).n = a.n /\ Request.n = cfs
      BY BaseFacts, RequestFacts DEF Types
    <3>2. f.pos <= f.req.n
      BY <1>1 DEF Sound
    <3> QED
      BY <2>4, <2>5, <3>1, <3>2
  <2>7. /\ \A i \in 1..Len(bus') : bus'[i].req = Request
        /\ \A i, j \in 1..Len(bus') : i < j => bus'[i].pos < bus'[j].pos
        /\ pc = "send" => \A i \in 1..Len(bus') : bus'[i].pos < sent
    BY <2>3 DEF InOrder
  <2>8. CASE asm' = a /\ executed' = executed
    <3>1. Unmixed'
      BY <2>8 DEF InOrder, Unmixed
    <3>2. ASSUME NEW p \in Nat, f.pos < p
          PROVE  a.got < p /\ (a.whole # TRUE => a.got + 1 < p)
      <4>1. \A g, q \in Nat : (g <= q /\ q < p => g < p) /\ (g < q /\ q < p => g + 1 < p)
        OBVIOUS
      <4> QED
        BY <2>2, <2>5, <3>2, <4>1
    <3>3. \A i \in 1..Len(bus') : bus'[i].pos \in Nat
      BY <2>3
    <3> QED
      BY <1>2, <2>2, <2>4, <2>5, <2>7, <2>8, <3>1, <3>2, <3>3 DEF InOrder, Ahead
  <2>9. CASE a.got = a.n /\ asm' = None
             /\ executed' = Append(executed, [of |-> a.of, whole |-> a.whole])
    <3>1. a.whole = TRUE
      <4>1. \A g, p, n \in Nat : g = n /\ p <= n => ~(g < p)
        OBVIOUS
      <4> QED
        BY <2>2, <2>5, <2>6, <2>9, <4>1
    <3>2. Unmixed'
      BY <2>9, <3>1, UnmixedMoves DEF InOrder
    <3> QED
      BY <1>2, <2>7, <2>9, <3>2 DEF InOrder
  <2> QED
    BY <2>1, <2>8, <2>9 DEF Takes
<1> QED
  BY <1>1, <1>3, <1>4

\* While nothing is left over, the frames stay in order.
LEMMA InOrderStep ==
    ASSUME Types, ~leftover => InOrder, Next, ~leftover'
    PROVE  InOrder'
<1>1. ~leftover
  BY DEF Next, Start, Host, Environment, SendFrame, TakeFrame, ResponseTimeout, NoticeCancel,
         Cancel, EcuReceives, EcuAnswers, EcuPending, EcuRefuses, Lose, Garble, Fault
<1>2. InOrder
  BY <1>1
<1>3. CASE \E s \in Services, n \in Cfs : Start(s, n)
  <2>0. ~(asm # None \/ bus # <<>>) /\ UNCHANGED <<bus, asm, executed>>
    BY <1>3 DEF Start, ecuVars
  <2>1. asm = None /\ bus = <<>> /\ UNCHANGED <<bus, asm, executed>> /\ Len(bus') = 0
    BY <2>0
  <2>2. None' = None /\ Unmixed'
    BY <1>2, <2>1 DEF None, Unmixed, InOrder
  <2> QED
    BY <2>1, <2>2 DEF InOrder
<1>4. ASSUME UNCHANGED <<bus, asm, executed, call, svc, cfs>>,
             pc' = "send" => pc = "send" /\ sent' = sent
      PROVE  InOrder'
  <2>1. Request' = Request /\ None' = None /\ Unmixed' = Unmixed
    BY <1>4 DEF Request, None, Unmixed
  <2> QED
    BY <1>2, <1>4, <2>1 DEF InOrder, Ahead
<1>5. CASE SendFrame
  BY <1>2, <1>5, InOrderSend
<1>6. CASE EcuReceives
  BY <1>2, <1>6, InOrderReceive
<1>7. CASE TakeFrame
  BY <1>4, <1>7, Taken DEF ecuVars, End
<1>8. CASE ResponseTimeout \/ NoticeCancel
  BY <1>4, <1>8 DEF ResponseTimeout, NoticeCancel, End, ecuVars
<1>9. CASE Cancel \/ EcuAnswers \/ EcuPending \/ EcuRefuses \/ Garble
  BY <1>4, <1>9 DEF Cancel, EcuAnswers, EcuPending, EcuRefuses, Garble, Fault, hostVars, ecuVars
<1>10. CASE Lose
  <2>1. CASE bus # <<>> /\ bus' = Tail(bus)
    BY <1>2, <1>10, <2>1, InOrderLose DEF Lose, Fault, hostVars, ecuVars
  <2>2. CASE UNCHANGED bus
    BY <1>4, <1>10, <2>2 DEF Lose, Fault, hostVars, ecuVars
  <2> QED
    BY <1>10, <2>1, <2>2 DEF Lose
<1> QED
  BY <1>3, <1>5, <1>6, <1>7, <1>8, <1>9, <1>10 DEF Next, Host, Environment

\* A frame of the request at hand follows the one that was sent before.
LEMMA UnbrokenSend ==
    ASSUME Types, Unbroken, SendFrame
    PROVE  Unbroken'
<1>1. /\ bus' = Append(bus, Frame(sent)) /\ UNCHANGED ecuVars /\ pc = "send"
      /\ sent' = sent + 1 /\ UNCHANGED <<call, svc, cfs>> /\ sent \in Nat
  BY DEF SendFrame, Types
<1>2. Frame(sent) \in Frames /\ Frame(sent).pos = sent /\ Frame(sent).req = Request
  BY <1>1, FrameFacts DEF Types
<1>3. /\ Len(bus) \in Nat /\ Len(bus') = Len(bus) + 1 /\ bus'[Len(bus) + 1] = Frame(sent)
      /\ \A i \in 1..Len(bus) : bus'[i] = bus[i]
  BY <1>1, <1>2, AppendFacts DEF Types
<1>4. \A i \in 1..Len(bus') : i \in 1..Len(bus) \/ i = Len(bus) + 1
  BY <1>3
<1>5. Request' = Request /\ None' = None /\ Unmixed' = Unmixed /\ asm' = asm
  BY <1>1 DEF Request, None, Unmixed, ecuVars
<1>6. (bus = <<>> <=> Len(bus) = 0) /\ bus' # <<>>
  BY <1>3, EmptySeq DEF Types
<1>7. \A i, j \in 1..Len(bus') : j = i + 1 => i \in 1..Len(bus) /\ (j = Len(bus) + 1 => i = Len(bus))
  BY <1>3
<1>8. \A i, j \in 1..Len(bus') :
         j = i + 1 /\ bus'[j].pos # 0
            => bus'[j].req = bus'[i].req /\ bus'[j].pos = bus'[i].pos + 1
  <2> TAKE i, j \in 1..Len(bus')
  <2> HAVE j = i + 1 /\ bus'[j].pos # 0
  <2>1. i \in 1..Len(bus) /\ bus'[i] = bus[i]
    BY <1>3, <1>7
  <2>2. CASE j \in 1..Len(bus)
    BY <1>3, <2>1, <2>2 DEF Unbroken
  <2>3. CASE j = Len(bus) + 1
    <3>1. i = Len(bus) /\ bus # <<>> /\ bus'[j] = Frame(sent) /\ sent # 0
      BY <1>2, <1>3, <1>6, <1>7, <2>1, <2>3
    <3> QED
      BY <1>1, <1>2, <2>1, <3>1 DEF Unbroken
  <2> QED
    BY <1>4, <2>2, <2>3
<1>9. bus'[1].pos # 0 => Awaits(bus'[1].req, bus'[1].pos)
  <2>1. CASE bus = <<>>
    <3>1. bus'[1] = Frame(sent)
      BY <1>3, <1>6, <2>1
    <3> QED
      BY <1>1, <1>2, <2>1, <3>1 DEF Unbroken
  <2>2. CASE bus # <<>>
    <3>1. 1 \in 1..Len(bus)
      BY <1>3, <1>6, <2>2
    <3> QED
      BY <1>3, <2>2, <3>1 DEF Unbroken
  <2> QED
    BY <2>1, <2>2
<1>10. bus'[Len(bus')].req = Request /\ bus'[Len(bus')].pos + 1 = sent'
  BY <1>1, <1>2, <1>3
<1> QED
  BY <1>5, <1>6, <1>8, <1>9, <1>10 DEF Unbroken, Awaits

\* A frame reaches the ECU: it is the one that the assembler waits for.
LEMMA UnbrokenReceive ==
    ASSUME Types, Unbroken, EcuReceives
    PROVE  Unbroken'
<1>1. PICK f \in Frames :
              /\ f = bus[1] /\ Sound(f) /\ bus # <<>> /\ bus' = Tail(bus)
              /\ \/ Drops(f)
                 \/ \E a \in Requests : Grows(f, a) /\ a.got <= a.n /\ Takes(a)
  BY Received
<1>2. UNCHANGED <<pc, call, svc, cfs, sent>> /\ Request' = Request /\ None' = None
  BY DEF EcuReceives, hostVars, Request, None
<1>3. f.pos # 0 => asm # None /\ Base(asm) = f.req /\ asm.got + 1 = f.pos /\ asm.whole = TRUE
  BY <1>1 DEF Unbroken, Awaits
<1>4. ~Drops(f)
  BY <1>1, <1>3 DEF Drops, Fits, Sound
<1>5. PICK a \in Requests : Grows(f, a) /\ Takes(a)
  BY <1>1, <1>4
<1>6. /\ f.pos \in Nat /\ f.req \in Requests /\ a.got \in Nat /\ a.n \in Nat /\ cfs \in Nat
      /\ sent \in Nat /\ f.req.n \in Nat
  BY DEF Frames, Requests, Types
<1>7. Base(a) = f.req /\ a.got = f.pos /\ a.whole = TRUE /\ a.of # 0 /\ a.n = f.req.n
  <2>1. Base(f.req) = f.req /\ Base(a).n = a.n
    BY <1>1, BaseFacts DEF Sound
  <2>2. CASE f.pos = 0
    <3>1. Base(a) = Base(f.req) /\ a.got = 0 /\ a.whole = TRUE /\ a.of # 0
      BY <1>5, <2>2 DEF Grows
    <3>2. Base(a) = f.req
      BY <2>1, <3>1
    <3> QED
      BY <2>1, <2>2, <3>1, <3>2
  <2>3. CASE f.pos # 0
    <3>1. Base(a) = Base(asm) /\ a.got = asm.got + 1 /\ a.whole = TRUE /\ a.of # 0
      BY <1>3, <1>5, <2>3 DEF Grows
    <3>2. Base(a) = f.req
      BY <1>3, <2>3, <3>1
    <3> QED
      BY <1>3, <2>1, <2>3, <3>1, <3>2
  <2> QED
    BY <2>2, <2>3
<1>8. /\ Len(bus) \in Nat \ {0} /\ Len(bus') = Len(bus) - 1 /\ 1 \in 1..Len(bus)
      /\ \A i \in 1..Len(bus') : bus'[i] = bus[i + 1] /\ i + 1 \in 1..Len(bus)
  BY <1>1, BusLoses
<1>9. /\ Unmixed' /\ (asm' # None => asm'.whole = TRUE)
      /\ \A r, p : r = f.req /\ p = f.pos + 1 /\ p <= f.req.n => Awaits(r, p)'
  <2>1. CASE a.got = a.n /\ asm' = None
             /\ executed' = Append(executed, [of |-> a.of, whole |-> a.whole])
    <3>1. Unmixed'
      BY <1>7, <2>1, UnmixedMoves DEF Unbroken
    <3>2. ~(f.pos + 1 <= f.req.n)
      BY <1>6, <1>7, <2>1
    <3> QED
      BY <2>1, <3>1, <3>2
  <2>2. CASE asm' = a /\ executed' = executed
    <3>1. Unmixed'
      BY <2>2 DEF Unbroken, Unmixed
    <3>2. a # None
      <4>1. None.of = 0
        BY RequestFacts DEF Types
      <4> QED
        BY <1>7, <4>1
    <3>3. ASSUME NEW r, NEW p, r = f.req, p = f.pos + 1
          PROVE  Awaits(r, p)'
      BY <1>2, <1>7, <2>2, <3>2, <3>3 DEF Awaits
    <3> QED
      BY <1>7, <2>2, <3>1, <3>3
  <2> QED
    BY <1>5, <2>1, <2>2 DEF Takes
<1>10. \A i, j \in 1..Len(bus') :
          j = i + 1 /\ bus'[j].pos # 0
             => bus'[j].req = bus'[i].req /\ bus'[j].pos = bus'[i].pos + 1
  BY <1>8 DEF Unbroken
<1>11. bus' # <<>> /\ bus'[1].pos # 0 => (bus # <<>> /\ bus[1].pos # 0 => Awaits(bus[1].req, bus[1].pos))'
  <2> HAVE bus' # <<>> /\ bus'[1].pos # 0
  <2>1. 1 \in 1..Len(bus') /\ 2 \in 1..Len(bus) /\ bus'[1] = bus[2]
    <3>1. Len(bus') # 0
      BY <1>1, TailFacts, EmptySeq DEF Types
    <3>2. 1 \in 1..Len(bus')
      BY <1>8, <3>1
    <3>3. 1 + 1 = 2
      OBVIOUS
    <3> QED
      BY <1>8, <3>2, <3>3
  <2>2. bus[2].req = f.req /\ bus[2].pos = f.pos + 1
    <3>1. 2 = 1 + 1 /\ bus[2].pos # 0
      BY <2>1
    <3> QED
      BY <1>1, <1>8, <2>1, <3>1 DEF Unbroken
  <2>3. bus[2].pos <= bus[2].req.n
    BY <2>1 DEF Types, Sound
  <2>4. \A r, p : r = bus[2].req /\ p = bus[2].pos => Awaits(r, p)'
    BY <1>9, <2>2, <2>3
  <2> QED
    BY <2>1, <2>4 DEF Awaits
<1>12. pc = "send" /\ sent # 0 /\ bus' = <<>> => Awaits(Request, sent)'
  <2> HAVE pc = "send" /\ sent # 0 /\ bus' = <<>>
  <2>1. Len(bus) = 1
    BY <1>8
  <2>2. f.req = Request /\ f.pos + 1 = sent
    BY <1>1, <2>1 DEF Unbroken
  <2>3. sent <= f.req.n
    BY <2>2, RequestFacts DEF Types
  <2>4. \A r, p : r = Request /\ p = sent => Awaits(r, p)'
    BY <1>9, <2>2, <2>3
  <2> QED
    BY <1>2, <2>4 DEF Awaits
<1>13. pc = "send" /\ sent # 0 /\ bus' # <<>>
          => bus'[Len(bus')].req = Request /\ bus'[Len(bus')].pos + 1 = sent
  <2> HAVE pc = "send" /\ sent # 0 /\ bus' # <<>>
  <2>1. Len(bus') # 0
    BY <1>1, TailFacts, EmptySeq DEF Types
  <2>2. Len(bus') \in 1..Len(bus') /\ Len(bus') + 1 = Len(bus)
    BY <1>8, <2>1
  <2>3. bus'[Len(bus')] = bus[Len(bus)]
    BY <1>8, <2>2
  <2> QED
    BY <1>1, <2>3 DEF Unbroken
<1> QED
  BY <1>2, <1>9, <1>10, <1>11, <1>12, <1>13 DEF Unbroken

\* While no frame is lost, no frame is missing.
LEMMA UnbrokenStep ==
    ASSUME Types, faults = 0 => Unbroken, Next, faults' = 0
    PROVE  Unbroken'
<1>1. ~Fault /\ faults \in Nat
  BY DEF Fault, Types
<1>2. faults = 0
  BY <1>1 DEF Next, Start, Host, Environment, SendFrame, TakeFrame, ResponseTimeout, NoticeCancel,
         Cancel, EcuReceives, EcuAnswers, EcuPending, EcuRefuses, Lose, Garble
<1>3. Unbroken
  BY <1>2
<1>4. ASSUME UNCHANGED <<bus, asm, executed>>,
             pc' = "send" /\ sent' # 0 => pc = "send" /\ UNCHANGED <<sent, call, svc, cfs>>
      PROVE  Unbroken'
  <2>1. None' = None /\ Unmixed' = Unmixed
    BY <1>4 DEF None, Unmixed
  <2>2. pc' = "send" /\ sent' # 0 => Request' = Request
    BY <1>4 DEF Request, None
  <2> QED
    BY <1>3, <1>4, <2>1, <2>2 DEF Unbroken, Awaits
<1>5. CASE \E s \in Services, n \in Cfs : Start(s, n)
  BY <1>4, <1>5 DEF Start, ecuVars, Types
<1>6. CASE SendFrame
  BY <1>3, <1>6, UnbrokenSend
<1>7. CASE EcuReceives
  BY <1>3, <1>7, UnbrokenReceive
<1>8. CASE TakeFrame
  BY <1>4, <1>8, Taken DEF ecuVars, End
<1>9. CASE ResponseTimeout \/ NoticeCancel
  BY <1>4, <1>9 DEF ResponseTimeout, NoticeCancel, End, ecuVars
<1>10. CASE Cancel \/ EcuAnswers \/ EcuPending
  BY <1>4, <1>10 DEF Cancel, EcuAnswers, EcuPending, hostVars, ecuVars
<1> QED
  BY <1>1, <1>5, <1>6, <1>7, <1>8, <1>9, <1>10
     DEF Next, Host, Environment, EcuRefuses, Lose, Garble

\* What the channel rests on: the types, the order, and whole requests.
ChannelInv == Types /\ OrderOK /\ WholeOK

\* It holds initially.
LEMMA ChannelInitially == Init => ChannelInv
<1> SUFFICES ASSUME Init PROVE ChannelInv
  OBVIOUS
<1>1. Types
  BY TypesInitially
<1>2. Len(bus) = 0 /\ Len(rx) = 0 /\ Len(executed) = 0
  BY DEF Init
<1>3. Last = 0 /\ Floor = 0 /\ Top = 0 /\ Ceiling = 0
  BY DEF Init, Last, Floor, Top, Ceiling
<1>4. OrderOK
  BY <1>2, <1>3 DEF Init, OrderOK, RequestsRise, AnswersRise, Rising
<1>5. WholeOK
  BY <1>2 DEF Init, WholeOK, InOrder, Unbroken, Unmixed
<1> QED
  BY <1>1, <1>4, <1>5 DEF ChannelInv

\* Every step keeps it.
LEMMA ChannelStep ==
    ASSUME ChannelInv, [Next]_vars
    PROVE  ChannelInv'
<1>1. Types /\ RequestsRise /\ AnswersRise /\ WholeOK
  BY DEF ChannelInv, OrderOK
<1>2. Types'
  BY <1>1, TypesStep
<1>3. CASE Next
  <2>1. OrderOK'
    BY <1>1, <1>2, <1>3, RequestsStep, AnswersStep DEF OrderOK
  <2>2. ~leftover' => InOrder'
    BY <1>1, <1>3, InOrderStep DEF WholeOK
  <2>3. faults' = 0 => Unbroken'
    BY <1>1, <1>3, UnbrokenStep DEF WholeOK
  <2> QED
    BY <1>2, <2>1, <2>2, <2>3 DEF ChannelInv, WholeOK
<1>4. CASE UNCHANGED vars
  <2>1. UNCHANGED <<pc, call, svc, cfs, sent, given, bus, rx, asm, todo, executed, leftover, faults>>
    BY <1>4 DEF vars, hostVars, ecuVars
  <2>2. /\ None' = None /\ Request' = Request /\ Unmixed' = Unmixed /\ Last' = Last
        /\ OnBus' = OnBus /\ Ready' = Ready
    BY <2>1 DEF None, Request, Unmixed, Last, OnBus, Ready
  <2>3. Floor' = Floor /\ Top' = Top /\ Ceiling' = Ceiling
    BY <2>1, <2>2 DEF Floor, Top, Ceiling, None
  <2>4. OrderOK'
    BY <1>1, <2>1, <2>2, <2>3 DEF OrderOK, RequestsRise, AnswersRise, IsCarriedOut
  <2>5. WholeOK'
    BY <1>1, <2>1, <2>2 DEF WholeOK, InOrder, Unbroken, Ahead, Awaits
  <2> QED
    BY <1>2, <2>4, <2>5 DEF ChannelInv
<1> QED
  BY <1>3, <1>4

-------------------------------------------------------------------------------
(***************************************************************************)
(* The transport keeps the promises of UdsChannel.                         *)
(***************************************************************************)

Carried == [i \in DOMAIN executed |-> executed[i].of]
Intact  == \A i \in DOMAIN executed : executed[i].whole
Noise   == leftover /\ faults > 0

\* The calls carried out, as the channel sees them.
LEMMA CarriedFacts ==
    ASSUME Types
    PROVE  /\ Carried \in Seq(Nat) /\ Len(Carried) = Len(executed)
           /\ DOMAIN executed = 1..Len(executed) /\ DOMAIN Carried = 1..Len(executed)
           /\ \A i \in 1..Len(executed) : Carried[i] = executed[i].of
           /\ (Carried = <<>> <=> executed = <<>>)
           /\ Last = IF Carried = <<>> THEN 0 ELSE Carried[Len(Carried)]
<1>1. /\ executed \in Seq(Done) /\ Len(executed) \in Nat /\ DOMAIN executed = 1..Len(executed)
      /\ \A i \in 1..Len(executed) : executed[i] \in Done
  BY LenProperties, ElementFacts DEF Types
<1>2. \A d \in Done : d.of \in Nat
  BY DEF Done
<1>3. Carried \in [1..Len(executed) -> Nat]
  BY <1>1, <1>2 DEF Carried
<1>4. Carried \in Seq(Nat) /\ Len(Carried) = Len(executed)
  BY <1>1, <1>3
<1>5. \A i \in 1..Len(executed) : Carried[i] = executed[i].of
  BY <1>1 DEF Carried
<1>6. Carried = <<>> <=> executed = <<>>
  BY <1>1, <1>4, EmptySeq
<1>7. executed # <<>> => Len(executed) \in 1..Len(executed)
  BY <1>1, EmptySeq
<1> QED
  BY <1>1, <1>3, <1>4, <1>5, <1>6, <1>7 DEF Last

\* Every request carried out is whole, in a Boolean way or not.
LEMMA IntactFacts ==
    ASSUME NEW s \in Seq(Done)
    PROVE  (\A i \in DOMAIN s : s[i].whole) <=> (\A i \in 1..Len(s) : s[i].whole = TRUE)
<1>1. DOMAIN s = 1..Len(s) /\ \A i \in 1..Len(s) : s[i] \in Done
  BY LenProperties, ElementFacts
<1>2. \A d \in Done : d.whole \in BOOLEAN
  BY DEF Done
<1> QED
  BY <1>1, <1>2

\* A request is carried out: it is the channel's CarryOut.
LEMMA CarriedOutStep ==
    ASSUME Types, Types', WholeOK', UNCHANGED <<call, leftover, faults>>, NEW a \in Requests,
           Last < a.of, a.of <= call,
           executed' = Append(executed, [of |-> a.of, whole |-> a.whole])
    PROVE  /\ \E c \in (Last + 1)..call : Carried' = Append(Carried, c)
           /\ \/ Intact' <=> Intact
              \/ Intact' <=> (Intact /\ ~Noise)
<1>0. (Intact <=> Unmixed) /\ (Intact' <=> Unmixed')
  BY IntactFacts DEF Intact, Unmixed, Types
<1>1. PICK d \in Done : d = [of |-> a.of, whole |-> a.whole]
  BY DEF Requests, Done
<1>2. /\ Len(executed) \in Nat /\ Len(executed') = Len(executed) + 1
      /\ executed'[Len(executed) + 1] = d /\ d.of = a.of /\ d.whole = a.whole
      /\ \A i \in 1..Len(executed) : executed'[i] = executed[i]
      /\ a.of \in Nat /\ a.whole \in BOOLEAN /\ executed' \in Seq(Done)
  <2>1. d.of = a.of /\ d.whole = a.whole
    BY <1>1
  <2>2. a.of \in Nat /\ a.whole \in BOOLEAN
    BY DEF Requests
  <2>3. executed \in Seq(Done) /\ executed' = Append(executed, d)
    BY <1>1 DEF Types
  <2> QED
    BY <2>1, <2>2, <2>3, AppendFacts
<1>3. /\ Carried \in Seq(Nat) /\ Len(Carried) = Len(executed)
      /\ DOMAIN executed = 1..Len(executed) /\ Last \in Nat
      /\ \A i \in 1..Len(executed) : Carried[i] = executed[i].of
  BY CarriedFacts, BoundTypes
<1>4. a.of \in (Last + 1)..call
  BY <1>2, <1>3 DEF Types
<1>5. Carried' = Append(Carried, a.of)
  <2>1. PICK s : s = Append(Carried, a.of)
    OBVIOUS
  <2>2. /\ s \in Seq(Nat) /\ Len(s) = Len(executed) + 1
        /\ \A i \in 1..Len(executed) : s[i] = executed[i].of
        /\ s[Len(executed) + 1] = a.of
    <3>1. /\ Len(Carried) \in Nat /\ Len(s) = Len(Carried) + 1 /\ s \in Seq(Nat)
          /\ \A i \in 1..Len(Carried) : s[i] = Carried[i]
          /\ s[Len(Carried) + 1] = a.of
      BY <1>2, <1>3, <2>1, AppendFacts
    <3> QED
      BY <1>3, <3>1
  <2>3. DOMAIN executed' = 1..(Len(executed) + 1) /\ DOMAIN s = 1..(Len(executed) + 1)
    BY <1>2, <2>2, LenProperties
  <2>4. \A i \in 1..(Len(executed) + 1) : i \in 1..Len(executed) \/ i = Len(executed) + 1
    BY <1>2
  <2>5. \A i \in 1..(Len(executed) + 1) : s[i] = executed'[i].of
    BY <1>2, <2>2, <2>4
  <2>6. s = [i \in 1..(Len(executed) + 1) |-> s[i]]
    BY <2>2, <2>3
  <2> QED
    BY <2>1, <2>3, <2>5, <2>6 DEF Carried
<1>6. CASE a.whole = TRUE
  <2>1. Unmixed <=> Unmixed'
    <3>1. Unmixed => Unmixed'
      BY <1>6, UnmixedMoves
    <3>2. Unmixed' => Unmixed
      BY <1>2 DEF Unmixed
    <3> QED
      BY <3>1, <3>2
  <2> QED
    BY <1>0, <1>4, <1>5, <2>1
<1>7. CASE a.whole # TRUE
  <2>1. ~Unmixed'
    <3>1. Len(executed) + 1 \in 1..Len(executed')
      BY <1>2
    <3> QED
      BY <1>2, <1>7, <3>1 DEF Unmixed
  <2> QED
    <3>2. Noise
      BY <2>1 DEF WholeOK, InOrder, Unbroken, Noise, Types
    <3> QED
      BY <1>0, <1>4, <1>5, <2>1, <3>2
<1> QED
  BY <1>6, <1>7

\* Once the bus is bad it is not trusted again.
LEMMA NoiseStays ==
    ASSUME Types, Next
    PROVE  /\ Noise' \in {Noise, TRUE}
           /\ UNCHANGED <<leftover, faults>> => Noise' = Noise
<1>1. \/ /\ faults' = faults
         /\ \/ leftover' = leftover
            \/ leftover' = (leftover \/ asm # None \/ bus # <<>>)
      \/ leftover' = leftover /\ faults' = faults + 1
  BY DEF Next, Start, Host, Environment, SendFrame, TakeFrame, ResponseTimeout, NoticeCancel,
         Cancel, EcuReceives, EcuAnswers, EcuPending, EcuRefuses, Lose, Garble, Fault
<1>2. \A n \in Nat : n > 0 => n + 1 > 0
  OBVIOUS
<1>3. Noise => Noise'
  <2>1. leftover => leftover'
    BY <1>1
  <2>2. faults > 0 => faults' > 0
    BY <1>1, <1>2 DEF Types
  <2> QED
    BY <2>1, <2>2 DEF Noise
<1>4. Noise \in BOOLEAN /\ Noise' \in BOOLEAN
  BY DEF Noise
<1>5. UNCHANGED <<leftover, faults>> => Noise' = Noise
  BY DEF Noise
<1> QED
  BY <1>3, <1>4, <1>5

\* A step of the transport, the bus or the ECU is a step of the channel.
LEMMA ChannelNext ==
    ASSUME ChannelInv, ChannelInv', Next
    PROVE  Channel!Next
<1>1. Types /\ Types' /\ RequestsRise /\ AnswersRise /\ WholeOK'
  BY DEF ChannelInv, OrderOK
<1>2. Noise' \in {Noise, TRUE}
  BY <1>1, NoiseStays
<1>3. (pc # "idle") \in BOOLEAN /\ (pc # "idle")' \in BOOLEAN
  OBVIOUS
<1>4. executed' = executed => Carried' = Carried /\ Intact' = Intact
  BY DEF Carried, Intact
<1>5. ASSUME UNCHANGED <<call, given, executed>>, pc' = pc \/ (pc # "idle" /\ pc' # "idle")
      PROVE  Channel!Next
  BY <1>2, <1>4, <1>5 DEF Channel!Next, Carried, Intact, Noise
<1>6. ASSUME UNCHANGED <<call, given, executed>>, pc # "idle", pc' = "idle"
      PROVE  Channel!Next
  <2>1. Channel!Fail
    BY <1>4, <1>6 DEF Channel!Fail, Carried, Intact
  <2> QED
    BY <1>2, <2>1 DEF Channel!Next, Noise
<1>7. CASE \E s \in Services, n \in Cfs : Start(s, n)
  <2>1. pc = "idle" /\ pc' = "send" /\ call' = call + 1 /\ UNCHANGED <<given, executed>>
    BY <1>7 DEF Start, ecuVars
  <2>2. Channel!Ask
    BY <1>4, <2>1 DEF Channel!Ask, Carried, Intact
  <2> QED
    BY <1>2, <2>2 DEF Channel!Next, Noise
<1>8. CASE SendFrame
  BY <1>5, <1>8 DEF SendFrame, ecuVars
<1>9. CASE TakeFrame
  <2>1. PICK a \in Answers :
              /\ a = rx[1] /\ rx # <<>> /\ pc = "poll"
              /\ UNCHANGED executed
              /\ \/ UNCHANGED <<pc, call, given>>
                 \/ \E o \in {"TRANSPORT", "UDS"} : End(o, call)
                 \/ a.info = "positive" /\ End("returned", a.of)
    BY <1>1, <1>9, Taken DEF ecuVars
  <2>2. CASE UNCHANGED <<pc, call, given>>
    BY <1>5, <2>1, <2>2
  <2>3. CASE \E o \in {"TRANSPORT", "UDS"} : End(o, call)
    BY <1>6, <2>1, <2>3 DEF End
  <2>4. CASE a.info = "positive" /\ End("returned", a.of)
    <3>1. pc' = "idle" /\ given' = a.of /\ call' = call /\ pc # "idle"
      BY <2>1, <2>4 DEF End
    <3>2. Len(rx) \in Nat \ {0} /\ 1 \in 1..Len(rx)
      BY <1>1, <2>1, TailFacts DEF Types
    <3>3. IsCarriedOut(a.of) /\ Ready[1] = a.of /\ a.of # 0
      BY <1>1, <2>1, <2>4, <3>2 DEF AnswersRise, Ready
    <3>4. given < a.of
      BY <1>1, <3>2, <3>3 DEF AnswersRise, Rising
    <3>5. PICK i \in 1..Len(executed) : executed[i].of = a.of
      BY <3>3 DEF IsCarriedOut
    <3>6. i \in DOMAIN Carried /\ Carried[i] = a.of
      BY <1>1, <3>5, CarriedFacts
    <3>7. Channel!Return
      <4>1. given \in Nat /\ a.of \in Nat
        BY <1>1 DEF Types, Answers
      <4>2. i \in DOMAIN Carried /\ Carried[i] > given /\ given' = Carried[i]
        BY <3>1, <3>4, <3>6, <4>1
      <4> QED
        BY <1>4, <2>1, <3>1, <4>2 DEF Channel!Return, Carried, Intact
    <3> QED
      BY <1>2, <3>7 DEF Channel!Next, Noise
  <2> QED
    BY <2>1, <2>2, <2>3, <2>4
<1>10. CASE ResponseTimeout \/ NoticeCancel
  <2>1. pc # "idle" /\ pc' = "idle" /\ UNCHANGED <<call, given, executed>>
    BY <1>1, <1>10 DEF ResponseTimeout, NoticeCancel, End, ecuVars, Types
  <2> QED
    BY <1>6, <2>1
<1>11. CASE EcuReceives
  <2>1. UNCHANGED <<pc, call, given, leftover, faults>>
    BY <1>11 DEF EcuReceives, hostVars
  <2>2. CASE UNCHANGED <<todo, executed>>
    BY <1>5, <2>1, <2>2
  <2>3. CASE \E a \in Requests :
                /\ Last < a.of /\ a.of <= call /\ todo' = a /\ todo = None
                /\ executed' = Append(executed, [of |-> a.of, whole |-> a.whole])
    <3>1. /\ \E c \in (Last + 1)..call : Carried' = Append(Carried, c)
          /\ \/ Intact' <=> Intact
             \/ Intact' <=> (Intact /\ ~Noise)
      BY <1>1, <2>1, <2>3, CarriedOutStep
    <3>2. Channel!LastCarried = Last
      BY <1>1, CarriedFacts DEF Channel!LastCarried, Carried
    <3>3. Intact' \in {Intact, Intact /\ ~Noise}
      <4>1. Intact \in BOOLEAN /\ Intact' \in BOOLEAN /\ (Intact /\ ~Noise) \in BOOLEAN
        BY DEF Intact
      <4> QED
        BY <3>1, <4>1
    <3>4. Channel!CarryOut
      BY <2>1, <3>1, <3>2, <3>3 DEF Channel!CarryOut, Carried, Intact, Noise
    <3> QED
      BY <1>2, <3>4 DEF Channel!Next, Noise
  <2> QED
    BY <1>1, <1>11, <2>2, <2>3, ReceiveRises
<1>12. CASE Cancel \/ EcuAnswers \/ EcuPending \/ EcuRefuses \/ Lose \/ Garble
  <2>1. UNCHANGED <<pc, call, given, executed>>
    BY <1>12 DEF Cancel, EcuAnswers, EcuPending, EcuRefuses, Lose, Garble, Fault, hostVars, ecuVars
  <2> QED
    BY <1>5, <2>1
<1> QED
  BY <1>7, <1>8, <1>9, <1>10, <1>11, <1>12 DEF Next, Host, Environment

\* Requests over LIN are carried out in the order they were asked, each at most
\* once, and as they were asked unless a frame was lost after a request had been
\* left unfinished; an answer is returned at most once, and in order.
THEOREM ChannelKept == Spec => KeepsChannel
<1>1. Init => Channel!Init
  BY DEF Init, Channel!Init
<1>2. ChannelInv /\ [Next]_vars => ChannelInv'
  BY ChannelStep
<1>3. ChannelInv /\ ChannelInv' /\ [Next]_vars => [Channel!Next]_(Channel!channelVars)
  <2> SUFFICES ASSUME ChannelInv, ChannelInv', [Next]_vars
               PROVE  [Channel!Next]_(Channel!channelVars)
    OBVIOUS
  <2>1. CASE Next
    BY <2>1, ChannelNext
  <2>2. CASE UNCHANGED vars
    BY <2>2 DEF vars, hostVars, ecuVars, Channel!channelVars
  <2> QED
    BY <2>1, <2>2
<1> QED
  BY <1>1, <1>2, <1>3, ChannelInitially, PTL DEF Spec, KeepsChannel, Channel!Spec

-------------------------------------------------------------------------------
(***************************************************************************)
(* A call that nothing disturbs.  Its frames arrive one after the other,   *)
(* the ECU has as much of its request together as has arrived, and then    *)
(* works on it or has the answer ready, behind what it asked to wait for.  *)
(***************************************************************************)

Arrived == sent - Len(bus)

Coming == \A i \in 1..Len(bus) : bus[i].req = Request /\ bus[i].pos = Arrived + i - 1

Silent == rx = <<>> /\ todo = None

\* Parts of the request have arrived.
Begun == asm # None /\ Base(asm) = Request /\ asm.got = Arrived - 1

IsWait(a) == a.info = "pending" /\ svc = "erase"
IsFinal(a) == a.info = "positive" /\ a.of = call /\ a.svc = svc

\* All of it has: the ECU works on it, or its answer is the last that is ready.
Worked == todo # None /\ Base(todo) = Request /\ \A i \in 1..Len(rx) : IsWait(rx[i])
Answered ==
    /\ todo = None /\ rx # <<>> /\ IsFinal(rx[Len(rx)])
    /\ \A i \in 1..Len(rx) : i # Len(rx) => IsWait(rx[i])

Calm ==
    /\ ~cancelled /\ Arrived \in 0..(cfs + 1) /\ Coming
    /\ Arrived = 0 => Silent
    /\ Arrived # 0 /\ Arrived <= cfs => Silent /\ Begun
    /\ Arrived = cfs + 1 => Worked \/ Answered

CallOK ==
    /\ pc # "idle" => result.outcome = "none"
    /\ pc # "idle" /\ ~disturbed => Calm
    /\ UndisturbedCallReturns

\* The host sends the next frame of the request.
LEMMA CalmSend ==
    ASSUME Types, Calm, SendFrame
    PROVE  Calm'
<1>1. /\ bus' = Append(bus, Frame(sent)) /\ pc = "send" /\ sent' = sent + 1 /\ sent \in Nat
      /\ UNCHANGED <<call, svc, cfs, cancelled, rx, asm, todo>>
  BY DEF SendFrame, ecuVars, Types
<1>2. Frame(sent) \in Frames /\ Frame(sent).pos = sent /\ Frame(sent).req = Request
  BY <1>1, FrameFacts DEF Types
<1>3. /\ Len(bus) \in Nat /\ Len(bus') = Len(bus) + 1 /\ bus'[Len(bus) + 1] = Frame(sent)
      /\ \A i \in 1..Len(bus) : bus'[i] = bus[i]
  BY <1>1, <1>2, AppendFacts DEF Types
<1>4. \A i \in 1..Len(bus') : i \in 1..Len(bus) \/ i = Len(bus) + 1
  BY <1>3
<1>5. Request' = Request /\ None' = None /\ Arrived' = Arrived
  BY <1>1, <1>3 DEF Request, None, Arrived
<1>6. sent = Arrived + (Len(bus) + 1) - 1
  BY <1>1, <1>3 DEF Arrived
<1>7. \A i \in 1..Len(bus') : bus'[i].req = Request /\ bus'[i].pos = Arrived + i - 1
  BY <1>2, <1>3, <1>4, <1>6 DEF Calm, Coming
<1>8. Coming'
  BY <1>5, <1>7 DEF Coming
<1> QED
  BY <1>1, <1>5, <1>8 DEF Calm, Silent, Begun, Worked, Answered, IsWait, IsFinal

\* The next frame arrives, and it is the one that the assembler waits for.
LEMMA CalmReceive ==
    ASSUME Types, Calm, EcuReceives, call # 0
    PROVE  Calm'
<1>1. PICK f \in Frames :
              /\ f = bus[1] /\ Sound(f) /\ bus # <<>> /\ bus' = Tail(bus) /\ todo = None
              /\ \/ Drops(f)
                 \/ \E a \in Requests : Grows(f, a) /\ a.got <= a.n /\ Takes(a)
  BY Received
<1>2. /\ UNCHANGED <<pc, call, svc, cfs, sent, cancelled, rx>>
      /\ Request' = Request /\ None' = None
  BY DEF EcuReceives, hostVars, Request, None
<1>3. /\ Len(bus) \in Nat \ {0} /\ Len(bus') = Len(bus) - 1 /\ 1 \in 1..Len(bus)
      /\ \A i \in 1..Len(bus') : bus'[i] = bus[i + 1] /\ i + 1 \in 1..Len(bus)
  BY <1>1, BusLoses
<1>4. /\ sent \in Nat /\ cfs \in Nat /\ Arrived \in Nat /\ Arrived = sent - Len(bus)
      /\ Arrived' = Arrived + 1
  BY <1>2, <1>3 DEF Types, Calm, Arrived
<1>5. f.req = Request /\ f.pos = Arrived
  <2>1. bus[1].req = Request /\ bus[1].pos = Arrived + 1 - 1
    BY <1>3 DEF Calm, Coming
  <2>2. Arrived + 1 - 1 = Arrived
    BY <1>4
  <2> QED
    BY <1>1, <2>1, <2>2
<1>6. f.pos <= cfs /\ Base(f.req) = f.req
  BY <1>1, <1>5, RequestFacts DEF Sound, Types
<1>7. Silent /\ (Arrived # 0 => Begun)
  BY <1>4, <1>5, <1>6 DEF Calm
<1>8. ~Drops(f)
  BY <1>1, <1>4, <1>5, <1>7 DEF Drops, Fits, Sound, Begun, Types, Requests
<1>9. PICK a \in Requests : Grows(f, a) /\ Takes(a)
  BY <1>1, <1>8
<1>10. Base(a) = Request /\ a.got = Arrived /\ a.of # 0 /\ a.n = cfs
  <2>1. Base(a).n = a.n /\ Request.n = cfs
    BY BaseFacts, RequestFacts DEF Types
  <2>2. CASE f.pos = 0
    <3>1. Base(a) = Base(f.req) /\ a.got = 0 /\ a.of # 0
      BY <1>9, <2>2 DEF Grows
    <3>2. Base(a) = Request
      BY <1>5, <1>6, <3>1
    <3> QED
      BY <1>5, <2>1, <2>2, <3>1, <3>2
  <2>3. CASE f.pos # 0
    <3>1. Base(a) = Base(asm) /\ a.got = asm.got + 1 /\ a.of # 0
      BY <1>9, <2>3 DEF Grows
    <3>2. Base(asm) = Request /\ asm.got = Arrived - 1
      BY <1>5, <1>7, <2>3 DEF Begun
    <3>3. Base(a) = Request /\ a.got = Arrived
      BY <1>4, <3>1, <3>2
    <3> QED
      BY <2>1, <3>1, <3>3
  <2> QED
    BY <2>2, <2>3
<1>11. Coming'
  <2>1. \A i \in 1..Len(bus') : bus'[i].req = Request /\ bus'[i].pos = Arrived + (i + 1) - 1
    BY <1>3 DEF Calm, Coming
  <2>2. \A i \in 1..Len(bus') : Arrived + (i + 1) - 1 = (Arrived + 1) + i - 1
    BY <1>4
  <2> QED
    BY <1>2, <1>4, <2>1, <2>2 DEF Coming
<1>12. Len(rx') = 0 /\ rx' = <<>>
  BY <1>2, <1>7 DEF Silent
<1>13. a # None
  <2>1. None.of = 0
    BY RequestFacts DEF Types
  <2> QED
    BY <1>10, <2>1
<1>14. CASE a.got = a.n /\ todo' = a
  <2>1. Arrived' = cfs' + 1
    BY <1>2, <1>4, <1>10, <1>14
  <2>2. Worked'
    BY <1>2, <1>10, <1>12, <1>13, <1>14 DEF Worked
  <2>3. Arrived' \in 0..(cfs' + 1) /\ Arrived' # 0 /\ ~(Arrived' <= cfs')
    BY <1>2, <1>4, <2>1
  <2> QED
    BY <1>2, <1>11, <2>1, <2>2, <2>3 DEF Calm
<1>15. CASE a.got # a.n /\ asm' = a /\ todo' = todo
  <2>1. Begun'
    BY <1>2, <1>4, <1>10, <1>13, <1>15 DEF Begun
  <2>2. Silent'
    BY <1>2, <1>7, <1>15 DEF Silent
  <2>3. Arrived' \in 0..(cfs' + 1) /\ Arrived' # 0 /\ Arrived' # cfs' + 1
    BY <1>2, <1>4, <1>5, <1>6, <1>10, <1>15
  <2> QED
    BY <1>2, <1>11, <2>1, <2>2, <2>3 DEF Calm
<1> QED
  BY <1>9, <1>14, <1>15 DEF Takes

\* The ECU has the answer, or asks to wait for it.
LEMMA CalmSays ==
    ASSUME Types, Calm, EcuAnswers \/ EcuPending, ~disturbed'
    PROVE  Calm'
<1>1. PICK info \in {"positive", "pending"} :
         /\ todo # None /\ Says(info)
         /\ info = "positive" => todo' = None
         /\ info = "pending" => todo' = todo /\ rx = <<>> /\ todo.svc = "erase"
         /\ UNCHANGED <<pc, call, svc, cfs, sent, cancelled, bus, asm>>
  <2>1. CASE EcuAnswers
    BY <2>1 DEF EcuAnswers, hostVars
  <2>2. CASE EcuPending
    BY <2>2 DEF EcuPending, hostVars, ecuVars
  <2> QED
    BY <2>1, <2>2
<1>2. Request' = Request /\ None' = None /\ Arrived' = Arrived /\ Coming' = Coming
  BY <1>1 DEF Request, None, Arrived, Coming
<1>3. Arrived = cfs + 1 /\ Worked /\ ~Silent
  <2>1. Arrived \in Nat /\ cfs \in Nat /\ Arrived <= cfs + 1 /\ ~Silent /\ ~Answered
    BY <1>1 DEF Types, Calm, Silent, Answered
  <2>2. Arrived # 0 /\ ~(Arrived <= cfs)
    BY <2>1 DEF Calm
  <2> QED
    BY <2>1, <2>2 DEF Calm
<1>4. todo \in Requests /\ Base(todo) = Request /\ todo.of = call /\ todo.svc = svc
  <2>1. Base(todo).of = todo.of /\ Base(todo).svc = todo.svc
    BY BaseFacts DEF Types
  <2> QED
    BY <1>3, <2>1, RequestFacts DEF Worked, Types
<1>5. PICK e \in Answers : /\ e = [of |-> todo.of, svc |-> todo.svc, info |-> info]
                           /\ e.of = call /\ e.svc = svc /\ e.info = info
  <2>1. PICK c \in Nat, s \in Services : c = todo.of /\ s = todo.svc
    BY <1>4 DEF Requests
  <2>2. [of |-> c, svc |-> s, info |-> info] \in Answers
    BY DEF Answers
  <2> QED
    BY <1>4, <2>1, <2>2
<1>6. /\ Len(rx) \in Nat /\ Len(rx') = Len(rx) + 1 /\ rx'[Len(rx')] = e
      /\ \A i \in 1..Len(rx) : rx'[i] = rx[i]
  BY <1>1, <1>5, AppendFacts DEF Types, Says
<1>7. \A i \in 1..Len(rx') : i \in 1..Len(rx) \/ i = Len(rx')
  BY <1>6
<1>8. \A i \in 1..Len(rx') : i # Len(rx') => IsWait(rx'[i])
  BY <1>3, <1>6, <1>7 DEF Worked
<1>9. rx' # <<>>
  BY <1>6, EmptySeq
<1>10. CASE info = "positive"
  <2>1. IsFinal(rx'[Len(rx')])
    BY <1>5, <1>6, <1>10 DEF IsFinal
  <2>2. Answered'
    BY <1>1, <1>2, <1>8, <1>9, <1>10, <2>1 DEF Answered, IsWait, IsFinal
  <2> QED
    BY <1>1, <1>2, <1>3, <2>2 DEF Calm, Types
<1>11. CASE info = "pending"
  <2>1. IsWait(rx'[Len(rx')])
    BY <1>1, <1>4, <1>5, <1>6, <1>11 DEF IsWait
  <2>2. \A i \in 1..Len(rx') : IsWait(rx'[i])
    BY <1>8, <2>1
  <2>3. Worked'
    BY <1>1, <1>2, <1>3, <1>11, <2>2 DEF Worked, IsWait
  <2> QED
    BY <1>1, <1>2, <1>3, <2>3 DEF Calm, Types
<1> QED
  BY <1>10, <1>11

\* The host meets the ECU's wish to wait, or the answer.
LEMMA CalmTake ==
    ASSUME Types, Calm, TakeFrame
    PROVE  \/ /\ Calm' /\ UNCHANGED <<hostVars, disturbed>>
           \/ pc' = "idle" /\ result' = [outcome |-> "returned", of |-> call] /\ call' = call
<1>1. PICK a \in Answers : a = Head(rx) /\ a = rx[1] /\ rx # <<>> /\ rx' = Tail(rx)
  BY TailFacts DEF TakeFrame, Types
<1>2. /\ Len(rx) \in Nat \ {0} /\ Len(rx') = Len(rx) - 1 /\ 1 \in 1..Len(rx) /\ rx' \in Seq(Answers)
      /\ \A i \in 1..Len(rx') : rx'[i] = rx[i + 1] /\ i + 1 \in 1..Len(rx)
  BY <1>1, TailFacts DEF Types
<1>3. UNCHANGED <<cancelled, bus, asm, todo, disturbed>> /\ pc = "poll"
  BY DEF TakeFrame, ecuVars
<1>4. Arrived = cfs + 1 /\ (Worked \/ Answered)
  <2>1. Arrived \in Nat /\ cfs \in Nat /\ Arrived <= cfs + 1 /\ ~Silent
    BY <1>1 DEF Types, Calm, Silent
  <2>2. Arrived # 0 /\ ~(Arrived <= cfs)
    BY <2>1 DEF Calm
  <2> QED
    BY <2>1, <2>2 DEF Calm
<1>5. IsWait(a) \/ (Answered /\ Len(rx) = 1 /\ IsFinal(a))
  BY <1>1, <1>2, <1>4 DEF Worked, Answered
<1>6. CASE IsWait(a)
  <2>1. UNCHANGED hostVars
    BY <1>1, <1>6 DEF IsWait, TakeFrame, Waits, AllowsPending
  <2>2. /\ UNCHANGED <<pc, call, svc, cfs, sent>> /\ Request' = Request /\ None' = None
        /\ Arrived' = Arrived /\ Coming' = Coming
    BY <1>3, <2>1 DEF hostVars, Request, None, Arrived, Coming
  <2>3. CASE Worked
    <3>1. \A i \in 1..Len(rx') : IsWait(rx'[i])
      BY <1>2, <2>3 DEF Worked
    <3>2. Worked'
      BY <1>3, <2>2, <2>3, <3>1 DEF Worked, IsWait
    <3> QED
      BY <1>3, <1>4, <2>1, <2>2, <3>2 DEF Calm, Types
  <2>4. CASE Answered
    <3>1. Len(rx) # 1
      BY <1>1, <1>6, <2>4 DEF Answered, IsWait, IsFinal
    <3>2. /\ Len(rx') \in 1..Len(rx') /\ rx' # <<>> /\ Len(rx') + 1 = Len(rx)
          /\ \A i \in 1..Len(rx') : i # Len(rx') => i + 1 # Len(rx)
      BY <1>2, <3>1, EmptySeq
    <3>3. IsFinal(rx'[Len(rx')]) /\ \A i \in 1..Len(rx') : i # Len(rx') => IsWait(rx'[i])
      BY <1>2, <2>4, <3>2 DEF Answered
    <3>4. Answered'
      BY <1>3, <2>2, <2>4, <3>2, <3>3 DEF Answered, IsWait, IsFinal
    <3> QED
      BY <1>3, <1>4, <2>1, <2>2, <3>4 DEF Calm, Types
  <2> QED
    BY <1>4, <2>3, <2>4
<1>7. CASE IsFinal(a)
  <2>1. End("returned", a.of) /\ a.of = call
    BY <1>1, <1>7 DEF IsFinal, TakeFrame
  <2> QED
    BY <2>1 DEF End
<1> QED
  BY <1>5, <1>6, <1>7

\* A call that nothing disturbs stays calm until it has its answer.
LEMMA CallStep ==
    ASSUME Types, Types', CallOK, Next
    PROVE  CallOK'
<1>1. /\ pc # "idle" => result.outcome = "none"
      /\ pc # "idle" /\ ~disturbed => Calm
      /\ UndisturbedCallReturns
  BY DEF CallOK
<1>2. CASE \E s \in Services, n \in Cfs : Start(s, n)
  <2>1. PICK s \in Services, n \in Cfs : Start(s, n)
    BY <1>2
  <2>2. /\ result'.outcome = "none" /\ cancelled' = FALSE /\ disturbed' = Underway
        /\ UNCHANGED <<bus, rx, todo>> /\ sent' = 0 /\ cfs' \in Nat
    BY <2>1 DEF Start, ecuVars, Types
  <2>3. ~disturbed' => Calm'
    <3> HAVE ~disturbed'
    <3>1. bus = <<>> /\ rx = <<>> /\ todo = None
      BY <2>2 DEF Underway
    <3>2. bus' = <<>> /\ Len(bus') = 0 /\ None' = None
      BY <2>2, <3>1 DEF None
    <3>3. Arrived' = 0 - 0
      BY <2>2, <3>2 DEF Arrived
    <3>6. 0 - 0 = 0 /\ \A m \in Nat : 0 \in 0..(m + 1) /\ 0 # m + 1
      OBVIOUS
    <3>4. Arrived' = 0 /\ Arrived' \in 0..(cfs' + 1) /\ Arrived' # cfs' + 1
      BY <2>2, <3>3, <3>6
    <3>5. Coming' /\ Silent'
      BY <2>2, <3>1, <3>2 DEF Coming, Silent
    <3> QED
      BY <2>2, <3>4, <3>5 DEF Calm
  <2> QED
    BY <2>2, <2>3 DEF CallOK, UndisturbedCallReturns
<1>3. ASSUME UNCHANGED <<pc, result, call>>, ~disturbed' => ~disturbed /\ (pc # "idle" => Calm')
      PROVE  CallOK'
  BY <1>1, <1>3 DEF CallOK, UndisturbedCallReturns
<1>4. CASE SendFrame
  <2>1. pc = "send" /\ pc' # "idle" /\ UNCHANGED <<result, disturbed>>
    BY <1>4 DEF SendFrame
  <2> QED
    BY <1>1, <1>4, <2>1, CalmSend DEF CallOK, UndisturbedCallReturns
<1>5. CASE TakeFrame
  <2>1. UNCHANGED disturbed /\ pc = "poll"
    BY <1>5 DEF TakeFrame
  <2>2. CASE disturbed
    <3>1. \/ UNCHANGED <<pc, result>>
          \/ pc' = "idle"
      BY <1>5, Taken DEF End
    <3> QED
      BY <1>1, <2>1, <2>2, <3>1 DEF CallOK, UndisturbedCallReturns
  <2>3. CASE ~disturbed
    <3>1. \/ /\ Calm' /\ UNCHANGED <<pc, result, call>>
          \/ pc' = "idle" /\ result' = [outcome |-> "returned", of |-> call] /\ call' = call
      BY <1>1, <1>5, <2>1, <2>3, CalmTake DEF hostVars
    <3> QED
      BY <1>1, <2>1, <2>3, <3>1 DEF CallOK, UndisturbedCallReturns
  <2> QED
    BY <2>2, <2>3
<1>6. CASE ResponseTimeout
  <2>1. pc = "poll" /\ pc' = "idle" /\ disturbed' = (disturbed \/ Underway)
    BY <1>6 DEF ResponseTimeout, End
  <2>2. disturbed'
    <3> SUFFICES ASSUME ~disturbed, ~Underway
                 PROVE  FALSE
      BY <2>1
    <3>1. Calm /\ Len(bus) = 0 /\ Silent
      BY <1>1, <2>1 DEF Underway, Silent
    <3>2. Arrived = cfs + 1
      BY <2>1, <3>1 DEF Arrived, Types
    <3> QED
      BY <3>1, <3>2 DEF Calm, Worked, Answered, Silent
  <2> QED
    BY <2>1, <2>2 DEF CallOK, UndisturbedCallReturns
<1>7. CASE NoticeCancel
  <2>1. pc # "idle" /\ pc' = "idle" /\ UNCHANGED disturbed /\ cancelled
    BY <1>7 DEF NoticeCancel, End
  <2>2. disturbed'
    BY <1>1, <2>1 DEF Calm
  <2> QED
    BY <2>1, <2>2 DEF CallOK, UndisturbedCallReturns
<1>8. CASE Cancel \/ EcuRefuses \/ Lose \/ Garble
  <2>1. disturbed' /\ UNCHANGED <<pc, result, call>>
    BY <1>8 DEF Cancel, EcuRefuses, Lose, Garble, Fault, hostVars
  <2> QED
    BY <1>3, <2>1
<1>9. CASE EcuReceives
  <2>1. UNCHANGED <<pc, result, call, disturbed>>
    BY <1>9 DEF EcuReceives, hostVars
  <2>2. ~disturbed /\ pc # "idle" => Calm'
    BY <1>1, <1>9, CalmReceive DEF Types
  <2> QED
    BY <1>3, <2>1, <2>2
<1>10. CASE EcuAnswers \/ EcuPending
  <2>1. UNCHANGED <<pc, result, call>> /\ (~disturbed' => ~disturbed)
    <3>1. CASE EcuAnswers
      BY <3>1 DEF EcuAnswers, hostVars
    <3>2. CASE EcuPending
      <4>1. disturbed' = (disturbed \/ todo.svc # "erase")
        BY <3>2 DEF EcuPending
      <4> QED
        BY <3>2, <4>1 DEF EcuPending, hostVars
    <3> QED
      BY <1>10, <3>1, <3>2
  <2>2. ~disturbed' /\ pc # "idle" => Calm'
    BY <1>1, <1>10, <2>1, CalmSays
  <2> QED
    BY <1>3, <2>1, <2>2
<1> QED
  BY <1>2, <1>4, <1>5, <1>6, <1>7, <1>8, <1>9, <1>10 DEF Next, Host, Environment

\* A call over LIN that nothing disturbs, neither a cancellation nor a fault nor
\* what an earlier call left on its way, returns the answer to this very call.
THEOREM CallReturns == Spec => []UndisturbedCallReturns
<1>1. Init => Types /\ CallOK
  BY TypesInitially DEF Init, CallOK, UndisturbedCallReturns
<1>2. Types /\ CallOK /\ [Next]_vars => (Types /\ CallOK)'
  <2> SUFFICES ASSUME Types, CallOK, [Next]_vars
               PROVE  (Types /\ CallOK)'
    OBVIOUS
  <2>1. Types'
    BY TypesStep
  <2>2. CASE Next
    BY <2>1, <2>2, CallStep
  <2>3. CASE UNCHANGED vars
    <3>1. /\ UNCHANGED <<pc, call, svc, cfs, sent, result, cancelled, bus, rx, asm, todo, disturbed>>
          /\ Request' = Request /\ None' = None /\ Arrived' = Arrived
      BY <2>3 DEF vars, hostVars, ecuVars, Request, None, Arrived
    <3>2. Calm' = Calm
      BY <3>1 DEF Calm, Coming, Silent, Begun, Worked, Answered, IsWait, IsFinal
    <3> QED
      BY <2>1, <3>1, <3>2 DEF CallOK, UndisturbedCallReturns
  <2> QED
    BY <2>1, <2>2, <2>3
<1>3. CallOK => UndisturbedCallReturns
  BY DEF CallOK
<1> QED
  BY <1>1, <1>2, <1>3, PTL DEF Spec
===============================================================================
