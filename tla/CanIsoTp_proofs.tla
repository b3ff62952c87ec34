---------------------------- MODULE CanIsoTp_proofs ----------------------------
(***************************************************************************)
(* What TLAPS proves of CanIsoTp for any number of calls, faults and       *)
(* frames of a payload, any block sizes and any modulus of the frame       *)
(* number: the host stays within what the ECU grants, an answer is made of *)
(* its own frames, a call that nothing disturbs returns its own answer and *)
(* never waits for a frame that is gone, and the transport keeps the       *)
(* promises of UdsChannel.                                                 *)
(***************************************************************************)
EXTENDS CanIsoTp, SequenceTheorems, TLAPS

Infos  == {"request", "go", "wait", "overflow", "pending", "positive", "negative"}
Frames == [type : {"SF", "FF", "CF", "FC"}, of : Nat, svc : Services, n : Nat, pos : Nat,
           info : Infos]
Payloads == [of : Nat, svc : Services, n : Nat, got : Nat, whole : BOOLEAN,
             info : Infos \cup {"none", "owed", "going"}, left : Int]
Done    == [of : Nat, whole : BOOLEAN]
Results == [outcome : {"none", "returned", "TRANSPORT", "UDS", "cancelled"}, of : Nat,
            whole : BOOLEAN]

\* A frame as it is sent, and what the ECU says in one.
Sound(f) ==
    /\ f.of # 0
    /\ f.type = "FF" => f.n # 0 /\ f.pos = 0
Said(f) ==
    /\ Sound(f)
    /\ f.type = "SF" => f.info \in {"positive", "negative", "pending"}
    /\ f.type \in {"FF", "CF"} => f.info = "positive"

Types ==
    /\ pc \in {"idle", "first", "awaitFC", "sendCF", "poll", "assemble"}
    /\ call \in 0..MaxCalls /\ svc \in Services /\ cfs \in Cfs \cup {0}
    /\ attempt \in 1..Attempts /\ waits \in 0..MaxWaits
    /\ sent \in 0..cfs /\ inBlock \in 0..sent /\ block \in Nat
    /\ partial \in Payloads /\ unexpected \in {"none", "TRANSPORT", "UDS"}
    /\ result \in Results /\ cancelled \in BOOLEAN
    /\ rx \in Seq(Frames) /\ inbox \in Seq(Frames)
    /\ asm \in Payloads /\ todo \in Payloads /\ out \in Payloads /\ executed \in Seq(Done)
    /\ given \in Nat /\ faults \in Nat
    /\ disturbed \in BOOLEAN /\ leftover \in BOOLEAN /\ overrun \in BOOLEAN
    /\ pc # "idle" => call # 0
    /\ pc \in {"idle", "first"} => sent = 0
    /\ pc \in {"awaitFC", "sendCF"} => sent < cfs
    /\ pc \in {"poll", "assemble"} => sent = cfs
    /\ pc = "sendCF" => block = 0 \/ inBlock < block
    /\ pc = "assemble" <=> partial # None
    /\ partial # None => partial.info = "positive"
    /\ \A i \in 1..Len(rx) : Said(rx[i])
    /\ \A i \in 1..Len(inbox) : Sound(inbox[i]) /\ inbox[i].of <= call

\* The ECU is at one thing at a time: it receives a request, carries it out,
\* or sends the rest of an answer.
OneThing ==
    /\ asm # None => todo = None /\ out = None /\ asm.of # 0
    /\ todo # None => out = None /\ todo.of # 0 /\ todo.got = 0
    /\ out # None => out.of # 0

-------------------------------------------------------------------------------
(* Sequences, frames and payloads.                                         *)

\* A sequence without its head.
LEMMA TailFacts ==
    ASSUME NEW S, NEW s \in Seq(S), s # <<>>
    PROVE  /\ Len(s) \in Nat \ {0} /\ Tail(s) \in Seq(S)
           /\ Len(Tail(s)) = Len(s) - 1 /\ Head(s) = s[1] /\ Head(s) \in S
           /\ \A i \in 1..Len(Tail(s)) : Tail(s)[i] = s[i + 1] /\ i + 1 \in 1..Len(s)
BY EmptySeq, HeadTailProperties, LenProperties

\* A sequence with one element more.
LEMMA AppendFacts ==
    ASSUME NEW S, NEW s \in Seq(S), NEW e \in S
    PROVE  /\ Len(s) \in Nat /\ Len(Append(s, e)) = Len(s) + 1 /\ Append(s, e) \in Seq(S)
           /\ \A i \in 1..Len(s) : Append(s, e)[i] = s[i]
           /\ Append(s, e)[Len(s) + 1] = e
BY AppendProperties, LenProperties

\* What is in a sequence.
LEMMA ElementFacts ==
    ASSUME NEW S, NEW s \in Seq(S)
    PROVE  Len(s) \in Nat /\ \A i \in 1..Len(s) : s[i] \in S
BY ElementOfSeq, LenProperties

\* The elements of a sequence that has grown, or lost its head.
LEMMA IndexFacts ==
    \A m, n \in Nat :
        /\ m = n - 1 => \A i \in 1..m : i + 1 \in 1..n
        /\ m = n + 1 => \A i \in 1..m : i \in 1..n \/ i = n + 1
OBVIOUS

\* The fields of a frame, and of the payload that it begins.
LEMMA FrameIs ==
    ASSUME NEW type, NEW of, NEW s, NEW n, NEW pos, NEW info,
           NEW f, f = Frame(type, of, s, n, pos, info)
    PROVE  /\ f.type = type /\ f.of = of /\ f.svc = s /\ f.n = n /\ f.pos = pos /\ f.info = info
           /\ type \in {"SF", "FF", "CF", "FC"} /\ of \in Nat /\ s \in Services /\ n \in Nat
                /\ pos \in Nat /\ info \in Infos => f \in Frames
BY DEF Frame, Frames

\* What no payload is.
LEMMA NoneIs ==
    /\ None \in Payloads /\ None.of = 0 /\ None.got = 0 /\ None.whole = TRUE /\ None.left = 0
    /\ None.n = 0
BY DEF None, Payloads, Services

\* A payload at its start.
LEMMA StartedIs ==
    ASSUME NEW f, f \in Frames \/ f \in Payloads, NEW a, a = Started(f)
    PROVE  /\ a \in Payloads /\ a.of = f.of /\ a.svc = f.svc /\ a.n = f.n /\ a.got = 0
           /\ a.whole = TRUE /\ a.info = f.info /\ a.left = 0
<1>1. f.of \in Nat /\ f.svc \in Services /\ f.n \in Nat /\ f.info \in Infos \cup {"none", "owed", "going"}
  BY DEF Frames, Payloads
<1> QED
  BY <1>1 DEF Started, Payloads

\* A payload with one frame more.
Longer(a, f, e) ==
    /\ e \in Payloads /\ e.of = a.of /\ e.svc = a.svc /\ e.n = a.n /\ e.got = a.got + 1
    /\ e.info = a.info /\ e.left = a.left
    /\ e.whole = TRUE <=> a.whole = TRUE /\ f.of = a.of /\ f.pos = a.got + 1

LEMMA ExtendedIs ==
    ASSUME NEW a \in Payloads, NEW f \in Frames, NEW e, e = Extended(a, f)
    PROVE  Longer(a, f, e)
<1> DEFINE g == a.got + 1
           w == a.whole /\ f.of = a.of /\ f.pos = a.got + 1
<1>1. g \in Nat /\ w \in BOOLEAN
  BY DEF Payloads
<1>2. e = [a EXCEPT !.got = g, !.whole = w]
  BY DEF Extended
<1>3. w = TRUE <=> a.whole = TRUE /\ f.of = a.of /\ f.pos = a.got + 1
  BY DEF Payloads
<1> HIDE DEF g, w
<1>4. /\ e \in Payloads /\ e.of = a.of /\ e.svc = a.svc /\ e.n = a.n /\ e.got = g
      /\ e.info = a.info /\ e.left = a.left /\ e.whole = w
  BY <1>1, <1>2 DEF Payloads
<1> QED
  BY <1>3, <1>4 DEF g, Longer

-------------------------------------------------------------------------------
(***************************************************************************)
(* The steps, flattened: what a step does with the frame it takes.         *)
(***************************************************************************)
IsGo(f) == f.type = "FC" /\ f.info = "go"

\* A call ends.
Ends(o, of, w) ==
    /\ pc' = "idle" /\ partial' = None /\ unexpected' = "none"
    /\ attempt' = 1 /\ waits' = 0 /\ sent' = 0 /\ inBlock' = 0 /\ block' = 0
    /\ call' = call /\ svc' = svc /\ cfs' = cfs
    /\ result' \in Results
    /\ result'.outcome = o /\ result'.of = of /\ result'.whole = w
    /\ given' = IF o = "returned" THEN of ELSE given

LEMMA EndIs ==
    ASSUME NEW o \in {"returned", "TRANSPORT", "UDS", "cancelled"}, NEW of \in Nat,
           NEW w \in BOOLEAN, End(o, of, w)
    PROVE  Ends(o, of, w)
BY DEF End, Ends, Results

\* A frame is taken from the queue, and the bus and the ECU know nothing of it.
Reads(f) ==
    /\ f = rx[1] /\ rx # <<>> /\ rx' = Rest /\ ~cancelled
    /\ UNCHANGED <<cancelled, asm, todo, out, executed, overrun, disturbed, leftover, faults>>

\* What only the frame being read can change.
SameSending == UNCHANGED <<call, svc, cfs, attempt, sent, inBlock, block, result, given>>

\* Waiting for flow control: the host waits on, goes on, or gives up.
LEMMA TakeFlowControlIs ==
    ASSUME Types, TakeFlowControl
    PROVE  \E f \in Frames :
              /\ Reads(f) /\ pc = "awaitFC" /\ inbox' = inbox
              /\ \/ /\ ~IsGo(f) /\ waits' \in 0..MaxWaits
                    /\ SameSending /\ UNCHANGED <<pc, partial, unexpected>>
                 \/ /\ IsGo(f) /\ pc' = "sendCF" /\ block' = f.n /\ inBlock' = 0
                    /\ UNCHANGED <<call, svc, cfs, attempt, waits, sent, partial, unexpected,
                                   result, given>>
                 \/ f.type = "FC" /\ ~IsGo(f) /\ Ends("TRANSPORT", call, TRUE)
<1>1. PICK f \in Frames : f = Head(rx) /\ f = rx[1]
  BY TailFacts DEF TakeFlowControl, Types
<1>2. Reads(f) /\ pc = "awaitFC" /\ inbox' = inbox
  BY <1>1 DEF TakeFlowControl, Reads, ecuVars
<1>3. waits \in 0..MaxWaits /\ call \in Nat /\ (waits < MaxWaits => waits + 1 \in 0..MaxWaits)
  BY ConstantsAssumption DEF Types
<1>4. \/ f.type # "FC" /\ UNCHANGED hostVars
      \/ /\ IsGo(f) /\ pc' = "sendCF" /\ block' = f.n /\ inBlock' = 0
         /\ UNCHANGED <<call, svc, cfs, attempt, waits, sent, partial, unexpected, result, given>>
      \/ /\ ~IsGo(f) /\ waits < MaxWaits /\ waits' = waits + 1
         /\ UNCHANGED <<pc, call, svc, cfs, attempt, sent, inBlock, block, partial, unexpected,
                        result, given>>
      \/ f.type = "FC" /\ ~IsGo(f) /\ End("TRANSPORT", call, TRUE)
  BY <1>1 DEF TakeFlowControl, IsGo, WaitsLeft, Raise
<1> QED
  BY <1>2, <1>3, <1>4, EndIs DEF hostVars, SameSending, IsGo

\* The host goes on waiting for a response.
Ignores ==
    /\ pc' = "poll" /\ partial' = None /\ unexpected' \in {"none", "TRANSPORT", "UDS"}
    /\ waits' = waits /\ SameSending

\* Waiting for a response: the host starts to assemble one, waits on, gives up,
\* or returns it.
LEMMA PollIs ==
    ASSUME Types, Poll
    PROVE  \E f \in Frames :
              /\ Reads(f) /\ pc = "poll"
              /\ \/ /\ f.type = "FF" /\ inbox' = Append(inbox, Frame("FC", call, svc, 0, 0, "go"))
                    /\ pc' = "assemble" /\ partial' = Started(f)
                    /\ UNCHANGED <<unexpected, waits>> /\ SameSending
                 \/ /\ f.type # "FF" /\ ~(f.type = "SF" /\ f.info = "positive" /\ f.svc = svc)
                    /\ inbox' = inbox /\ Ignores
                 \/ /\ f.type # "FF"
                    /\ f.type = "SF" => f.info # "positive" /\ ~(f.info = "pending" /\ svc = "erase")
                    /\ inbox' = inbox /\ \E o \in {"TRANSPORT", "UDS"} : Ends(o, call, TRUE)
                 \/ /\ f.type = "SF" /\ f.info = "positive" /\ f.svc = svc
                    /\ inbox' = inbox /\ Ends("returned", f.of, TRUE)
<1>1. PICK f \in Frames : f = Head(rx) /\ f = rx[1] /\ Said(f)
  <2>1. rx \in Seq(Frames) /\ rx # <<>>
    BY DEF Poll, Types
  <2>2. 1 \in 1..Len(rx)
    BY <2>1, TailFacts
  <2> QED
    BY <2>1, <2>2, TailFacts DEF Types
<1>2. Reads(f) /\ pc = "poll"
  BY <1>1 DEF Poll, Reads, ecuVars
<1>3. f.type \in {"SF", "FF", "CF", "FC"} /\ f.of \in Nat /\ call \in Nat /\ unexpected \in {"none", "TRANSPORT", "UDS"}
  BY DEF Types, Frames
<1>4. \/ f.type = "SF" /\ Answer(Started(f)) /\ inbox' = inbox
      \/ /\ f.type = "FF" /\ inbox' = Append(inbox, Frame("FC", call, svc, 0, 0, "go"))
         /\ pc' = "assemble" /\ partial' = Started(f) /\ unexpected' = unexpected /\ Goon
      \/ f.type \in {"CF", "FC"} /\ Invalid /\ inbox' = inbox
  BY <1>1, <1>3 DEF Poll
<1>5. CASE f.type = "SF" /\ Answer(Started(f)) /\ inbox' = inbox
  <2>1. PICK a : a = Started(f) /\ a.info = f.info /\ a.svc = f.svc /\ a.of = f.of /\ a.whole = TRUE
    BY StartedIs
  <2>2. a.info \in {"positive", "negative", "pending"}
    BY <1>1, <1>5, <2>1 DEF Said
  <2>3. \/ /\ ~(a.info = "positive" /\ a.svc = svc) /\ pc' = "poll" /\ partial' = None /\ Goon
           /\ unexpected' = unexpected \/ unexpected' = "UDS"
        \/ /\ a.info \in {"pending", "negative"} /\ ~(a.info = "pending" /\ svc = "erase")
           /\ End("UDS", call, TRUE)
        \/ a.info = "positive" /\ a.svc = svc /\ End("returned", a.of, a.whole)
    BY <1>5, <2>1, <2>2 DEF Answer, WaitsOn, Raise
  <2> QED
    BY <1>2, <1>3, <1>5, <2>1, <2>3, EndIs DEF Ignores, Goon, SameSending
<1>6. CASE f.type \in {"CF", "FC"} /\ Invalid /\ inbox' = inbox
  BY <1>2, <1>3, <1>6, EndIs DEF Invalid, Raise, Ignores, Goon, SameSending
<1>7. CASE f.type = "FF" /\ inbox' = Append(inbox, Frame("FC", call, svc, 0, 0, "go"))
           /\ pc' = "assemble" /\ partial' = Started(f) /\ unexpected' = unexpected /\ Goon
  BY <1>2, <1>7 DEF Goon, SameSending
<1> QED
  BY <1>4, <1>5, <1>6, <1>7

\* Assembling a response: the host adds a frame, waits for another response,
\* gives up, or returns the response.
LEMMA AssembleIs ==
    ASSUME Types, Assemble
    PROVE  \E f \in Frames, a \in Payloads :
              /\ Reads(f) /\ pc = "assemble" /\ partial # None /\ inbox' = inbox
              /\ a = Extended(partial, f)
              /\ \/ /\ Expected(partial, f) /\ partial.got + 1 # partial.n
                    /\ partial' = a /\ UNCHANGED <<pc, unexpected, waits>> /\ SameSending
                 \/ /\ ~Expected(partial, f) \/ partial.svc # svc
                    /\ Ignores
                 \/ ~Expected(partial, f) /\ Ends("TRANSPORT", call, TRUE)
                 \/ /\ Expected(partial, f) /\ partial.got + 1 = partial.n /\ partial.svc = svc
                    /\ Ends("returned", partial.of, a.whole)
<1>1. PICK f \in Frames : f = Head(rx) /\ f = rx[1]
  BY TailFacts DEF Assemble, Types
<1>2. partial \in Payloads /\ partial # None /\ partial.info = "positive" /\ call \in Nat
      /\ unexpected \in {"none", "TRANSPORT", "UDS"}
  BY DEF Assemble, Types
<1>3. PICK a \in Payloads : a = Extended(partial, f) /\ a.of = partial.of /\ a.svc = partial.svc
                            /\ a.info = "positive" /\ a.of \in Nat /\ a.whole \in BOOLEAN
  <2>1. PICK a : a = Extended(partial, f)
    OBVIOUS
  <2>2. a \in Payloads /\ a.of = partial.of /\ a.svc = partial.svc /\ a.info = "positive"
    <3>1. Longer(partial, f, a)
      BY <1>2, <2>1, ExtendedIs
    <3> QED
      BY <1>2, <3>1 DEF Longer
  <2>3. a.of \in Nat /\ a.whole \in BOOLEAN
    BY <2>2 DEF Payloads
  <2> QED
    BY <2>1, <2>2, <2>3
<1>4. Reads(f) /\ pc = "assemble" /\ inbox' = inbox
  BY <1>1 DEF Assemble, Reads, ecuVars
<1>5. \/ ~Expected(partial, f) /\ Invalid
      \/ Expected(partial, f) /\ partial.got + 1 = partial.n /\ Answer(a)
      \/ /\ Expected(partial, f) /\ partial.got + 1 # partial.n
         /\ partial' = a /\ UNCHANGED <<pc, unexpected>> /\ Goon
  BY <1>1, <1>3 DEF Assemble, Broken
<1>6. Answer(a) =>
        \/ a.svc # svc /\ pc' = "poll" /\ partial' = None /\ unexpected' = "UDS" /\ Goon
        \/ a.svc = svc /\ End("returned", a.of, a.whole)
  BY <1>3 DEF Answer, WaitsOn
<1>7. Invalid => Ignores \/ Ends("TRANSPORT", call, TRUE)
  BY <1>2, EndIs DEF Invalid, Raise, Ignores, Goon, SameSending
<1>8. CASE ~Expected(partial, f) /\ Invalid
  BY <1>2, <1>3, <1>4, <1>7, <1>8
<1>9. CASE Expected(partial, f) /\ partial.got + 1 = partial.n /\ Answer(a)
  BY <1>2, <1>3, <1>4, <1>6, <1>9, EndIs DEF Ignores, Goon, SameSending
<1>10. CASE Expected(partial, f) /\ partial.got + 1 # partial.n
            /\ partial' = a /\ UNCHANGED <<pc, unexpected>> /\ Goon
  BY <1>2, <1>3, <1>4, <1>10 DEF Goon, SameSending
<1> QED
  BY <1>5, <1>8, <1>9, <1>10

\* The ECU takes a frame from the bus.
Hears(f) ==
    /\ f = inbox[1] /\ inbox # <<>> /\ inbox' = Tail(inbox) /\ rx' = rx
    /\ UNCHANGED <<pc, call, svc, cfs, attempt, waits, sent, inBlock, block, partial, unexpected,
                   result, given, cancelled, disturbed, leftover, faults>>

\* It has a request a after a consecutive frame f.
Grown(a, f) ==
    /\ asm # None /\ Expected(asm, f)
    /\ a.of = asm.of /\ a.svc = asm.svc /\ a.n = asm.n /\ a.got = asm.got + 1
    /\ a.left = asm.left - 1 /\ a.info = asm.info
    /\ a.whole = TRUE <=> asm.whole = TRUE /\ f.of = asm.of /\ f.pos = asm.got + 1
    /\ overrun' = (overrun \/ asm.left <= 0)

\* A request that is complete is carried out.
CarriesOut(a) ==
    /\ todo' = Started(a) /\ asm' = None
    /\ executed' = Append(executed, [of |-> a.of, whole |-> a.whole])

\* What the ECU does with a frame.
HearsSingle(f) ==
    /\ f.type = "SF" /\ todo = None /\ CarriesOut(Started(f)) /\ out' = None /\ overrun' = overrun
HearsFirst(f) ==
    /\ f.type = "FF" /\ todo = None /\ asm' = Started(f) /\ out' = None
    /\ UNCHANGED <<todo, executed, overrun>>
HearsNext(f, a) ==
    /\ f.type = "CF" /\ out' = out /\ Grown(a, f)
    /\ \/ a.got = a.n /\ CarriesOut(a)
       \/ a.got # a.n /\ asm' = a /\ UNCHANGED <<todo, executed>>
HearsWrong(f) ==
    /\ f.type = "CF" /\ (asm = None \/ ~Expected(asm, f))
    /\ asm' = None /\ UNCHANGED <<todo, out, executed, overrun>>
HearsGrant(f) ==
    /\ f.type = "FC" /\ out' = (IF out = None THEN None ELSE [out EXCEPT !.info = "going"])
    /\ UNCHANGED <<asm, todo, executed, overrun>>

LEMMA EcuReceivesIs ==
    ASSUME Types, EcuReceives
    PROVE  \E f \in Frames :
              /\ Hears(f) /\ Sound(f) /\ f.of <= call
              /\ \/ HearsSingle(f) \/ HearsFirst(f) \/ HearsWrong(f) \/ HearsGrant(f)
                 \/ \E a \in Payloads : HearsNext(f, a)
<1>1. PICK f \in Frames : f = Head(inbox) /\ f = inbox[1] /\ Sound(f) /\ f.of <= call
  <2>1. inbox \in Seq(Frames) /\ inbox # <<>>
    BY DEF EcuReceives, Types
  <2>2. 1 \in 1..Len(inbox)
    BY <2>1, TailFacts
  <2> QED
    BY <2>1, <2>2, TailFacts DEF Types
<1>2. Hears(f)
  BY <1>1 DEF EcuReceives, Hears, hostVars
<1>3. f.type \in {"SF", "FF", "CF", "FC"} /\ asm \in Payloads /\ overrun \in BOOLEAN
  BY DEF Types, Frames
<1>4. CASE f.type = "SF"
  <2>1. /\ todo = None /\ todo' = Started(f) /\ asm' = None /\ out' = None /\ overrun' = overrun
        /\ executed' = Append(executed, [of |-> f.of, whole |-> TRUE])
    BY <1>1, <1>4 DEF EcuReceives
  <2>2. PICK a : a = Started(f)
    OBVIOUS
  <2>3. a.of = f.of /\ a.whole = TRUE /\ Started(a) = Started(f)
    BY <2>2, StartedIs DEF Started
  <2>4. CarriesOut(a)
    BY <2>1, <2>3 DEF CarriesOut
  <2> QED
    BY <1>1, <1>2, <1>4, <2>1, <2>2, <2>4 DEF HearsSingle
<1>5. CASE f.type = "FF"
  <2>1. HearsFirst(f)
    BY <1>1, <1>5 DEF EcuReceives, HearsFirst
  <2> QED
    BY <1>1, <1>2, <2>1
<1>6. CASE f.type = "FC"
  <2>1. HearsGrant(f)
    BY <1>1, <1>6 DEF EcuReceives, HearsGrant
  <2> QED
    BY <1>1, <1>2, <2>1
<1>7. CASE f.type = "CF"
  <2>1. PICK e : e = Extended(asm, f)
    OBVIOUS
  <2>2. /\ e \in Payloads /\ e.of = asm.of /\ e.svc = asm.svc /\ e.n = asm.n /\ e.got = asm.got + 1
        /\ e.info = asm.info /\ e.left = asm.left
        /\ e.whole = TRUE <=> asm.whole = TRUE /\ f.of = asm.of /\ f.pos = asm.got + 1
    <3>1. Longer(asm, f, e)
      BY <1>3, <2>1, ExtendedIs
    <3> QED
      BY <3>1 DEF Longer
  <2>3. PICK a : a = [e EXCEPT !.left = @ - 1]
    OBVIOUS
  <2>4. e.left - 1 \in Int /\ asm.left \in Int
    BY <1>3 , <2>2 DEF Payloads
  <2>5. /\ a \in Payloads /\ a.of = e.of /\ a.svc = e.svc /\ a.n = e.n /\ a.got = e.got
        /\ a.info = e.info /\ a.left = e.left - 1 /\ a.whole = e.whole
    BY <2>2, <2>3, <2>4 DEF Payloads
  <2> DEFINE good == asm # None /\ Expected(asm, f)
             done == good /\ a.got = a.n
  <2>6. /\ asm' = IF good /\ ~done THEN a ELSE None
        /\ todo' = IF done THEN Started(a) ELSE todo
        /\ executed' = IF done THEN Append(executed, [of |-> a.of, whole |-> a.whole])
                       ELSE executed
        /\ overrun' = (overrun \/ (good /\ asm.left <= 0))
        /\ out' = out
    BY <1>1, <1>7, <2>1, <2>3 DEF EcuReceives
  <2>7. CASE ~good
    <3>1. HearsWrong(f)
      BY <1>3, <1>7, <2>6, <2>7 DEF HearsWrong
    <3> QED
      BY <1>1, <1>2, <3>1
  <2>8. CASE good
    <3>1. overrun' = (overrun \/ asm.left <= 0) /\ out' = out
      BY <2>6, <2>8
    <3>2. Grown(a, f)
      BY <2>2, <2>5, <2>8, <3>1 DEF Grown
    <3>3. \/ a.got = a.n /\ CarriesOut(a)
          \/ a.got # a.n /\ asm' = a /\ UNCHANGED <<todo, executed>>
      BY <2>6, <2>8 DEF CarriesOut
    <3>4. HearsNext(f, a)
      BY <1>7, <3>1, <3>2, <3>3 DEF HearsNext
    <3> QED
      BY <1>1, <1>2, <2>5, <3>4
  <2> QED
    BY <2>7, <2>8
<1> QED
  BY <1>3, <1>4, <1>5, <1>6, <1>7

-------------------------------------------------------------------------------
(***************************************************************************)
(* The types.                                                              *)
(***************************************************************************)
Spoken(q)  == q \in Seq(Frames) /\ \A i \in 1..Len(q) : Said(q[i])
Asked(q, c) == q \in Seq(Frames) /\ \A i \in 1..Len(q) : Sound(q[i]) /\ q[i].of <= c

\* Frames that are queued and taken from the queue.
LEMMA SpokenFacts ==
    /\ Spoken(<<>>)
    /\ \A q : Spoken(q) /\ q # <<>> => Spoken(Tail(q))
    /\ \A q, f : Spoken(q) /\ f \in Frames /\ Said(f) => Spoken(Append(q, f))
<1>1. Spoken(<<>>)
  BY EmptySeq DEF Spoken
<1>2. ASSUME NEW q, Spoken(q), q # <<>>
      PROVE  Spoken(Tail(q))
  <2>1. q \in Seq(Frames) /\ \A i \in 1..Len(q) : Said(q[i])
    BY <1>2 DEF Spoken
  <2> QED
    BY <1>2, <2>1, TailFacts DEF Spoken
<1>3. ASSUME NEW q, Spoken(q), NEW f \in Frames, Said(f)
      PROVE  Spoken(Append(q, f))
  <2>1. q \in Seq(Frames) /\ \A i \in 1..Len(q) : Said(q[i])
    BY <1>3 DEF Spoken
  <2>2. PICK r : r = Append(q, f)
    OBVIOUS
  <2>3. /\ Len(q) \in Nat /\ Len(r) = Len(q) + 1 /\ r \in Seq(Frames)
        /\ \A i \in 1..Len(q) : r[i] = q[i]
        /\ r[Len(q) + 1] = f
    BY <2>1, <2>2, AppendFacts
  <2>4. \A i \in 1..Len(r) : i \in 1..Len(q) \/ i = Len(q) + 1
    BY <2>3, IndexFacts
  <2>5. \A i \in 1..Len(r) : Said(r[i])
    BY <1>3, <2>1, <2>3, <2>4
  <2> QED
    BY <2>2, <2>3, <2>5 DEF Spoken
<1> QED
  BY <1>1, <1>2, <1>3

LEMMA AskedFacts ==
    \A c \in Nat :
        /\ \A q : Asked(q, c) /\ q # <<>> => Asked(Tail(q), c)
        /\ \A q : Asked(q, c) => Asked(q, c + 1)
        /\ \A q, f : Asked(q, c) /\ f \in Frames /\ Sound(f) /\ f.of <= c => Asked(Append(q, f), c)
<1> TAKE c \in Nat
<1>1. ASSUME NEW q, Asked(q, c), q # <<>>
      PROVE  Asked(Tail(q), c)
  <2>1. q \in Seq(Frames) /\ \A i \in 1..Len(q) : Sound(q[i]) /\ q[i].of <= c
    BY <1>1 DEF Asked
  <2> QED
    BY <1>1, <2>1, TailFacts DEF Asked
<1>2. ASSUME NEW q, Asked(q, c)
      PROVE  Asked(q, c + 1)
  <2>0. q \in Seq(Frames) /\ \A i \in 1..Len(q) : Sound(q[i]) /\ q[i].of <= c
    BY <1>2 DEF Asked
  <2>1. \A i \in 1..Len(q) : q[i].of \in Nat /\ q[i].of <= c
    <3>1. \A i \in 1..Len(q) : q[i] \in Frames
      BY <2>0, ElementFacts
    <3>2. \A f \in Frames : f.of \in Nat
      BY DEF Frames
    <3> QED
      BY <2>0, <3>1, <3>2
  <2>2. \A i \in 1..Len(q) : q[i].of <= c + 1
    BY <2>1
  <2> QED
    BY <2>0, <2>2 DEF Asked
<1>3. ASSUME NEW q, Asked(q, c), NEW f \in Frames, Sound(f), f.of <= c
      PROVE  Asked(Append(q, f), c)
  <2>1. q \in Seq(Frames) /\ \A i \in 1..Len(q) : Sound(q[i]) /\ q[i].of <= c
    BY <1>3 DEF Asked
  <2>2. PICK r : r = Append(q, f)
    OBVIOUS
  <2>3. /\ Len(q) \in Nat /\ Len(r) = Len(q) + 1 /\ r \in Seq(Frames)
        /\ \A i \in 1..Len(q) : r[i] = q[i]
        /\ r[Len(q) + 1] = f
    BY <2>1, <2>2, AppendFacts
  <2>4. \A i \in 1..Len(r) : i \in 1..Len(q) \/ i = Len(q) + 1
    BY <2>3, IndexFacts
  <2>5. \A i \in 1..Len(r) : Sound(r[i]) /\ r[i].of <= c
    BY <1>3, <2>1, <2>3, <2>4
  <2> QED
    BY <2>2, <2>3, <2>5 DEF Asked
<1> QED
  BY <1>1, <1>2, <1>3

\* The types, those of the host first.
HostTypes ==
    /\ pc \in {"idle", "first", "awaitFC", "sendCF", "poll", "assemble"}
    /\ call \in 0..MaxCalls /\ svc \in Services /\ cfs \in Cfs \cup {0}
    /\ attempt \in 1..Attempts /\ waits \in 0..MaxWaits
    /\ sent \in 0..cfs /\ inBlock \in 0..sent /\ block \in Nat
    /\ unexpected \in {"none", "TRANSPORT", "UDS"}
    /\ result \in Results
    /\ given \in Nat
    /\ pc # "idle" => call # 0
    /\ pc \in {"idle", "first"} => sent = 0
    /\ pc \in {"awaitFC", "sendCF"} => sent < cfs
    /\ pc \in {"poll", "assemble"} => sent = cfs
    /\ pc = "sendCF" => block = 0 \/ inBlock < block
PartialTypes ==
    /\ partial \in Payloads
    /\ pc = "assemble" <=> partial # None
    /\ partial # None => partial.info = "positive"
OtherTypes ==
    /\ asm \in Payloads /\ todo \in Payloads /\ out \in Payloads /\ executed \in Seq(Done)
    /\ faults \in Nat /\ cancelled \in BOOLEAN
    /\ disturbed \in BOOLEAN /\ leftover \in BOOLEAN /\ overrun \in BOOLEAN
QueueTypes == Spoken(rx) /\ Asked(inbox, call)

LEMMA TypesAre ==
    /\ Types <=> HostTypes /\ PartialTypes /\ OtherTypes /\ QueueTypes
    /\ Types' <=> HostTypes' /\ PartialTypes' /\ OtherTypes' /\ QueueTypes'
    /\ QueueTypes' <=> Spoken(rx') /\ Asked(inbox', call')
BY DEF Types, HostTypes, PartialTypes, OtherTypes, QueueTypes, Spoken, Asked, Said, Sound

\* The numbers are numbers.
LEMMA Numbers ==
    ASSUME Types
    PROVE  /\ Cfs \subseteq Nat /\ BlockSizes \subseteq Nat /\ call \in Nat /\ MaxCalls \in Nat
           /\ cfs \in Nat /\ sent \in Nat /\ inBlock \in Nat /\ attempt \in Nat /\ waits \in Nat
           /\ sent <= cfs /\ inBlock <= sent /\ call <= MaxCalls /\ 0 \in 0..cfs /\ 0 \in 0..sent
           /\ 0 \in 0..MaxWaits /\ 1 \in 1..Attempts
<1>1. cfs \in Nat /\ MaxCalls \in Nat /\ Attempts \in Nat \ {0} /\ MaxWaits \in Nat
  BY ConstantsAssumption DEF Types
<1> QED
  BY <1>1, ConstantsAssumption DEF Types

\* The end of a call keeps its types.
LEMMA EndTypes ==
    ASSUME Types, NEW o \in {"returned", "TRANSPORT", "UDS", "cancelled"}, NEW of \in Nat,
           NEW w, Ends(o, of, w)
    PROVE  HostTypes' /\ PartialTypes'
<1>1. PartialTypes'
  BY NoneIs DEF Ends, PartialTypes
<1>2. HostTypes'
  BY Numbers DEF Ends, HostTypes, Types
<1> QED
  BY <1>1, <1>2

\* Reading a frame keeps the types of everything else.
LEMMA ReadsTypes ==
    ASSUME Types, NEW f, Reads(f)
    PROVE  OtherTypes' /\ Spoken(rx)'
<1>1. Spoken(rx)
  BY TypesAre DEF QueueTypes
<1>2. Spoken(Rest)
  BY <1>1, SpokenFacts DEF Rest, Reads
<1>3. Spoken(rx')
  BY <1>2 DEF Reads
<1> QED
  BY <1>3 DEF Reads, OtherTypes, Types, Spoken, Said, Sound

\* The frames that the host and the ECU send.
Sendable(type, n, pos) == type = "FF" => n # 0 /\ pos = 0
Sayable(type, info) ==
    /\ type = "SF" => info \in {"positive", "negative", "pending"}
    /\ type \in {"FF", "CF"} => info = "positive"

LEMMA SentFacts ==
    ASSUME NEW of \in Nat \ {0}, NEW s \in Services, NEW type \in {"SF", "FF", "CF", "FC"},
           NEW n \in Nat, NEW pos \in Nat, NEW info \in Infos,
           NEW f, f = Frame(type, of, s, n, pos, info), Sendable(type, n, pos)
    PROVE  /\ f \in Frames /\ Sound(f)
           /\ f.type = type /\ f.of = of /\ f.svc = s /\ f.n = n /\ f.pos = pos /\ f.info = info
           /\ Sayable(type, info) => Said(f)
<1>1. /\ f \in Frames /\ f.type = type /\ f.of = of /\ f.svc = s /\ f.n = n /\ f.pos = pos
      /\ f.info = info
  BY FrameIs
<1>2. f.of # 0
  BY <1>1
<1>3. Sound(f)
  BY <1>1, <1>2 DEF Sound, Sendable
<1>4. Sayable(type, info) => Said(f)
  BY <1>1, <1>3 DEF Said, Sayable
<1> QED
  BY <1>1, <1>3, <1>4

\* The steps in which the host sends, or gives up waiting.
LEMMA SendingTypes ==
    ASSUME Types,
           \/ \E s \in Services, n \in Cfs : Start(s, n)
           \/ SendFirst \/ FlowControlTimeout \/ SendConsecutive \/ ResponseTimeout
           \/ NoticeCancel \/ Cancel
    PROVE  Types'
<1> USE Numbers
<1>0. HostTypes /\ PartialTypes /\ OtherTypes /\ QueueTypes
  BY TypesAre
<1>1. CASE \E s \in Services, n \in Cfs : Start(s, n)
  <2>1. PICK s \in Services, n \in Cfs : Start(s, n)
    BY <1>1
  <2>2. n \in Nat /\ call + 1 \in 0..MaxCalls /\ call + 1 # 0 /\ (pc = "idle" /\ call < MaxCalls)
    BY <2>1 DEF Start
  <2>3. HostTypes'
    BY <1>0, <2>1, <2>2 DEF Start, HostTypes, Results
  <2>4. OtherTypes' /\ PartialTypes'
    BY <1>0, <2>1 DEF Start, OtherTypes, PartialTypes, ecuVars, Unclean
  <2>5. Asked(inbox, call + 1) /\ Spoken(rx)
    BY <1>0, AskedFacts DEF QueueTypes
  <2>6. QueueTypes'
    BY <2>1, <2>5, TypesAre DEF Start
  <2> QED
    BY <2>3, <2>4, <2>6, TypesAre
<1>2. CASE SendFirst
  <2>1. PICK f : f = Frame(IF cfs = 0 THEN "SF" ELSE "FF", call, svc, cfs, 0, "request")
    OBVIOUS
  <2>2. pc = "first" /\ call \in Nat \ {0} /\ svc \in Services /\ sent = 0
    BY <1>2 DEF SendFirst, Types
  <2>3. f \in Frames /\ Sound(f) /\ f.of = call
    <3>1. PICK type \in {"SF", "FF", "CF", "FC"} : type = IF cfs = 0 THEN "SF" ELSE "FF"
      OBVIOUS
    <3>2. Sendable(type, cfs, 0) /\ "request" \in Infos
      BY <3>1 DEF Sendable, Infos
    <3> QED
      BY <2>1, <2>2, <3>1, <3>2, SentFacts
  <2>4. inbox' = Append(inbox, f) /\ rx' = IF attempt > 1 THEN <<>> ELSE rx
    BY <1>2, <2>1 DEF SendFirst
  <2>5. Asked(inbox', call) /\ Spoken(rx') /\ call' = call
    BY <1>0, <1>2, <2>2, <2>3, <2>4, AskedFacts, SpokenFacts DEF QueueTypes, SendFirst
  <2>6. HostTypes'
    BY <1>0, <1>2, <2>2 DEF SendFirst, HostTypes
  <2>7. OtherTypes' /\ PartialTypes'
    BY <1>0, <1>2 DEF SendFirst, OtherTypes, PartialTypes, ecuVars
  <2> QED
    BY <2>5, <2>6, <2>7, TypesAre
<1>3. CASE SendConsecutive
  <2>1. PICK f : f = Frame("CF", call, svc, 0, sent + 1, "request")
    OBVIOUS
  <2>2. pc = "sendCF" /\ call \in Nat \ {0} /\ svc \in Services /\ sent < cfs
        /\ (block = 0 \/ inBlock < block)
    BY <1>3 DEF SendConsecutive, Types
  <2>3. f \in Frames /\ Sound(f) /\ f.of = call
    <3>1. Sendable("CF", 0, sent + 1) /\ "request" \in Infos
      BY DEF Sendable, Infos
    <3> QED
      BY <2>1, <2>2, <3>1, SentFacts
  <2>4. inbox' = Append(inbox, f) /\ rx' = rx /\ call' = call
    BY <1>3, <2>1 DEF SendConsecutive
  <2>5. Asked(inbox', call) /\ Spoken(rx')
    BY <1>0, <2>2, <2>3, <2>4, AskedFacts DEF QueueTypes
  <2>6. HostTypes'
    <3>1. sent + 1 \in 0..cfs /\ inBlock + 1 \in 0..(sent + 1) /\ block \in Nat
      BY <2>2 DEF Types
    <3>2. ~BlockDone /\ sent + 1 # cfs => sent + 1 < cfs /\ (block = 0 \/ inBlock + 1 < block)
      BY <2>2, <3>1 DEF BlockDone
    <3>3. BlockDone => sent + 1 < cfs /\ sent + 1 # cfs
      BY <2>2, <3>1 DEF BlockDone
    <3> QED
      BY <1>0, <1>3, <2>2, <3>1, <3>2, <3>3 DEF SendConsecutive, HostTypes
  <2>7. OtherTypes' /\ PartialTypes'
    BY <1>0, <1>3 DEF SendConsecutive, OtherTypes, PartialTypes, ecuVars
  <2> QED
    BY <2>4, <2>5, <2>6, <2>7, TypesAre
<1>4. CASE FlowControlTimeout
  <2>1. QueueTypes' /\ OtherTypes'
    BY <1>0, <1>4, TypesAre DEF FlowControlTimeout, QueueTypes, OtherTypes, ecuVars, Raise, End
  <2>2. CASE sent = 0 /\ attempt < Attempts
    <3>1. attempt + 1 \in 1..Attempts
      BY <2>2, ConstantsAssumption
    <3>2. HostTypes' /\ PartialTypes'
      BY <1>0, <1>4, <2>2, <3>1 DEF FlowControlTimeout, HostTypes, PartialTypes
    <3> QED
      BY <2>1, <3>2, TypesAre
  <2>3. CASE ~(sent = 0 /\ attempt < Attempts)
    <3>1. Ends("TRANSPORT", call, TRUE)
      BY <1>4, <2>3, EndIs DEF FlowControlTimeout, Raise
    <3>2. HostTypes' /\ PartialTypes'
      BY <3>1, EndTypes
    <3> QED
      BY <2>1, <3>2, TypesAre
  <2> QED
    BY <2>2, <2>3
<1>5. CASE ResponseTimeout \/ NoticeCancel
  <2>1. PICK o \in {"returned", "TRANSPORT", "UDS", "cancelled"} : Ends(o, call, TRUE)
    <3>1. \E o \in {"TRANSPORT", "UDS", "cancelled"} : End(o, call, TRUE)
      BY <1>5 DEF ResponseTimeout, NoticeCancel, Raise, Types
    <3> QED
      BY <3>1, EndIs
  <2>2. QueueTypes' /\ OtherTypes'
    BY <1>0, <1>5, <2>1, TypesAre
      DEF ResponseTimeout, NoticeCancel, QueueTypes, OtherTypes, ecuVars, Ends
  <2>3. HostTypes' /\ PartialTypes'
    BY <2>1, EndTypes
  <2> QED
    BY <2>2, <2>3, TypesAre
<1>6. CASE Cancel
  BY <1>6 DEF Cancel, Types, hostVars, ecuVars, Said, Sound
<1> QED
  BY <1>1, <1>2, <1>3, <1>4, <1>5, <1>6

\* The steps in which the host reads a frame.
LEMMA ReadingTypes ==
    ASSUME Types, TakeFlowControl \/ Poll \/ Assemble
    PROVE  Types'
<1> USE Numbers
<1>0. HostTypes /\ PartialTypes /\ OtherTypes /\ QueueTypes /\ Spoken(rx) /\ Asked(inbox, call)
  BY TypesAre DEF QueueTypes
<1>a. \A o, of, w : o \in {"returned", "TRANSPORT", "UDS", "cancelled"} /\ of \in Nat /\ Ends(o, of, w)
                      => HostTypes' /\ PartialTypes' /\ call' = call
  BY EndTypes DEF Ends
<1>b. ASSUME NEW f, Reads(f), inbox' = inbox, HostTypes', PartialTypes', call' = call
      PROVE  Types'
  BY <1>0, <1>b, ReadsTypes, TypesAre DEF Spoken, Said, Sound
<1>1. CASE TakeFlowControl
  <2>1. PICK f \in Frames :
              /\ Reads(f) /\ pc = "awaitFC" /\ inbox' = inbox
              /\ \/ /\ ~IsGo(f) /\ waits' \in 0..MaxWaits
                    /\ SameSending /\ UNCHANGED <<pc, partial, unexpected>>
                 \/ /\ IsGo(f) /\ pc' = "sendCF" /\ block' = f.n /\ inBlock' = 0
                    /\ UNCHANGED <<call, svc, cfs, attempt, waits, sent, partial, unexpected,
                                   result, given>>
                 \/ f.type = "FC" /\ ~IsGo(f) /\ Ends("TRANSPORT", call, TRUE)
    BY <1>1, TakeFlowControlIs
  <2>2. CASE waits' \in 0..MaxWaits /\ SameSending /\ UNCHANGED <<pc, partial, unexpected>>
    <3>1. HostTypes' /\ PartialTypes' /\ call' = call
      BY <1>0, <2>2 DEF SameSending, HostTypes, PartialTypes
    <3> QED
      BY <1>b, <2>1, <3>1
  <2>3. CASE /\ pc' = "sendCF" /\ block' = f.n /\ inBlock' = 0
             /\ UNCHANGED <<call, svc, cfs, attempt, waits, sent, partial, unexpected, result, given>>
    <3>1. f.n \in Nat /\ (f.n = 0 \/ 0 < f.n) /\ pc = "awaitFC"
      BY <2>1 DEF Frames
    <3>2. HostTypes' /\ PartialTypes' /\ call' = call
      BY <1>0, <2>3, <3>1 DEF HostTypes, PartialTypes
    <3> QED
      BY <1>b, <2>1, <3>2
  <2> QED
    BY <1>a, <1>b, <2>1, <2>2, <2>3
<1>2. ASSUME Ignores, pc \in {"poll", "assemble"}
      PROVE  HostTypes' /\ PartialTypes' /\ call' = call
  BY <1>0, <1>2, NoneIs DEF Ignores, SameSending, HostTypes, PartialTypes
<1>3. CASE Poll
  <2>1. PICK f \in Frames :
              /\ Reads(f) /\ pc = "poll"
              /\ \/ /\ f.type = "FF" /\ inbox' = Append(inbox, Frame("FC", call, svc, 0, 0, "go"))
                    /\ pc' = "assemble" /\ partial' = Started(f)
                    /\ UNCHANGED <<unexpected, waits>> /\ SameSending
                 \/ inbox' = inbox /\ Ignores
                 \/ inbox' = inbox /\ \E o \in {"TRANSPORT", "UDS"} : Ends(o, call, TRUE)
                 \/ inbox' = inbox /\ Ends("returned", f.of, TRUE)
    BY <1>3, PollIs
  <2>2. f.of \in Nat
    BY DEF Frames
  <2>3. CASE /\ f.type = "FF" /\ inbox' = Append(inbox, Frame("FC", call, svc, 0, 0, "go"))
             /\ pc' = "assemble" /\ partial' = Started(f)
             /\ UNCHANGED <<unexpected, waits>> /\ SameSending
    <3>1. call \in Nat \ {0} /\ svc \in Services /\ Len(rx) \in Nat \ {0} /\ 1 \in 1..Len(rx)
      <4>1. rx \in Seq(Frames) /\ rx # <<>>
        BY <1>0, <2>1 DEF Spoken, Reads
      <4>2. Len(rx) \in Nat \ {0}
        BY <4>1, TailFacts
      <4> QED
        BY <2>1, <4>2 DEF Types
    <3>2. Said(f)
      BY <1>0, <2>1, <3>1 DEF Spoken, Reads
    <3>3. f.type = "FF" /\ f.info = "positive" /\ f.of # 0
      <4>1. f.type = "FF"
        BY <2>3
      <4> QED
        BY <3>2, <4>1 DEF Said, Sound
    <3>4. PICK a : a = Started(f) /\ a \in Payloads /\ a.info = "positive" /\ a.of # 0
      <4>1. PICK a : a = Started(f)
        OBVIOUS
      <4>2. a \in Payloads /\ a.info = f.info /\ a.of = f.of
        BY <4>1, StartedIs
      <4> QED
        BY <3>3, <4>1, <4>2
    <3>5. a # None
      BY <3>4, NoneIs
    <3>6. PICK g : g = Frame("FC", call, svc, 0, 0, "go")
      OBVIOUS
    <3>7. g \in Frames /\ Sound(g) /\ g.of = call
      <4>1. Sendable("FC", 0, 0) /\ "go" \in Infos
        BY DEF Sendable, Infos
      <4> QED
        BY <3>1, <3>6, <4>1, SentFacts
    <3>8. Asked(inbox', call)
      BY <1>0, <2>3, <3>1, <3>6, <3>7, AskedFacts
    <3>9. HostTypes' /\ PartialTypes' /\ call' = call
      BY <1>0, <2>1, <2>3, <3>4, <3>5 DEF SameSending, HostTypes, PartialTypes
    <3>10. Spoken(rx') /\ OtherTypes'
      BY <2>1, ReadsTypes DEF Spoken, Said, Sound
    <3> QED
      BY <3>8, <3>9, <3>10, TypesAre
  <2> QED
    BY <1>a, <1>b, <1>2, <2>1, <2>2, <2>3
<1>4. CASE Assemble
  <2>1. PICK f \in Frames, a \in Payloads :
              /\ Reads(f) /\ pc = "assemble" /\ partial # None /\ inbox' = inbox
              /\ a = Extended(partial, f)
              /\ \/ /\ partial' = a /\ UNCHANGED <<pc, unexpected, waits>> /\ SameSending
                 \/ Ignores
                 \/ Ends("TRANSPORT", call, TRUE)
                 \/ Ends("returned", partial.of, a.whole)
    BY <1>4, AssembleIs
  <2>2. partial \in Payloads /\ partial.of \in Nat /\ partial.info = "positive"
    BY <2>1 DEF Types, Payloads
  <2>3. CASE partial' = a /\ UNCHANGED <<pc, unexpected, waits>> /\ SameSending
    <3>1. a.info = "positive"
      <4>1. Longer(partial, f, a)
        BY <2>1, <2>2, ExtendedIs
      <4> QED
        BY <2>2, <4>1 DEF Longer
    <3>2. a # None
      BY <3>1 DEF None
    <3>3. HostTypes' /\ PartialTypes' /\ call' = call
      BY <1>0, <2>1, <2>3, <3>1, <3>2 DEF SameSending, HostTypes, PartialTypes
    <3> QED
      BY <1>b, <2>1, <3>3
  <2> QED
    BY <1>a, <1>b, <1>2, <2>1, <2>2, <2>3
<1> QED
  BY <1>1, <1>3, <1>4

\* The steps of the bus and the ECU.
EcuTypes == asm \in Payloads /\ todo \in Payloads /\ out \in Payloads /\ executed \in Seq(Done)

\* What the ECU sends is queued for the host.
EcuSends(f) ==
    /\ rx' = Append(rx, f) /\ inbox' = inbox
    /\ UNCHANGED <<pc, call, svc, cfs, attempt, waits, sent, inBlock, block, partial, unexpected,
                   result, given, cancelled, leftover, executed, overrun>>

\* What the ECU has said last, and what it has become: it grants more frames, or
\* refuses them for now or for good; it is not ready; or it answers, begins to
\* answer, refuses or continues.
Grants(f) ==
    /\ asm # None /\ asm.left <= 0 /\ IsGo(f) /\ f.of = asm.of /\ f.n \in BlockSizes
    /\ asm' = [asm EXCEPT !.left = IF f.n = 0 THEN asm.n ELSE f.n]
    /\ UNCHANGED <<todo, out, disturbed, faults>>
Stalls(f) ==
    /\ asm # None /\ asm.left <= 0 /\ f.type = "FC" /\ f.info = "wait" /\ f.of = asm.of
    /\ disturbed' = TRUE /\ UNCHANGED <<asm, todo, out, faults>>
Overflows(f) ==
    /\ asm # None /\ asm.left <= 0 /\ f.type = "FC" /\ f.info = "overflow" /\ f.of = asm.of
    /\ disturbed' = TRUE /\ faults' = faults + 1 /\ asm' = None /\ UNCHANGED <<todo, out>>
Delays(f) ==
    /\ todo # None /\ todo.svc = "erase" /\ f.type = "SF" /\ f.info = "pending" /\ f.of = todo.of
    /\ UNCHANGED <<asm, todo, out, disturbed, faults>>
AnswersSingle(f) ==
    /\ todo # None /\ f.type = "SF" /\ f.info = "positive" /\ f.of = todo.of /\ f.svc = todo.svc
    /\ todo' = None /\ out' = None /\ UNCHANGED <<asm, disturbed, faults>>
AnswersFirst(f) ==
    /\ todo # None /\ f.type = "FF" /\ f.info = "positive" /\ f.of = todo.of /\ f.svc = todo.svc
    /\ f.n # 0 /\ f.pos = 0
    /\ todo' = None /\ out' = [todo EXCEPT !.n = f.n, !.info = "owed"]
    /\ UNCHANGED <<asm, disturbed, faults>>
Refuses(f) ==
    /\ todo # None /\ f.type = "SF" /\ f.info = "negative" /\ f.of = todo.of
    /\ disturbed' = TRUE /\ faults' = faults + 1 /\ todo' = None /\ UNCHANGED <<asm, out>>
Continued(f) ==
    /\ out # None /\ out.info = "going" /\ f.type = "CF" /\ f.info = "positive"
    /\ f.of = out.of /\ f.svc = out.svc /\ f.pos = out.got + 1
    /\ out' = IF out.got + 1 = out.n THEN None ELSE [out EXCEPT !.got = @ + 1]
    /\ UNCHANGED <<asm, todo, disturbed, faults>>

LEMMA EcuSendsIs ==
    ASSUME Types, OneThing,
           \/ EcuStalls \/ EcuOverflows \/ EcuPending \/ EcuRefuses \/ EcuContinues
           \/ (\E bs \in BlockSizes : EcuGrants(bs)) \/ (\E n \in Cfs : EcuAnswers(n))
    PROVE  \E f \in Frames :
              /\ EcuSends(f) /\ Said(f)
              /\ \/ Grants(f) \/ Stalls(f) \/ Overflows(f) \/ Delays(f) \/ AnswersSingle(f)
                 \/ AnswersFirst(f) \/ Refuses(f) \/ Continued(f)
<1>1. /\ asm \in Payloads /\ todo \in Payloads /\ out \in Payloads
      /\ asm # None => asm.of \in Nat \ {0} /\ asm.svc \in Services
      /\ todo # None => todo.of \in Nat \ {0} /\ todo.svc \in Services
      /\ out # None => out.of \in Nat \ {0} /\ out.svc \in Services /\ out.got + 1 \in Nat
  <2>1. asm \in Payloads /\ todo \in Payloads /\ out \in Payloads
    BY DEF Types
  <2>2. \A a \in Payloads : a.of \in Nat /\ a.svc \in Services /\ a.got + 1 \in Nat
    BY DEF Payloads
  <2>3. /\ asm # None => asm.of # 0
        /\ todo # None => todo.of # 0
        /\ out # None => out.of # 0
    BY DEF OneThing
  <2> QED
    BY <2>1, <2>2, <2>3
<1>2. /\ \A s \in {"go", "wait", "overflow"} : Sayable("FC", s) /\ s \in Infos
      /\ \A s \in {"pending", "positive", "negative"} : Sayable("SF", s) /\ s \in Infos
      /\ Sayable("FF", "positive") /\ Sayable("CF", "positive")
      /\ \A n, pos : Sendable("SF", n, pos) /\ Sendable("FC", n, pos) /\ Sendable("CF", n, pos)
      /\ \A n : n # 0 => Sendable("FF", n, 0)
  BY DEF Sayable, Sendable, Infos
<1>3. CASE \E bs \in BlockSizes : EcuGrants(bs)
  <2>1. PICK bs \in BlockSizes : EcuGrants(bs)
    BY <1>3
  <2>2. PICK f : f = Frame("FC", asm.of, asm.svc, bs, 0, "go")
    OBVIOUS
  <2>3. bs \in Nat /\ asm # None /\ asm.left <= 0
    BY <2>1, Numbers DEF EcuGrants, Owes
  <2>4. f \in Frames /\ Said(f) /\ f.type = "FC" /\ f.info = "go" /\ f.of = asm.of /\ f.n = bs
    BY <1>1, <1>2, <2>2, <2>3, SentFacts
  <2>5. Grants(f)
    BY <2>1, <2>3, <2>4 DEF EcuGrants, Grants, IsGo
  <2>6. EcuSends(f)
    BY <2>1, <2>2 DEF EcuGrants, EcuSends, hostVars
  <2> QED
    BY <2>4, <2>5, <2>6
<1>4. CASE EcuStalls
  <2>2. PICK f : f = Frame("FC", asm.of, asm.svc, 0, 0, "wait")
    OBVIOUS
  <2>3. asm # None /\ asm.left <= 0
    BY <1>4 DEF EcuStalls, Owes
  <2>4. f \in Frames /\ Said(f) /\ f.type = "FC" /\ f.info = "wait" /\ f.of = asm.of
    BY <1>1, <1>2, <2>2, <2>3, SentFacts
  <2>5. Stalls(f)
    BY <1>4, <2>3, <2>4 DEF EcuStalls, Stalls, ecuVars
  <2>6. EcuSends(f)
    BY <1>4, <2>2 DEF EcuStalls, EcuSends, hostVars, ecuVars
  <2> QED
    BY <2>4, <2>5, <2>6
<1>5. CASE EcuOverflows
  <2>2. PICK f : f = Frame("FC", asm.of, asm.svc, 0, 0, "overflow")
    OBVIOUS
  <2>3. asm # None /\ asm.left <= 0
    BY <1>5 DEF EcuOverflows, Owes
  <2>4. f \in Frames /\ Said(f) /\ f.type = "FC" /\ f.info = "overflow" /\ f.of = asm.of
    BY <1>1, <1>2, <2>2, <2>3, SentFacts
  <2>5. Overflows(f)
    BY <1>5, <2>3, <2>4 DEF EcuOverflows, Overflows, Fault
  <2>6. EcuSends(f)
    BY <1>5, <2>2 DEF EcuOverflows, EcuSends, hostVars, Fault
  <2> QED
    BY <2>4, <2>5, <2>6
<1>6. CASE EcuPending
  <2>2. PICK f : f = Frame("SF", todo.of, todo.svc, 0, 0, "pending")
    OBVIOUS
  <2>3. todo # None /\ todo.svc = "erase"
    BY <1>6 DEF EcuPending
  <2>4. f \in Frames /\ Said(f) /\ f.type = "SF" /\ f.info = "pending" /\ f.of = todo.of
    BY <1>1, <1>2, <2>2, <2>3, SentFacts
  <2>5. Delays(f)
    BY <1>6, <2>3, <2>4 DEF EcuPending, Delays, ecuVars
  <2>6. EcuSends(f)
    BY <1>6, <2>2 DEF EcuPending, EcuSends, hostVars, ecuVars
  <2> QED
    BY <2>4, <2>5, <2>6
<1>7. CASE \E n \in Cfs : EcuAnswers(n)
  <2>1. PICK n \in Cfs : EcuAnswers(n)
    BY <1>7
  <2>2. PICK type, f : /\ type = IF n = 0 THEN "SF" ELSE "FF"
                       /\ f = Frame(type, todo.of, todo.svc, n, 0, "positive")
    OBVIOUS
  <2>3. n \in Nat /\ todo # None /\ type \in {"SF", "FF"} /\ (type = "FF" => n # 0)
    BY <2>1, <2>2, Numbers DEF EcuAnswers
  <2>a. Sendable(type, n, 0) /\ Sayable(type, "positive") /\ "positive" \in Infos
    BY <1>2, <2>3
  <2>4. /\ f \in Frames /\ Said(f) /\ f.type = type /\ f.info = "positive" /\ f.of = todo.of
        /\ f.svc = todo.svc /\ f.n = n /\ f.pos = 0
    BY <1>1, <2>2, <2>3, <2>a, SentFacts
  <2>5. AnswersSingle(f) \/ AnswersFirst(f)
    BY <2>1, <2>2, <2>3, <2>4 DEF EcuAnswers, AnswersSingle, AnswersFirst
  <2>6. EcuSends(f)
    BY <2>1, <2>2 DEF EcuAnswers, EcuSends, hostVars
  <2> QED
    BY <2>4, <2>5, <2>6
<1>8. CASE EcuRefuses
  <2>2. PICK f : f = Frame("SF", todo.of, todo.svc, 0, 0, "negative")
    OBVIOUS
  <2>3. todo # None
    BY <1>8 DEF EcuRefuses
  <2>4. f \in Frames /\ Said(f) /\ f.type = "SF" /\ f.info = "negative" /\ f.of = todo.of
    BY <1>1, <1>2, <2>2, <2>3, SentFacts
  <2>5. Refuses(f)
    BY <1>8, <2>3, <2>4 DEF EcuRefuses, Refuses, Fault
  <2>6. EcuSends(f)
    BY <1>8, <2>2 DEF EcuRefuses, EcuSends, hostVars, Fault
  <2> QED
    BY <2>4, <2>5, <2>6
<1>9. CASE EcuContinues
  <2>1. PICK k \in Nat : k = out.got + 1
    BY <1>1, <1>9 DEF EcuContinues
  <2>2. PICK f : f = Frame("CF", out.of, out.svc, 0, k, "positive")
    OBVIOUS
  <2>3. out # None /\ out.info = "going"
    BY <1>9 DEF EcuContinues
  <2>4. /\ f \in Frames /\ Said(f) /\ f.type = "CF" /\ f.info = "positive" /\ f.of = out.of
        /\ f.svc = out.svc /\ f.pos = k
    BY <1>1, <1>2, <2>2, <2>3, SentFacts
  <2>5. Continued(f)
    BY <1>9, <2>1, <2>3, <2>4 DEF EcuContinues, Continued
  <2>6. EcuSends(f)
    BY <1>9, <2>1, <2>2 DEF EcuContinues, EcuSends, hostVars
  <2> QED
    BY <2>4, <2>5, <2>6
<1> QED
  BY <1>3, <1>4, <1>5, <1>6, <1>7, <1>8, <1>9

\* What the ECU sends keeps the types, and the ECU at one thing.
LEMMA EcuSendsTypes ==
    ASSUME Types, OneThing, NEW f \in Frames, EcuSends(f), Said(f),
           \/ Grants(f) \/ Stalls(f) \/ Overflows(f) \/ Delays(f) \/ AnswersSingle(f)
           \/ AnswersFirst(f) \/ Refuses(f) \/ Continued(f)
    PROVE  Types' /\ OneThing'
<1>1. /\ asm \in Payloads /\ todo \in Payloads /\ out \in Payloads /\ faults + 1 \in Nat
      /\ disturbed \in BOOLEAN
  BY DEF Types
<1>2. ASSUME NEW a \in Payloads, NEW n \in Nat, NEW k \in Int, NEW b
      PROVE  /\ b = [a EXCEPT !.left = k] => b \in Payloads /\ b.of = a.of
             /\ b = [a EXCEPT !.n = n, !.info = "owed"] => b \in Payloads /\ b.of = a.of
             /\ b = [a EXCEPT !.got = n] => b \in Payloads /\ b.of = a.of
  BY DEF Payloads
<1>3. None \in Payloads /\ None.of = 0
  BY NoneIs
<1>4. f.n \in Nat /\ out.got + 1 \in Nat /\ asm.n \in Int
  BY <1>1 DEF Payloads, Frames
<1>5. HostTypes' /\ PartialTypes' /\ Spoken(rx') /\ Asked(inbox', call')
  <2>1. HostTypes /\ PartialTypes /\ Spoken(rx) /\ Asked(inbox, call)
    BY TypesAre DEF QueueTypes
  <2>2. Spoken(rx')
    BY <2>1, SpokenFacts DEF EcuSends
  <2> QED
    BY <2>1, <2>2 DEF EcuSends, HostTypes, PartialTypes
<1>6. /\ faults' \in Nat /\ disturbed' \in BOOLEAN
      /\ cancelled' \in BOOLEAN /\ leftover' \in BOOLEAN /\ overrun' \in BOOLEAN
      /\ executed' \in Seq(Done)
  BY <1>1 DEF Types, EcuSends, Grants, Stalls, Overflows, Delays, AnswersSingle, AnswersFirst,
     Refuses, Continued
<1> USE DEF OneThing
<1>7. CASE Grants(f)
  <2>1. PICK k \in Int : asm' = [asm EXCEPT !.left = k]
    BY <1>4, <1>7 DEF Grants
  <2>2. asm' \in Payloads /\ asm'.of = asm.of
    BY <1>1, <1>2, <2>1
  <2>a. asm # None /\ UNCHANGED <<todo, out>>
    BY <1>7 DEF Grants
  <2>3. OtherTypes' /\ OneThing'
    BY <1>1, <1>6, <2>2, <2>a DEF OtherTypes
  <2> QED
    BY <1>5, <2>3, TypesAre
<1>8. CASE Stalls(f) \/ Delays(f)
  <2>1. OtherTypes' /\ OneThing'
    BY <1>1, <1>6, <1>8 DEF OtherTypes, Stalls, Delays
  <2> QED
    BY <1>5, <2>1, TypesAre
<1>9. CASE Overflows(f) \/ Refuses(f) \/ AnswersSingle(f)
  <2>1. OtherTypes' /\ OneThing'
    BY <1>1, <1>3, <1>6, <1>9 DEF OtherTypes, Overflows, Refuses, AnswersSingle
  <2> QED
    BY <1>5, <2>1, TypesAre
<1>10. CASE AnswersFirst(f)
  <2>1. out' \in Payloads /\ out'.of = todo.of /\ todo' = None /\ asm' = asm /\ todo # None
    BY <1>1, <1>2, <1>4, <1>10 DEF AnswersFirst
  <2>2. asm = None /\ todo.of # 0
    BY <2>1
  <2>3. OtherTypes' /\ OneThing'
    BY <1>1, <1>3, <1>6, <2>1, <2>2 DEF OtherTypes
  <2> QED
    BY <1>5, <2>3, TypesAre
<1>11. CASE Continued(f)
  <2>1. PICK k \in Nat : k = out.got + 1
    BY <1>4
  <2>2. out' = None \/ out' = [out EXCEPT !.got = k]
    BY <1>11, <2>1 DEF Continued
  <2>3. out' \in Payloads /\ (out' # None => out'.of = out.of)
    <3>1. CASE out' = [out EXCEPT !.got = k]
      <4>1. PICK o, b : o \in Payloads /\ o = out /\ b = out' /\ b = [o EXCEPT !.got = k]
        BY <1>1, <3>1
      <4>2. b \in Payloads /\ b.of = o.of
        BY <4>1 DEF Payloads
      <4> QED
        BY <4>1, <4>2
    <3> QED
      BY <1>3, <2>2, <3>1
  <2>a. out # None /\ UNCHANGED <<asm, todo>>
    BY <1>11 DEF Continued
  <2>4. OtherTypes' /\ OneThing'
    BY <1>1, <1>6, <2>3, <2>a DEF OtherTypes
  <2> QED
    BY <1>5, <2>4, TypesAre
<1> QED
  BY <1>7, <1>8, <1>9, <1>10, <1>11

\* So does what it receives.
LEMMA EcuReceivesTypes ==
    ASSUME Types, OneThing, EcuReceives
    PROVE  Types' /\ OneThing'
<1>1. PICK f \in Frames :
              /\ Hears(f) /\ Sound(f)
              /\ \/ HearsSingle(f) \/ HearsFirst(f) \/ HearsWrong(f) \/ HearsGrant(f)
                 \/ \E a \in Payloads : HearsNext(f, a)
  BY EcuReceivesIs
<1>2. HostTypes' /\ PartialTypes' /\ Spoken(rx') /\ Asked(inbox', call')
  <2>1. HostTypes /\ PartialTypes /\ Spoken(rx) /\ Asked(inbox, call) /\ call \in Nat
    BY TypesAre, Numbers DEF QueueTypes
  <2>2. Asked(Tail(inbox), call)
    BY <1>1, <2>1, AskedFacts DEF Hears
  <2> QED
    BY <1>1, <2>1, <2>2 DEF Hears, HostTypes, PartialTypes
<1>3. /\ asm \in Payloads /\ todo \in Payloads /\ out \in Payloads /\ executed \in Seq(Done)
      /\ overrun \in BOOLEAN /\ faults' \in Nat /\ disturbed' \in BOOLEAN
      /\ cancelled' \in BOOLEAN /\ leftover' \in BOOLEAN
  BY <1>1 DEF Types, Hears
<1>4. None \in Payloads /\ None.of = 0 /\ f.of # 0
  BY <1>1, NoneIs DEF Sound
<1>5. \A a \in Payloads : CarriesOut(a) =>
         /\ todo' \in Payloads /\ todo'.of = a.of /\ todo'.got = 0 /\ asm' = None
         /\ executed' \in Seq(Done)
  <2> TAKE a \in Payloads
  <2> HAVE CarriesOut(a)
  <2>1. PICK b : b = Started(a) /\ b \in Payloads /\ b.of = a.of /\ b.got = 0
    BY StartedIs
  <2>2. [of |-> a.of, whole |-> a.whole] \in Done
    BY DEF Payloads, Done
  <2>3. executed' \in Seq(Done)
    BY <1>3, <2>2, AppendFacts DEF CarriesOut
  <2> QED
    BY <2>1, <2>3 DEF CarriesOut
<1> USE DEF OneThing
<1>6. CASE HearsSingle(f)
  <2>1. PICK a \in Payloads : a = Started(f) /\ a.of = f.of
    BY StartedIs
  <2>2. CarriesOut(a) /\ todo = None /\ out' = None /\ overrun' = overrun
    BY <1>6, <2>1 DEF HearsSingle
  <2>3. /\ todo' \in Payloads /\ todo'.of = a.of /\ todo'.got = 0 /\ asm' = None
        /\ executed' \in Seq(Done)
    BY <1>5, <2>2
  <2>4. OtherTypes' /\ OneThing'
    BY <1>3, <1>4, <2>1, <2>2, <2>3 DEF OtherTypes
  <2> QED
    BY <1>2, <2>4, TypesAre
<1>7. CASE HearsFirst(f)
  <2>1. PICK a \in Payloads : a = Started(f) /\ a.of = f.of
    BY StartedIs
  <2>2. asm' = a /\ todo = None /\ out' = None /\ UNCHANGED <<todo, executed, overrun>>
    BY <1>7, <2>1 DEF HearsFirst
  <2>3. OtherTypes' /\ OneThing'
    BY <1>3, <1>4, <2>1, <2>2 DEF OtherTypes
  <2> QED
    BY <1>2, <2>3, TypesAre
<1>8. CASE HearsWrong(f)
  <2>1. OtherTypes' /\ OneThing'
    BY <1>3, <1>4, <1>8 DEF OtherTypes, HearsWrong
  <2> QED
    BY <1>2, <2>1, TypesAre
<1>9. CASE HearsGrant(f)
  <2>1. \A a \in Payloads : LET b == [a EXCEPT !.info = "going"] IN b \in Payloads /\ b.of = a.of
    BY DEF Payloads
  <2>2. out' \in Payloads /\ (out = None => out' = None) /\ (out' # None => out'.of = out.of)
    BY <1>3, <1>4, <1>9, <2>1 DEF HearsGrant
  <2>3. OtherTypes' /\ OneThing'
    BY <1>3, <1>9, <2>2 DEF OtherTypes, HearsGrant
  <2> QED
    BY <1>2, <2>3, TypesAre
<1>10. ASSUME NEW a \in Payloads, HearsNext(f, a)
       PROVE  Types' /\ OneThing'
  <2>1. asm # None /\ a.of = asm.of /\ out' = out /\ overrun' \in BOOLEAN
    BY <1>3, <1>10 DEF HearsNext, Grown
  <2>2. asm.of # 0 /\ todo = None /\ out = None
    BY <2>1
  <2>3. OtherTypes' /\ OneThing'
    <3>1. CASE CarriesOut(a)
      <4>1. /\ todo' \in Payloads /\ todo'.of = a.of /\ todo'.got = 0 /\ asm' = None
            /\ executed' \in Seq(Done)
        BY <1>5, <3>1
      <4> QED
        BY <1>3, <1>4, <2>1, <2>2, <4>1 DEF OtherTypes
    <3>2. CASE asm' = a /\ UNCHANGED <<todo, executed>>
      BY <1>3, <1>4, <2>1, <2>2, <3>2 DEF OtherTypes
    <3> QED
      BY <1>10, <3>1, <3>2 DEF HearsNext
  <2> QED
    BY <1>2, <2>3, TypesAre
<1> QED
  BY <1>1, <1>6, <1>7, <1>8, <1>9, <1>10

\* So does the loss of a frame.
LEMMA LoseTypes ==
    ASSUME Types, OneThing, Lose
    PROVE  Types' /\ OneThing'
<1>1. HostTypes /\ PartialTypes /\ OtherTypes /\ Spoken(rx) /\ Asked(inbox, call) /\ call \in Nat
      /\ faults + 1 \in Nat
  BY TypesAre, Numbers DEF QueueTypes, Types
<1>2. Spoken(rx') /\ Asked(inbox', call)
  <2>1. rx # <<>> => Spoken(Tail(rx))
    BY <1>1, SpokenFacts
  <2>2. inbox # <<>> => Asked(Tail(inbox), call)
    BY <1>1, AskedFacts
  <2>3. \/ rx # <<>> /\ rx' = Tail(rx) /\ inbox' = inbox
        \/ inbox # <<>> /\ inbox' = Tail(inbox) /\ rx' = rx
    BY DEF Lose
  <2> QED
    BY <1>1, <2>1, <2>2, <2>3
<1>3. UNCHANGED <<hostVars, ecuVars, cancelled, leftover>> /\ faults' = faults + 1 /\ disturbed' = TRUE
  BY DEF Lose, Fault
<1>4. HostTypes' /\ PartialTypes'
  BY <1>1, <1>3 DEF HostTypes, PartialTypes, hostVars
<1>5. OtherTypes' /\ OneThing'
  BY <1>1, <1>3 DEF OtherTypes, OneThing, ecuVars
<1> QED
  BY <1>1, <1>2, <1>3, <1>4, <1>5, TypesAre DEF hostVars

\* Types and OneThing are inductive.
TypeInv == Types /\ OneThing

LEMMA TypeStep ==
    ASSUME TypeInv, [Next]_vars
    PROVE  TypeInv'
<1> USE DEF TypeInv
<1>1. CASE \/ \E s \in Services, n \in Cfs : Start(s, n)
           \/ SendFirst \/ FlowControlTimeout \/ SendConsecutive \/ ResponseTimeout
           \/ NoticeCancel \/ Cancel
  <2>1. UNCHANGED ecuVars
    BY <1>1 DEF Start, SendFirst, FlowControlTimeout, SendConsecutive, ResponseTimeout,
       NoticeCancel, Cancel
  <2> QED
    BY <1>1, <2>1, SendingTypes DEF OneThing, ecuVars
<1>2. CASE TakeFlowControl \/ Poll \/ Assemble
  <2>1. UNCHANGED ecuVars
    BY <1>2 DEF TakeFlowControl, Poll, Assemble
  <2> QED
    BY <1>2, <2>1, ReadingTypes DEF OneThing, ecuVars
<1>3. CASE \/ EcuStalls \/ EcuOverflows \/ EcuPending \/ EcuRefuses \/ EcuContinues
           \/ (\E bs \in BlockSizes : EcuGrants(bs)) \/ (\E n \in Cfs : EcuAnswers(n))
  BY <1>3, EcuSendsIs, EcuSendsTypes
<1>4. CASE EcuReceives
  BY <1>4, EcuReceivesTypes
<1>5. CASE Lose
  BY <1>5, LoseTypes
<1>6. CASE UNCHANGED vars
  BY <1>6 DEF vars, hostVars, ecuVars, Types, OneThing, Said, Sound
<1> QED
  BY <1>1, <1>2, <1>3, <1>4, <1>5, <1>6 DEF Next, Host, Environment

LEMMA TypeInit ==
    ASSUME Init
    PROVE  TypeInv
<1>1. None \in Payloads /\ <<>> \in Seq(Frames) /\ <<>> \in Seq(Done) /\ Len(<<>>) = 0
  BY NoneIs, EmptySeq
<1>2. MaxCalls \in Nat /\ MaxWaits \in Nat /\ Attempts \in Nat \ {0}
  BY ConstantsAssumption
<1>3. Spoken(rx) /\ Asked(inbox, call)
  BY <1>1 DEF Init, Spoken, Asked
<1>4. HostTypes
  BY <1>2 DEF Init, HostTypes, Results, Services
<1>5. PartialTypes
  BY <1>1 DEF Init, PartialTypes
<1>6. OtherTypes /\ OneThing
  BY <1>1 DEF Init, OtherTypes, OneThing
<1> QED
  BY <1>3, <1>4, <1>5, <1>6, TypesAre DEF TypeInv, QueueTypes

\* The variables have their types; what a queue holds is a frame that its sender
\* could send, the numbers of a block and of the frames sent agree with the state
\* of request(), and the ECU is never at two requests at once.
THEOREM TypeCorrect == Spec => [](TypeOK /\ TypeInv)
<1>1. Spec => []TypeInv
  BY TypeInit, TypeStep, PTL DEF Spec
<1>2. TypeInv => TypeOK
  <2>1. ASSUME Types
        PROVE  TypeOK
    <3>1. \A q \in {rx, inbox} : \A i \in DOMAIN q : FrameOK(q[i])
      <4>1. \A f \in Frames : FrameOK(f)
        BY DEF Frames, FrameOK
      <4>2. rx \in Seq(Frames) /\ inbox \in Seq(Frames)
        BY <2>1 DEF Types
      <4>3. \A i \in DOMAIN rx : rx[i] \in Frames
        BY <4>2, ElementFacts, LenProperties
      <4>4. \A i \in DOMAIN inbox : inbox[i] \in Frames
        BY <4>2, ElementFacts, LenProperties
      <4> QED
        BY <4>1, <4>3, <4>4
    <3>2. inBlock \in 0..cfs
      BY <2>1, Numbers
    <3>3. result.outcome \in {"none", "returned", "TRANSPORT", "UDS", "cancelled"}
      BY <2>1 DEF Types, Results
    <3> QED
      BY <2>1, <3>1, <3>2, <3>3 DEF Types, TypeOK
  <2> QED
    BY <2>1 DEF TypeInv
<1> QED
  BY <1>1, <1>2, PTL

-------------------------------------------------------------------------------
(***************************************************************************)
(* Grants.  As long as no flow control of an earlier first frame can come, *)
(* what the ECU has granted covers the frames on their way to it and those *)
(* that the host will send before it waits for a flow control again.       *)
(***************************************************************************)
Credit == IF pc # "sendCF" THEN 0 ELSE IF block = 0 THEN cfs - sent ELSE block - inBlock
Window(n) == IF n = 0 THEN cfs ELSE n

IsStart(f) == f.type \in {"SF", "FF"}
OneGo(q)   == \A i, j \in 1..Len(q) : IsGo(q[i]) /\ IsGo(q[j]) => i = j
NoNext(q)  == \A k \in 1..Len(q) : q[k].type # "CF"

\* The consecutive frames in q are in order and not after s; the grant l covers
\* them, and those up to t.
Rising(q) == \A j, k \in 1..Len(q) : q[j].type = "CF" /\ q[k].type = "CF" /\ j < k => q[j].pos < q[k].pos
UpTo(q, s) == \A k \in 1..Len(q) : q[k].type = "CF" => q[k].pos <= s
Covered(q, l) ==
    \A j, k \in 1..Len(q) : q[j].type = "CF" /\ q[k].type = "CF" /\ j <= k => l >= q[k].pos - q[j].pos + 1
CoveredTo(q, l, t) == \A k \in 1..Len(q) : q[k].type = "CF" => l >= t - q[k].pos + 1

CleanFirst == pc = "first" => ~Unclean
StartAlone ==
    \A i \in 1..Len(inbox) : IsStart(inbox[i]) =>
        /\ Len(inbox) = 1 /\ rx = <<>> /\ asm = None /\ todo = None /\ out = None
        /\ pc # "sendCF" /\ inbox[i].n = cfs
GoAlone ==
    /\ OneGo(rx)
    /\ \A i \in 1..Len(rx) : IsGo(rx[i]) =>
          /\ pc # "sendCF" /\ NoNext(inbox)
          /\ asm # None => asm.left > 0 /\ asm.left >= Window(rx[i].n)
GrantCovers ==
    asm # None =>
        /\ asm.n = cfs /\ cfs # 0 /\ asm.left >= Credit
        /\ Covered(inbox, asm.left)
        /\ pc # "idle" => CoveredTo(inbox, asm.left, sent + Credit)
InSequence == Rising(inbox) /\ (pc # "idle" => UpTo(inbox, sent))

GrantInv == overrun = FALSE /\ CleanFirst /\ StartAlone /\ GoAlone /\ GrantCovers /\ InSequence
GrantsOK == ~leftover => GrantInv

\* A queue that has lost its head.
LEMMA TailGrants ==
    ASSUME NEW q \in Seq(Frames), q # <<>>, NEW r, r = Tail(q)
    PROVE  /\ OneGo(q) => OneGo(r) /\ (IsGo(q[1]) => \A i \in 1..Len(r) : ~IsGo(r[i]))
           /\ NoNext(q) => NoNext(r)
           /\ Rising(q) => Rising(r)
           /\ \A s : UpTo(q, s) => UpTo(r, s)
           /\ \A l : Covered(q, l) => Covered(r, l)
           /\ \A l, t : CoveredTo(q, l, t) => CoveredTo(r, l, t)
<1>1. /\ Len(q) \in Nat \ {0} /\ Len(r) = Len(q) - 1
      /\ \A i \in 1..Len(r) : r[i] = q[i + 1] /\ i + 1 \in 1..Len(q)
  BY TailFacts
<1>2. \A i, j \in 1..Len(r) : /\ i + 1 = j + 1 => i = j
                              /\ i < j => i + 1 < j + 1
                              /\ i <= j => i + 1 <= j + 1
  OBVIOUS
<1>3. 1 \in 1..Len(q) /\ \A i \in 1..Len(r) : i + 1 # 1
  BY <1>1
<1>4. OneGo(q) => OneGo(r) /\ (IsGo(q[1]) => \A i \in 1..Len(r) : ~IsGo(r[i]))
  BY <1>1, <1>2, <1>3 DEF OneGo
<1>5. NoNext(q) => NoNext(r)
  BY <1>1 DEF NoNext
<1>6. Rising(q) => Rising(r)
  BY <1>1, <1>2 DEF Rising
<1>7. \A s : UpTo(q, s) => UpTo(r, s)
  BY <1>1 DEF UpTo
<1>8. \A l : Covered(q, l) => Covered(r, l)
  BY <1>1, <1>2 DEF Covered
<1>9. \A l, t : CoveredTo(q, l, t) => CoveredTo(r, l, t)
  BY <1>1 DEF CoveredTo
<1> QED
  BY <1>4, <1>5, <1>6, <1>7, <1>8, <1>9

\* A queue with a frame more that grants nothing, or is not a consecutive one.
LEMMA AppendGrants ==
    ASSUME NEW q \in Seq(Frames), NEW f \in Frames, NEW r, r = Append(q, f)
    PROVE  /\ ~IsGo(f) => (OneGo(q) => OneGo(r))
           /\ f.type # "CF" =>
                 /\ NoNext(q) => NoNext(r)
                 /\ Rising(q) => Rising(r)
                 /\ \A s : UpTo(q, s) => UpTo(r, s)
                 /\ \A l : Covered(q, l) => Covered(r, l)
                 /\ \A l, t : CoveredTo(q, l, t) => CoveredTo(r, l, t)
<1>1. /\ Len(q) \in Nat /\ Len(r) = Len(q) + 1
      /\ \A i \in 1..Len(q) : r[i] = q[i]
      /\ r[Len(q) + 1] = f
  BY AppendFacts
<1>2. \A i \in 1..Len(r) : i \in 1..Len(q) \/ i = Len(q) + 1
  BY <1>1, IndexFacts
<1>3. ~IsGo(f) => (OneGo(q) => OneGo(r))
  BY <1>1, <1>2 DEF OneGo
<1>4. ASSUME f.type # "CF"
      PROVE  \A i \in 1..Len(r) : r[i].type = "CF" => i \in 1..Len(q) /\ r[i] = q[i]
  BY <1>1, <1>2, <1>4
<1>5. f.type # "CF" => /\ NoNext(q) => NoNext(r)
                       /\ Rising(q) => Rising(r)
  BY <1>4 DEF NoNext, Rising
<1>6. f.type # "CF" => /\ \A s : UpTo(q, s) => UpTo(r, s)
                       /\ \A l : Covered(q, l) => Covered(r, l)
                       /\ \A l, t : CoveredTo(q, l, t) => CoveredTo(r, l, t)
  BY <1>4 DEF UpTo, Covered, CoveredTo
<1> QED
  BY <1>3, <1>5, <1>6

\* What becomes of a queue in a step that adds no consecutive frame to it.
Quiet(q, r) == r = q \/ (q # <<>> /\ r = Tail(q)) \/ \E f \in Frames : f.type # "CF" /\ r = Append(q, f)

LEMMA QuietGrants ==
    ASSUME NEW q \in Seq(Frames), NEW r, Quiet(q, r)
    PROVE  /\ NoNext(q) => NoNext(r)
           /\ Rising(q) => Rising(r)
           /\ \A s : UpTo(q, s) => UpTo(r, s)
           /\ \A l : Covered(q, l) => Covered(r, l)
           /\ \A l, t : CoveredTo(q, l, t) => CoveredTo(r, l, t)
<1>1. CASE r = q
  BY <1>1
<1>2. CASE q # <<>> /\ r = Tail(q)
  BY <1>2, TailGrants
<1>3. CASE \E f \in Frames : f.type # "CF" /\ r = Append(q, f)
  BY <1>3, AppendGrants
<1> QED
  BY <1>1, <1>2, <1>3 DEF Quiet

\* The credit is a number, and none unless the host sends.
LEMMA CreditFacts ==
    ASSUME Types
    PROVE  /\ Credit \in Nat /\ (pc # "sendCF" => Credit = 0) /\ (pc = "sendCF" => Credit >= 1)
           /\ sent + Credit \in Nat
<1>1. cfs \in Nat /\ sent \in Nat /\ inBlock \in Nat /\ block \in Nat
      /\ (pc = "sendCF" => sent < cfs /\ (block = 0 \/ inBlock < block))
  BY Numbers DEF Types
<1> QED
  BY <1>1 DEF Credit

\* A step that sends no consecutive frame and grants nothing leaves the rest of
\* the grant as it is.
LEMMA GrantStays ==
    ASSUME Types, GrantCovers, InSequence, Quiet(inbox, inbox'), asm' = None \/ asm' = asm, cfs' = cfs,
           \/ pc' = "idle"
           \/ pc # "idle" /\ sent' = sent /\ Credit' = Credit
    PROVE  GrantCovers' /\ InSequence'
<1>1. inbox \in Seq(Frames) /\ asm \in Payloads
  BY DEF Types
<1>2. PICK r : r = inbox'
  OBVIOUS
<1>3. /\ Rising(inbox) => Rising(r)
      /\ \A s : UpTo(inbox, s) => UpTo(r, s)
      /\ \A l : Covered(inbox, l) => Covered(r, l)
      /\ \A l, t : CoveredTo(inbox, l, t) => CoveredTo(r, l, t)
  BY <1>1, <1>2, QuietGrants
<1>4. InSequence'
  <2>1. Rising(r) /\ (pc' # "idle" => UpTo(r, sent'))
    BY <1>3 DEF InSequence
  <2> QED
    BY <1>2, <2>1 DEF InSequence, Rising, UpTo
<1>5. Credit' <= Credit /\ Credit \in Nat /\ Credit' \in Nat
  <2>1. Credit \in Nat
    BY CreditFacts
  <2>2. pc' = "idle" => Credit' = 0
    BY DEF Credit
  <2> QED
    BY <2>1, <2>2
<1>6. ASSUME asm' # None
      PROVE  GrantCovers'
  <2>1. /\ asm.n = cfs /\ cfs # 0 /\ asm.left >= Credit
        /\ Covered(inbox, asm.left)
        /\ pc # "idle" => CoveredTo(inbox, asm.left, sent + Credit)
    BY <1>6 DEF GrantCovers
  <2>2. asm.left \in Int
    BY <1>1 DEF Payloads
  <2>3. asm.left >= Credit'
    BY <1>5, <2>1, <2>2
  <2>4. Covered(r, asm.left) /\ (pc' # "idle" => CoveredTo(r, asm.left, sent' + Credit'))
    BY <1>3, <2>1
  <2> QED
    BY <1>2, <1>6, <2>1, <2>3, <2>4 DEF GrantCovers, Covered, CoveredTo
<1>7. ASSUME asm' = None
      PROVE  GrantCovers'
  BY <1>7 DEF GrantCovers
<1> QED
  BY <1>4, <1>6, <1>7

\* Nor does it do anything to a flow control that is under way.
LEMMA GoStays ==
    ASSUME Types, GoAlone, NoNext(inbox) => NoNext(inbox'), asm' = None \/ asm' = asm, cfs' = cfs,
           pc' = "sendCF" => pc = "sendCF",
           \/ rx' = rx
           \/ rx # <<>> /\ rx' \in {Tail(rx), Rest}
           \/ rx' = <<>>
           \/ \E f \in Frames : ~IsGo(f) /\ rx' = Append(rx, f)
    PROVE  GoAlone'
<1>1. rx \in Seq(Frames) /\ OneGo(rx)
  BY DEF Types, GoAlone
<1>2. PICK r : r = rx'
  OBVIOUS
<1>3. OneGo(r) /\ \A i \in 1..Len(r) : IsGo(r[i]) => \E j \in 1..Len(rx) : r[i] = rx[j]
  <2>1. CASE r = rx
    BY <1>1, <2>1
  <2>2. CASE rx # <<>> /\ r = Tail(rx)
    <3>1. \A i \in 1..Len(r) : r[i] = rx[i + 1] /\ i + 1 \in 1..Len(rx)
      BY <1>1, <2>2, TailFacts
    <3>2. OneGo(r)
      BY <1>1, <2>2, TailGrants
    <3> QED
      BY <3>1, <3>2
  <2>3. CASE r = <<>>
    BY <2>3, EmptySeq DEF OneGo
  <2>4. CASE \E f \in Frames : ~IsGo(f) /\ r = Append(rx, f)
    <3>1. PICK f \in Frames : ~IsGo(f) /\ r = Append(rx, f)
      BY <2>4
    <3>2. /\ Len(rx) \in Nat /\ Len(r) = Len(rx) + 1
          /\ \A i \in 1..Len(rx) : r[i] = rx[i]
          /\ r[Len(rx) + 1] = f
      BY <1>1, <3>1, AppendFacts
    <3>3. \A i \in 1..Len(r) : i \in 1..Len(rx) \/ i = Len(rx) + 1
      BY <3>2, IndexFacts
    <3>4. OneGo(r)
      BY <1>1, <3>1, AppendGrants
    <3> QED
      BY <3>1, <3>2, <3>3, <3>4
  <2> QED
    BY <1>2, <2>1, <2>2, <2>3, <2>4 DEF Rest
<1>4. ASSUME NEW i \in 1..Len(r), IsGo(r[i])
      PROVE  /\ pc' # "sendCF" /\ NoNext(inbox')
             /\ asm' # None => asm'.left > 0 /\ asm'.left >= Window(r[i].n)'
  <2>1. PICK j \in 1..Len(rx) : r[i] = rx[j]
    BY <1>3, <1>4
  <2>2. /\ pc # "sendCF" /\ NoNext(inbox)
        /\ asm # None => asm.left > 0 /\ asm.left >= Window(rx[j].n)
    BY <1>4, <2>1 DEF GoAlone
  <2> QED
    BY <2>1, <2>2 DEF Window
<1> QED
  BY <1>2, <1>3, <1>4 DEF GoAlone, OneGo, NoNext, IsGo, Window

\* A first frame on its way stays alone.
LEMMA StartStays ==
    ASSUME Types, StartAlone,
           \/ inbox # <<>> /\ inbox' = Tail(inbox)
           \/ /\ \/ inbox' = inbox
                 \/ /\ rx # <<>> \/ asm # None \/ pc = "sendCF"
                    /\ \E f \in Frames : ~IsStart(f) /\ inbox' = Append(inbox, f)
              /\ rx = <<>> /\ asm = None /\ todo = None /\ out = None /\ pc # "sendCF"
                   => rx' = <<>> /\ asm' = None /\ todo' = None /\ out' = None /\ pc' # "sendCF"
              /\ cfs' = cfs
    PROVE  StartAlone'
<1>1. inbox \in Seq(Frames)
  BY DEF Types
<1>2. PICK r : r = inbox'
  OBVIOUS
<1>3. CASE inbox # <<>> /\ r = Tail(inbox)
  <2>1. /\ Len(inbox) \in Nat \ {0} /\ Len(r) = Len(inbox) - 1
        /\ \A i \in 1..Len(r) : r[i] = inbox[i + 1] /\ i + 1 \in 1..Len(inbox)
    BY <1>1, <1>3, TailFacts
  <2>2. \A i \in 1..Len(r) : Len(inbox) # 1
    BY <2>1
  <2>3. \A i \in 1..Len(r) : ~IsStart(r[i])
    BY <2>1, <2>2 DEF StartAlone
  <2> QED
    BY <1>2, <2>3 DEF StartAlone, IsStart
<1>4. CASE \E f \in Frames : ~IsStart(f) /\ r = Append(inbox, f) /\ (rx # <<>> \/ asm # None \/ pc = "sendCF")
  <2>1. PICK f \in Frames : ~IsStart(f) /\ r = Append(inbox, f)
    BY <1>4
  <2>2. \A i \in 1..Len(inbox) : ~IsStart(inbox[i])
    BY <1>4 DEF StartAlone
  <2>3. /\ Len(inbox) \in Nat /\ Len(r) = Len(inbox) + 1
        /\ \A i \in 1..Len(inbox) : r[i] = inbox[i]
        /\ r[Len(inbox) + 1] = f
    BY <1>1, <2>1, AppendFacts
  <2>4. \A i \in 1..Len(r) : i \in 1..Len(inbox) \/ i = Len(inbox) + 1
    BY <2>3, IndexFacts
  <2>5. \A i \in 1..Len(r) : ~IsStart(r[i])
    BY <2>1, <2>2, <2>3, <2>4
  <2> QED
    BY <1>2, <2>5 DEF StartAlone, IsStart
<1>5. CASE /\ inbox' = inbox /\ cfs' = cfs
           /\ rx = <<>> /\ asm = None /\ todo = None /\ out = None /\ pc # "sendCF"
                => rx' = <<>> /\ asm' = None /\ todo' = None /\ out' = None /\ pc' # "sendCF"
  BY <1>5 DEF StartAlone, IsStart
<1> QED
  BY <1>2, <1>3, <1>4, <1>5

\* A call that begins, and its first frame.
LEMMA StartGrants ==
    ASSUME Types, GrantsOK, ~leftover', (\E s \in Services, n \in Cfs : Start(s, n)) \/ SendFirst
    PROVE  GrantInv'
<1>1. CASE \E s \in Services, n \in Cfs : Start(s, n)
  <2>1. /\ ~Unclean /\ ~leftover /\ UNCHANGED <<rx, inbox, asm, todo, out, overrun>>
        /\ pc' = "first"
    BY <1>1 DEF Start, ecuVars, Types
  <2>2. rx' = <<>> /\ inbox' = <<>> /\ asm' = None /\ todo' = None /\ out' = None /\ Len(<<>>) = 0
    BY <2>1, EmptySeq DEF Unclean
  <2>3. overrun' = FALSE
    BY <2>1 DEF GrantsOK, GrantInv
  <2> QED
    BY <2>1, <2>2, <2>3
      DEF GrantInv, CleanFirst, Unclean, StartAlone, GoAlone, OneGo, GrantCovers, InSequence, Rising, UpTo
<1>2. CASE SendFirst
  <2>1. PICK f : f = Frame(IF cfs = 0 THEN "SF" ELSE "FF", call, svc, cfs, 0, "request")
    OBVIOUS
  <2>2. f.n = cfs /\ f.type # "CF"
    BY <2>1 DEF Frame
  <2>3. ~leftover /\ pc = "first" /\ UNCHANGED <<asm, todo, out, overrun, cfs>>
    BY <1>2 DEF SendFirst, ecuVars
  <2>4. rx = <<>> /\ inbox = <<>> /\ asm = None /\ todo = None /\ out = None /\ overrun = FALSE
    BY <2>3 DEF GrantsOK, GrantInv, CleanFirst, Unclean
  <2>5. rx' = <<>> /\ inbox' = <<f>> /\ pc' \in {"poll", "awaitFC"} /\ Len(<<>>) = 0
    BY <1>2, <2>1, <2>4, EmptySeq DEF SendFirst
  <2>6. Len(inbox') = 1 /\ \A i \in 1..Len(inbox') : inbox'[i] = f
    BY <2>5
  <2>7. StartAlone' /\ CleanFirst'
    BY <2>2, <2>3, <2>4, <2>5, <2>6 DEF StartAlone, CleanFirst
  <2>8. GoAlone'
    BY <2>5 DEF GoAlone, OneGo
  <2>9. InSequence'
    BY <2>2, <2>6 DEF InSequence, Rising, UpTo
  <2>10. GrantCovers'
    BY <2>3, <2>4 DEF GrantCovers
  <2> QED
    BY <2>3, <2>4, <2>7, <2>8, <2>9, <2>10 DEF GrantInv
<1> QED
  BY <1>1, <1>2

\* The steps in which the host reads a frame or the call ends.
LEMMA HostGrants ==
    ASSUME Types, GrantsOK, ~leftover',
           TakeFlowControl \/ Poll \/ Assemble \/ ResponseTimeout \/ NoticeCancel \/ Cancel
    PROVE  GrantInv'
<1>0. ~leftover /\ UNCHANGED <<asm, todo, out, overrun>>
  <2>1. UNCHANGED <<ecuVars, leftover>>
    BY DEF TakeFlowControl, Poll, Assemble, ResponseTimeout, NoticeCancel, Cancel
  <2> QED
    BY <2>1 DEF ecuVars
<1>1. /\ overrun = FALSE /\ CleanFirst /\ StartAlone /\ GoAlone /\ GrantCovers /\ InSequence
      /\ rx \in Seq(Frames) /\ inbox \in Seq(Frames)
  BY <1>0 DEF GrantsOK, GrantInv, Types
<1>2. ASSUME pc' # "first", cfs' = cfs, pc' = "sendCF" => pc = "sendCF",
             inbox' = inbox \/ (rx # <<>> /\ \E f \in Frames : f.type = "FC" /\ inbox' = Append(inbox, f)),
             rx' = rx \/ (rx # <<>> /\ rx' = Rest),
             pc' = "idle" \/ (pc # "idle" /\ sent' = sent /\ Credit' = Credit)
      PROVE  GrantInv'
  <2>1. Quiet(inbox, inbox')
    BY <1>2 DEF Quiet
  <2>2. GrantCovers' /\ InSequence'
    BY <1>0, <1>1, <1>2, <2>1, GrantStays
  <2>3. NoNext(inbox) => NoNext(inbox')
    BY <1>1, <2>1, QuietGrants
  <2>4. GoAlone'
    BY <1>0, <1>1, <1>2, <2>3, GoStays
  <2>5. \A f : f.type = "FC" => ~IsStart(f)
    BY DEF IsStart
  <2>6. StartAlone'
    BY <1>0, <1>1, <1>2, <2>5, StartStays
  <2> QED
    BY <1>0, <1>1, <1>2, <2>2, <2>4, <2>6 DEF GrantInv, CleanFirst
<1>3. ASSUME NEW o, NEW of, NEW w, Ends(o, of, w), inbox' = inbox, rx' = rx \/ (rx # <<>> /\ rx' = Rest)
      PROVE  GrantInv'
  BY <1>2, <1>3 DEF Ends
<1>4. CASE TakeFlowControl
  <2>1. PICK f \in Frames :
              /\ Reads(f) /\ pc = "awaitFC" /\ inbox' = inbox
              /\ \/ /\ SameSending /\ UNCHANGED <<pc, partial, unexpected>>
                 \/ /\ IsGo(f) /\ pc' = "sendCF" /\ block' = f.n /\ inBlock' = 0
                    /\ UNCHANGED <<call, svc, cfs, attempt, waits, sent, partial, unexpected,
                                   result, given>>
                 \/ Ends("TRANSPORT", call, TRUE)
    BY <1>4, TakeFlowControlIs
  <2>2. f = rx[1] /\ rx # <<>> /\ rx' = Rest
    BY <2>1 DEF Reads
  <2>3. CASE SameSending /\ UNCHANGED <<pc, partial, unexpected>>
    <3>1. Credit' = Credit
      BY <2>3 DEF SameSending, Credit
    <3> QED
      BY <1>2, <2>1, <2>2, <2>3, <3>1 DEF SameSending
  <2>4. CASE /\ IsGo(f) /\ pc' = "sendCF" /\ block' = f.n /\ inBlock' = 0
             /\ UNCHANGED <<call, svc, cfs, attempt, waits, sent, partial, unexpected, result, given>>
    <3>1. Len(rx) \in Nat \ {0} /\ 1 \in 1..Len(rx)
      BY <1>1, <2>2, TailFacts
    <3>2. /\ NoNext(inbox)
          /\ asm # None => asm.left > 0 /\ asm.left >= Window(f.n)
      BY <1>1, <2>2, <2>4, <3>1 DEF GoAlone
    <3>3. \A i \in 1..Len(rx') : ~IsGo(rx'[i])
      <4>1. CASE rx' = <<>>
        BY <4>1, EmptySeq
      <4>2. CASE rx' = Tail(rx)
        BY <1>1, <2>2, <2>4, <4>2, TailGrants DEF GoAlone
      <4> QED
        BY <2>2, <4>1, <4>2 DEF Rest
    <3>4. GoAlone'
      <4>1. PICK r : r = rx' /\ \A i \in 1..Len(r) : ~IsGo(r[i])
        BY <3>3
      <4> QED
        BY <4>1 DEF GoAlone, OneGo, IsGo
    <3>5. Credit' <= Window(f.n) /\ Credit' \in Nat /\ Window(f.n) \in Nat
      <4>1. /\ cfs \in Nat /\ sent \in Nat /\ sent <= cfs /\ f.n \in Nat
        BY Numbers DEF Frames
      <4>2. Credit' = IF f.n = 0 THEN cfs - sent ELSE f.n - 0
        BY <2>4 DEF Credit
      <4> QED
        BY <4>1, <4>2 DEF Window
    <3>6. GrantCovers'
      <4>1. asm # None => asm.left >= Credit' /\ Covered(inbox, asm.left)
                            /\ CoveredTo(inbox, asm.left, sent + Credit')
        <5>1. asm.left \in Int
          BY DEF Types, Payloads
        <5> QED
          BY <1>1, <3>2, <3>5, <5>1 DEF GrantCovers, CoveredTo, NoNext
      <4> QED
        BY <1>0, <1>1, <2>1, <2>4, <4>1 DEF GrantCovers, Covered, CoveredTo
    <3>7. StartAlone'
      BY <1>0, <1>1, <2>1, <2>2, <2>4, StartStays
    <3>8. InSequence'
      BY <1>1, <2>1, <2>4 DEF InSequence, Rising, UpTo
    <3> QED
      BY <1>0, <1>1, <2>4, <3>4, <3>6, <3>7, <3>8 DEF GrantInv, CleanFirst
  <2>5. CASE Ends("TRANSPORT", call, TRUE)
    BY <1>3, <2>1, <2>2, <2>5
  <2> QED
    BY <2>1, <2>3, <2>4, <2>5
<1>5. ASSUME pc \in {"poll", "assemble"}, pc' \in {"poll", "assemble"}, SameSending
      PROVE  Credit' = Credit
  BY <1>5 DEF Credit
<1>6. CASE Poll
  <2>1. PICK f \in Frames :
              /\ Reads(f) /\ pc = "poll"
              /\ \/ /\ inbox' = Append(inbox, Frame("FC", call, svc, 0, 0, "go"))
                    /\ pc' = "assemble" /\ SameSending
                 \/ inbox' = inbox /\ Ignores
                 \/ inbox' = inbox /\ \E o : Ends(o, call, TRUE)
                 \/ inbox' = inbox /\ Ends("returned", f.of, TRUE)
    BY <1>6, PollIs
  <2>2. f = rx[1] /\ rx # <<>> /\ rx' = Rest
    BY <2>1 DEF Reads
  <2>3. CASE inbox' = Append(inbox, Frame("FC", call, svc, 0, 0, "go")) /\ pc' = "assemble" /\ SameSending
    <3>1. PICK g : g = Frame("FC", call, svc, 0, 0, "go")
      OBVIOUS
    <3>2. g \in Frames /\ g.type = "FC"
      <4>1. call \in Nat /\ svc \in Services /\ "go" \in Infos
        BY Numbers DEF Types, Infos
      <4> QED
        BY <3>1, <4>1, FrameIs
    <3> QED
      BY <1>2, <1>5, <2>1, <2>2, <2>3, <3>1, <3>2 DEF SameSending
  <2>4. CASE inbox' = inbox /\ Ignores
    BY <1>2, <1>5, <2>1, <2>2, <2>4 DEF Ignores, SameSending
  <2> QED
    BY <1>3, <2>1, <2>2, <2>3, <2>4
<1>7. CASE Assemble
  <2>1. PICK f \in Frames, a \in Payloads :
              /\ Reads(f) /\ pc = "assemble" /\ inbox' = inbox
              /\ \/ UNCHANGED <<pc, unexpected, waits>> /\ SameSending
                 \/ Ignores
                 \/ Ends("TRANSPORT", call, TRUE)
                 \/ Ends("returned", partial.of, a.whole)
    BY <1>7, AssembleIs
  <2>2. f = rx[1] /\ rx # <<>> /\ rx' = Rest
    BY <2>1 DEF Reads
  <2>3. CASE (UNCHANGED pc /\ SameSending) \/ Ignores
    BY <1>2, <1>5, <2>1, <2>2, <2>3 DEF Ignores, SameSending
  <2> QED
    BY <1>3, <2>1, <2>2, <2>3
<1>8. CASE ResponseTimeout \/ NoticeCancel
  <2>1. \E o \in {"TRANSPORT", "UDS", "cancelled"} : End(o, call, TRUE)
    BY <1>8 DEF ResponseTimeout, NoticeCancel, Raise, Types
  <2>2. PICK o : Ends(o, call, TRUE)
    BY <2>1, EndIs, Numbers
  <2> QED
    BY <1>3, <1>8, <2>2 DEF ResponseTimeout, NoticeCancel
<1>9. CASE Cancel
  <2>1. UNCHANGED <<pc, cfs, sent, block, inBlock, inbox, rx, asm, todo, out, overrun>>
    BY <1>9 DEF Cancel, hostVars, ecuVars
  <2>2. Credit' = Credit
    BY <2>1 DEF Credit
  <2> QED
    BY <1>1, <2>1, <2>2 DEF GrantInv, CleanFirst, Unclean, StartAlone, GoAlone, OneGo, NoNext, GrantCovers, 
       InSequence, Rising, UpTo, Covered, CoveredTo, IsStart, IsGo, Window
<1> QED
  BY <1>4, <1>6, <1>7, <1>8, <1>9

\* A consecutive frame that the host sends was covered by the grant.
LEMMA SendGrants ==
    ASSUME Types, GrantsOK, ~leftover', SendConsecutive
    PROVE  GrantInv'
<1>0. /\ ~leftover /\ UNCHANGED <<asm, todo, out, overrun, rx, cfs, block>> /\ pc = "sendCF"
      /\ inbox' = Append(inbox, Frame("CF", call, svc, 0, sent + 1, "request")) /\ sent' = sent + 1
  BY DEF SendConsecutive, ecuVars
<1>1. /\ overrun = FALSE /\ CleanFirst /\ StartAlone /\ GoAlone /\ GrantCovers /\ InSequence
      /\ inbox \in Seq(Frames) /\ sent \in Nat /\ asm.left \in Int
  BY <1>0, Numbers DEF GrantsOK, GrantInv, Types, Payloads
<1>2. PICK f : f = Frame("CF", call, svc, 0, sent + 1, "request")
  OBVIOUS
<1>3. f \in Frames /\ f.type = "CF" /\ f.pos = sent + 1
  <2>1. call \in Nat /\ svc \in Services /\ "request" \in Infos /\ sent + 1 \in Nat
    BY Numbers DEF Types, Infos
  <2> QED
    BY <1>2, <2>1, FrameIs
<1>4. PICK r : r = inbox'
  OBVIOUS
<1>5. /\ Len(inbox) \in Nat /\ Len(r) = Len(inbox) + 1
      /\ \A i \in 1..Len(inbox) : r[i] = inbox[i]
      /\ r[Len(inbox) + 1] = f
  BY <1>0, <1>1, <1>2, <1>3, <1>4, AppendFacts
<1>6. \A i \in 1..Len(r) : i \in 1..Len(inbox) \/ i = Len(inbox) + 1
  BY <1>5, IndexFacts
<1>7. \A i \in 1..Len(inbox) : inbox[i].type = "CF" => inbox[i].pos \in Nat
  <2>1. \A g \in Frames : g.pos \in Nat
    BY DEF Frames
  <2> QED
    BY <1>1, <2>1, ElementFacts
<1>8. PICK c, d : c = Credit /\ d = Credit' /\ c \in Nat /\ c >= 1 /\ d \in Nat /\ d + 1 <= c
  <2>1. cfs \in Nat /\ inBlock \in Nat /\ block \in Nat /\ sent < cfs /\ (block = 0 \/ inBlock < block)
    BY <1>0, Numbers DEF Types
  <2>2. /\ pc' = IF BlockDone THEN "awaitFC" ELSE IF sent + 1 = cfs THEN "poll" ELSE "sendCF"
        /\ inBlock' = IF BlockDone THEN 0 ELSE inBlock + 1
    BY DEF SendConsecutive
  <2>3. pc' = "sendCF" => sent + 1 < cfs /\ inBlock' = inBlock + 1 /\ (block = 0 \/ inBlock + 1 < block)
    BY <1>1, <2>1, <2>2 DEF BlockDone
  <2>4. Credit = IF block = 0 THEN cfs - sent ELSE block - inBlock
    BY <1>0 DEF Credit
  <2>5. Credit' = IF pc' # "sendCF" THEN 0 ELSE IF block = 0 THEN cfs - (sent + 1) ELSE block - inBlock'
    BY <1>0 DEF Credit
  <2> HIDE DEF Credit
  <2> QED
    BY <1>1, <2>1, <2>3, <2>4, <2>5
<1>b. pc' \in {"awaitFC", "sendCF", "poll"}
  BY DEF SendConsecutive
<1>a. sent \in Nat /\ asm.left \in Int
  BY <1>1
<1>c. c \in Nat /\ c >= 1 /\ d \in Nat /\ d + 1 <= c
  BY <1>8
<1>9. UpTo(inbox, sent) /\ Rising(inbox)
  BY <1>0, <1>1 DEF InSequence
<1>10. InSequence'
  <2>1. Rising(r)
    <3>1. ASSUME NEW j \in 1..Len(r), NEW k \in 1..Len(r), r[j].type = "CF", r[k].type = "CF", j < k
          PROVE  r[j].pos < r[k].pos
      <4>1. j \in 1..Len(inbox) /\ r[j] = inbox[j]
        BY <1>5, <1>6, <3>1
      <4>2. CASE k \in 1..Len(inbox)
        BY <1>5, <1>9, <3>1, <4>1, <4>2 DEF Rising
      <4>3. CASE k = Len(inbox) + 1
        <5>1. r[j].pos \in Nat /\ r[j].pos <= sent
          BY <1>7, <1>9, <3>1, <4>1 DEF UpTo
        <5> QED
          BY <1>1, <1>3, <1>5, <4>3, <5>1
      <4> QED
        BY <1>6, <4>2, <4>3
    <3> QED
      BY <3>1 DEF Rising
  <2>2. UpTo(r, sent + 1)
    <3>1. \A k \in 1..Len(inbox) : inbox[k].type = "CF" => inbox[k].pos <= sent + 1
      BY <1>1, <1>7, <1>9 DEF UpTo
    <3>2. f.pos <= sent + 1
      BY <1>1, <1>3
    <3> QED
      BY <1>5, <1>6, <3>1, <3>2 DEF UpTo
  <2> QED
    BY <1>0, <1>4, <2>1, <2>2 DEF InSequence, Rising, UpTo
<1>11. GrantCovers'
  <2>1. SUFFICES ASSUME asm # None
                 PROVE  /\ asm.left >= d /\ Covered(r, asm.left)
                        /\ CoveredTo(r, asm.left, sent + 1 + d)
    BY <1>0, <1>1, <1>4, <1>8 DEF GrantCovers, Covered, CoveredTo
  <2>0. ASSUME NEW l \in Int, NEW q \in Nat, NEW s \in Nat, l >= (s + c) - q + 1
        PROVE  l >= (s + 1) - q + 1 /\ l >= (s + 1 + d) - q + 1
    BY <1>c, <2>0
  <2>a. ASSUME NEW l \in Int, NEW s \in Nat, l >= c
        PROVE  l >= d /\ l >= (s + 1) - (s + 1) + 1 /\ l >= (s + 1 + d) - (s + 1) + 1
    BY <1>c, <2>a
  <2>2. /\ asm.left >= c /\ Covered(inbox, asm.left) /\ CoveredTo(inbox, asm.left, sent + c)
    BY <1>0, <1>1, <1>8, <2>1 DEF GrantCovers
  <2>3. Covered(r, asm.left)
    <3>1. ASSUME NEW j \in 1..Len(r), NEW k \in 1..Len(r), r[j].type = "CF", r[k].type = "CF", j <= k
          PROVE  asm.left >= r[k].pos - r[j].pos + 1
      <4>1. CASE k \in 1..Len(inbox)
        <5>1. j \in 1..Len(inbox)
          BY <1>5, <1>6, <3>1, <4>1
        <5> QED
          BY <1>5, <2>2, <3>1, <4>1, <5>1 DEF Covered
      <4>2. CASE k = Len(inbox) + 1 /\ j \in 1..Len(inbox)
        <5>1. asm.left >= (sent + c) - inbox[j].pos + 1 /\ inbox[j].pos \in Nat
          BY <1>5, <1>7, <2>2, <3>1, <4>2 DEF CoveredTo
        <5>2. r[j] = inbox[j] /\ r[k].pos = sent + 1
          BY <1>3, <1>5, <4>2
        <5> QED
          BY <1>a, <2>0, <5>1, <5>2
      <4>3. CASE k = Len(inbox) + 1 /\ j = Len(inbox) + 1
        BY <1>a, <1>3, <1>5, <2>2, <2>a, <4>3
      <4> QED
        BY <1>6, <4>1, <4>2, <4>3
    <3> QED
      BY <3>1 DEF Covered
  <2>4. CoveredTo(r, asm.left, sent + 1 + d)
    <3>1. ASSUME NEW k \in 1..Len(r), r[k].type = "CF"
          PROVE  asm.left >= (sent + 1 + d) - r[k].pos + 1
      <4>1. CASE k \in 1..Len(inbox)
        <5>1. asm.left >= (sent + c) - inbox[k].pos + 1 /\ inbox[k].pos \in Nat
          BY <1>5, <1>7, <2>2, <3>1, <4>1 DEF CoveredTo
        <5>2. r[k] = inbox[k]
          BY <1>5, <4>1
        <5> QED
          BY <1>a, <2>0, <5>1, <5>2
      <4>2. CASE k = Len(inbox) + 1
        BY <1>a, <1>3, <1>5, <2>2, <2>a, <4>2
      <4> QED
        BY <1>6, <4>1, <4>2
    <3> QED
      BY <3>1 DEF CoveredTo
  <2> QED
    BY <1>a, <2>2, <2>3, <2>4, <2>a
<1>12. GoAlone'
  <2>1. \A i \in 1..Len(rx) : ~IsGo(rx[i])
    BY <1>0, <1>1 DEF GoAlone
  <2> QED
    BY <1>0, <2>1 DEF GoAlone, OneGo, IsGo
<1>13. StartAlone'
  <2>1. ~IsStart(f)
    BY <1>3 DEF IsStart
  <2> QED
    BY <1>0, <1>1, <1>2, <1>3, <2>1, StartStays
<1> QED
  BY <1>0, <1>1, <1>b, <1>10, <1>11, <1>12, <1>13 DEF GrantInv, CleanFirst

\* What the ECU receives was covered by the grant.
LEMMA ReceiveGrants ==
    ASSUME Types, GrantsOK, ~leftover', EcuReceives
    PROVE  GrantInv'
<1>1. PICK f \in Frames :
              /\ Hears(f) /\ Sound(f)
              /\ \/ HearsSingle(f) \/ HearsFirst(f) \/ HearsWrong(f) \/ HearsGrant(f)
                 \/ \E a \in Payloads : HearsNext(f, a)
  BY EcuReceivesIs
<1>2. /\ f = inbox[1] /\ inbox # <<>> /\ inbox' = Tail(inbox) /\ rx' = rx
      /\ UNCHANGED <<pc, call, svc, cfs, sent, inBlock, block, leftover>> /\ ~leftover
  BY <1>1 DEF Hears
<1>3. /\ overrun = FALSE /\ CleanFirst /\ StartAlone /\ GoAlone /\ GrantCovers /\ InSequence
      /\ rx \in Seq(Frames) /\ inbox \in Seq(Frames) /\ asm.left \in Int
  BY <1>2 DEF GrantsOK, GrantInv, Types, Payloads
<1>4. Quiet(inbox, inbox') /\ Credit' = Credit /\ CleanFirst' /\ StartAlone' /\ 1 \in 1..Len(inbox)
  <2>1. pc # "first"
    BY <1>2, <1>3 DEF CleanFirst, Unclean
  <2>2. StartAlone'
    BY <1>2, <1>3, StartStays
  <2>3. Len(inbox) \in Nat \ {0}
    BY <1>2, <1>3, TailFacts
  <2> QED
    BY <1>2, <2>1, <2>2, <2>3 DEF Quiet, Credit, CleanFirst
<1>5. NoNext(inbox) => NoNext(inbox')
  BY <1>3, <1>4, QuietGrants
<1>a. ASSUME asm' = None \/ asm' = asm, overrun' = overrun
      PROVE  GrantInv'
  <2>1. GrantCovers' /\ InSequence'
    BY <1>2, <1>3, <1>4, <1>a, GrantStays
  <2>2. GoAlone'
    BY <1>2, <1>3, <1>5, <1>a, GoStays
  <2> QED
    BY <1>3, <1>4, <1>a, <2>1, <2>2 DEF GrantInv
<1>6. CASE HearsSingle(f) \/ HearsWrong(f) \/ HearsGrant(f)
  BY <1>a, <1>6 DEF HearsSingle, HearsWrong, HearsGrant, CarriesOut
<1>7. CASE HearsFirst(f)
  <2>1. f.type = "FF" /\ asm' = Started(f) /\ out' = None /\ UNCHANGED <<todo, executed, overrun>>
    BY <1>7 DEF HearsFirst
  <2>2. Len(inbox) = 1 /\ rx = <<>> /\ pc # "sendCF" /\ f.n = cfs /\ cfs # 0
    BY <1>1, <1>2, <1>3, <1>4, <2>1 DEF StartAlone, IsStart, Sound
  <2>3. PICK a : a = Started(f) /\ a.n = f.n /\ a.left = 0
    BY StartedIs
  <2>4. inbox' = <<>>
    <3>1. inbox' \in Seq(Frames) /\ Len(inbox') = 0
      BY <1>2, <1>3, <2>2, TailFacts
    <3> QED
      BY <3>1, EmptySeq
  <2>5. Credit' = 0 /\ rx' = <<>> /\ Len(<<>>) = 0
    BY <1>2, <1>4, <2>2, CreditFacts, EmptySeq
  <2>6. GrantCovers'
    <3>1. \A k : k \notin 1..Len(inbox')
      BY <2>4, <2>5
    <3>2. asm' = a /\ a.n = cfs' /\ cfs' # 0 /\ a.left >= Credit'
      BY <1>2, <2>1, <2>2, <2>3, <2>5
    <3> QED
      BY <3>1, <3>2 DEF GrantCovers, Covered, CoveredTo
  <2>7. GoAlone' /\ InSequence'
    BY <2>4, <2>5 DEF GoAlone, OneGo, InSequence, Rising, UpTo
  <2> QED
    BY <1>3, <1>4, <2>1, <2>6, <2>7 DEF GrantInv
<1>8. ASSUME NEW a \in Payloads, HearsNext(f, a)
      PROVE  GrantInv'
  <2>1. /\ f.type = "CF" /\ asm # None /\ a.n = asm.n /\ a.left = asm.left - 1
        /\ overrun' = (overrun \/ asm.left <= 0) /\ (asm' = a \/ asm' = None)
    BY <1>8 DEF HearsNext, Grown, CarriesOut
  <2>2. /\ asm.n = cfs /\ cfs # 0 /\ asm.left >= Credit
        /\ Covered(inbox, asm.left)
        /\ pc # "idle" => CoveredTo(inbox, asm.left, sent + Credit)
    BY <1>3, <2>1 DEF GrantCovers
  <2>3. f.pos \in Nat /\ Credit \in Nat /\ (pc = "idle" => Credit = 0) /\ sent \in Nat
    BY CreditFacts, Numbers DEF Frames
  <2>4. asm.left >= 1
    <3>1. asm.left >= f.pos - f.pos + 1
      BY <1>2, <1>4, <2>1, <2>2 DEF Covered
    <3> QED
      BY <1>3, <2>3, <3>1
  <2>a. ~(asm.left <= 0) /\ asm.left \in Int /\ a.left = asm.left - 1
    BY <1>3, <2>1, <2>4
  <2>5. overrun' = FALSE
    BY <1>3, <2>1, <2>a
  <2>6. a.left >= Credit
    <3>1. CASE pc # "idle"
      <4>1. asm.left >= (sent + Credit) - f.pos + 1
        BY <1>2, <1>4, <2>1, <2>2, <3>1 DEF CoveredTo
      <4>2. f.pos <= sent
        BY <1>2, <1>3, <1>4, <2>1, <3>1 DEF InSequence, UpTo
      <4> QED
        BY <1>3, <2>1, <2>3, <4>1, <4>2
    <3>2. CASE pc = "idle"
      BY <1>3, <2>1, <2>3, <2>4, <3>2
    <3> QED
      BY <3>1, <3>2
  <2>7. PICK r : r = inbox'
    OBVIOUS
  <2>8. /\ \A i \in 1..Len(r) : r[i] = inbox[i + 1] /\ i + 1 \in 1..Len(inbox)
        /\ \A i, j \in 1..Len(r) : (i <= j => i + 1 <= j + 1) /\ 1 < i + 1 /\ 1 <= i + 1
        /\ \A i \in 1..Len(r) : r[i].pos \in Nat
    <3>1. \A i \in 1..Len(r) : r[i] = inbox[i + 1] /\ i + 1 \in 1..Len(inbox)
      BY <1>2, <1>3, <2>7, TailFacts
    <3>2. \A g \in Frames : g.pos \in Nat
      BY DEF Frames
    <3>3. \A i \in 1..Len(r) : r[i] \in Frames
      BY <1>3, <3>1, ElementFacts
    <3>4. \A i, j \in 1..Len(r) : (i <= j => i + 1 <= j + 1) /\ 1 < i + 1 /\ 1 <= i + 1
      OBVIOUS
    <3> QED
      BY <3>1, <3>2, <3>3, <3>4
  <2>9. \A i \in 1..Len(r) : r[i].type = "CF" => f.pos < r[i].pos /\ asm.left >= r[i].pos - f.pos + 1
    BY <1>2, <1>3, <1>4, <2>1, <2>2, <2>8 DEF InSequence, Rising, Covered
  <2>10. Covered(r, a.left)
    <3>1. ASSUME NEW j \in 1..Len(r), NEW k \in 1..Len(r), r[j].type = "CF", r[k].type = "CF", j <= k
          PROVE  a.left >= r[k].pos - r[j].pos + 1
      <4>1. f.pos < r[j].pos /\ asm.left >= r[k].pos - f.pos + 1 /\ r[j].pos \in Nat /\ r[k].pos \in Nat
        BY <2>8, <2>9, <3>1
      <4> QED
        BY <2>3, <2>a, <4>1
    <3> QED
      BY <3>1 DEF Covered
  <2>11. pc # "idle" => CoveredTo(r, a.left, sent + Credit)
    <3>1. ASSUME NEW k \in 1..Len(r), r[k].type = "CF", pc # "idle"
          PROVE  a.left >= (sent + Credit) - r[k].pos + 1
      <4>1. asm.left >= (sent + Credit) - f.pos + 1
        BY <1>2, <1>4, <2>1, <2>2, <3>1 DEF CoveredTo
      <4>2. f.pos < r[k].pos /\ r[k].pos \in Nat
        BY <2>8, <2>9, <3>1
      <4>3. ASSUME NEW l \in Int, NEW m \in Int, NEW u \in Nat, NEW p \in Nat, NEW n \in Nat,
                   m = l - 1, l >= u - p + 1, p < n
            PROVE  m >= u - n + 1
        BY <4>3
      <4>4. sent + Credit \in Nat /\ a.left \in Int
        BY <2>3, <2>a
      <4> QED
        BY <2>3, <2>a, <4>1, <4>2, <4>3, <4>4
    <3> QED
      BY <3>1 DEF CoveredTo
  <2>12. GrantCovers'
    BY <1>2, <1>4, <2>1, <2>2, <2>6, <2>7, <2>10, <2>11 DEF GrantCovers, Covered, CoveredTo
  <2>13. InSequence'
    <3>1. Rising(r) /\ \A s : UpTo(inbox, s) => UpTo(r, s)
      BY <1>2, <1>3, <2>7, TailGrants DEF InSequence
    <3> QED
      BY <1>2, <1>3, <2>7, <3>1 DEF InSequence, Rising, UpTo
  <2>14. GoAlone'
    <3>1. ~NoNext(inbox)
      BY <1>2, <1>4, <2>1 DEF NoNext
    <3>2. \A i \in 1..Len(rx) : ~IsGo(rx[i])
      BY <1>3, <3>1 DEF GoAlone
    <3> QED
      BY <1>2, <3>2 DEF GoAlone, OneGo, IsGo
  <2> QED
    BY <1>4, <2>5, <2>12, <2>13, <2>14 DEF GrantInv
<1> QED
  BY <1>1, <1>6, <1>7, <1>8

\* The ECU grants more frames only when none is on its way.
LEMMA EcuSendsGrants ==
    ASSUME Types, GrantsOK, ~leftover', NEW f \in Frames, EcuSends(f),
           \/ Grants(f) \/ Stalls(f) \/ Overflows(f) \/ Delays(f) \/ AnswersSingle(f)
           \/ AnswersFirst(f) \/ Refuses(f) \/ Continued(f)
    PROVE  GrantInv'
<1>1. /\ rx' = Append(rx, f) /\ inbox' = inbox /\ ~leftover /\ overrun' = overrun
      /\ UNCHANGED <<pc, cfs, sent, inBlock, block>>
  BY DEF EcuSends
<1>2. /\ overrun = FALSE /\ CleanFirst /\ StartAlone /\ GoAlone /\ GrantCovers /\ InSequence
      /\ rx \in Seq(Frames) /\ inbox \in Seq(Frames) /\ asm \in Payloads
  BY <1>1 DEF GrantsOK, GrantInv, Types
<1>3. asm # None \/ todo # None \/ out # None
  BY DEF Grants, Stalls, Overflows, Delays, AnswersSingle, AnswersFirst, Refuses, Continued
<1>4. Credit' = Credit /\ Quiet(inbox, inbox') /\ (NoNext(inbox) => NoNext(inbox'))
  BY <1>1 DEF Credit, Quiet, NoNext
<1>5. CleanFirst'
  BY <1>1, <1>2, <1>3 DEF CleanFirst, Unclean
<1>6. StartAlone'
  BY <1>1, <1>2, <1>3, StartStays
<1>7. CASE ~Grants(f)
  <2>1. ~IsGo(f) /\ (asm' = None \/ asm' = asm)
    BY <1>7 DEF Stalls, Overflows, Delays, AnswersSingle, AnswersFirst, Refuses, Continued, IsGo
  <2>2. pc = "idle" \/ pc # "idle"
    OBVIOUS
  <2>3. GrantCovers' /\ InSequence'
    BY <1>1, <1>2, <1>4, <2>1, GrantStays
  <2>4. GoAlone'
    BY <1>1, <1>2, <1>4, <2>1, GoStays
  <2> QED
    BY <1>1, <1>2, <1>5, <1>6, <2>3, <2>4 DEF GrantInv
<1>8. CASE Grants(f)
  <2>1. PICK w : w = Window(f.n)
    OBVIOUS
  <2>2. /\ asm # None /\ asm.left <= 0 /\ IsGo(f)
        /\ asm' = [asm EXCEPT !.left = IF f.n = 0 THEN asm.n ELSE f.n]
    BY <1>8 DEF Grants
  <2>3. /\ asm.n = cfs /\ cfs # 0 /\ asm.left >= Credit /\ Covered(inbox, asm.left)
    BY <1>2, <2>2 DEF GrantCovers
  <2>4. f.n \in Nat /\ cfs \in Nat /\ asm.left \in Int /\ Credit \in Nat
    BY <1>2, CreditFacts, Numbers DEF Frames, Payloads
  <2>5. Credit = 0 /\ pc # "sendCF" /\ w \in Nat /\ w > 0
    BY <2>1, <2>2, <2>3, <2>4, CreditFacts DEF Window
  <2>6. asm' = [asm EXCEPT !.left = w]
    BY <2>1, <2>2, <2>3 DEF Window
  <2>7. asm'.left = w /\ asm'.n = asm.n
    BY <1>2, <2>6 DEF Payloads
  <2>8. NoNext(inbox)
    <3>1. ASSUME NEW k \in 1..Len(inbox), inbox[k].type = "CF"
          PROVE  FALSE
      <4>1. asm.left >= inbox[k].pos - inbox[k].pos + 1 /\ inbox[k].pos \in Nat
        <5>1. inbox[k] \in Frames /\ k <= k
          BY <1>2, <3>1, ElementFacts
        <5> QED
          BY <2>3, <3>1, <5>1 DEF Covered, Frames
      <4> QED
        BY <2>2, <2>4, <4>1
    <3> QED
      BY <3>1 DEF NoNext
  <2>9. GrantCovers' /\ InSequence'
    <3>1. Covered(inbox, w) /\ CoveredTo(inbox, w, sent + Credit)
      BY <2>8 DEF Covered, CoveredTo, NoNext
    <3>2. w >= Credit
      BY <2>4, <2>5
    <3> QED
      BY <1>1, <1>2, <1>4, <2>3, <2>7, <3>1, <3>2
        DEF GrantCovers, InSequence, Covered, CoveredTo, Rising, UpTo
  <2>10. GoAlone'
    <3>1. \A i \in 1..Len(rx) : ~IsGo(rx[i])
      BY <1>2, <2>2, <2>4 DEF GoAlone
    <3>2. PICK r : r = rx'
      OBVIOUS
    <3>3. /\ Len(rx) \in Nat /\ Len(r) = Len(rx) + 1
          /\ \A i \in 1..Len(rx) : r[i] = rx[i]
          /\ r[Len(rx) + 1] = f
      BY <1>1, <1>2, <3>2, AppendFacts
    <3>4. \A i \in 1..Len(r) : i \in 1..Len(rx) \/ i = Len(rx) + 1
      BY <3>3, IndexFacts
    <3>5. \A i \in 1..Len(r) : IsGo(r[i]) => i = Len(rx) + 1 /\ r[i] = f
      BY <3>1, <3>3, <3>4
    <3>6. Window(f.n)' = w
      BY <1>1, <2>1 DEF Window
    <3>7. asm'.left > 0 /\ asm'.left >= w
      BY <2>5, <2>7
    <3>8. OneGo(r)
      BY <3>5 DEF OneGo
    <3>9. \A i \in 1..Len(r) : IsGo(r[i]) =>
             /\ pc' # "sendCF" /\ NoNext(inbox')
             /\ asm'.left > 0 /\ asm'.left >= Window(r[i].n)'
      BY <1>1, <1>4, <2>5, <2>8, <3>5, <3>6, <3>7 DEF Window
    <3> QED
      BY <3>2, <3>8, <3>9 DEF GoAlone, OneGo, NoNext, IsGo, Window
  <2> QED
    BY <1>1, <1>2, <1>5, <1>6, <2>9, <2>10 DEF GrantInv
<1> QED
  BY <1>7, <1>8

\* A frame that is lost takes nothing from the grant.
LEMMA LoseGrants ==
    ASSUME Types, GrantsOK, ~leftover', Lose
    PROVE  GrantInv'
<1>1. /\ UNCHANGED <<pc, cfs, sent, inBlock, block, asm, todo, out, overrun, leftover>>
      /\ \/ rx # <<>> /\ rx' = Tail(rx) /\ inbox' = inbox
         \/ inbox # <<>> /\ inbox' = Tail(inbox) /\ rx' = rx
  BY DEF Lose, Fault, hostVars, ecuVars
<1>2. /\ overrun = FALSE /\ CleanFirst /\ StartAlone /\ GoAlone /\ GrantCovers /\ InSequence
      /\ inbox \in Seq(Frames)
  BY <1>1 DEF GrantsOK, GrantInv, Types
<1>3. Credit' = Credit /\ Quiet(inbox, inbox')
  BY <1>1 DEF Credit, Quiet
<1>4. NoNext(inbox) => NoNext(inbox')
  BY <1>2, <1>3, QuietGrants
<1>5. CleanFirst'
  BY <1>1, <1>2 DEF CleanFirst, Unclean
<1>6. StartAlone'
  BY <1>1, <1>2, StartStays
<1>7. GrantCovers' /\ InSequence'
  BY <1>1, <1>2, <1>3, GrantStays
<1>8. GoAlone'
  BY <1>1, <1>2, <1>4, GoStays
<1> QED
  BY <1>1, <1>2, <1>5, <1>6, <1>7, <1>8 DEF GrantInv

\* GrantsOK is kept by every step.
LEMMA GrantStep ==
    ASSUME TypeInv, GrantsOK, [Next]_vars
    PROVE  GrantsOK'
<1> USE DEF TypeInv
<1>1. CASE (\E s \in Services, n \in Cfs : Start(s, n)) \/ SendFirst
  BY <1>1, StartGrants DEF GrantsOK
<1>2. CASE TakeFlowControl \/ Poll \/ Assemble \/ ResponseTimeout \/ NoticeCancel \/ Cancel
  BY <1>2, HostGrants DEF GrantsOK
<1>3. CASE SendConsecutive
  BY <1>3, SendGrants DEF GrantsOK
<1>4. CASE FlowControlTimeout
  BY <1>4 DEF FlowControlTimeout, GrantsOK
<1>5. CASE \/ EcuStalls \/ EcuOverflows \/ EcuPending \/ EcuRefuses \/ EcuContinues
           \/ (\E bs \in BlockSizes : EcuGrants(bs)) \/ (\E n \in Cfs : EcuAnswers(n))
  BY <1>5, EcuSendsIs, EcuSendsGrants DEF GrantsOK
<1>6. CASE EcuReceives
  BY <1>6, ReceiveGrants DEF GrantsOK
<1>7. CASE Lose
  BY <1>7, LoseGrants DEF GrantsOK
<1>8. CASE UNCHANGED vars
  <2>1. UNCHANGED <<leftover, overrun, pc, rx, inbox, asm, todo, out, cfs, sent, block, inBlock>>
    BY <1>8 DEF vars, hostVars, ecuVars
  <2>2. Credit' = Credit
    BY <2>1 DEF Credit
  <2> QED
    BY <2>1, <2>2 DEF GrantsOK, GrantInv, CleanFirst, Unclean, StartAlone, GoAlone, OneGo, NoNext,
       GrantCovers, InSequence, Rising, UpTo, Covered, CoveredTo, IsStart, IsGo, Window
<1> QED
  BY <1>1, <1>2, <1>3, <1>4, <1>5, <1>6, <1>7, <1>8 DEF Next, Host, Environment

LEMMA GrantInit ==
    ASSUME Init
    PROVE  GrantsOK
<1>1. rx = <<>> /\ inbox = <<>> /\ asm = None /\ overrun = FALSE /\ Len(<<>>) = 0 /\ pc = "idle"
  BY EmptySeq DEF Init
<1> QED
  BY <1>1 DEF GrantsOK, GrantInv, CleanFirst, StartAlone, GoAlone, OneGo, GrantCovers, InSequence,
     Rising, UpTo

\* The host never sends more consecutive frames than the ECU granted, unless a
\* flow control for an earlier first frame was under way: whatever the block
\* sizes, the length of the request and the frames that are lost.
THEOREM GrantsAreRespected == Spec => []GrantsRespected
<1>1. Spec => [](TypeInv /\ GrantsOK)
  <2>1. Init => TypeInv /\ GrantsOK
    BY TypeInit, GrantInit
  <2>2. TypeInv /\ GrantsOK /\ [Next]_vars => (TypeInv /\ GrantsOK)'
    BY TypeStep, GrantStep
  <2> QED
    BY <2>1, <2>2, PTL DEF Spec
<1>2. TypeInv /\ GrantsOK => GrantsRespected
  BY DEF GrantsOK, GrantInv, GrantsRespected, TypeInv, Types
<1> QED
  BY <1>1, <1>2, PTL

-------------------------------------------------------------------------------
(***************************************************************************)
(* Answers of several frames.  As long as nothing is lost the frames in    *)
(* the queue follow one another, from what the host has assembled to what  *)
(* the ECU has still to send.                                              *)
(***************************************************************************)
Continues(g, f) ==
    f.type = "CF" => g.type \in {"FF", "CF"} /\ f.of = g.of /\ f.pos = g.pos + 1
Chain(q) == \A i \in 1..(Len(q) - 1) : Continues(q[i], q[i + 1])

\* f is the last frame of a that was sent; f is the next one of a that comes.
IsLastOf(f, a) == f.type \in {"FF", "CF"} /\ f.of = a.of /\ f.pos = a.got
IsNextOf(f, a) == f.type = "CF" => f.of = a.of /\ f.pos = a.got + 1

AnswerInv ==
    /\ Chain(rx)
    /\ out # None /\ rx # <<>> => IsLastOf(rx[Len(rx)], out)
    /\ partial # None =>
          /\ partial.whole = TRUE
          /\ rx # <<>> => IsNextOf(rx[1], partial)
          /\ rx = <<>> /\ out # None => out.of = partial.of /\ out.got = partial.got
    /\ result.outcome = "returned" => result.whole = TRUE
AnswersOK == faults = 0 => AnswerInv

\* A chain that loses its first frame, or gets one more.
LEMMA TailChain ==
    ASSUME NEW q \in Seq(Frames), q # <<>>, NEW r, r = Tail(q)
    PROVE  /\ Chain(q) => Chain(r) /\ (r # <<>> => Continues(q[1], r[1]))
           /\ r # <<>> => r[Len(r)] = q[Len(q)]
           /\ r = <<>> => q[1] = q[Len(q)]
<1>1. /\ Len(q) \in Nat \ {0} /\ Len(r) = Len(q) - 1 /\ r \in Seq(Frames)
      /\ \A i \in 1..Len(r) : r[i] = q[i + 1] /\ i + 1 \in 1..Len(q)
  BY TailFacts
<1>2. /\ r # <<>> => Len(r) # 0
      /\ r = <<>> => Len(q) = 1
  <2>1. /\ r # <<>> => Len(r) # 0
        /\ r = <<>> => Len(r) = 0
    BY <1>1, EmptySeq
  <2> QED
    BY <1>1, <2>1
<1>3. \A i \in 1..(Len(r) - 1) : i \in 1..Len(r) /\ i + 1 \in 1..Len(r) /\ i + 1 \in 1..(Len(q) - 1)
  BY <1>1
<1>4. Chain(q) => Chain(r)
  BY <1>1, <1>3 DEF Chain
<1>5. r # <<>> => Continues(q[1], r[1]) \/ ~Chain(q)
  <2>1. r # <<>> => 1 \in 1..Len(r) /\ 1 \in 1..(Len(q) - 1) /\ r[1] = q[1 + 1]
    BY <1>1, <1>2
  <2> QED
    BY <2>1 DEF Chain
<1>6. r # <<>> => r[Len(r)] = q[Len(q)]
  <2>1. r # <<>> => Len(r) \in 1..Len(r) /\ Len(r) + 1 = Len(q)
    BY <1>1, <1>2
  <2> QED
    BY <1>1, <2>1
<1> QED
  BY <1>2, <1>4, <1>5, <1>6

LEMMA AppendChain ==
    ASSUME NEW q \in Seq(Frames), NEW f \in Frames, NEW r, r = Append(q, f), Chain(q),
           q # <<>> => Continues(q[Len(q)], f)
    PROVE  /\ Chain(r) /\ r # <<>> /\ r[Len(r)] = f
           /\ q # <<>> => r[1] = q[1]
           /\ q = <<>> => r[1] = f
<1>1. /\ Len(q) \in Nat /\ Len(r) = Len(q) + 1
      /\ \A i \in 1..Len(q) : r[i] = q[i]
      /\ r[Len(q) + 1] = f
  BY AppendFacts
<1>2. /\ q # <<>> => Len(q) # 0
      /\ q = <<>> => Len(q) = 0
      /\ r # <<>>
  BY <1>1, EmptySeq
<1>3. \A i \in 1..(Len(r) - 1) :
          \/ i \in 1..(Len(q) - 1) /\ i \in 1..Len(q) /\ i + 1 \in 1..Len(q)
          \/ i = Len(q) /\ i \in 1..Len(q) /\ Len(q) # 0
  BY <1>1
<1>4. ASSUME NEW i \in 1..(Len(r) - 1)
      PROVE  Continues(r[i], r[i + 1])
  <2>1. CASE i \in 1..(Len(q) - 1) /\ i \in 1..Len(q) /\ i + 1 \in 1..Len(q)
    BY <1>1, <2>1 DEF Chain
  <2>2. CASE i = Len(q) /\ i \in 1..Len(q) /\ Len(q) # 0
    <3>1. q # <<>> /\ r[i] = q[Len(q)] /\ r[i + 1] = f
      BY <1>1, <1>2, <2>2
    <3> QED
      BY <3>1
  <2> QED
    BY <1>3, <2>1, <2>2
<1>5. q # <<>> => 1 \in 1..Len(q)
  BY <1>1, <1>2
<1> QED
  BY <1>1, <1>2, <1>4, <1>5 DEF Chain

\* The steps of the host and the user.
LEMMA HostAnswers ==
    ASSUME Types, KeepsBatch = TRUE, AnswerInv,
           \/ \E s \in Services, n \in Cfs : Start(s, n)
           \/ Host \/ Cancel
    PROVE  AnswerInv'
<1>0. out' = out
  <2>1. UNCHANGED ecuVars
    BY DEF Start, Host, Cancel, SendFirst, TakeFlowControl, FlowControlTimeout, SendConsecutive,
       Poll, Assemble, ResponseTimeout, NoticeCancel
  <2> QED
    BY <2>1 DEF ecuVars
<1>1. /\ rx \in Seq(Frames) /\ Chain(rx) /\ partial \in Payloads
      /\ out # None /\ rx # <<>> => IsLastOf(rx[Len(rx)], out)
      /\ result.outcome = "returned" => result.whole = TRUE
      /\ pc # "assemble" => partial = None
  BY DEF Types, AnswerInv
<1>2. partial # None =>
          /\ partial.whole = TRUE
          /\ rx # <<>> => IsNextOf(rx[1], partial)
          /\ rx = <<>> /\ out # None => out.of = partial.of /\ out.got = partial.got
  BY DEF AnswerInv
<1>3. ASSUME rx' = rx \/ rx' = <<>> \/ (rx # <<>> /\ rx' = Tail(rx)),
             partial' = None,
             result'.outcome = "returned" => result'.whole = TRUE
      PROVE  AnswerInv'
  <2>1. PICK r : r = rx'
    OBVIOUS
  <2>2. Chain(r) /\ (out # None /\ r # <<>> => IsLastOf(r[Len(r)], out))
    <3>1. CASE r = <<>>
      <4>1. \A i : i \notin 1..(Len(<<>>) - 1)
        BY EmptySeq
      <4> QED
        BY <3>1, <4>1 DEF Chain
    <3>2. CASE rx # <<>> /\ r = Tail(rx)
      BY <1>1, <3>2, TailChain
    <3> QED
      BY <1>1, <1>3, <2>1, <3>1, <3>2
  <2> QED
    BY <1>0, <1>3, <2>1, <2>2 DEF AnswerInv, Chain, Continues, IsLastOf, IsNextOf
<1>4. ASSUME NEW o, NEW of, NEW w, Ends(o, of, w), o = "returned" => w = TRUE,
             rx' = rx \/ (rx # <<>> /\ rx' = Tail(rx))
      PROVE  AnswerInv'
  BY <1>3, <1>4 DEF Ends
\* An answer being assembled: the frame f that is read has become a part of a.
<1>5. ASSUME NEW f, f = rx[1], rx # <<>>, rx' = Tail(rx), f.type \in {"FF", "CF"},
             NEW a, partial' = a, a.whole = TRUE, f.of = a.of, f.pos = a.got, result' = result
      PROVE  AnswerInv'
  <2>1. PICK r : r = rx'
    OBVIOUS
  <2>2. /\ Chain(r) /\ (r # <<>> => Continues(rx[1], r[1]))
        /\ r # <<>> => r[Len(r)] = rx[Len(rx)]
        /\ r = <<>> => rx[1] = rx[Len(rx)]
    BY <1>1, <1>5, <2>1, TailChain
  <2>3. r # <<>> => IsNextOf(r[1], a)
    BY <1>5, <2>2 DEF Continues, IsNextOf
  <2>4. r = <<>> /\ out # None => out.of = a.of /\ out.got = a.got
    BY <1>1, <1>5, <2>2 DEF IsLastOf
  <2>5. out # None /\ r # <<>> => IsLastOf(r[Len(r)], out)
    BY <1>1, <1>5, <2>2
  <2> QED
    BY <1>0, <1>1, <1>5, <2>1, <2>2, <2>3, <2>4, <2>5
      DEF AnswerInv, Chain, Continues, IsLastOf, IsNextOf
<1>6. CASE \E s \in Services, n \in Cfs : Start(s, n)
  BY <1>0, <1>6, <1>1, <1>2 DEF Start, AnswerInv, Chain, Continues, IsLastOf, IsNextOf
<1>7. CASE SendFirst
  <2>1. partial' = None /\ result' = result /\ (rx' = rx \/ rx' = <<>>)
    BY <1>1, <1>7 DEF SendFirst
  <2> QED
    BY <1>1, <1>3, <2>1
<1>8. CASE TakeFlowControl
  <2>1. PICK f \in Frames :
              /\ Reads(f) /\ pc = "awaitFC"
              /\ \/ SameSending /\ UNCHANGED <<pc, partial, unexpected>>
                 \/ UNCHANGED <<call, svc, cfs, attempt, waits, sent, partial, unexpected, result, given>>
                 \/ Ends("TRANSPORT", call, TRUE)
    BY <1>8, TakeFlowControlIs
  <2>2. rx # <<>> /\ rx' = Tail(rx) /\ partial = None
    BY <1>1, <2>1 DEF Reads, Rest
  <2> QED
    BY <1>1, <1>3, <1>4, <2>1, <2>2 DEF SameSending
<1>9. CASE FlowControlTimeout
  <2>1. partial = None /\ rx' = rx
    BY <1>1, <1>9 DEF FlowControlTimeout
  <2>2. \/ UNCHANGED <<partial, result>>
        \/ Ends("TRANSPORT", call, TRUE)
    BY <1>9, EndIs, Numbers DEF FlowControlTimeout, Raise
  <2> QED
    BY <1>1, <1>3, <1>4, <2>1, <2>2
<1>10. CASE SendConsecutive \/ Cancel
  <2>1. UNCHANGED <<rx, partial, result>>
    BY <1>10 DEF SendConsecutive, Cancel, hostVars
  <2> QED
    BY <1>0, <1>1, <1>2, <2>1 DEF AnswerInv, Chain, Continues, IsLastOf, IsNextOf
<1>11. CASE Poll
  <2>1. PICK f \in Frames :
              /\ Reads(f) /\ pc = "poll"
              /\ \/ f.type = "FF" /\ partial' = Started(f) /\ SameSending
                 \/ Ignores
                 \/ \E o \in {"TRANSPORT", "UDS"} : Ends(o, call, TRUE)
                 \/ Ends("returned", f.of, TRUE)
    BY <1>11, PollIs
  <2>2. f = rx[1] /\ rx # <<>> /\ rx' = Tail(rx)
    BY <2>1 DEF Reads, Rest
  <2>3. CASE f.type = "FF" /\ partial' = Started(f) /\ SameSending
    <3>1. PICK a : a = Started(f) /\ a.of = f.of /\ a.got = 0 /\ a.whole = TRUE
      BY StartedIs
    <3>2. 1 \in 1..Len(rx)
      <4>1. Len(rx) \in Nat \ {0}
        BY <1>1, <2>2, TailFacts
      <4> QED
        BY <4>1
    <3>3. f.pos = 0
      BY <2>2, <2>3, <3>2 DEF Types, Said, Sound
    <3> QED
      BY <1>5, <2>2, <2>3, <3>1, <3>3 DEF SameSending
  <2>4. CASE Ignores
    BY <1>1, <1>3, <2>2, <2>4 DEF Ignores, SameSending
  <2> QED
    BY <1>4, <2>1, <2>2, <2>3, <2>4
<1>12. CASE Assemble
  <2>1. PICK f \in Frames, a \in Payloads :
              /\ Reads(f) /\ partial # None /\ a = Extended(partial, f)
              /\ \/ Expected(partial, f) /\ partial' = a /\ SameSending
                 \/ Ignores
                 \/ Ends("TRANSPORT", call, TRUE)
                 \/ Expected(partial, f) /\ Ends("returned", partial.of, a.whole)
    BY <1>12, AssembleIs
  <2>2. f = rx[1] /\ rx # <<>> /\ rx' = Tail(rx)
    BY <2>1 DEF Reads, Rest
  <2>3. Expected(partial, f) => f.type = "CF" /\ f.of = partial.of /\ f.pos = partial.got + 1
    BY <1>2, <2>1, <2>2 DEF Expected, IsNextOf
  <2>4. Longer(partial, f, a)
    BY <1>1, <2>1, ExtendedIs
  <2>5. Expected(partial, f) => a.whole = TRUE /\ f.of = a.of /\ f.pos = a.got
    BY <1>2, <2>1, <2>3, <2>4 DEF Longer
  <2>6. CASE Expected(partial, f) /\ partial' = a /\ SameSending
    BY <1>5, <2>2, <2>3, <2>5, <2>6 DEF SameSending
  <2>7. CASE Ignores
    BY <1>1, <1>3, <2>2, <2>7 DEF Ignores, SameSending
  <2> QED
    BY <1>4, <2>1, <2>2, <2>5, <2>6, <2>7
<1>13. CASE ResponseTimeout \/ NoticeCancel
  <2>1. \E o \in {"TRANSPORT", "UDS", "cancelled"} : End(o, call, TRUE)
    BY <1>13 DEF ResponseTimeout, NoticeCancel, Raise, Types
  <2>2. PICK o : Ends(o, call, TRUE)
    BY <2>1, EndIs, Numbers
  <2>3. rx' = rx
    BY <1>13 DEF ResponseTimeout, NoticeCancel
  <2> QED
    BY <1>4, <2>2, <2>3
<1> QED
  BY <1>6, <1>7, <1>8, <1>9, <1>10, <1>11, <1>12, <1>13 DEF Host

\* The steps of the ECU.
LEMMA EcuAnswersInv ==
    ASSUME TypeInv, AnswerInv, faults = 0, faults' = 0,
           \/ EcuReceives
           \/ \E f \in Frames :
              /\ EcuSends(f) /\ Said(f)
              /\ \/ Grants(f) \/ Stalls(f) \/ Overflows(f) \/ Delays(f) \/ AnswersSingle(f)
                 \/ AnswersFirst(f) \/ Refuses(f) \/ Continued(f)
    PROVE  AnswerInv'
<1>1. /\ rx \in Seq(Frames) /\ Chain(rx) /\ out \in Payloads /\ todo \in Payloads
      /\ out # None /\ rx # <<>> => IsLastOf(rx[Len(rx)], out)
      /\ result.outcome = "returned" => result.whole = TRUE
      /\ Types /\ OneThing
  BY DEF TypeInv, Types, AnswerInv
<1>2. partial # None =>
          /\ partial.whole = TRUE
          /\ rx # <<>> => IsNextOf(rx[1], partial)
          /\ rx = <<>> /\ out # None => out.of = partial.of /\ out.got = partial.got
  BY DEF AnswerInv
<1>3. CASE EcuReceives
  <2>1. PICK f \in Frames :
              /\ Hears(f)
              /\ \/ HearsSingle(f) \/ HearsFirst(f) \/ HearsWrong(f) \/ HearsGrant(f)
                 \/ \E a \in Payloads : HearsNext(f, a)
    BY <1>1, <1>3, EcuReceivesIs
  <2>2. UNCHANGED <<rx, partial, result>>
    BY <2>1 DEF Hears
  <2>3. out' = None \/ out' = out \/ out' = [out EXCEPT !.info = "going"]
    BY <2>1 DEF HearsSingle, HearsFirst, HearsWrong, HearsGrant, HearsNext
  <2>4. out' = None \/ (out # None /\ out'.of = out.of /\ out'.got = out.got) \/ out' = out
    <3>1. CASE out' = [out EXCEPT !.info = "going"] /\ out # None
      BY <1>1, <3>1 DEF Payloads
    <3> QED
      BY <2>1, <2>3, <3>1 DEF HearsSingle, HearsFirst, HearsWrong, HearsGrant, HearsNext
  <2> QED
    BY <1>1, <1>2, <2>2, <2>4 DEF AnswerInv, Chain, Continues, IsLastOf, IsNextOf
<1>4. ASSUME NEW f \in Frames, EcuSends(f), Said(f),
             \/ Grants(f) \/ Stalls(f) \/ Overflows(f) \/ Delays(f) \/ AnswersSingle(f)
             \/ AnswersFirst(f) \/ Refuses(f) \/ Continued(f)
      PROVE  AnswerInv'
  <2>1. rx' = Append(rx, f) /\ UNCHANGED <<partial, result>>
    BY <1>4 DEF EcuSends
  <2>2. ~Overflows(f) /\ ~Refuses(f)
    BY DEF Overflows, Refuses
  <2>3. /\ Continued(f) \/ f.type # "CF"
        /\ out' # None => IsLastOf(f, out')
    <3>1. CASE Grants(f) \/ Stalls(f)
      <4>1. out = None /\ out' = out /\ f.type # "CF"
        BY <1>1, <3>1 DEF Grants, Stalls, OneThing, IsGo
      <4> QED
        BY <4>1
    <3>2. CASE Delays(f)
      <4>1. out = None /\ out' = out /\ f.type # "CF"
        BY <1>1, <3>2 DEF Delays, OneThing
      <4> QED
        BY <4>1
    <3>3. CASE AnswersSingle(f)
      BY <3>3 DEF AnswersSingle
    <3>4. CASE AnswersFirst(f)
      <4>1. out' = [todo EXCEPT !.n = f.n, !.info = "owed"] /\ f.type = "FF" /\ f.of = todo.of
            /\ f.pos = 0 /\ todo # None
        BY <3>4 DEF AnswersFirst
      <4>2. todo.got = 0
        BY <1>1, <4>1 DEF OneThing
      <4>3. out'.of = todo.of /\ out'.got = todo.got
        BY <1>1, <4>1 DEF Payloads
      <4> QED
        BY <4>1, <4>2, <4>3 DEF IsLastOf
    <3>5. CASE Continued(f)
      <4>1. f.type = "CF" /\ f.of = out.of /\ f.pos = out.got + 1
            /\ (out' = None \/ out' = [out EXCEPT !.got = @ + 1])
        BY <3>5 DEF Continued
      <4>2. CASE out' = [out EXCEPT !.got = @ + 1]
        <5>1. out'.of = out.of /\ out'.got = out.got + 1
          BY <1>1, <4>2 DEF Payloads
        <5> QED
          BY <3>5, <4>1, <5>1 DEF IsLastOf
      <4> QED
        BY <3>5, <4>1, <4>2
    <3> QED
      BY <1>4, <2>2, <3>1, <3>2, <3>3, <3>4, <3>5
  <2>4. /\ rx # <<>> => Continues(rx[Len(rx)], f)
        /\ rx = <<>> /\ partial # None => IsNextOf(f, partial)
    <3>1. CASE f.type # "CF"
      BY <3>1 DEF Continues, IsNextOf
    <3>2. CASE Continued(f)
      <4>1. out # None /\ f.of = out.of /\ f.pos = out.got + 1
        BY <3>2 DEF Continued
      <4> QED
        BY <1>1, <1>2, <4>1 DEF IsLastOf, Continues, IsNextOf
    <3> QED
      BY <2>3, <3>1, <3>2
  <2>5. PICK r : r = rx'
    OBVIOUS
  <2>6. /\ Chain(r) /\ r # <<>> /\ r[Len(r)] = f
        /\ rx # <<>> => r[1] = rx[1]
        /\ rx = <<>> => r[1] = f
    <3>1. rx \in Seq(Frames) /\ Chain(rx)
      BY <1>1
    <3>2. rx # <<>> => Continues(rx[Len(rx)], f)
      BY <2>4
    <3>3. r = Append(rx, f)
      BY <2>1, <2>5
    <3> QED
      BY <3>1, <3>2, <3>3, AppendChain
  <2>7. partial # None => IsNextOf(r[1], partial)
    BY <1>2, <2>4, <2>6
  <2> QED
    BY <1>1, <1>2, <2>1, <2>3, <2>5, <2>6, <2>7 DEF AnswerInv, Chain, Continues, IsLastOf, IsNextOf
<1> QED
  BY <1>3, <1>4

LEMMA AnswerStep ==
    ASSUME KeepsBatch = TRUE, TypeInv, AnswersOK, [Next]_vars
    PROVE  AnswersOK'
<1>1. SUFFICES ASSUME faults' = 0
               PROVE  AnswerInv'
  BY DEF AnswersOK
<1>2. faults \in Nat /\ Types /\ OneThing
  BY DEF TypeInv, Types
<1>3. CASE \/ \E s \in Services, n \in Cfs : Start(s, n)
           \/ Host \/ Cancel
  <2>1. faults' = faults
    BY <1>3 DEF Start, Host, Cancel, SendFirst, TakeFlowControl, FlowControlTimeout, SendConsecutive,
       Poll, Assemble, ResponseTimeout, NoticeCancel
  <2> QED
    BY <1>1, <1>2, <1>3, <2>1, HostAnswers DEF AnswersOK
<1>4. CASE Lose \/ EcuOverflows \/ EcuRefuses
  <2>1. faults' = faults + 1
    BY <1>4 DEF Lose, EcuOverflows, EcuRefuses, Fault
  <2> QED
    BY <1>1, <1>2, <2>1
<1>5. CASE EcuReceives \/ EcuStalls \/ EcuPending \/ EcuContinues
           \/ (\E bs \in BlockSizes : EcuGrants(bs)) \/ (\E n \in Cfs : EcuAnswers(n))
  <2>1. faults' = faults
    BY <1>5 DEF EcuReceives, EcuStalls, EcuPending, EcuContinues, EcuGrants, EcuAnswers
  <2> QED
    BY <1>1, <1>2, <1>5, <2>1, EcuSendsIs, EcuAnswersInv DEF AnswersOK
<1>6. CASE UNCHANGED vars
  <2>1. UNCHANGED <<rx, out, partial, result, faults>>
    BY <1>6 DEF vars, hostVars, ecuVars
  <2> QED
    BY <1>1, <2>1 DEF AnswersOK, AnswerInv, Chain, Continues, IsLastOf, IsNextOf
<1> QED
  BY <1>3, <1>4, <1>5, <1>6 DEF Next, Environment

\* An answer of several frames that is returned was put together from the frames
\* of one answer, unless a frame was lost, and though the first may have come
\* during an earlier call: with an adapter that keeps what it has read.
THEOREM AnswersAreWhole ==
    ASSUME KeepsBatch = TRUE
    PROVE  Spec => []AnswersWhole
<1>1. Init => TypeInv /\ AnswersOK
  <2>1. Init => rx = <<>> /\ out = None /\ partial = None /\ result.outcome # "returned"
    BY DEF Init
  <2>2. \A i : i \notin 1..(Len(<<>>) - 1)
    BY EmptySeq
  <2> QED
    BY <2>1, <2>2, TypeInit DEF AnswersOK, AnswerInv, Chain
<1>2. TypeInv /\ AnswersOK /\ [Next]_vars => (TypeInv /\ AnswersOK)'
  BY TypeStep, AnswerStep
<1>3. TypeInv /\ AnswersOK => AnswersWhole
  <2>1. TypeInv => faults \in Nat
    BY DEF TypeInv, Types
  <2>2. TypeInv => (faults # 0 => faults > 0)
    BY <2>1
  <2> QED
    BY <2>2 DEF AnswersOK, AnswerInv, AnswersWhole
<1> QED
  BY <1>1, <1>2, <1>3, PTL DEF Spec

-------------------------------------------------------------------------------
(***************************************************************************)
(* A call that nothing disturbs: where its request or answer is.           *)
(***************************************************************************)
IsOurs(a) == a.of = call /\ a.svc = svc
Free == asm = None /\ todo = None /\ out = None
Only(type) == Len(inbox) = 1 /\ inbox[1].type = type

\* The request is on its way: its first frame, its consecutive frames, or the
\* flow control that it waits for.
SingleSent == rx = <<>> /\ Free /\ Only("SF") /\ IsOurs(inbox[1])
FirstSent  == rx = <<>> /\ Free /\ Only("FF") /\ IsOurs(inbox[1]) /\ inbox[1].n = cfs /\ sent = 0
Arriving ==
    /\ asm # None /\ todo = None /\ out = None /\ IsOurs(asm) /\ asm.n = cfs
    /\ asm.got + Len(inbox) = sent /\ asm.left >= Len(inbox) + Credit
    /\ \A i \in 1..Len(inbox) : inbox[i].type = "CF" /\ inbox[i].pos = asm.got + i
InTransit == rx = <<>> /\ Arriving
Granted ==
    /\ Len(rx) = 1 /\ IsGo(rx[1]) /\ inbox = <<>> /\ Arriving
    /\ asm.left > 0 /\ asm.left >= Window(rx[1].n)

\* The ECU carries it out, or has answered.
IsPending(f) == f.type = "SF" /\ f.info = "pending" /\ svc = "erase"
CarryingOut ==
    /\ inbox = <<>> /\ asm = None /\ out = None /\ todo # None /\ IsOurs(todo)
    /\ \A i \in 1..Len(rx) : IsPending(rx[i])
IsAnswer(f) ==
    /\ IsOurs(f) /\ f.info = "positive"
    /\ \/ f.type = "SF" /\ out = None
       \/ f.type = "FF" /\ out # None /\ out.n = f.n /\ out.got = 0 /\ out.info = "owed"
Answered ==
    /\ inbox = <<>> /\ asm = None /\ todo = None /\ rx # <<>>
    /\ \A i \in 1..(Len(rx) - 1) : IsPending(rx[i])
    /\ IsAnswer(rx[Len(rx)])

\* The rest of the answer is asked for, or comes.
AskedFor ==
    /\ rx = <<>> /\ Only("FC")
    /\ out # None /\ out.n = partial.n /\ out.got = partial.got /\ out.info = "owed"
Coming ==
    /\ inbox = <<>>
    /\ \A i \in 1..Len(rx) : rx[i].type = "CF" /\ rx[i].pos = partial.got + i
    /\ out = None => partial.got + Len(rx) = partial.n
    /\ out # None => out.n = partial.n /\ out.got = partial.got + Len(rx)

Calm ==
    /\ pc = "first" => ~Unclean
    /\ pc = "awaitFC" => FirstSent \/ InTransit \/ Granted
    /\ pc = "sendCF" => InTransit
    /\ pc = "poll" => SingleSent \/ (InTransit /\ inbox # <<>>) \/ CarryingOut \/ Answered
    /\ pc = "assemble" =>
          /\ asm = None /\ todo = None /\ IsOurs(partial) /\ partial.got < partial.n
          /\ AskedFor \/ Coming
    /\ pc = "idle" /\ result.outcome # "none" => result.outcome = "returned" /\ result.of = call
CallOK ==
    /\ pc # "idle" => result.outcome = "none"
    /\ cancelled => disturbed
    /\ ~disturbed => Calm

\* A call sends its first frame.
LEMMA SendFirstCalm ==
    ASSUME Types, Calm, SendFirst
    PROVE  Calm'
<1>1. PICK type, f : /\ type = IF cfs = 0 THEN "SF" ELSE "FF"
                     /\ f = Frame(type, call, svc, cfs, 0, "request")
  OBVIOUS
<1>2. f.n = cfs /\ f.type = type /\ f.of = call /\ f.svc = svc
  BY <1>1 DEF Frame
<1>3. /\ pc = "first" /\ UNCHANGED <<asm, todo, out, call, svc, cfs, sent>> /\ sent = 0
      /\ inbox' = Append(inbox, f) /\ rx' \in {rx, <<>>}
      /\ pc' = IF cfs = 0 THEN "poll" ELSE "awaitFC"
  BY <1>1 DEF SendFirst, ecuVars, Types
<1>4. rx = <<>> /\ inbox = <<>> /\ Free
  BY <1>3 DEF Calm, Unclean, Free
<1>5. rx' = <<>> /\ inbox' = <<f>> /\ Free'
  BY <1>3, <1>4 DEF Free
<1>6. Len(inbox') = 1 /\ inbox'[1] = f
  BY <1>5
<1>7. CASE cfs = 0
  <2>1. SingleSent' /\ pc' = "poll"
    BY <1>1, <1>2, <1>3, <1>5, <1>6, <1>7 DEF SingleSent, Only, IsOurs
  <2> QED
    BY <2>1 DEF Calm
<1>8. CASE cfs # 0
  <2>1. FirstSent' /\ pc' = "awaitFC"
    BY <1>1, <1>2, <1>3, <1>5, <1>6, <1>8 DEF FirstSent, Only, IsOurs
  <2> QED
    BY <2>1 DEF Calm
<1> QED
  BY <1>7, <1>8

\* Numbers of the payloads.
LEMMA PayloadNumbers ==
    ASSUME Types
    PROVE  /\ \A a \in Payloads : a.n \in Nat /\ a.got \in Nat /\ a.left \in Int
           /\ asm.n \in Nat /\ asm.got \in Nat /\ asm.left \in Int
           /\ todo.n \in Nat /\ todo.got \in Nat
           /\ out.n \in Nat /\ out.got \in Nat /\ partial.n \in Nat /\ partial.got \in Nat
           /\ Len(rx) \in Nat /\ Len(inbox) \in Nat
<1>1. \A a \in Payloads : a.n \in Nat /\ a.got \in Nat /\ a.left \in Int
  BY DEF Payloads
<1>2. asm \in Payloads /\ todo \in Payloads /\ out \in Payloads /\ partial \in Payloads
      /\ rx \in Seq(Frames) /\ inbox \in Seq(Frames)
  BY DEF Types
<1> QED
  BY <1>1, <1>2, LenProperties

\* The flow control that comes is the one that the host waits for.
LEMMA TakeFlowControlCalm ==
    ASSUME Types, KeepsBatch = TRUE, Calm, TakeFlowControl
    PROVE  Calm'
<1>1. PICK f \in Frames :
              /\ Reads(f) /\ pc = "awaitFC" /\ inbox' = inbox
              /\ \/ ~IsGo(f)
                 \/ /\ IsGo(f) /\ pc' = "sendCF" /\ block' = f.n /\ inBlock' = 0
                    /\ UNCHANGED <<call, svc, cfs, attempt, waits, sent, partial, unexpected,
                                   result, given>>
  BY TakeFlowControlIs
<1>2. f = rx[1] /\ rx # <<>> /\ rx' = Tail(rx) /\ UNCHANGED <<asm, todo, out>>
  BY <1>1 DEF Reads, Rest
<1>3. Granted
  BY <1>1, <1>2 DEF Calm, FirstSent, InTransit
<1>4. IsGo(f)
  BY <1>2, <1>3 DEF Granted
<1>5. rx' = <<>>
  <2>1. rx \in Seq(Frames) /\ Len(rx) = 1
    BY <1>3 DEF Granted, Types
  <2>2. rx' \in Seq(Frames) /\ Len(rx') = 0
    BY <1>2, <2>1, TailFacts
  <2> QED
    BY <2>2, EmptySeq
<1>6. PICK d : d = Credit'
  OBVIOUS
<1>7. d <= Window(f.n) /\ d \in Nat /\ Window(f.n) \in Nat
  <2>1. cfs \in Nat /\ sent \in Nat /\ sent <= cfs /\ f.n \in Nat
    BY Numbers DEF Frames
  <2>2. d = IF f.n = 0 THEN cfs - sent ELSE f.n - 0
    BY <1>1, <1>4, <1>6 DEF Credit
  <2>3. Window(f.n) = IF f.n = 0 THEN cfs ELSE f.n
    BY DEF Window
  <2> QED
    BY <2>1, <2>2, <2>3
<1>8. Arriving /\ inbox = <<>> /\ asm.left >= Window(f.n)
  BY <1>2, <1>3 DEF Granted
<1>9. asm.left >= Len(inbox) + d
  <2>1. Len(inbox) = 0
    BY <1>8, EmptySeq
  <2>2. asm.left \in Int
    BY PayloadNumbers
  <2> QED
    BY <1>7, <1>8, <2>1, <2>2
<1>10. Arriving'
  BY <1>1, <1>2, <1>4, <1>6, <1>8, <1>9 DEF Arriving, IsOurs
<1> QED
  BY <1>1, <1>4, <1>5, <1>10 DEF Calm, InTransit

\* A consecutive frame joins those on their way.
LEMMA SendCalm ==
    ASSUME Types, Calm, SendConsecutive
    PROVE  Calm'
<1>0. /\ UNCHANGED <<asm, todo, out, rx, cfs, block, call, svc>> /\ pc = "sendCF"
      /\ inbox' = Append(inbox, Frame("CF", call, svc, 0, sent + 1, "request")) /\ sent' = sent + 1
      /\ pc' \in {"awaitFC", "sendCF", "poll"}
  BY DEF SendConsecutive, ecuVars
<1>1. InTransit /\ inbox \in Seq(Frames)
  BY <1>0 DEF Calm, Types
<1>2. PICK f : f = Frame("CF", call, svc, 0, sent + 1, "request")
  OBVIOUS
<1>3. f \in Frames /\ f.type = "CF" /\ f.pos = sent + 1
  <2>1. call \in Nat /\ svc \in Services /\ "request" \in Infos /\ sent + 1 \in Nat
    BY Numbers DEF Types, Infos
  <2> QED
    BY <1>2, <2>1, FrameIs
<1>4. PICK r : r = inbox'
  OBVIOUS
<1>5. /\ Len(inbox) \in Nat /\ Len(r) = Len(inbox) + 1
      /\ \A i \in 1..Len(inbox) : r[i] = inbox[i]
      /\ r[Len(inbox) + 1] = f
  BY <1>0, <1>1, <1>2, <1>3, <1>4, AppendFacts
<1>6. \A i \in 1..Len(r) : i \in 1..Len(inbox) \/ i = Len(inbox) + 1
  BY <1>5, IndexFacts
<1>7. PICK d : d = Credit'
  OBVIOUS
<1>8. d \in Nat /\ Credit \in Nat /\ d + 1 <= Credit
  <2>1. cfs \in Nat /\ sent \in Nat /\ inBlock \in Nat /\ block \in Nat /\ sent < cfs
        /\ (block = 0 \/ inBlock < block)
    BY <1>0, Numbers DEF Types
  <2>2. /\ pc' = IF BlockDone THEN "awaitFC" ELSE IF sent + 1 = cfs THEN "poll" ELSE "sendCF"
        /\ inBlock' = IF BlockDone THEN 0 ELSE inBlock + 1
    BY DEF SendConsecutive
  <2>3. pc' = "sendCF" => sent + 1 < cfs /\ inBlock' = inBlock + 1 /\ (block = 0 \/ inBlock + 1 < block)
    BY <2>1, <2>2 DEF BlockDone
  <2>4. Credit = IF block = 0 THEN cfs - sent ELSE block - inBlock
    BY <1>0 DEF Credit
  <2>5. d = IF pc' # "sendCF" THEN 0 ELSE IF block = 0 THEN cfs - (sent + 1) ELSE block - inBlock'
    BY <1>0, <1>7 DEF Credit
  <2> QED
    BY <2>1, <2>3, <2>4, <2>5
<1>9. /\ asm.got + Len(inbox) = sent /\ asm.left >= Len(inbox) + Credit
      /\ asm.got \in Nat /\ asm.left \in Int /\ sent \in Nat
  BY <1>1, PayloadNumbers, Numbers DEF InTransit, Arriving
<1>10. asm.got + Len(r) = sent + 1 /\ asm.left >= Len(r) + d
  <2>1. ASSUME NEW m \in Nat, NEW n \in Nat, NEW c \in Nat, NEW g \in Nat, NEW l \in Int, NEW t \in Nat,
               n = m + 1, d \in Nat, d + 1 <= c, g + m = t, l >= m + c
        PROVE  g + n = t + 1 /\ l >= n + d
    BY <2>1
  <2>2. Len(inbox) \in Nat /\ Len(r) \in Nat /\ Len(r) = Len(inbox) + 1
    BY <1>5
  <2> QED
    BY <1>8, <1>9, <2>1, <2>2
<1>11. \A i \in 1..Len(r) : r[i].type = "CF" /\ r[i].pos = asm.got + i
  <2>1. asm.got + (Len(inbox) + 1) = sent + 1
    BY <1>5, <1>9
  <2> QED
    BY <1>1, <1>3, <1>5, <1>6, <2>1 DEF InTransit, Arriving
<1>12. InTransit'
  BY <1>0, <1>1, <1>4, <1>7, <1>10, <1>11 DEF InTransit, Arriving, IsOurs
<1>13. inbox' # <<>>
  BY <1>4, <1>5, EmptySeq
<1> QED
  BY <1>0, <1>12, <1>13 DEF Calm

\* What the host reads while it waits for its answer.
LEMMA PollCalm ==
    ASSUME Types, KeepsBatch = TRUE, Calm, Poll
    PROVE  Calm'
<1>1. PICK f \in Frames :
              /\ Reads(f) /\ pc = "poll"
              /\ \/ /\ f.type = "FF" /\ inbox' = Append(inbox, Frame("FC", call, svc, 0, 0, "go"))
                    /\ pc' = "assemble" /\ partial' = Started(f)
                    /\ SameSending
                 \/ /\ f.type # "FF" /\ ~(f.type = "SF" /\ f.info = "positive" /\ f.svc = svc)
                    /\ inbox' = inbox /\ Ignores
                 \/ /\ f.type # "FF"
                    /\ f.type = "SF" => f.info # "positive" /\ ~(f.info = "pending" /\ svc = "erase")
                    /\ \E o \in {"TRANSPORT", "UDS"} : Ends(o, call, TRUE)
                 \/ /\ f.type = "SF" /\ f.info = "positive" /\ f.svc = svc
                    /\ inbox' = inbox /\ Ends("returned", f.of, TRUE)
  BY PollIs
<1>2. f = rx[1] /\ rx # <<>> /\ rx' = Tail(rx) /\ UNCHANGED <<asm, todo, out>> /\ rx \in Seq(Frames)
  BY <1>1 DEF Reads, Rest, Types
<1>3. CarryingOut \/ Answered
  BY <1>1, <1>2 DEF Calm, SingleSent, InTransit
<1>4. PICK r : r = rx'
  OBVIOUS
<1>5. /\ Len(rx) \in Nat \ {0} /\ Len(r) = Len(rx) - 1 /\ r \in Seq(Frames)
      /\ \A i \in 1..Len(r) : r[i] = rx[i + 1] /\ i + 1 \in 1..Len(rx)
  BY <1>2, <1>4, TailFacts
<1>6. ASSUME IsPending(f)
      PROVE  inbox' = inbox /\ pc' = "poll" /\ SameSending
  BY <1>1, <1>6 DEF IsPending, Ignores
<1>7. CASE CarryingOut
  <2>1. \A i \in 1..Len(rx) : IsPending(rx[i])
    BY <1>7 DEF CarryingOut
  <2>2. IsPending(f)
    BY <1>2, <1>5, <2>1
  <2>3. inbox' = inbox /\ pc' = "poll" /\ SameSending
    BY <1>6, <2>2
  <2>4. \A i \in 1..Len(r) : IsPending(r[i])
    BY <1>5, <2>1
  <2>5. CarryingOut'
    BY <1>2, <1>4, <1>7, <2>3, <2>4 DEF CarryingOut, IsPending, IsOurs, SameSending
  <2> QED
    BY <2>3, <2>5 DEF Calm
<1>8. CASE Answered /\ Len(rx) # 1
  <2>1. \A i \in 1..(Len(rx) - 1) : IsPending(rx[i])
    BY <1>8 DEF Answered
  <2>2. 1 \in 1..(Len(rx) - 1) /\ Len(r) \in 1..Len(r) /\ Len(r) + 1 = Len(rx)
        /\ \A i \in 1..(Len(r) - 1) : i + 1 \in 1..(Len(rx) - 1) /\ i \in 1..Len(r)
    BY <1>5, <1>8
  <2>3. IsPending(f)
    BY <1>2, <2>1, <2>2
  <2>4. inbox' = inbox /\ pc' = "poll" /\ SameSending
    BY <1>6, <2>3
  <2>5. \A i \in 1..(Len(r) - 1) : IsPending(r[i])
    BY <1>5, <2>1, <2>2
  <2>6. r[Len(r)] = rx[Len(rx)] /\ r # <<>>
    BY <1>5, <2>2, EmptySeq
  <2>7. Answered'
    BY <1>2, <1>4, <1>8, <2>4, <2>5, <2>6 DEF Answered, IsAnswer, IsPending, IsOurs, SameSending
  <2> QED
    BY <2>4, <2>7 DEF Calm
<1>9. CASE Answered /\ Len(rx) = 1
  <2>1. IsAnswer(f) /\ inbox = <<>> /\ asm = None /\ todo = None
    BY <1>2, <1>9 DEF Answered
  <2>2. r = <<>> /\ 1 \in 1..Len(rx)
    BY <1>5, <1>9, EmptySeq
  <2>3. IsOurs(f) /\ f.info = "positive" /\ (f.type = "SF" \/ f.type = "FF")
    BY <2>1 DEF IsAnswer
  <2>4. CASE f.type = "SF"
    <3>1. f.type = "SF" /\ f.info = "positive" /\ f.svc = svc /\ f.of = call
      BY <2>3, <2>4 DEF IsOurs
    <3>2. Ends("returned", f.of, TRUE)
      BY <1>1, <3>1
    <3> QED
      BY <3>1, <3>2 DEF Calm, Ends
  <2>5. CASE f.type = "FF"
    <3>1. /\ inbox' = Append(inbox, Frame("FC", call, svc, 0, 0, "go"))
          /\ pc' = "assemble" /\ partial' = Started(f) /\ SameSending
      BY <1>1, <2>5
    <3>2. PICK a, g : a = Started(f) /\ g = Frame("FC", call, svc, 0, 0, "go")
      OBVIOUS
    <3>3. a.of = f.of /\ a.svc = f.svc /\ a.n = f.n /\ a.got = 0
      BY <3>2, StartedIs
    <3>4. g.type = "FC"
      BY <3>2 DEF Frame
    <3>5. Len(inbox') = 1 /\ inbox'[1].type = "FC"
      <4>1. inbox' = <<g>>
        BY <2>1, <3>1, <3>2
      <4> QED
        BY <3>4, <4>1
    <3>6. f.n # 0 /\ f.n \in Nat
      BY <1>2, <2>2, <2>5 DEF Types, Said, Sound, Frames
    <3>7. out # None /\ out.n = f.n /\ out.got = 0 /\ out.info = "owed"
      BY <2>1, <2>5 DEF IsAnswer
    <3>8. AskedFor'
      BY <1>2, <1>4, <2>2, <3>1, <3>2, <3>3, <3>5, <3>7 DEF AskedFor, Only
    <3>9. a.of = call /\ a.svc = svc /\ a.got < a.n
      BY <2>3, <3>3, <3>6 DEF IsOurs
    <3> QED
      BY <1>2, <2>1, <3>1, <3>2, <3>8, <3>9 DEF Calm, IsOurs, SameSending
  <2> QED
    BY <2>3, <2>4, <2>5
<1> QED
  BY <1>3, <1>7, <1>8, <1>9

\* The frames of its answer come in order.
LEMMA AssembleCalm ==
    ASSUME Types, KeepsBatch = TRUE, Calm, Assemble
    PROVE  Calm'
<1>1. PICK f \in Frames, a \in Payloads :
              /\ Reads(f) /\ pc = "assemble" /\ partial # None /\ inbox' = inbox
              /\ a = Extended(partial, f)
              /\ \/ /\ Expected(partial, f) /\ partial.got + 1 # partial.n
                    /\ partial' = a /\ UNCHANGED <<pc, unexpected, waits>> /\ SameSending
                 \/ /\ ~Expected(partial, f) \/ partial.svc # svc
                    /\ Ignores
                 \/ ~Expected(partial, f) /\ Ends("TRANSPORT", call, TRUE)
                 \/ Ends("returned", partial.of, a.whole)
  BY AssembleIs
<1>2. f = rx[1] /\ rx # <<>> /\ rx' = Tail(rx) /\ UNCHANGED <<asm, todo, out>> /\ rx \in Seq(Frames)
  BY <1>1 DEF Reads, Rest, Types
<1>3. /\ asm = None /\ todo = None /\ IsOurs(partial) /\ partial.got < partial.n /\ Coming
  BY <1>1, <1>2 DEF Calm, AskedFor
<1>4. PICK r : r = rx'
  OBVIOUS
<1>5. /\ Len(rx) \in Nat \ {0} /\ Len(r) = Len(rx) - 1 /\ r \in Seq(Frames)
      /\ \A i \in 1..Len(r) : r[i] = rx[i + 1] /\ i + 1 \in 1..Len(rx)
  BY <1>2, <1>4, TailFacts
<1>6. f.type = "CF" /\ f.pos = partial.got + 1
  <2>1. 1 \in 1..Len(rx)
    BY <1>5
  <2> QED
    BY <1>2, <1>3, <2>1 DEF Coming
<1>7. Expected(partial, f) /\ partial.of = call /\ partial.svc = svc
  BY <1>3, <1>6 DEF Expected, IsOurs
<1>8. CASE Ends("returned", partial.of, a.whole)
  BY <1>7, <1>8 DEF Calm, Ends
<1>9. CASE /\ partial.got + 1 # partial.n
           /\ partial' = a /\ UNCHANGED <<pc, unexpected, waits>> /\ SameSending
  <2>1. a.of = partial.of /\ a.svc = partial.svc /\ a.n = partial.n /\ a.got = partial.got + 1
    <3>1. partial \in Payloads
      BY DEF Types
    <3>2. Longer(partial, f, a)
      BY <1>1, <3>1, ExtendedIs
    <3> QED
      BY <3>2 DEF Longer
  <2>2. partial.got \in Nat /\ partial.n \in Nat /\ partial.got < partial.n
    BY <1>3, PayloadNumbers
  <2>3. a.got < a.n /\ a.got + Len(r) = partial.got + Len(rx) /\ a.got \in Nat
    <3>1. ASSUME NEW g \in Nat, NEW n \in Nat, g < n, g + 1 # n, NEW h, h = g + 1,
                 NEW k \in Nat, NEW m \in Nat, m = k - 1
          PROVE  h < n /\ h + m = g + k /\ h \in Nat
      BY <3>1
    <3>2. Len(rx) \in Nat /\ Len(r) \in Nat /\ Len(r) = Len(rx) - 1
      BY <1>5, LenProperties
    <3>3. a.got = partial.got + 1 /\ a.n = partial.n /\ partial.got + 1 # partial.n
      BY <1>9, <2>1
    <3> QED
      BY <2>2, <3>1, <3>2, <3>3
  <2>4. \A i \in 1..Len(r) : r[i].type = "CF" /\ r[i].pos = a.got + i
    <3>1. ASSUME NEW i \in 1..Len(r)
          PROVE  r[i].type = "CF" /\ r[i].pos = a.got + i
      <4>1. r[i].type = "CF" /\ r[i].pos = partial.got + (i + 1)
        BY <1>3, <1>5 DEF Coming
      <4>2. partial.got + (i + 1) = a.got + i
        BY <2>1, <2>2
      <4> QED
        BY <4>1, <4>2
    <3> QED
      BY <3>1
  <2>5. Coming'
    BY <1>1, <1>2, <1>3, <1>4, <1>9, <2>1, <2>3, <2>4 DEF Coming
  <2> QED
    BY <1>1, <1>2, <1>3, <1>9, <2>1, <2>3, <2>5 DEF Calm, IsOurs, SameSending
<1> QED
  BY <1>1, <1>7, <1>8, <1>9


\* The ECU takes the frames of the request, or the host's flow control.
LEMMA ReceiveCalm ==
    ASSUME Types, Calm, EcuReceives
    PROVE  Calm'
<1>1. PICK f \in Frames :
              /\ Hears(f)
              /\ \/ HearsSingle(f) \/ HearsFirst(f) \/ HearsWrong(f) \/ HearsGrant(f)
                 \/ \E a \in Payloads : HearsNext(f, a)
  BY EcuReceivesIs
<1>2. /\ f = inbox[1] /\ inbox # <<>> /\ inbox \in Seq(Frames) /\ rx' = rx
      /\ UNCHANGED <<pc, call, svc, cfs, sent, inBlock, block, partial, result>>
  BY <1>1 DEF Hears, Types
<1>3. PICK r : r = inbox'
  OBVIOUS
<1>4. /\ Len(inbox) \in Nat \ {0} /\ Len(r) = Len(inbox) - 1 /\ r \in Seq(Frames)
      /\ \A i \in 1..Len(r) : r[i] = inbox[i + 1] /\ i + 1 \in 1..Len(inbox)
  <2>1. r = Tail(inbox)
    BY <1>1, <1>3 DEF Hears
  <2> QED
    BY <1>2, <2>1, TailFacts
<1>5. Len(inbox) = 1 => r = <<>>
  BY <1>4, EmptySeq
<1>6. pc # "idle" => call \in Nat \ {0}
  BY Numbers DEF Types
<1>7. pc \in {"idle", "first", "awaitFC", "sendCF", "poll", "assemble"}
  BY DEF Types
<1>8. CASE pc = "idle" \/ pc = "first"
  BY <1>2, <1>8 DEF Calm, Unclean
<1>9. ASSUME FirstSent, pc = "awaitFC"
      PROVE  Calm'
  <2>1. /\ rx = <<>> /\ Free /\ Len(inbox) = 1 /\ f.type = "FF" /\ f.of = call /\ f.svc = svc
        /\ f.n = cfs /\ sent = 0
    BY <1>2, <1>9 DEF FirstSent, Only, IsOurs
  <2>2. asm' = Started(f) /\ out' = None /\ todo' = todo
    BY <1>1, <2>1 DEF HearsSingle, HearsFirst, HearsWrong, HearsGrant, HearsNext
  <2>3. PICK a : a = asm'
    OBVIOUS
  <2>4. a.of = call /\ a.svc = svc /\ a.n = cfs /\ a.got = 0 /\ a.left = 0
    BY <2>1, <2>2, <2>3, StartedIs
  <2>5. a # None
    BY <1>6, <1>9, <2>4, NoneIs
  <2>6. Len(r) = 0 /\ \A i : i \notin 1..Len(r)
    BY <1>4, <2>1
  <2>7. PICK d : d = Credit'
    OBVIOUS
  <2>8. d = 0
    BY <1>2, <1>9, <2>7 DEF Credit
  <2>9. a.got + Len(r) = sent /\ a.left >= Len(r) + d
    BY <2>1, <2>4, <2>6, <2>8
  <2>10. Arriving'
    BY <1>2, <1>3, <2>1, <2>2, <2>3, <2>4, <2>5, <2>6, <2>7, <2>9 DEF Arriving, IsOurs, Free
  <2> QED
    BY <1>2, <1>9, <2>1, <2>10 DEF Calm, InTransit
<1>10. ASSUME InTransit, pc \in {"awaitFC", "sendCF", "poll"}
       PROVE  Calm'
  <2>1. /\ rx = <<>> /\ asm # None /\ todo = None /\ out = None /\ asm.of = call /\ asm.svc = svc
        /\ asm.n = cfs /\ asm.got + Len(inbox) = sent /\ asm.left >= Len(inbox) + Credit
        /\ \A i \in 1..Len(inbox) : inbox[i].type = "CF" /\ inbox[i].pos = asm.got + i
    BY <1>10 DEF InTransit, Arriving, IsOurs
  <2>2. f.type = "CF" /\ f.pos = asm.got + 1
    <3>1. 1 \in 1..Len(inbox)
      BY <1>4
    <3> QED
      BY <1>2, <2>1, <3>1
  <2>3. Expected(asm, f)
    BY <2>2 DEF Expected
  <2>4. PICK a \in Payloads : HearsNext(f, a)
    BY <1>1, <2>1, <2>2, <2>3 DEF HearsSingle, HearsFirst, HearsWrong, HearsGrant
  <2>5. /\ out' = out /\ a.of = asm.of /\ a.svc = asm.svc /\ a.n = asm.n /\ a.got = asm.got + 1
        /\ a.left = asm.left - 1
        /\ \/ a.got = a.n /\ todo' = Started(a) /\ asm' = None
           \/ a.got # a.n /\ asm' = a /\ todo' = todo
    BY <2>4 DEF HearsNext, Grown, CarriesOut
  <2>6. PICK c \in Int, d \in Int : c = Credit /\ d = Credit'
    <3>1. cfs \in Nat /\ sent \in Nat /\ block \in Nat /\ inBlock \in Nat
      BY Numbers DEF Types
    <3>2. Credit \in Int
      BY <3>1 DEF Credit
    <3>3. Credit' = Credit
      BY <1>2 DEF Credit
    <3> QED
      BY <3>2, <3>3
  <2>7. c = d
    BY <1>2, <2>6 DEF Credit
  <2>8. /\ a.got + Len(r) = sent /\ a.left >= Len(r) + c
        /\ a.got = cfs => Len(inbox) = 1 /\ sent = cfs
        /\ sent = cfs /\ a.got # cfs => Len(r) # 0
    <3>1. PICK g, h, l, m, k, j, s, t :
              /\ g = asm.got /\ h = a.got /\ l = asm.left /\ m = a.left /\ k = Len(inbox)
              /\ j = Len(r) /\ s = sent /\ t = cfs
      OBVIOUS
    <3>2. asm.got \in Nat /\ asm.left \in Int /\ sent \in Nat /\ cfs \in Nat /\ sent <= cfs
      BY PayloadNumbers, Numbers DEF Types
    <3>3. asm.left >= Len(inbox) + c
      BY <2>1, <2>6
    <3>4. Len(inbox) \in Nat \ {0} /\ Len(r) = Len(inbox) - 1
      BY <1>4
    <3>5. a.got = asm.got + 1 /\ a.left = asm.left - 1
      BY <2>5
    <3>6. asm.got + Len(inbox) = sent
      BY <2>1
    <3>7. /\ g \in Nat /\ l \in Int /\ s \in Nat /\ t \in Nat /\ s <= t /\ k \in Nat \ {0}
          /\ l >= k + c /\ j = k - 1 /\ h = g + 1 /\ m = l - 1 /\ g + k = s
      BY <3>1, <3>2, <3>3, <3>4, <3>5, <3>6
    <3>8. h + j = s /\ m >= j + c /\ (h = t => k = 1 /\ s = t) /\ (s = t /\ h # t => j # 0)
      BY <3>7
    <3> QED
      BY <3>1, <3>8
  <2>9. CASE a.got = a.n
    <3>1. Len(inbox) = 1 /\ sent = cfs
      BY <2>1, <2>5, <2>8, <2>9
    <3>2. pc = "poll"
      BY <1>10, <3>1, Numbers DEF Types
    <3>3. PICK b : b = Started(a)
      OBVIOUS
    <3>4. b.of = call /\ b.svc = svc
      BY <2>1, <2>5, <3>3, StartedIs
    <3>5. b # None
      BY <1>6, <3>2, <3>4, NoneIs
    <3>6. \A i : i \notin 1..Len(<<>>)
      BY EmptySeq
    <3>7. CarryingOut'
      BY <1>2, <1>3, <1>5, <2>1, <2>5, <2>9, <3>1, <3>3, <3>4, <3>5, <3>6 DEF CarryingOut, IsOurs
    <3> QED
      BY <1>2, <3>2, <3>7 DEF Calm
  <2>10. CASE a.got # a.n
    <3>1. a # None
      BY <1>6, <1>10, <2>1, <2>5, NoneIs
    <3>2. \A i \in 1..Len(r) : r[i].type = "CF" /\ r[i].pos = a.got + i
      <4>1. ASSUME NEW i \in 1..Len(r)
            PROVE  r[i].type = "CF" /\ r[i].pos = a.got + i
        <5>1. r[i].type = "CF" /\ r[i].pos = asm.got + (i + 1)
          BY <1>4, <2>1
        <5>2. asm.got + (i + 1) = a.got + i
          <6>1. asm.got \in Nat /\ i \in Nat
            BY PayloadNumbers
          <6>2. a.got = asm.got + 1
            BY <2>5
          <6> QED
            BY <6>1, <6>2
        <5> QED
          BY <5>1, <5>2
      <4> QED
        BY <4>1
    <3>3. asm' = a /\ todo' = None /\ out' = None
      BY <2>1, <2>5, <2>10
    <3>4. a.left >= Len(r) + d /\ a.got + Len(r) = sent
      BY <2>7, <2>8
    <3>5. a.of = call /\ a.svc = svc /\ a.n = cfs
      BY <2>1, <2>5
    <3>6. InTransit'
      BY <1>2, <1>3, <2>1, <2>6, <3>1, <3>2, <3>3, <3>4, <3>5 DEF InTransit, Arriving, IsOurs
    <3>7. pc = "poll" => r # <<>>
      BY <2>1, <2>5, <2>8, <2>10, EmptySeq DEF Types
    <3> QED
      BY <1>2, <1>3, <1>10, <3>6, <3>7 DEF Calm
  <2> QED
    BY <2>9, <2>10
<1>11. CASE pc = "awaitFC" \/ pc = "sendCF"
  BY <1>2, <1>9, <1>10, <1>11 DEF Calm, Granted
<1>12. ASSUME SingleSent, pc = "poll"
       PROVE  Calm'
  <2>1. /\ rx = <<>> /\ Free /\ Len(inbox) = 1 /\ f.type = "SF" /\ f.of = call /\ f.svc = svc
    BY <1>2, <1>12 DEF SingleSent, Only, IsOurs
  <2>2. PICK b : b = Started(f)
    OBVIOUS
  <2>3. todo' = Started(b) /\ asm' = None /\ out' = None
    BY <1>1, <2>1, <2>2 DEF HearsSingle, HearsFirst, HearsWrong, HearsGrant, HearsNext, CarriesOut
  <2>4. PICK a : a = Started(b)
    OBVIOUS
  <2>5. a.of = call /\ a.svc = svc
    <3>1. b \in Payloads /\ b.of = f.of /\ b.svc = f.svc
      BY <2>2, StartedIs
    <3> QED
      BY <2>1, <2>4, <3>1, StartedIs
  <2>6. a # None
    BY <1>6, <1>12, <2>5, NoneIs
  <2>7. \A i : i \notin 1..Len(<<>>)
    BY EmptySeq
  <2>8. CarryingOut'
    BY <1>2, <1>3, <1>5, <2>1, <2>3, <2>4, <2>5, <2>6, <2>7 DEF CarryingOut, IsOurs
  <2> QED
    BY <1>2, <1>12, <2>8 DEF Calm
<1>13. CASE pc = "poll"
  BY <1>2, <1>10, <1>12, <1>13 DEF Calm, CarryingOut, Answered
<1>14. CASE pc = "assemble"
  <2>1. asm = None /\ todo = None /\ IsOurs(partial) /\ partial.got < partial.n /\ AskedFor
    BY <1>2, <1>14 DEF Calm, Coming
  <2>2. /\ rx = <<>> /\ Len(inbox) = 1 /\ f.type = "FC" /\ out # None /\ out.n = partial.n
        /\ out.got = partial.got
    BY <1>2, <2>1 DEF AskedFor, Only
  <2>3. out' = [out EXCEPT !.info = "going"] /\ asm' = asm /\ todo' = todo
    BY <1>1, <2>2 DEF HearsSingle, HearsFirst, HearsWrong, HearsGrant, HearsNext
  <2>4. PICK o : o = out'
    OBVIOUS
  <2>5. out \in Payloads
    BY DEF Types
  <2>6. o.info = "going" /\ o.n = out.n /\ o.got = out.got
    BY <2>3, <2>4, <2>5 DEF Payloads
  <2>7. o # None
    BY <2>6 DEF None
  <2>8. Len(<<>>) = 0 /\ \A i : i \notin 1..Len(<<>>)
    BY EmptySeq
  <2>9. o.got = partial.got + Len(<<>>)
    BY <2>2, <2>6, <2>8, PayloadNumbers
  <2>10. Coming'
    BY <1>2, <1>3, <1>5, <2>2, <2>4, <2>6, <2>7, <2>8, <2>9 DEF Coming
  <2> QED
    BY <1>2, <1>14, <2>1, <2>3, <2>10 DEF Calm, IsOurs
<1> QED
  BY <1>7, <1>8, <1>11, <1>13, <1>14

\* The ECU grants frames, is not ready, or answers.
LEMMA EcuSendsCalm ==
    ASSUME Types, OneThing, Calm, NEW f \in Frames, EcuSends(f),
           Grants(f) \/ Delays(f) \/ AnswersSingle(f) \/ AnswersFirst(f) \/ Continued(f)
    PROVE  Calm'
<1>1. /\ rx' = Append(rx, f) /\ rx \in Seq(Frames) /\ inbox' = inbox
      /\ UNCHANGED <<pc, call, svc, cfs, sent, inBlock, block, partial, result>>
  BY DEF EcuSends, Types
<1>2. PICK r : r = rx'
  OBVIOUS
<1>3. /\ Len(rx) \in Nat /\ Len(r) = Len(rx) + 1
      /\ \A i \in 1..Len(rx) : r[i] = rx[i]
      /\ r[Len(rx) + 1] = f
  BY <1>1, <1>2, AppendFacts
<1>4. \A i \in 1..Len(r) : i \in 1..Len(rx) \/ i = Len(rx) + 1
  BY <1>3, IndexFacts
<1>5. r[Len(r)] = f /\ r # <<>> /\ Len(r) - 1 = Len(rx)
  BY <1>3, EmptySeq
<1>6. pc \in {"idle", "first", "awaitFC", "sendCF", "poll", "assemble"}
      /\ asm \in Payloads /\ todo \in Payloads /\ out \in Payloads
  BY DEF Types
<1>7. asm # None \/ todo # None \/ out # None
  BY DEF Grants, Delays, AnswersSingle, AnswersFirst, Continued
<1>8. CASE pc = "idle" \/ pc = "first"
  BY <1>1, <1>7, <1>8 DEF Calm, Unclean
<1>9. ASSUME Arriving
      PROVE  Grants(f) /\ asm.left <= 0 /\ asm.left >= Len(inbox) + Credit
  <2>1. todo = None /\ out = None /\ asm.left >= Len(inbox) + Credit
    BY <1>9 DEF Arriving
  <2>2. Grants(f)
    BY <2>1 DEF Delays, AnswersSingle, AnswersFirst, Continued
  <2> QED
    BY <2>1, <2>2 DEF Grants
<1>10. Len(inbox) \in Nat /\ (Len(inbox) = 0 => inbox = <<>>) /\ inbox \in Seq(Frames)
  BY EmptySeq, PayloadNumbers DEF Types
<1>11. ASSUME pc = "awaitFC"
       PROVE  Calm'
  <2>1. InTransit
    <3>1. Granted => asm.left > 0 /\ Arriving /\ asm.left \in Int
      BY PayloadNumbers DEF Granted
    <3>2. ~Granted
      BY <1>9, <3>1
    <3> QED
      BY <1>7, <1>11, <3>2 DEF Calm, FirstSent, Free
  <2>2. Grants(f) /\ asm.left <= 0 /\ asm.left >= Len(inbox) + Credit
    BY <1>9, <2>1 DEF InTransit
  <2>3. Credit = 0 /\ asm.left \in Int
    BY <1>11, PayloadNumbers DEF Credit
  <2>4. Len(inbox) = 0
    BY <1>10, <2>2, <2>3
  <2>5. /\ rx = <<>> /\ asm # None /\ todo = None /\ out = None /\ asm.of = call /\ asm.svc = svc
        /\ asm.n = cfs /\ asm.got + Len(inbox) = sent
    BY <2>1 DEF InTransit, Arriving, IsOurs
  <2>6. PICK w : w = IF f.n = 0 THEN asm.n ELSE f.n
    OBVIOUS
  <2>7. w \in Nat /\ w > 0 /\ w = Window(f.n)
    <3>1. f.n \in Nat /\ cfs \in Nat /\ sent \in Nat /\ sent < cfs
      BY <1>11, Numbers DEF Types, Frames
    <3> QED
      BY <2>5, <2>6, <3>1 DEF Window
  <2>8. asm' = [asm EXCEPT !.left = w] /\ IsGo(f) /\ todo' = None /\ out' = None
    BY <2>2, <2>5, <2>6 DEF Grants
  <2>9. PICK a : a = asm'
    OBVIOUS
  <2>10. a.of = asm.of /\ a.svc = asm.svc /\ a.n = asm.n /\ a.got = asm.got /\ a.left = w
    BY <1>6, <2>7, <2>8, <2>9 DEF Payloads
  <2>11. a # None
    <3>1. call # 0
      BY <1>11 DEF Types
    <3> QED
      BY <2>5, <2>10, <3>1, NoneIs
  <2>12. Len(r) = 1 /\ r[1] = f
    BY <1>3, <2>5, EmptySeq
  <2>13. PICK d : d = Credit'
    OBVIOUS
  <2>14. d = 0
    BY <1>1, <1>11, <2>13 DEF Credit
  <2>15. a.left >= Len(inbox) + d /\ a.left > 0 /\ a.left >= Window(f.n)
         /\ \A i : i \notin 1..Len(inbox)
    BY <2>4, <2>7, <2>10, <2>14
  <2>16. Window(f.n)' = Window(f.n)
    BY <1>1 DEF Window
  <2>17. Arriving'
    BY <1>1, <2>5, <2>8, <2>9, <2>10, <2>11, <2>13, <2>15 DEF Arriving, IsOurs
  <2>18. Granted'
    BY <1>1, <1>2, <1>10, <2>4, <2>8, <2>9, <2>12, <2>15, <2>16, <2>17 DEF Granted
  <2> QED
    BY <1>1, <1>11, <2>18 DEF Calm
<1>12. pc # "sendCF"
  <2>1. SUFFICES ASSUME pc = "sendCF"
                 PROVE  FALSE
    OBVIOUS
  <2>2. asm.left <= 0 /\ asm.left >= Len(inbox) + Credit
    BY <1>9, <2>1 DEF Calm, InTransit
  <2>3. Credit > 0 /\ Credit \in Int
    <3>1. cfs \in Nat /\ sent \in Nat /\ sent < cfs /\ block \in Nat /\ inBlock \in Nat
          /\ (block = 0 \/ inBlock < block)
      BY <2>1, Numbers DEF Types
    <3> QED
      BY <2>1, <3>1 DEF Credit
  <2> QED
    BY <1>10, <2>2, <2>3, PayloadNumbers
<1>13. ASSUME pc = "poll", CarryingOut
       PROVE  Calm'
  <2>1. /\ inbox = <<>> /\ asm = None /\ out = None /\ todo # None /\ todo.of = call
        /\ todo.svc = svc /\ todo.got = 0 /\ \A i \in 1..Len(rx) : IsPending(rx[i])
    BY <1>13 DEF CarryingOut, IsOurs, OneThing
  <2>2. \A i \in 1..Len(rx) : IsPending(r[i])'
    BY <1>1, <1>3, <2>1 DEF IsPending
  <2>3. CASE Delays(f)
    <3>1. IsPending(f)' /\ UNCHANGED <<asm, todo, out>>
      BY <1>1, <2>1, <2>3 DEF Delays, IsPending
    <3>2. \A i \in 1..Len(r) : IsPending(r[i])'
      BY <1>3, <1>4, <2>2, <3>1
    <3>3. CarryingOut'
      BY <1>1, <1>2, <2>1, <3>1, <3>2 DEF CarryingOut, IsOurs
    <3> QED
      BY <1>1, <1>13, <3>3 DEF Calm
  <2>4. CASE AnswersSingle(f) \/ AnswersFirst(f)
    <3>1. f.of = call /\ f.svc = svc /\ f.info = "positive" /\ todo' = None /\ asm' = None
      BY <2>1, <2>4 DEF AnswersSingle, AnswersFirst
    <3>2. \/ f.type = "SF" /\ out' = None
          \/ f.type = "FF" /\ out' = [todo EXCEPT !.n = f.n, !.info = "owed"]
      BY <2>4 DEF AnswersSingle, AnswersFirst
    <3>3. ASSUME NEW o, o = [todo EXCEPT !.n = f.n, !.info = "owed"]
          PROVE  o # None /\ o.n = f.n /\ o.got = 0 /\ o.info = "owed"
      <4>1. o.n = f.n /\ o.got = todo.got /\ o.info = "owed"
        BY <1>6, <3>3 DEF Payloads
      <4> QED
        BY <2>1, <4>1 DEF None
    <3>4. PICK o : o = out'
      OBVIOUS
    <3>5. \/ f.type = "SF" /\ o = None
          \/ f.type = "FF" /\ o # None /\ o.n = f.n /\ o.got = 0 /\ o.info = "owed"
      BY <3>2, <3>3, <3>4
    <3>6. IsAnswer(f)'
      BY <1>1, <3>1, <3>4, <3>5 DEF IsAnswer, IsOurs
    <3>7. Answered'
      BY <1>1, <1>2, <1>5, <2>1, <2>2, <3>1, <3>6 DEF Answered
    <3> QED
      BY <1>1, <1>13, <3>7 DEF Calm
  <2> QED
    BY <2>1, <2>3, <2>4 DEF Grants, Continued
<1>14. CASE pc = "poll"
  <2>1. ~Answered
    BY <1>7 DEF Answered, IsAnswer, Grants, Delays, AnswersSingle, AnswersFirst, Continued
  <2>2. ~(InTransit /\ inbox # <<>>)
    <3>1. InTransit => asm.left <= 0 /\ asm.left >= Len(inbox) + Credit
      BY <1>9 DEF InTransit
    <3>2. Credit = 0 /\ asm.left \in Int
      BY <1>14, PayloadNumbers DEF Credit
    <3>3. asm.left <= 0 /\ asm.left >= Len(inbox) + Credit => Len(inbox) = 0
      BY <1>10, <3>2
    <3> QED
      BY <1>10, <3>1, <3>3
  <2> QED
    BY <1>7, <1>13, <1>14, <2>1, <2>2 DEF Calm, SingleSent, Free
<1>15. CASE pc = "assemble"
  <2>1. asm = None /\ todo = None /\ IsOurs(partial) /\ partial.got < partial.n
    BY <1>15 DEF Calm
  <2>2. Continued(f)
    BY <2>1 DEF Grants, Delays, AnswersSingle, AnswersFirst
  <2>3. Coming
    BY <1>15, <2>2 DEF Calm, AskedFor, Continued
  <2>4. /\ out # None /\ out.info = "going" /\ f.type = "CF" /\ f.pos = out.got + 1
        /\ out' = IF out.got + 1 = out.n THEN None ELSE [out EXCEPT !.got = @ + 1]
        /\ asm' = None /\ todo' = None
    BY <2>1, <2>2 DEF Continued
  <2>5. out.n = partial.n /\ out.got = partial.got + Len(rx) /\ inbox = <<>>
        /\ \A i \in 1..Len(rx) : rx[i].type = "CF" /\ rx[i].pos = partial.got + i
    BY <2>3, <2>4 DEF Coming
  <2>6. PICK k : k = out.got + 1
    OBVIOUS
  <2>7. k = partial.got + Len(r) /\ k = partial.got + (Len(rx) + 1) /\ k \in Nat
    <3>1. partial.got \in Nat /\ Len(rx) \in Nat
      BY PayloadNumbers
    <3>2. Len(r) = Len(rx) + 1 /\ out.got = partial.got + Len(rx)
      BY <1>3, <2>5
    <3> QED
      BY <2>6, <3>1, <3>2
  <2>8. \A i \in 1..Len(r) : r[i].type = "CF" /\ r[i].pos = partial.got + i
    BY <1>3, <1>4, <2>4, <2>5, <2>6, <2>7
  <2>9. PICK e : e = [out EXCEPT !.got = k]
    OBVIOUS
  <2>10. e.n = partial.n /\ e.got = k /\ e # None
    <3>1. e.n = out.n /\ e.got = k /\ e.info = "going"
      BY <1>6, <2>4, <2>9 DEF Payloads
    <3> QED
      BY <2>5, <3>1 DEF None
  <2>11. out' = IF k = partial.n THEN None ELSE e
    BY <2>4, <2>5, <2>6, <2>9
  <2>12. PICK o : o = out'
    OBVIOUS
  <2>13. /\ o = None => partial.got + Len(r) = partial.n
         /\ o # None => o.n = partial.n /\ o.got = partial.got + Len(r)
    BY <2>7, <2>10, <2>11, <2>12
  <2>14. Coming'
    BY <1>1, <1>2, <2>5, <2>8, <2>12, <2>13 DEF Coming
  <2> QED
    BY <1>1, <1>15, <2>1, <2>4, <2>14 DEF Calm, IsOurs
<1> QED
  BY <1>6, <1>8, <1>11, <1>12, <1>14, <1>15

\* While a call runs it has no result, and whoever is cancelled is disturbed.
Running ==
    /\ pc # "idle" => result.outcome = "none"
    /\ cancelled => disturbed

LEMMA RunningStep ==
    ASSUME TypeInv, Running, [Next]_vars
    PROVE  Running'
<1>1. Types /\ OneThing
  BY DEF TypeInv
<1>2. CASE \E s \in Services, n \in Cfs : Start(s, n)
  <2>1. result'.outcome = "none" /\ cancelled' = FALSE
    BY <1>2 DEF Start
  <2> QED
    BY <2>1 DEF Running
<1>3. CASE SendFirst \/ SendConsecutive
  <2>1. pc # "idle" /\ UNCHANGED <<result, cancelled, disturbed>>
    BY <1>3 DEF SendFirst, SendConsecutive
  <2> QED
    BY <2>1 DEF Running
<1>4. ASSUME pc' # "idle" => pc # "idle" /\ result' = result,
             UNCHANGED <<cancelled, disturbed>> \/ disturbed' = TRUE
      PROVE  Running'
  BY <1>4 DEF Running
<1>5. CASE TakeFlowControl
  <2>1. pc' # "idle" => pc # "idle" /\ result' = result
    BY <1>1, <1>5, TakeFlowControlIs DEF Ends, SameSending
  <2>2. UNCHANGED <<cancelled, disturbed>>
    BY <1>5 DEF TakeFlowControl
  <2> QED
    BY <1>4, <2>1, <2>2
<1>6. CASE Poll
  <2>1. pc' # "idle" => pc # "idle" /\ result' = result
    BY <1>1, <1>6, PollIs DEF Ends, SameSending, Ignores
  <2>2. UNCHANGED <<cancelled, disturbed>>
    BY <1>6 DEF Poll
  <2> QED
    BY <1>4, <2>1, <2>2
<1>7. CASE Assemble
  <2>1. pc' # "idle" => pc # "idle" /\ result' = result
    BY <1>1, <1>7, AssembleIs DEF Ends, SameSending, Ignores
  <2>2. UNCHANGED <<cancelled, disturbed>>
    BY <1>7 DEF Assemble
  <2> QED
    BY <1>4, <2>1, <2>2
<1>8. CASE FlowControlTimeout \/ ResponseTimeout \/ NoticeCancel
  <2>1. pc' # "idle" => pc # "idle" /\ result' = result
    BY <1>8 DEF FlowControlTimeout, ResponseTimeout, NoticeCancel, Raise, End
  <2>2. UNCHANGED <<cancelled, disturbed>> \/ disturbed' = TRUE
    BY <1>8 DEF FlowControlTimeout, ResponseTimeout, NoticeCancel
  <2> QED
    BY <1>4, <2>1, <2>2
<1>9. CASE Environment \/ UNCHANGED vars
  <2>1. pc' = pc /\ result' = result
    BY <1>9 DEF Environment, vars, hostVars, Cancel, Lose, Fault, EcuReceives, EcuStalls, EcuOverflows,
       EcuPending, EcuRefuses, EcuContinues, EcuGrants, EcuAnswers
  <2>2. UNCHANGED <<cancelled, disturbed>> \/ disturbed' = TRUE
    BY <1>9 DEF Environment, vars, Cancel, Lose, Fault, EcuReceives, EcuStalls, EcuOverflows,
       EcuPending, EcuRefuses, EcuContinues, EcuGrants, EcuAnswers
  <2> QED
    BY <1>4, <2>1, <2>2
<1> QED
  BY <1>2, <1>3, <1>5, <1>6, <1>7, <1>8, <1>9 DEF Next, Host

\* Whatever happens, the call stays calm or is disturbed.
LEMMA CalmStep ==
    ASSUME TypeInv, Running, ~disturbed => Calm, KeepsBatch = TRUE, [Next]_vars, ~disturbed'
    PROVE  Calm'
<1>1. Types /\ OneThing
  BY DEF TypeInv
<1>2. disturbed \in BOOLEAN /\ cancelled \in BOOLEAN
  BY <1>1 DEF Types
<1>3. CASE \E s \in Services, n \in Cfs : Start(s, n)
  <2>1. ~Unclean /\ pc' = "first" /\ UNCHANGED <<rx, inbox, asm, todo, out>>
    BY <1>3 DEF Start, ecuVars
  <2> QED
    BY <2>1 DEF Calm, Unclean
<1>4. CASE SendFirst \/ TakeFlowControl \/ SendConsecutive \/ Poll \/ Assemble
  <2>1. disturbed' = disturbed
    BY <1>4 DEF SendFirst, TakeFlowControl, SendConsecutive, Poll, Assemble
  <2> QED
    BY <1>1, <1>4, <2>1, SendFirstCalm, TakeFlowControlCalm, SendCalm, PollCalm, AssembleCalm
<1>5. CASE FlowControlTimeout \/ ResponseTimeout \/ Cancel \/ Lose
  BY <1>5 DEF FlowControlTimeout, ResponseTimeout, Cancel, Lose, Fault
<1>6. CASE NoticeCancel
  BY <1>2, <1>6 DEF NoticeCancel, Running
<1>7. CASE \/ EcuStalls \/ EcuOverflows \/ EcuPending \/ EcuRefuses \/ EcuContinues
           \/ (\E bs \in BlockSizes : EcuGrants(bs)) \/ (\E n \in Cfs : EcuAnswers(n))
  <2>1. PICK f \in Frames :
               /\ EcuSends(f)
               /\ \/ Grants(f) \/ Stalls(f) \/ Overflows(f) \/ Delays(f) \/ AnswersSingle(f)
                  \/ AnswersFirst(f) \/ Refuses(f) \/ Continued(f)
    BY <1>1, <1>7, EcuSendsIs
  <2>2. Grants(f) \/ Delays(f) \/ AnswersSingle(f) \/ AnswersFirst(f) \/ Continued(f)
    BY <2>1 DEF Stalls, Overflows, Refuses
  <2>3. disturbed' = disturbed
    BY <2>2 DEF Grants, Delays, AnswersSingle, AnswersFirst, Continued
  <2> QED
    BY <1>1, <2>1, <2>2, <2>3, EcuSendsCalm
<1>8. CASE EcuReceives
  <2>1. disturbed' = disturbed
    BY <1>8 DEF EcuReceives
  <2> QED
    BY <1>1, <1>8, <2>1, ReceiveCalm
<1>9. CASE UNCHANGED vars
  BY <1>9 DEF vars, hostVars, ecuVars, Calm, Unclean, SingleSent, FirstSent, Arriving, InTransit, Granted,
     IsPending, CarryingOut, IsAnswer, Answered, AskedFor, Coming, IsOurs, Free, Only, Credit, Window
<1> QED
  BY <1>3, <1>4, <1>5, <1>6, <1>7, <1>8, <1>9 DEF Next, Host, Environment

\* What holds of every call.
LEMMA CallInv ==
    ASSUME KeepsBatch = TRUE
    PROVE  Spec => [](TypeInv /\ CallOK)
<1>1. CallOK <=> Running /\ (~disturbed => Calm)
  BY DEF CallOK, Running
<1>2. Init => TypeInv /\ CallOK
  <2>1. Init => Running /\ Calm
    BY DEF Init, Running, Calm
  <2> QED
    BY <1>1, <2>1, TypeInit
<1>3. TypeInv /\ CallOK /\ [Next]_vars => (TypeInv /\ CallOK)'
  BY <1>1, TypeStep, RunningStep, CalmStep DEF CallOK, Running
<1> QED
  BY <1>2, <1>3, PTL DEF Spec

\* A call that nothing disturbs - it began with no frame of an earlier one under
\* way, nobody cancelled it, no deadline passed, the bus lost no frame of it and
\* the ECU neither stalled nor refused it - returns the answer to this very call,
\* whatever it made the ECU do frame by frame: request() reads, sends and skips
\* frames so that no answer of the right service is passed over or mistaken.
THEOREM CallReturns ==
    ASSUME KeepsBatch = TRUE
    PROVE  Spec => []UndisturbedCallReturns
<1>1. CallOK => UndisturbedCallReturns
  BY DEF CallOK, Calm, UndisturbedCallReturns
<1> QED
  BY <1>1, CallInv, PTL

\* As long as nothing went wrong, what the host waits for - a flow control, the
\* answer, or its next frame - is on its way, or the ECU is at it: the host has
\* not thrown it away.
THEOREM NoWaitIsVain ==
    ASSUME KeepsBatch = TRUE
    PROVE  Spec => []NeverWaitsInVain
<1>1. ASSUME TypeInv, CallOK
      PROVE  NeverWaitsInVain
  <2>1. SUFFICES ASSUME Calm, pc \in {"awaitFC", "poll", "assemble"}
                 PROVE  Unclean
    BY <1>1 DEF NeverWaitsInVain, CallOK
  <2>2. (Len(inbox) = 1 => inbox # <<>>) /\ (Len(rx) # 0 => rx # <<>>)
    BY EmptySeq
  <2>3. SingleSent \/ FirstSent \/ Arriving \/ CarryingOut \/ Answered \/ AskedFor => Unclean
    BY <2>2 DEF SingleSent, FirstSent, Only, Arriving, CarryingOut, Answered, AskedFor, Unclean
  <2>4. Coming /\ partial.got < partial.n => Unclean
    <3>1. Types
      BY <1>1 DEF TypeInv
    <3>2. partial.got \in Nat /\ partial.n \in Nat
      BY <3>1, PayloadNumbers
    <3>3. partial.got + Len(rx) = partial.n /\ partial.got < partial.n => Len(rx) # 0
      BY <3>2
    <3> QED
      BY <2>2, <3>3 DEF Coming, Unclean
  <2> QED
    BY <2>1, <2>3, <2>4 DEF Calm, InTransit, Granted
<1> QED
  BY <1>1, CallInv, PTL

-------------------------------------------------------------------------------
(***************************************************************************)
(* The order of requests and answers.  The calls whose requests are on     *)
(* their way rise, above the one that the ECU carried out last; the calls  *)
(* whose answers are ready rise, above the one that the host assembles or  *)
(* was given last.                                                         *)
(***************************************************************************)
Last == IF executed = <<>> THEN 0 ELSE executed[Len(executed)].of
\* The last call whose request can be complete.
Top == IF pc = "first" \/ (pc = "awaitFC" /\ sent = 0) THEN call - 1 ELSE call
Completes(f) == f.type \in {"SF", "CF"}

Ordered(q) ==
    \A i, j \in 1..Len(q) : i < j =>
       /\ q[i].of <= q[j].of
       /\ Completes(q[i]) /\ IsStart(q[j]) => q[i].of < q[j].of
Between(q, lo, hi) ==
    \A i \in 1..Len(q) : /\ IsStart(q[i]) => lo < q[i].of
                         /\ Completes(q[i]) => q[i].of <= hi
From(q, lo) == \A i \in 1..Len(q) : lo <= q[i].of

RequestsRise ==
    /\ Ordered(inbox) /\ Between(inbox, Last, Top) /\ Last <= Top
    /\ asm # None => Last < asm.of /\ asm.of <= call /\ From(inbox, asm.of)

IsCarriedOut(c) == \E i \in 1..Len(executed) : executed[i].of = c
IsReady(f) == f.type = "FF" \/ (f.type = "SF" /\ f.info = "positive")
Floor   == IF partial = None THEN given ELSE partial.of
Ceiling == IF todo = None THEN Last ELSE Last - 1

Ascending(q, lo, hi) ==
    /\ \A i \in 1..Len(q) : IsReady(q[i]) => lo < q[i].of /\ q[i].of <= hi
    /\ \A i, j \in 1..Len(q) : i < j /\ IsReady(q[i]) /\ IsReady(q[j]) => q[i].of < q[j].of

AnswersRise ==
    /\ Ascending(rx, Floor, Ceiling) /\ Floor <= Ceiling
    /\ \A i \in 1..Len(rx) : IsReady(rx[i]) => IsCarriedOut(rx[i].of)
    /\ partial # None => given < partial.of /\ IsCarriedOut(partial.of)
    /\ todo # None => todo.of = Last /\ executed # <<>>

OrderOK == RequestsRise /\ AnswersRise

\* The frames of a queue, and the calls they are of.
LEMMA QueueNumbers ==
    ASSUME NEW q \in Seq(Frames)
    PROVE  \A i \in 1..Len(q) : q[i] \in Frames /\ q[i].of \in Nat
<1>1. \A f \in Frames : f.of \in Nat
  BY DEF Frames
<1> QED
  BY <1>1, ElementFacts

\* A queue of requests without its head.
LEMMA TailRequests ==
    ASSUME NEW q \in Seq(Frames), q # <<>>, NEW t, t = Tail(q), Ordered(q)
    PROVE  /\ Ordered(t) /\ From(t, q[1].of)
           /\ Completes(q[1]) => \A i \in 1..Len(t) : IsStart(t[i]) => q[1].of < t[i].of
           /\ \A lo, hi : Between(q, lo, hi) =>
                 /\ Between(t, lo, hi)
                 /\ IsStart(q[1]) => lo < q[1].of
                 /\ Completes(q[1]) => q[1].of <= hi
           /\ \A lo : From(q, lo) => From(t, lo) /\ lo <= q[1].of
<1>1. /\ Len(q) \in Nat \ {0} /\ Len(t) \in Nat /\ Len(t) = Len(q) - 1
      /\ \A i \in 1..Len(t) : t[i] = q[i + 1] /\ i + 1 \in 1..Len(q)
  BY TailFacts, LenProperties
<1>2. 1 \in 1..Len(q) /\ \A i \in 1..Len(t) : 1 < i + 1
      /\ \A j \in 1..Len(t) : i < j => i + 1 < j + 1
  BY <1>1
<1>3. Ordered(t)
  BY <1>1, <1>2 DEF Ordered
<1>4. From(t, q[1].of)
  BY <1>1, <1>2 DEF Ordered, From
<1>5. Completes(q[1]) => \A i \in 1..Len(t) : IsStart(t[i]) => q[1].of < t[i].of
  BY <1>1, <1>2 DEF Ordered
<1>6. \A lo, hi : Between(q, lo, hi) =>
         /\ Between(t, lo, hi)
         /\ IsStart(q[1]) => lo < q[1].of
         /\ Completes(q[1]) => q[1].of <= hi
  BY <1>1, <1>2 DEF Between
<1>7. \A lo : From(q, lo) => From(t, lo) /\ lo <= q[1].of
  BY <1>1, <1>2 DEF From
<1> QED
  BY <1>3, <1>4, <1>5, <1>6, <1>7

\* A queue of requests with one frame more.
LEMMA AppendRequests ==
    ASSUME NEW q \in Seq(Frames), NEW f \in Frames, NEW r, r = Append(q, f), Ordered(q),
           \A i \in 1..Len(q) : q[i].of <= f.of,
           IsStart(f) => \A i \in 1..Len(q) : Completes(q[i]) => q[i].of < f.of
    PROVE  /\ Ordered(r)
           /\ \A lo, hi, top \in Nat :
                 /\ Between(q, lo, hi) /\ hi <= top
                 /\ IsStart(f) => lo < f.of
                 /\ Completes(f) => f.of <= top
                 => Between(r, lo, top)
           /\ \A lo : From(q, lo) /\ lo <= f.of => From(r, lo)
<1>1. /\ Len(q) \in Nat /\ Len(r) = Len(q) + 1
      /\ \A i \in 1..Len(q) : r[i] = q[i]
      /\ r[Len(q) + 1] = f
  BY AppendFacts
<1>2. \A i \in 1..Len(r) : i \in 1..Len(q) \/ i = Len(q) + 1
  BY <1>1, IndexFacts
<1>3. \A i, j \in 1..Len(r) : i < j => i \in 1..Len(q)
  BY <1>1
<1>4. Ordered(r)
  BY <1>1, <1>2, <1>3 DEF Ordered
<1>5. ASSUME NEW lo \in Nat, NEW hi \in Nat, NEW top \in Nat, Between(q, lo, hi), hi <= top,
             IsStart(f) => lo < f.of, Completes(f) => f.of <= top
      PROVE  Between(r, lo, top)
  <2>1. \A i \in 1..Len(q) : q[i].of \in Nat
    BY QueueNumbers
  <2>2. \A i \in 1..Len(q) : /\ IsStart(q[i]) => lo < q[i].of
                             /\ Completes(q[i]) => q[i].of <= top
    BY <1>5, <2>1 DEF Between
  <2> QED
    BY <1>1, <1>2, <1>5, <2>2 DEF Between
<1>6. \A lo : From(q, lo) /\ lo <= f.of => From(r, lo)
  BY <1>1, <1>2 DEF From
<1> QED
  BY <1>4, <1>5, <1>6

\* Bounds of a queue of requests.
LEMMA BetweenWider ==
    ASSUME NEW q \in Seq(Frames), NEW lo, NEW hi \in Nat, NEW top \in Nat, hi <= top,
           Between(q, lo, hi)
    PROVE  Between(q, lo, top)
<1>1. \A i \in 1..Len(q) : q[i].of \in Nat
  BY QueueNumbers
<1> QED
  BY <1>1 DEF Between

\* A queue of answers without its head, and the empty one.
LEMMA TailAnswers ==
    ASSUME NEW q \in Seq(Frames), NEW t, NEW lo, NEW hi, Ascending(q, lo, hi),
           t = <<>> \/ (q # <<>> /\ t = Tail(q))
    PROVE  /\ Ascending(t, lo, hi)
           /\ q # <<>> /\ IsReady(q[1]) =>
                 lo < q[1].of /\ q[1].of <= hi /\ Ascending(t, q[1].of, hi)
           /\ \A i \in 1..Len(t) : \E j \in 1..Len(q) : t[i] = q[j]
<1>1. q # <<>> => 1 \in 1..Len(q)
  BY EmptySeq, LenProperties
<1>2. CASE t = <<>>
  <2>1. \A i : i \notin 1..Len(t)
    BY <1>2, EmptySeq
  <2> QED
    BY <1>1, <2>1 DEF Ascending
<1>3. CASE q # <<>> /\ t = Tail(q)
  <2>1. /\ Len(q) \in Nat \ {0} /\ Len(t) \in Nat /\ Len(t) = Len(q) - 1
        /\ \A i \in 1..Len(t) : t[i] = q[i + 1] /\ i + 1 \in 1..Len(q)
    BY <1>3, TailFacts, LenProperties
  <2>2. \A i \in 1..Len(t) : 1 < i + 1
        /\ \A j \in 1..Len(t) : i < j => i + 1 < j + 1
    BY <2>1
  <2> QED
    BY <1>1, <2>1, <2>2 DEF Ascending
<1> QED
  BY <1>2, <1>3

\* A queue of answers between wider bounds.
LEMMA AscendingWider ==
    ASSUME NEW q \in Seq(Frames), NEW lo \in Nat, NEW hi \in Nat, NEW low \in Nat, NEW top \in Nat,
           low <= lo, hi <= top, Ascending(q, lo, hi)
    PROVE  Ascending(q, low, top)
<1>1. \A i \in 1..Len(q) : q[i].of \in Nat
  BY QueueNumbers
<1>2. \A i \in 1..Len(q) : IsReady(q[i]) => low < q[i].of /\ q[i].of <= top
  BY <1>1 DEF Ascending
<1> QED
  BY <1>2 DEF Ascending

\* A queue of answers with one frame more.
LEMMA AppendAnswers ==
    ASSUME NEW q \in Seq(Frames), NEW f \in Frames, NEW r, r = Append(q, f),
           NEW lo \in Nat, NEW hi \in Nat, NEW top \in Nat, lo <= hi, hi <= top, Ascending(q, lo, hi),
           IsReady(f) => hi < f.of /\ f.of <= top
    PROVE  Ascending(r, lo, top)
<1>1. /\ Len(q) \in Nat /\ Len(r) = Len(q) + 1
      /\ \A i \in 1..Len(q) : r[i] = q[i]
      /\ r[Len(q) + 1] = f
  BY AppendFacts
<1>2. \A i \in 1..Len(r) : i \in 1..Len(q) \/ i = Len(q) + 1
  BY <1>1, IndexFacts
<1>3. \A i, j \in 1..Len(r) : i < j => i \in 1..Len(q)
  BY <1>1
<1>4. f.of \in Nat /\ \A i \in 1..Len(q) : q[i].of \in Nat
  BY QueueNumbers DEF Frames
<1>5. Ascending(q, lo, top)
  BY AscendingWider
<1>6. \A i \in 1..Len(q) : IsReady(q[i]) /\ IsReady(f) => q[i].of < f.of
  BY <1>4 DEF Ascending
<1>7. IsReady(f) => lo < f.of /\ f.of <= top
  BY <1>4
<1> QED
  BY <1>1, <1>2, <1>3, <1>5, <1>6, <1>7 DEF Ascending

\* The calls that bound the queues.
LEMMA OrderNumbers ==
    ASSUME Types
    PROVE  /\ Last \in Nat /\ Top \in Nat /\ call \in Nat /\ Top <= call
           /\ given \in Nat /\ Floor \in Nat /\ asm.of \in Nat /\ todo.of \in Nat /\ partial.of \in Nat
           /\ (todo = None \/ Last # 0) => Ceiling \in Nat
<1>1. \A a \in Payloads : a.of \in Nat
  BY DEF Payloads
<1>2. asm \in Payloads /\ todo \in Payloads /\ partial \in Payloads /\ given \in Nat
  BY DEF Types
<1>3. call \in Nat /\ (pc # "idle" => call # 0)
  BY Numbers DEF Types
<1>4. Top \in Nat /\ Top <= call
  BY <1>3 DEF Top
<1>5. Last \in Nat
  <2>1. executed \in Seq(Done)
    BY DEF Types
  <2>2. executed # <<>> => Len(executed) \in 1..Len(executed)
    BY <2>1, EmptySeq, LenProperties
  <2>3. \A d \in Done : d.of \in Nat
    BY DEF Done
  <2>4. \A i \in 1..Len(executed) : executed[i] \in Done
    BY <2>1, ElementFacts
  <2> QED
    BY <2>2, <2>3, <2>4 DEF Last
<1>6. (todo = None \/ Last # 0) => Ceiling \in Nat
  BY <1>5 DEF Ceiling
<1> QED
  BY <1>1, <1>2, <1>3, <1>4, <1>5, <1>6 DEF Floor

\* A request is carried out.
LEMMA LastMoves ==
    ASSUME Types, NEW a \in Payloads,
           executed' = Append(executed, [of |-> a.of, whole |-> a.whole])
    PROVE  /\ Last' = a.of /\ executed' # <<>> /\ IsCarriedOut(a.of)'
           /\ \A c : IsCarriedOut(c) => IsCarriedOut(c)'
<1>1. PICK d \in Done : d = [of |-> a.of, whole |-> a.whole] /\ d.of = a.of
  BY DEF Payloads, Done
<1>2. PICK e : e = executed'
  OBVIOUS
<1>3. /\ Len(executed) \in Nat /\ Len(e) = Len(executed) + 1
      /\ e[Len(executed) + 1] = d
      /\ \A i \in 1..Len(executed) : e[i] = executed[i]
  BY <1>1, <1>2, AppendFacts DEF Types
<1>4. /\ Len(e) \in 1..Len(e) /\ e # <<>>
      /\ \A i \in 1..Len(executed) : i \in 1..Len(e)
  BY <1>3, EmptySeq
<1>5. Last' = a.of
  BY <1>1, <1>2, <1>3, <1>4 DEF Last
<1>6. IsCarriedOut(a.of)'
  BY <1>1, <1>2, <1>3, <1>4 DEF IsCarriedOut
<1>7. \A c : IsCarriedOut(c) => IsCarriedOut(c)'
  BY <1>2, <1>3, <1>4 DEF IsCarriedOut
<1> QED
  BY <1>2, <1>4, <1>5, <1>6, <1>7

\* No request is added, and none is carried out.
LEMMA RequestsStay ==
    ASSUME Types, Types', RequestsRise, executed' = executed, call <= call', Top <= Top',
           asm' # None => asm # None /\ asm'.of = asm.of,
           inbox' = inbox \/ (inbox # <<>> /\ inbox' = Tail(inbox))
    PROVE  RequestsRise'
<1>1. PICK q, l, top, c, a : q = inbox' /\ l = Last' /\ top = Top' /\ c = call' /\ a = asm'
  OBVIOUS
<1>2. Last' = Last
  BY DEF Last
<1>3. /\ Ordered(inbox) /\ Between(inbox, Last, Top) /\ Last <= Top
      /\ asm # None => Last < asm.of /\ asm.of <= call /\ From(inbox, asm.of)
  BY DEF RequestsRise
<1>4. /\ Last \in Nat /\ Top \in Nat /\ top \in Nat /\ call \in Nat /\ c \in Nat /\ asm.of \in Nat
      /\ Top <= top /\ call <= c /\ inbox \in Seq(Frames) /\ q \in Seq(Frames)
  <2>1. Top \in Nat /\ call \in Nat /\ Last \in Nat /\ asm.of \in Nat
    BY OrderNumbers
  <2>2. Types' => Top' \in Nat /\ call' \in Nat
    <3>1. ASSUME Types'
          PROVE  call' \in Nat /\ (pc' # "idle" => call' # 0)
      BY <3>1, ConstantsAssumption DEF Types
    <3>2. Top' = IF pc' = "first" \/ (pc' = "awaitFC" /\ sent' = 0) THEN call' - 1 ELSE call'
      BY DEF Top
    <3> QED
      BY <3>1, <3>2
  <2> QED
    BY <1>1, <2>1, <2>2 DEF Types
<1>5. /\ Ordered(q) /\ Between(q, Last, Top)
      /\ asm # None => From(q, asm.of)
  BY <1>1, <1>3, <1>4, TailRequests
<1>6. Between(q, Last, top)
  BY <1>4, <1>5, BetweenWider
<1>7. Last <= top /\ (asm # None => asm.of <= c)
  BY <1>3, <1>4
<1>8. a # None => asm # None /\ a.of = asm.of
  BY <1>1
<1>9. /\ Ordered(q) /\ Between(q, l, top) /\ l <= top
      /\ a # None => l < a.of /\ a.of <= c /\ From(q, a.of)
  BY <1>1, <1>2, <1>3, <1>5, <1>6, <1>7, <1>8
<1> QED
  BY <1>1, <1>9 DEF RequestsRise, Ordered, Between, From, IsStart, Completes

\* The host sends a frame.
LEMMA RequestsGrow ==
    ASSUME Types, RequestsRise, UNCHANGED <<executed, asm, call>>, Top <= Top',
           NEW f \in Frames, inbox' = Append(inbox, f), f.of = call,
           IsStart(f) => Top < call, Completes(f) => Top' = call
    PROVE  RequestsRise'
<1>1. PICK q, top : q = inbox' /\ top = Top'
  OBVIOUS
<1>2. Last' = Last
  BY DEF Last
<1>3. /\ Ordered(inbox) /\ Between(inbox, Last, Top) /\ Last <= Top
      /\ asm # None => Last < asm.of /\ asm.of <= call /\ From(inbox, asm.of)
  BY DEF RequestsRise
<1>4. /\ Last \in Nat /\ Top \in Nat /\ call \in Nat /\ Top <= call
      /\ inbox \in Seq(Frames)
  BY OrderNumbers DEF Types
<1>5. top \in Nat
  <2>1. Top' = call' \/ Top' = call' - 1
    BY DEF Top
  <2> QED
    BY <1>1, <1>4, <2>1
<1>6. \A i \in 1..Len(inbox) : inbox[i].of \in Nat /\ inbox[i].of <= call
  BY <1>4, QueueNumbers DEF Types
<1>7. IsStart(f) => \A i \in 1..Len(inbox) : Completes(inbox[i]) => inbox[i].of < f.of
  BY <1>3, <1>4, <1>6 DEF Between
<1>8. IsStart(f) => Last < f.of
  BY <1>3, <1>4
<1>9. Completes(f) => f.of <= top
  BY <1>1, <1>5
<1>10. q = Append(inbox, f) /\ Top <= top
  BY <1>1
<1>11. Ordered(q) /\ Between(q, Last, top) /\ (asm # None => From(q, asm.of))
  BY <1>3, <1>4, <1>5, <1>6, <1>7, <1>8, <1>9, <1>10, AppendRequests
<1>12. Last <= top
  BY <1>3, <1>4, <1>5, <1>10
<1> QED
  BY <1>1, <1>2, <1>3, <1>11, <1>12 DEF RequestsRise, Ordered, Between, From, IsStart, Completes

\* The request that the ECU assembles or carries out is the lowest of them.
LEMMA ReceiveRises ==
    ASSUME Types, OneThing, RequestsRise, EcuReceives
    PROVE  /\ RequestsRise'
           /\ \/ UNCHANGED <<todo, executed>>
              \/ \E a \in Payloads :
                    /\ Last < a.of /\ a.of <= call /\ todo = None /\ CarriesOut(a)
<1>1. PICK f \in Frames :
              /\ Hears(f) /\ Sound(f) /\ f.of <= call
              /\ \/ HearsSingle(f) \/ HearsFirst(f) \/ HearsWrong(f) \/ HearsGrant(f)
                 \/ \E a \in Payloads : HearsNext(f, a)
  BY EcuReceivesIs
<1>2. /\ f = inbox[1] /\ inbox # <<>> /\ inbox \in Seq(Frames) /\ inbox' = Tail(inbox)
      /\ UNCHANGED <<pc, call, sent>>
  BY <1>1 DEF Hears, Types
<1>3. PICK q : q = inbox'
  OBVIOUS
<1>4. /\ Ordered(inbox) /\ Between(inbox, Last, Top) /\ Last <= Top
      /\ asm # None => Last < asm.of /\ asm.of <= call /\ From(inbox, asm.of)
  BY DEF RequestsRise
<1>5. /\ Last \in Nat /\ Top \in Nat /\ call \in Nat /\ Top <= call /\ asm.of \in Nat /\ f.of \in Nat
  BY OrderNumbers DEF Frames
<1>6. /\ Ordered(q) /\ From(q, f.of) /\ Between(q, Last, Top)
      /\ Completes(f) => \A i \in 1..Len(q) : IsStart(q[i]) => f.of < q[i].of
      /\ IsStart(f) => Last < f.of
      /\ Completes(f) => f.of <= Top
      /\ asm # None => From(q, asm.of) /\ asm.of <= f.of
  BY <1>2, <1>3, <1>4, TailRequests
<1>7. Top' = Top
  BY <1>2 DEF Top
<1>8. ASSUME executed' = executed, NEW a, a = asm',
             a # None => Last < a.of /\ a.of <= call /\ From(q, a.of)
      PROVE  RequestsRise'
  <2>1. Last' = Last
    BY <1>8 DEF Last
  <2> QED
    BY <1>2, <1>3, <1>4, <1>6, <1>7, <1>8, <2>1
       DEF RequestsRise, Ordered, Between, From, IsStart, Completes
<1>9. ASSUME NEW a \in Payloads, CarriesOut(a), todo = None, Completes(f),
             Last < a.of, a.of <= f.of
      PROVE  /\ RequestsRise'
             /\ \E b \in Payloads : Last < b.of /\ b.of <= call /\ todo = None /\ CarriesOut(b)
  <2>1. asm' = None /\ executed' = Append(executed, [of |-> a.of, whole |-> a.whole])
    BY <1>9 DEF CarriesOut
  <2>2. Last' = a.of
    BY <2>1, LastMoves
  <2>3. a.of \in Nat
    BY DEF Payloads
  <2>4. a.of <= Top /\ a.of <= call
    BY <1>5, <1>6, <1>9, <2>3
  <2>5. \A i \in 1..Len(q) : q[i].of \in Nat
    <3>1. q \in Seq(Frames)
      BY <1>2, <1>3, TailFacts
    <3> QED
      BY <3>1, QueueNumbers
  <2>6. Between(q, a.of, Top)
    <3>1. \A i \in 1..Len(q) : IsStart(q[i]) => a.of < q[i].of
      BY <1>5, <1>6, <1>9, <2>3, <2>5
    <3> QED
      BY <1>6, <3>1 DEF Between
  <2>7. RequestsRise'
    BY <1>3, <1>6, <1>7, <2>1, <2>2, <2>4, <2>6
       DEF RequestsRise, Ordered, Between, From, IsStart, Completes
  <2> QED
    BY <1>9, <2>4, <2>7
<1>10. CASE HearsSingle(f)
  <2>1. f.type = "SF" /\ todo = None /\ CarriesOut(Started(f))
    BY <1>10 DEF HearsSingle
  <2>2. PICK a : a = Started(f)
    OBVIOUS
  <2>3. a \in Payloads /\ a.of = f.of
    BY <2>2, StartedIs
  <2>4. Completes(f) /\ IsStart(f)
    BY <2>1 DEF Completes, IsStart
  <2>5. Last < a.of /\ a.of <= f.of
    BY <1>5, <1>6, <2>3, <2>4
  <2> QED
    BY <1>9, <2>1, <2>2, <2>3, <2>4, <2>5
<1>11. CASE HearsFirst(f)
  <2>1. f.type = "FF" /\ asm' = Started(f) /\ UNCHANGED <<todo, executed>>
    BY <1>11 DEF HearsFirst
  <2>2. PICK a : a = Started(f)
    OBVIOUS
  <2>3. a \in Payloads /\ a.of = f.of
    BY <2>2, StartedIs
  <2>4. IsStart(f)
    BY <2>1 DEF IsStart
  <2>5. Last < a.of /\ a.of <= call /\ From(q, a.of)
    BY <1>1, <1>6, <2>3, <2>4
  <2> QED
    BY <1>8, <2>1, <2>2, <2>5
<1>12. CASE HearsWrong(f) \/ HearsGrant(f)
  <2>1. asm' \in {None, asm} /\ UNCHANGED <<todo, executed>>
    BY <1>12 DEF HearsWrong, HearsGrant
  <2> QED
    BY <1>4, <1>6, <1>8, <2>1
<1>13. CASE \E a \in Payloads : HearsNext(f, a)
  <2>1. PICK a \in Payloads : HearsNext(f, a)
    BY <1>13
  <2>2. /\ f.type = "CF" /\ asm # None /\ a.of = asm.of
        /\ \/ CarriesOut(a)
           \/ asm' = a /\ UNCHANGED <<todo, executed>>
    BY <2>1 DEF HearsNext, Grown
  <2>3. Completes(f) /\ todo = None
    BY <2>2 DEF Completes, OneThing
  <2>4. Last < a.of /\ a.of <= call /\ From(q, a.of) /\ a.of <= f.of
    BY <1>4, <1>6, <2>2
  <2> QED
    BY <1>8, <1>9, <2>2, <2>3, <2>4
<1> QED
  BY <1>1, <1>10, <1>11, <1>12, <1>13

\* So the requests rise after every step.
LEMMA RequestsStep ==
    ASSUME TypeInv, TypeInv', RequestsRise, Next
    PROVE  RequestsRise'
<1>1. Types /\ Types' /\ OneThing
  BY DEF TypeInv
<1>2. /\ call \in Nat /\ Top \in Nat /\ Top <= call /\ sent \in Nat
      /\ pc # "idle" => call # 0
      /\ pc \in {"idle", "first", "awaitFC", "sendCF", "poll", "assemble"}
  BY <1>1, OrderNumbers, Numbers DEF Types
<1>3. ASSUME UNCHANGED <<inbox, asm, executed, call>>, Top <= Top'
      PROVE  RequestsRise'
  BY <1>1, <1>2, <1>3, RequestsStay
<1>4. ASSUME pc' \notin {"first", "awaitFC"}, call' = call
      PROVE  Top <= Top' /\ Top' = call
  BY <1>2, <1>4 DEF Top
<1>5. CASE \E s \in Services, n \in Cfs : Start(s, n)
  <2>1. /\ UNCHANGED <<inbox, asm, executed>> /\ pc = "idle" /\ pc' = "first" /\ call' = call + 1
    BY <1>5 DEF Start, ecuVars
  <2>2. Top = call /\ Top' = (call + 1) - 1
    BY <2>1 DEF Top
  <2>3. Top <= Top' /\ call <= call'
    BY <1>2, <2>1, <2>2
  <2> QED
    BY <1>1, <2>1, <2>3, RequestsStay
<1>6. CASE SendFirst
  <2>1. PICK type, f : /\ type = IF cfs = 0 THEN "SF" ELSE "FF"
                       /\ f = Frame(type, call, svc, cfs, 0, "request")
    OBVIOUS
  <2>2. /\ UNCHANGED <<asm, executed, call, sent>> /\ pc = "first" /\ sent = 0
        /\ inbox' = Append(inbox, f)
        /\ pc' = IF cfs = 0 THEN "poll" ELSE "awaitFC"
    BY <1>1, <1>6, <2>1 DEF SendFirst, ecuVars, Types
  <2>3. f \in Frames /\ f.type = type /\ f.of = call
    <3>1. svc \in Services /\ cfs \in Nat /\ "request" \in Infos /\ 0 \in Nat
      BY <1>1, Numbers DEF Infos, Types
    <3> QED
      BY <1>2, <2>1, <3>1, FrameIs
  <2>4. Top = call - 1
    BY <2>2 DEF Top
  <2>5. Top < call /\ call \in Nat
    BY <1>2, <2>4
  <2>6. Top <= Top' /\ (cfs = 0 => Top' = call)
    <3>1. Top' = IF cfs = 0 THEN call ELSE call - 1
      BY <2>2 DEF Top
    <3> QED
      BY <1>2, <2>4, <3>1
  <2>7. Completes(f) => Top' = call
    BY <2>1, <2>3, <2>6 DEF Completes
  <2> QED
    BY <1>1, <2>2, <2>3, <2>5, <2>6, <2>7, RequestsGrow
<1>7. CASE TakeFlowControl
  <2>1. UNCHANGED <<inbox, asm, executed, call>> /\ pc = "awaitFC"
        /\ ((pc' = pc /\ sent' = sent) \/ pc' = "sendCF" \/ pc' = "idle")
    BY <1>1, <1>7, TakeFlowControlIs DEF Reads, SameSending, Ends
  <2>2. Top <= Top'
    BY <1>2, <1>4, <2>1 DEF Top
  <2> QED
    BY <1>3, <2>1, <2>2
<1>8. CASE FlowControlTimeout
  <2>1. UNCHANGED <<inbox, asm, executed, call>> /\ pc = "awaitFC"
        /\ ((pc' = "first" /\ sent = 0) \/ pc' = "idle")
    BY <1>8 DEF FlowControlTimeout, Raise, End, ecuVars
  <2>2. Top <= Top'
    BY <1>2, <1>4, <2>1 DEF Top
  <2> QED
    BY <1>3, <2>1, <2>2
<1>9. CASE SendConsecutive
  <2>1. PICK f : f = Frame("CF", call, svc, 0, sent + 1, "request")
    OBVIOUS
  <2>2. /\ UNCHANGED <<asm, executed, call>> /\ sent' = sent + 1
        /\ inbox' = Append(inbox, f) /\ pc' \in {"awaitFC", "sendCF", "poll"}
    BY <1>9, <2>1 DEF SendConsecutive, ecuVars
  <2>3. f \in Frames /\ f.type = "CF" /\ f.of = call
    <3>1. svc \in Services /\ "request" \in Infos /\ sent + 1 \in Nat /\ 0 \in Nat
      BY <1>1, <1>2 DEF Infos, Types
    <3> QED
      BY <1>2, <2>1, <3>1, FrameIs
  <2>4. Top' = call
    BY <1>2, <2>2 DEF Top
  <2>5. Top <= Top' /\ ~IsStart(f)
    BY <1>2, <2>3, <2>4 DEF IsStart
  <2> QED
    BY <1>1, <2>2, <2>3, <2>4, <2>5, RequestsGrow
<1>10. CASE Poll
  <2>1. /\ UNCHANGED <<asm, executed, call>> /\ pc' \in {"poll", "assemble", "idle"}
        /\ inbox' = inbox \/ inbox' = Append(inbox, Frame("FC", call, svc, 0, 0, "go"))
    BY <1>1, <1>10, PollIs DEF Reads, SameSending, Ends, Ignores
  <2>2. Top <= Top' /\ Top' = call
    BY <1>4, <2>1
  <2>3. PICK f : f = Frame("FC", call, svc, 0, 0, "go")
    OBVIOUS
  <2>4. f \in Frames /\ f.type = "FC" /\ f.of = call
    <3>1. svc \in Services /\ "go" \in Infos /\ 0 \in Nat
      BY <1>1 DEF Infos, Types
    <3> QED
      BY <1>2, <2>3, <3>1, FrameIs
  <2>5. ~IsStart(f)
    BY <2>4 DEF IsStart
  <2>6. CASE inbox' = Append(inbox, f)
    BY <1>1, <2>1, <2>2, <2>4, <2>5, <2>6, RequestsGrow
  <2> QED
    BY <1>3, <2>1, <2>2, <2>3, <2>6
<1>11. CASE Assemble
  <2>1. /\ UNCHANGED <<asm, executed, call, inbox>> /\ pc' \in {"poll", "assemble", "idle"}
    BY <1>1, <1>11, AssembleIs DEF Reads, SameSending, Ends, Ignores
  <2> QED
    BY <1>3, <1>4, <2>1
<1>12. CASE ResponseTimeout \/ NoticeCancel
  <2>1. /\ UNCHANGED <<asm, executed, call, inbox>> /\ pc' = "idle"
    BY <1>12 DEF ResponseTimeout, NoticeCancel, Raise, End, ecuVars
  <2> QED
    BY <1>3, <1>4, <2>1
<1>13. CASE Cancel \/ Lose
  <2>1. /\ UNCHANGED <<pc, sent, asm, executed, call>>
        /\ inbox' = inbox \/ (inbox # <<>> /\ inbox' = Tail(inbox))
    BY <1>13 DEF Cancel, Lose, Fault, hostVars, ecuVars
  <2>2. Top <= Top' /\ call <= call'
    BY <1>2, <2>1 DEF Top
  <2> QED
    BY <1>1, <2>1, <2>2, RequestsStay
<1>14. CASE EcuReceives
  BY <1>1, <1>14, ReceiveRises
<1>15. CASE \/ EcuStalls \/ EcuOverflows \/ EcuPending \/ EcuRefuses \/ EcuContinues
            \/ (\E bs \in BlockSizes : EcuGrants(bs)) \/ (\E n \in Cfs : EcuAnswers(n))
  <2>1. PICK f \in Frames :
               /\ EcuSends(f)
               /\ \/ Grants(f) \/ Stalls(f) \/ Overflows(f) \/ Delays(f) \/ AnswersSingle(f)
                  \/ AnswersFirst(f) \/ Refuses(f) \/ Continued(f)
    BY <1>1, <1>15, EcuSendsIs
  <2>2. UNCHANGED <<pc, sent, executed, call, inbox>>
    BY <2>1 DEF EcuSends
  <2>3. Top <= Top' /\ call <= call'
    BY <1>2, <2>2 DEF Top
  <2>4. asm' # None => asm # None /\ asm'.of = asm.of
    <3>1. CASE Grants(f)
      <4>1. PICK w : w = IF f.n = 0 THEN asm.n ELSE f.n
        OBVIOUS
      <4>2. asm # None /\ asm' = [asm EXCEPT !.left = w] /\ asm \in Payloads
        BY <1>1, <3>1, <4>1 DEF Grants, Types
      <4>3. [asm EXCEPT !.left = w].of = asm.of
        BY <4>2 DEF Payloads
      <4> QED
        BY <4>2, <4>3
    <3>2. CASE ~Grants(f)
      <4>1. asm' = asm \/ asm' = None
        BY <2>1, <3>2 DEF Stalls, Overflows, Delays, AnswersSingle, AnswersFirst, Refuses, Continued
      <4> QED
        BY <4>1
    <3> QED
      BY <3>1, <3>2
  <2> QED
    BY <1>1, <2>2, <2>3, <2>4, RequestsStay
<1> QED
  BY <1>5, <1>6, <1>7, <1>8, <1>9, <1>10, <1>11, <1>12, <1>13, <1>14, <1>15 DEF Next, Host, Environment

\* Nothing is carried out or answered: the host assembles and is given what the
\* queue holds, or an answer is lost.
LEMMA AnswersTaken ==
    ASSUME Types, OneThing, AnswersRise, UNCHANGED <<todo, executed>>,
           NEW given2 \in Nat, NEW p \in Payloads, given' = given2, partial' = p,
           \/ /\ rx' = rx \/ rx' = <<>> \/ (rx # <<>> /\ rx' = Tail(rx))
              /\ \/ given2 = given /\ p = None
                 \/ given2 = given /\ partial # None /\ p # None /\ p.of = partial.of
                 \/ partial # None /\ p = None /\ given2 = partial.of
           \/ /\ rx # <<>> /\ (rx' = <<>> \/ rx' = Tail(rx)) /\ IsReady(rx[1])
              /\ \/ partial = None /\ given2 = given /\ p # None /\ p.of = rx[1].of
                 \/ p = None /\ given2 = rx[1].of
    PROVE  AnswersRise'
<1>1. PICK q : q = rx'
  OBVIOUS
<1>2. /\ Ascending(rx, Floor, Ceiling) /\ Floor <= Ceiling
      /\ \A i \in 1..Len(rx) : IsReady(rx[i]) => IsCarriedOut(rx[i].of)
      /\ partial # None => given < partial.of /\ IsCarriedOut(partial.of)
      /\ todo # None => todo.of = Last /\ executed # <<>>
  BY DEF AnswersRise
<1>3. /\ Floor \in Nat /\ Ceiling \in Nat /\ given \in Nat /\ partial.of \in Nat /\ p.of \in Nat
      /\ rx \in Seq(Frames)
  <2>1. todo # None => Last # 0
    BY <1>2 DEF OneThing
  <2>2. p.of \in Nat
    BY DEF Payloads
  <2> QED
    BY <2>1, <2>2, OrderNumbers DEF Types
<1>4. Ceiling' = Ceiling /\ Last' = Last /\ \A c : IsCarriedOut(c)' <=> IsCarriedOut(c)
  BY DEF Ceiling, Last, IsCarriedOut
<1>5. rx # <<>> => 1 \in 1..Len(rx) /\ rx[1].of \in Nat
  <2>1. rx # <<>> => 1 \in 1..Len(rx)
    BY <1>3, EmptySeq, LenProperties
  <2> QED
    BY <1>3, <2>1, QueueNumbers
<1>6. /\ Ascending(q, Floor, Ceiling) /\ q \in Seq(Frames)
      /\ \A i \in 1..Len(q) : \E j \in 1..Len(rx) : q[i] = rx[j]
      /\ rx # <<>> /\ (q = <<>> \/ q = Tail(rx)) /\ IsReady(rx[1]) =>
            Floor < rx[1].of /\ rx[1].of <= Ceiling /\ Ascending(q, rx[1].of, Ceiling)
            /\ IsCarriedOut(rx[1].of)
  <2>1. CASE q = rx /\ ~(rx # <<>> /\ (q = <<>> \/ q = Tail(rx)))
    BY <1>2, <1>3, <2>1
  <2>2. CASE q = <<>> \/ (rx # <<>> /\ q = Tail(rx))
    <3>1. q \in Seq(Frames)
      BY <1>3, <2>2, EmptySeq, TailFacts
    <3> QED
      BY <1>2, <1>3, <1>5, <2>2, <3>1, TailAnswers
  <2>3. \/ q = rx /\ ~(rx # <<>> /\ (q = <<>> \/ q = Tail(rx)))
        \/ q = <<>> \/ (rx # <<>> /\ q = Tail(rx))
    BY <1>1
  <2> QED
    BY <2>1, <2>2, <2>3
<1>7. \A i \in 1..Len(q) : IsReady(q[i]) => IsCarriedOut(q[i].of)
  BY <1>2, <1>6
<1>8. PICK low : low = IF p = None THEN given2 ELSE p.of
  OBVIOUS
<1>9. /\ low \in Nat /\ low <= Ceiling /\ Ascending(q, low, Ceiling)
      /\ p # None => given2 < p.of /\ IsCarriedOut(p.of)
  <2>1. CASE low <= Floor /\ low \in Nat /\ (p # None => given2 < p.of /\ IsCarriedOut(p.of))
    <3>1. Ceiling <= Ceiling /\ low <= Ceiling
      BY <1>2, <1>3, <2>1
    <3> QED
      BY <1>3, <1>6, <2>1, <3>1, AscendingWider
  <2>2. CASE rx # <<>> /\ (q = <<>> \/ q = Tail(rx)) /\ IsReady(rx[1]) /\ low = rx[1].of
             /\ (p # None => given2 < p.of /\ IsCarriedOut(p.of))
    BY <1>5, <1>6, <2>2
  <2>3. /\ partial # None => Floor = partial.of /\ given < Floor
        /\ partial = None => Floor = given
    BY <1>2 DEF Floor
  <2>4. \/ low <= Floor /\ low \in Nat /\ (p # None => given2 < p.of /\ IsCarriedOut(p.of))
        \/ rx # <<>> /\ (q = <<>> \/ q = Tail(rx)) /\ IsReady(rx[1]) /\ low = rx[1].of
             /\ (p # None => given2 < p.of /\ IsCarriedOut(p.of))
    <3>1. CASE given2 = given /\ p = None
      BY <1>3, <1>8, <2>3, <3>1
    <3>2. CASE given2 = given /\ partial # None /\ p # None /\ p.of = partial.of
      BY <1>2, <1>3, <1>8, <2>3, <3>2
    <3>3. CASE partial # None /\ p = None /\ given2 = partial.of
      BY <1>3, <1>8, <2>3, <3>3
    <3>4. CASE /\ rx # <<>> /\ (q = <<>> \/ q = Tail(rx)) /\ IsReady(rx[1])
               /\ \/ partial = None /\ given2 = given /\ p # None /\ p.of = rx[1].of
                  \/ p = None /\ given2 = rx[1].of
      BY <1>6, <1>8, <2>3, <3>4
    <3> QED
      BY <1>1, <3>1, <3>2, <3>3, <3>4
  <2> QED
    BY <2>1, <2>2, <2>4
<1>10. Floor' = low
  BY <1>8 DEF Floor
<1>11. \A i \in 1..Len(q) : IsReady(q[i]) => IsCarriedOut(q[i].of)'
  BY <1>4, <1>7
<1>12. p # None => given2 < p.of /\ IsCarriedOut(p.of)'
  BY <1>4, <1>9
<1> QED
  BY <1>1, <1>2, <1>4, <1>9, <1>10, <1>11, <1>12
     DEF AnswersRise, Ascending, IsReady, IsCarriedOut

\* A request is carried out.
LEMMA CarryOutAnswers ==
    ASSUME Types, OneThing, AnswersRise, UNCHANGED <<rx, given, partial>>, todo = None,
           NEW a \in Payloads, Last < a.of, CarriesOut(a)
    PROVE  AnswersRise'
<1>1. /\ Ascending(rx, Floor, Ceiling) /\ Floor <= Ceiling
      /\ \A i \in 1..Len(rx) : IsReady(rx[i]) => IsCarriedOut(rx[i].of)
      /\ partial # None => given < partial.of /\ IsCarriedOut(partial.of)
  BY DEF AnswersRise
<1>2. todo' = Started(a) /\ executed' = Append(executed, [of |-> a.of, whole |-> a.whole])
  BY DEF CarriesOut
<1>3. Last' = a.of /\ executed' # <<>> /\ \A c : IsCarriedOut(c) => IsCarriedOut(c)'
  BY <1>2, LastMoves
<1>4. PICK b : b = Started(a) /\ b.of = a.of
  <2>1. PICK b : b = Started(a)
    OBVIOUS
  <2> QED
    BY <2>1, StartedIs
<1>5. a.of \in Nat /\ Last \in Nat /\ Floor \in Nat /\ Ceiling = Last /\ rx \in Seq(Frames)
  BY OrderNumbers DEF Payloads, Ceiling, Types
<1>6. b # None
  BY <1>4, <1>5, NoneIs
<1>7. Ceiling' = a.of - 1
  BY <1>2, <1>3, <1>4, <1>6 DEF Ceiling
<1>8. a.of - 1 \in Nat /\ Ceiling <= a.of - 1 /\ Floor <= a.of - 1
  BY <1>1, <1>5
<1>9. Ascending(rx, Floor, a.of - 1)
  <2>1. Floor <= Floor
    BY <1>5
  <2> QED
    BY <1>1, <1>5, <1>8, <2>1, AscendingWider
<1>10. Floor' = Floor
  BY DEF Floor
<1>11. \A i \in 1..Len(rx) : IsReady(rx[i]) => IsCarriedOut(rx[i].of)'
  BY <1>1, <1>3
<1>12. partial # None => given < partial.of /\ IsCarriedOut(partial.of)'
  BY <1>1, <1>3
<1> QED
  BY <1>2, <1>3, <1>4, <1>7, <1>8, <1>9, <1>10, <1>11, <1>12
     DEF AnswersRise, Ascending, IsReady, IsCarriedOut

\* The ECU answers, or says something else.
LEMMA EcuSendsAnswers ==
    ASSUME Types, OneThing, AnswersRise, NEW f \in Frames, EcuSends(f),
           \/ Grants(f) \/ Stalls(f) \/ Overflows(f) \/ Delays(f) \/ AnswersSingle(f)
           \/ AnswersFirst(f) \/ Refuses(f) \/ Continued(f)
    PROVE  AnswersRise'
<1>1. /\ Ascending(rx, Floor, Ceiling) /\ Floor <= Ceiling
      /\ \A i \in 1..Len(rx) : IsReady(rx[i]) => IsCarriedOut(rx[i].of)
      /\ partial # None => given < partial.of /\ IsCarriedOut(partial.of)
      /\ todo # None => todo.of = Last /\ executed # <<>>
  BY DEF AnswersRise
<1>2. rx' = Append(rx, f) /\ UNCHANGED <<executed, given, partial>> /\ rx \in Seq(Frames)
  BY DEF EcuSends, Types
<1>3. Last' = Last /\ Floor' = Floor /\ \A c : IsCarriedOut(c)' <=> IsCarriedOut(c)
  BY <1>2 DEF Last, Floor, IsCarriedOut
<1>4. /\ todo' = todo \/ (todo # None /\ todo' = None)
      /\ IsReady(f) => todo # None /\ todo' = None /\ f.of = todo.of
  BY DEF Grants, Stalls, Overflows, Delays, AnswersSingle, AnswersFirst, Refuses, Continued, IsReady,
         IsGo
<1>5. PICK top : top = Ceiling'
  OBVIOUS
<1>6. /\ Floor \in Nat /\ Ceiling \in Nat /\ Last \in Nat /\ top \in Nat /\ Ceiling <= top /\ Floor <= top
      /\ todo # None => Ceiling < Last
      /\ todo' = None => top = Last
  <2>1. todo # None => Last # 0
    BY <1>1 DEF OneThing
  <2>2. Floor \in Nat /\ Ceiling \in Nat /\ Last \in Nat
    BY <2>1, OrderNumbers
  <2>3. Ceiling = (IF todo = None THEN Last ELSE Last - 1)
        /\ top = (IF todo' = None THEN Last ELSE Last - 1)
    BY <1>3, <1>5 DEF Ceiling
  <2>4. \A x, y, z \in Nat : x <= y /\ y <= z => x <= z
    OBVIOUS
  <2>5. top \in Nat /\ Ceiling <= top /\ (todo # None => Ceiling < Last) /\ (todo' = None => top = Last)
    BY <1>4, <2>2, <2>3
  <2> QED
    BY <1>1, <2>2, <2>4, <2>5
<1>7. IsReady(f) => Ceiling < f.of /\ f.of <= top /\ f.of = Last
  BY <1>1, <1>4, <1>6
<1>8. PICK q : q = rx'
  OBVIOUS
<1>9. Ascending(q, Floor, top)
  BY <1>1, <1>2, <1>6, <1>7, <1>8, AppendAnswers
<1>10. IsReady(f) => IsCarriedOut(f.of)
  <2>1. executed # <<>> => Len(executed) \in 1..Len(executed)
    <3>1. executed \in Seq(Done)
      BY DEF Types
    <3> QED
      BY <3>1, EmptySeq, LenProperties
  <2> QED
    BY <1>1, <1>4, <1>7, <2>1 DEF Last, IsCarriedOut
<1>11. \A i \in 1..Len(q) : IsReady(q[i]) => IsCarriedOut(q[i].of)'
  <2>1. /\ Len(rx) \in Nat /\ Len(q) = Len(rx) + 1
        /\ \A i \in 1..Len(rx) : q[i] = rx[i]
        /\ q[Len(rx) + 1] = f
    BY <1>2, <1>8, AppendFacts
  <2>2. \A i \in 1..Len(q) : i \in 1..Len(rx) \/ i = Len(rx) + 1
    BY <2>1, IndexFacts
  <2> QED
    BY <1>1, <1>3, <1>10, <2>1, <2>2
<1>12. partial # None => given < partial.of /\ IsCarriedOut(partial.of)'
  BY <1>1, <1>2, <1>3
<1>13. todo' # None => todo'.of = Last /\ executed # <<>>
  BY <1>1, <1>4
<1> QED
  BY <1>2, <1>3, <1>5, <1>6, <1>8, <1>9, <1>11, <1>12, <1>13
     DEF AnswersRise, Ascending, IsReady, IsCarriedOut

\* So the answers rise after every step.
LEMMA AnswersStep ==
    ASSUME TypeInv, TypeInv', OrderOK, Next
    PROVE  AnswersRise'
<1>1. Types /\ OneThing /\ RequestsRise /\ AnswersRise /\ given \in Nat /\ partial \in Payloads
      /\ rx \in Seq(Frames) /\ (pc = "poll" => partial = None)
  BY DEF TypeInv, OrderOK, Types
<1>2. None \in Payloads
  BY NoneIs
<1>3. PICK p : p = partial'
  OBVIOUS
<1>4. p \in Payloads
  BY <1>3 DEF TypeInv, Types
<1>5. CASE \/ \E s \in Services, n \in Cfs : Start(s, n)
           \/ SendFirst \/ FlowControlTimeout \/ SendConsecutive \/ ResponseTimeout \/ NoticeCancel
           \/ Cancel \/ Lose
  <2>1. /\ UNCHANGED <<todo, executed, given>> /\ (p = partial \/ p = None)
        /\ rx' = rx \/ rx' = <<>> \/ (rx # <<>> /\ rx' = Tail(rx))
    <3>1. CASE \/ \E s \in Services, n \in Cfs : Start(s, n)
               \/ SendFirst \/ SendConsecutive \/ Cancel \/ Lose
      BY <1>3, <3>1 DEF Start, SendFirst, SendConsecutive, Cancel, Lose, Fault, hostVars, ecuVars
    <3>2. CASE FlowControlTimeout \/ NoticeCancel
      BY <1>3, <3>2 DEF FlowControlTimeout, NoticeCancel, Raise, End, ecuVars
    <3>3. CASE ResponseTimeout
      <4>1. unexpected \in {"none", "TRANSPORT", "UDS"}
        BY <1>1 DEF Types
      <4> QED
        BY <1>3, <3>3, <4>1 DEF ResponseTimeout, Raise, End, ecuVars
    <3> QED
      BY <1>5, <3>1, <3>2, <3>3
  <2> QED
    BY <1>1, <1>3, <1>4, <2>1, AnswersTaken
<1>6. CASE TakeFlowControl
  <2>1. /\ UNCHANGED <<todo, executed, given>> /\ (p = partial \/ p = None)
        /\ rx' = <<>> \/ (rx # <<>> /\ rx' = Tail(rx))
    BY <1>1, <1>3, <1>6, TakeFlowControlIs DEF Reads, Rest, SameSending, Ends
  <2> QED
    BY <1>1, <1>3, <1>4, <2>1, AnswersTaken
<1>7. CASE Poll
  <2>1. PICK f \in Frames :
              /\ Reads(f) /\ pc = "poll"
              /\ \/ f.type = "FF" /\ partial' = Started(f) /\ given' = given
                 \/ partial' = None /\ given' = given
                 \/ f.type = "SF" /\ f.info = "positive" /\ partial' = None /\ given' = f.of
    BY <1>1, <1>7, PollIs DEF SameSending, Ignores, Ends
  <2>2. /\ f = rx[1] /\ rx # <<>> /\ (rx' = <<>> \/ rx' = Tail(rx)) /\ UNCHANGED <<todo, executed>>
        /\ partial = None
    BY <1>1, <2>1 DEF Reads, Rest
  <2>3. f.of \in Nat /\ f.of # 0
    <3>1. 1 \in 1..Len(rx)
      BY <1>1, <2>2, EmptySeq, LenProperties
    <3>2. Said(f)
      BY <1>1, <2>2, <3>1 DEF Types
    <3> QED
      BY <3>2 DEF Said, Sound, Frames
  <2>4. CASE f.type = "FF" /\ partial' = Started(f) /\ given' = given
    <3>1. p.of = f.of
      BY <1>3, <2>4, StartedIs
    <3>2. p # None /\ IsReady(f)
      BY <2>3, <2>4, <3>1, NoneIs DEF IsReady
    <3> QED
      BY <1>1, <1>3, <1>4, <2>2, <2>4, <3>1, <3>2, AnswersTaken
  <2>5. CASE partial' = None /\ given' = given
    BY <1>1, <1>2, <2>2, <2>5, AnswersTaken
  <2>6. CASE f.type = "SF" /\ f.info = "positive" /\ partial' = None /\ given' = f.of
    <3>1. IsReady(f)
      BY <2>6 DEF IsReady
    <3> QED
      BY <1>1, <1>2, <2>2, <2>3, <2>6, <3>1, AnswersTaken
  <2> QED
    BY <2>1, <2>4, <2>5, <2>6
<1>8. CASE Assemble
  <2>1. PICK f \in Frames, a \in Payloads :
              /\ Reads(f) /\ pc = "assemble" /\ partial # None /\ a = Extended(partial, f)
              /\ \/ partial' = a /\ given' = given
                 \/ partial' = None /\ given' = given
                 \/ partial' = None /\ given' = partial.of
    BY <1>1, <1>8, AssembleIs DEF SameSending, Ignores, Ends
  <2>2. /\ f = rx[1] /\ rx # <<>> /\ (rx' = <<>> \/ rx' = Tail(rx)) /\ UNCHANGED <<todo, executed>>
    BY <2>1 DEF Reads, Rest
  <2>3. a.of = partial.of
    <3>1. Longer(partial, f, a)
      BY <1>1, <2>1, ExtendedIs
    <3> QED
      BY <3>1 DEF Longer
  <2>4. partial.of \in Nat
    BY <1>1 DEF Payloads
  <2>5. CASE partial' = a /\ given' = given
    BY <1>1, <1>3, <1>4, <2>1, <2>2, <2>3, <2>5, AnswersTaken
  <2>6. CASE partial' = None /\ given' = given
    BY <1>1, <1>2, <2>2, <2>6, AnswersTaken
  <2>7. CASE partial' = None /\ given' = partial.of
    BY <1>1, <1>2, <2>1, <2>2, <2>4, <2>7, AnswersTaken
  <2> QED
    BY <2>1, <2>5, <2>6, <2>7
<1>9. CASE EcuReceives
  <2>1. UNCHANGED <<rx, given, partial>>
    BY <1>9 DEF EcuReceives, hostVars
  <2>2. CASE UNCHANGED <<todo, executed>>
    BY <1>1, <1>3, <1>4, <2>1, <2>2, AnswersTaken
  <2>3. CASE \E a \in Payloads : Last < a.of /\ a.of <= call /\ todo = None /\ CarriesOut(a)
    BY <1>1, <2>1, <2>3, CarryOutAnswers
  <2> QED
    BY <1>1, <1>9, <2>2, <2>3, ReceiveRises
<1>10. CASE \/ EcuStalls \/ EcuOverflows \/ EcuPending \/ EcuRefuses \/ EcuContinues
            \/ (\E bs \in BlockSizes : EcuGrants(bs)) \/ (\E n \in Cfs : EcuAnswers(n))
  BY <1>1, <1>10, EcuSendsIs, EcuSendsAnswers
<1> QED
  BY <1>5, <1>6, <1>7, <1>8, <1>9, <1>10 DEF Next, Host, Environment

-------------------------------------------------------------------------------
(***************************************************************************)
(* Requests that are whole.  As long as no flow control of an earlier      *)
(* first frame can come, every frame on its way is of the request at hand  *)
(* and beyond what the ECU has assembled, and a request that lacks a frame *)
(* cannot be completed any more.  As long as nothing is lost, the frames   *)
(* follow one another, from what the ECU has assembled to what the host    *)
(* has still to send, whatever earlier calls have left.                    *)
(***************************************************************************)
Unmixed == \A i \in 1..Len(executed) : executed[i].whole = TRUE

\* Position p is beyond what has been assembled of a, and beyond what it lacks.
Beyond(a, p) == a.got < p /\ (a.whole # TRUE => a.got + 1 < p)
AllBeyond(q, a) == \A i \in 1..Len(q) : q[i].type = "CF" => Beyond(a, q[i].pos)
AllOf(q, c, n) == \A i \in 1..Len(q) : q[i].of = c /\ (q[i].type = "CF" => q[i].pos <= n)

InOrder ==
    /\ Unmixed /\ AllOf(inbox, call, cfs)
    /\ asm # None =>
          /\ asm.of = call /\ asm.got < asm.n /\ AllBeyond(inbox, asm)
          /\ pc # "idle" => Beyond(asm, sent + 1)

Unbroken ==
    /\ Unmixed /\ Chain(inbox)
    /\ asm # None => asm.whole = TRUE /\ (inbox # <<>> => IsNextOf(inbox[1], asm))
    /\ pc \in {"awaitFC", "sendCF"} =>
          /\ inbox # <<>> => /\ inbox[Len(inbox)].type \in {"FF", "CF"}
                             /\ inbox[Len(inbox)].of = call /\ inbox[Len(inbox)].pos = sent
          /\ inbox = <<>> /\ asm # None => asm.of = call /\ asm.got = sent

WholeOK == (~leftover => InOrder) /\ (faults = 0 => Unbroken)

\* What the ECU has assembled, when it is not receiving.
Kept(a, b) == a.of = b.of /\ a.n = b.n /\ a.got = b.got /\ (a.whole = TRUE <=> b.whole = TRUE)
AsmKept == asm' # None => asm # None /\ Kept(asm', asm)

LEMMA EcuSendsKeeps ==
    ASSUME Types, NEW f \in Frames,
           \/ Grants(f) \/ Stalls(f) \/ Overflows(f) \/ Delays(f) \/ AnswersSingle(f)
           \/ AnswersFirst(f) \/ Refuses(f) \/ Continued(f)
    PROVE  AsmKept
<1>1. CASE Grants(f)
  <2>1. PICK w : w = IF f.n = 0 THEN asm.n ELSE f.n
    OBVIOUS
  <2>2. asm # None /\ asm' = [asm EXCEPT !.left = w] /\ asm \in Payloads
    BY <1>1, <2>1 DEF Grants, Types
  <2>3. PICK a : a = [asm EXCEPT !.left = w]
    OBVIOUS
  <2>4. a.of = asm.of /\ a.n = asm.n /\ a.got = asm.got
    BY <2>2, <2>3 DEF Payloads
  <2>5. a.whole = asm.whole
    BY <2>2, <2>3 DEF Payloads
  <2>6. Kept(a, asm)
    BY <2>4, <2>5 DEF Kept
  <2> QED
    BY <2>2, <2>3, <2>6 DEF AsmKept
<1>2. CASE ~Grants(f)
  <2>1. asm' = asm \/ asm' = None
    BY <1>2 DEF Stalls, Overflows, Delays, AnswersSingle, AnswersFirst, Refuses, Continued
  <2> QED
    BY <2>1 DEF AsmKept, Kept
<1> QED
  BY <1>1, <1>2

\* A whole request is carried out.
LEMMA UnmixedGrows ==
    ASSUME Types, Unmixed, NEW a \in Payloads, CarriesOut(a), a.whole = TRUE
    PROVE  Unmixed'
<1>1. PICK d \in Done : d = [of |-> a.of, whole |-> a.whole] /\ d.whole = TRUE
  <2>1. a.of \in Nat /\ a.whole \in BOOLEAN
    BY DEF Payloads
  <2>2. PICK d : d = [of |-> a.of, whole |-> a.whole]
    OBVIOUS
  <2>3. d \in Done /\ d.whole = TRUE
    BY <2>1, <2>2 DEF Done
  <2> QED
    BY <2>2, <2>3
<1>2. PICK e : e = executed'
  OBVIOUS
<1>3. /\ Len(executed) \in Nat /\ Len(e) = Len(executed) + 1
      /\ e[Len(executed) + 1] = d
      /\ \A i \in 1..Len(executed) : e[i] = executed[i]
  BY <1>1, <1>2, AppendFacts DEF CarriesOut, Types
<1>4. \A i \in 1..Len(e) : i \in 1..Len(executed) \/ i = Len(executed) + 1
  BY <1>3, IndexFacts
<1>5. \A i \in 1..Len(e) : e[i].whole = TRUE
  BY <1>1, <1>3, <1>4 DEF Unmixed
<1> QED
  BY <1>2, <1>5 DEF Unmixed

\* Frames on their way, without the first, and with one more.
LEMMA TailOrder ==
    ASSUME NEW q \in Seq(Frames), q # <<>>, NEW t, t = Tail(q)
    PROVE  /\ \A c, n : AllOf(q, c, n) =>
                 AllOf(t, c, n) /\ q[1].of = c /\ (q[1].type = "CF" => q[1].pos <= n)
           /\ \A a : AllBeyond(q, a) =>
                 AllBeyond(t, a) /\ (q[1].type = "CF" => Beyond(a, q[1].pos))
           /\ Rising(q) /\ q[1].type = "CF" =>
                 \A i \in 1..Len(t) : t[i].type = "CF" => q[1].pos < t[i].pos
           /\ \A s : UpTo(q, s) /\ q[1].type = "CF" => q[1].pos <= s
<1>1. /\ Len(q) \in Nat \ {0} /\ Len(t) = Len(q) - 1
      /\ \A i \in 1..Len(t) : t[i] = q[i + 1] /\ i + 1 \in 1..Len(q)
  BY TailFacts
<1>2. 1 \in 1..Len(q) /\ \A i \in 1..Len(t) : 1 < i + 1
  BY <1>1
<1>3. \A c, n : AllOf(q, c, n) =>
         AllOf(t, c, n) /\ q[1].of = c /\ (q[1].type = "CF" => q[1].pos <= n)
  BY <1>1, <1>2 DEF AllOf
<1>4. \A a : AllBeyond(q, a) =>
         AllBeyond(t, a) /\ (q[1].type = "CF" => Beyond(a, q[1].pos))
  BY <1>1, <1>2 DEF AllBeyond
<1>5. Rising(q) /\ q[1].type = "CF" =>
         \A i \in 1..Len(t) : t[i].type = "CF" => q[1].pos < t[i].pos
  BY <1>1, <1>2 DEF Rising
<1>6. \A s : UpTo(q, s) /\ q[1].type = "CF" => q[1].pos <= s
  BY <1>2 DEF UpTo
<1> QED
  BY <1>3, <1>4, <1>5, <1>6

LEMMA AppendOrder ==
    ASSUME NEW q \in Seq(Frames), NEW f \in Frames, NEW r, r = Append(q, f)
    PROVE  /\ \A c, n : AllOf(q, c, n) /\ f.of = c /\ (f.type = "CF" => f.pos <= n) => AllOf(r, c, n)
           /\ \A a : AllBeyond(q, a) /\ (f.type = "CF" => Beyond(a, f.pos)) => AllBeyond(r, a)
<1>1. /\ Len(q) \in Nat /\ Len(r) = Len(q) + 1
      /\ \A i \in 1..Len(q) : r[i] = q[i]
      /\ r[Len(q) + 1] = f
  BY AppendFacts
<1>2. \A i \in 1..Len(r) : i \in 1..Len(q) \/ i = Len(q) + 1
  BY <1>1, IndexFacts
<1>3. \A c, n : AllOf(q, c, n) /\ f.of = c /\ (f.type = "CF" => f.pos <= n) => AllOf(r, c, n)
  BY <1>1, <1>2 DEF AllOf
<1>4. \A a : AllBeyond(q, a) /\ (f.type = "CF" => Beyond(a, f.pos)) => AllBeyond(r, a)
  BY <1>1, <1>2 DEF AllBeyond
<1> QED
  BY <1>3, <1>4

\* A step that sends no consecutive frame and assembles nothing.
LEMMA InOrderStays ==
    ASSUME Types, InOrder, UNCHANGED <<call, cfs, executed>>, AsmKept,
           \/ inbox' = inbox \/ (inbox # <<>> /\ inbox' = Tail(inbox))
           \/ \E f \in Frames : f.type # "CF" /\ f.of = call /\ inbox' = Append(inbox, f),
           pc' # "idle" => pc # "idle" /\ sent' = sent
    PROVE  InOrder'
<1>1. PICK q, a : q = inbox' /\ a = asm'
  OBVIOUS
<1>2. inbox \in Seq(Frames)
  BY DEF Types
<1>3. /\ Unmixed /\ AllOf(inbox, call, cfs)
      /\ asm # None =>
            /\ asm.of = call /\ asm.got < asm.n /\ AllBeyond(inbox, asm)
            /\ pc # "idle" => Beyond(asm, sent + 1)
  BY DEF InOrder
<1>4. AllOf(q, call, cfs) /\ (AllBeyond(inbox, asm) => AllBeyond(q, asm))
  <2>1. CASE q = inbox
    BY <1>3, <2>1
  <2>2. CASE inbox # <<>> /\ q = Tail(inbox)
    BY <1>2, <1>3, <2>2, TailOrder
  <2>3. CASE \E f \in Frames : f.type # "CF" /\ f.of = call /\ q = Append(inbox, f)
    BY <1>2, <1>3, <2>3, AppendOrder
  <2> QED
    BY <1>1, <2>1, <2>2, <2>3
<1>5. ASSUME a # None
      PROVE  /\ a.of = call /\ a.got < a.n /\ AllBeyond(q, a)
             /\ pc' # "idle" => Beyond(a, sent' + 1)
  <2>1. asm # None /\ a.of = asm.of /\ a.n = asm.n /\ a.got = asm.got
        /\ (a.whole = TRUE <=> asm.whole = TRUE)
    BY <1>1, <1>5 DEF AsmKept, Kept
  <2>2. AllBeyond(q, asm) => AllBeyond(q, a)
    BY <2>1 DEF AllBeyond, Beyond
  <2>3. pc' # "idle" => Beyond(a, sent' + 1)
    BY <1>3, <2>1 DEF Beyond
  <2> QED
    BY <1>3, <1>4, <2>1, <2>2, <2>3
<1>6. Unmixed'
  BY <1>3 DEF Unmixed
<1> QED
  BY <1>1, <1>4, <1>5, <1>6 DEF InOrder, AllOf, AllBeyond, Beyond

\* The host sends a frame of its request.
LEMMA InOrderSends ==
    ASSUME Types, GrantInv, InOrder, SendFirst \/ SendConsecutive
    PROVE  InOrder'
<1>1. /\ Unmixed /\ AllOf(inbox, call, cfs) /\ inbox \in Seq(Frames) /\ call \in Nat
      /\ asm # None =>
            /\ asm.of = call /\ asm.got < asm.n /\ AllBeyond(inbox, asm)
            /\ pc # "idle" => Beyond(asm, sent + 1)
  BY Numbers DEF InOrder, Types
<1>2. PICK q : q = inbox'
  OBVIOUS
<1>3. CASE SendFirst
  <2>1. PICK type, f : /\ type = IF cfs = 0 THEN "SF" ELSE "FF"
                       /\ f = Frame(type, call, svc, cfs, 0, "request")
    OBVIOUS
  <2>2. f \in Frames /\ f.type = type /\ f.of = call /\ type # "CF"
    <3>1. svc \in Services /\ cfs \in Nat /\ "request" \in Infos /\ 0 \in Nat
      BY Numbers DEF Infos, Types
    <3> QED
      BY <1>1, <2>1, <3>1, FrameIs
  <2>3. pc = "first" /\ q = Append(inbox, f) /\ UNCHANGED <<call, cfs, sent, asm, executed>>
    BY <1>2, <1>3, <2>1 DEF SendFirst, ecuVars
  <2>4. AsmKept
    BY <2>3 DEF AsmKept, Kept
  <2> QED
    BY <1>2, <2>2, <2>3, <2>4, InOrderStays
<1>4. CASE SendConsecutive
  <2>1. PICK n \in Nat : n = sent + 1
    BY Numbers
  <2>2. PICK f : f = Frame("CF", call, svc, 0, n, "request")
    OBVIOUS
  <2>3. f \in Frames /\ f.type = "CF" /\ f.of = call /\ f.pos = n
    <3>1. svc \in Services /\ "request" \in Infos /\ 0 \in Nat
      BY DEF Infos, Types
    <3> QED
      BY <1>1, <2>2, <3>1, FrameIs
  <2>4. pc = "sendCF" /\ q = Append(inbox, f) /\ UNCHANGED <<call, cfs, asm, executed>> /\ sent' = n
    BY <1>2, <1>4, <2>1, <2>2 DEF SendConsecutive, ecuVars
  <2>5. n <= cfs
    BY <2>1, <2>4, Numbers DEF Types
  <2>6. AllOf(q, call, cfs)
    BY <1>1, <2>3, <2>4, <2>5, AppendOrder
  <2>7. ASSUME asm # None
        PROVE  AllBeyond(q, asm) /\ Beyond(asm, n + 1)
    <3>1. Beyond(asm, n) /\ AllBeyond(inbox, asm)
      BY <1>1, <2>1, <2>4, <2>7
    <3>2. asm.got \in Nat
      BY PayloadNumbers
    <3>3. Beyond(asm, n + 1)
      <4>1. PICK g : g = asm.got /\ g \in Nat
        BY <3>2
      <4>2. (g < n => g < n + 1) /\ (g + 1 < n => g + 1 < n + 1)
        BY <4>1
      <4> QED
        BY <3>1, <4>1, <4>2 DEF Beyond
    <3> QED
      BY <1>1, <2>3, <2>4, <3>1, <3>3, AppendOrder
  <2>8. Unmixed'
    BY <1>1, <2>4 DEF Unmixed
  <2>9. asm # None => asm.of = call /\ asm.got < asm.n /\ AllBeyond(q, asm) /\ Beyond(asm, sent' + 1)
    BY <1>1, <2>4, <2>7
  <2> QED
    BY <1>2, <2>4, <2>6, <2>8, <2>9 DEF InOrder, AllOf, AllBeyond, Beyond
<1> QED
  BY <1>3, <1>4

\* The ECU assembles what is beyond what it has, and completes only what is whole.
LEMMA InOrderReceives ==
    ASSUME Types, OneThing, GrantInv, InOrder, EcuReceives
    PROVE  InOrder'
<1>1. /\ Unmixed /\ AllOf(inbox, call, cfs) /\ inbox \in Seq(Frames)
      /\ asm # None =>
            /\ asm.of = call /\ asm.got < asm.n /\ AllBeyond(inbox, asm)
            /\ pc # "idle" => Beyond(asm, sent + 1)
  BY DEF InOrder, Types
<1>2. PICK f \in Frames :
              /\ Hears(f) /\ Sound(f)
              /\ \/ HearsSingle(f) \/ HearsFirst(f) \/ HearsWrong(f) \/ HearsGrant(f)
                 \/ \E a \in Payloads : HearsNext(f, a)
  BY EcuReceivesIs
<1>3. PICK q : q = inbox'
  OBVIOUS
<1>4. f = inbox[1] /\ inbox # <<>> /\ q = Tail(inbox) /\ UNCHANGED <<pc, call, cfs, sent>>
  BY <1>2, <1>3 DEF Hears
<1>5. /\ AllOf(q, call, cfs) /\ f.of = call /\ (f.type = "CF" => f.pos <= cfs)
      /\ AllBeyond(inbox, asm) => AllBeyond(q, asm) /\ (f.type = "CF" => Beyond(asm, f.pos))
      /\ Rising(inbox) /\ f.type = "CF" => \A i \in 1..Len(q) : q[i].type = "CF" => f.pos < q[i].pos
      /\ UpTo(inbox, sent) /\ f.type = "CF" => f.pos <= sent
  BY <1>1, <1>4, TailOrder
<1>6. ASSUME NEW a, asm' = a, Unmixed',
             a # None => /\ a.of = call /\ a.got < a.n /\ AllBeyond(q, a)
                         /\ pc # "idle" => Beyond(a, sent + 1)
      PROVE  InOrder'
  BY <1>3, <1>4, <1>5, <1>6 DEF InOrder, AllOf, AllBeyond, Beyond
<1>7. CASE HearsSingle(f)
  <2>1. CarriesOut(Started(f)) /\ asm' = None
    BY <1>7 DEF HearsSingle, CarriesOut
  <2>2. PICK a : a = Started(f)
    OBVIOUS
  <2>3. a \in Payloads /\ a.whole = TRUE
    BY <2>2, StartedIs
  <2>4. Unmixed'
    BY <1>1, <2>1, <2>2, <2>3, UnmixedGrows
  <2> QED
    BY <1>6, <2>1, <2>4
<1>8. CASE HearsFirst(f)
  <2>1. asm' = Started(f) /\ executed' = executed /\ f.type = "FF" /\ f.n # 0
    BY <1>2, <1>8 DEF HearsFirst, Sound
  <2>2. PICK a : a = Started(f)
    OBVIOUS
  <2>3. a.of = f.of /\ a.n = f.n /\ a.got = 0 /\ a.whole = TRUE
    BY <2>2, StartedIs
  <2>4. Len(q) = 0
    <3>1. 1 \in 1..Len(inbox) /\ Len(q) = Len(inbox) - 1
      BY <1>1, <1>4, TailFacts
    <3>2. Len(inbox) = 1
      BY <1>4, <2>1, <3>1 DEF GrantInv, StartAlone, IsStart
    <3> QED
      BY <3>1, <3>2
  <2>5. \A i : i \notin 1..Len(q)
    BY <2>4
  <2>6. AllBeyond(q, a)
    BY <2>5 DEF AllBeyond
  <2>7. a.got < a.n /\ Beyond(a, sent + 1)
    <3>1. f.n \in Nat /\ sent \in Nat
      BY Numbers DEF Frames
    <3>2. 0 < f.n /\ 0 < sent + 1
      BY <2>1, <3>1
    <3> QED
      BY <2>3, <3>2 DEF Beyond
  <2>8. Unmixed'
    BY <1>1, <2>1 DEF Unmixed
  <2> QED
    BY <1>5, <1>6, <2>1, <2>2, <2>3, <2>6, <2>7, <2>8
<1>9. CASE HearsWrong(f) \/ HearsGrant(f)
  <2>1. (asm' = asm \/ asm' = None) /\ executed' = executed
    BY <1>9 DEF HearsWrong, HearsGrant
  <2>2. Unmixed'
    BY <1>1, <2>1 DEF Unmixed
  <2> QED
    BY <1>1, <1>5, <1>6, <2>1, <2>2
<1>10. CASE \E a \in Payloads : HearsNext(f, a)
  <2>1. PICK a \in Payloads : HearsNext(f, a)
    BY <1>10
  <2>2. /\ f.type = "CF" /\ asm # None
        /\ a.of = asm.of /\ a.n = asm.n /\ a.got = asm.got + 1
        /\ a.whole = TRUE <=> asm.whole = TRUE /\ f.of = asm.of /\ f.pos = asm.got + 1
    BY <2>1 DEF HearsNext, Grown
  <2>3. asm.of = call /\ asm.got < asm.n /\ asm.n = cfs
    BY <1>1, <2>2 DEF GrantInv, GrantCovers
  <2>4. /\ f.of = call /\ f.pos <= cfs /\ asm.got < f.pos /\ (asm.whole # TRUE => asm.got + 1 < f.pos)
        /\ \A i \in 1..Len(q) : q[i].type = "CF" => f.pos < q[i].pos
        /\ pc # "idle" => f.pos <= sent
    BY <1>1, <1>5, <2>2 DEF Beyond, GrantInv, InSequence
  <2>5. asm.got \in Nat /\ asm.n \in Nat /\ f.pos \in Nat /\ sent \in Nat /\ cfs \in Nat
    BY PayloadNumbers, Numbers DEF Frames
  <2>6. ASSUME NEW p \in Nat, f.pos < p
        PROVE  Beyond(a, p)
    <3>1. a.got < p /\ (asm.got + 1 < f.pos => a.got + 1 < p)
      BY <2>2, <2>4, <2>5, <2>6
    <3>2. f.pos = asm.got + 1 \/ asm.got + 1 < f.pos
      BY <2>4, <2>5
    <3>3. a.whole # TRUE => asm.got + 1 < f.pos
      BY <2>2, <2>3, <2>4, <3>2
    <3> QED
      BY <3>1, <3>3 DEF Beyond
  <2>7. CASE CarriesOut(a) /\ a.got = a.n
    <3>1. asm.got + 1 = cfs
      BY <2>2, <2>3, <2>7
    <3>2. f.pos = asm.got + 1 /\ ~(asm.got + 1 < f.pos)
      BY <2>4, <2>5, <3>1
    <3>3. a.whole = TRUE
      BY <2>2, <2>3, <2>4, <3>2
    <3>4. Unmixed' /\ asm' = None
      BY <1>1, <2>7, <3>3, UnmixedGrows DEF CarriesOut
    <3> QED
      BY <1>6, <3>4
  <2>8. CASE asm' = a /\ executed' = executed /\ a.got # a.n
    <3>1. a.got < a.n
      BY <2>2, <2>3, <2>5, <2>8
    <3>2. AllBeyond(q, a)
      <4>1. \A i \in 1..Len(q) : q[i].pos \in Nat
        <5>1. q \in Seq(Frames)
          BY <1>1, <1>4, TailFacts
        <5>2. \A g \in Frames : g.pos \in Nat
          BY DEF Frames
        <5> QED
          BY <5>1, <5>2, QueueNumbers
      <4> QED
        BY <2>4, <2>6, <4>1 DEF AllBeyond
    <3>3. pc # "idle" => Beyond(a, sent + 1)
      <4>1. sent + 1 \in Nat /\ (f.pos <= sent => f.pos < sent + 1)
        BY <2>5
      <4> QED
        BY <2>4, <2>6, <4>1
    <3>4. Unmixed'
      BY <1>1, <2>8 DEF Unmixed
    <3> QED
      BY <1>6, <2>2, <2>3, <2>8, <3>1, <3>2, <3>3, <3>4
  <2> QED
    BY <2>1, <2>7, <2>8 DEF HearsNext
<1> QED
  BY <1>2, <1>7, <1>8, <1>9, <1>10

\* While no flow control of an earlier first frame can come, the frames are in order.
LEMMA InOrderStep ==
    ASSUME TypeInv, GrantsOK, ~leftover => InOrder, Next, ~leftover'
    PROVE  InOrder'
<1>1. Types /\ OneThing
  BY DEF TypeInv
<1>2. CASE \E s \in Services, n \in Cfs : Start(s, n)
  <2>1. /\ inbox = <<>> /\ asm = None /\ ~leftover /\ UNCHANGED <<inbox, asm, executed>>
    BY <1>2 DEF Start, Unclean, ecuVars
  <2>2. Unmixed
    BY <2>1 DEF InOrder
  <2>3. \A i : i \notin 1..Len(<<>>)
    BY EmptySeq
  <2> QED
    BY <2>1, <2>2, <2>3 DEF InOrder, Unmixed, AllOf
<1>3. CASE FlowControlTimeout
  BY <1>3 DEF FlowControlTimeout
<1>4. ASSUME leftover' = leftover
      PROVE  InOrder /\ GrantInv
  BY <1>4 DEF GrantsOK
<1>5. CASE SendFirst \/ SendConsecutive
  <2>1. leftover' = leftover
    BY <1>5 DEF SendFirst, SendConsecutive
  <2> QED
    BY <1>1, <1>4, <1>5, <2>1, InOrderSends
<1>6. ASSUME UNCHANGED <<call, cfs, executed, leftover>>, AsmKept,
             \/ inbox' = inbox \/ (inbox # <<>> /\ inbox' = Tail(inbox))
             \/ \E f \in Frames : f.type # "CF" /\ f.of = call /\ inbox' = Append(inbox, f),
             pc' # "idle" => pc # "idle" /\ sent' = sent
      PROVE  InOrder'
  BY <1>1, <1>4, <1>6, InOrderStays
<1>7. asm' = asm => AsmKept
  BY DEF AsmKept, Kept
<1>8. CASE TakeFlowControl
  <2>1. /\ UNCHANGED <<call, cfs, executed, leftover, inbox, asm>>
        /\ pc' # "idle" => pc # "idle" /\ sent' = sent
    BY <1>1, <1>8, TakeFlowControlIs DEF Reads, SameSending, Ends
  <2> QED
    BY <1>6, <1>7, <2>1
<1>9. CASE Poll
  <2>1. /\ UNCHANGED <<call, cfs, executed, leftover, asm>>
        /\ inbox' = inbox \/ inbox' = Append(inbox, Frame("FC", call, svc, 0, 0, "go"))
        /\ pc' # "idle" => pc # "idle" /\ sent' = sent
    BY <1>1, <1>9, PollIs DEF Reads, SameSending, Ends, Ignores
  <2>2. PICK f : f = Frame("FC", call, svc, 0, 0, "go")
    OBVIOUS
  <2>3. f \in Frames /\ f.type = "FC" /\ f.of = call
    <3>1. svc \in Services /\ "go" \in Infos /\ 0 \in Nat /\ call \in Nat
      BY <1>1, Numbers DEF Infos, Types
    <3> QED
      BY <2>2, <3>1, FrameIs
  <2> QED
    BY <1>6, <1>7, <2>1, <2>2, <2>3
<1>10. CASE Assemble
  <2>1. /\ UNCHANGED <<call, cfs, executed, leftover, inbox, asm>>
        /\ pc' # "idle" => pc # "idle" /\ sent' = sent
    BY <1>1, <1>10, AssembleIs DEF Reads, SameSending, Ends, Ignores
  <2> QED
    BY <1>6, <1>7, <2>1
<1>11. CASE ResponseTimeout \/ NoticeCancel
  <2>1. UNCHANGED <<call, cfs, executed, leftover, inbox, asm>> /\ pc' = "idle"
    BY <1>11 DEF ResponseTimeout, NoticeCancel, Raise, End, ecuVars
  <2> QED
    BY <1>6, <1>7, <2>1
<1>12. CASE Cancel \/ Lose
  <2>1. /\ UNCHANGED <<pc, sent, call, cfs, executed, leftover, asm>>
        /\ inbox' = inbox \/ (inbox # <<>> /\ inbox' = Tail(inbox))
    BY <1>12 DEF Cancel, Lose, Fault, hostVars, ecuVars
  <2> QED
    BY <1>6, <1>7, <2>1
<1>13. CASE EcuReceives
  <2>1. leftover' = leftover
    BY <1>13 DEF EcuReceives
  <2> QED
    BY <1>1, <1>4, <1>13, <2>1, InOrderReceives
<1>14. CASE \/ EcuStalls \/ EcuOverflows \/ EcuPending \/ EcuRefuses \/ EcuContinues
            \/ (\E bs \in BlockSizes : EcuGrants(bs)) \/ (\E n \in Cfs : EcuAnswers(n))
  <2>1. PICK f \in Frames :
               /\ EcuSends(f)
               /\ \/ Grants(f) \/ Stalls(f) \/ Overflows(f) \/ Delays(f) \/ AnswersSingle(f)
                  \/ AnswersFirst(f) \/ Refuses(f) \/ Continued(f)
    BY <1>1, <1>14, EcuSendsIs
  <2>2. UNCHANGED <<pc, sent, call, cfs, executed, leftover, inbox>>
    BY <2>1 DEF EcuSends
  <2>3. AsmKept
    BY <1>1, <2>1, EcuSendsKeeps
  <2> QED
    BY <1>6, <2>2, <2>3
<1> QED
  BY <1>2, <1>3, <1>5, <1>8, <1>9, <1>10, <1>11, <1>12, <1>13, <1>14 DEF Next, Host, Environment

\* A step that sends and takes no frame of the request.
LEMMA UnbrokenStays ==
    ASSUME Types, Unbroken, executed' = executed, AsmKept,
           \/ inbox' = inbox
           \/ /\ pc' \notin {"awaitFC", "sendCF"}
              /\ \E f \in Frames : f.type # "CF" /\ inbox' = Append(inbox, f),
           pc' \in {"awaitFC", "sendCF"} =>
              pc \in {"awaitFC", "sendCF"} /\ UNCHANGED <<call, sent>>
    PROVE  Unbroken'
<1>1. PICK q, a : q = inbox' /\ a = asm'
  OBVIOUS
<1>2. inbox \in Seq(Frames)
  BY DEF Types
<1>3. /\ Unmixed /\ Chain(inbox)
      /\ asm # None => asm.whole = TRUE /\ (inbox # <<>> => IsNextOf(inbox[1], asm))
      /\ pc \in {"awaitFC", "sendCF"} =>
            /\ inbox # <<>> => /\ inbox[Len(inbox)].type \in {"FF", "CF"}
                               /\ inbox[Len(inbox)].of = call /\ inbox[Len(inbox)].pos = sent
            /\ inbox = <<>> /\ asm # None => asm.of = call /\ asm.got = sent
  BY DEF Unbroken
<1>4. a # None => asm # None /\ a.of = asm.of /\ a.got = asm.got /\ (a.whole = TRUE <=> asm.whole = TRUE)
  BY <1>1 DEF AsmKept, Kept
<1>5. Chain(q) /\ (asm # None /\ q # <<>> => IsNextOf(q[1], asm))
  <2>1. CASE q = inbox
    BY <1>3, <2>1
  <2>2. CASE \E f \in Frames : f.type # "CF" /\ q = Append(inbox, f)
    <3>1. PICK f \in Frames : f.type # "CF" /\ q = Append(inbox, f)
      BY <2>2
    <3>2. Continues(inbox[Len(inbox)], f) /\ IsNextOf(f, asm)
      BY <3>1 DEF Continues, IsNextOf
    <3>3. /\ Chain(q)
          /\ inbox # <<>> => q[1] = inbox[1]
          /\ inbox = <<>> => q[1] = f
      <4>1. inbox \in Seq(Frames) /\ Chain(inbox) /\ q = Append(inbox, f)
        BY <1>2, <1>3, <3>1
      <4>2. inbox # <<>> => Continues(inbox[Len(inbox)], f)
        BY <3>2
      <4> QED
        BY <4>1, <4>2, AppendChain
    <3> QED
      BY <1>3, <3>2, <3>3
  <2> QED
    BY <1>1, <2>1, <2>2
<1>6. a # None => a.whole = TRUE /\ (q # <<>> => IsNextOf(q[1], a))
  BY <1>3, <1>4, <1>5 DEF IsNextOf
<1>7. pc' \in {"awaitFC", "sendCF"} =>
            /\ q # <<>> => /\ q[Len(q)].type \in {"FF", "CF"}
                           /\ q[Len(q)].of = call' /\ q[Len(q)].pos = sent'
            /\ q = <<>> /\ a # None => a.of = call' /\ a.got = sent'
  BY <1>1, <1>3, <1>4
<1>8. Unmixed'
  BY <1>3 DEF Unmixed
<1> QED
  BY <1>1, <1>5, <1>6, <1>7, <1>8 DEF Unbroken, Chain, Continues, IsNextOf

\* The host sends the frame that follows.
LEMMA UnbrokenSends ==
    ASSUME Types, Unbroken, SendFirst \/ SendConsecutive
    PROVE  Unbroken'
<1>1. /\ Unmixed /\ Chain(inbox) /\ inbox \in Seq(Frames) /\ call \in Nat /\ svc \in Services
      /\ asm # None => asm.whole = TRUE /\ (inbox # <<>> => IsNextOf(inbox[1], asm))
      /\ pc \in {"awaitFC", "sendCF"} =>
            /\ inbox # <<>> => /\ inbox[Len(inbox)].type \in {"FF", "CF"}
                               /\ inbox[Len(inbox)].of = call /\ inbox[Len(inbox)].pos = sent
            /\ inbox = <<>> /\ asm # None => asm.of = call /\ asm.got = sent
  BY Numbers DEF Unbroken, Types
<1>2. ASSUME NEW f \in Frames, inbox' = Append(inbox, f), UNCHANGED <<asm, executed, call>>,
             inbox # <<>> => Continues(inbox[Len(inbox)], f),
             inbox = <<>> /\ asm # None => IsNextOf(f, asm),
             pc' \in {"awaitFC", "sendCF"} =>
                f.type \in {"FF", "CF"} /\ f.of = call /\ f.pos = sent'
      PROVE  Unbroken'
  <2>1. PICK q : q = inbox'
    OBVIOUS
  <2>2. /\ Chain(q) /\ q # <<>> /\ q[Len(q)] = f
        /\ inbox # <<>> => q[1] = inbox[1]
        /\ inbox = <<>> => q[1] = f
    <3>1. inbox \in Seq(Frames) /\ Chain(inbox) /\ q = Append(inbox, f)
      BY <1>1, <1>2, <2>1
    <3>2. inbox # <<>> => Continues(inbox[Len(inbox)], f)
      BY <1>2
    <3> QED
      BY <3>1, <3>2, AppendChain
  <2>3. asm # None => asm.whole = TRUE /\ IsNextOf(q[1], asm)
    BY <1>1, <1>2, <2>2
  <2>4. Unmixed'
    BY <1>1, <1>2 DEF Unmixed
  <2> QED
    BY <1>2, <2>1, <2>2, <2>3, <2>4 DEF Unbroken, Chain, Continues, IsNextOf
<1>3. CASE SendFirst
  <2>1. PICK type, f : /\ type = IF cfs = 0 THEN "SF" ELSE "FF"
                       /\ f = Frame(type, call, svc, cfs, 0, "request")
    OBVIOUS
  <2>2. f \in Frames /\ f.type = type /\ f.of = call /\ f.pos = 0
    <3>1. cfs \in Nat /\ "request" \in Infos /\ 0 \in Nat
      BY Numbers DEF Infos
    <3> QED
      BY <1>1, <2>1, <3>1, FrameIs
  <2>3. /\ inbox' = Append(inbox, f) /\ UNCHANGED <<asm, executed, call, sent>> /\ sent = 0
        /\ pc' = IF cfs = 0 THEN "poll" ELSE "awaitFC"
    BY <1>3, <2>1 DEF SendFirst, ecuVars, Types
  <2>4. f.type # "CF"
    BY <2>1, <2>2
  <2>5. Continues(inbox[Len(inbox)], f) /\ IsNextOf(f, asm)
    BY <2>4 DEF Continues, IsNextOf
  <2>6. pc' \in {"awaitFC", "sendCF"} => f.type \in {"FF", "CF"} /\ f.of = call /\ f.pos = sent'
    BY <2>1, <2>2, <2>3
  <2> QED
    BY <1>2, <2>2, <2>3, <2>5, <2>6
<1>4. CASE SendConsecutive
  <2>1. PICK n \in Nat : n = sent + 1
    BY Numbers
  <2>2. PICK f : f = Frame("CF", call, svc, 0, n, "request")
    OBVIOUS
  <2>3. f \in Frames /\ f.type = "CF" /\ f.of = call /\ f.pos = n
    <3>1. "request" \in Infos /\ 0 \in Nat
      BY DEF Infos
    <3> QED
      BY <1>1, <2>2, <3>1, FrameIs
  <2>4. pc = "sendCF" /\ inbox' = Append(inbox, f) /\ UNCHANGED <<call, asm, executed>> /\ sent' = n
    BY <1>4, <2>1, <2>2 DEF SendConsecutive, ecuVars
  <2>5. inbox # <<>> => Continues(inbox[Len(inbox)], f)
    BY <1>1, <2>1, <2>3, <2>4 DEF Continues
  <2>6. inbox = <<>> /\ asm # None => IsNextOf(f, asm)
    BY <1>1, <2>1, <2>3, <2>4 DEF IsNextOf
  <2> QED
    BY <1>2, <2>3, <2>4, <2>5, <2>6
<1> QED
  BY <1>3, <1>4

\* The ECU assembles the frame that follows, and completes only what is whole.
LEMMA UnbrokenReceives ==
    ASSUME Types, OneThing, Unbroken, EcuReceives
    PROVE  Unbroken'
<1>1. /\ Unmixed /\ Chain(inbox) /\ inbox \in Seq(Frames)
      /\ asm # None => asm.whole = TRUE /\ (inbox # <<>> => IsNextOf(inbox[1], asm))
      /\ pc \in {"awaitFC", "sendCF"} /\ inbox # <<>> =>
            /\ inbox[Len(inbox)].type \in {"FF", "CF"}
            /\ inbox[Len(inbox)].of = call /\ inbox[Len(inbox)].pos = sent
  BY DEF Unbroken, Types
<1>2. PICK f \in Frames :
              /\ Hears(f) /\ Sound(f)
              /\ \/ HearsSingle(f) \/ HearsFirst(f) \/ HearsWrong(f) \/ HearsGrant(f)
                 \/ \E a \in Payloads : HearsNext(f, a)
  BY EcuReceivesIs
<1>3. PICK q : q = inbox'
  OBVIOUS
<1>4. f = inbox[1] /\ inbox # <<>> /\ q = Tail(inbox) /\ UNCHANGED <<pc, call, sent>>
  BY <1>2, <1>3 DEF Hears
<1>5. /\ Chain(q) /\ (q # <<>> => Continues(f, q[1]))
      /\ q # <<>> => q[Len(q)] = inbox[Len(inbox)]
      /\ q = <<>> => f = inbox[Len(inbox)]
  BY <1>1, <1>4, TailChain
\* What the ECU has assembled, if anything, ends with the frame it has taken.
<1>6. ASSUME NEW a, asm' = a, Unmixed',
             a # None => /\ a.whole = TRUE
                         /\ f.type \in {"FF", "CF"} => a.of = f.of /\ a.got = f.pos
      PROVE  Unbroken'
  <2>1. a # None /\ q # <<>> => IsNextOf(q[1], a)
    BY <1>5, <1>6 DEF Continues, IsNextOf
  <2>2. pc \in {"awaitFC", "sendCF"} =>
            /\ q # <<>> => /\ q[Len(q)].type \in {"FF", "CF"}
                           /\ q[Len(q)].of = call /\ q[Len(q)].pos = sent
            /\ q = <<>> /\ a # None => a.of = call /\ a.got = sent
    BY <1>1, <1>4, <1>5, <1>6
  <2> QED
    BY <1>3, <1>4, <1>5, <1>6, <2>1, <2>2 DEF Unbroken, Chain, Continues, IsNextOf
<1>7. CASE HearsSingle(f)
  <2>1. CarriesOut(Started(f)) /\ asm' = None
    BY <1>7 DEF HearsSingle, CarriesOut
  <2>2. PICK a : a = Started(f)
    OBVIOUS
  <2>3. a \in Payloads /\ a.whole = TRUE
    BY <2>2, StartedIs
  <2>4. Unmixed'
    BY <1>1, <2>1, <2>2, <2>3, UnmixedGrows
  <2> QED
    BY <1>6, <2>1, <2>4
<1>8. CASE HearsFirst(f)
  <2>1. asm' = Started(f) /\ executed' = executed /\ f.pos = 0
    BY <1>2, <1>8 DEF HearsFirst, Sound
  <2>2. PICK a : a = Started(f)
    OBVIOUS
  <2>3. a.of = f.of /\ a.got = 0 /\ a.whole = TRUE
    BY <2>2, StartedIs
  <2>4. Unmixed'
    BY <1>1, <2>1 DEF Unmixed
  <2> QED
    BY <1>6, <2>1, <2>2, <2>3, <2>4
<1>9. CASE HearsWrong(f) \/ HearsGrant(f)
  <2>1. (asm' = None \/ (asm' = asm /\ f.type = "FC")) /\ executed' = executed
    BY <1>9 DEF HearsWrong, HearsGrant
  <2>2. Unmixed'
    BY <1>1, <2>1 DEF Unmixed
  <2> QED
    BY <1>1, <1>6, <2>1, <2>2
<1>10. CASE \E a \in Payloads : HearsNext(f, a)
  <2>1. PICK a \in Payloads : HearsNext(f, a)
    BY <1>10
  <2>2. /\ f.type = "CF" /\ asm # None
        /\ a.of = asm.of /\ a.got = asm.got + 1
        /\ a.whole = TRUE <=> asm.whole = TRUE /\ f.of = asm.of /\ f.pos = asm.got + 1
    BY <2>1 DEF HearsNext, Grown
  <2>3. a.whole = TRUE /\ a.of = f.of /\ a.got = f.pos
    BY <1>1, <1>4, <2>2 DEF IsNextOf
  <2>4. CASE CarriesOut(a)
    <3>1. Unmixed' /\ asm' = None
      BY <1>1, <2>3, <2>4, UnmixedGrows DEF CarriesOut
    <3> QED
      BY <1>6, <3>1
  <2>5. CASE asm' = a /\ executed' = executed
    <3>1. Unmixed'
      BY <1>1, <2>5 DEF Unmixed
    <3> QED
      BY <1>6, <2>3, <2>5, <3>1
  <2> QED
    BY <2>1, <2>4, <2>5 DEF HearsNext
<1> QED
  BY <1>2, <1>7, <1>8, <1>9, <1>10

\* While nothing is lost, no frame is missing.
LEMMA UnbrokenStep ==
    ASSUME TypeInv, faults = 0 => Unbroken, Next, faults' = 0
    PROVE  Unbroken'
<1>1. Types /\ OneThing /\ faults \in Nat
  BY DEF TypeInv, Types
<1>2. ~Lose /\ ~EcuOverflows /\ ~EcuRefuses
  <2>1. faults' # faults + 1
    BY <1>1
  <2> QED
    BY <2>1 DEF Lose, EcuOverflows, EcuRefuses, Fault
<1>3. ASSUME faults' = faults
      PROVE  Unbroken
  BY <1>3
<1>4. ASSUME faults' = faults, executed' = executed, AsmKept,
             \/ inbox' = inbox
             \/ /\ pc' \notin {"awaitFC", "sendCF"}
                /\ \E f \in Frames : f.type # "CF" /\ inbox' = Append(inbox, f),
             pc' \in {"awaitFC", "sendCF"} =>
                pc \in {"awaitFC", "sendCF"} /\ UNCHANGED <<call, sent>>
      PROVE  Unbroken'
  BY <1>1, <1>3, <1>4, UnbrokenStays
<1>5. asm' = asm => AsmKept
  BY DEF AsmKept, Kept
<1>6. CASE \/ \E s \in Services, n \in Cfs : Start(s, n)
           \/ FlowControlTimeout \/ ResponseTimeout \/ NoticeCancel
  <2>1. UNCHANGED <<faults, executed, inbox, asm>> /\ pc' \in {"first", "idle"}
    BY <1>6 DEF Start, FlowControlTimeout, ResponseTimeout, NoticeCancel, Raise, End, ecuVars
  <2> QED
    BY <1>4, <1>5, <2>1
<1>7. CASE SendFirst \/ SendConsecutive
  <2>1. faults' = faults
    BY <1>7 DEF SendFirst, SendConsecutive
  <2> QED
    BY <1>1, <1>3, <1>7, <2>1, UnbrokenSends
<1>8. CASE TakeFlowControl
  <2>1. /\ UNCHANGED <<faults, executed, inbox, asm, call>> /\ pc = "awaitFC"
        /\ pc' = "idle" \/ sent' = sent
    BY <1>1, <1>8, TakeFlowControlIs DEF Reads, SameSending, Ends
  <2> QED
    BY <1>4, <1>5, <2>1
<1>9. CASE Poll
  <2>1. /\ UNCHANGED <<faults, executed, asm>> /\ pc' \in {"poll", "assemble", "idle"}
        /\ inbox' = inbox \/ inbox' = Append(inbox, Frame("FC", call, svc, 0, 0, "go"))
    BY <1>1, <1>9, PollIs DEF Reads, SameSending, Ends, Ignores
  <2>2. PICK f : f = Frame("FC", call, svc, 0, 0, "go")
    OBVIOUS
  <2>3. f \in Frames /\ f.type = "FC"
    <3>1. svc \in Services /\ "go" \in Infos /\ 0 \in Nat /\ call \in Nat
      BY <1>1, Numbers DEF Infos, Types
    <3> QED
      BY <2>2, <3>1, FrameIs
  <2> QED
    BY <1>4, <1>5, <2>1, <2>2, <2>3
<1>10. CASE Assemble
  <2>1. UNCHANGED <<faults, executed, asm, inbox>> /\ pc' \in {"poll", "assemble", "idle"}
    BY <1>1, <1>10, AssembleIs DEF Reads, SameSending, Ends, Ignores
  <2> QED
    BY <1>4, <1>5, <2>1
<1>11. CASE Cancel
  <2>1. UNCHANGED <<pc, sent, call, faults, executed, asm, inbox>>
    BY <1>11 DEF Cancel, hostVars, ecuVars
  <2> QED
    BY <1>4, <1>5, <2>1
<1>12. CASE EcuReceives
  <2>1. faults' = faults
    BY <1>12 DEF EcuReceives
  <2> QED
    BY <1>1, <1>3, <1>12, <2>1, UnbrokenReceives
<1>13. CASE \/ EcuStalls \/ EcuPending \/ EcuContinues
            \/ (\E bs \in BlockSizes : EcuGrants(bs)) \/ (\E n \in Cfs : EcuAnswers(n))
  <2>0. faults' = faults
    BY <1>13 DEF EcuStalls, EcuPending, EcuContinues, EcuGrants, EcuAnswers
  <2>1. PICK f \in Frames :
               /\ EcuSends(f)
               /\ \/ Grants(f) \/ Stalls(f) \/ Overflows(f) \/ Delays(f) \/ AnswersSingle(f)
                  \/ AnswersFirst(f) \/ Refuses(f) \/ Continued(f)
    BY <1>1, <1>13, EcuSendsIs
  <2>2. UNCHANGED <<pc, sent, call, executed, inbox>>
    BY <2>1 DEF EcuSends
  <2>3. AsmKept
    BY <1>1, <2>1, EcuSendsKeeps
  <2> QED
    BY <1>4, <2>0, <2>2, <2>3
<1> QED
  BY <1>2, <1>6, <1>7, <1>8, <1>9, <1>10, <1>11, <1>12, <1>13 DEF Next, Host, Environment

\* What the channel rests on.
ChannelInv == TypeInv /\ GrantsOK /\ OrderOK /\ WholeOK

\* It holds initially.
LEMMA ChannelInit ==
    ASSUME Init
    PROVE  ChannelInv
<1>1. TypeInv /\ GrantsOK
  BY TypeInit, GrantInit
<1>2. /\ rx = <<>> /\ inbox = <<>> /\ executed = <<>> /\ asm = None /\ todo = None /\ partial = None
      /\ call = 0 /\ given = 0 /\ pc = "idle" /\ Len(<<>>) = 0
  BY EmptySeq DEF Init
<1>3. \A i : i \notin 1..Len(<<>>) /\ i \notin 1..(Len(<<>>) - 1)
  BY <1>2
<1>4. Last = 0 /\ Top = 0 /\ Floor = 0 /\ Ceiling = 0
  BY <1>2 DEF Last, Top, Floor, Ceiling
<1>5. RequestsRise
  BY <1>2, <1>3, <1>4 DEF RequestsRise, Ordered, Between
<1>6. AnswersRise
  BY <1>2, <1>3, <1>4 DEF AnswersRise, Ascending
<1>7. WholeOK
  BY <1>2, <1>3 DEF WholeOK, InOrder, Unbroken, Unmixed, AllOf, Chain
<1> QED
  BY <1>1, <1>5, <1>6, <1>7 DEF ChannelInv, OrderOK

\* Every step keeps it.
LEMMA ChannelStep ==
    ASSUME ChannelInv, [Next]_vars
    PROVE  ChannelInv'
<1>1. TypeInv /\ GrantsOK /\ OrderOK /\ RequestsRise /\ AnswersRise /\ WholeOK
  BY DEF ChannelInv, OrderOK
<1>2. TypeInv' /\ GrantsOK'
  BY <1>1, TypeStep, GrantStep
<1>3. CASE Next
  <2>1. RequestsRise' /\ AnswersRise'
    BY <1>1, <1>2, <1>3, RequestsStep, AnswersStep
  <2>2. ~leftover' => InOrder'
    BY <1>1, <1>3, InOrderStep DEF WholeOK
  <2>3. faults' = 0 => Unbroken'
    BY <1>1, <1>3, UnbrokenStep DEF WholeOK
  <2>4. WholeOK'
    BY <2>2, <2>3 DEF WholeOK
  <2> QED
    BY <1>2, <2>1, <2>4 DEF ChannelInv, OrderOK
<1>4. CASE UNCHANGED vars
  <2>1. UNCHANGED <<pc, call, cfs, sent, given, partial, rx, inbox, asm, todo, executed, leftover, faults>>
    BY <1>4 DEF vars, hostVars, ecuVars
  <2>2. Last' = Last
    BY <2>1 DEF Last
  <2>3. Top' = Top /\ Floor' = Floor /\ Ceiling' = Ceiling
    BY <2>1, <2>2 DEF Top, Floor, Ceiling
  <2>4. RequestsRise'
    BY <1>1, <2>1, <2>2, <2>3 DEF RequestsRise, Ordered, Between, From, IsStart, Completes
  <2>5. AnswersRise'
    BY <1>1, <2>1, <2>2, <2>3 DEF AnswersRise, Ascending, IsReady, IsCarriedOut
  <2>6. InOrder => InOrder'
    BY <2>1 DEF InOrder, Unmixed, AllOf, AllBeyond, Beyond
  <2>7. Unbroken => Unbroken'
    BY <2>1 DEF Unbroken, Unmixed, Chain, Continues, IsNextOf
  <2>8. WholeOK'
    BY <1>1, <2>1, <2>6, <2>7 DEF WholeOK
  <2> QED
    BY <1>2, <2>4, <2>5, <2>8 DEF ChannelInv, OrderOK
<1> QED
  BY <1>3, <1>4

-------------------------------------------------------------------------------
(***************************************************************************)
(* The transport keeps the promises of UdsChannel.                         *)
(***************************************************************************)
Carried == [i \in DOMAIN executed |-> executed[i].of]
Intact  == \A i \in DOMAIN executed : executed[i].whole
Noise   == leftover /\ faults > 0

\* The calls carried out, as the channel sees them.
LEMMA CarriedFacts ==
    ASSUME Types
    PROVE  /\ Carried \in Seq(Nat) /\ Len(Carried) = Len(executed)
           /\ DOMAIN executed = 1..Len(executed) /\ DOMAIN Carried = 1..Len(executed)
           /\ \A i \in 1..Len(executed) : Carried[i] = executed[i].of
           /\ Carried = <<>> <=> executed = <<>>
           /\ Last = IF Carried = <<>> THEN 0 ELSE Carried[Len(Carried)]
<1>1. /\ executed \in Seq(Done) /\ Len(executed) \in Nat /\ DOMAIN executed = 1..Len(executed)
      /\ \A i \in 1..Len(executed) : executed[i] \in Done
  BY LenProperties, ElementFacts DEF Types
<1>2. \A d \in Done : d.of \in Nat
  BY DEF Done
<1>3. Carried \in [1..Len(executed) -> Nat]
  BY <1>1, <1>2 DEF Carried
<1>4. Carried \in Seq(Nat) /\ Len(Carried) = Len(executed)
  BY <1>1, <1>3
<1>5. \A i \in 1..Len(executed) : Carried[i] = executed[i].of
  BY <1>1 DEF Carried
<1>6. Carried = <<>> <=> executed = <<>>
  BY <1>1, <1>4, EmptySeq
<1>7. executed # <<>> => Len(executed) \in 1..Len(executed)
  BY <1>1, EmptySeq
<1>8. Last = IF Carried = <<>> THEN 0 ELSE Carried[Len(Carried)]
  BY <1>4, <1>5, <1>6, <1>7 DEF Last
<1> QED
  BY <1>1, <1>3, <1>4, <1>5, <1>6, <1>8

\* Every request carried out is whole, in a Boolean way or not.
LEMMA IntactFacts ==
    ASSUME NEW s \in Seq(Done)
    PROVE  (\A i \in DOMAIN s : s[i].whole) <=> (\A i \in 1..Len(s) : s[i].whole = TRUE)
<1>1. DOMAIN s = 1..Len(s) /\ \A i \in 1..Len(s) : s[i] \in Done
  BY LenProperties, ElementFacts
<1>2. \A d \in Done : d.whole \in BOOLEAN
  BY DEF Done
<1> QED
  BY <1>1, <1>2

\* A request is carried out: it is the channel's CarryOut.
LEMMA CarriedOutStep ==
    ASSUME Types, Types', WholeOK', UNCHANGED <<call, leftover, faults>>, NEW a \in Payloads,
           Last < a.of, a.of <= call, CarriesOut(a)
    PROVE  /\ \E c \in (Last + 1)..call : Carried' = Append(Carried, c)
           /\ \/ Intact' <=> Intact
              \/ Intact' <=> (Intact /\ ~Noise)
<1>1. (Intact <=> Unmixed) /\ (Intact' <=> Unmixed')
  BY IntactFacts DEF Intact, Unmixed, Types
<1>2. PICK d \in Done : d = [of |-> a.of, whole |-> a.whole] /\ d.of = a.of
  <2>1. a.of \in Nat /\ a.whole \in BOOLEAN
    BY DEF Payloads
  <2>2. PICK d : d = [of |-> a.of, whole |-> a.whole]
    OBVIOUS
  <2>3. d \in Done /\ d.of = a.of
    BY <2>1, <2>2 DEF Done
  <2> QED
    BY <2>2, <2>3
<1>3. PICK e : e = executed'
  OBVIOUS
<1>4. /\ Len(executed) \in Nat /\ Len(e) = Len(executed) + 1 /\ e \in Seq(Done)
      /\ e[Len(executed) + 1] = d
      /\ \A i \in 1..Len(executed) : e[i] = executed[i]
  <2>1. executed \in Seq(Done) /\ e = Append(executed, d)
    BY <1>2, <1>3 DEF Types, CarriesOut
  <2> QED
    BY <2>1, AppendFacts
<1>5. /\ Carried \in Seq(Nat) /\ Len(Carried) = Len(executed)
      /\ \A i \in 1..Len(executed) : Carried[i] = executed[i].of
  BY CarriedFacts
<1>6. a.of \in Nat /\ Last \in Nat /\ call \in Nat
  BY OrderNumbers DEF Payloads
<1>7. a.of \in (Last + 1)..call
  BY <1>6
<1>8. Carried' = Append(Carried, a.of)
  <2>1. PICK s : s = Append(Carried, a.of)
    OBVIOUS
  <2>2. /\ s \in Seq(Nat) /\ Len(s) = Len(executed) + 1
        /\ \A i \in 1..Len(executed) : s[i] = executed[i].of
        /\ s[Len(executed) + 1] = a.of
    <3>1. /\ Len(Carried) \in Nat /\ Len(s) = Len(Carried) + 1 /\ s \in Seq(Nat)
          /\ \A i \in 1..Len(Carried) : s[i] = Carried[i]
          /\ s[Len(Carried) + 1] = a.of
      BY <1>5, <1>6, <2>1, AppendFacts
    <3> QED
      BY <1>5, <3>1
  <2>3. DOMAIN e = 1..(Len(executed) + 1) /\ DOMAIN s = 1..(Len(executed) + 1)
    BY <1>4, <2>2, LenProperties
  <2>4. \A i \in 1..(Len(executed) + 1) : i \in 1..Len(executed) \/ i = Len(executed) + 1
    BY <1>4
  <2>5. \A i \in 1..(Len(executed) + 1) : s[i] = e[i].of
    BY <1>2, <1>4, <2>2, <2>4
  <2>6. s = [i \in 1..(Len(executed) + 1) |-> s[i]]
    BY <2>2, <2>3
  <2>7. s = [i \in DOMAIN e |-> e[i].of]
    BY <2>3, <2>5, <2>6
  <2> QED
    BY <1>3, <2>1, <2>7 DEF Carried
<1>9. CASE a.whole = TRUE
  <2>1. Unmixed => Unmixed'
    BY <1>9, UnmixedGrows
  <2>2. \A i \in 1..Len(executed) : i \in 1..Len(e)
    BY <1>4
  <2>3. Unmixed' => Unmixed
    BY <1>3, <1>4, <2>2 DEF Unmixed
  <2> QED
    BY <1>1, <1>7, <1>8, <2>1, <2>3
<1>10. CASE a.whole # TRUE
  <2>1. Len(e) \in 1..Len(e) /\ e[Len(e)] = d
    BY <1>4
  <2>2. d.whole # TRUE
    <3>1. d.whole = a.whole
      BY <1>2
    <3> QED
      BY <1>10, <3>1
  <2>3. ~Unmixed'
    BY <1>3, <2>1, <2>2 DEF Unmixed
  <2>4. leftover /\ faults # 0
    BY <2>3 DEF WholeOK, InOrder, Unbroken
  <2>5. Noise
    BY <2>4 DEF Noise, Types
  <2> QED
    BY <1>1, <1>7, <1>8, <2>3, <2>5
<1> QED
  BY <1>9, <1>10

\* Once the bus is bad it is not trusted again.
LEMMA NoiseStays ==
    ASSUME Types, Next
    PROVE  Noise' \in {Noise, TRUE}
<1>1. /\ leftover' = leftover \/ leftover' = TRUE \/ leftover' = (leftover \/ Unclean)
      /\ faults' = faults \/ faults' = faults + 1
  <2>1. CASE \/ \E s \in Services, n \in Cfs : Start(s, n)
             \/ FlowControlTimeout \/ SendFirst \/ SendConsecutive
    BY <2>1 DEF Start, FlowControlTimeout, SendFirst, SendConsecutive
  <2>2. CASE TakeFlowControl \/ Poll \/ Assemble \/ ResponseTimeout \/ NoticeCancel
    BY <2>2 DEF TakeFlowControl, Poll, Assemble, ResponseTimeout, NoticeCancel
  <2>3. CASE Environment
    BY <2>3 DEF Environment, Cancel, Lose, EcuReceives, EcuStalls, EcuOverflows, EcuPending,
           EcuRefuses, EcuContinues, EcuGrants, EcuAnswers, Fault
  <2> QED
    BY <2>1, <2>2, <2>3 DEF Next, Host
<1>2. \A n \in Nat : n > 0 => n + 1 > 0
  OBVIOUS
<1>3. leftover => leftover'
  BY <1>1
<1>4. faults > 0 => faults' > 0
  BY <1>1, <1>2 DEF Types
<1>5. Noise => Noise'
  BY <1>3, <1>4 DEF Noise
<1>6. Noise \in BOOLEAN /\ Noise' \in BOOLEAN
  BY DEF Noise
<1> QED
  BY <1>5, <1>6

\* A step of the host, the bus or the ECU is a step of the channel.
LEMMA ChannelNext ==
    ASSUME ChannelInv, ChannelInv', Next
    PROVE  Channel!Next
<1>1. Types /\ Types' /\ OneThing /\ RequestsRise /\ AnswersRise /\ WholeOK'
  BY DEF ChannelInv, OrderOK, TypeInv
<1>2. Noise' \in {Noise, TRUE}
  BY <1>1, NoiseStays
<1>3. executed' = executed => Carried' = Carried /\ Intact' = Intact
  BY DEF Carried, Intact
\* A step that the channel does not see, and a call that fails.
<1>4. ASSUME UNCHANGED <<call, given, executed>>, pc' = pc \/ (pc # "idle" /\ pc' # "idle")
      PROVE  Channel!Next
  BY <1>2, <1>3, <1>4 DEF Channel!Next, Carried, Intact, Noise
<1>5. ASSUME UNCHANGED <<call, given, executed>>, pc # "idle", pc' = "idle"
      PROVE  Channel!Next
  <2>1. Channel!Fail
    BY <1>3, <1>5 DEF Channel!Fail, Carried, Intact
  <2> QED
    BY <1>2, <2>1 DEF Channel!Next, Noise
\* An answer is returned.
<1>6. ASSUME NEW c \in Nat, given < c, IsCarriedOut(c), given' = c,
             UNCHANGED <<call, executed>>, pc # "idle", pc' = "idle"
      PROVE  Channel!Next
  <2>1. PICK i \in 1..Len(executed) : executed[i].of = c
    BY <1>6 DEF IsCarriedOut
  <2>2. i \in DOMAIN Carried /\ Carried[i] = c
    BY <1>1, <2>1, CarriedFacts
  <2>3. given \in Nat
    BY <1>1 DEF Types
  <2>4. i \in DOMAIN Carried /\ Carried[i] > given /\ given' = Carried[i]
    BY <1>6, <2>2, <2>3
  <2>5. Channel!Return
    BY <1>3, <1>6, <2>4 DEF Channel!Return, Carried, Intact
  <2> QED
    BY <1>2, <2>5 DEF Channel!Next, Noise
<1>7. CASE \E s \in Services, n \in Cfs : Start(s, n)
  <2>1. pc = "idle" /\ pc' = "first" /\ call' = call + 1 /\ UNCHANGED <<given, executed>>
    BY <1>7 DEF Start, ecuVars
  <2>2. Channel!Ask
    BY <1>3, <2>1 DEF Channel!Ask, Carried, Intact
  <2> QED
    BY <1>2, <2>2 DEF Channel!Next, Noise
<1>8. CASE SendFirst \/ SendConsecutive
  <2>1. UNCHANGED <<call, given, executed>> /\ pc # "idle" /\ pc' # "idle"
    BY <1>8 DEF SendFirst, SendConsecutive, ecuVars
  <2> QED
    BY <1>4, <2>1
<1>9. CASE TakeFlowControl
  <2>1. /\ UNCHANGED <<call, given, executed>> /\ pc = "awaitFC"
        /\ pc' = pc \/ pc' = "sendCF" \/ pc' = "idle"
    BY <1>1, <1>9, TakeFlowControlIs DEF Reads, SameSending, Ends
  <2> QED
    BY <1>4, <1>5, <2>1
<1>10. CASE FlowControlTimeout
  <2>1. UNCHANGED <<call, given, executed>> /\ pc = "awaitFC" /\ pc' \in {"first", "idle"}
    BY <1>10 DEF FlowControlTimeout, Raise, End, ecuVars
  <2> QED
    BY <1>4, <1>5, <2>1
<1>11. CASE Poll
  <2>1. PICK f \in Frames :
              /\ Reads(f) /\ pc = "poll" /\ UNCHANGED <<call, executed>>
              /\ \/ pc' \in {"poll", "assemble"} /\ given' = given
                 \/ pc' = "idle" /\ given' = given
                 \/ f.type = "SF" /\ f.info = "positive" /\ pc' = "idle" /\ given' = f.of
    BY <1>1, <1>11, PollIs DEF Reads, SameSending, Ignores, Ends
  <2>2. CASE f.type = "SF" /\ f.info = "positive" /\ pc' = "idle" /\ given' = f.of
    <3>1. f = rx[1] /\ 1 \in 1..Len(rx) /\ partial = None
      <4>1. f = rx[1] /\ rx # <<>> /\ rx \in Seq(Frames) /\ partial = None
        BY <1>1, <2>1 DEF Reads, Types
      <4> QED
        BY <4>1, EmptySeq, LenProperties
    <3>2. IsReady(f)
      BY <2>2 DEF IsReady
    <3>3. given < f.of /\ IsCarriedOut(f.of)
      BY <1>1, <3>1, <3>2 DEF AnswersRise, Ascending, Floor
    <3>4. f.of \in Nat
      BY DEF Frames
    <3> QED
      BY <1>6, <2>1, <2>2, <3>3, <3>4
  <2> QED
    BY <1>4, <1>5, <2>1, <2>2
<1>12. CASE Assemble
  <2>1. /\ pc = "assemble" /\ partial # None /\ UNCHANGED <<call, executed>>
        /\ \/ pc' \in {"poll", "assemble"} /\ given' = given
           \/ pc' = "idle" /\ given' = given
           \/ pc' = "idle" /\ given' = partial.of
    BY <1>1, <1>12, AssembleIs DEF Reads, SameSending, Ignores, Ends
  <2>2. CASE pc' = "idle" /\ given' = partial.of
    <3>1. given < partial.of /\ IsCarriedOut(partial.of)
      BY <1>1, <2>1 DEF AnswersRise
    <3>2. partial.of \in Nat
      BY <1>1, OrderNumbers
    <3> QED
      BY <1>6, <2>1, <2>2, <3>1, <3>2
  <2> QED
    BY <1>4, <1>5, <2>1, <2>2
<1>13. CASE ResponseTimeout \/ NoticeCancel
  <2>1. unexpected \in {"none", "TRANSPORT", "UDS"}
    BY <1>1 DEF Types
  <2>2. pc # "idle" /\ pc' = "idle" /\ UNCHANGED <<call, given, executed>>
    BY <1>13, <2>1 DEF ResponseTimeout, DeadlineRuns, NoticeCancel, Raise, End, ecuVars
  <2> QED
    BY <1>5, <2>2
<1>14. CASE EcuReceives
  <2>1. UNCHANGED <<pc, call, given, leftover, faults>>
    BY <1>14 DEF EcuReceives, hostVars
  <2>2. CASE UNCHANGED <<todo, executed>>
    BY <1>4, <2>1, <2>2
  <2>3. CASE \E a \in Payloads : Last < a.of /\ a.of <= call /\ todo = None /\ CarriesOut(a)
    <3>1. /\ \E c \in (Last + 1)..call : Carried' = Append(Carried, c)
          /\ \/ Intact' <=> Intact
             \/ Intact' <=> (Intact /\ ~Noise)
      BY <1>1, <2>1, <2>3, CarriedOutStep
    <3>2. Channel!LastCarried = Last
      BY <1>1, CarriedFacts DEF Channel!LastCarried, Carried
    <3>3. Intact' \in {Intact, Intact /\ ~Noise}
      <4>1. Intact \in BOOLEAN /\ Intact' \in BOOLEAN /\ (Intact /\ ~Noise) \in BOOLEAN
        BY DEF Intact
      <4> QED
        BY <3>1, <4>1
    <3>4. Channel!CarryOut
      BY <2>1, <3>1, <3>2, <3>3 DEF Channel!CarryOut, Carried, Intact, Noise
    <3> QED
      BY <1>2, <3>4 DEF Channel!Next, Noise
  <2> QED
    BY <1>1, <1>14, <2>2, <2>3, ReceiveRises
<1>15. CASE Cancel \/ Lose
  <2>1. UNCHANGED <<pc, call, given, executed>>
    BY <1>15 DEF Cancel, Lose, Fault, hostVars, ecuVars
  <2> QED
    BY <1>4, <2>1
<1>16. CASE \/ EcuStalls \/ EcuOverflows \/ EcuPending \/ EcuRefuses \/ EcuContinues
            \/ (\E bs \in BlockSizes : EcuGrants(bs)) \/ (\E n \in Cfs : EcuAnswers(n))
  <2>1. UNCHANGED <<pc, call, given, executed>>
    BY <1>1, <1>16, EcuSendsIs DEF EcuSends
  <2> QED
    BY <1>4, <2>1
<1> QED
  BY <1>7, <1>8, <1>9, <1>10, <1>11, <1>12, <1>13, <1>14, <1>15, <1>16 DEF Next, Host, Environment

\* Requests over CAN are carried out in the order they were asked, each at most
\* once though its first frame may be sent again, and as they were asked unless a
\* frame was lost while a flow control of an earlier first frame could come; an
\* answer is returned at most once, and in order.
THEOREM ChannelKept == Spec => KeepsChannel
<1>1. Init => Channel!Init
  <2>1. \A i : i \notin DOMAIN <<>>
    BY EmptySeq
  <2> QED
    BY <2>1 DEF Init, Channel!Init
<1>2. ChannelInv /\ [Next]_vars => ChannelInv'
  BY ChannelStep
<1>3. ChannelInv /\ ChannelInv' /\ [Next]_vars => [Channel!Next]_(Channel!channelVars)
  <2> SUFFICES ASSUME ChannelInv, ChannelInv', [Next]_vars
               PROVE  [Channel!Next]_(Channel!channelVars)
    OBVIOUS
  <2>1. CASE Next
    BY <2>1, ChannelNext
  <2>2. CASE UNCHANGED vars
    BY <2>2 DEF vars, hostVars, ecuVars, Channel!channelVars
  <2> QED
    BY <2>1, <2>2
<1> QED
  BY <1>1, <1>2, <1>3, ChannelInit, PTL DEF Spec, KeepsChannel, Channel!Spec
===============================================================================
