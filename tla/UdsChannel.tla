------------------------------ MODULE UdsChannel ------------------------------
(***************************************************************************)
(* What a diagnostic transport promises whoever calls request(), without   *)
(* frames: requests are carried out in the order they were asked, each at  *)
(* most once and whole, and each answer is returned at most once, to the   *)
(* call that asked for it or to a later one.  A request may be carried out *)
(* after its call has failed.                                              *)
(***************************************************************************)
EXTENDS Naturals, Sequences

VARIABLES
    asked,     \* number of calls made
    open,      \* the last of them has not ended
    carried,   \* the calls whose requests the ECU carried out, in order
    intact,    \* each of them was the request as it was asked
    noise,     \* the bus was so bad that this cannot be promised
    returned   \* the call whose answer was returned last

channelVars == <<asked, open, carried, intact, noise, returned>>

Init ==
    /\ asked = 0 /\ open = FALSE /\ carried = <<>>
    /\ intact = TRUE /\ noise = FALSE /\ returned = 0

LastCarried == IF carried = <<>> THEN 0 ELSE carried[Len(carried)]

Ask ==
    /\ ~open /\ open' = TRUE
    /\ asked' = asked + 1
    /\ UNCHANGED <<carried, intact, returned>>

CarryOut ==
    /\ \E c \in (LastCarried + 1)..asked : carried' = Append(carried, c)
    /\ intact' \in {intact, intact /\ ~noise}
    /\ UNCHANGED <<asked, open, returned>>

Return ==
    /\ open /\ open' = FALSE
    /\ \E i \in DOMAIN carried : carried[i] > returned /\ returned' = carried[i]
    /\ UNCHANGED <<asked, carried, intact>>

Fail ==
    /\ open /\ open' = FALSE
    /\ UNCHANGED <<asked, carried, intact, returned>>

\* The bus may get bad at any time, and is not trusted again.
Next ==
    /\ Ask \/ CarryOut \/ Return \/ Fail \/ UNCHANGED <<asked, open, carried, intact, returned>>
    /\ noise' \in {noise, TRUE}

Spec == Init /\ [][Next]_channelVars
===============================================================================
