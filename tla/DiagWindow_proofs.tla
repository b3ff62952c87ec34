--------------------------- MODULE DiagWindow_proofs ---------------------------
(***************************************************************************)
(* What TLAPS proves of DiagWindow for any number of workers, sessions and *)
(* attempts to close the window: the types, that a session's channel is    *)
(* used by its owner alone, that no worker uses a closed session, that the *)
(* window never goes while a worker lives, and that its buttons tell the   *)
(* operator the truth: an idle window is usable.                           *)
(***************************************************************************)
EXTENDS DiagWindow, TLAPS

\* A worker that has not ended its thread.
Alive(w) == job[w].at \notin {"none", "over"}

\* Whatever may close the session or the window waits for the threads: a worker
\* is on the list as long as it lives, and the backend can only be changed, and
\* the window only be gone, when nothing is on the list.
GuiOK ==
    /\ "backend" \in enabled => threads = {}
    /\ \A w \in Slots : Alive(w) => w \in threads
    /\ window = "gone" => threads = {}

\* BusSession: OwnerIsAtWork, worker by worker.
BusOK ==
    /\ \A w \in Slots : Uses(w) => owner[job[w].on] = job[w].kind
    /\ \A v, w \in Slots : Uses(v) /\ Uses(w) /\ job[v].on = job[w].on => v = w
    /\ \A s \in Sessions : owner[s] # "none" /\ s \notin stuck =>
          \E w \in Slots : Uses(w) /\ job[w].on = s

\* Neither the current session nor one that a worker was given is closed.
SessionOK ==
    /\ current \notin closed
    /\ \A w \in Slots : job[w].kind \in Diagnostics /\ Alive(w) =>
          job[w].on # 0 /\ job[w].on \notin closed

\* Each connection and each end of a thread is posted once; until it is handled
\* the session is unknown to the window and the slot is not free.
QueueOK ==
    /\ \A i \in DOMAIN queue : queue[i][1] = "connected" =>
          queue[i][2] \notin closed \cup {current}
    /\ \A i \in DOMAIN queue : queue[i][1] = "over" => job[queue[i][2]].at = "over"
    /\ \A i, j \in DOMAIN queue :
          queue[i] = queue[j] /\ queue[i][1] \in {"connected", "over"} => i = j

IInv == TypeOK /\ GuiOK /\ BusOK /\ SessionOK /\ QueueOK

-------------------------------------------------------------------------------
(* How the parts of the state change.                                      *)

\* A worker that moves on keeps what it does and where.
LEMMA JobStep ==
    ASSUME TypeOK, NEW w \in Slots, NEW at \in Phases,
           job' = [job EXCEPT ![w].at = at]
    PROVE  /\ job' \in [Slots -> Job]
           /\ \A v \in Slots \ {w} : job'[v] = job[v]
           /\ job'[w].kind = job[w].kind /\ job'[w].on = job[w].on /\ job'[w].at = at
BY DEF TypeOK, Job

\* What is posted is the last event of the queue.
LEMMA PostOne ==
    ASSUME NEW E, NEW q \in Seq(E), NEW e \in E
    PROVE  /\ q \o <<e>> \in Seq(E) /\ Len(q \o <<e>>) = Len(q) + 1
           /\ \A i \in 1..Len(q) : (q \o <<e>>)[i] = q[i]
           /\ (q \o <<e>>)[Len(q) + 1] = e
OBVIOUS

\* The same for Append.
LEMMA AppendOne ==
    ASSUME NEW E, NEW q \in Seq(E), NEW e \in E
    PROVE  /\ Append(q, e) \in Seq(E) /\ Len(Append(q, e)) = Len(q) + 1
           /\ \A i \in 1..Len(q) : Append(q, e)[i] = q[i]
           /\ Append(q, e)[Len(q) + 1] = e
OBVIOUS

\* The same for two events.
LEMMA PostTwo ==
    ASSUME NEW E, NEW q \in Seq(E), NEW d \in E, NEW e \in E
    PROVE  LET r == (q \o <<d>>) \o <<e>>
           IN /\ r \in Seq(E) /\ Len(r) = Len(q) + 2
              /\ \A i \in 1..Len(q) : r[i] = q[i]
              /\ r[Len(q) + 1] = d /\ r[Len(q) + 2] = e
<1> DEFINE m == q \o <<d>>
<1>1. /\ m \in Seq(E) /\ Len(m) = Len(q) + 1
      /\ \A i \in 1..Len(q) : m[i] = q[i]
      /\ m[Len(q) + 1] = d
  BY PostOne
<1> HIDE DEF m
<1>2. /\ m \o <<e>> \in Seq(E) /\ Len(m \o <<e>>) = Len(m) + 1
      /\ \A i \in 1..Len(m) : (m \o <<e>>)[i] = m[i]
      /\ (m \o <<e>>)[Len(m) + 1] = e
  BY <1>1, PostOne
<1>3. Len(q) \in Nat
  OBVIOUS
<1>4. m \o <<e>> \in Seq(E) /\ Len(m \o <<e>>) = Len(q) + 2
  BY <1>1, <1>2, <1>3
<1>5. \A i \in 1..Len(q) : (m \o <<e>>)[i] = q[i]
  BY <1>1, <1>2, <1>3
<1>6. (m \o <<e>>)[Len(q) + 1] = d /\ (m \o <<e>>)[Len(q) + 2] = e
  BY <1>1, <1>2, <1>3
<1> QED
  BY <1>4, <1>5, <1>6 DEF m

\* What a worker posts at its end is behind what was there, is well typed, and
\* holds a connection at most once and no end of a thread.
LEMMA EndsQueue ==
    ASSUME TypeOK, NEW w \in Slots, NEW posted, Ends(w, posted),
           job[w].kind \in Kinds, opened' \in {opened, opened + 1},
           \/ posted \in {<<>>, <<<<"listed", w>>>>}
           \/ opened' = opened + 1 /\ posted = <<<<"connected", opened + 1>>>>
    PROVE  /\ queue' \in Seq(Events(1..opened'))
           /\ Len(queue) <= Len(queue')
           /\ \A i \in 1..Len(queue) : queue'[i] = queue[i]
           /\ \A i \in 1..Len(queue') : i > Len(queue) =>
                 \/ queue'[i][1] \in {"listed", "quit"}
                 \/ queue'[i] = <<"buttons", job[w].kind>>
                 \/ /\ i = Len(queue) + 1 /\ queue'[i] = <<"connected", opened'>>
                    /\ opened' = opened + 1
           /\ \/ enabled' = enabled \cup ButtonsOf(job[w].kind)
              \/ /\ enabled' = enabled
                 /\ \E i \in 1..Len(queue') : queue'[i] = <<"buttons", job[w].kind>>
<1> DEFINE E == Events(1..opened')
<1>1. queue \in Seq(E)
  <2>1. Events(1..opened) \subseteq E
    BY DEF Events, TypeOK
  <2> QED
    BY <2>1 DEF TypeOK
<1>2. <<"listed", w>> \in E /\ <<"buttons", job[w].kind>> \in E /\ <<"quit", w>> \in E
  BY DEF Events
<1>3. opened' = opened + 1 => <<"connected", opened + 1>> \in E
  BY DEF Events, TypeOK
<1> HIDE DEF E
<1>4. \/ /\ queue' = (queue \o posted) \o <<<<"quit", w>>>>
         /\ enabled' = enabled \cup ButtonsOf(job[w].kind)
      \/ /\ queue' = ((queue \o posted) \o <<<<"buttons", job[w].kind>>>>) \o <<<<"quit", w>>>>
         /\ enabled' = enabled
  BY Zenon DEF Ends, QuitPosted
<1> DEFINE mid == queue \o posted
<1>5. /\ mid \in Seq(E)
      /\ Len(queue) <= Len(mid)
      /\ \A i \in 1..Len(queue) : mid[i] = queue[i]
      /\ \A i \in 1..Len(mid) : i > Len(queue) =>
            \/ mid[i][1] = "listed"
            \/ i = Len(queue) + 1 /\ mid[i] = <<"connected", opened'>> /\ opened' = opened + 1
  <2>1. CASE posted = <<>>
    BY <2>1, <1>1
  <2>2. CASE posted = <<<<"listed", w>>>>
    <3>1. /\ mid \in Seq(E) /\ Len(mid) = Len(queue) + 1
          /\ \A i \in 1..Len(queue) : mid[i] = queue[i]
          /\ mid[Len(queue) + 1] = <<"listed", w>>
      BY <2>2, <1>1, <1>2, PostOne
    <3> QED
      BY <3>1, <1>1
  <2>3. CASE opened' = opened + 1 /\ posted = <<<<"connected", opened + 1>>>>
    <3>1. /\ mid \in Seq(E) /\ Len(mid) = Len(queue) + 1
          /\ \A i \in 1..Len(queue) : mid[i] = queue[i]
          /\ mid[Len(queue) + 1] = <<"connected", opened + 1>>
      BY <2>3, <1>1, <1>3, PostOne
    <3> QED
      BY <3>1, <2>3, <1>1
  <2> QED
    BY <2>1, <2>2, <2>3
<1>6. \/ queue' = mid \o <<<<"quit", w>>>> /\ enabled' = enabled \cup ButtonsOf(job[w].kind)
      \/ /\ queue' = (mid \o <<<<"buttons", job[w].kind>>>>) \o <<<<"quit", w>>>>
         /\ enabled' = enabled
  BY <1>4
<1> HIDE DEF mid
<1>7. queue \in Seq(E) /\ Len(queue) \in Nat /\ Len(mid) \in Nat
  BY <1>1, <1>5
<1>8. CASE queue' = mid \o <<<<"quit", w>>>> /\ enabled' = enabled \cup ButtonsOf(job[w].kind)
  <2>1. /\ queue' \in Seq(E) /\ Len(queue') = Len(mid) + 1
        /\ \A i \in 1..Len(mid) : queue'[i] = mid[i]
        /\ queue'[Len(mid) + 1] = <<"quit", w>>
    BY <1>2, <1>5, <1>8, PostOne
  <2>2. \A i \in 1..Len(queue') : i \in 1..Len(mid) \/ i = Len(mid) + 1
    BY <2>1, <1>7
  <2>3. queue'[Len(mid) + 1][1] = "quit"
    BY <2>1
  <2>4. Len(queue) <= Len(queue') /\ \A i \in 1..Len(queue) : queue'[i] = queue[i]
    BY <2>1, <1>5, <1>7
  <2>5. ASSUME NEW i \in 1..Len(queue'), i > Len(queue)
        PROVE  \/ queue'[i][1] \in {"listed", "quit"}
               \/ queue'[i] = <<"buttons", job[w].kind>>
               \/ /\ i = Len(queue) + 1 /\ queue'[i] = <<"connected", opened'>>
                  /\ opened' = opened + 1
    BY <2>1, <2>2, <2>3, <2>5, <1>5
  <2> QED
    BY <1>8, <2>1, <2>4, <2>5 DEF E
<1>9. CASE /\ queue' = (mid \o <<<<"buttons", job[w].kind>>>>) \o <<<<"quit", w>>>>
           /\ enabled' = enabled
  <2>1. /\ queue' \in Seq(E) /\ Len(queue') = Len(mid) + 2
        /\ \A i \in 1..Len(mid) : queue'[i] = mid[i]
        /\ queue'[Len(mid) + 1] = <<"buttons", job[w].kind>>
        /\ queue'[Len(mid) + 2] = <<"quit", w>>
    BY <1>2, <1>5, <1>9, PostTwo
  <2>2. \A i \in 1..Len(queue') : i \in 1..Len(mid) \/ i = Len(mid) + 1 \/ i = Len(mid) + 2
    BY <2>1, <1>7
  <2>3. queue'[Len(mid) + 2][1] = "quit" /\ Len(mid) + 1 \in 1..Len(queue')
    BY <2>1, <1>7
  <2>4. Len(queue) <= Len(queue') /\ \A i \in 1..Len(queue) : queue'[i] = queue[i]
    BY <2>1, <1>5, <1>7
  <2>5. ASSUME NEW i \in 1..Len(queue'), i > Len(queue)
        PROVE  \/ queue'[i][1] \in {"listed", "quit"}
               \/ queue'[i] = <<"buttons", job[w].kind>>
               \/ /\ i = Len(queue) + 1 /\ queue'[i] = <<"connected", opened'>>
                  /\ opened' = opened + 1
    BY <2>1, <2>2, <2>3, <2>5, <1>5
  <2> QED
    BY <1>9, <2>1, <2>3, <2>4, <2>5 DEF E
<1> QED
  BY <1>6, <1>8, <1>9

-------------------------------------------------------------------------------
(* What a worker's end and its other steps keep.                           *)

\* A worker whose run has not returned.
Working(w) == job[w].kind \in Kinds /\ job[w].at \in {"start", "log", "loaded", "work"}

\* The three ways in which a worker leaves its session: it did not use it, it
\* releases it, or its log failed.
Leaves(w) ==
    \/ ~Uses(w) /\ owner' = owner /\ stuck' = stuck
    \/ Uses(w) /\ owner' = Released(w) /\ stuck' = stuck
    \/ Uses(w) /\ owner' = owner /\ stuck' = stuck \cup {job[w].on}

\* A worker that ends keeps the invariant, whatever it posts and whether its
\* buttons are given back at once or by an event.
LEMMA EndsKeeps ==
    ASSUME IInv, NEW w \in Slots, Working(w), NEW posted, Ends(w, posted),
           \/ opened' = opened /\ posted \in {<<>>, <<<<"listed", w>>>>}
           \/ /\ opened < MaxSessions /\ opened' = opened + 1
              /\ posted = <<<<"connected", opened + 1>>>>,
           closed' = closed, Leaves(w)
    PROVE  IInv'
<1> USE DiagAssumption
<1>1. /\ job' \in [Slots -> Job]
      /\ \A v \in Slots \ {w} : job'[v] = job[v]
      /\ job'[w].kind = job[w].kind /\ job'[w].on = job[w].on /\ job'[w].at = "ended"
  <2>1. job' = [job EXCEPT ![w].at = "ended"] /\ "ended" \in Phases
    BY DEF Ends, Phases
  <2> QED
    BY <2>1, JobStep DEF IInv
<1>2. /\ ~Uses(w)' /\ \A v \in Slots \ {w} : Uses(v)' = Uses(v)
      /\ \A v \in Slots : Alive(v)' = Alive(v) /\ job'[v].on = job[v].on
      /\ \A v \in Slots : job'[v].kind = job[v].kind
  BY <1>1 DEF Uses, Alive, Working
<1>3. /\ queue' \in Seq(Events(1..opened'))
      /\ Len(queue) <= Len(queue')
      /\ \A i \in 1..Len(queue) : queue'[i] = queue[i]
      /\ \A i \in 1..Len(queue') : i > Len(queue) =>
            \/ queue'[i][1] \in {"listed", "buttons", "quit"}
            \/ /\ i = Len(queue) + 1 /\ queue'[i] = <<"connected", opened'>>
               /\ opened' = opened + 1
  <2>1. job[w].kind \in Kinds /\ opened' \in {opened, opened + 1} /\ TypeOK
    BY DEF Working, IInv
  <2>2. \/ posted \in {<<>>, <<<<"listed", w>>>>}
        \/ opened' = opened + 1 /\ posted = <<<<"connected", opened + 1>>>>
    OBVIOUS
  <2> QED
    BY <2>1, <2>2, EndsQueue
<1>4. opened \in Nat /\ opened' \in 0..MaxSessions /\ opened <= opened'
  BY DEF IInv, TypeOK
<1>5. TypeOK'
  <2>1. enabled' \subseteq Buttons
    BY DEF Ends, ButtonsOf, Working, Kinds, Buttons, Diagnostics, IInv, TypeOK
  <2>2. /\ window' \in {"open", "closing", "gone"} /\ listed' \in BOOLEAN
        /\ tokens' \subseteq Slots /\ quits' \subseteq Slots /\ threads' \subseteq Slots
    BY DEF Ends, IInv, TypeOK
  <2>3. current' \in 0..opened' /\ closed' \subseteq 1..opened'
    BY <1>4 DEF Ends, IInv, TypeOK
  <2>4. \A v \in Slots : job'[v].on \in 0..opened'
    BY <1>2, <1>4 DEF IInv, TypeOK
  <2>5. job[w].on \in Sessions \/ ~Uses(w)
    BY <1>4 DEF IInv, TypeOK, SessionOK, Uses, Alive, Sessions
  <2>6. owner' \in [Sessions -> {"none"} \cup Diagnostics] /\ stuck' \subseteq Sessions
    BY <2>5 DEF Leaves, Released, IInv, TypeOK
  <2> QED
    BY <1>1, <1>3, <1>4, <2>1, <2>2, <2>3, <2>4, <2>6 DEF TypeOK
<1>6. GuiOK'
  <2>1. "backend" \in enabled' => "backend" \in enabled
    BY DEF Ends, ButtonsOf, Working, Kinds, Diagnostics
  <2> QED
    BY <2>1, <1>2 DEF Ends, IInv, GuiOK
<1>7. BusOK'
  <2>1. ASSUME NEW v \in Slots, Uses(v)'
        PROVE  owner'[job'[v].on] = job'[v].kind
    <3>1. v # w /\ Uses(v) /\ job'[v].on = job[v].on /\ job'[v].kind = job[v].kind
      BY <2>1, <1>2
    <3>2. owner[job[v].on] = job[v].kind /\ (Uses(w) => job[v].on # job[w].on)
      BY <3>1 DEF IInv, BusOK
    <3>3. job[v].on \in Sessions
      BY <3>1, <1>4 DEF IInv, TypeOK, SessionOK, Uses, Alive, Sessions
    <3>4. owner'[job[v].on] = owner[job[v].on]
      BY <3>2, <3>3 DEF Leaves, Released, IInv, TypeOK
    <3> QED
      BY <3>1, <3>2, <3>4
  <2>2. ASSUME NEW u \in Slots, NEW v \in Slots, Uses(u)', Uses(v)', job'[u].on = job'[v].on
        PROVE  u = v
    BY <2>2, <1>2 DEF IInv, BusOK
  <2>3. ASSUME NEW s \in Sessions, owner'[s] # "none", s \notin stuck'
        PROVE  \E v \in Slots : Uses(v)' /\ job'[v].on = s
    <3>1. owner[s] # "none" /\ s \notin stuck /\ (Uses(w) => s # job[w].on)
      BY <2>3 DEF Leaves, Released, IInv, TypeOK
    <3>2. PICK v \in Slots : Uses(v) /\ job[v].on = s
      BY <3>1 DEF IInv, BusOK
    <3> QED
      BY <3>1, <3>2, <1>2
  <2> QED
    BY <2>1, <2>2, <2>3 DEF BusOK
<1>8. SessionOK'
  BY <1>2 DEF Ends, IInv, SessionOK
<1>9. QueueOK'
  <2>1. DOMAIN queue = 1..Len(queue) /\ DOMAIN queue' = 1..Len(queue') /\ Len(queue) \in Nat
    BY <1>3 DEF IInv, TypeOK
  <2>2. ASSUME NEW i \in DOMAIN queue', queue'[i][1] = "over"
        PROVE  i \in DOMAIN queue /\ queue'[i] = queue[i] /\ job'[queue'[i][2]].at = "over"
    <3>1. i \in DOMAIN queue /\ queue'[i] = queue[i]
      BY <2>1, <2>2, <1>3
    <3>2. job[queue[i][2]].at = "over" /\ queue[i][2] \in Slots
      BY <3>1, <2>2 DEF IInv, TypeOK, QueueOK, Events
    <3> QED
      BY <3>1, <3>2, <1>1 DEF Working
  <2>3. ASSUME NEW i \in DOMAIN queue', queue'[i][1] = "connected"
        PROVE  \/ i \in DOMAIN queue /\ queue'[i] = queue[i] /\ queue'[i][2] <= opened
               \/ i = Len(queue) + 1 /\ queue'[i][2] = opened + 1
    <3>1. CASE i \in DOMAIN queue
      <4>1. queue'[i] = queue[i] /\ queue[i] \in Events(1..opened)
        BY <3>1, <2>1, <1>3 DEF IInv, TypeOK
      <4> QED
        BY <4>1, <2>3, <3>1, <1>4 DEF Events
    <3>2. CASE i \notin DOMAIN queue
      BY <3>2, <2>1, <2>3, <1>3
    <3> QED
      BY <3>1, <3>2
  <2>4. ASSUME NEW i \in DOMAIN queue', queue'[i][1] = "connected"
        PROVE  queue'[i][2] \notin closed' \cup {current'}
    <3>1. closed' = closed /\ current' = current /\ closed \subseteq 1..opened /\ current \in 0..opened
      BY DEF Ends, IInv, TypeOK
    <3>2. CASE i \in DOMAIN queue /\ queue'[i] = queue[i]
      BY <2>4, <3>1, <3>2 DEF IInv, QueueOK
    <3>3. CASE queue'[i][2] = opened + 1
      BY <3>1, <3>3, <1>4
    <3> QED
      BY <2>4, <2>3, <3>2, <3>3
  <2>5. ASSUME NEW i \in DOMAIN queue', NEW j \in DOMAIN queue', queue'[i] = queue'[j],
               queue'[i][1] \in {"connected", "over"}
        PROVE  i = j
    BY <2>5, <2>2, <2>3, <1>4 DEF IInv, QueueOK
  <2> QED
    BY <2>4, <2>2, <2>5 DEF QueueOK
<1> QED
  BY <1>5, <1>6, <1>7, <1>8, <1>9 DEF IInv

\* A worker that moves on within its run keeps the invariant: outside its
\* session's channel, or entering it when nobody owns it.
LEMMA MovesKeeps ==
    ASSUME IInv, NEW w \in Slots, NEW at \in {"log", "loaded", "work"},
           Working(w), Moves(w, at), opened' = opened, closed' = closed, stuck' = stuck,
           \/ Uses(w)' = Uses(w) /\ owner' = owner
           \/ /\ ~Uses(w) /\ Uses(w)' /\ MayEnter(job[w].on)
              /\ owner' = [owner EXCEPT ![job[w].on] = job[w].kind]
    PROVE  IInv'
<1>1. /\ job' \in [Slots -> Job]
      /\ \A v \in Slots \ {w} : job'[v] = job[v]
      /\ job'[w].kind = job[w].kind /\ job'[w].on = job[w].on /\ job'[w].at = at
  <2>1. job' = [job EXCEPT ![w].at = at] /\ at \in Phases
    BY DEF Moves, Phases
  <2> QED
    BY <2>1, JobStep DEF IInv
<1>2. /\ \A v \in Slots \ {w} : Uses(v)' = Uses(v)
      /\ \A v \in Slots : Alive(v)' = Alive(v) /\ job'[v].on = job[v].on
      /\ \A v \in Slots : job'[v].kind = job[v].kind
  BY <1>1 DEF Uses, Alive, Working
<1>3. \A v \in Slots : Uses(v) \/ Uses(v)' => job[v].on \in Sessions /\ job[v].kind \in Diagnostics
  <2>1. \A v \in Slots : Uses(v) \/ Uses(v)' => job[v].kind \in Diagnostics /\ Alive(v)
    BY <1>2 DEF Uses, Alive
  <2> QED
    BY <2>1, DiagAssumption DEF IInv, TypeOK, SessionOK, Sessions
<1>4. /\ UNCHANGED <<window, enabled, listed, current, threads, queue>>
      /\ UNCHANGED <<tokens, quits>>
  BY DEF Moves, guiVars
<1>5. TypeOK'
  <2>1. owner' \in [Sessions -> {"none"} \cup Diagnostics]
    BY <1>3 DEF IInv, TypeOK
  <2>2. \A v \in Slots : job'[v].on \in 0..opened'
    BY <1>2 DEF IInv, TypeOK
  <2> QED
    BY <1>1, <1>4, <2>1, <2>2 DEF IInv, TypeOK
<1>6. GuiOK'
  BY <1>2, <1>4 DEF IInv, GuiOK
<1>7. BusOK'
  <2>1. CASE Uses(w)' = Uses(w) /\ owner' = owner
    <3>1. \A v \in Slots : Uses(v)' = Uses(v)
      BY <1>2, <2>1
    <3> QED
      BY <3>1, <2>1, <1>2 DEF IInv, BusOK
  <2>2. CASE /\ ~Uses(w) /\ Uses(w)' /\ MayEnter(job[w].on)
             /\ owner' = [owner EXCEPT ![job[w].on] = job[w].kind]
    <3>1. job[w].on \in Sessions /\ job[w].kind # "none"
      BY <2>2, <1>3 DEF Diagnostics
    <3>2. \A s \in Sessions : owner'[s] = IF s = job[w].on THEN job[w].kind ELSE owner[s]
      BY <2>2, <3>1 DEF IInv, TypeOK
    <3>3. \A v \in Slots : Uses(v) => job[v].on # job[w].on
      BY <2>2, <1>3 DEF IInv, BusOK, MayEnter, Diagnostics
    <3>4. ASSUME NEW v \in Slots, Uses(v)'
          PROVE  owner'[job'[v].on] = job'[v].kind
      BY <3>1, <3>2, <3>3, <3>4, <1>2, <1>3 DEF IInv, BusOK
    <3>5. ASSUME NEW u \in Slots, NEW v \in Slots, Uses(u)', Uses(v)', job'[u].on = job'[v].on
          PROVE  u = v
      BY <3>3, <3>5, <1>2 DEF IInv, BusOK
    <3>6. ASSUME NEW s \in Sessions, owner'[s] # "none", s \notin stuck'
          PROVE  \E v \in Slots : Uses(v)' /\ job'[v].on = s
      <4>1. CASE s = job[w].on
        BY <4>1, <2>2, <1>2
      <4>2. CASE s # job[w].on
        <5>1. PICK v \in Slots : Uses(v) /\ job[v].on = s
          BY <4>2, <3>2, <3>6 DEF IInv, BusOK
        <5> QED
          BY <5>1, <2>2, <1>2
      <4> QED
        BY <4>1, <4>2
    <3> QED
      BY <3>4, <3>5, <3>6 DEF BusOK
  <2> QED
    BY <2>1, <2>2
<1>8. SessionOK'
  BY <1>2, <1>4 DEF IInv, SessionOK
<1>9. QueueOK'
  <2>1. ASSUME NEW i \in DOMAIN queue', queue'[i][1] = "over"
        PROVE  job'[queue'[i][2]].at = "over"
    <3>1. job[queue[i][2]].at = "over" /\ queue[i] \in Events(1..opened)
      BY <2>1, <1>4 DEF IInv, TypeOK, QueueOK
    <3>2. queue[i][2] \in Slots
      BY <3>1, <2>1, <1>4 DEF Events
    <3> QED
      BY <3>1, <3>2, <1>1, <1>4 DEF Working
  <2> QED
    BY <2>1, <1>4 DEF IInv, QueueOK
<1> QED
  BY <1>5, <1>6, <1>7, <1>8, <1>9 DEF IInv

\* Each step of a worker's run ends it or moves it on, and the end of its thread
\* is posted once.
LEMMA ThreadEndsKeeps ==
    ASSUME IInv, NEW w \in Slots, ThreadEnds(w)
    PROVE  IInv'
<1>1. /\ job' \in [Slots -> Job]
      /\ \A v \in Slots \ {w} : job'[v] = job[v]
      /\ job'[w].kind = job[w].kind /\ job'[w].on = job[w].on /\ job'[w].at = "over"
  <2>1. job' = [job EXCEPT ![w].at = "over"] /\ "over" \in Phases
    BY DEF ThreadEnds, Phases
  <2> QED
    BY <2>1, JobStep DEF IInv
<1>2. job[w].at = "ended"
  BY DEF ThreadEnds
<1>3. /\ \A v \in Slots : Uses(v)' = Uses(v)
      /\ \A v \in Slots : Alive(v)' => Alive(v)
      /\ \A v \in Slots : job'[v].kind = job[v].kind /\ job'[v].on = job[v].on
  BY <1>1, <1>2 DEF Uses, Alive
<1>4. /\ UNCHANGED <<window, enabled, listed, current, threads, tokens, quits>>
      /\ UNCHANGED <<opened, closed, owner, stuck>>
  BY DEF ThreadEnds, busVars
<1>5. /\ queue' \in Seq(Events(1..opened)) /\ Len(queue') = Len(queue) + 1
      /\ \A i \in 1..Len(queue) : queue'[i] = queue[i]
      /\ queue'[Len(queue) + 1] = <<"over", w>>
  <2>1. <<"over", w>> \in Events(1..opened)
    BY DEF Events
  <2>2. queue \in Seq(Events(1..opened)) /\ queue' = Append(queue, <<"over", w>>)
    BY DEF ThreadEnds, IInv, TypeOK
  <2> QED
    BY <2>1, <2>2, AppendOne
<1>6. /\ DOMAIN queue = 1..Len(queue) /\ DOMAIN queue' = 1..Len(queue')
      /\ Len(queue) \in Nat
  BY <1>5 DEF IInv, TypeOK
<1>7. \A i \in DOMAIN queue' : \/ i \in DOMAIN queue /\ queue'[i] = queue[i]
                               \/ i = Len(queue) + 1 /\ queue'[i] = <<"over", w>>
  BY <1>5, <1>6
<1>8. \A i \in DOMAIN queue : queue[i] # <<"over", w>>
  BY <1>2 DEF IInv, QueueOK
<1>9. TypeOK'
  <2>1. \A v \in Slots : job'[v].on \in 0..opened'
    BY <1>3, <1>4 DEF IInv, TypeOK
  <2> QED
    BY <1>1, <1>4, <1>5, <2>1 DEF IInv, TypeOK
<1>10. GuiOK' /\ SessionOK'
  BY <1>3, <1>4 DEF IInv, GuiOK, SessionOK
<1>11. BusOK'
  BY <1>3, <1>4 DEF IInv, BusOK
<1>12. QueueOK'
  <2>1. ASSUME NEW i \in DOMAIN queue', queue'[i][1] = "connected"
        PROVE  queue'[i][2] \notin closed' \cup {current'}
    BY <2>1, <1>4, <1>7 DEF IInv, QueueOK
  <2>2. ASSUME NEW i \in DOMAIN queue', queue'[i][1] = "over"
        PROVE  job'[queue'[i][2]].at = "over"
    <3>1. CASE i \in DOMAIN queue /\ queue'[i] = queue[i]
      <4>1. job[queue[i][2]].at = "over" /\ queue[i] \in Events(1..opened)
        BY <2>2, <3>1 DEF IInv, TypeOK, QueueOK
      <4>2. queue[i][2] \in Slots
        BY <4>1, <2>2, <3>1 DEF Events
      <4> QED
        BY <4>1, <4>2, <3>1, <1>1
    <3>2. CASE queue'[i] = <<"over", w>>
      BY <3>2, <1>1
    <3> QED
      BY <3>1, <3>2, <1>7
  <2>3. ASSUME NEW i \in DOMAIN queue', NEW j \in DOMAIN queue', queue'[i] = queue'[j],
               queue'[i][1] \in {"connected", "over"}
        PROVE  i = j
    BY <2>3, <1>7, <1>8 DEF IInv, QueueOK
  <2> QED
    BY <2>1, <2>2, <2>3 DEF QueueOK
<1> QED
  BY <1>9, <1>10, <1>11, <1>12 DEF IInv

\* Every step of a worker keeps the invariant.
LEMMA WorkKeeps ==
    ASSUME IInv, NEW w \in Slots, Work(w)
    PROVE  IInv'
<1>1. job \in [Slots -> Job]
  BY DEF IInv, TypeOK
<1>2. CASE Scan(w)
  <2>1. Working(w) /\ ~Uses(w)
    BY <1>2 DEF Scan, At, Working, Uses, Kinds, Diagnostics
  <2>2. /\ UNCHANGED <<opened, closed, owner, stuck>>
        /\ \E posted \in {<<>>, <<<<"listed", w>>>>} : Ends(w, posted)
    BY <1>2 DEF Scan, busVars
  <2>3. Leaves(w)
    BY <2>1, <2>2 DEF Leaves
  <2> QED
    BY <2>1, <2>2, <2>3, EndsKeeps
<1>3. CASE Connect(w)
  <2>1. Working(w) /\ ~Uses(w)
    BY <1>3 DEF Connect, At, Working, Uses, Kinds, Diagnostics
  <2>2. UNCHANGED <<closed, owner, stuck>>
    BY <1>3 DEF Connect
  <2>3. Leaves(w)
    BY <2>1, <2>2 DEF Leaves
  <2>4. CASE opened < MaxSessions /\ opened' = opened + 1 /\ Ends(w, <<<<"connected", opened + 1>>>>)
    BY <2>1, <2>2, <2>3, <2>4, EndsKeeps
  <2>5. CASE Ends(w, <<>>) /\ UNCHANGED opened
    BY <2>1, <2>2, <2>3, <2>5, EndsKeeps
  <2> QED
    BY <1>3, <2>4, <2>5 DEF Connect
<1>4. CASE UdsEnters(w)
  <2>1. Working(w) /\ ~Uses(w) /\ job[w].kind = "uds"
    BY <1>4 DEF UdsEnters, At, Working, Uses, Kinds, Diagnostics
  <2>2. UNCHANGED <<opened, closed, stuck>>
    BY <1>4 DEF UdsEnters
  <2>3. CASE Ends(w, <<>>) /\ UNCHANGED owner
    <3>1. Leaves(w)
      BY <2>1, <2>2, <2>3 DEF Leaves
    <3> QED
      BY <2>1, <2>2, <2>3, <3>1, EndsKeeps
  <2>4. CASE /\ MayEnter(job[w].on) /\ owner' = [owner EXCEPT ![job[w].on] = "uds"]
             /\ Moves(w, "log")
    <3>1. Uses(w)'
      BY <2>1, <2>4, <1>1 DEF Moves, Uses, Diagnostics, Job
    <3> QED
      BY <2>1, <2>2, <2>4, <3>1, MovesKeeps
  <2> QED
    BY <1>4, <2>3, <2>4 DEF UdsEnters
<1>5. CASE UdsOpensLog(w)
  <2>1. Working(w) /\ Uses(w)
    BY <1>5 DEF UdsOpensLog, At, Working, Uses, Kinds, Diagnostics
  <2>2. UNCHANGED <<opened, closed, owner>>
    BY <1>5 DEF UdsOpensLog
  <2>3. CASE Moves(w, "work") /\ UNCHANGED stuck
    <3>1. Uses(w)' = Uses(w)
      BY <2>1, <2>3, <1>1 DEF Moves, Uses, Job
    <3> QED
      BY <2>1, <2>2, <2>3, <3>1, MovesKeeps
  <2>4. CASE Ends(w, <<>>) /\ stuck' = stuck \cup {job[w].on}
    <3>1. Leaves(w)
      BY <2>1, <2>2, <2>4 DEF Leaves
    <3> QED
      BY <2>1, <2>2, <2>4, <3>1, EndsKeeps
  <2> QED
    BY <1>5, <2>3, <2>4 DEF UdsOpensLog
<1>6. CASE UdsEnds(w)
  <2>1. Working(w) /\ Uses(w)
    BY <1>6 DEF UdsEnds, At, Working, Uses, Kinds, Diagnostics
  <2>2. UNCHANGED <<opened, closed>> /\ Ends(w, <<>>) /\ Leaves(w)
    BY <1>6, <2>1 DEF UdsEnds, Leaves
  <2> QED
    BY <2>1, <2>2, EndsKeeps
<1>7. CASE FlashLoads(w)
  <2>1. Working(w) /\ ~Uses(w)
    BY <1>7 DEF FlashLoads, At, Working, Uses, Kinds, Diagnostics
  <2>2. UNCHANGED <<opened, closed, owner, stuck>>
    BY <1>7 DEF FlashLoads, busVars
  <2>3. CASE Moves(w, "loaded")
    <3>1. Uses(w)' = Uses(w)
      BY <2>1, <2>3, <1>1 DEF Moves, Uses, Job
    <3> QED
      BY <2>1, <2>2, <2>3, <3>1, MovesKeeps
  <2>4. CASE Ends(w, <<>>)
    <3>1. Leaves(w)
      BY <2>1, <2>2 DEF Leaves
    <3> QED
      BY <2>1, <2>2, <2>4, <3>1, EndsKeeps
  <2> QED
    BY <1>7, <2>3, <2>4 DEF FlashLoads
<1>8. CASE FlashEnters(w)
  <2>1. Working(w) /\ ~Uses(w) /\ job[w].kind = "flash"
    BY <1>8 DEF FlashEnters, At, Working, Uses, Kinds, Diagnostics
  <2>2. UNCHANGED <<opened, closed, stuck>>
    BY <1>8 DEF FlashEnters
  <2>3. CASE Ends(w, <<>>) /\ UNCHANGED owner
    <3>1. Leaves(w)
      BY <2>1, <2>2, <2>3 DEF Leaves
    <3> QED
      BY <2>1, <2>2, <2>3, <3>1, EndsKeeps
  <2>4. CASE /\ MayEnter(job[w].on) /\ owner' = [owner EXCEPT ![job[w].on] = "flash"]
             /\ Moves(w, "work")
    <3>1. Uses(w)'
      BY <2>1, <2>4, <1>1 DEF Moves, Uses, Diagnostics, Job
    <3> QED
      BY <2>1, <2>2, <2>4, <3>1, MovesKeeps
  <2> QED
    BY <1>8, <2>3, <2>4 DEF FlashEnters
<1>9. CASE FlashEnds(w)
  <2>1. Working(w) /\ Uses(w)
    BY <1>9 DEF FlashEnds, At, Working, Uses, Kinds, Diagnostics
  <2>2. UNCHANGED <<opened, closed>> /\ Ends(w, <<>>) /\ Leaves(w)
    BY <1>9, <2>1 DEF FlashEnds, Leaves
  <2> QED
    BY <2>1, <2>2, EndsKeeps
<1>10. CASE ThreadEnds(w)
  BY <1>10, ThreadEndsKeeps
<1> QED
  BY <1>2, <1>3, <1>4, <1>5, <1>6, <1>7, <1>8, <1>9, <1>10 DEF Work

-------------------------------------------------------------------------------
(* What the user's steps and the GUI's keep.                               *)

\* What a part of the invariant says of the workers and the queue stays true when
\* the queue is left alone or its head is taken.
LEMMA TailOK ==
    ASSUME IInv, queue # <<>>, queue' = Tail(queue)
    PROVE  /\ queue' \in Seq(Events(1..opened))
           /\ Head(queue) = queue[1] /\ queue[1] \in Events(1..opened)
           /\ 1 \in DOMAIN queue
           /\ \A i \in DOMAIN queue' :
                 i + 1 \in DOMAIN queue /\ i + 1 # 1 /\ queue'[i] = queue[i + 1]
           /\ \A i, j \in DOMAIN queue' : i + 1 = j + 1 => i = j
BY DEF IInv, TypeOK

\* A new worker is on the list and has a session that is open.
LEMMA StartKeeps ==
    ASSUME IInv, NEW kind \in Kinds, NEW taken \in SUBSET Buttons, StartWorker(kind, taken),
           kind \in Diagnostics => current # 0
    PROVE  IInv'
<1>1. PICK w \in Slots :
        /\ job[w] = NoJob /\ threads' = threads \cup {w}
        /\ job' = [job EXCEPT ![w] = [kind |-> kind,
                                      on |-> IF kind \in Diagnostics THEN current ELSE 0,
                                      at |-> "start"]]
  <2>1. (CHOOSE w \in Free : TRUE) \in Free
    BY DEF StartWorker
  <2> QED
    BY <2>1 DEF StartWorker, Free
<1>2. /\ window = "open" /\ enabled' = enabled \ (Operations \cup taken)
      /\ UNCHANGED <<window, listed, current, queue, tokens, quits>>
      /\ UNCHANGED <<opened, closed, owner, stuck>>
  BY DEF StartWorker, busVars
<1>3. /\ \A v \in Slots \ {w} : job'[v] = job[v]
      /\ job'[w].kind = kind /\ job'[w].at = "start"
      /\ job'[w].on = IF kind \in Diagnostics THEN current ELSE 0
      /\ job[w].at = "none"
  BY <1>1 DEF IInv, TypeOK, NoJob
<1>4. \A v \in Slots : Uses(v)' = Uses(v) /\ (Uses(v) => job'[v] = job[v])
  BY <1>3 DEF Uses
<1>5. TypeOK'
  <2>1. current \in Nat /\ current \in 0..opened
    BY DEF IInv, TypeOK
  <2>2. job' \in [Slots -> Job]
    BY <1>1, <2>1 DEF IInv, TypeOK, Job, Phases
  <2>3. \A v \in Slots : job'[v].on \in 0..opened
    BY <1>3, <2>1 DEF IInv, TypeOK
  <2> QED
    BY <1>1, <1>2, <2>2, <2>3 DEF IInv, TypeOK
<1>6. GuiOK'
  BY <1>1, <1>2, <1>3 DEF IInv, GuiOK, Alive, Operations
<1>7. BusOK'
  BY <1>2, <1>4 DEF IInv, BusOK
<1>8. SessionOK'
  BY <1>2, <1>3 DEF IInv, SessionOK, Alive
<1>9. QueueOK'
  <2>1. ASSUME NEW i \in DOMAIN queue, queue[i][1] = "over"
        PROVE  job'[queue[i][2]].at = "over"
    <3>1. job[queue[i][2]].at = "over" /\ queue[i] \in Events(1..opened)
      BY <2>1 DEF IInv, TypeOK, QueueOK
    <3>2. queue[i][2] \in Slots
      BY <3>1, <2>1 DEF Events
    <3> QED
      BY <3>1, <3>2, <1>3
  <2> QED
    BY <2>1, <1>2 DEF IInv, QueueOK
<1> QED
  BY <1>5, <1>6, <1>7, <1>8, <1>9 DEF IInv

\* The backend can only be changed when no worker lives, so that no worker has
\* the session that is closed.
LEMMA BackendKeeps ==
    ASSUME IInv, BackendChanged
    PROVE  IInv'
<1>1. /\ closed' = closed \cup ({current} \ {0}) /\ current' = 0 /\ listed' = FALSE
      /\ enabled' = enabled \ Diagnostics /\ "backend" \in enabled
      /\ UNCHANGED <<window, threads, queue, opened, owner, stuck>>
      /\ UNCHANGED <<job, tokens, quits>>
  BY DEF BackendChanged, ClosedNow, workVars
<1>2. threads = {} /\ \A w \in Slots : ~Alive(w)
  BY <1>1 DEF IInv, GuiOK
<1>3. \A w \in Slots : Uses(w)' = Uses(w) /\ Alive(w)' = Alive(w)
  BY <1>1 DEF Uses, Alive
<1>4. TypeOK'
  <2>1. current \in 0..opened /\ closed \subseteq 1..opened /\ opened \in Nat
    BY DEF IInv, TypeOK
  <2>2. closed' \subseteq 1..opened /\ current' \in 0..opened
    BY <1>1, <2>1
  <2> QED
    BY <1>1, <2>2 DEF IInv, TypeOK
<1>5. GuiOK' /\ SessionOK'
  <2>1. current' \notin closed'
    BY <1>1 DEF IInv, TypeOK
  <2> QED
    BY <2>1, <1>1, <1>2, <1>3 DEF GuiOK, SessionOK
<1>6. BusOK'
  BY <1>1, <1>3 DEF IInv, BusOK
<1>7. QueueOK'
  <2>1. ASSUME NEW i \in DOMAIN queue, queue[i][1] = "connected"
        PROVE  queue[i][2] \notin closed' \cup {current'}
    <3>1. queue[i][2] \notin closed \cup {current} /\ queue[i] \in Events(1..opened)
      BY <2>1 DEF IInv, TypeOK, QueueOK
    <3>2. queue[i][2] \in 1..opened /\ opened \in Nat
      BY <3>1, <2>1 DEF Events, IInv, TypeOK
    <3> QED
      BY <3>1, <3>2, <1>1
  <2> QED
    BY <2>1, <1>1 DEF IInv, QueueOK
<1> QED
  BY <1>4, <1>5, <1>6, <1>7 DEF IInv

\* Closing tells the threads to stop; the window goes when none of them runs.
LEMMA CloseKeeps ==
    ASSUME IInv, CloseEvent \/ StopReturns
    PROVE  IInv'
<1>1. /\ UNCHANGED <<listed, current, queue, job>>
      /\ UNCHANGED <<opened, closed, owner, stuck>>
  BY DEF CloseEvent, StopReturns, busVars, workVars
<1>2. \A w \in Slots : Uses(w)' = Uses(w) /\ Alive(w)' = Alive(w)
  BY <1>1 DEF Uses, Alive
<1>3. BusOK' /\ SessionOK'
  BY <1>1, <1>2 DEF IInv, BusOK, SessionOK
<1>4. QueueOK'
  BY <1>1 DEF IInv, QueueOK
<1>5. TypeOK'
  <2>1. /\ window' \in {"open", "closing", "gone"} /\ enabled' \subseteq Buttons
        /\ tokens' \subseteq Slots /\ quits' \subseteq Slots /\ threads' \subseteq Slots
    <3>1. CASE CloseEvent
      BY <3>1 DEF CloseEvent, IInv, TypeOK
    <3>2. CASE StopReturns
      BY <3>2 DEF StopReturns, Refreshed, Operations, Buttons, workVars, IInv, TypeOK
    <3> QED
      BY <3>1, <3>2
  <2> QED
    BY <1>1, <2>1 DEF IInv, TypeOK
<1>6. GuiOK'
  <2>1. CASE CloseEvent
    BY <2>1, <1>2 DEF CloseEvent, IInv, GuiOK
  <2>2. CASE StopReturns
    <3>1. \A w \in Slots : Alive(w) => w \in threads /\ Running(w)
      BY DEF IInv, GuiOK, Alive, Running
    <3>2. "backend" \in enabled' => threads' = {}
      BY <2>2 DEF StopReturns, Refreshed, Operations
    <3> QED
      BY <2>2, <1>2, <3>1, <3>2 DEF StopReturns, Goes, GuiOK
  <2> QED
    BY <2>1, <2>2
<1> QED
  BY <1>3, <1>4, <1>5, <1>6 DEF IInv

\* Every event that is handled keeps the invariant.
LEMMA HandleKeeps ==
    ASSUME IInv, Handle
    PROVE  IInv'
<1>1. queue # <<>> /\ queue' = Tail(queue) /\ window = "open" /\ window' = window
  BY DEF Handle, PopulateDevices, OnConnected, GiveButtonsBack, QuitThread, ThreadFinished, Event
<1>2. /\ queue' \in Seq(Events(1..opened))
      /\ Head(queue) = queue[1] /\ queue[1] \in Events(1..opened)
      /\ 1 \in DOMAIN queue
      /\ \A i \in DOMAIN queue' :
            i + 1 \in DOMAIN queue /\ i + 1 # 1 /\ queue'[i] = queue[i + 1]
      /\ \A i, j \in DOMAIN queue' : i + 1 = j + 1 => i = j
  BY <1>1, TailOK
<1>3. UNCHANGED <<opened, closed, owner, stuck>>
  BY DEF Handle, PopulateDevices, OnConnected, GiveButtonsBack, QuitThread, ThreadFinished, busVars
<1>4. ASSUME UNCHANGED job
      PROVE  /\ BusOK'
             /\ \A w \in Slots : Alive(w)' = Alive(w)
             /\ \A i \in DOMAIN queue' : queue'[i][1] = "over" => job'[queue'[i][2]].at = "over"
             /\ \A i, j \in DOMAIN queue' :
                   queue'[i] = queue'[j] /\ queue'[i][1] \in {"connected", "over"} => i = j
  <2>1. \A w \in Slots : Uses(w)' = Uses(w) /\ Alive(w)' = Alive(w)
    BY <1>4 DEF Uses, Alive
  <2>2. BusOK'
    BY <1>3, <1>4, <2>1 DEF IInv, BusOK
  <2> QED
    BY <1>2, <1>4, <2>1, <2>2 DEF IInv, QueueOK
<1>5. ASSUME UNCHANGED <<job, current>>
      PROVE  BusOK' /\ SessionOK' /\ QueueOK'
  BY <1>2, <1>3, <1>4, <1>5 DEF IInv, SessionOK, QueueOK
<1>6. CASE PopulateDevices
  <2>1. listed' \in BOOLEAN /\ UNCHANGED <<enabled, current, threads, job, tokens, quits>>
    BY <1>6 DEF PopulateDevices, workVars
  <2>2. TypeOK'
    BY <2>1, <1>1, <1>2, <1>3 DEF IInv, TypeOK
  <2>3. GuiOK'
    BY <2>1, <1>1, <1>4 DEF IInv, GuiOK
  <2> QED
    BY <2>1, <2>2, <2>3, <1>5 DEF IInv
<1>7. CASE OnConnected
  <2>1. /\ current' = queue[1][2] /\ enabled' = enabled \cup Diagnostics
        /\ queue[1][1] = "connected"
        /\ UNCHANGED <<listed, threads, job, tokens, quits>>
    BY <1>7, <1>2 DEF OnConnected, Event, Subject, workVars
  <2>2. queue[1][2] \in 1..opened /\ queue[1][2] \notin closed
    BY <2>1, <1>2 DEF Events, IInv, QueueOK
  <2>3. TypeOK'
    BY <2>1, <2>2, <1>1, <1>2, <1>3 DEF IInv, TypeOK, Diagnostics, Buttons
  <2>4. GuiOK'
    BY <2>1, <1>1, <1>4 DEF IInv, GuiOK, Diagnostics
  <2>5. SessionOK'
    BY <2>1, <2>2, <1>3, <1>4 DEF IInv, SessionOK
  <2>6. ASSUME NEW i \in DOMAIN queue', queue'[i][1] = "connected"
        PROVE  queue'[i][2] \notin closed' \cup {current'}
    <3>1. queue'[i] = queue[i + 1] /\ i + 1 \in DOMAIN queue /\ i + 1 # 1
      BY <1>2
    <3>2. queue[i + 1] \in Events(1..opened)
      BY <3>1 DEF IInv, TypeOK
    <3>3. queue[i + 1][2] = queue[1][2] => queue[i + 1] = queue[1]
      BY <3>1, <3>2, <2>1, <2>6, <1>2 DEF Events
    <3>4. queue[i + 1] # queue[1]
      BY <3>1, <2>6, <1>2 DEF IInv, QueueOK
    <3> QED
      BY <3>1, <3>3, <3>4, <2>1, <2>6, <1>3 DEF IInv, QueueOK
  <2>7. QueueOK'
    BY <2>1, <2>6, <1>4 DEF QueueOK
  <2> QED
    BY <2>1, <2>3, <2>4, <2>5, <2>7, <1>4 DEF IInv
<1>8. CASE GiveButtonsBack
  <2>1. /\ enabled' = enabled \cup ButtonsOf(queue[1][2]) /\ queue[1][1] = "buttons"
        /\ UNCHANGED <<listed, current, threads, job, tokens, quits>>
    BY <1>8, <1>2 DEF GiveButtonsBack, Event, Subject, workVars
  <2>2. queue[1][2] \in Kinds
    BY <2>1, <1>2 DEF Events
  <2>3. enabled' \subseteq Buttons /\ ("backend" \in enabled' => "backend" \in enabled)
    BY <2>1, <2>2 DEF ButtonsOf, Kinds, Buttons, Diagnostics, IInv, TypeOK
  <2>4. TypeOK'
    BY <2>1, <2>3, <1>1, <1>2, <1>3 DEF IInv, TypeOK
  <2>5. GuiOK'
    BY <2>1, <2>3, <1>1, <1>4 DEF IInv, GuiOK
  <2> QED
    BY <2>1, <2>4, <2>5, <1>5 DEF IInv
<1>9. CASE QuitThread
  <2>1. /\ quits' = quits \cup {queue[1][2]} /\ queue[1][1] = "quit"
        /\ UNCHANGED <<enabled, listed, current, threads, job, tokens>>
    BY <1>9, <1>2 DEF QuitThread, Event, Subject
  <2>2. queue[1][2] \in Slots
    BY <2>1, <1>2 DEF Events
  <2>3. TypeOK'
    BY <2>1, <2>2, <1>1, <1>2, <1>3 DEF IInv, TypeOK
  <2>4. GuiOK'
    BY <2>1, <1>1, <1>4 DEF IInv, GuiOK
  <2> QED
    BY <2>1, <2>3, <2>4, <1>5 DEF IInv
<1>10. CASE ThreadFinished
  <2> DEFINE w == queue[1][2]
  <2>1. /\ threads' = threads \ {w} /\ enabled' = Refreshed(threads \ {w})
        /\ job' = [job EXCEPT ![w] = NoJob] /\ queue[1] = <<"over", w>>
        /\ tokens' = tokens \ {w} /\ quits' = quits \ {w}
        /\ UNCHANGED <<listed, current>>
    <3>1. queue[1][1] = "over" /\ Subject = w
      BY <1>10, <1>2 DEF ThreadFinished, Event, Subject
    <3>2. queue[1] = <<"over", w>>
      BY <3>1, <1>2 DEF Events
    <3> QED
      BY <1>10, <3>1, <3>2 DEF ThreadFinished
  <2>2. w \in Slots /\ job[w].at = "over"
    BY <2>1, <1>2 DEF Events, IInv, QueueOK
  <2> HIDE DEF w
  <2>3. job'[w] = NoJob /\ \A v \in Slots \ {w} : job'[v] = job[v]
    BY <2>1, <2>2 DEF IInv, TypeOK
  <2>4. /\ \A v \in Slots : Uses(v)' = Uses(v) /\ Alive(v)' = Alive(v)
        /\ \A v \in Slots : Uses(v) \/ Alive(v) => v # w /\ job'[v] = job[v]
    BY <2>2, <2>3 DEF Uses, Alive, NoJob, Diagnostics
  <2>5. TypeOK'
    <3>1. job' \in [Slots -> Job] /\ \A v \in Slots : job'[v].on \in 0..opened
      BY <2>1, <2>2, <2>3 DEF IInv, TypeOK, Job, NoJob, Phases
    <3>2. enabled' \subseteq Buttons
      BY <2>1 DEF Refreshed, Operations, Buttons, IInv, TypeOK
    <3> QED
      BY <2>1, <3>1, <3>2, <1>1, <1>2, <1>3 DEF IInv, TypeOK
  <2>6. GuiOK'
    <3>1. "backend" \in enabled' => threads' = {}
      BY <2>1 DEF Refreshed, Operations
    <3> QED
      BY <2>1, <2>4, <3>1, <1>1 DEF IInv, GuiOK
  <2>7. BusOK'
    BY <2>4, <1>3 DEF IInv, BusOK
  <2>8. SessionOK'
    BY <2>1, <2>4, <1>3 DEF IInv, SessionOK
  <2>9. QueueOK'
    <3>1. ASSUME NEW i \in DOMAIN queue', queue'[i][1] = "over"
          PROVE  job'[queue'[i][2]].at = "over"
      <4>1. queue'[i] = queue[i + 1] /\ i + 1 \in DOMAIN queue /\ i + 1 # 1
        BY <1>2
      <4>2. queue[i + 1] \in Events(1..opened)
        BY <4>1 DEF IInv, TypeOK
      <4>3. queue[i + 1][2] \in Slots /\ queue[i + 1] = <<"over", queue[i + 1][2]>>
        BY <3>1, <4>1, <4>2 DEF Events
      <4>4. queue[i + 1] # queue[1]
        BY <3>1, <4>1, <1>2 DEF IInv, QueueOK
      <4>5. queue[i + 1][2] # w /\ job[queue[i + 1][2]].at = "over"
        BY <4>1, <4>3, <4>4, <2>1, <3>1 DEF IInv, QueueOK
      <4> QED
        BY <4>1, <4>3, <4>5, <2>3
    <3>2. ASSUME NEW i \in DOMAIN queue', queue'[i][1] = "connected"
          PROVE  queue'[i][2] \notin closed' \cup {current'}
      BY <3>2, <1>2, <1>3, <2>1 DEF IInv, QueueOK
    <3>3. ASSUME NEW i \in DOMAIN queue', NEW j \in DOMAIN queue', queue'[i] = queue'[j],
                 queue'[i][1] \in {"connected", "over"}
          PROVE  i = j
      BY <3>3, <1>2 DEF IInv, QueueOK
    <3> QED
      BY <3>1, <3>2, <3>3 DEF QueueOK
  <2> QED
    BY <2>5, <2>6, <2>7, <2>8, <2>9 DEF IInv
<1> QED
  BY <1>6, <1>7, <1>8, <1>9, <1>10 DEF Handle

-------------------------------------------------------------------------------
(* The inductive invariant and what follows from it.                       *)

\* It holds initially.
LEMMA InitOK ==
    ASSUME Init
    PROVE  IInv
<1>1. \A w \in Slots : job[w] = NoJob
  BY DEF Init
<1>2. \A w \in Slots : ~Uses(w) /\ ~Alive(w)
  <2>1. NoJob.at = "none"
    BY DEF NoJob
  <2>2. \A w \in Slots : job[w].at = "none"
    BY <1>1, <2>1
  <2> QED
    BY <2>2 DEF Uses, Alive
<1>3. TypeOK
  <2>1. job \in [Slots -> Job] /\ \A w \in Slots : job[w].on \in 0..opened
    BY DEF Init, NoJob, Job, Phases
  <2>2. MaxSessions \in Nat
    BY DiagAssumption
  <2>3. opened \in 0..MaxSessions /\ current \in 0..opened /\ closed \subseteq 1..opened
    BY <2>2 DEF Init
  <2>4. owner \in [Sessions -> {"none"} \cup Diagnostics] /\ queue \in Seq(Events(1..opened))
    BY DEF Init
  <2>5. enabled \subseteq Buttons /\ window \in {"open", "closing", "gone"} /\ listed \in BOOLEAN
    BY DEF Init, Operations, Buttons
  <2>6. tokens \subseteq Slots /\ quits \subseteq Slots /\ threads \subseteq Slots /\ stuck \subseteq Sessions
    BY DEF Init
  <2> QED
    BY <2>1, <2>3, <2>4, <2>5, <2>6 DEF TypeOK
<1>4. GuiOK /\ BusOK /\ SessionOK
  BY <1>2 DEF Init, GuiOK, BusOK, SessionOK
<1>5. QueueOK
  BY DEF Init, QueueOK
<1> QED
  BY <1>3, <1>4, <1>5 DEF IInv

\* Every step keeps it.
LEMMA NextOK ==
    ASSUME IInv, [Next]_vars
    PROVE  IInv'
<1>1. CASE ScanClicked \/ ConnectClicked
  <2>1. PICK kind \in {"scan", "connect"} : StartWorker(kind, {})
    BY <1>1 DEF ScanClicked, ConnectClicked
  <2>2. kind \in Kinds /\ kind \notin Diagnostics
    BY DEF Kinds, Diagnostics
  <2> QED
    BY <2>1, <2>2, StartKeeps
<1>2. CASE UdsSendClicked \/ FlashStartClicked
  <2>1. current # 0 /\ \E kind \in {"uds", "flash"} : StartWorker(kind, Diagnostics)
    BY <1>2 DEF UdsSendClicked, FlashStartClicked
  <2>2. {"uds", "flash"} \subseteq Kinds /\ Diagnostics \in SUBSET Buttons
    BY DEF Kinds, Diagnostics, Buttons
  <2> QED
    BY <2>1, <2>2, StartKeeps
<1>3. CASE BackendChanged
  BY <1>3, BackendKeeps
<1>4. CASE CloseEvent \/ StopReturns
  BY <1>4, CloseKeeps
<1>5. CASE Handle
  BY <1>5, HandleKeeps
<1>6. CASE \E w \in Slots : Work(w)
  BY <1>6, WorkKeeps
<1>7. CASE UNCHANGED vars
  <2>1. /\ UNCHANGED <<window, enabled, listed, current, threads, queue>>
        /\ UNCHANGED <<opened, closed, owner, stuck, job, tokens, quits>>
    BY <1>7 DEF vars, guiVars, busVars, workVars
  <2>2. \A w \in Slots : Uses(w)' = Uses(w) /\ Alive(w)' = Alive(w)
    BY <2>1 DEF Uses, Alive
  <2>3. TypeOK' /\ GuiOK' /\ QueueOK'
    BY <2>1, <2>2 DEF IInv, TypeOK, GuiOK, QueueOK
  <2>4. BusOK' /\ SessionOK'
    BY <2>1, <2>2 DEF IInv, BusOK, SessionOK
  <2> QED
    BY <2>3, <2>4 DEF IInv
<1> QED
  BY <1>1, <1>2, <1>3, <1>4, <1>5, <1>6, <1>7 DEF Next, User

\* The inductive invariant holds in every reachable state.
THEOREM InvariantHolds == Spec => []IInv
BY InitOK, NextOK, PTL DEF Spec

\* Every state of the window, its workers and its events has its type.
THEOREM TypeCorrect == Spec => []TypeOK
<1>1. IInv => TypeOK
  BY DEF IInv
<1> QED
  BY <1>1, InvariantHolds, PTL

\* However many workers were started on however many sessions, and whichever
\* order their events are handled in, BusSession lets one worker use a session's
\* channel, and its owner is that worker's kind.
THEOREM OwnershipHolds == Spec => []OwnerIsAtWork
<1>1. IInv => OwnerIsAtWork
  <2> SUFFICES ASSUME IInv, NEW s \in Sessions
               PROVE  IF Holders(s) = {} THEN owner[s] = "none" \/ s \in stuck
                      ELSE \E w \in Slots : Holders(s) = {w} /\ owner[s] = job[w].kind
    BY DEF OwnerIsAtWork
  <2>1. CASE Holders(s) = {}
    BY <2>1 DEF IInv, BusOK, Holders
  <2>2. CASE Holders(s) # {}
    <3>1. PICK w \in Slots : Uses(w) /\ job[w].on = s
      BY <2>2 DEF Holders
    <3>2. Holders(s) = {w}
      BY <3>1 DEF IInv, BusOK, Holders
    <3>3. owner[s] = job[w].kind
      BY <3>1 DEF IInv, BusOK
    <3> QED
      BY <2>2, <3>2, <3>3
  <2> QED
    BY <2>1, <2>2
<1> QED
  BY <1>1, InvariantHolds, PTL

\* A session that the change of the backend closed is not in use, because the
\* choice of the backend is given back with the last thread only.
THEOREM ClosedSessionsIdle == Spec => []SessionInUseIsOpen
<1>1. IInv => SessionInUseIsOpen
  <2> SUFFICES ASSUME IInv, NEW s \in closed, NEW w \in Slots, Uses(w)
               PROVE  job[w].on # s
    BY DEF SessionInUseIsOpen, Holders
  <2>1. job[w].kind \in Diagnostics /\ Alive(w)
    BY DEF Uses, Alive
  <2> QED
    BY <2>1 DEF IInv, SessionOK
<1> QED
  BY <1>1, InvariantHolds, PTL

\* closeEvent accepts only when no worker's thread runs.
THEOREM WindowOutlivesWorkers == Spec => []GoneIsQuiet
<1>1. IInv => GoneIsQuiet
  BY DEF IInv, GuiOK, GoneIsQuiet, Alive
<1> QED
  BY <1>1, InvariantHolds, PTL

-------------------------------------------------------------------------------
(***************************************************************************)
(* The buttons.  The operations are there when no thread is on the list.   *)
(* Without a session no diagnostic button is there or will be given back;  *)
(* with one, both are there, or a worker or an event will give them back.  *)
(* An event that gives buttons back is handled before the list is empty.   *)
(***************************************************************************)
Gives(i)   == queue[i][1] = "buttons"
DiagAt(i)  == Gives(i) /\ queue[i][2] \in Diagnostics
DiagWorks(w) == Working(w) /\ job[w].kind \in Diagnostics

OperationsOK == threads = {} => Operations \subseteq enabled

ListOK == \A w \in threads : job[w].at # "none"

\* Somebody is still to be taken off the list after event i.
Followed(i) ==
    \/ \E w \in Slots : Alive(w)
    \/ \E w \in threads, j \in DOMAIN queue : j > i /\ queue[j] = <<"over", w>>

FollowedOK == window # "gone" => \A i \in DOMAIN queue : Gives(i) => Followed(i)

NoSessionOK ==
    current = 0 =>
        /\ enabled \cap Diagnostics = {}
        /\ \A i \in DOMAIN queue : ~DiagAt(i)
        /\ \A w \in Slots : ~DiagWorks(w)

SomeSessionOK ==
    current # 0 =>
        \/ Diagnostics \subseteq enabled
        \/ \E i \in DOMAIN queue : DiagAt(i)
        \/ \E w \in Slots : DiagWorks(w)

ButtonsOK == OperationsOK /\ ListOK /\ FollowedOK /\ NoSessionOK /\ SomeSessionOK

\* A worker's buttons are given back at its end or by what it posts.
LEMMA EndsButtons ==
    ASSUME IInv, ButtonsOK, NEW w \in Slots, Working(w), NEW posted, Ends(w, posted),
           \/ opened' = opened /\ posted \in {<<>>, <<<<"listed", w>>>>}
           \/ opened' = opened + 1 /\ posted = <<<<"connected", opened + 1>>>>
    PROVE  ButtonsOK'
<1> DEFINE k == job[w].kind
<1>1. /\ \A v \in Slots \ {w} : job'[v] = job[v]
      /\ job'[w].kind = job[w].kind /\ job'[w].at = "ended"
  <2>1. job' = [job EXCEPT ![w].at = "ended"] /\ "ended" \in Phases
    BY DEF Ends, Phases
  <2> QED
    BY <2>1, JobStep DEF IInv
<1>2. UNCHANGED <<window, current, threads>>
  BY DEF Ends
<1>3. k \in Kinds /\ TypeOK /\ threads \subseteq Slots /\ w \in threads
  BY DEF Working, IInv, TypeOK, GuiOK, Alive
<1>4. /\ queue' \in Seq(Events(1..opened')) /\ Len(queue) <= Len(queue')
      /\ \A i \in 1..Len(queue) : queue'[i] = queue[i]
      /\ \A i \in 1..Len(queue') : i > Len(queue) =>
            \/ queue'[i][1] \in {"listed", "quit"}
            \/ queue'[i] = <<"buttons", k>>
            \/ /\ i = Len(queue) + 1 /\ queue'[i] = <<"connected", opened'>>
               /\ opened' = opened + 1
      /\ \/ enabled' = enabled \cup ButtonsOf(k)
         \/ /\ enabled' = enabled
            /\ \E i \in 1..Len(queue') : queue'[i] = <<"buttons", k>>
  <2>1. opened' \in {opened, opened + 1}
    OBVIOUS
  <2>2. \/ posted \in {<<>>, <<<<"listed", w>>>>}
        \/ opened' = opened + 1 /\ posted = <<<<"connected", opened + 1>>>>
    OBVIOUS
  <2> QED
    BY <1>3, <2>1, <2>2, EndsQueue
<1>5. DOMAIN queue = 1..Len(queue) /\ DOMAIN queue' = 1..Len(queue') /\ Len(queue) \in Nat
  BY <1>3, <1>4 DEF TypeOK
<1>6. DOMAIN queue \subseteq DOMAIN queue'
  BY <1>4, <1>5
<1>7. \A i \in DOMAIN queue' :
         Gives(i)' => (i \in DOMAIN queue /\ queue'[i] = queue[i]) \/ queue'[i][2] = k
  <2>1. \A i \in DOMAIN queue' : i \in DOMAIN queue \/ i > Len(queue)
    BY <1>5
  <2> QED
    BY <1>4, <1>5, <2>1 DEF Gives
<1>8. ~DiagWorks(w)' /\ \A v \in Slots \ {w} : DiagWorks(v)' = DiagWorks(v)
  BY <1>1 DEF DiagWorks, Working
<1>9. enabled \subseteq enabled' /\ enabled' \subseteq enabled \cup ButtonsOf(k)
  BY <1>4
<1>10. OperationsOK' /\ ListOK'
  BY <1>1, <1>2, <1>3, <1>9 DEF ButtonsOK, OperationsOK, ListOK
<1>11. FollowedOK'
  <2>1. Alive(w)'
    BY <1>1 DEF Alive
  <2> QED
    BY <2>1 DEF FollowedOK, Followed
<1>12. NoSessionOK'
  <2> SUFFICES ASSUME current = 0
               PROVE  /\ enabled' \cap Diagnostics = {}
                      /\ \A i \in DOMAIN queue' : ~DiagAt(i)'
                      /\ \A v \in Slots : ~DiagWorks(v)'
    BY <1>2 DEF NoSessionOK
  <2>1. /\ enabled \cap Diagnostics = {} /\ \A i \in DOMAIN queue : ~DiagAt(i)
        /\ \A v \in Slots : ~DiagWorks(v)
    BY DEF ButtonsOK, NoSessionOK
  <2>2. k \notin Diagnostics
    BY <2>1 DEF DiagWorks
  <2>3. ButtonsOf(k) \cap Diagnostics = {}
    BY <2>2, <1>3 DEF ButtonsOf, Diagnostics
  <2>4. \A i \in DOMAIN queue' : ~DiagAt(i)'
    BY <1>7, <2>1, <2>2 DEF DiagAt, Gives
  <2> QED
    BY <1>8, <1>9, <2>1, <2>3, <2>4
<1>13. SomeSessionOK'
  <2> SUFFICES ASSUME current # 0
               PROVE  \/ Diagnostics \subseteq enabled'
                      \/ \E i \in DOMAIN queue' : DiagAt(i)'
                      \/ \E v \in Slots : DiagWorks(v)'
    BY <1>2 DEF SomeSessionOK
  <2>1. CASE Diagnostics \subseteq enabled
    BY <1>9, <2>1
  <2>2. CASE \E i \in DOMAIN queue : DiagAt(i)
    BY <1>4, <1>5, <1>6, <2>2 DEF DiagAt, Gives
  <2>3. CASE \E v \in Slots \ {w} : DiagWorks(v)
    BY <1>8, <2>3
  <2>4. CASE DiagWorks(w)
    <3>1. k \in Diagnostics /\ Diagnostics \subseteq ButtonsOf(k)
      BY <2>4 DEF DiagWorks, ButtonsOf, Diagnostics
    <3>2. \A i \in DOMAIN queue' : queue'[i] = <<"buttons", k>> => DiagAt(i)'
      BY <3>1 DEF DiagAt, Gives
    <3> QED
      BY <1>4, <1>5, <3>1, <3>2
  <2> QED
    BY <2>1, <2>2, <2>3, <2>4 DEF ButtonsOK, SomeSessionOK
<1> QED
  BY <1>10, <1>11, <1>12, <1>13 DEF ButtonsOK

\* A worker that moves on will give its buttons back as before.
LEMMA MovesButtons ==
    ASSUME IInv, ButtonsOK, NEW w \in Slots, NEW at \in {"log", "loaded", "work"},
           Working(w), Moves(w, at)
    PROVE  ButtonsOK'
<1>1. /\ \A v \in Slots \ {w} : job'[v] = job[v]
      /\ job'[w].kind = job[w].kind /\ job'[w].at = at
  <2>1. job' = [job EXCEPT ![w].at = at] /\ at \in Phases
    BY DEF Moves, Phases
  <2> QED
    BY <2>1, JobStep DEF IInv
<1>2. UNCHANGED <<window, enabled, current, threads, queue>> /\ threads \subseteq Slots
  BY DEF Moves, guiVars, IInv, TypeOK
<1>3. /\ \A v \in Slots : DiagWorks(v)' = DiagWorks(v)
      /\ \A i \in DOMAIN queue : DiagAt(i)' = DiagAt(i)
  BY <1>1, <1>2 DEF DiagWorks, Working, DiagAt, Gives
<1>4. FollowedOK'
  <2>1. Alive(w)'
    BY <1>1 DEF Alive
  <2> QED
    BY <2>1 DEF FollowedOK, Followed
<1>5. OperationsOK' /\ ListOK'
  BY <1>1, <1>2 DEF ButtonsOK, OperationsOK, ListOK
<1> QED
  BY <1>2, <1>3, <1>4, <1>5 DEF ButtonsOK, NoSessionOK, SomeSessionOK

\* A thread that ends posts its end behind the buttons.
LEMMA ThreadEndsButtons ==
    ASSUME IInv, ButtonsOK, NEW w \in Slots, ThreadEnds(w)
    PROVE  ButtonsOK'
<1>1. /\ \A v \in Slots \ {w} : job'[v] = job[v]
      /\ job'[w].kind = job[w].kind /\ job'[w].at = "over" /\ job[w].at = "ended"
  <2>1. job' = [job EXCEPT ![w].at = "over"] /\ "over" \in Phases /\ job[w].at = "ended"
    BY DEF ThreadEnds, Phases
  <2> QED
    BY <2>1, JobStep DEF IInv
<1>2. /\ UNCHANGED <<window, enabled, current, threads>> /\ threads \subseteq Slots
      /\ w \in threads
  BY <1>1 DEF ThreadEnds, IInv, TypeOK, GuiOK, Alive
<1>3. /\ Len(queue') = Len(queue) + 1 /\ DOMAIN queue = 1..Len(queue) /\ Len(queue) \in Nat
      /\ DOMAIN queue' = 1..Len(queue')
      /\ \A i \in 1..Len(queue) : queue'[i] = queue[i]
      /\ queue'[Len(queue) + 1] = <<"over", w>>
  <2>1. <<"over", w>> \in Events(1..opened)
    BY DEF Events
  <2>2. queue \in Seq(Events(1..opened)) /\ queue' = Append(queue, <<"over", w>>)
    BY DEF ThreadEnds, IInv, TypeOK
  <2> QED
    BY <2>1, <2>2, AppendOne
<1>4. \A i \in DOMAIN queue' : \/ i \in DOMAIN queue /\ queue'[i] = queue[i] /\ i < Len(queue) + 1
                               \/ i = Len(queue) + 1 /\ queue'[i] = <<"over", w>>
  BY <1>3
<1>5. Len(queue) + 1 \in DOMAIN queue' /\ \A i \in DOMAIN queue : i \in DOMAIN queue'
  BY <1>3
<1>6. /\ \A v \in Slots : DiagWorks(v)' = DiagWorks(v)
      /\ \A i \in DOMAIN queue : DiagAt(i)' = DiagAt(i)
      /\ \A i \in DOMAIN queue' : DiagAt(i)' => i \in DOMAIN queue
  BY <1>1, <1>3, <1>4 DEF DiagWorks, Working, DiagAt, Gives
<1>7. FollowedOK'
  <2> SUFFICES ASSUME NEW i \in DOMAIN queue', Gives(i)'
               PROVE  Followed(i)'
    BY DEF FollowedOK
  <2>1. i < Len(queue) + 1
    BY <1>4 DEF Gives
  <2>2. \E j \in DOMAIN queue' : j > i /\ queue'[j] = <<"over", w>>
    BY <1>3, <1>5, <2>1
  <2> QED
    BY <1>2, <2>2 DEF Followed
<1>8. OperationsOK' /\ ListOK'
  BY <1>1, <1>2 DEF ButtonsOK, OperationsOK, ListOK
<1> QED
  BY <1>2, <1>5, <1>6, <1>7, <1>8 DEF ButtonsOK, NoSessionOK, SomeSessionOK

\* So every step of a worker keeps the buttons.
LEMMA WorkButtons ==
    ASSUME IInv, ButtonsOK, NEW w \in Slots, Work(w)
    PROVE  ButtonsOK'
<1>1. CASE ThreadEnds(w)
  BY <1>1, ThreadEndsButtons
<1>2. CASE ~ThreadEnds(w)
  <2>1. Working(w)
    BY <1>2 DEF Work, Scan, Connect, UdsEnters, UdsOpensLog, UdsEnds, FlashLoads, FlashEnters,
                FlashEnds, At, Working, Kinds
  <2>2. \/ opened' = opened /\ \E posted \in {<<>>, <<<<"listed", w>>>>} : Ends(w, posted)
        \/ opened' = opened + 1 /\ Ends(w, <<<<"connected", opened + 1>>>>)
        \/ \E at \in {"log", "loaded", "work"} : Moves(w, at)
    BY <1>2 DEF Work, Scan, Connect, UdsEnters, UdsOpensLog, UdsEnds, FlashLoads, FlashEnters,
                FlashEnds, busVars
  <2>3. CASE opened' = opened /\ \E posted \in {<<>>, <<<<"listed", w>>>>} : Ends(w, posted)
    BY <2>1, <2>3, EndsButtons
  <2>4. CASE opened' = opened + 1 /\ Ends(w, <<<<"connected", opened + 1>>>>)
    BY <2>1, <2>4, EndsButtons
  <2> QED
    BY <2>1, <2>2, <2>3, <2>4, MovesButtons
<1> QED
  BY <1>1, <1>2

\* A worker that starts takes buttons away, and will give them back.
LEMMA StartButtons ==
    ASSUME IInv, ButtonsOK, NEW kind \in Kinds, NEW taken, StartWorker(kind, taken),
           taken = IF kind \in Diagnostics THEN Diagnostics ELSE {},
           kind \in Diagnostics => current # 0
    PROVE  ButtonsOK'
<1>1. PICK w \in Slots :
        /\ job[w] = NoJob /\ threads' = threads \cup {w}
        /\ job' = [job EXCEPT ![w] = [kind |-> kind,
                                      on |-> IF kind \in Diagnostics THEN current ELSE 0,
                                      at |-> "start"]]
  <2>1. (CHOOSE w \in Free : TRUE) \in Free
    BY DEF StartWorker
  <2> QED
    BY <2>1 DEF StartWorker, Free
<1>2. /\ enabled' = enabled \ (Operations \cup taken)
      /\ UNCHANGED <<window, current, queue>> /\ threads \subseteq Slots
  BY DEF StartWorker, IInv, TypeOK
<1>3. /\ \A v \in Slots \ {w} : job'[v] = job[v]
      /\ job'[w].kind = kind /\ job'[w].at = "start" /\ job[w].at = "none"
  BY <1>1 DEF IInv, TypeOK, NoJob
<1>4. /\ DiagWorks(w)' <=> kind \in Diagnostics
      /\ ~DiagWorks(w) /\ \A v \in Slots \ {w} : DiagWorks(v)' = DiagWorks(v)
      /\ \A i \in DOMAIN queue : DiagAt(i)' = DiagAt(i)
  BY <1>2, <1>3 DEF DiagWorks, Working, DiagAt, Gives
<1>5. FollowedOK'
  <2>1. Alive(w)'
    BY <1>3 DEF Alive
  <2> QED
    BY <2>1 DEF FollowedOK, Followed
<1>6. OperationsOK' /\ ListOK'
  BY <1>1, <1>2, <1>3 DEF ButtonsOK, OperationsOK, ListOK
<1>7. NoSessionOK'
  BY <1>2, <1>4 DEF ButtonsOK, NoSessionOK
<1>8. SomeSessionOK'
  <2>1. CASE kind \in Diagnostics
    BY <1>4, <2>1 DEF SomeSessionOK
  <2>2. CASE kind \notin Diagnostics
    <3>1. Diagnostics \subseteq enabled => Diagnostics \subseteq enabled'
      BY <1>2, <2>2 DEF Operations, Diagnostics
    <3> QED
      BY <1>2, <1>4, <3>1 DEF ButtonsOK, SomeSessionOK
  <2> QED
    BY <2>1, <2>2
<1> QED
  BY <1>5, <1>6, <1>7, <1>8 DEF ButtonsOK

\* The backend is changed, the window closes or stays open.
LEMMA GuiButtons ==
    ASSUME IInv, ButtonsOK, BackendChanged \/ CloseEvent \/ StopReturns
    PROVE  ButtonsOK'
<1>1. UNCHANGED <<job, queue>> /\ threads \subseteq Slots
  BY DEF BackendChanged, CloseEvent, StopReturns, workVars, IInv, TypeOK
<1>2. /\ \A w \in Slots : DiagWorks(w)' = DiagWorks(w) /\ Alive(w)' = Alive(w)
      /\ \A i \in DOMAIN queue : DiagAt(i)' = DiagAt(i) /\ Gives(i)' = Gives(i)
  BY <1>1 DEF DiagWorks, Working, DiagAt, Gives, Alive
<1>3. CASE BackendChanged
  <2>1. /\ window = "open" /\ window' = window /\ current' = 0 /\ threads' = threads
        /\ enabled' = enabled \ Diagnostics /\ threads = {}
    BY <1>3 DEF BackendChanged, IInv, GuiOK
  <2>2. \A w \in Slots : ~Alive(w)
    BY <2>1 DEF IInv, GuiOK
  <2>3. \A i \in DOMAIN queue : ~Gives(i)
    BY <2>1, <2>2 DEF ButtonsOK, FollowedOK, Followed
  <2>4. NoSessionOK'
    BY <1>1, <1>2, <2>1, <2>2, <2>3 DEF NoSessionOK, DiagAt, DiagWorks, Working, Alive
  <2>5. OperationsOK' /\ ListOK' /\ FollowedOK' /\ SomeSessionOK'
    BY <1>1, <1>2, <2>1, <2>3
       DEF ButtonsOK, OperationsOK, ListOK, FollowedOK, SomeSessionOK, Operations, Diagnostics
  <2> QED
    BY <2>4, <2>5 DEF ButtonsOK
<1>4. CASE CloseEvent
  <2>1. UNCHANGED <<enabled, current, threads>> /\ window # "gone"
    BY <1>4 DEF CloseEvent
  <2>2. OperationsOK' /\ ListOK' /\ NoSessionOK' /\ SomeSessionOK'
    BY <1>1, <1>2, <2>1 DEF ButtonsOK, OperationsOK, ListOK, NoSessionOK, SomeSessionOK
  <2>3. FollowedOK'
    BY <1>1, <1>2, <2>1 DEF ButtonsOK, FollowedOK, Followed
  <2> QED
    BY <2>2, <2>3 DEF ButtonsOK
<1>5. CASE StopReturns
  <2> DEFINE left == {w \in threads : Running(w)}
  <2>1. /\ threads' = left /\ enabled' = Refreshed(left) /\ current' = current
        /\ window' = IF left = {} THEN "gone" ELSE "open"
    BY <1>5 DEF StopReturns, Goes
  <2>2. ListOK' /\ \A w \in left : w \in Slots /\ Alive(w)
    BY <1>1, <2>1 DEF ButtonsOK, ListOK, Running, Alive
  <2> HIDE DEF left
  <2>3. FollowedOK'
    BY <1>2, <2>1, <2>2 DEF FollowedOK, Followed
  <2>4. OperationsOK'
    BY <2>1 DEF OperationsOK, Refreshed
  <2>5. enabled' \cap Diagnostics = enabled \cap Diagnostics
    BY <2>1 DEF Refreshed, Operations, Diagnostics
  <2>6. NoSessionOK' /\ SomeSessionOK'
    BY <1>1, <1>2, <2>1, <2>5 DEF ButtonsOK, NoSessionOK, SomeSessionOK
  <2> QED
    BY <2>2, <2>3, <2>4, <2>6 DEF ButtonsOK
<1> QED
  BY <1>3, <1>4, <1>5

\* An event is handled.
LEMMA HandleButtons ==
    ASSUME IInv, ButtonsOK, Handle
    PROVE  ButtonsOK'
<1>1. queue # <<>> /\ queue' = Tail(queue) /\ window = "open" /\ window' = window
  BY DEF Handle, PopulateDevices, OnConnected, GiveButtonsBack, QuitThread, ThreadFinished, Event
<1>2. /\ Head(queue) = queue[1] /\ queue[1] \in Events(1..opened)
      /\ 1 \in DOMAIN queue
      /\ \A i \in DOMAIN queue' :
            i + 1 \in DOMAIN queue /\ i + 1 # 1 /\ queue'[i] = queue[i + 1]
  BY <1>1, TailOK
<1>3. /\ \A i \in DOMAIN queue' : DiagAt(i)' = DiagAt(i + 1) /\ Gives(i)' = Gives(i + 1)
      /\ DOMAIN queue' \subseteq Nat
      /\ \A j \in DOMAIN queue : j \in Nat /\ (j # 1 => j - 1 \in DOMAIN queue' /\ j = (j - 1) + 1)
  <2>1. \A i \in DOMAIN queue' : DiagAt(i)' = DiagAt(i + 1) /\ Gives(i)' = Gives(i + 1)
    BY <1>2 DEF DiagAt, Gives
  <2>2. queue \in Seq(Events(1..opened))
    BY DEF IInv, TypeOK
  <2>3. /\ Len(queue) \in Nat /\ DOMAIN queue = 1..Len(queue)
        /\ Len(queue') = Len(queue) - 1 /\ DOMAIN queue' = 1..Len(queue')
    BY <1>1, <2>2
  <2> QED
    BY <2>1, <2>3
<1>4. \A w \in Slots : Alive(w) => Alive(w)' /\ job'[w] = job[w]
  <2>1. CASE ThreadFinished
    <3>1. /\ job' = [job EXCEPT ![queue[1][2]] = NoJob] /\ queue[1][1] = "over"
      BY <1>2, <2>1 DEF ThreadFinished, Event, Subject
    <3>2. job[queue[1][2]].at = "over"
      BY <1>2, <3>1 DEF IInv, QueueOK
    <3> QED
      BY <3>1, <3>2 DEF Alive, IInv, TypeOK
  <2>2. CASE ~ThreadFinished
    <3>1. UNCHANGED job
      BY <2>2 DEF Handle, PopulateDevices, OnConnected, GiveButtonsBack, QuitThread, workVars
    <3> QED
      BY <3>1 DEF Alive
  <2> QED
    BY <2>1, <2>2
<1>5. ASSUME NEW i \in DOMAIN queue', Gives(i)', NEW w \in threads, NEW j \in DOMAIN queue,
             j > i + 1, queue[j] = <<"over", w>>, w \in threads'
      PROVE  Followed(i)'
  <2>1. i \in Nat /\ j \in Nat /\ j # 1 /\ j - 1 \in DOMAIN queue' /\ j - 1 > i
    BY <1>3, <1>5
  <2>2. queue'[j - 1] = queue[j]
    BY <1>2, <1>3, <2>1
  <2>3. \E v \in threads', n \in DOMAIN queue' : n > i /\ queue'[n] = <<"over", v>>
    BY <1>5, <2>1, <2>2
  <2> QED
    BY <2>3 DEF Followed
<1>6. \A v \in threads \ threads' : queue[1] = <<"over", v>>
  <2>1. CASE ThreadFinished
    BY <1>2, <2>1 DEF ThreadFinished, Event, Subject, Events
  <2>2. CASE ~ThreadFinished
    BY <2>2 DEF Handle, PopulateDevices, OnConnected, GiveButtonsBack, QuitThread
  <2> QED
    BY <2>1, <2>2
<1>7. FollowedOK'
  <2> SUFFICES ASSUME NEW i \in DOMAIN queue', Gives(i)'
               PROVE  Followed(i)'
    BY DEF FollowedOK
  <2>1. Followed(i + 1)
    BY <1>1, <1>2, <1>3 DEF ButtonsOK, FollowedOK
  <2>2. CASE \E w \in Slots : Alive(w)
    BY <1>4, <2>2 DEF Followed
  <2>3. CASE \E w \in threads, j \in DOMAIN queue : j > i + 1 /\ queue[j] = <<"over", w>>
    <3>1. PICK w \in threads, j \in DOMAIN queue : j > i + 1 /\ queue[j] = <<"over", w>>
      BY <2>3
    <3>2. i \in Nat /\ j \in Nat /\ j # 1
      BY <1>3, <3>1
    <3>3. w \in threads'
      <4>1. queue[j] # queue[1]
        BY <1>2, <3>1, <3>2 DEF IInv, QueueOK
      <4> QED
        BY <1>6, <3>1, <4>1
    <3> QED
      BY <1>5, <3>1, <3>3
  <2> QED
    BY <2>1, <2>2, <2>3 DEF Followed
<1>8. ListOK'
  <2>1. CASE ThreadFinished
    <3>1. /\ job' = [job EXCEPT ![queue[1][2]] = NoJob] /\ threads' = threads \ {queue[1][2]}
      BY <1>2, <2>1 DEF ThreadFinished, Subject
    <3> QED
      BY <3>1 DEF ButtonsOK, ListOK, IInv, TypeOK
  <2>2. CASE ~ThreadFinished
    <3>1. UNCHANGED <<job, threads>>
      BY <2>2 DEF Handle, PopulateDevices, OnConnected, GiveButtonsBack, QuitThread, workVars
    <3> QED
      BY <3>1 DEF ButtonsOK, ListOK
  <2> QED
    BY <2>1, <2>2
<1>9. OperationsOK'
  <2>1. CASE ThreadFinished
    BY <2>1 DEF ThreadFinished, OperationsOK, Refreshed
  <2>2. CASE ~ThreadFinished
    <3>1. UNCHANGED threads /\ enabled \subseteq enabled'
      BY <2>2 DEF Handle, PopulateDevices, OnConnected, GiveButtonsBack, QuitThread
    <3> QED
      BY <3>1 DEF ButtonsOK, OperationsOK
  <2> QED
    BY <2>1, <2>2
<1>10. \A w \in Slots : DiagWorks(w)' = DiagWorks(w)
  <2>1. CASE ThreadFinished
    <3>1. /\ job' = [job EXCEPT ![queue[1][2]] = NoJob] /\ queue[1][1] = "over"
      BY <1>2, <2>1 DEF ThreadFinished, Event, Subject
    <3>2. job[queue[1][2]].at = "over" /\ NoJob.at = "none"
      BY <1>2, <3>1 DEF IInv, QueueOK, NoJob
    <3> QED
      BY <3>1, <3>2 DEF DiagWorks, Working, IInv, TypeOK
  <2>2. CASE ~ThreadFinished
    <3>1. UNCHANGED job
      BY <2>2 DEF Handle, PopulateDevices, OnConnected, GiveButtonsBack, QuitThread, workVars
    <3> QED
      BY <3>1 DEF DiagWorks, Working
  <2> QED
    BY <2>1, <2>2
<1>11. NoSessionOK' /\ SomeSessionOK'
  <2>1. CASE OnConnected
    <3>1. current' = queue[1][2] /\ queue[1][1] = "connected" /\ enabled' = enabled \cup Diagnostics
      BY <1>2, <2>1 DEF OnConnected, Event, Subject
    <3>2. current' # 0
      BY <1>2, <3>1 DEF Events
    <3> QED
      BY <3>1, <3>2 DEF NoSessionOK, SomeSessionOK
  <2>2. CASE GiveButtonsBack
    <3>1. /\ enabled' = enabled \cup ButtonsOf(queue[1][2]) /\ queue[1][1] = "buttons"
          /\ current' = current /\ queue[1][2] \in Kinds
      BY <1>2, <2>2 DEF GiveButtonsBack, Event, Subject, Events
    <3>2. current # 0 /\ DiagAt(1) => Diagnostics \subseteq enabled'
      BY <3>1 DEF DiagAt, ButtonsOf, Diagnostics
    <3>3. ~DiagAt(1) => ButtonsOf(queue[1][2]) \cap Diagnostics = {}
      BY <3>1 DEF DiagAt, Gives, ButtonsOf, Diagnostics
    <3>4. NoSessionOK'
      BY <1>2, <1>3, <1>10, <3>1, <3>3 DEF ButtonsOK, NoSessionOK
    <3>5. SomeSessionOK'
      BY <1>3, <1>10, <3>1, <3>2 DEF ButtonsOK, SomeSessionOK
    <3> QED
      BY <3>4, <3>5
  <2>3. CASE PopulateDevices \/ QuitThread \/ ThreadFinished
    <3>1. ~Gives(1)
      BY <1>2, <2>3 DEF PopulateDevices, QuitThread, ThreadFinished, Event, Gives
    <3>2. current' = current /\ enabled' \cap Diagnostics = enabled \cap Diagnostics
      BY <2>3 DEF PopulateDevices, QuitThread, ThreadFinished, Refreshed, Operations, Diagnostics
    <3>3. NoSessionOK'
      BY <1>2, <1>3, <1>10, <3>2 DEF ButtonsOK, NoSessionOK
    <3>4. SomeSessionOK'
      BY <1>3, <1>10, <3>1, <3>2 DEF ButtonsOK, SomeSessionOK, DiagAt
    <3> QED
      BY <3>3, <3>4
  <2> QED
    BY <2>1, <2>2, <2>3 DEF Handle
<1> QED
  BY <1>7, <1>8, <1>9, <1>11 DEF ButtonsOK

\* Every step keeps the buttons.
LEMMA ButtonsStep ==
    ASSUME IInv, ButtonsOK, [Next]_vars
    PROVE  ButtonsOK'
<1>1. CASE ScanClicked \/ ConnectClicked
  <2>1. PICK kind \in {"scan", "connect"} : StartWorker(kind, {})
    BY <1>1 DEF ScanClicked, ConnectClicked
  <2>2. kind \in Kinds /\ kind \notin Diagnostics
    BY DEF Kinds, Diagnostics
  <2> QED
    BY <2>1, <2>2, StartButtons
<1>2. CASE UdsSendClicked \/ FlashStartClicked
  <2>1. PICK kind \in {"uds", "flash"} : current # 0 /\ StartWorker(kind, Diagnostics)
    BY <1>2 DEF UdsSendClicked, FlashStartClicked
  <2>2. kind \in Kinds /\ kind \in Diagnostics
    BY DEF Kinds, Diagnostics
  <2> QED
    BY <2>1, <2>2, StartButtons
<1>3. CASE BackendChanged \/ CloseEvent \/ StopReturns
  BY <1>3, GuiButtons
<1>4. CASE Handle
  BY <1>4, HandleButtons
<1>5. CASE \E w \in Slots : Work(w)
  BY <1>5, WorkButtons
<1>6. CASE UNCHANGED vars
  <2>1. UNCHANGED <<window, enabled, current, threads, queue, job>>
    BY <1>6 DEF vars, guiVars, workVars
  <2> QED
    BY <2>1 DEF ButtonsOK, OperationsOK, ListOK, FollowedOK, Followed, NoSessionOK, SomeSessionOK,
                Gives, DiagAt, DiagWorks, Working, Alive
<1> QED
  BY <1>1, <1>2, <1>3, <1>4, <1>5, <1>6 DEF Next, User

\* When every worker and event is done with, every operation can be chosen again,
\* and the diagnostics exactly when there is a session, however the window was
\* asked to close, the backend changed or a connection repeated meanwhile.
THEOREM IdleWindowUsable == Spec => []IdleIsUsable
<1>1. Init => ButtonsOK
  <2> SUFFICES ASSUME Init PROVE ButtonsOK
    OBVIOUS
  <2>1. \A w \in Slots : ~DiagWorks(w)
    BY DEF Init, DiagWorks, Working, NoJob
  <2>2. DOMAIN queue = {}
    BY DEF Init
  <2> QED
    BY <2>1, <2>2 DEF Init, ButtonsOK, OperationsOK, ListOK, FollowedOK, NoSessionOK,
                      SomeSessionOK, Operations, Diagnostics
<1>2. IInv /\ ButtonsOK => IdleIsUsable
  <2> SUFFICES ASSUME IInv, ButtonsOK, Free = Slots, queue = <<>>
               PROVE  enabled = Operations \cup (IF current = 0 THEN {} ELSE Diagnostics)
    BY DEF IdleIsUsable
  <2>1. \A w \in Slots : job[w].at = "none" /\ ~DiagWorks(w)
    BY DEF Free, NoJob, DiagWorks, Working
  <2>2. threads = {}
    BY <2>1 DEF ButtonsOK, ListOK, IInv, TypeOK
  <2>3. enabled \subseteq Operations \cup Diagnostics /\ Operations \subseteq enabled
    BY <2>2 DEF ButtonsOK, OperationsOK, IInv, TypeOK, Buttons, Operations, Diagnostics
  <2>4. DOMAIN queue = {}
    OBVIOUS
  <2>5. current # 0 => Diagnostics \subseteq enabled
    BY <2>1, <2>4 DEF ButtonsOK, SomeSessionOK
  <2>6. current = 0 => enabled \cap Diagnostics = {}
    BY DEF ButtonsOK, NoSessionOK
  <2> QED
    BY <2>3, <2>5, <2>6
<1> QED
  BY <1>1, <1>2, ButtonsStep, InvariantHolds, PTL DEF Spec
================================================================================
