-------------------------- MODULE ReleaseFiles_proofs --------------------------
(***************************************************************************)
(* Proofs about the release operations on files, for any number of         *)
(* processes, contents, firmware builds and harms, and for images of any   *)
(* size: each operation's invariant is preserved by its own steps and, as  *)
(* the others share none of its variables, by theirs.  The part about      *)
(* images as text turns every fold over lines or segments into a run and   *)
(* proves by induction along it what the writers and readers compute.      *)
(***************************************************************************)
EXTENDS ReleaseFiles, Integers, SequenceTheorems, FiniteSetTheorems, WellFoundedInduction, TLAPS

-------------------------------------------------------------------------------
(* The cache of vendor libraries.                                          *)

Dirs == [there : BOOLEAN, stranger : BOOLEAN, file : [Files -> {"good", "bad", "gone"}]]
Fetches == [pc : {"idle", "look", "clear", "fetch", "verify", "place"}, online : BOOLEAN,
            stage : Dirs, harmed : BOOLEAN, outcome : {"none", "ready", "refused", "died"}]

Vacant(dir) == \A f \in Files : dir.file[f] = "gone"

RuntimeTypeOK == cache \in Dirs /\ fetch \in [Users -> Fetches] /\ harm \in Nat

\* What is about to be renamed into place has been verified; what a fetch
\* has returned, nobody but the world outside takes away.
FetchIsOk(f) ==
    /\ f.pc \in {"verify", "place"} => f.stage.there
    /\ f.pc = "place" => AllGood(f.stage)
    /\ f.outcome = "ready" /\ ~f.harmed => AllGood(cache)

CacheIsOk ==
    /\ ~cache.there => Vacant(cache)
    /\ harm = 0 => AllGood(cache) \/ Vacant(cache)

RuntimeInv == RuntimeTypeOK /\ CacheIsOk /\ \A u \in Users : FetchIsOk(fetch[u])

\* An empty directory, and a call that has not begun.
LEMMA NoDirIsVacant == NoDir \in Dirs /\ Vacant(NoDir) /\ ~NoDir.there
BY DEF NoDir, Dir, Dirs, Vacant, Files

\* A fetch that has not begun is one of the records.
LEMMA NoFetchIsFetch ==
    /\ NoFetch \in Fetches
    /\ NoFetch.pc = "idle" /\ NoFetch.outcome = "none" /\ NoFetch.stage = NoDir
BY NoDirIsVacant DEF NoFetch, Fetches

\* The two libraries are never both good and both missing.
LEMMA GoodIsNotVacant == ASSUME NEW dir, AllGood(dir) PROVE ~Vacant(dir)
BY DEF AllGood, Vacant, Files

\* The directory is missing or empty when the function is first called.
LEMMA RuntimeStarts == RuntimeInit => RuntimeInv
<1> SUFFICES ASSUME RuntimeInit PROVE RuntimeInv
  OBVIOUS
<1>1. cache \in Dirs /\ Vacant(cache)
  <2> DEFINE d == [Dir("gone") EXCEPT !.stranger = TRUE]
  <2>1. Dir("gone") \in Dirs /\ Vacant(Dir("gone"))
    BY DEF Dir, Dirs, Vacant
  <2>2. d \in Dirs /\ Vacant(d)
    BY <2>1 DEF Dirs, Vacant
  <2> QED
    BY <2>1, <2>2, NoDirIsVacant DEF RuntimeInit
<1>2. \A u \in Users : fetch[u] = NoFetch
  BY DEF RuntimeInit
<1>3. RuntimeTypeOK /\ CacheIsOk
  BY <1>1, NoFetchIsFetch DEF RuntimeInit, RuntimeTypeOK, CacheIsOk
<1>4. \A u \in Users : FetchIsOk(fetch[u])
  BY <1>2, NoFetchIsFetch DEF FetchIsOk
<1> QED
  BY <1>3, <1>4 DEF RuntimeInv

\* A step of one call that leaves the cache alone.
LEMMA CallSteps ==
    ASSUME RuntimeInv, NEW u \in Users, NEW x \in Fetches, FetchIsOk(x), Steps(u, x),
           UNCHANGED <<cache, harm>>
    PROVE  RuntimeInv'
<1>1. RuntimeTypeOK' /\ CacheIsOk'
  BY DEF RuntimeInv, RuntimeTypeOK, CacheIsOk, Steps, AllGood, Vacant
<1>2. ASSUME NEW v \in Users PROVE FetchIsOk(fetch[v])'
  <2>1. fetch'[v] = x \/ fetch'[v] = fetch[v]
    BY DEF RuntimeInv, RuntimeTypeOK, Steps
  <2> QED
    BY <2>1 DEF RuntimeInv, FetchIsOk, AllGood
<1> QED
  BY <1>1, <1>2 DEF RuntimeInv

\* A call that ends without success.
LEMMA CallEnds ==
    ASSUME RuntimeInv, NEW u \in Users, NEW outcome \in {"refused", "died"},
           Leaves(u, outcome), UNCHANGED <<cache, harm>>
    PROVE  RuntimeInv'
<1> DEFINE x == [fetch[u] EXCEPT !.pc = "idle", !.outcome = outcome]
<1>1. x \in Fetches /\ x.pc = "idle" /\ x.outcome = outcome
  BY DEF RuntimeInv, RuntimeTypeOK, Fetches
<1> QED
  BY <1>1, CallSteps DEF Leaves, FetchIsOk

\* Every step of a call, and every harm, keeps the invariant.
LEMMA RuntimeStep == RuntimeInv /\ RuntimeNext => RuntimeInv'
<1> SUFFICES ASSUME RuntimeInv, RuntimeNext PROVE RuntimeInv'
  OBVIOUS
<1>t. cache \in Dirs /\ harm \in Nat /\ (\A u \in Users : fetch[u] \in Fetches)
  BY DEF RuntimeInv, RuntimeTypeOK
<1>1. CASE Harm
  <2>1. harm' \in Nat /\ harm' # 0 /\ cache'.there /\ cache' \in Dirs
    <3>1. CASE \E f \in Files, s \in {"bad", "gone"} :
                 cache.file[f] # "gone" /\ cache' = [cache EXCEPT !.file[f] = s]
      BY <1>t, <1>1, <3>1 DEF Harm, Dirs
    <3>2. CASE cache' = [cache EXCEPT !.stranger = TRUE]
      <4>1. harm' \in Nat /\ harm' # 0 /\ cache.there
        BY <1>t, <1>1 DEF Harm
      <4>2. cache' \in Dirs /\ cache'.there = cache.there
        BY <1>t, <3>2 DEF Dirs
      <4> QED
        BY <4>1, <4>2
    <3> QED
      BY <1>1, <3>1, <3>2 DEF Harm
  <2>2. ASSUME NEW u \in Users
        PROVE  fetch'[u] \in Fetches /\ fetch'[u].harmed /\ fetch'[u].pc = fetch[u].pc
               /\ fetch'[u].stage = fetch[u].stage
    BY <1>t, <1>1 DEF Harm, Fetches
  <2>3. RuntimeTypeOK'
    <3>1. fetch' = [u \in Users |-> [fetch[u] EXCEPT !.harmed = TRUE]]
      BY <1>1 DEF Harm
    <3> QED
      BY <2>1, <2>2, <3>1 DEF RuntimeTypeOK
  <2>4. \A u \in Users : FetchIsOk(fetch[u])'
    BY <2>2 DEF FetchIsOk, AllGood, RuntimeInv
  <2> QED
    BY <2>1, <2>3, <2>4 DEF RuntimeInv, CacheIsOk
<1>2. ASSUME NEW u \in Users, NEW online \in BOOLEAN, FetchRuntime(u, online) PROVE RuntimeInv'
  <2> DEFINE x == [NoFetch EXCEPT !.pc = "look", !.online = online]
  <2>1. x \in Fetches /\ x.pc = "look" /\ x.outcome = "none"
    BY NoFetchIsFetch DEF Fetches
  <2> QED
    BY <1>2, <2>1, CallSteps DEF FetchRuntime, FetchIsOk
<1>3. ASSUME NEW u \in Users, Look(u) PROVE RuntimeInv'
  <2>1. CASE \E f \in Files : cache.file[f] # "gone"
    <3>1. CASE AllGood(cache)
      <4> DEFINE x == [fetch[u] EXCEPT !.pc = "idle", !.outcome = "ready"]
      <4>1. x \in Fetches /\ x.pc = "idle"
        BY <1>t DEF Fetches
      <4>2. Steps(u, x)
        BY <1>3, <2>1, <3>1 DEF Look, Trustworthy, Leaves
      <4> QED
        BY <1>3, <3>1, <4>1, <4>2, CallSteps DEF Look, FetchIsOk
    <3>2. CASE ~AllGood(cache)
      BY <1>3, <2>1, <3>2, CallEnds DEF Look, Trustworthy
    <3> QED
      BY <3>1, <3>2
  <2>2. CASE ~\E f \in Files : cache.file[f] # "gone"
    <3> DEFINE x == [fetch[u] EXCEPT !.pc = IF cache.there THEN "clear" ELSE "fetch"]
    <3>1. x \in Fetches /\ x.pc \notin {"verify", "place"} /\ x.outcome = fetch[u].outcome /\ x.harmed = fetch[u].harmed
      BY <1>t DEF Fetches
    <3> QED
      BY <1>3, <2>2, <3>1, CallSteps DEF Look, FetchIsOk, RuntimeInv
  <2> QED
    BY <2>1, <2>2
<1>4. ASSUME NEW u \in Users, ClearDirectory(u) PROVE RuntimeInv'
  <2>1. CASE cache.there /\ Empty(cache)
    <3>1. Vacant(cache) /\ cache' = NoDir /\ harm' = harm
      BY <1>4, <2>1 DEF ClearDirectory, Empty, Vacant
    <3>2. ASSUME NEW v \in Users
          PROVE  fetch'[v] \in Fetches /\ fetch'[v].outcome = fetch[v].outcome
                 /\ fetch'[v].harmed = fetch[v].harmed /\ fetch'[v].stage = fetch[v].stage
                 /\ (fetch'[v].pc \in {"verify", "place"} => fetch[v].pc = fetch'[v].pc)
      <4> DEFINE x == [fetch[u] EXCEPT !.pc = "fetch"]
      <4>1. x \in Fetches /\ x.pc = "fetch" /\ x.outcome = fetch[u].outcome
            /\ x.harmed = fetch[u].harmed /\ x.stage = fetch[u].stage
        BY <1>t DEF Fetches
      <4>2. fetch'[v] = IF v = u THEN x ELSE fetch[v]
        BY <1>4, <2>1 DEF ClearDirectory, Steps, RuntimeInv, RuntimeTypeOK
      <4> HIDE DEF x
      <4> QED
        BY <1>t, <4>1, <4>2
    <3>3. RuntimeTypeOK'
      <4>1. fetch' = [fetch EXCEPT ![u] = [fetch[u] EXCEPT !.pc = "fetch"]]
        BY <1>4, <2>1 DEF ClearDirectory, Steps
      <4> QED
        BY <3>1, <3>2, <4>1, NoDirIsVacant DEF RuntimeTypeOK, RuntimeInv
    <3>4. CacheIsOk'
      BY <3>1, NoDirIsVacant DEF CacheIsOk, AllGood, Vacant
    <3>5. ~AllGood(cache)
      BY <3>1, GoodIsNotVacant
    <3>6. \A v \in Users : FetchIsOk(fetch[v])'
      BY <3>2, <3>5 DEF FetchIsOk, AllGood, RuntimeInv
    <3> QED
      BY <3>3, <3>4, <3>6 DEF RuntimeInv
  <2>2. CASE ~(cache.there /\ Empty(cache))
    BY <1>4, <2>2, CallEnds DEF ClearDirectory
  <2> QED
    BY <2>1, <2>2
<1>5. ASSUME NEW u \in Users, CloneAndCopy(u) PROVE RuntimeInv'
  <2>1. CASE Leaves(u, "refused")
    BY <1>5, <2>1, CallEnds DEF CloneAndCopy
  <2>2. ASSUME NEW state \in [Files -> {"good", "bad"}],
               Steps(u, [fetch[u] EXCEPT !.pc = "verify", !.stage = [Dir("gone") EXCEPT !.file = state]])
        PROVE  RuntimeInv'
    <3> DEFINE d == [Dir("gone") EXCEPT !.file = state]
               x == [fetch[u] EXCEPT !.pc = "verify", !.stage = d]
    <3>1. d \in Dirs /\ d.there
      BY DEF Dir, Dirs
    <3>2. x \in Fetches /\ x.pc = "verify" /\ x.stage = d /\ x.outcome = fetch[u].outcome
          /\ x.harmed = fetch[u].harmed
      BY <1>t, <3>1 DEF Fetches
    <3>3. FetchIsOk(x)
      BY <3>1, <3>2 DEF FetchIsOk, RuntimeInv
    <3>4. Steps(u, x) /\ UNCHANGED <<cache, harm>>
      BY <1>5, <2>2 DEF CloneAndCopy
    <3> QED
      BY <3>2, <3>3, <3>4, CallSteps
  <2> QED
    BY <1>5, <2>1, <2>2 DEF CloneAndCopy
<1>6. ASSUME NEW u \in Users, VerifyStage(u) PROVE RuntimeInv'
  <2>1. CASE AllGood(fetch[u].stage) /\ fetch[u].stage.there
    <3> DEFINE x == [fetch[u] EXCEPT !.pc = "place"]
    <3>1. x \in Fetches /\ x.stage = fetch[u].stage /\ x.outcome = fetch[u].outcome
          /\ x.harmed = fetch[u].harmed
      BY <1>t DEF Fetches
    <3> QED
      BY <1>6, <2>1, <3>1, CallSteps DEF VerifyStage, Trustworthy, FetchIsOk, RuntimeInv
  <2>2. CASE ~AllGood(fetch[u].stage)
    BY <1>6, <2>2, CallEnds DEF VerifyStage, Trustworthy
  <2>3. fetch[u].pc = "verify" /\ fetch[u].stage.there
    BY <1>6 DEF VerifyStage, RuntimeInv, FetchIsOk
  <2> QED
    BY <2>1, <2>2, <2>3
<1>7. ASSUME NEW u \in Users, Place(u) PROVE RuntimeInv'
  <2>1. CASE ~cache.there /\ cache' = fetch[u].stage /\ Leaves(u, "ready")
    <3>1. AllGood(cache') /\ cache'.there /\ cache' \in Dirs /\ harm' = harm
      BY <1>t, <1>7, <2>1 DEF Place, RuntimeInv, FetchIsOk, Fetches
    <3>2. RuntimeTypeOK'
      BY <1>t, <1>7, <2>1, <3>1 DEF Leaves, Steps, RuntimeTypeOK, RuntimeInv, Fetches
    <3>3. CacheIsOk'
      BY <3>1 DEF CacheIsOk, AllGood
    <3>4. ASSUME NEW v \in Users PROVE FetchIsOk(fetch[v])'
      <4>1. (fetch'[v].pc \in {"verify", "place"} => fetch[v].pc = fetch'[v].pc) /\ fetch'[v].stage = fetch[v].stage
        BY <1>t, <2>1 DEF Leaves, Steps, RuntimeInv, RuntimeTypeOK, Fetches
      <4> QED
        BY <3>1, <4>1 DEF FetchIsOk, AllGood, RuntimeInv
    <3> QED
      BY <3>2, <3>3, <3>4 DEF RuntimeInv
  <2>2. CASE UNCHANGED cache /\ Leaves(u, "refused")
    BY <1>7, <2>2, CallEnds DEF Place
  <2> QED
    BY <1>7, <2>1, <2>2 DEF Place
<1>8. ASSUME NEW u \in Users, FetchDies(u) PROVE RuntimeInv'
  BY <1>8, CallEnds DEF FetchDies
<1> QED
  BY <1>1, <1>2, <1>3, <1>4, <1>5, <1>6, <1>7, <1>8 DEF RuntimeNext

\* fetch_usb2xxx_runtime: whatever other builds do, a fetch that returned has
\* left both pinned libraries, and nothing else is ever put into the cache.
THEOREM RuntimeVerified == Spec => []RuntimeIsVerified
<1>1. Init => RuntimeInv
  BY RuntimeStarts DEF Init
<1>2. RuntimeInv /\ [Next]_vars => RuntimeInv'
  <2>1. ASSUME RuntimeInv, UNCHANGED runtimeVars PROVE RuntimeInv'
    BY <2>1 DEF RuntimeInv, CacheIsOk, FetchIsOk, RuntimeTypeOK, runtimeVars, AllGood, Vacant
  <2> QED
    BY <2>1, RuntimeStep DEF Next, Store, Image, Text, Package, Runtime, vars
<1>3. RuntimeInv => RuntimeIsVerified
  BY DEF RuntimeInv, CacheIsOk, FetchIsOk, RuntimeIsVerified, Vacant
<1> QED
  BY <1>1, <1>2, <1>3, PTL DEF Spec
-------------------------------------------------------------------------------
(* The artifact store.                                                     *)

Names   == Contents \cup {"none"}
Entries == [of : Names, suffix : Extensions \cup {"none"}, body : Names]
Jobs    == [pc : {"idle", "check", "read", "rename", "load"}, id : Names,
            suffix : Extensions \cup {"none"}, checks : Int, got : Entries, edited : BOOLEAN,
            outcome : {"none", "stored", "loaded", "failed"}]

StoreTypeOK ==
    /\ source \in [Users -> Contents] /\ entry \in [Contents -> Entries]
    /\ job \in [Users -> Jobs] /\ kind \in Kinds

\* The source is what was inspected until someone edits it, what is about to
\* be stored was read from it, and what was stored nobody replaces.
JobIsOk(j, src) ==
    /\ j.pc # "idle" => j.id \in Contents /\ j.outcome = "none"
    /\ j.pc \in {"check", "read"} /\ ~j.edited => src = j.id
    /\ j.pc = "rename" => j.got.of = j.id /\ (~j.edited => j.got.body = j.id)
    /\ j.outcome = "loaded" => j.got.body = j.id
    /\ j.outcome = "stored" => j.id \in Contents
    /\ j.outcome = "stored" /\ ~j.edited /\ j.id \notin harmed =>
         entry[j.id].of = j.id /\ entry[j.id].body = j.id

StoreInv == StoreTypeOK /\ \A u \in Users : JobIsOk(job[u], source[u])

\* An empty place in the store is an entry of nothing.
LEMMA NoneIsEntry == None \in Entries /\ None.of = "none"
BY DEF None, Entries, Names

\* A user that has not begun is one of the records.
LEMMA NoJobIsJob ==
    NoJob \in Jobs /\ NoJob.pc = "idle" /\ NoJob.outcome = "none" /\ NoJob.edited = FALSE
BY NoneIsEntry DEF NoJob, Jobs, Names

\* Every store starts empty.
LEMMA StoreStarts == StoreInit => StoreInv
<1> SUFFICES ASSUME StoreInit PROVE StoreInv
  OBVIOUS
<1>1. StoreTypeOK
  BY NoneIsEntry, NoJobIsJob DEF StoreInit, StoreTypeOK
<1>2. \A u \in Users : job[u] = NoJob
  BY DEF StoreInit
<1> QED
  BY <1>1, <1>2, NoJobIsJob DEF StoreInv, JobIsOk

\* A step of one job that leaves the files alone.
LEMMA JobSteps ==
    ASSUME StoreInv, NEW u \in Users, NEW x \in Jobs, JobIsOk(x, source[u]), Becomes(u, x),
           UNCHANGED <<kind, source, entry, harmed>>
    PROVE  StoreInv'
<1>1. StoreTypeOK'
  BY DEF StoreInv, StoreTypeOK, Becomes
<1>2. ASSUME NEW v \in Users PROVE JobIsOk(job[v], source[v])'
  <2>1. job'[v] = (IF v = u THEN x ELSE job[v])
    BY DEF StoreInv, StoreTypeOK, Becomes
  <2> QED
    BY <2>1 DEF StoreInv, JobIsOk
<1> QED
  BY <1>1, <1>2 DEF StoreInv

\* A job that fails.
LEMMA JobFails ==
    ASSUME StoreInv, NEW u \in Users, Ends(u, "failed"),
           UNCHANGED <<kind, source, entry, harmed>>
    PROVE  StoreInv'
<1> DEFINE x == [NoJob EXCEPT !.id = job[u].id, !.edited = job[u].edited, !.outcome = "failed"]
<1>1. x \in Jobs /\ x.pc = "idle" /\ x.outcome = "failed"
  BY NoJobIsJob DEF StoreInv, StoreTypeOK, Jobs
<1>2. JobIsOk(x, source[u])
  BY <1>1 DEF JobIsOk
<1>3. Becomes(u, x)
  BY DEF Ends
<1> QED
  BY <1>1, <1>2, <1>3, JobSteps

\* Every step of a put, of a load and of the world outside keeps the invariant.
LEMMA StoreStep == StoreInv /\ StoreNext => StoreInv'
<1> SUFFICES ASSUME StoreInv, StoreNext PROVE StoreInv'
  OBVIOUS
<1>t. /\ source \in [Users -> Contents] /\ entry \in [Contents -> Entries]
      /\ \A u \in Users : job[u] \in Jobs
  BY DEF StoreInv, StoreTypeOK
<1>1. ASSUME NEW u \in Users, CheckSource(u) PROVE StoreInv'
  <2>1. CASE source[u] # job[u].id
    BY <1>1, <2>1, JobFails DEF CheckSource
  <2>2. CASE source[u] = job[u].id
    <3> DEFINE pc == IF job[u].checks = 1 THEN "read" ELSE "check"
               n  == job[u].checks - 1
               x  == [job[u] EXCEPT !.checks = n, !.pc = pc]
    <3>1. pc \in {"read", "check"} /\ n \in Int /\ job[u] \in Jobs
      BY <1>t DEF Jobs
    <3>2. x \in Jobs /\ x.pc \in {"read", "check"} /\ x.id = job[u].id
          /\ x.outcome = job[u].outcome
      <4> HIDE DEF pc, n
      <4> QED
        BY <3>1 DEF Jobs
    <3>3. JobIsOk(x, source[u])
      BY <1>1, <2>2, <3>2 DEF JobIsOk, StoreInv, CheckSource
    <3> QED
      BY <1>1, <2>2, <3>2, <3>3, JobSteps DEF CheckSource
  <2> QED
    BY <2>1, <2>2
<1>2. ASSUME NEW u \in Users, ReadSource(u) PROVE StoreInv'
  <2> DEFINE e == [of |-> job[u].id, suffix |-> job[u].suffix, body |-> source[u]]
             x == [job[u] EXCEPT !.pc = "rename", !.got = e]
  <2>1. e \in Entries
    BY <1>t DEF Jobs, Entries, Names
  <2>2. x \in Jobs /\ x.pc = "rename" /\ x.got = e /\ x.id = job[u].id
        /\ x.outcome = job[u].outcome /\ x.edited = job[u].edited
    BY <1>t, <2>1 DEF Jobs
  <2>3. JobIsOk(x, source[u])
    BY <1>2, <2>2 DEF JobIsOk, StoreInv, ReadSource
  <2> QED
    BY <1>2, <2>2, <2>3, JobSteps DEF ReadSource
<1>3. ASSUME NEW u \in Users, Rename(u) PROVE StoreInv'
  <2> DEFINE id == job[u].id
             x(o) == [NoJob EXCEPT !.id = id, !.edited = job[u].edited, !.outcome = o]
  <2>1. id \in Contents /\ job[u].got \in Entries /\ job[u].got.of = id
        /\ (~job[u].edited => job[u].got.body = id)
    BY <1>t, <1>3 DEF Rename, StoreInv, JobIsOk, Jobs
  <2>2. \A o \in {"stored", "failed"} :
          x(o) \in Jobs /\ x(o).pc = "idle" /\ x(o).outcome = o /\ x(o).id = id
          /\ x(o).edited = job[u].edited
    BY <1>t, NoJobIsJob DEF Jobs
  <2>3. CASE entry[id] = None
    <3>1. entry' = [entry EXCEPT ![id] = job[u].got] /\ Becomes(u, x("stored"))
      BY <1>3, <2>3 DEF Rename, Entry, Ends
    <3>2. StoreTypeOK'
      BY <1>3, <2>1, <2>2, <3>1 DEF Rename, Becomes, StoreTypeOK, StoreInv
    <3>3. entry'[id] = job[u].got /\ \A c \in Contents \ {id} : entry'[c] = entry[c]
      BY <1>t, <2>1, <3>1
    <3>4. ASSUME NEW v \in Users PROVE JobIsOk(job[v], source[v])'
      <4>1. job'[v] = (IF v = u THEN x("stored") ELSE job[v])
        BY <3>1 DEF StoreInv, StoreTypeOK, Becomes
      <4>2. source' = source /\ harmed' = harmed
        BY <1>3 DEF Rename
      <4>3. CASE v = u
        BY <2>1, <2>2, <3>3, <4>1, <4>2, <4>3 DEF JobIsOk
      <4>4. CASE v # u
        <5>1. JobIsOk(job[v], source[v]) /\ job[v] = job'[v]
          BY <4>1, <4>4 DEF StoreInv
        <5>2. job[v].outcome = "stored" /\ ~job[v].edited /\ job[v].id \notin harmed
                => job[v].id \in Contents \ {id}
          BY <2>3, <5>1, NoneIsEntry, NoneIsNoContent DEF JobIsOk
        <5> QED
          BY <3>3, <4>2, <5>1, <5>2 DEF JobIsOk
      <4> QED
        BY <4>3, <4>4
    <3> QED
      BY <3>2, <3>4 DEF StoreInv
  <2>4. CASE entry[id] # None /\ entry[id] = job[u].got
    <3>1. UNCHANGED <<kind, source, entry, harmed>> /\ Becomes(u, x("stored"))
      BY <1>3, <2>4 DEF Rename, Entry, Outcome, Ends
    <3>2. JobIsOk(x("stored"), source[u])
      BY <2>1, <2>2, <2>4 DEF JobIsOk
    <3> QED
      BY <2>2, <3>1, <3>2, JobSteps
  <2>5. CASE entry[id] # None /\ entry[id] # job[u].got
    BY <1>3, <2>5, JobFails DEF Rename, Entry, Outcome
  <2> QED
    BY <2>3, <2>4, <2>5
<1>4. ASSUME NEW u \in Users, PutFails(u) PROVE StoreInv'
  BY <1>4, JobFails DEF PutFails
<1>5. ASSUME NEW u \in Users, LoadFile(u) PROVE StoreInv'
  <2>1. CASE Reproduces(u)
    <3> DEFINE x == [job[u] EXCEPT !.pc = "idle", !.outcome = "loaded", !.got = Entry(u)]
    <3>1. job[u].id \in Contents
      BY <1>5 DEF LoadFile, StoreInv, JobIsOk
    <3>2. x \in Jobs /\ x.pc = "idle" /\ x.outcome = "loaded" /\ x.got = Entry(u) /\ x.id = job[u].id
      BY <1>t, <3>1 DEF Jobs, Entry
    <3>3. JobIsOk(x, source[u])
      BY <2>1, <3>2 DEF Reproduces, JobIsOk
    <3> QED
      BY <1>5, <2>1, <3>2, <3>3, JobSteps DEF LoadFile
  <2>2. CASE ~Reproduces(u)
    BY <1>5, <2>2, JobFails DEF LoadFile
  <2> QED
    BY <2>1, <2>2
<1>6. ASSUME NEW u \in Users, NEW s \in Extensions, Inspect(u, s) PROVE StoreInv'
  <2> DEFINE x == [NoJob EXCEPT !.pc = "check", !.suffix = s, !.id = source[u], !.checks = Checks]
  <2>1. x \in Jobs /\ x.pc = "check" /\ x.id = source[u] /\ x.outcome = "none"
    <3>1. Checks \in Int /\ source[u] \in Names
      BY <1>t DEF Checks, Names
    <3> QED
      BY <3>1, NoJobIsJob DEF Jobs
  <2>2. JobIsOk(x, source[u])
    BY <1>t, <2>1 DEF JobIsOk
  <2> QED
    BY <1>6, <2>1, <2>2, JobSteps DEF Inspect
<1>7. ASSUME NEW u \in Users, NEW c \in Contents, LoadMetadata(u, c) PROVE StoreInv'
  <2> DEFINE x == [NoJob EXCEPT !.pc = "load", !.id = c, !.got = entry[c]]
  <2>1. x \in Jobs /\ x.pc = "load" /\ x.id = c /\ x.outcome = "none"
    BY <1>t, NoJobIsJob DEF Jobs, Names
  <2>2. JobIsOk(x, source[u])
    BY <2>1 DEF JobIsOk
  <2> QED
    BY <1>7, <2>1, <2>2, JobSteps DEF LoadMetadata
<1>8. ASSUME NEW u \in Users, NEW c \in Contents, EditSource(u, c) PROVE StoreInv'
  <2> DEFINE x == [job[u] EXCEPT !.edited = @ \/ job[u].pc # "idle"]
  <2>1. x \in Jobs /\ x.pc = job[u].pc /\ x.id = job[u].id /\ x.outcome = job[u].outcome
        /\ x.got = job[u].got /\ x.edited = (job[u].edited \/ job[u].pc # "idle")
    BY <1>t DEF Jobs
  <2>2. StoreTypeOK'
    BY <1>8, <2>1 DEF EditSource, Becomes, StoreTypeOK, StoreInv
  <2>3. ASSUME NEW v \in Users PROVE JobIsOk(job[v], source[v])'
    <3>1. job'[v] = (IF v = u THEN x ELSE job[v]) /\ source'[v] = (IF v = u THEN c ELSE source[v])
          /\ UNCHANGED <<entry, harmed>>
      BY <1>8 DEF EditSource, Becomes, StoreInv, StoreTypeOK
    <3>2. JobIsOk(job[v], source[v])
      BY DEF StoreInv
    <3> HIDE DEF x
    <3>3. CASE v # u
      BY <3>1, <3>2, <3>3 DEF JobIsOk
    <3>4. CASE v = u
      BY <2>1, <3>1, <3>2, <3>4 DEF JobIsOk
    <3> QED
      BY <3>3, <3>4
  <2> QED
    BY <2>2, <2>3 DEF StoreInv
<1>9. ASSUME NEW id \in Contents, NEW c \in Contents, Damage(id, c) PROVE StoreInv'
  <2>1. source' = source /\ job' = job /\ kind' = kind /\ harmed' = harmed \cup {id}
    BY <1>9 DEF Damage
  <2>2. entry' \in [Contents -> Entries] /\ \A d \in Contents \ {id} : entry'[d] = entry[d]
    <3>1. c \in Names
      BY DEF Names
    <3>2. CASE entry' = [entry EXCEPT ![id].body = c]
      BY <1>t, <3>1, <3>2 DEF Entries
    <3>3. CASE entry' = [entry EXCEPT ![id].of = c]
      BY <1>t, <3>1, <3>3 DEF Entries
    <3> QED
      BY <1>9, <3>2, <3>3 DEF Damage
  <2>3. StoreTypeOK'
    BY <2>1, <2>2 DEF StoreTypeOK, StoreInv
  <2>4. \A u \in Users : JobIsOk(job[u], source[u])'
    BY <2>1, <2>2 DEF JobIsOk, StoreInv
  <2> QED
    BY <2>3, <2>4 DEF StoreInv
<1>10. CASE \E id, c \in Contents : Damage(id, c)
  BY <1>9, <1>10
<1>11. ASSUME NEW u \in Users,
              \/ CheckSource(u) \/ ReadSource(u) \/ Rename(u) \/ PutFails(u) \/ LoadFile(u)
              \/ \E x \in Extensions : Inspect(u, x)
              \/ \E c \in Contents : LoadMetadata(u, c) \/ EditSource(u, c)
       PROVE  StoreInv'
  BY <1>1, <1>2, <1>3, <1>4, <1>5, <1>6, <1>7, <1>8, <1>11
<1> QED
  BY <1>10, <1>11 DEF StoreNext

\* ArtifactStore: what is loaded is what was asked for, and what a put whose
\* source stayed as it was has stored loads, for any number of processes.
THEOREM StoreTruthful == Spec => []StoreIsTruthful
<1>1. Init => StoreInv
  BY StoreStarts DEF Init
<1>2. StoreInv /\ [Next]_vars => StoreInv'
  <2>1. ASSUME StoreInv, UNCHANGED storeVars PROVE StoreInv'
    BY <2>1 DEF StoreInv, StoreTypeOK, JobIsOk, storeVars
  <2> QED
    BY <2>1, StoreStep DEF Next, Store, Image, Text, Package, Runtime, vars
<1>3. StoreInv => StoreIsTruthful
  BY DEF StoreInv, JobIsOk, StoreIsTruthful, Entry
<1> QED
  BY <1>1, <1>2, <1>3, PTL DEF Spec

-------------------------------------------------------------------------------
(* The full image.                                                         *)

Images == Users \cup {"none", "old"}
Works  == [pc : {"idle", "hex", "s19", "hash", "unlink"}, hashes : [Formats -> Images],
           alone : BOOLEAN, outcome : {"none", "failed", "composed", "died"}]

ImageTypeOK ==
    file \in [Formats -> Images] /\ work \in [Users -> Works] /\ excuse \in BOOLEAN

\* Without an excuse only one process composes, and its HEX file is the one
\* that is there until the S19 file follows or the HEX file is removed.
PairIsOk ==
    ~excuse =>
        /\ \A u, v \in Users : Busy(u) /\ Busy(v) => u = v
        /\ \A u \in Users : work[u].pc \in {"s19", "unlink"} => file["hex"] = u
        /\ \/ \E u \in Users : work[u].pc \in {"s19", "unlink"}
           \/ "none" \in {file["hex"], file["s19"]}
           \/ file["hex"] = file["s19"]

\* Nobody else is at work while a process composes alone: what it has written
\* is there, and what it has hashed is its own.
AloneIsOk(u) ==
    /\ Busy(u) => work[u].outcome = "none"
    /\ work[u].pc \in {"hex", "s19"} => work[u].hashes["hex"] = "none"
    /\ work[u].alone /\ Busy(u) => \A v \in Users : Busy(v) => v = u
    /\ work[u].alone /\ work[u].pc = "s19" => file["hex"] = u
    /\ work[u].alone /\ work[u].pc = "hash" =>
         /\ file["hex"] = u /\ file["s19"] = u
         /\ work[u].hashes["hex"] \in {"none", u}
    /\ work[u].alone /\ work[u].outcome = "composed" =>
         work[u].hashes["hex"] = u /\ work[u].hashes["s19"] = u

ImageInv == ImageTypeOK /\ PairIsOk /\ \A u \in Users : AloneIsOk(u)

\* A composer that has not begun is one of the records.
LEMMA NoWorkIsWork ==
    /\ NoWork \in Works /\ NoWork.pc = "idle" /\ NoWork.outcome = "none"
    /\ NoWork.alone = FALSE /\ NoWork.hashes["hex"] = "none"
BY DEF NoWork, Works, Formats, Images

\* The directory holds no image, or a pair of the same image.
LEMMA ImageStarts == ImageInit => ImageInv
<1> SUFFICES ASSUME ImageInit PROVE ImageInv
  OBVIOUS
<1>1. ImageTypeOK
  BY NoWorkIsWork DEF ImageInit, ImageTypeOK, Images
<1>2. \A u \in Users : work[u] = NoWork
  BY DEF ImageInit
<1>3. PairIsOk
  BY <1>2, NoWorkIsWork DEF ImageInit, PairIsOk, Busy
<1>4. \A u \in Users : AloneIsOk(u)
  BY <1>2, NoWorkIsWork DEF AloneIsOk, Busy
<1> QED
  BY <1>1, <1>3, <1>4 DEF ImageInv

\* A step of one process that writes no file and begins nothing.
LEMMA WorkSteps ==
    ASSUME ImageInv, NEW u \in Users, NEW x \in Works, Turns(u, x), Busy(u),
           UNCHANGED file, excuse' \in BOOLEAN, excuse => excuse',
           ~excuse' /\ work[u].pc \in {"s19", "unlink"} => x.pc = "unlink",
           ~excuse' /\ x.pc = "unlink" => work[u].pc \in {"s19", "unlink"},
           x.pc \notin {"hex", "s19"},
           x.pc # "idle" => x.outcome = "none",
           x.alone = work[u].alone,
           x.alone /\ x.pc = "hash" => work[u].pc = "hash" /\ x.hashes["hex"] \in {"none", u},
           x.alone /\ x.outcome = "composed" => x.hashes["hex"] = u /\ x.hashes["s19"] = u
    PROVE  ImageInv'
<1>1. ImageTypeOK'
  BY DEF ImageInv, ImageTypeOK, Turns
<1>2. \A v \in Users : work'[v] = IF v = u THEN x ELSE work[v]
  BY DEF ImageInv, ImageTypeOK, Turns
<1>3. \A v \in Users : Busy(v)' => Busy(v)
  BY <1>2 DEF Busy
<1>4. PairIsOk'
  <2> SUFFICES ASSUME ~excuse' PROVE PairIsOk'
    BY DEF PairIsOk
  <2>1. ~excuse /\ PairIsOk
    BY DEF ImageInv
  <2>2. \A v, w \in Users : Busy(v)' /\ Busy(w)' => v = w
    BY <1>3, <2>1 DEF PairIsOk
  <2>3. \A v \in Users : work'[v].pc \in {"s19", "unlink"} => file'["hex"] = v
    BY <1>2, <2>1 DEF PairIsOk
  <2>4. \/ \E v \in Users : work'[v].pc \in {"s19", "unlink"}
        \/ "none" \in {file'["hex"], file'["s19"]}
        \/ file'["hex"] = file'["s19"]
    BY <1>2, <2>1 DEF PairIsOk
  <2> QED
    BY <2>2, <2>3, <2>4 DEF PairIsOk, Busy
<1>5. ASSUME NEW v \in Users PROVE AloneIsOk(v)'
  <2>1. AloneIsOk(v) /\ AloneIsOk(u)
    BY DEF ImageInv
  <2>2. work'[v].alone = work[v].alone
    BY <1>2
  <2>3. work'[v].alone /\ Busy(v)' => \A w \in Users : Busy(w)' => w = v
    BY <1>3, <2>1, <2>2 DEF AloneIsOk
  <2>4. CASE v = u
    BY <1>2, <2>1, <2>3, <2>4 DEF AloneIsOk, Busy
  <2>5. CASE v # u
    BY <1>2, <2>1, <2>3, <2>5 DEF AloneIsOk, Busy
  <2> QED
    BY <2>4, <2>5
<1> QED
  BY <1>1, <1>4, <1>5 DEF ImageInv

\* A file is replaced by a process that goes on; a failure to remove it, or
\* to write it, is a step of the lemma above.
LEMMA FileSteps ==
    ASSUME ImageInv, NEW u \in Users, NEW f \in Formats, NEW i \in Images,
           NEW x \in Works, file' = [file EXCEPT ![f] = i],
           Turns(u, x), Busy(u), UNCHANGED excuse,
           x.alone = work[u].alone,
           \/ f = "hex" /\ i = u /\ x.pc = "s19" /\ x.outcome = "none"
              /\ x.hashes["hex"] = "none"
           \/ f = "s19" /\ i = u /\ work[u].pc = "s19" /\ x.pc = "hash"
              /\ x.outcome = "none" /\ x.hashes["hex"] = "none"
           \/ f = "hex" /\ i = "none" /\ x.pc = "idle" /\ x.outcome = "failed"
    PROVE  ImageInv'
<1>1. ImageTypeOK'
  BY DEF ImageInv, ImageTypeOK, Turns
<1>2. \A v \in Users : work'[v] = IF v = u THEN x ELSE work[v]
  BY DEF ImageInv, ImageTypeOK, Turns
<1>3. \A v \in Users : Busy(v)' => Busy(v)
  BY <1>2 DEF Busy
<1>4. file'[f] = i /\ \A g \in Formats \ {f} : file'[g] = file[g]
  BY DEF ImageInv, ImageTypeOK
<1>5. PairIsOk'
  <2> SUFFICES ASSUME ~excuse PROVE PairIsOk'
    BY DEF PairIsOk
  <2>1. PairIsOk
    BY DEF ImageInv
  <2>2. \A v \in Users : v # u => work'[v].pc = "idle"
    BY <1>2, <2>1 DEF PairIsOk, Busy
  <2>3. \A v, w \in Users : Busy(v)' /\ Busy(w)' => v = w
    BY <2>2 DEF Busy
  <2>4. file["hex"] = u \/ work[u].pc # "s19"
    BY <2>1 DEF PairIsOk
  <2>5. /\ \A v \in Users : work'[v].pc \in {"s19", "unlink"} => file'["hex"] = v
        /\ \/ \E v \in Users : work'[v].pc \in {"s19", "unlink"}
           \/ "none" \in {file'["hex"], file'["s19"]}
           \/ file'["hex"] = file'["s19"]
    BY <1>2, <1>4, <2>2, <2>4 DEF Formats
  <2> QED
    BY <2>3, <2>5 DEF PairIsOk, Busy
<1>6. ASSUME NEW v \in Users PROVE AloneIsOk(v)'
  <2>1. AloneIsOk(v) /\ AloneIsOk(u)
    BY DEF ImageInv
  <2>2. work'[v].alone = work[v].alone
    BY <1>2
  <2>3. work'[v].alone /\ Busy(v)' => \A w \in Users : Busy(w)' => w = v
    BY <1>3, <2>1, <2>2 DEF AloneIsOk
  <2>4. CASE v = u
    <3>1. x.alone /\ work[u].pc = "s19" => file["hex"] = u
      BY <2>1 DEF AloneIsOk
    <3> QED
      BY <1>2, <1>4, <2>3, <2>4, <3>1 DEF AloneIsOk, Busy, Formats
  <2>5. CASE v # u
    <3>1. work'[v] = work[v]
      BY <1>2, <2>5
    <3>2. work[v].alone => ~Busy(v)
      BY <2>1, <2>5 DEF AloneIsOk
    <3> QED
      BY <2>1, <2>3, <3>1, <3>2 DEF AloneIsOk, Busy
  <2> QED
    BY <2>4, <2>5
<1> QED
  BY <1>1, <1>5, <1>6 DEF ImageInv

\* Every step of a composition keeps the invariant.
LEMMA ImageStep == ImageInv /\ ImageNext => ImageInv'
<1> SUFFICES ASSUME ImageInv, NEW u \in Users,
                    \/ Compose(u) \/ WriteHex(u) \/ WriteS19(u) \/ UnlinkHex(u)
                    \/ Hash(u) \/ Dies(u)
             PROVE  ImageInv'
  BY DEF ImageNext
<1>t. work[u] \in Works /\ file \in [Formats -> Images] /\ excuse \in BOOLEAN
  BY DEF ImageInv, ImageTypeOK
<1>a. AloneIsOk(u)
  BY DEF ImageInv
<1> DEFINE Ended(o) == [work[u] EXCEPT !.pc = "idle", !.outcome = o]
           At(pc)   == [work[u] EXCEPT !.pc = pc]
<1>e. \A o \in {"failed", "died"} :
        Ended(o) \in Works /\ Ended(o).pc = "idle" /\ Ended(o).outcome = o
        /\ Ended(o).alone = work[u].alone
  BY <1>t DEF Works
<1>p. \A pc \in {"s19", "hash", "unlink"} :
        At(pc) \in Works /\ At(pc).pc = pc /\ At(pc).outcome = work[u].outcome
        /\ At(pc).alone = work[u].alone /\ At(pc).hashes = work[u].hashes
  BY <1>t DEF Works
<1>i. u \in Images /\ "none" \in Images /\ "hex" \in Formats /\ "s19" \in Formats
  BY DEF Images, Formats
<1>1. CASE Compose(u)
  <2> DEFINE alone == \A v \in Users : ~Busy(v)
             x == [NoWork EXCEPT !.pc = "hex", !.alone = alone]
  <2>1. x \in Works /\ x.pc = "hex" /\ x.alone = alone /\ x.outcome = "none"
        /\ x.hashes["hex"] = "none"
    <3>1. alone \in BOOLEAN
      OBVIOUS
    <3> HIDE DEF alone
    <3> QED
      BY <3>1, NoWorkIsWork DEF Works
  <2>2. ~Busy(u) /\ excuse' = (excuse \/ ~alone) /\ UNCHANGED file
    BY <1>1 DEF Compose
  <2>3. \A v \in Users :
          /\ v = u => work'[v] = x
          /\ v # u => work'[v] = [work[v] EXCEPT !.alone = FALSE]
    BY <1>1 DEF Compose
  <2> HIDE DEF x
  <2>4. \A v \in Users :
          v # u => /\ work'[v] \in Works /\ work'[v].pc = work[v].pc
                   /\ work'[v].alone = FALSE /\ work'[v].outcome = work[v].outcome
                   /\ work'[v].hashes = work[v].hashes
    <3> SUFFICES ASSUME NEW v \in Users, v # u
                 PROVE  /\ work'[v] \in Works /\ work'[v].pc = work[v].pc
                        /\ work'[v].alone = FALSE /\ work'[v].outcome = work[v].outcome
                        /\ work'[v].hashes = work[v].hashes
      OBVIOUS
    <3>1. work[v] \in Works /\ work'[v] = [work[v] EXCEPT !.alone = FALSE]
      BY <2>3 DEF ImageInv, ImageTypeOK
    <3> QED
      BY <3>1 DEF Works
  <2>5. ImageTypeOK'
    <3>1. work' \in [Users -> Works]
      <4>1. work' = [v \in Users |-> work'[v]]
        BY <1>1 DEF Compose
      <4> QED
        BY <2>1, <2>3, <2>4, <4>1
    <3> QED
      BY <2>2, <3>1 DEF ImageTypeOK, ImageInv
  <2>6. PairIsOk'
    <3> SUFFICES ASSUME ~excuse' PROVE PairIsOk'
      BY DEF PairIsOk
    <3>1. ~excuse /\ alone
      BY <1>t, <2>2
    <3>2. \A v \in Users : work[v].pc = "idle" /\ (v # u => work'[v].pc = "idle")
      BY <2>4, <3>1 DEF Busy
    <3>3. work'[u].pc = "hex"
      BY <2>1, <2>3
    <3>4. "none" \in {file["hex"], file["s19"]} \/ file["hex"] = file["s19"]
      BY <3>1, <3>2 DEF PairIsOk, ImageInv
    <3> QED
      BY <2>2, <3>2, <3>3, <3>4 DEF PairIsOk, Busy
  <2>7. ASSUME NEW v \in Users PROVE AloneIsOk(v)'
    <3>1. CASE v = u
      <4>1. alone => \A w \in Users : w # u => work'[w].pc = "idle"
        BY <2>4 DEF Busy
      <4>2. work'[v] = x
        BY <2>3, <3>1
      <4> QED
        BY <2>1, <3>1, <4>1, <4>2 DEF AloneIsOk, Busy
    <3>2. CASE v # u
      BY <2>4, <3>2 DEF AloneIsOk, Busy, ImageInv
    <3> QED
      BY <3>1, <3>2
  <2> QED
    BY <2>5, <2>6, <2>7 DEF ImageInv
<1>2. CASE WriteHex(u)
  <2>1. Busy(u) /\ work[u].outcome = "none" /\ UNCHANGED excuse
        /\ work[u].hashes["hex"] = "none" /\ work[u].pc = "hex"
    BY <1>2, <1>a DEF WriteHex, Busy, AloneIsOk
  <2>2. CASE file' = [file EXCEPT !["hex"] = u] /\ Turns(u, At("s19"))
    BY <1>i, <1>p, <2>1, <2>2, FileSteps
  <2>3. CASE UNCHANGED file /\ Turns(u, Ended("failed"))
    BY <1>t, <1>e, <2>1, <2>3, WorkSteps
  <2> QED
    BY <1>2, <2>2, <2>3 DEF WriteHex
<1>3. CASE WriteS19(u)
  <2>1. Busy(u) /\ work[u].outcome = "none" /\ UNCHANGED excuse /\ work[u].pc = "s19"
    BY <1>3, <1>a DEF WriteS19, Busy, AloneIsOk
  <2>2. CASE file' = [file EXCEPT !["s19"] = u] /\ Turns(u, At("hash"))
    <3>1. work[u].hashes["hex"] = "none"
      BY <1>a, <2>1 DEF AloneIsOk
    <3> QED
      BY <1>i, <1>p, <2>1, <2>2, <3>1, FileSteps
  <2>3. CASE UNCHANGED file /\ Turns(u, At("unlink"))
    BY <1>t, <1>p, <2>1, <2>3, WorkSteps
  <2> QED
    BY <1>3, <2>2, <2>3 DEF WriteS19
<1>4. CASE UnlinkHex(u)
  <2>1. Busy(u) /\ Turns(u, Ended("failed"))
    BY <1>4 DEF UnlinkHex, Busy
  <2>2. CASE file' = [file EXCEPT !["hex"] = "none"] /\ UNCHANGED excuse
    BY <1>i, <1>e, <2>1, <2>2, FileSteps
  <2>3. CASE UNCHANGED file /\ excuse' = TRUE
    BY <1>e, <2>1, <2>3, WorkSteps
  <2> QED
    BY <1>4, <2>2, <2>3 DEF UnlinkHex
<1>5. CASE Hash(u)
  <2>1. Busy(u) /\ work[u].outcome = "none" /\ UNCHANGED <<file, excuse>> /\ work[u].pc = "hash"
    BY <1>5, <1>a DEF Hash, Busy, AloneIsOk
  <2> DEFINE f == IF work[u].hashes["hex"] = "none" THEN "hex" ELSE "s19"
  <2>2. CASE file[f] = "none"
    <3>1. Turns(u, Ended("failed"))
      BY <1>5, <2>2 DEF Hash
    <3> QED
      BY <1>t, <1>e, <2>1, <3>1, WorkSteps
  <2>3. CASE file[f] # "none"
    <3> DEFINE p == IF f = "hex" THEN "hash" ELSE "idle"
               o == IF f = "hex" THEN "none" ELSE "composed"
               x == [work[u] EXCEPT !.hashes[f] = file[f], !.pc = p, !.outcome = o]
    <3>1. Turns(u, x)
      BY <1>5, <2>3 DEF Hash
    <3>2. f \in Formats /\ file[f] \in Images /\ p \in {"hash", "idle"} /\ o \in {"none", "composed"}
      BY <1>t DEF Formats
    <3>3. /\ x \in Works /\ x.pc = p /\ x.outcome = o /\ x.alone = work[u].alone
          /\ x.hashes[f] = file[f]
          /\ \A g \in Formats \ {f} : x.hashes[g] = work[u].hashes[g]
      <4> HIDE DEF f, p, o
      <4> QED
        BY <1>t, <3>2 DEF Works
    <3>4. work[u].alone => file["hex"] = u /\ file["s19"] = u /\ work[u].hashes["hex"] \in {"none", u}
      BY <1>a, <2>1 DEF AloneIsOk
    <3> HIDE DEF x
    <3>5. x.alone /\ x.pc = "hash" => x.hashes["hex"] \in {"none", u}
      BY <3>3, <3>4
    <3>6. x.alone /\ x.outcome = "composed" => x.hashes["hex"] = u /\ x.hashes["s19"] = u
      BY <3>3, <3>4 DEF Formats
    <3>7. x.pc \in {"hash", "idle"} /\ (x.pc # "idle" => x.outcome = "none")
      BY <3>3
    <3> QED
      BY <1>t, <2>1, <3>1, <3>3, <3>5, <3>6, <3>7, WorkSteps
  <2> QED
    BY <2>2, <2>3
<1>6. CASE Dies(u)
  <2>1. Busy(u) /\ UNCHANGED file /\ Turns(u, Ended("died"))
        /\ excuse' = (excuse \/ work[u].pc \in {"s19", "unlink"})
    BY <1>6 DEF Dies
  <2> QED
    BY <1>t, <1>e, <2>1, WorkSteps
<1> QED
  BY <1>1, <1>2, <1>3, <1>4, <1>5, <1>6

\* compose_full_image: the two files are of one image unless a crash, a second
\* composer or a locked file excuses it, for any number of processes.
THEOREM ImagePairHolds == Spec => []ImagePairMatches
<1>1. Init => ImageInv
  BY ImageStarts DEF Init
<1>2. ImageInv /\ [Next]_vars => ImageInv'
  <2>1. ASSUME ImageInv, UNCHANGED imageVars PROVE ImageInv'
    BY <2>1 DEF ImageInv, ImageTypeOK, PairIsOk, AloneIsOk, Busy, imageVars
  <2> QED
    BY <2>1, ImageStep DEF Next, Store, Image, Text, Package, Runtime, vars
<1>3. ImageInv => ImagePairMatches
  <2> SUFFICES ASSUME ImageInv PROVE ImagePairMatches
    OBVIOUS
  <2>1. ASSUME NEW u \in Users, work[u].outcome = "composed", work[u].alone
        PROVE  work[u].hashes = [f \in Formats |-> u]
    BY <2>1 DEF ImageInv, ImageTypeOK, AloneIsOk, Works, Formats
  <2> QED
    BY <2>1 DEF ImageInv, PairIsOk, ImagePairMatches
<1> QED
  BY <1>1, <1>2, <1>3, PTL DEF Spec

-------------------------------------------------------------------------------
(* The release package.                                                    *)

RoleIds == DOMAIN Roles
Seals == [build : Nat, parts : Seq(Nat), intact : BOOLEAN]
Packs == [pc : {"idle", "identities", "validate", "bytes", "write", "verify"},
          ids : Seq(Nat), parts : Seq(Nat), temp : Seals, rebuilt : BOOLEAN,
          outcome : {"none", "written", "failed"}]

PackageTypeOK ==
    /\ tree \in [RoleIds -> [elf : Nat, bin : Nat]] /\ target \in Seals
    /\ pack \in [Users -> Packs] /\ firmware \in Nat

\* What a call has read so far is what the outputs still are, unless one was
\* replaced meanwhile; what it has sealed is of the build it names.
Read(ids, t) == \A i \in 1..Len(ids) : ids[i] = t[i].elf /\ ids[i] = t[i].bin

PackIsOk(p, t) ==
    /\ p.pc = "identities" => Len(p.ids) < 3 /\ p.parts = <<>>
    /\ p.pc = "validate" => Len(p.ids) = 3 /\ p.parts = <<>>
    /\ p.pc = "bytes" => Len(p.ids) = 3 /\ Len(p.parts) < 3 /\ OneBuild(p.ids)
    /\ ~p.rebuilt =>
         /\ p.pc \in {"identities", "validate", "bytes"} => Read(p.ids, t)
         /\ p.pc = "bytes" => \A i \in 1..Len(p.parts) : p.parts[i] = p.ids[1]
         /\ p.pc \in {"write", "verify"} => Uniform(p.temp)
         /\ p.outcome = "written" => Uniform(p.temp)

PackageInv ==
    PackageTypeOK /\ target.intact /\ \A u \in Users : PackIsOk(pack[u], tree)

\* The firmware build has three outputs.
LEMMA ThreeRoles == Len(Roles) = 3 /\ RoleIds = 1..3
BY DEF Roles, RoleIds

\* A builder that has not begun is one of the records.
LEMMA NoPackIsPack ==
    /\ NoPackage \in Seals /\ NoPackage.intact /\ Uniform(NoPackage)
    /\ NoPack \in Packs /\ NoPack.pc = "idle" /\ NoPack.outcome = "none"
    /\ NoPack.ids = <<>> /\ NoPack.parts = <<>> /\ NoPack.temp = NoPackage
    /\ NoPack.rebuilt = FALSE
BY DEF NoPackage, Sealed, Seals, NoPack, Packs, Uniform

\* The outputs of one build are there, and no package.
LEMMA PackageStarts == PackageInit => PackageInv
<1> SUFFICES ASSUME PackageInit PROVE PackageInv
  OBVIOUS
<1>1. PackageTypeOK
  BY NoPackIsPack DEF PackageInit, PackageTypeOK, RoleIds
<1>2. target.intact
  BY NoPackIsPack DEF PackageInit
<1>3. \A u \in Users : PackIsOk(pack[u], tree)
  BY NoPackIsPack DEF PackageInit, PackIsOk
<1> QED
  BY <1>1, <1>2, <1>3 DEF PackageInv

\* A step of one call that leaves the firmware outputs alone.
LEMMA PackSteps ==
    ASSUME PackageInv, NEW u \in Users, NEW x \in Packs, PackIsOk(x, tree), Goes(u, x),
           UNCHANGED <<tree, firmware>>, target' \in Seals, target'.intact
    PROVE  PackageInv'
<1>1. PackageTypeOK'
  BY DEF PackageInv, PackageTypeOK, Goes
<1>2. ASSUME NEW v \in Users PROVE PackIsOk(pack[v], tree)'
  <2>1. pack'[v] = (IF v = u THEN x ELSE pack[v]) /\ tree' = tree
    BY DEF PackageInv, PackageTypeOK, Goes
  <2> QED
    BY <2>1 DEF PackageInv
<1> QED
  BY <1>1, <1>2 DEF PackageInv

\* A call that ends.
LEMMA PackStops ==
    ASSUME PackageInv, NEW u \in Users, NEW o \in {"written", "failed"}, Stops(u, o),
           UNCHANGED <<tree, firmware>>, target' \in Seals, target'.intact,
           o = "written" => pack[u].pc = "verify"
    PROVE  PackageInv'
<1> DEFINE temp == IF o = "written" THEN pack[u].temp ELSE NoPackage
           x == [NoPack EXCEPT !.temp = temp, !.rebuilt = pack[u].rebuilt, !.outcome = o]
<1>1. pack[u] \in Packs /\ PackIsOk(pack[u], tree)
  BY DEF PackageInv, PackageTypeOK
<1>2. temp \in Seals /\ pack[u].rebuilt \in BOOLEAN
  BY <1>1, NoPackIsPack DEF Packs
<1>3. x \in Packs /\ x.pc = "idle" /\ x.temp = temp /\ x.rebuilt = pack[u].rebuilt /\ x.outcome = o
  <2> HIDE DEF temp
  <2> QED
    BY <1>2, NoPackIsPack DEF Packs
<1>4. ~x.rebuilt /\ o = "written" => Uniform(x.temp)
  BY <1>1, <1>3 DEF PackIsOk
<1>5. PackIsOk(x, tree)
  <2> HIDE DEF x
  <2> QED
    BY <1>3, <1>4 DEF PackIsOk
<1>6. Goes(u, x)
  BY DEF Stops
<1> QED
  BY <1>3, <1>5, <1>6, PackSteps

\* Every step of a call, and of the firmware build, keeps the invariant.
LEMMA PackageStep == PackageInv /\ PackageNext => PackageInv'
<1> SUFFICES ASSUME PackageInv, PackageNext PROVE PackageInv'
  OBVIOUS
<1>t. /\ tree \in [RoleIds -> [elf : Nat, bin : Nat]] /\ target \in Seals /\ target.intact
      /\ pack \in [Users -> Packs] /\ firmware \in Nat
  BY DEF PackageInv, PackageTypeOK
<1>a. \A u \in Users : pack[u] \in Packs /\ PackIsOk(pack[u], tree)
  BY <1>t DEF PackageInv
<1>1. CASE Rebuild
  <2>1. tree' \in [RoleIds -> [elf : Nat, bin : Nat]] /\ firmware' \in Nat /\ target' = target
    <3> DEFINE old == {i \in DOMAIN Roles : tree[i].bin # firmware}
    <3>1. CASE old = {}
      BY <1>t, <1>1, <3>1 DEF Rebuild
    <3>2. CASE old # {}
      <4>1. PICK i \in old : tree' =
              IF tree[i].elf = firmware THEN [tree EXCEPT ![i].bin = firmware]
              ELSE [tree EXCEPT ![i].elf = firmware]
        BY <1>1, <3>2 DEF Rebuild
      <4>2. UNCHANGED <<firmware, target>>
        BY <1>1, <3>2 DEF Rebuild
      <4>3. CASE tree' = [tree EXCEPT ![i].bin = firmware]
        BY <1>t, <4>2, <4>3
      <4>4. CASE tree' = [tree EXCEPT ![i].elf = firmware]
        BY <1>t, <4>2, <4>4
      <4> QED
        BY <4>1, <4>3, <4>4
    <3> QED
      BY <3>1, <3>2
  <2> DEFINE Reads(u) == pack[u].pc \in {"identities", "validate", "bytes"}
  <2>2. pack' = [u \in Users |-> [pack[u] EXCEPT !.rebuilt = @ \/ Reads(u)]]
    BY <1>1 DEF Rebuild
  <2>3. ASSUME NEW u \in Users PROVE pack'[u] \in Packs /\ PackIsOk(pack'[u], tree')
    <3> DEFINE x == [pack[u] EXCEPT !.rebuilt = @ \/ Reads(u)]
    <3>1. pack'[u] = x
      BY <2>2
    <3>2. /\ x \in Packs /\ x.pc = pack[u].pc /\ x.ids = pack[u].ids /\ x.parts = pack[u].parts
          /\ x.temp = pack[u].temp /\ x.outcome = pack[u].outcome
          /\ x.rebuilt = (pack[u].rebuilt \/ Reads(u))
      BY <1>a DEF Packs
    <3>3. PackIsOk(x, tree')
      <4> HIDE DEF x
      <4> QED
        BY <1>a, <3>2 DEF PackIsOk
    <3> QED
      BY <3>1, <3>2, <3>3
  <2>4. pack' \in [Users -> Packs]
    BY <2>2, <2>3
  <2> QED
    BY <1>t, <2>1, <2>3, <2>4 DEF PackageInv, PackageTypeOK
<1>2. ASSUME NEW u \in Users, BuildPackage(u) PROVE PackageInv'
  <2> DEFINE x == [NoPack EXCEPT !.pc = "identities"]
  <2>1. x \in Packs /\ x.pc = "identities" /\ x.ids = <<>> /\ x.parts = <<>> /\ x.outcome = "none"
    BY NoPackIsPack DEF Packs
  <2>2. PackIsOk(x, tree)
    <3> HIDE DEF x
    <3> QED
      BY <2>1 DEF PackIsOk, Read
  <2> QED
    BY <1>t, <1>2, <2>1, <2>2, PackSteps DEF BuildPackage
<1>3. ASSUME NEW u \in Users, ReadIdentity(u) PROVE PackageInv'
  <2> DEFINE n == Len(pack[u].ids)
             r == tree[n + 1]
             ids == Append(pack[u].ids, r.elf)
             pc == IF Len(ids) = Len(Roles) THEN "validate" ELSE "identities"
             x == [pack[u] EXCEPT !.ids = ids, !.pc = pc]
  <2>1. pack[u] \in Packs /\ PackIsOk(pack[u], tree) /\ pack[u].pc = "identities"
        /\ UNCHANGED <<tree, firmware, target>>
    BY <1>a, <1>3 DEF ReadIdentity
  <2>2. n \in 0..2 /\ pack[u].ids \in Seq(Nat) /\ pack[u].parts = <<>>
    <3>1. pack[u].ids \in Seq(Nat)
      BY <2>1 DEF Packs
    <3>2. n < 3 /\ pack[u].parts = <<>>
      BY <2>1 DEF PackIsOk
    <3>3. n \in Nat
      BY <3>1
    <3> HIDE DEF n
    <3> QED
      BY <3>1, <3>2, <3>3
  <2>3. r \in [elf : Nat, bin : Nat]
    <3>1. n + 1 \in RoleIds
      <4> HIDE DEF n
      <4> QED
        BY <2>2, ThreeRoles
    <3> QED
      BY <1>t, <3>1
  <2>4. ids \in Seq(Nat) /\ Len(ids) = n + 1 /\ ids[n + 1] = r.elf
        /\ \A i \in 1..n : ids[i] = pack[u].ids[i]
    BY <2>2, <2>3
  <2>5. CASE r.elf # r.bin
    <3>1. Stops(u, "failed")
      BY <1>3, <2>5 DEF ReadIdentity
    <3> QED
      BY <1>t, <2>1, <3>1, PackStops
  <2>6. CASE r.elf = r.bin
    <3>1. Goes(u, x)
      BY <1>3, <2>6 DEF ReadIdentity
    <3>2. pc \in {"validate", "identities"} /\ (pc = "validate" <=> n + 1 = 3)
      BY <2>4, ThreeRoles
    <3>3. /\ x \in Packs /\ x.pc = pc /\ x.ids = ids /\ x.parts = <<>>
          /\ x.outcome = pack[u].outcome /\ x.rebuilt = pack[u].rebuilt /\ x.temp = pack[u].temp
      <4> HIDE DEF ids, pc
      <4> QED
        BY <2>1, <2>2, <2>4, <3>2 DEF Packs
    <3>4. ~x.rebuilt => Read(ids, tree)
      <4>1. ~x.rebuilt => Read(pack[u].ids, tree)
        BY <2>1, <3>3 DEF PackIsOk
      <4> SUFFICES ASSUME ~x.rebuilt, NEW i \in 1..Len(ids)
                   PROVE  ids[i] = tree[i].elf /\ ids[i] = tree[i].bin
        BY DEF Read
      <4>2. CASE i = n + 1
        BY <2>4, <2>6, <4>2
      <4>3. CASE i # n + 1
        BY <2>2, <2>4, <4>1, <4>3 DEF Read
      <4> QED
        BY <4>2, <4>3
    <3>5. PackIsOk(x, tree)
      <4> HIDE DEF x, ids, pc
      <4> QED
        <5>1. (x.pc = "identities" => Len(ids) < 3) /\ (x.pc = "validate" => Len(ids) = 3)
          <6> HIDE DEF n
          <6> QED
            BY <2>2, <2>4, <3>2, <3>3
        <5>2. x.pc \in {"validate", "identities"} /\ x.ids = ids /\ x.parts = <<>>
          BY <3>2, <3>3
        <5>3. ~x.rebuilt /\ x.outcome = "written" => Uniform(x.temp)
          BY <2>1, <3>3 DEF PackIsOk
        <5> QED
          BY <3>4, <5>1, <5>2, <5>3 DEF PackIsOk
    <3> QED
      BY <1>t, <2>1, <3>1, <3>3, <3>5, PackSteps
  <2> QED
    BY <2>5, <2>6
<1>4. ASSUME NEW u \in Users, ValidateBuild(u) PROVE PackageInv'
  <2>1. pack[u] \in Packs /\ PackIsOk(pack[u], tree) /\ pack[u].pc = "validate"
        /\ UNCHANGED <<tree, firmware, target>>
    BY <1>a, <1>4 DEF ValidateBuild
  <2>2. CASE OneBuild(pack[u].ids)
    <3> DEFINE x == [pack[u] EXCEPT !.pc = "bytes"]
    <3>1. Goes(u, x)
      BY <1>4, <2>2 DEF ValidateBuild
    <3>2. /\ x \in Packs /\ x.pc = "bytes" /\ x.ids = pack[u].ids /\ x.parts = pack[u].parts
          /\ x.outcome = pack[u].outcome /\ x.rebuilt = pack[u].rebuilt /\ x.temp = pack[u].temp
      BY <2>1 DEF Packs
    <3>3. PackIsOk(x, tree)
      <4> HIDE DEF x
      <4> QED
        BY <2>1, <2>2, <3>2 DEF PackIsOk
    <3> QED
      BY <1>t, <2>1, <3>1, <3>2, <3>3, PackSteps
  <2>3. CASE ~OneBuild(pack[u].ids)
    <3>1. Stops(u, "failed")
      BY <1>4, <2>3 DEF ValidateBuild
    <3> QED
      BY <1>t, <2>1, <3>1, PackStops
  <2> QED
    BY <2>2, <2>3
<1>5. ASSUME NEW u \in Users, ReadBytes(u) PROVE PackageInv'
  <2> DEFINE n == Len(pack[u].parts)
             b == tree[n + 1].bin
             parts == Append(pack[u].parts, b)
             last == Len(parts) = Len(Roles)
             pc == IF last THEN "write" ELSE "bytes"
             temp == IF last THEN Sealed(pack[u].ids[1], parts) ELSE pack[u].temp
             x == [pack[u] EXCEPT !.parts = parts, !.pc = pc, !.temp = temp]
  <2>1. pack[u] \in Packs /\ PackIsOk(pack[u], tree) /\ pack[u].pc = "bytes"
        /\ UNCHANGED <<tree, firmware, target>> /\ Goes(u, x)
    BY <1>a, <1>5 DEF ReadBytes
  <2>2. n \in 0..2 /\ pack[u].parts \in Seq(Nat) /\ pack[u].ids \in Seq(Nat) /\ Len(pack[u].ids) = 3
        /\ OneBuild(pack[u].ids) /\ pack[u].ids[1] \in Nat
    <3>1. pack[u].ids \in Seq(Nat) /\ pack[u].parts \in Seq(Nat)
      BY <2>1 DEF Packs
    <3>2. n < 3 /\ Len(pack[u].ids) = 3 /\ OneBuild(pack[u].ids)
      BY <2>1 DEF PackIsOk
    <3>3. n \in Nat /\ pack[u].ids[1] \in Nat
      BY <3>1, <3>2
    <3> HIDE DEF n
    <3> QED
      BY <3>1, <3>2, <3>3
  <2>3. b \in Nat
    <3>1. n + 1 \in RoleIds
      <4> HIDE DEF n
      <4> QED
        BY <2>2, ThreeRoles
    <3> QED
      BY <1>t, <3>1
  <2>4. parts \in Seq(Nat) /\ Len(parts) = n + 1 /\ parts[n + 1] = b
        /\ \A i \in 1..n : parts[i] = pack[u].parts[i]
    BY <2>2, <2>3
  <2>5. last <=> n + 1 = 3
    BY <2>4, ThreeRoles
  <2>6. temp \in Seals
    BY <2>1, <2>2, <2>4 DEF Sealed, Seals, Packs
  <2>7. /\ x \in Packs /\ x.pc = pc /\ x.ids = pack[u].ids /\ x.parts = parts
        /\ x.outcome = pack[u].outcome /\ x.rebuilt = pack[u].rebuilt /\ x.temp = temp
    <3>1. pc \in {"write", "bytes"}
      OBVIOUS
    <3> HIDE DEF parts, pc, temp
    <3> QED
      BY <2>1, <2>4, <2>6, <3>1 DEF Packs
  <2>8. ~x.rebuilt => \A i \in 1..Len(parts) : parts[i] = pack[u].ids[1]
    <3>1. ~x.rebuilt => Read(pack[u].ids, tree) /\ \A i \in 1..n : pack[u].parts[i] = pack[u].ids[1]
      BY <2>1, <2>7 DEF PackIsOk
    <3>a. n \in 0..2 /\ n + 1 \in 1..3 /\ 1 \in 1..3
      <4> HIDE DEF n
      <4> QED
        BY <2>2
    <3>b. DOMAIN pack[u].ids = 1..3
      BY <2>2
    <3> HIDE DEF parts, x, n
    <3>2. ~x.rebuilt => b = pack[u].ids[n + 1]
      BY <2>2, <3>1, <3>a DEF Read
    <3>3. pack[u].ids[n + 1] = pack[u].ids[1]
      BY <2>2, <3>a, <3>b DEF OneBuild
    <3> HIDE DEF b
    <3> QED
      BY <2>2, <2>4, <3>a, <3>1, <3>2, <3>3
  <2>9. ~x.rebuilt /\ pc = "write" => Uniform(temp)
    BY <2>4, <2>8 DEF Uniform, Sealed
  <2>10. ~x.rebuilt => Read(pack[u].ids, tree)
    BY <2>1, <2>7 DEF PackIsOk
  <2>11. pc \in {"write", "bytes"} /\ (pc = "bytes" => n + 1 < 3)
    <3>1. n \in 0..2
      BY <2>2
    <3> HIDE DEF n, last
    <3> QED
      BY <2>5, <3>1
  <2>12. PackIsOk(x, tree)
    <3>1. pack[u].outcome = "written" /\ ~pack[u].rebuilt => Uniform(temp)
      BY <2>1, <2>7, <2>9 DEF PackIsOk
    <3> HIDE DEF x, pc, temp, parts
    <3> QED
      BY <2>2, <2>4, <2>7, <2>8, <2>9, <2>10, <2>11, <3>1 DEF PackIsOk
  <2> QED
    BY <1>t, <2>1, <2>7, <2>12, PackSteps
<1>6. ASSUME NEW u \in Users, WriteTemporary(u) PROVE PackageInv'
  <2>1. PICK ok \in BOOLEAN : Goes(u, [pack[u] EXCEPT !.pc = "verify", !.temp.intact = ok])
    BY <1>6 DEF WriteTemporary
  <2> DEFINE temp == [pack[u].temp EXCEPT !.intact = ok]
             x == [pack[u] EXCEPT !.pc = "verify", !.temp = temp]
  <2>2. pack[u] \in Packs /\ PackIsOk(pack[u], tree) /\ pack[u].pc = "write"
        /\ UNCHANGED <<tree, firmware, target>>
    BY <1>a, <1>6 DEF WriteTemporary
  <2>3. temp \in Seals /\ temp.build = pack[u].temp.build /\ temp.parts = pack[u].temp.parts
    BY <2>2 DEF Packs, Seals
  <2>4. /\ x \in Packs /\ x.pc = "verify" /\ x.ids = pack[u].ids /\ x.parts = pack[u].parts
        /\ x.outcome = pack[u].outcome /\ x.rebuilt = pack[u].rebuilt /\ x.temp = temp
    <3> HIDE DEF temp
    <3> QED
      BY <2>2, <2>3 DEF Packs
  <2>5. PackIsOk(x, tree)
    <3> HIDE DEF x, temp
    <3> QED
      BY <2>2, <2>3, <2>4 DEF PackIsOk, Uniform
  <2>6. Goes(u, x)
    BY <2>1, <2>2 DEF Packs, Seals
  <2> QED
    BY <1>t, <2>2, <2>4, <2>5, <2>6, PackSteps
<1>7. ASSUME NEW u \in Users, Replace(u) PROVE PackageInv'
  <2>1. pack[u].temp \in Seals /\ pack[u].pc = "verify" /\ UNCHANGED <<tree, firmware>>
    BY <1>a, <1>7 DEF Replace, Packs
  <2>2. CASE Verifies(pack[u].temp) /\ target' = pack[u].temp /\ Stops(u, "written")
    BY <2>1, <2>2, PackStops DEF Verifies
  <2>3. CASE UNCHANGED target /\ Stops(u, "failed")
    BY <1>t, <2>1, <2>3, PackStops
  <2> QED
    BY <1>7, <2>2, <2>3 DEF Replace
<1> QED
  BY <1>1, <1>2, <1>3, <1>4, <1>5, <1>6, <1>7 DEF PackageNext

\* build_as5pr_release_package and write_release_package: the target is never
\* a package that does not verify, and one that was built while no output was
\* replaced is of one build, for any number of processes and builds.
THEOREM PackageVerified == Spec => []PackageIsVerified
<1>1. Init => PackageInv
  BY PackageStarts DEF Init
<1>2. PackageInv /\ [Next]_vars => PackageInv'
  <2>1. ASSUME PackageInv, UNCHANGED packageVars PROVE PackageInv'
    BY <2>1 DEF PackageInv, PackageTypeOK, packageVars
  <2> QED
    BY <2>1, PackageStep DEF Next, Store, Image, Text, Package, Runtime, vars
<1>3. PackageInv => PackageIsVerified
  BY DEF PackageInv, PackIsOk, PackageIsVerified
<1> QED
  BY <1>1, <1>2, <1>3, PTL DEF Spec
-------------------------------------------------------------------------------
(* Images as text: induction over naturals, runs and folds.                *)

\* A set of naturals has a least member: what every induction below rests on.
LEMMA LeastNumber ==
    ASSUME NEW T, T \subseteq Nat, T # {}
    PROVE  \E x \in T : \A y \in T : x <= y
<1>1. IsWellFoundedOn(OpToRel(<, Nat), Nat)
  BY NatLessThanWellFounded
<1>2. \E x \in T : \A y \in T : ~ (<<y, x>> \in OpToRel(<, Nat))
  BY <1>1, WFMin
<1>3. OpToRel(<, Nat) = {ss \in Nat \X Nat : ss[1] < ss[2]}
  BY Zenon DEF OpToRel
<1>4. PICK x \in T : \A y \in T : ~ (<<y, x>> \in {ss \in Nat \X Nat : ss[1] < ss[2]})
  BY ONLY <1>2, <1>3, Zenon
<1>5. ASSUME NEW y \in T PROVE x <= y
  <2>1. ~ (<<y, x>> \in {ss \in Nat \X Nat : ss[1] < ss[2]})
    BY <1>4
  <2> QED
    BY ONLY <2>1, <1>4, y \in T, T \subseteq Nat, SMT
<1> QED
  BY <1>4, <1>5

\* Induction for a set of naturals; no operator is a parameter.
LEMMA Induction ==
    ASSUME NEW S, 0 \in S, \A n \in Nat : n \in S => n + 1 \in S
    PROVE  Nat \subseteq S
<1> SUFFICES ASSUME ~(Nat \subseteq S) PROVE FALSE
  OBVIOUS
<1> DEFINE T == {n \in Nat : n \notin S}
<1>1. T \subseteq Nat /\ T # {}
  OBVIOUS
<1>2. PICK x \in T : \A y \in T : x <= y
  <2> HIDE DEF T
  <2> QED
    BY <1>1, LeastNumber
<1>3. x # 0 /\ x - 1 \in Nat
  BY <1>2
<1>4. x - 1 \in S
  BY <1>2, <1>3
<1> QED
  BY <1>2, <1>3, <1>4

\* Induction along a run of n steps.
LEMMA RunInduction ==
    ASSUME NEW n \in Nat, NEW S, 0 \in S, \A i \in 1..n : i - 1 \in S => i \in S
    PROVE  \A i \in 0..n : i \in S
<1> DEFINE T == {i \in Nat : i <= n => i \in S}
<1>1. 0 \in T
  OBVIOUS
<1>2. ASSUME NEW i \in Nat, i \in T PROVE i + 1 \in T
  <2> SUFFICES ASSUME i + 1 <= n PROVE i + 1 \in S
    OBVIOUS
  <2>1. i + 1 \in 1..n /\ (i + 1) - 1 = i /\ i \in S
    BY <1>2
  <2> QED
    BY <2>1
<1>3. Nat \subseteq T
  <2> HIDE DEF T
  <2> QED
    BY <1>1, <1>2, Induction
<1> QED
  BY <1>3

\* A run whose every step stays in St is a function into St.
LEMMA RunStays ==
    ASSUME NEW n \in Nat, NEW St, NEW r, r = [i \in 0..n |-> r[i]],
           r[0] \in St, \A i \in 1..n : r[i - 1] \in St => r[i] \in St
    PROVE  r \in [0..n -> St]
<1> DEFINE T == {i \in 0..n : r[i] \in St}
<1>1. 0 \in T /\ \A i \in 1..n : i - 1 \in T => i \in T
  OBVIOUS
<1>2. \A i \in 0..n : i \in T
  <2> HIDE DEF T
  <2> QED
    BY <1>1, RunInduction
<1> QED
  BY <1>2

\* The greatest number of a set.
LEMMA MaxOfTo ==
    ASSUME NEW n \in Nat, NEW x \in SUBSET (1..(n + 1)), n + 1 \in x
    PROVE  Max(x) = n + 1 /\ x \ {Max(x)} \in SUBSET (1..n)
<1>1. \A m \in x : m \in Nat /\ m <= n + 1
  OBVIOUS
<1>2. Max(x) \in x /\ \A m \in x : Max(x) >= m
  BY <1>1 DEF Max
<1>3. Max(x) = n + 1
  <2>1. Max(x) \in Nat /\ Max(x) <= n + 1
    BY <1>1, <1>2
  <2>2. Max(x) >= n + 1
    BY <1>2
  <2> QED
    BY <2>1, <2>2
<1>4. \A m \in x : m # n + 1 => m \in 1..n
  OBVIOUS
<1> QED
  BY <1>3, <1>4

\* The greatest of some numbers up to n.
LEMMA MaxIsIn ==
    ASSUME NEW n \in Nat, NEW x \in SUBSET (1..n), x # {}
    PROVE  Max(x) \in x /\ \A k \in x : Max(x) >= k
<1>1. \E m \in x : \A k \in x : m >= k
  <2> DEFINE T == {n - k : k \in x}
  <2>1. T \subseteq Nat /\ T # {}
    <3>1. \A k \in x : n - k \in Nat
      OBVIOUS
    <3> QED
      BY <3>1
  <2>2. PICK d \in T : \A e \in T : d <= e
    <3> HIDE DEF T
    <3> QED
      BY <2>1, LeastNumber
  <2>3. PICK m \in x : d = n - m
    BY <2>2
  <2>4. ASSUME NEW k \in x PROVE m >= k
    <3>1. n - m <= n - k
      BY <2>2, <2>3
    <3> QED
      BY <3>1
  <2> QED
    BY <2>4
<1> QED
  BY <1>1 DEF Max

\* The greatest of a set of places and 0.
LEMMA MaxWithZero ==
    ASSUME NEW n \in Nat, NEW x \in SUBSET (1..n)
    PROVE  Max({0} \cup x) \in {0} \cup x /\ \A i \in x : i <= Max({0} \cup x)
<1>1. \E m \in {0} \cup x : \A k \in {0} \cup x : m >= k
  <2>1. CASE x = {}
    BY <2>1
  <2>2. CASE x # {}
    <3>1. Max(x) \in x /\ \A k \in x : Max(x) >= k
      BY <2>2, MaxIsIn
    <3>2. Max(x) \in Nat /\ \A k \in x : k \in Nat
      <4>1. x \subseteq Nat
        OBVIOUS
      <4> QED
        BY <3>1, <4>1
    <3> QED
      BY <3>1, <3>2
  <2> QED
    BY <2>1, <2>2
<1>2. /\ Max({0} \cup x) \in {0} \cup x
      /\ \A k \in {0} \cup x : Max({0} \cup x) >= k
  BY <1>1 DEF Max
<1> QED
  BY <1>2

\* g folds G over s, as FoldLeft does: by the greatest place of a set of places.
Folding(g, G, base, s) ==
    \A x \in SUBSET (1..Len(s)) :
        IF x = {} THEN g[x] = base
        ELSE /\ <<g[x \ {Max(x)}], s[Max(x)]>> \in DOMAIN G
             /\ g[x] = G[<<g[x \ {Max(x)}], s[Max(x)]>>]

\* The function that a fold chooses exists, for every list s.
LEMMA FoldExists ==
    ASSUME NEW St, NEW E, NEW base \in St, NEW s \in Seq(E), NEW G \in [St \X E -> St]
    PROVE  \E g \in [SUBSET (1..Len(s)) -> St] : Folding(g, G, base, s)
<1> DEFINE Good(n) == \E g \in [SUBSET (1..n) -> St] : \A x \in SUBSET (1..n) :
              g[x] = IF x = {} THEN base ELSE G[<<g[x \ {Max(x)}], s[Max(x)]>>]
<1> DEFINE S == {n \in Nat : n <= Len(s) => Good(n)}
<1>1. 0 \in S
  <2>1. 1..0 = {}
    OBVIOUS
  <2>2. [x \in SUBSET (1..0) |-> base] \in [SUBSET (1..0) -> St]
    OBVIOUS
  <2>3. Good(0)
    BY <2>1, <2>2
  <2> QED
    BY <2>3
<1>2. ASSUME NEW n \in Nat, n \in S PROVE n + 1 \in S
  <2> SUFFICES ASSUME n + 1 <= Len(s) PROVE Good(n + 1)
    <3> HIDE DEF Good
    <3> QED
      OBVIOUS
  <2>0. Len(s) \in Nat /\ n <= Len(s)
    OBVIOUS
  <2>1. PICK g \in [SUBSET (1..n) -> St] : \A x \in SUBSET (1..n) :
              g[x] = IF x = {} THEN base ELSE G[<<g[x \ {Max(x)}], s[Max(x)]>>]
    BY <1>2, <2>0
  <2> DEFINE h == [x \in SUBSET (1..(n + 1)) |->
                     IF n + 1 \in x THEN G[<<g[x \ {n + 1}], s[n + 1]>>] ELSE g[x]]
  <2>2. s[n + 1] \in E
    BY <2>0
  <2>3. ASSUME NEW x \in SUBSET (1..(n + 1))
        PROVE  /\ h[x] \in St
               /\ h[x] = IF x = {} THEN base ELSE G[<<h[x \ {Max(x)}], s[Max(x)]>>]
    <3>1. CASE n + 1 \in x
      <4>1. Max(x) = n + 1 /\ x \ {n + 1} \in SUBSET (1..n)
        BY <3>1, MaxOfTo
      <4>2. h[x] = G[<<g[x \ {n + 1}], s[n + 1]>>]
        BY <3>1
      <4>3. n + 1 \notin x \ {n + 1} /\ x \ {n + 1} \in SUBSET (1..(n + 1))
        OBVIOUS
      <4>4. h[x \ {n + 1}] = g[x \ {n + 1}]
        BY <4>3
      <4>5. g[x \ {n + 1}] \in St
        BY <4>1
      <4> HIDE DEF h
      <4> QED
        BY <2>2, <3>1, <4>1, <4>2, <4>4, <4>5
    <3>2. CASE n + 1 \notin x
      <4>1. x \in SUBSET (1..n)
        BY <3>2
      <4>2. h[x] = g[x]
        BY <3>2
      <4>3. CASE x = {}
        BY <2>1, <4>1, <4>2, <4>3
      <4>4. CASE x # {}
        <5>1. x \ {Max(x)} \in SUBSET (1..n) /\ x \ {Max(x)} \in SUBSET (1..(n + 1))
          BY <4>1
        <5>2. n + 1 \notin x \ {Max(x)}
          BY <3>2
        <5>3. h[x \ {Max(x)}] = g[x \ {Max(x)}]
          BY <5>1, <5>2
        <5> HIDE DEF h
        <5> QED
          BY <2>1, <4>1, <4>2, <4>4, <5>3
      <4> QED
        BY <4>3, <4>4
    <3> QED
      BY <3>1, <3>2
  <2>4. h \in [SUBSET (1..(n + 1)) -> St]
    <3> HIDE DEF h
    <3>1. h = [x \in SUBSET (1..(n + 1)) |-> h[x]]
      BY DEF h
    <3> QED
      BY <2>3, <3>1
  <2> HIDE DEF h
  <2> QED
    BY <2>3, <2>4
<1>3. Nat \subseteq S
  <2> HIDE DEF S
  <2> QED
    BY <1>1, <1>2, Induction
<1>4. Good(Len(s))
  <2> HIDE DEF Good
  <2> QED
    BY <1>3
<1>5. PICK g \in [SUBSET (1..Len(s)) -> St] : \A x \in SUBSET (1..Len(s)) :
              g[x] = IF x = {} THEN base ELSE G[<<g[x \ {Max(x)}], s[Max(x)]>>]
  BY <1>4
<1>6. ASSUME NEW x \in SUBSET (1..Len(s)), x # {}
      PROVE  <<g[x \ {Max(x)}], s[Max(x)]>> \in DOMAIN G
  <2>0. Len(s) \in Nat
    OBVIOUS
  <2>1. Max(x) \in x
    BY <1>6, <2>0, MaxIsIn
  <2>2. Max(x) \in 1..Len(s) /\ x \ {Max(x)} \in SUBSET (1..Len(s))
    BY <2>1
  <2> QED
    BY <2>2
<1>7. Folding(g, G, base, s)
  BY <1>5, <1>6 DEF Folding
<1> QED
  BY <1>7

\* What a fold does with the numbers up to i: it takes i and goes on below.
LEMMA UpTo ==
    ASSUME NEW n \in Nat, NEW i \in 1..n
    PROVE  /\ 1..i \in SUBSET (1..n) /\ 1..i # {} /\ Max(1..i) = i
           /\ (1..i) \ {i} = 1..(i - 1)
<1>1. i - 1 \in Nat /\ (i - 1) + 1 = i /\ i \in 1..i
  OBVIOUS
<1>2. Max(1..i) = i
  BY <1>1, MaxOfTo
<1> QED
  BY <1>2

\* A part of a list.
LEMMA PartIs ==
    ASSUME NEW E, NEW t \in Seq(E), NEW from \in Nat \ {0}, NEW to \in Nat,
           from <= to + 1, to <= Len(t)
    PROVE  /\ SubSeq(t, from, to) \in Seq(E) /\ Len(SubSeq(t, from, to)) = to + 1 - from
           /\ \A j \in 1..(to + 1 - from) : SubSeq(t, from, to)[j] = t[from + j - 1]
<1>1. Len(t) \in Nat /\ \A j \in 1..Len(t) : t[j] \in E
  BY LenProperties
<1>2. \A j \in from..to : j \in 1..Len(t)
  BY <1>1
<1>3. \A j \in from..to : t[j] \in E
  BY <1>1, <1>2
<1>4. from \in Int /\ to \in Int
  OBVIOUS
<1>5. /\ SubSeq(t, from, to) \in Seq(E)
      /\ Len(SubSeq(t, from, to)) = IF from <= to THEN to - from + 1 ELSE 0
      /\ \A j \in 1..(to - from + 1) : SubSeq(t, from, to)[j] = t[from + j - 1]
  BY ONLY <1>3, <1>4, SubSeqProperties
<1>6. to - from + 1 = to + 1 - from /\ (~(from <= to) => to + 1 - from = 0)
  OBVIOUS
<1> QED
  BY ONLY <1>5, <1>6

LineKinds == {"data", "page", "count", "end"}
Bytes == Seq(Nat)
Lines == [kind : LineKinds, at : Nat, data : Bytes]
Segments == [at : Nat, data : Bytes]
States == [ok : BOOLEAN, ended : BOOLEAN, base : Nat, entry : Nat, counts : Seq(Nat),
           segments : Seq(Segments)]
Merges == [ok : BOOLEAN, segments : Seq(Segments)]
Joins == [ok : BOOLEAN, next : Nat, data : Bytes]

Keep(found, l, from, to) ==
    IF l.data = <<>> \/ Outside(Segment(l.at, l.data), from, to) THEN found
    ELSE Append(found, Segment(l.at, l.data))

\* What Insert returns: s goes behind the first m.
Inserted(t, s, m, u) ==
    /\ m \in 0..Len(t) /\ u \in Seq(Segments) /\ Len(u) = Len(t) + 1
    /\ \A i \in 1..m : u[i] = t[i] /\ t[i].at <= s.at
    /\ u[m + 1] = s
    /\ \A i \in (m + 2)..(Len(t) + 1) : u[i] = t[i - 1]
    /\ \A i \in (m + 1)..Len(t) : t[i].at > s.at
Ascending(t) == \A i, j \in 1..Len(t) : i < j => t[i].at <= t[j].at

\* Where the stable sort puts a segment into what is sorted already.
LEMMA InsertIs ==
    ASSUME NEW t \in Seq(Segments), NEW s \in Segments
    PROVE  /\ Insert(t, s) \in Seq(Segments)
           /\ Ascending(t) => \E m \in 0..Len(t) : Inserted(t, s, m, Insert(t, s))
<1> DEFINE n == Len(t)
           before == {i \in DOMAIN t : t[i].at <= s.at}
           m == Max({0} \cup before)
           u == Insert(t, s)
<1>1. n \in Nat /\ DOMAIN t = 1..n /\ \A i \in 1..n : t[i] \in Segments /\ t[i].at \in Nat
  <2>1. \A i \in 1..n : t[i] \in Segments
    OBVIOUS
  <2>2. \A x \in Segments : x.at \in Nat
    BY DEF Segments
  <2> QED
    BY <2>1, <2>2
<1>2. m \in {0} \cup before /\ \A i \in before : i <= m
  BY <1>1, MaxWithZero
<1>3. m \in 0..n /\ s.at \in Nat
  BY <1>1, <1>2 DEF Segments
<1> DEFINE a == SubSeq(t, 1, m)
           b == SubSeq(t, m + 1, n)
<1>4. u = (a \o <<s>>) \o b
  <2>1. u = (SubSeq(t, 1, (m + 1) - 1) \o <<s>>) \o SubSeq(t, m + 1, n)
    BY DEF Insert, InsertAt
  <2>2. (m + 1) - 1 = m
    BY <1>3
  <2> HIDE DEF m, u
  <2> QED
    BY <2>1, <2>2
<1> HIDE DEF m
<1>5. /\ a \in Seq(Segments) /\ Len(a) = m /\ \A i \in 1..m : a[i] = t[i]
      /\ b \in Seq(Segments) /\ Len(b) = n - m /\ \A i \in 1..(n - m) : b[i] = t[m + i]
  <2>1. /\ t \in Seq(Segments) /\ 1 \in Nat \ {0} /\ m \in Nat /\ 1 <= m + 1 /\ m <= n
        /\ m + 1 \in Nat \ {0} /\ n \in Nat /\ m + 1 <= n + 1 /\ n <= n /\ n = Len(t)
    BY <1>1, <1>3
  <2> HIDE DEF n
  <2>2. /\ a \in Seq(Segments) /\ Len(a) = m + 1 - 1
        /\ \A i \in 1..(m + 1 - 1) : a[i] = t[1 + i - 1]
    BY ONLY <2>1, PartIs DEF a
  <2>3. /\ b \in Seq(Segments) /\ Len(b) = n + 1 - (m + 1)
        /\ \A i \in 1..(n + 1 - (m + 1)) : b[i] = t[(m + 1) + i - 1]
    BY ONLY <2>1, PartIs DEF b
  <2>4. /\ m + 1 - 1 = m /\ n + 1 - (m + 1) = n - m
        /\ \A i \in 1..m : 1 + i - 1 = i
        /\ \A i \in 1..(n - m) : (m + 1) + i - 1 = m + i
    BY ONLY <2>1
  <2> HIDE DEF a, b
  <2> QED
    BY ONLY <2>2, <2>3, <2>4
<1> HIDE DEF a, b
<1>6. /\ a \o <<s>> \in Seq(Segments) /\ Len(a \o <<s>>) = m + 1
      /\ \A i \in 1..m : (a \o <<s>>)[i] = a[i]
      /\ (a \o <<s>>)[m + 1] = s
  BY <1>3, <1>5, ConcatProperties
<1> DEFINE c == a \o <<s>>
<1> HIDE DEF c
<1>7. /\ c \in Seq(Segments) /\ Len(c) = m + 1 /\ \A i \in 1..m : c[i] = t[i]
      /\ c[m + 1] = s /\ u = c \o b
  BY <1>4, <1>5, <1>6 DEF c
<1>8. /\ u \in Seq(Segments) /\ Len(u) = n + 1
      /\ \A i \in 1..(m + 1) : u[i] = c[i]
      /\ \A i \in (m + 2)..(n + 1) : u[i] = b[i - (m + 1)]
  BY <1>1, <1>3, <1>5, <1>7, ConcatProperties
<1>9. ASSUME Ascending(t) PROVE Inserted(t, s, m, u)
  <2>1. \A i \in 1..m : u[i] = t[i] /\ t[i].at <= s.at
    <3>1. ASSUME NEW i \in 1..m PROVE u[i] = t[i] /\ t[i].at <= s.at
      <4>1. i \in 1..(m + 1) /\ i \in 1..n
        BY <1>1, <1>3
      <4>2. u[i] = t[i]
        BY <1>7, <1>8, <4>1
      <4>3. m \in before /\ m \in 1..n /\ i <= m
        BY <1>1, <1>2, <1>3
      <4>4. t[i].at <= t[m].at
        <5>1. \A x, y \in 1..n : x < y => t[x].at <= t[y].at
          BY <1>9 DEF Ascending
        <5>2. m \in 1..n /\ t[m].at \in Nat /\ (i < m \/ i = m)
          BY <1>1, <4>1, <4>3
        <5> HIDE DEF before, n
        <5> QED
          BY ONLY <4>1, <5>1, <5>2
      <4>5. t[m].at <= s.at /\ t[i].at \in Nat /\ t[m].at \in Nat
        BY <1>1, <4>1, <4>3
      <4> QED
        BY ONLY <1>3, <4>2, <4>4, <4>5
    <3> QED
      BY <3>1
  <2>2. \A i \in (m + 2)..(n + 1) : u[i] = t[i - 1]
    <3>1. ASSUME NEW i \in (m + 2)..(n + 1) PROVE u[i] = t[i - 1]
      <4>1. i - (m + 1) \in 1..(n - m) /\ m + (i - (m + 1)) = i - 1
        BY <1>1, <1>3
      <4> QED
        BY <1>5, <1>8, <4>1
    <3> QED
      BY <3>1
  <2>3. \A i \in (m + 1)..n : t[i].at > s.at
    <3>1. ASSUME NEW i \in (m + 1)..n PROVE t[i].at > s.at
      <4>1. i \in 1..n /\ ~(i <= m)
        BY <1>1, <1>3
      <4>2. i \notin before
        BY <1>2, <4>1
      <4> QED
        BY <1>1, <1>3, <4>1, <4>2
    <3> QED
      BY <3>1
  <2> QED
    BY <1>3, <1>7, <1>8, <2>1, <2>2, <2>3 DEF Inserted
<1> QED
  BY <1>3, <1>8, <1>9

\* One step of the reader's merging, with its type.
LEMMA MergeIs ==
    ASSUME NEW m \in Merges, NEW s \in Segments
    PROVE  Merge(m, s) \in Merges
<1> DEFINE n == Len(m.segments)
           last == m.segments[n]
<1>1. m.ok \in BOOLEAN /\ m.segments \in Seq(Segments) /\ n \in Nat
  BY DEF Merges
<1>2. [m EXCEPT !.segments = <<s>>] \in Merges /\ [m EXCEPT !.ok = FALSE] \in Merges
      /\ [m EXCEPT !.segments = Append(@, s)] \in Merges
  <2>1. Append(m.segments, s) \in Seq(Segments) /\ <<s>> \in Seq(Segments)
    BY <1>1, AppendProperties
  <2> QED
    BY <1>1, <2>1 DEF Merges
<1>3. ASSUME m.segments # <<>>
      PROVE  [m EXCEPT !.segments[n].data = @ \o s.data] \in Merges
  <2>1. n \in 1..n /\ last \in Segments
    BY <1>1, <1>3, EmptySeq
  <2>2. last.data \o s.data \in Bytes
    BY <2>1, ConcatProperties DEF Segments, Bytes
  <2>3. [last EXCEPT !.data = last.data \o s.data] \in Segments
    BY <2>1, <2>2 DEF Segments
  <2>4. [m.segments EXCEPT ![n] = [last EXCEPT !.data = last.data \o s.data]] \in Seq(Segments)
    BY <1>1, <2>1, <2>3, ExceptSeq
  <2> QED
    BY <1>1, <2>4 DEF Merges
<1>4. m.segments # <<>> => last.at \in Nat /\ Len(last.data) \in Nat /\ s.at \in Nat
  <2>1. ASSUME m.segments # <<>> PROVE last \in Segments
    BY <1>1, <2>1, EmptySeq
  <2> QED
    BY <2>1, LenProperties DEF Segments, Bytes
<1>5. m.segments # <<>> => s.at < End(last) \/ s.at = End(last) \/ s.at > End(last)
  BY <1>4 DEF End
<1> QED
  BY <1>2, <1>3, <1>5 DEF Merge

\* One line read, with its type.
LEMMA ReadFoldType ==
    ASSUME NEW p \in States, NEW l \in Lines
    PROVE  ReadLine(p, l) \in States
<1>1. Segment(p.base + l.at, l.data) \in Segments /\ Segment(l.at, l.data) \in Segments
  BY DEF Segment, Segments, Lines, States
<1>2. l.at * Page \in Nat
  BY TextAssumption DEF Lines
<1>0. /\ p.ok \in BOOLEAN /\ p.ended \in BOOLEAN /\ p.base \in Nat /\ p.entry \in Nat
      /\ p.counts \in Seq(Nat) /\ p.segments \in Seq(Segments) /\ l.at \in Nat
  BY DEF States, Lines
<1>3. ASSUME NEW s \in Segments PROVE Append(p.segments, s) \in Seq(Segments)
  BY <1>0, AppendProperties
<1>4. Append(p.counts, l.at) \in Seq(Nat)
  BY <1>0, AppendProperties
<1>5. HexLine(p, l) \in States
  <2>1. /\ [p EXCEPT !.ok = FALSE] \in States /\ [p EXCEPT !.base = l.at * Page] \in States
        /\ [p EXCEPT !.ended = TRUE] \in States
    BY <1>2 DEF States
  <2>2. [p EXCEPT !.segments = Append(@, Segment(p.base + l.at, l.data))] \in States
    BY <1>1, <1>3 DEF States
  <2> QED
    BY <2>1, <2>2 DEF HexLine
<1>6. SrecLine(p, l) \in States
  <2>1. /\ [p EXCEPT !.ok = FALSE] \in States
        /\ [p EXCEPT !.ended = TRUE, !.entry = l.at] \in States
    BY <1>0 DEF States
  <2>2. [p EXCEPT !.segments = Append(@, Segment(l.at, l.data))] \in States
    BY <1>1, <1>3 DEF States
  <2>3. [p EXCEPT !.counts = Append(@, l.at), !.ok = @ /\ p.counts = <<>>] \in States
    BY <1>0, <1>4 DEF States
  <2> QED
    BY <2>1, <2>2, <2>3 DEF SrecLine
<1> QED
  BY <1>5, <1>6 DEF ReadLine

\* The fold of a reader over the lines is a run, one line after the other.
LEMMA ReadFold ==
    ASSUME text \in Seq(Lines)
    PROVE  \E r \in [0..Len(text) -> States] :
              /\ r[0] = Start
              /\ \A i \in 1..Len(text) : r[i] = ReadLine(r[i - 1], text[i])
              /\ r[Len(text)] = FoldLeft(ReadLine, Start, text)
<1> DEFINE n == Len(text)
           base == Start
           G == [x \in States \X Lines |-> ReadLine(x[1], x[2])]
           Def(g) == [x \in SUBSET (1..n) |->
                        IF x = {} THEN base ELSE ReadLine(g[x \ {Max(x)}], text[Max(x)])]
           iter == CHOOSE g : g = Def(g)
           r == [i \in 0..n |-> iter[1..i]]
<1>1. n \in Nat /\ DOMAIN text = 1..n
  OBVIOUS
<1>2. base \in States
  BY EmptySeq DEF Start, States
<1>3. FoldLeft(ReadLine, Start, text) = iter[1..n]
  BY <1>1 DEF FoldLeft, MapThenFoldSet
<1> HIDE DEF base
<1>4. G \in [States \X Lines -> States]
  BY ReadFoldType
<1>5. PICK g \in [SUBSET (1..n) -> States] : Folding(g, G, base, text)
  <2> HIDE DEF G
  <2> QED
    BY <1>2, <1>4, FoldExists
<1>6. g = Def(g)
  <2>1. ASSUME NEW x \in SUBSET (1..n)
        PROVE  g[x] = IF x = {} THEN base ELSE ReadLine(g[x \ {Max(x)}], text[Max(x)])
    BY <1>5 DEF Folding
  <2> QED
    BY <2>1
<1>7. iter = Def(iter)
  <2> HIDE DEF Def
  <2> QED
    BY <1>6
<1> HIDE DEF iter
<1>8. \A x \in SUBSET (1..n) :
        iter[x] = IF x = {} THEN base ELSE ReadLine(iter[x \ {Max(x)}], text[Max(x)])
  BY <1>7
<1>9. r[0] = base
  <2>1. 1..0 = {} /\ 0 \in 0..n /\ {} \in SUBSET (1..n)
    BY <1>1
  <2> QED
    BY <1>8, <2>1
<1>10. ASSUME NEW i \in 1..n PROVE r[i] = ReadLine(r[i - 1], text[i])
  <2>1. /\ 1..i \in SUBSET (1..n) /\ 1..i # {} /\ Max(1..i) = i
        /\ (1..i) \ {i} = 1..(i - 1) /\ i \in 0..n /\ i - 1 \in 0..n
    BY <1>1, UpTo
  <2>2. iter[1..i] = ReadLine(iter[1..(i - 1)], text[i])
    BY <1>8, <2>1
  <2> QED
    BY <2>1, <2>2
<1>11. r[n] = iter[1..n] /\ r = [i \in 0..n |-> r[i]]
  BY <1>1
<1> HIDE DEF r
<1>12. \A i \in 1..n : r[i - 1] \in States => r[i] \in States
  <2>1. ASSUME NEW i \in 1..n, r[i - 1] \in States PROVE r[i] \in States
    <3>1. text[i] \in Lines
      BY <1>1
    <3> QED
      BY <1>10, <2>1, <3>1, ReadFoldType
  <2> QED
    BY <2>1
<1>13. r \in [0..n -> States]
  BY <1>1, <1>2, <1>9, <1>11, <1>12, RunStays
<1> QED
  BY <1>3, <1>9, <1>10, <1>11, <1>13 DEF base

\* One segment sorted, with its type.
LEMMA SortFoldType ==
    ASSUME NEW t \in Seq(Segments), NEW s \in Segments
    PROVE  Insert(t, s) \in Seq(Segments)
BY InsertIs

\* The fold that sorts is a run, one segment after the other.
LEMMA SortFold ==
    ASSUME NEW q \in Seq(Segments)
    PROVE  \E r \in [0..Len(q) -> Seq(Segments)] :
              /\ r[0] = <<>>
              /\ \A i \in 1..Len(q) : r[i] = Insert(r[i - 1], q[i])
              /\ r[Len(q)] = Sorted(q)
<1> DEFINE n == Len(q)
           base == <<>>
           G == [x \in Seq(Segments) \X Segments |-> Insert(x[1], x[2])]
           Def(g) == [x \in SUBSET (1..n) |->
                        IF x = {} THEN base ELSE Insert(g[x \ {Max(x)}], q[Max(x)])]
           iter == CHOOSE g : g = Def(g)
           r == [i \in 0..n |-> iter[1..i]]
<1>1. n \in Nat /\ DOMAIN q = 1..n
  OBVIOUS
<1>2. base \in Seq(Segments)
  BY EmptySeq
<1>3. Sorted(q) = iter[1..n]
  BY <1>1 DEF Sorted, FoldLeft, MapThenFoldSet
<1> HIDE DEF base
<1>4. G \in [Seq(Segments) \X Segments -> Seq(Segments)]
  BY SortFoldType
<1>5. PICK g \in [SUBSET (1..n) -> Seq(Segments)] : Folding(g, G, base, q)
  <2> HIDE DEF G
  <2> QED
    BY <1>2, <1>4, FoldExists
<1>6. g = Def(g)
  <2>1. ASSUME NEW x \in SUBSET (1..n)
        PROVE  g[x] = IF x = {} THEN base ELSE Insert(g[x \ {Max(x)}], q[Max(x)])
    BY <1>5 DEF Folding
  <2> QED
    BY <2>1
<1>7. iter = Def(iter)
  <2> HIDE DEF Def
  <2> QED
    BY <1>6
<1> HIDE DEF iter
<1>8. \A x \in SUBSET (1..n) :
        iter[x] = IF x = {} THEN base ELSE Insert(iter[x \ {Max(x)}], q[Max(x)])
  BY <1>7
<1>9. r[0] = base
  <2>1. 1..0 = {} /\ 0 \in 0..n /\ {} \in SUBSET (1..n)
    BY <1>1
  <2> QED
    BY <1>8, <2>1
<1>10. ASSUME NEW i \in 1..n PROVE r[i] = Insert(r[i - 1], q[i])
  <2>1. /\ 1..i \in SUBSET (1..n) /\ 1..i # {} /\ Max(1..i) = i
        /\ (1..i) \ {i} = 1..(i - 1) /\ i \in 0..n /\ i - 1 \in 0..n
    BY <1>1, UpTo
  <2>2. iter[1..i] = Insert(iter[1..(i - 1)], q[i])
    BY <1>8, <2>1
  <2> QED
    BY <2>1, <2>2
<1>11. r[n] = iter[1..n] /\ r = [i \in 0..n |-> r[i]]
  BY <1>1
<1> HIDE DEF r
<1>12. \A i \in 1..n : r[i - 1] \in Seq(Segments) => r[i] \in Seq(Segments)
  <2>1. ASSUME NEW i \in 1..n, r[i - 1] \in Seq(Segments) PROVE r[i] \in Seq(Segments)
    <3>1. q[i] \in Segments
      BY <1>1
    <3> QED
      BY <1>10, <2>1, <3>1, SortFoldType
  <2> QED
    BY <2>1
<1>13. r \in [0..n -> Seq(Segments)]
  BY <1>1, <1>2, <1>9, <1>11, <1>12, RunStays
<1> QED
  BY <1>3, <1>9, <1>10, <1>11, <1>13 DEF base

\* One segment merged, with its type.
LEMMA MergeFoldType ==
    ASSUME NEW m \in Merges, NEW s \in Segments
    PROVE  Merge(m, s) \in Merges
BY MergeIs

\* The fold that merges is a run, one segment after the other.
LEMMA MergeFold ==
    ASSUME NEW q \in Seq(Segments), NEW b \in BOOLEAN
    PROVE  \E r \in [0..Len(q) -> Merges] :
              /\ r[0] = [ok |-> b, segments |-> <<>>]
              /\ \A i \in 1..Len(q) : r[i] = Merge(r[i - 1], q[i])
              /\ r[Len(q)] = FoldLeft(Merge, [ok |-> b, segments |-> <<>>], q)
<1> DEFINE n == Len(q)
           base == [ok |-> b, segments |-> <<>>]
           G == [x \in Merges \X Segments |-> Merge(x[1], x[2])]
           Def(g) == [x \in SUBSET (1..n) |->
                        IF x = {} THEN base ELSE Merge(g[x \ {Max(x)}], q[Max(x)])]
           iter == CHOOSE g : g = Def(g)
           r == [i \in 0..n |-> iter[1..i]]
<1>1. n \in Nat /\ DOMAIN q = 1..n
  OBVIOUS
<1>2. base \in Merges
  BY EmptySeq DEF Merges
<1>3. FoldLeft(Merge, [ok |-> b, segments |-> <<>>], q) = iter[1..n]
  BY <1>1 DEF FoldLeft, MapThenFoldSet
<1> HIDE DEF base
<1>4. G \in [Merges \X Segments -> Merges]
  BY MergeFoldType
<1>5. PICK g \in [SUBSET (1..n) -> Merges] : Folding(g, G, base, q)
  <2> HIDE DEF G
  <2> QED
    BY <1>2, <1>4, FoldExists
<1>6. g = Def(g)
  <2>1. ASSUME NEW x \in SUBSET (1..n)
        PROVE  g[x] = IF x = {} THEN base ELSE Merge(g[x \ {Max(x)}], q[Max(x)])
    BY <1>5 DEF Folding
  <2> QED
    BY <2>1
<1>7. iter = Def(iter)
  <2> HIDE DEF Def
  <2> QED
    BY <1>6
<1> HIDE DEF iter
<1>8. \A x \in SUBSET (1..n) :
        iter[x] = IF x = {} THEN base ELSE Merge(iter[x \ {Max(x)}], q[Max(x)])
  BY <1>7
<1>9. r[0] = base
  <2>1. 1..0 = {} /\ 0 \in 0..n /\ {} \in SUBSET (1..n)
    BY <1>1
  <2> QED
    BY <1>8, <2>1
<1>10. ASSUME NEW i \in 1..n PROVE r[i] = Merge(r[i - 1], q[i])
  <2>1. /\ 1..i \in SUBSET (1..n) /\ 1..i # {} /\ Max(1..i) = i
        /\ (1..i) \ {i} = 1..(i - 1) /\ i \in 0..n /\ i - 1 \in 0..n
    BY <1>1, UpTo
  <2>2. iter[1..i] = Merge(iter[1..(i - 1)], q[i])
    BY <1>8, <2>1
  <2> QED
    BY <2>1, <2>2
<1>11. r[n] = iter[1..n] /\ r = [i \in 0..n |-> r[i]]
  BY <1>1
<1> HIDE DEF r
<1>12. \A i \in 1..n : r[i - 1] \in Merges => r[i] \in Merges
  <2>1. ASSUME NEW i \in 1..n, r[i - 1] \in Merges PROVE r[i] \in Merges
    <3>1. q[i] \in Segments
      BY <1>1
    <3> QED
      BY <1>10, <2>1, <3>1, MergeFoldType
  <2> QED
    BY <2>1
<1>13. r \in [0..n -> Merges]
  BY <1>1, <1>2, <1>9, <1>11, <1>12, RunStays
<1> QED
  BY <1>3, <1>9, <1>10, <1>11, <1>13 DEF base

\* One slice joined, with its type.
LEMMA JoinFoldType ==
    ASSUME NEW m \in Joins, NEW s \in Segments
    PROVE  Join(m, s) \in Joins
BY ConcatProperties, LenProperties DEF Join, Joins, Segments, Bytes, End

\* The fold that joins slices is a run, one slice after the other.
LEMMA JoinFold ==
    ASSUME NEW q \in Seq(Segments), NEW b \in BOOLEAN, NEW from \in Nat
    PROVE  \E r \in [0..Len(q) -> Joins] :
              /\ r[0] = [ok |-> b, next |-> from, data |-> <<>>]
              /\ \A i \in 1..Len(q) : r[i] = Join(r[i - 1], q[i])
              /\ r[Len(q)] = FoldLeft(Join, [ok |-> b, next |-> from, data |-> <<>>], q)
<1> DEFINE n == Len(q)
           base == [ok |-> b, next |-> from, data |-> <<>>]
           G == [x \in Joins \X Segments |-> Join(x[1], x[2])]
           Def(g) == [x \in SUBSET (1..n) |->
                        IF x = {} THEN base ELSE Join(g[x \ {Max(x)}], q[Max(x)])]
           iter == CHOOSE g : g = Def(g)
           r == [i \in 0..n |-> iter[1..i]]
<1>1. n \in Nat /\ DOMAIN q = 1..n
  OBVIOUS
<1>2. base \in Joins
  BY EmptySeq DEF Joins, Bytes
<1>3. FoldLeft(Join, [ok |-> b, next |-> from, data |-> <<>>], q) = iter[1..n]
  BY <1>1 DEF FoldLeft, MapThenFoldSet
<1> HIDE DEF base
<1>4. G \in [Joins \X Segments -> Joins]
  BY JoinFoldType
<1>5. PICK g \in [SUBSET (1..n) -> Joins] : Folding(g, G, base, q)
  <2> HIDE DEF G
  <2> QED
    BY <1>2, <1>4, FoldExists
<1>6. g = Def(g)
  <2>1. ASSUME NEW x \in SUBSET (1..n)
        PROVE  g[x] = IF x = {} THEN base ELSE Join(g[x \ {Max(x)}], q[Max(x)])
    BY <1>5 DEF Folding
  <2> QED
    BY <2>1
<1>7. iter = Def(iter)
  <2> HIDE DEF Def
  <2> QED
    BY <1>6
<1> HIDE DEF iter
<1>8. \A x \in SUBSET (1..n) :
        iter[x] = IF x = {} THEN base ELSE Join(iter[x \ {Max(x)}], q[Max(x)])
  BY <1>7
<1>9. r[0] = base
  <2>1. 1..0 = {} /\ 0 \in 0..n /\ {} \in SUBSET (1..n)
    BY <1>1
  <2> QED
    BY <1>8, <2>1
<1>10. ASSUME NEW i \in 1..n PROVE r[i] = Join(r[i - 1], q[i])
  <2>1. /\ 1..i \in SUBSET (1..n) /\ 1..i # {} /\ Max(1..i) = i
        /\ (1..i) \ {i} = 1..(i - 1) /\ i \in 0..n /\ i - 1 \in 0..n
    BY <1>1, UpTo
  <2>2. iter[1..i] = Join(iter[1..(i - 1)], q[i])
    BY <1>8, <2>1
  <2> QED
    BY <2>1, <2>2
<1>11. r[n] = iter[1..n] /\ r = [i \in 0..n |-> r[i]]
  BY <1>1
<1> HIDE DEF r
<1>12. \A i \in 1..n : r[i - 1] \in Joins => r[i] \in Joins
  <2>1. ASSUME NEW i \in 1..n, r[i - 1] \in Joins PROVE r[i] \in Joins
    <3>1. q[i] \in Segments
      BY <1>1
    <3> QED
      BY <1>10, <2>1, <3>1, JoinFoldType
  <2> QED
    BY <2>1
<1>13. r \in [0..n -> Joins]
  BY <1>1, <1>2, <1>9, <1>11, <1>12, RunStays
<1> QED
  BY <1>3, <1>9, <1>10, <1>11, <1>13 DEF base

\* One line looked at for the window, with its type.
LEMMA WindowFoldType ==
    ASSUME NEW q \in Seq(Segments), NEW l \in Lines, NEW from \in Nat, NEW to \in Nat
    PROVE  Keep(q, l, from, to) \in Seq(Segments)
BY AppendProperties DEF Keep, Segment, Segments, Lines

\* The fold that collects a window is a run, one line after the other.
LEMMA WindowFold ==
    ASSUME text \in Seq(Lines), NEW from \in Nat, NEW to \in Nat
    PROVE  \E r \in [0..Len(text) -> Seq(Segments)] :
              /\ r[0] = <<>>
              /\ \A i \in 1..Len(text) : r[i] = Keep(r[i - 1], text[i], from, to)
              /\ r[Len(text)] = InWindow(from, to)
<1> DEFINE n == Len(text)
           base == <<>>
           G == [x \in Seq(Segments) \X Lines |-> Keep(x[1], x[2], from, to)]
           Def(g) == [x \in SUBSET (1..n) |->
                        IF x = {} THEN base ELSE Keep(g[x \ {Max(x)}], text[Max(x)], from, to)]
           iter == CHOOSE g : g = Def(g)
           r == [i \in 0..n |-> iter[1..i]]
<1>1. n \in Nat /\ DOMAIN text = 1..n
  OBVIOUS
<1>2. base \in Seq(Segments)
  BY EmptySeq
<1>3. InWindow(from, to) = iter[1..n]
  BY <1>1 DEF InWindow, Keep, FoldLeft, MapThenFoldSet
<1> HIDE DEF base
<1>4. G \in [Seq(Segments) \X Lines -> Seq(Segments)]
  BY WindowFoldType
<1>5. PICK g \in [SUBSET (1..n) -> Seq(Segments)] : Folding(g, G, base, text)
  <2> HIDE DEF G
  <2> QED
    BY <1>2, <1>4, FoldExists
<1>6. g = Def(g)
  <2>1. ASSUME NEW x \in SUBSET (1..n)
        PROVE  g[x] = IF x = {} THEN base ELSE Keep(g[x \ {Max(x)}], text[Max(x)], from, to)
    BY <1>5 DEF Folding
  <2> QED
    BY <2>1
<1>7. iter = Def(iter)
  <2> HIDE DEF Def
  <2> QED
    BY <1>6
<1> HIDE DEF iter
<1>8. \A x \in SUBSET (1..n) :
        iter[x] = IF x = {} THEN base ELSE Keep(iter[x \ {Max(x)}], text[Max(x)], from, to)
  BY <1>7
<1>9. r[0] = base
  <2>1. 1..0 = {} /\ 0 \in 0..n /\ {} \in SUBSET (1..n)
    BY <1>1
  <2> QED
    BY <1>8, <2>1
<1>10. ASSUME NEW i \in 1..n PROVE r[i] = Keep(r[i - 1], text[i], from, to)
  <2>1. /\ 1..i \in SUBSET (1..n) /\ 1..i # {} /\ Max(1..i) = i
        /\ (1..i) \ {i} = 1..(i - 1) /\ i \in 0..n /\ i - 1 \in 0..n
    BY <1>1, UpTo
  <2>2. iter[1..i] = Keep(iter[1..(i - 1)], text[i], from, to)
    BY <1>8, <2>1
  <2> QED
    BY <2>1, <2>2
<1>11. r[n] = iter[1..n] /\ r = [i \in 0..n |-> r[i]]
  BY <1>1
<1> HIDE DEF r
<1>12. \A i \in 1..n : r[i - 1] \in Seq(Segments) => r[i] \in Seq(Segments)
  <2>1. ASSUME NEW i \in 1..n, r[i - 1] \in Seq(Segments) PROVE r[i] \in Seq(Segments)
    <3>1. text[i] \in Lines
      BY <1>1
    <3>2. Keep(r[i - 1], text[i], from, to) \in Seq(Segments)
      BY ONLY <2>1, <3>1, from \in Nat, to \in Nat, WindowFoldType
    <3> QED
      BY <1>10, <3>2
  <2> QED
    BY <2>1
<1>13. r \in [0..n -> Seq(Segments)]
  BY <1>1, <1>2, <1>9, <1>11, <1>12, RunStays
<1> QED
  BY <1>3, <1>9, <1>10, <1>11, <1>13 DEF base

-------------------------------------------------------------------------------
(* Sorting.                                                                *)

Truthful(s) == s.data # <<>> /\ \A j \in 1..Len(s.data) : s.data[j] = s.at + j - 1
Honest == {s \in Segments : Truthful(s)}
Covers(q, a) == \E i \in 1..Len(q) : q[i].at <= a /\ a < End(q[i])
Apart(s, t) == End(s) <= t.at \/ End(t) <= s.at
AllApart(q) == \A i, j \in 1..Len(q) : i # j => Apart(q[i], q[j])
Gapped(q) == \A i, j \in 1..Len(q) : i < j => End(q[i]) < q[j].at

\* t holds the segments of q up to n in the order of p.
Ordering(n, p) ==
    /\ p \in [1..n -> 1..n]
    /\ \A i, j \in 1..n : p[i] = p[j] => i = j
    /\ \A j \in 1..n : \E i \in 1..n : p[i] = j
Reordered(q, n, t) ==
    /\ t \in Seq(Segments) /\ Len(t) = n /\ Ascending(t)
    /\ \E p : Ordering(n, p) /\ \A i \in 1..n : t[i] = q[p[i]]

\* The parts of a segment.
LEMMA SegmentIs ==
    ASSUME NEW s \in Segments
    PROVE  /\ s.at \in Nat /\ s.data \in Seq(Nat) /\ Len(s.data) \in Nat /\ End(s) \in Nat
           /\ s = Segment(s.at, s.data)
           /\ s \in Honest => s.at < End(s) /\ Len(s.data) > 0
<1>1. s.at \in Nat /\ s.data \in Seq(Nat) /\ s = Segment(s.at, s.data)
  BY DEF Segments, Bytes, Segment
<1>2. Len(s.data) \in Nat
  BY <1>1, LenProperties
<1>3. s.data # <<>> => Len(s.data) \in Nat \ {0}
  BY <1>1, EmptySeq
<1> QED
  BY <1>1, <1>2, <1>3 DEF End, Honest, Truthful

\* Putting the number n + 1 behind position m of an ordering of 1..n.
LEMMA OrderingGrows ==
    ASSUME NEW n \in Nat, NEW m \in 0..n, NEW p, Ordering(n, p)
    PROVE  Ordering(n + 1, [i \in 1..(n + 1) |->
                              IF i <= m THEN p[i] ELSE IF i = m + 1 THEN n + 1 ELSE p[i - 1]])
<1> DEFINE r == [i \in 1..(n + 1) |->
                   IF i <= m THEN p[i] ELSE IF i = m + 1 THEN n + 1 ELSE p[i - 1]]
<1>1. \A i \in 1..n : p[i] \in 1..n
  BY DEF Ordering
<1>2. ASSUME NEW i \in 1..(n + 1)
      PROVE  /\ i <= m => i \in 1..n /\ r[i] = p[i]
             /\ i = m + 1 => r[i] = n + 1
             /\ i > m + 1 => i - 1 \in 1..n /\ r[i] = p[i - 1]
  OBVIOUS
<1>3. m + 1 \in 1..(n + 1)
  OBVIOUS
<1> HIDE DEF r
<1>4. r = [i \in 1..(n + 1) |-> r[i]]
  BY DEF r
<1>5. r \in [1..(n + 1) -> 1..(n + 1)]
  <2>1. ASSUME NEW i \in 1..(n + 1) PROVE r[i] \in 1..(n + 1)
    BY <1>1, <1>2
  <2> QED
    BY <1>4, <2>1
<1>6. ASSUME NEW i \in 1..(n + 1), NEW j \in 1..(n + 1), r[i] = r[j] PROVE i = j
  <2>1. CASE i = m + 1
    BY <1>1, <1>2, <1>6, <2>1
  <2>2. CASE j = m + 1
    BY <1>1, <1>2, <1>6, <2>2
  <2>3. CASE i # m + 1 /\ j # m + 1
    <3> DEFINE x == IF i <= m THEN i ELSE i - 1
               y == IF j <= m THEN j ELSE j - 1
    <3>1. x \in 1..n /\ y \in 1..n /\ r[i] = p[x] /\ r[j] = p[y]
      BY <1>2, <2>3
    <3>2. x = y
      <4> HIDE DEF x, y
      <4> QED
        BY <1>6, <3>1 DEF Ordering
    <3> QED
      BY <2>3, <3>2
  <2> QED
    BY <2>1, <2>2, <2>3
<1>7. ASSUME NEW j \in 1..(n + 1) PROVE \E i \in 1..(n + 1) : r[i] = j
  <2>1. CASE j = n + 1
    BY <1>2, <1>3, <2>1
  <2>2. CASE j # n + 1
    <3>1. j \in 1..n
      BY <2>2
    <3>2. PICK i \in 1..n : p[i] = j
      BY <3>1 DEF Ordering
    <3>3. CASE i <= m
      <4>1. i \in 1..(n + 1)
        OBVIOUS
      <4> QED
        BY <1>2, <3>2, <3>3, <4>1
    <3>4. CASE i > m
      <4>1. i + 1 \in 1..(n + 1) /\ i + 1 > m + 1 /\ (i + 1) - 1 = i
        BY <3>4
      <4> QED
        BY <1>2, <3>2, <4>1
    <3> QED
      BY <3>3, <3>4
  <2> QED
    BY <2>1, <2>2
<1> QED
  BY <1>5, <1>6, <1>7 DEF Ordering, r

\* Inserting the next segment keeps what is sorted a reordering of the list.
LEMMA ReorderedGrows ==
    ASSUME NEW q \in Seq(Segments), NEW n \in 0..(Len(q) - 1), NEW t, Reordered(q, n, t)
    PROVE  Reordered(q, n + 1, Insert(t, q[n + 1]))
<1> DEFINE s == q[n + 1]
           u == Insert(t, s)
<1>1. n \in Nat /\ n + 1 \in 1..Len(q) /\ s \in Segments /\ t \in Seq(Segments) /\ Len(t) = n
      /\ Ascending(t)
  BY DEF Reordered
<1>2. PICK m \in 0..n : Inserted(t, s, m, u)
  BY <1>1, InsertIs
<1>3. PICK p : Ordering(n, p) /\ \A i \in 1..n : t[i] = q[p[i]]
  BY DEF Reordered
<1> DEFINE r == [i \in 1..(n + 1) |->
                   IF i <= m THEN p[i] ELSE IF i = m + 1 THEN n + 1 ELSE p[i - 1]]
<1>4. Ordering(n + 1, r)
  BY <1>1, <1>3, OrderingGrows
<1> HIDE DEF u, s
<1>5. /\ u \in Seq(Segments) /\ Len(u) = n + 1 /\ u[m + 1] = s
      /\ \A i \in 1..m : u[i] = t[i] /\ t[i].at <= s.at
      /\ \A i \in (m + 2)..(n + 1) : u[i] = t[i - 1]
      /\ \A i \in (m + 1)..n : t[i].at > s.at
  BY <1>1, <1>2 DEF Inserted
<1>6. ASSUME NEW i \in 1..(n + 1) PROVE u[i] = q[r[i]]
  <2>1. CASE i <= m
    BY <1>1, <1>3, <1>5, <2>1
  <2>2. CASE i = m + 1
    BY <1>1, <1>5, <2>2 DEF s
  <2>3. CASE i > m + 1
    <3>1. i \in (m + 2)..(n + 1) /\ i - 1 \in 1..n
      BY <1>1, <2>3
    <3> QED
      BY <1>3, <1>5, <2>3, <3>1
  <2> QED
    BY <1>1, <2>1, <2>2, <2>3
<1>7. ASSUME NEW i \in 1..(n + 1), NEW j \in 1..(n + 1), i < j PROVE u[i].at <= u[j].at
  <2>1. \A k \in 1..n : t[k].at \in Nat
    BY <1>1, SegmentIs
  <2>2. s.at \in Nat
    BY <1>1, SegmentIs
  <2>3. CASE j <= m
    <3>1. i \in 1..m /\ j \in 1..m /\ i \in 1..n /\ j \in 1..n
      BY <1>1, <1>7, <2>3
    <3> QED
      BY <1>1, <1>5, <1>7, <3>1 DEF Ascending
  <2>4. CASE j = m + 1
    BY <1>1, <1>5, <1>7, <2>4
  <2>5. CASE j > m + 1
    <3>1. j \in (m + 2)..(n + 1) /\ j - 1 \in (m + 1)..n /\ j - 1 \in 1..n
      BY <1>1, <2>5
    <3>2. u[j] = t[j - 1] /\ t[j - 1].at > s.at
      BY <1>5, <3>1
    <3>3. CASE i <= m
      <4>1. i \in 1..m /\ i \in 1..n
        BY <1>1, <3>3
      <4> QED
        BY <1>5, <2>1, <2>2, <3>1, <3>2, <4>1
    <3>4. CASE i = m + 1
      BY <1>5, <2>1, <2>2, <3>1, <3>2, <3>4
    <3>5. CASE i > m + 1
      <4>1. i \in (m + 2)..(n + 1) /\ i - 1 \in 1..n /\ i - 1 < j - 1
        BY <1>1, <1>7, <3>5
      <4> QED
        BY <1>1, <1>5, <3>1, <3>2, <4>1 DEF Ascending
    <3> QED
      BY <1>1, <3>3, <3>4, <3>5
  <2> QED
    BY <1>1, <2>3, <2>4, <2>5
<1>8. Reordered(q, n + 1, u)
  <2> HIDE DEF r
  <2> QED
    BY <1>4, <1>5, <1>6, <1>7 DEF Reordered, Ascending
<1> QED
  BY <1>8 DEF u, s

\* Sorted returns an ascending reordering of its argument.
LEMMA SortIs ==
    ASSUME NEW q \in Seq(Segments)
    PROVE  Reordered(q, Len(q), Sorted(q))
<1> DEFINE n == Len(q)
<1>1. n \in Nat
  OBVIOUS
<1>2. PICK r \in [0..n -> Seq(Segments)] :
              /\ r[0] = <<>>
              /\ \A i \in 1..n : r[i] = Insert(r[i - 1], q[i])
              /\ r[n] = Sorted(q)
  BY SortFold
<1> DEFINE S == {i \in 0..n : Reordered(q, i, r[i])}
<1>3. 0 \in S
  <2>1. Ordering(0, <<>>)
    <3>1. 1..0 = {}
      OBVIOUS
    <3> QED
      BY <3>1 DEF Ordering
  <2>2. <<>> \in Seq(Segments) /\ Len(<<>>) = 0
    BY EmptySeq
  <2>3. Reordered(q, 0, <<>>)
    BY <2>1, <2>2 DEF Reordered, Ascending
  <2> QED
    BY <1>1, <1>2, <2>3
<1>4. ASSUME NEW i \in 1..n, i - 1 \in S PROVE i \in S
  <2>1. i - 1 \in 0..(n - 1) /\ (i - 1) + 1 = i /\ i \in 0..n
    BY <1>1
  <2>2. Reordered(q, (i - 1) + 1, Insert(r[i - 1], q[(i - 1) + 1]))
    BY <1>4, <2>1, ReorderedGrows
  <2> QED
    BY <1>2, <2>1, <2>2
<1>5. \A i \in 0..n : i \in S
  <2> HIDE DEF S
  <2> QED
    BY <1>1, <1>3, <1>4, RunInduction
<1> QED
  BY <1>1, <1>2, <1>5

\* What sorting keeps: the segments, and that they lie apart.
LEMMA SortKeeps ==
    ASSUME NEW q \in Seq(Honest)
    PROVE  /\ Sorted(q) \in Seq(Honest) /\ Len(Sorted(q)) = Len(q) /\ Ascending(Sorted(q))
           /\ \A a : Covers(Sorted(q), a) <=> Covers(q, a)
           /\ AllApart(Sorted(q)) <=> AllApart(q)
           /\ \A i \in 1..Len(q) : \E j \in 1..Len(q) : Sorted(q)[i] = q[j]
<1> DEFINE n == Len(q)
           t == Sorted(q)
<1>1. q \in Seq(Segments) /\ n \in Nat /\ \A i \in 1..n : q[i] \in Honest
  BY SeqMonotonic DEF Honest
<1>2. Reordered(q, n, t)
  BY <1>1, SortIs
<1>3. PICK p : Ordering(n, p) /\ \A i \in 1..n : t[i] = q[p[i]]
  BY <1>2 DEF Reordered
<1>4. t \in Seq(Segments) /\ Len(t) = n /\ Ascending(t)
  BY <1>2 DEF Reordered
<1>5. /\ \A i \in 1..n : p[i] \in 1..n
      /\ \A i, j \in 1..n : p[i] = p[j] => i = j
      /\ \A j \in 1..n : \E i \in 1..n : p[i] = j
  BY <1>3 DEF Ordering
<1> HIDE DEF t
<1>6. t \in Seq(Honest)
  <2>1. \A i \in 1..n : t[i] \in Honest
    BY <1>1, <1>3, <1>5
  <2>2. t \in [1..n -> Honest]
    BY <1>4, <2>1, LenProperties
  <2> QED
    BY <1>1, <2>2
<1>7. ASSUME NEW a PROVE Covers(t, a) <=> Covers(q, a)
  <2>1. ASSUME Covers(t, a) PROVE Covers(q, a)
    <3>1. PICK i \in 1..n : t[i].at <= a /\ a < End(t[i])
      BY <1>4, <2>1 DEF Covers
    <3>2. p[i] \in 1..n /\ q[p[i]].at <= a /\ a < End(q[p[i]])
      BY <1>3, <1>5, <3>1
    <3> QED
      BY <3>2 DEF Covers
  <2>2. ASSUME Covers(q, a) PROVE Covers(t, a)
    <3>1. PICK j \in 1..n : q[j].at <= a /\ a < End(q[j])
      BY <2>2 DEF Covers
    <3>2. PICK i \in 1..n : p[i] = j
      BY <1>5
    <3>3. t[i].at <= a /\ a < End(t[i])
      BY <1>3, <3>1, <3>2
    <3> QED
      BY <1>4, <3>3 DEF Covers
  <2> QED
    BY <2>1, <2>2
<1>8. AllApart(t) <=> AllApart(q)
  <2>1. ASSUME AllApart(q), NEW i \in 1..n, NEW j \in 1..n, i # j PROVE Apart(t[i], t[j])
    <3>1. p[i] # p[j] /\ p[i] \in 1..n /\ p[j] \in 1..n
      BY <1>5, <2>1
    <3> QED
      BY <1>3, <2>1, <3>1 DEF AllApart
  <2>2. ASSUME AllApart(t), NEW i \in 1..n, NEW j \in 1..n, i # j PROVE Apart(q[i], q[j])
    <3>1. PICK k \in 1..n, l \in 1..n : p[k] = i /\ p[l] = j
      BY <1>5
    <3> QED
      BY <1>3, <1>4, <2>2, <3>1 DEF AllApart
  <2> QED
    BY <1>4, <2>1, <2>2 DEF AllApart
<1>9. \A i \in 1..n : \E j \in 1..n : t[i] = q[j]
  BY <1>3, <1>5
<1> QED
  BY <1>4, <1>6, <1>7, <1>8, <1>9 DEF t

-------------------------------------------------------------------------------
(* Merging the sorted segments into blocks.                                *)

Blocks(t) == t \in Seq(Honest) /\ Gapped(t)
CoversTo(q, n, a) == \E i \in 1..n : q[i].at <= a /\ a < End(q[i])

\* What the merging of the first n of the ascending q has found.
Merged(q, n, m) ==
    IF m.ok
    THEN /\ Blocks(m.segments)
         /\ \A i, j \in 1..n : i # j => Apart(q[i], q[j])
         /\ n = 0 => m.segments = <<>>
         /\ n > 0 => m.segments # <<>> /\ End(m.segments[Len(m.segments)]) = End(q[n])
         /\ \A a \in Nat : Covers(m.segments, a) <=> CoversTo(q, n, a)
    ELSE \E i, j \in 1..n : i # j /\ ~Apart(q[i], q[j])

\* What one more segment covers.
LEMMA CoversMore ==
    ASSUME NEW q, NEW n \in Nat, NEW a
    PROVE  CoversTo(q, n + 1, a) <=> CoversTo(q, n, a) \/ (q[n + 1].at <= a /\ a < End(q[n + 1]))
<1>1. \A i : i \in 1..(n + 1) <=> i \in 1..n \/ i = n + 1
  OBVIOUS
<1> QED
  BY <1>1 DEF CoversTo

\* What a list with one more segment covers.
LEMMA AppendCovers ==
    ASSUME NEW t \in Seq(Honest), NEW s \in Honest, NEW a
    PROVE  Covers(Append(t, s), a) <=> Covers(t, a) \/ (s.at <= a /\ a < End(s))
<1>1. /\ Len(t) \in Nat /\ Len(Append(t, s)) = Len(t) + 1
      /\ \A i \in 1..Len(t) : Append(t, s)[i] = t[i]
      /\ Append(t, s)[Len(t) + 1] = s
  BY AppendProperties, LenProperties
<1>2. CoversTo(Append(t, s), Len(t) + 1, a)
        <=> CoversTo(Append(t, s), Len(t), a) \/ (s.at <= a /\ a < End(s))
  BY <1>1, CoversMore
<1>3. CoversTo(Append(t, s), Len(t), a) <=> CoversTo(t, Len(t), a)
  BY <1>1 DEF CoversTo
<1> QED
  BY <1>1, <1>2, <1>3 DEF Covers, CoversTo

\* Two segments that touch are one segment whose bytes are in their place.
LEMMA JoinedIsHonest ==
    ASSUME NEW s \in Honest, NEW t \in Honest, t.at = End(s)
    PROVE  /\ [s EXCEPT !.data = @ \o t.data] \in Honest
           /\ [s EXCEPT !.data = @ \o t.data].at = s.at
           /\ End([s EXCEPT !.data = @ \o t.data]) = End(t)
<1> DEFINE d == s.data \o t.data
           u == [s EXCEPT !.data = @ \o t.data]
<1>1. /\ s \in Segments /\ t \in Segments /\ s.at \in Nat /\ s.data \in Seq(Nat)
      /\ t.data \in Seq(Nat) /\ Len(s.data) \in Nat /\ Len(t.data) \in Nat /\ Len(s.data) > 0
      /\ t.at = s.at + Len(s.data)
  BY SegmentIs DEF Honest, End
<1>2. /\ d \in Seq(Nat) /\ Len(d) = Len(s.data) + Len(t.data)
      /\ \A i \in 1..(Len(s.data) + Len(t.data)) :
           d[i] = IF i <= Len(s.data) THEN s.data[i] ELSE t.data[i - Len(s.data)]
  <2>1. s.data \in Seq(Nat) /\ t.data \in Seq(Nat)
    BY <1>1
  <2> QED
    BY ONLY <2>1, ConcatProperties
<1> HIDE DEF d
<1>3. u.at = s.at /\ u.data = d /\ u \in Segments
  BY <1>1, <1>2 DEF Segments, Bytes, d
<1> DEFINE x == Len(s.data)
           y == Len(t.data)
<1>0. /\ x \in Nat /\ y \in Nat /\ Len(d) = x + y /\ x > 0 /\ s.at \in Nat /\ t.at = s.at + x
      /\ \A i \in 1..(x + y) : d[i] = IF i <= x THEN s.data[i] ELSE t.data[i - x]
      /\ \A i \in 1..x : s.data[i] = s.at + i - 1
      /\ \A i \in 1..y : t.data[i] = t.at + i - 1
  BY <1>1, <1>2 DEF Honest, Truthful
<1> HIDE DEF x, y
<1>4. ASSUME NEW j \in 1..Len(d) PROVE d[j] = s.at + j - 1
  <2>0. j \in 1..(x + y)
    BY <1>0
  <2>1. CASE j <= x
    <3>1. j \in 1..x
      BY <1>0, <2>0, <2>1
    <3> QED
      BY <1>0, <2>0, <2>1, <3>1
  <2>2. CASE j > x
    <3>1. j - x \in 1..y
      BY <1>0, <2>0, <2>2
    <3>2. d[j] = t.data[j - x] /\ t.data[j - x] = t.at + (j - x) - 1
      <4>1. d[j] = t.data[j - x]
        BY <1>0, <2>0, <2>2
      <4> QED
        BY <1>0, <3>1, <4>1
    <3> QED
      BY <1>0, <2>0, <3>2
  <2> QED
    BY <1>0, <2>0, <2>1, <2>2
<1>5. d # <<>>
  BY <1>0, EmptySeq
<1>6. u \in Honest
  <2> HIDE DEF u
  <2> QED
    BY <1>3, <1>4, <1>5 DEF Honest, Truthful
<1>7. End(u) = End(t)
  <2>1. End(u) = s.at + (x + y) /\ End(t) = t.at + y
    <3> HIDE DEF u
    <3> QED
      BY <1>0, <1>3 DEF End, y
  <2> QED
    BY ONLY <1>0, <2>1
<1> QED
  BY <1>3, <1>6, <1>7

\* A later segment that begins no earlier than the last one ends is apart from all.
LEMMA LaterIsApart ==
    ASSUME NEW q \in Seq(Honest), Ascending(q), NEW n \in 1..(Len(q) - 1),
           \A i, j \in 1..n : i # j => Apart(q[i], q[j]), End(q[n]) <= q[n + 1].at
    PROVE  \A i, j \in 1..(n + 1) : i # j => Apart(q[i], q[j])
<1>1. /\ n + 1 \in 1..Len(q) /\ n \in 1..Len(q) /\ n \in 1..n /\ n \in Nat
      /\ \A i \in 1..n : i \in 1..Len(q)
  OBVIOUS
<1>2. \A i \in 1..Len(q) : q[i].at \in Nat /\ End(q[i]) \in Nat /\ q[i].at < End(q[i])
  <2>1. \A i \in 1..Len(q) : q[i] \in Honest /\ q[i] \in Segments
    BY DEF Honest
  <2> QED
    BY <2>1, SegmentIs
<1>3. ASSUME NEW i \in 1..n PROVE End(q[i]) <= q[n + 1].at
  <2>1. CASE i = n
    BY <2>1
  <2>2. CASE i # n
    <3>1. Apart(q[i], q[n]) /\ q[i].at <= q[n].at
      BY <1>1, <2>2 DEF Ascending
    <3>2. End(q[i]) <= q[n].at
      BY <1>1, <1>2, <3>1 DEF Apart
    <3> QED
      BY <1>1, <1>2, <3>2
  <2> QED
    BY <2>1, <2>2
<1>4. \A i : i \in 1..(n + 1) <=> i \in 1..n \/ i = n + 1
  BY <1>1
<1> QED
  BY <1>3, <1>4 DEF Apart

\* Segments that share an address are not apart.
LEMMA OverlapIsNotApart ==
    ASSUME NEW s \in Honest, NEW t \in Honest, s.at <= t.at, t.at < End(s)
    PROVE  ~Apart(s, t)
<1>1. /\ s.at \in Nat /\ t.at \in Nat /\ End(s) \in Nat /\ End(t) \in Nat /\ t.at < End(t)
  BY SegmentIs DEF Honest
<1> QED
  BY <1>1 DEF Apart

\* The merging keeps its invariant: blocks with gaps, or a refusal where segments overlap.
LEMMA MergedGrows ==
    ASSUME NEW q \in Seq(Honest), Ascending(q), NEW n \in 0..(Len(q) - 1), NEW m \in Merges,
           Merged(q, n, m)
    PROVE  Merged(q, n + 1, Merge(m, q[n + 1]))
<1> DEFINE s == q[n + 1]
           w == Merge(m, s)
           t == m.segments
           k == Len(t)
           last == t[k]
<1>1. /\ n \in Nat /\ n + 1 \in 1..Len(q) /\ s \in Honest /\ s \in Segments
      /\ m.ok \in BOOLEAN /\ t \in Seq(Segments) /\ k \in Nat
  BY DEF Honest, Merges
<1>2. \A i : i \in 1..(n + 1) <=> i \in 1..n \/ i = n + 1
  BY <1>1
<1>3. s.at \in Nat /\ End(s) \in Nat /\ s.at < End(s)
  BY <1>1, SegmentIs
<1>4. \A i \in 1..Len(q) : q[i] \in Honest
  OBVIOUS
<1> HIDE DEF s
<1>5. CASE ~m.ok
  <2>1. ~w.ok
    <3>1. m = [ok |-> m.ok, segments |-> t]
      BY DEF Merges
    <3>2. [m EXCEPT !.segments = <<s>>].ok = m.ok /\ [m EXCEPT !.segments = Append(@, s)].ok = m.ok
          /\ [m EXCEPT !.segments[k].data = @ \o s.data].ok = m.ok
      BY <3>1
    <3>3. [m EXCEPT !.ok = FALSE].ok = FALSE
      BY <3>1
    <3>4. t # <<>> => End(last) \in Nat
      <4>1. ASSUME t # <<>> PROVE last \in Segments
        BY <1>1, <4>1, EmptySeq
      <4> QED
        BY <4>1, SegmentIs
    <3> QED
      BY <1>3, <1>5, <3>2, <3>3, <3>4 DEF Merge
  <2>2. PICK i \in 1..n, j \in 1..n : i # j /\ ~Apart(q[i], q[j])
    BY <1>5 DEF Merged
  <2>3. i \in 1..(n + 1) /\ j \in 1..(n + 1)
    BY <1>2
  <2> HIDE DEF w
  <2> QED
    BY <2>1, <2>2, <2>3 DEF Merged, w, s
<1>6. CASE m.ok /\ t = <<>>
  <2>1. n = 0
    BY <1>1, <1>6 DEF Merged
  <2>2. w = [m EXCEPT !.segments = <<s>>]
    BY <1>6 DEF Merge
  <2>3. w.ok /\ w.segments = <<s>>
    BY <1>6, <2>2 DEF Merges
  <2>4. Blocks(<<s>>) /\ Len(<<s>>) = 1 /\ <<s>>[1] = s /\ <<s>> # <<>>
    BY <1>1 DEF Blocks, Gapped
  <2>5. \A i \in 1..(n + 1) : i = 1
    BY <2>1
  <2>6. \A a \in Nat : Covers(<<s>>, a) <=> CoversTo(q, n + 1, a)
    BY <2>1, <2>4 DEF Covers, CoversTo, s
  <2> HIDE DEF w
  <2> QED
    BY <2>1, <2>3, <2>4, <2>5, <2>6 DEF Merged, w, s
<1>7. CASE m.ok /\ t # <<>>
  <2>1. /\ Blocks(t) /\ \A i, j \in 1..n : i # j => Apart(q[i], q[j])
        /\ n > 0 /\ End(last) = End(q[n])
        /\ \A a \in Nat : Covers(t, a) <=> CoversTo(q, n, a)
    BY <1>1, <1>7 DEF Merged
  <2>2. k \in 1..k /\ n \in 1..Len(q) /\ n \in 1..n /\ k > 0
    BY <1>1, <1>7, <2>1, EmptySeq
  <2>3. last \in Honest /\ last \in Segments /\ t \in Seq(Honest)
    BY <2>1, <2>2 DEF Blocks, Honest
  <2>4. /\ last.at \in Nat /\ End(last) \in Nat /\ last.at < End(last)
    BY <2>3, SegmentIs
  <2>5. q[n] \in Honest /\ q[n].at <= s.at
    BY <1>1, <1>4, <2>2 DEF Ascending, s
  <2>6. CASE s.at < End(last)
    <3>1. w = [m EXCEPT !.ok = FALSE]
      BY <1>3, <1>7, <2>4, <2>6 DEF Merge
    <3>2. ~w.ok
      BY <3>1 DEF Merges
    <3>3. ~Apart(q[n], s)
      BY <1>1, <2>1, <2>5, <2>6, OverlapIsNotApart
    <3>4. n \in 1..(n + 1) /\ n + 1 \in 1..(n + 1) /\ n # n + 1
      BY <1>1, <2>1
    <3> HIDE DEF w
    <3> QED
      BY <3>2, <3>3, <3>4 DEF Merged, w, s
  <2>7. CASE s.at >= End(last)
    <3>1. \A i, j \in 1..(n + 1) : i # j => Apart(q[i], q[j])
      BY <1>1, <2>1, <2>2, <2>7, LaterIsApart DEF s
    <3>2. ASSUME NEW a \in Nat
          PROVE  CoversTo(q, n + 1, a) <=> Covers(t, a) \/ (s.at <= a /\ a < End(s))
      BY <1>1, <2>1, CoversMore DEF s
    <3>3. CASE s.at > End(last)
      <4>1. w = [m EXCEPT !.segments = Append(@, s)]
        BY <1>3, <1>7, <2>4, <3>3 DEF Merge
      <4>2. w.ok /\ w.segments = Append(t, s)
        BY <1>7, <4>1 DEF Merges
      <4> DEFINE v == Append(t, s)
      <4>3. /\ v \in Seq(Honest) /\ v # <<>> /\ Len(v) = k + 1 /\ v[k + 1] = s
            /\ \A i \in 1..k : v[i] = t[i]
        BY <1>1, <2>3, AppendProperties
      <4>4. \A a \in Nat : Covers(v, a) <=> CoversTo(q, n + 1, a)
        BY <1>1, <2>3, <3>2, AppendCovers
      <4> HIDE DEF v
      <4>5. ASSUME NEW i \in 1..(k + 1), NEW j \in 1..(k + 1), i < j PROVE End(v[i]) < v[j].at
        <5>1. i \in 1..k /\ v[i] = t[i]
          BY <1>1, <4>3, <4>5
        <5>2. CASE j # k + 1
          <6>1. j \in 1..k /\ v[j] = t[j]
            BY <1>1, <4>3, <5>2
          <6> QED
            BY <2>1, <4>5, <5>1, <6>1 DEF Blocks, Gapped
        <5>3. CASE j = k + 1
          <6>1. t[i] \in Honest /\ End(t[i]) \in Nat
            BY <2>3, <5>1, SegmentIs DEF Honest
          <6>2. ASSUME i # k PROVE End(t[i]) < last.at
            <7>1. i < k /\ k \in 1..Len(t)
              BY <1>1, <2>2, <5>1, <6>2
            <7> QED
              BY <2>1, <5>1, <7>1 DEF Blocks, Gapped
          <6>3. End(t[i]) <= End(last)
            BY <2>4, <6>1, <6>2
          <6>4. End(t[i]) < s.at
            BY <1>3, <2>4, <3>3, <6>1, <6>3
          <6> QED
            BY <4>3, <5>1, <5>3, <6>4
        <5> QED
          BY <5>2, <5>3
      <4>6. Blocks(v)
        BY <4>3, <4>5 DEF Blocks, Gapped
      <4> HIDE DEF w
      <4> QED
        BY <1>1, <2>1, <3>1, <4>2, <4>3, <4>4, <4>6 DEF Merged, w, v, s
    <3>4. CASE s.at = End(last)
      <4> DEFINE b == [last EXCEPT !.data = @ \o s.data]
                 v == [t EXCEPT ![k] = b]
      <4>1. w = [m EXCEPT !.segments[k].data = @ \o s.data]
        BY <1>3, <1>7, <2>4, <3>4 DEF Merge
      <4>2. w.ok /\ w.segments = v
        BY <1>7, <4>1 DEF Merges
      <4>3. b \in Honest /\ b.at = last.at /\ End(b) = End(s)
        BY <1>1, <2>3, <3>4, JoinedIsHonest
      <4> HIDE DEF b
      <4>4. /\ v \in Seq(Honest) /\ Len(v) = k /\ v[k] = b
            /\ \A i \in 1..k : i # k => v[i] = t[i]
        BY <2>2, <2>3, <4>3, ExceptSeq
      <4> HIDE DEF v
      <4>5. ASSUME NEW i \in 1..k, NEW j \in 1..k, i < j PROVE End(v[i]) < v[j].at
        <5>0. i # k
          BY <1>1, <4>5
        <5>1. End(t[i]) < t[j].at
          BY <2>1, <4>5 DEF Blocks, Gapped
        <5> QED
          BY <4>3, <4>4, <5>0, <5>1
      <4>6. v # <<>>
        BY <2>2, <4>4, EmptySeq
      <4>7. ASSUME NEW a \in Nat PROVE Covers(v, a) <=> CoversTo(q, n + 1, a)
        <5>1. (b.at <= a /\ a < End(b))
                <=> (last.at <= a /\ a < End(last)) \/ (s.at <= a /\ a < End(s))
          BY <1>3, <2>4, <3>4, <4>3
        <5>2. Covers(v, a) <=> Covers(t, a) \/ (s.at <= a /\ a < End(s))
          BY <2>2, <4>4, <5>1 DEF Covers
        <5> QED
          BY <3>2, <5>2
      <4>8. Blocks(v)
        BY <4>4, <4>5 DEF Blocks, Gapped
      <4> HIDE DEF w
      <4> QED
        BY <1>1, <2>1, <3>1, <4>2, <4>3, <4>4, <4>6, <4>7, <4>8 DEF Merged, w, s
    <3> QED
      BY <1>3, <2>4, <2>7, <3>3, <3>4
  <2> QED
    BY <1>3, <2>4, <2>6, <2>7
<1> QED
  BY <1>1, <1>5, <1>6, <1>7 DEF s

\* Finish accepts what lies apart, and returns the places the segments cover.
LEMMA FinishIs ==
    ASSUME NEW q \in Seq(Honest)
    PROVE  /\ Finish(q).ok <=> q # <<>> /\ AllApart(q)
           /\ Finish(q).ok =>
                /\ Blocks(Finish(q).segments)
                /\ \A a \in Nat : Covers(Finish(q).segments, a) <=> Covers(q, a)
<1> DEFINE t == Sorted(q)
           n == Len(q)
           b == q # <<>>
           f == Finish(q)
<1>1. /\ t \in Seq(Honest) /\ Len(t) = n /\ Ascending(t) /\ n \in Nat
      /\ \A a : Covers(t, a) <=> Covers(q, a)
      /\ AllApart(t) <=> AllApart(q)
  BY SortKeeps
<1> HIDE DEF t
<1>2. t \in Seq(Segments) /\ b \in BOOLEAN
  BY <1>1, SeqMonotonic DEF Honest
<1>3. PICK r \in [0..n -> Merges] :
              /\ r[0] = [ok |-> b, segments |-> <<>>]
              /\ \A i \in 1..n : r[i] = Merge(r[i - 1], t[i])
              /\ r[n] = FoldLeft(Merge, [ok |-> b, segments |-> <<>>], t)
  BY <1>1, <1>2, MergeFold
<1>4. f = r[n]
  BY <1>3 DEF Finish, t
<1>5. CASE q = <<>>
  <2>1. n = 0 /\ b = FALSE
    BY <1>5, EmptySeq
  <2> HIDE DEF b
  <2>2. f = [ok |-> FALSE, segments |-> <<>>]
    BY <1>3, <1>4, <2>1
  <2> QED
    BY <1>5, <2>2
<1>6. CASE q # <<>>
  <2> DEFINE S == {i \in 0..n : Merged(t, i, r[i])}
  <2>1. 0 \in S
    <3>1. Blocks(<<>>) /\ 1..0 = {} /\ Len(<<>>) = 0
      BY EmptySeq DEF Blocks, Gapped
    <3>2. r[0].ok = TRUE /\ r[0].segments = <<>>
      <4>1. b = TRUE
        BY <1>6
      <4> HIDE DEF b
      <4> QED
        BY <1>3, <4>1
    <3>3. Merged(t, 0, r[0])
      BY <3>1, <3>2 DEF Merged, Covers, CoversTo
    <3> QED
      BY <1>1, <3>3
  <2>2. ASSUME NEW i \in 1..n, i - 1 \in S PROVE i \in S
    <3>1. i - 1 \in 0..(Len(t) - 1) /\ (i - 1) + 1 = i /\ i \in 0..n /\ i - 1 \in 0..n
      BY <1>1
    <3>2. Merged(t, i - 1, r[i - 1]) /\ r[i - 1] \in Merges
      BY <2>2, <3>1
    <3>3. Merged(t, (i - 1) + 1, Merge(r[i - 1], t[(i - 1) + 1]))
      BY <1>1, <3>1, <3>2, MergedGrows
    <3> QED
      BY <1>3, <3>1, <3>3
  <2>3. \A i \in 0..n : i \in S
    <3> HIDE DEF S
    <3> QED
      BY <1>1, <2>1, <2>2, RunInduction
  <2>4. Merged(t, n, f) /\ f.ok \in BOOLEAN
    BY <1>1, <1>4, <2>3 DEF Merges
  <2>5. \A a : CoversTo(t, n, a) <=> Covers(q, a)
    BY <1>1 DEF CoversTo, Covers
  <2> HIDE DEF f
  <2> QED
    BY <1>1, <1>6, <2>4, <2>5 DEF Merged, AllApart, f
<1> QED
  BY <1>5, <1>6

\* Covered says what the elements of the list cover.
LEMMA CoveredIs ==
    ASSUME NEW q \in Seq(Segments), NEW a
    PROVE  Covered(a, q) <=> Covers(q, a)
BY DEF Covered, Covers, Range

\* The bytes of honest segments are the places they cover.
LEMMA MemoryIs ==
    ASSUME NEW q \in Seq(Honest)
    PROVE  Memory(q) = {<<a, a>> : a \in {x \in Nat : Covers(q, x)}}
<1>1. Len(q) \in Nat /\ DOMAIN q = 1..Len(q) /\ \A i \in 1..Len(q) : q[i] \in Honest
  OBVIOUS
<1>2. \A i \in 1..Len(q) : q[i] \in Segments /\ DOMAIN q[i].data = 1..Len(q[i].data)
  BY <1>1 DEF Honest, Segments, Bytes
<1>3. ASSUME NEW i \in 1..Len(q), NEW j \in 1..Len(q[i].data)
      PROVE  \E a \in Nat : /\ Covers(q, a) /\ <<q[i].at + j - 1, q[i].data[j]>> = <<a, a>>
  <2>1. q[i].at \in Nat /\ Len(q[i].data) \in Nat /\ q[i].data[j] = q[i].at + j - 1
    BY <1>1, <1>2, SegmentIs DEF Honest, Truthful
  <2>2. q[i].at + j - 1 \in Nat /\ q[i].at <= q[i].at + j - 1 /\ q[i].at + j - 1 < End(q[i])
    BY <2>1 DEF End
  <2> QED
    BY <2>1, <2>2 DEF Covers
<1>4. ASSUME NEW a \in Nat, Covers(q, a)
      PROVE  \E i \in 1..Len(q) : \E j \in 1..Len(q[i].data) :
               <<q[i].at + j - 1, q[i].data[j]>> = <<a, a>>
  <2>1. PICK i \in 1..Len(q) : q[i].at <= a /\ a < End(q[i])
    BY <1>4 DEF Covers
  <2>2. q[i].at \in Nat /\ Len(q[i].data) \in Nat
    BY <1>2, SegmentIs
  <2> DEFINE j == a - q[i].at + 1
  <2>3. j \in 1..Len(q[i].data) /\ q[i].at + j - 1 = a
    BY <2>1, <2>2 DEF End
  <2>4. q[i].data[j] = q[i].at + j - 1
    BY <1>1, <2>3 DEF Honest, Truthful
  <2> HIDE DEF j
  <2> QED
    BY <2>3, <2>4
<1>5. \A b : b \in Memory(q) <=> \E i \in 1..Len(q) : \E j \in 1..Len(q[i].data) :
                                   b = <<q[i].at + j - 1, q[i].data[j]>>
  <2> DEFINE Of(s) == {<<s.at + j - 1, s.data[j]>> : j \in DOMAIN s.data}
  <2>1. Memory(q) = UNION {Of(s) : s \in {q[i] : i \in 1..Len(q)}}
    BY <1>1 DEF Memory, Range
  <2>2. ASSUME NEW b
        PROVE  b \in Memory(q) <=> \E i \in 1..Len(q) : b \in Of(q[i])
    <3> HIDE DEF Of
    <3> QED
      BY <2>1
  <2>3. ASSUME NEW i \in 1..Len(q), NEW b
        PROVE  b \in Of(q[i]) <=> \E j \in 1..Len(q[i].data) : b = <<q[i].at + j - 1, q[i].data[j]>>
    BY <1>2
  <2> HIDE DEF Of
  <2> QED
    BY <2>2, <2>3
<1>6. ASSUME NEW b \in Memory(q)
      PROVE  b \in {<<a, a>> : a \in {x \in Nat : Covers(q, x)}}
  <2>1. PICK i \in 1..Len(q) : \E j \in 1..Len(q[i].data) : b = <<q[i].at + j - 1, q[i].data[j]>>
    BY <1>5
  <2> QED
    BY <1>3, <2>1
<1>7. ASSUME NEW a \in Nat, Covers(q, a) PROVE <<a, a>> \in Memory(q)
  <2>1. PICK i \in 1..Len(q) : \E j \in 1..Len(q[i].data) :
               <<q[i].at + j - 1, q[i].data[j]>> = <<a, a>>
    BY <1>4, <1>7
  <2> QED
    BY <1>5, <2>1
<1> QED
  BY <1>6, <1>7

\* Blocks are told by what they cover: half of the argument, for one block.
LEMMA BlockBegins ==
    ASSUME NEW p, Blocks(p), NEW q, Blocks(q), \A a \in Nat : Covers(p, a) => Covers(q, a),
           NEW i \in 1..Len(p), \A j \in 1..(i - 1) : j \in 1..Len(q) /\ q[j] = p[j]
    PROVE  i \in 1..Len(q) /\ q[i].at <= p[i].at
<1>1. /\ Len(p) \in Nat /\ Len(q) \in Nat
      /\ \A k \in 1..Len(p) : p[k] \in Segments /\ p[k] \in Honest
      /\ \A k \in 1..Len(q) : q[k] \in Segments /\ q[k] \in Honest
  BY DEF Blocks, Honest
<1>2. /\ \A k \in 1..Len(p) : p[k].at \in Nat /\ End(p[k]) \in Nat /\ p[k].at < End(p[k])
      /\ \A k \in 1..Len(q) : q[k].at \in Nat /\ End(q[k]) \in Nat /\ q[k].at < End(q[k])
  BY <1>1, SegmentIs
<1>3. Covers(p, p[i].at)
  BY <1>2 DEF Covers
<1>4. PICK k \in 1..Len(q) : q[k].at <= p[i].at /\ p[i].at < End(q[k])
  BY <1>2, <1>3 DEF Covers
<1>5. k >= i
  <2>1. SUFFICES ASSUME k < i PROVE FALSE
    BY <1>1
  <2>2. k \in 1..(i - 1) /\ k \in 1..Len(p)
    BY <1>1, <2>1
  <2>3. End(p[k]) < p[i].at /\ q[k] = p[k]
    BY <2>1, <2>2 DEF Blocks, Gapped
  <2> QED
    BY <1>2, <1>4, <2>2, <2>3
<1>6. i \in 1..Len(q)
  BY <1>1, <1>5
<1>7. k # i => End(q[i]) < q[k].at
  BY <1>1, <1>5, <1>6 DEF Blocks, Gapped
<1> QED
  BY <1>2, <1>4, <1>6, <1>7

\* Blocks that begin at the same address end at the same one.
LEMMA BlockEnds ==
    ASSUME NEW p, Blocks(p), NEW q, Blocks(q), \A a \in Nat : Covers(q, a) => Covers(p, a),
           NEW i \in 1..Len(p), i \in 1..Len(q), q[i].at = p[i].at
    PROVE  End(q[i]) <= End(p[i])
<1>1. /\ Len(p) \in Nat /\ Len(q) \in Nat
      /\ \A k \in 1..Len(p) : p[k] \in Segments /\ p[k] \in Honest
      /\ \A k \in 1..Len(q) : q[k] \in Segments /\ q[k] \in Honest
  BY DEF Blocks, Honest
<1>2. /\ \A k \in 1..Len(p) : p[k].at \in Nat /\ End(p[k]) \in Nat /\ p[k].at < End(p[k])
      /\ \A k \in 1..Len(q) : q[k].at \in Nat /\ End(q[k]) \in Nat /\ q[k].at < End(q[k])
  BY <1>1, SegmentIs
<1> SUFFICES ASSUME End(p[i]) < End(q[i]) PROVE FALSE
  BY <1>2
<1>3. Covers(q, End(p[i]))
  BY <1>2 DEF Covers
<1>4. PICK k \in 1..Len(p) : p[k].at <= End(p[i]) /\ End(p[i]) < End(p[k])
  BY <1>2, <1>3 DEF Covers
<1>5. k < i => End(p[k]) < p[i].at
  BY <1>1 DEF Blocks, Gapped
<1>6. k > i => End(p[i]) < p[k].at
  BY <1>1 DEF Blocks, Gapped
<1> QED
  BY <1>1, <1>2, <1>4, <1>5, <1>6

\* Lists of blocks that cover the same addresses are the same list.
LEMMA SameCoverSameBlocks ==
    ASSUME NEW p, Blocks(p), NEW q, Blocks(q), \A a \in Nat : Covers(p, a) <=> Covers(q, a)
    PROVE  p = q
<1> DEFINE n == Len(p)
           S == {i \in 0..n : \A j \in 1..i : j \in 1..Len(q) /\ q[j] = p[j]}
<1>1. /\ p \in Seq(Honest) /\ q \in Seq(Honest) /\ n \in Nat /\ Len(q) \in Nat
      /\ \A k \in 1..n : p[k] \in Honest /\ p[k] \in Segments
      /\ \A k \in 1..Len(q) : q[k] \in Honest /\ q[k] \in Segments
  BY DEF Blocks, Honest
<1>2. 0 \in S
  BY <1>1
<1>3. ASSUME NEW i \in 1..n, i - 1 \in S PROVE i \in S
  <2>1. \A j \in 1..(i - 1) : j \in 1..Len(q) /\ q[j] = p[j]
    BY <1>3
  <2>2. i \in 1..Len(q) /\ q[i].at <= p[i].at
    BY <2>1, BlockBegins
  <2>3. \A j \in 1..(i - 1) : j \in 1..n /\ p[j] = q[j]
    BY <1>1, <2>1
  <2>4. p[i].at <= q[i].at
    BY <2>2, <2>3, BlockBegins
  <2>5. /\ p[i].at \in Nat /\ q[i].at \in Nat /\ End(p[i]) \in Nat /\ End(q[i]) \in Nat
        /\ p[i] \in Honest /\ q[i] \in Honest /\ p[i] \in Segments /\ q[i] \in Segments
    BY <1>1, <2>2, SegmentIs
  <2>6. p[i].at = q[i].at
    BY <2>2, <2>4, <2>5
  <2>7. End(q[i]) <= End(p[i]) /\ End(p[i]) <= End(q[i])
    BY <2>2, <2>6, BlockEnds
  <2>8. End(q[i]) = End(p[i])
    BY <2>5, <2>7
  <2>9. q[i] = p[i]
    <3>1. /\ Len(p[i].data) \in Nat /\ Len(q[i].data) \in Nat
          /\ p[i].data \in Seq(Nat) /\ q[i].data \in Seq(Nat)
          /\ p[i] = Segment(p[i].at, p[i].data) /\ q[i] = Segment(q[i].at, q[i].data)
      BY <2>5, SegmentIs
    <3>2. Len(p[i].data) = Len(q[i].data)
      <4>1. /\ End(p[i]) = p[i].at + Len(p[i].data) /\ End(q[i]) = q[i].at + Len(q[i].data)
            /\ p[i].at \in Nat /\ p[i].at = q[i].at /\ End(q[i]) = End(p[i])
        BY <2>5, <2>6, <2>8 DEF End
      <4> QED
        BY ONLY <3>1, <4>1
    <3>3. \A j \in 1..Len(p[i].data) : p[i].data[j] = q[i].data[j]
      BY <2>5, <2>6, <3>2 DEF Honest, Truthful
    <3>4. p[i].data = q[i].data
      BY <3>1, <3>2, <3>3, SeqEqual
    <3> QED
      BY <2>6, <3>1, <3>4
  <2>10. \A j \in 1..i : j \in 1..(i - 1) \/ j = i
    BY <1>1
  <2>11. i \in 0..n
    BY <1>1
  <2> QED
    BY <2>1, <2>2, <2>9, <2>10, <2>11
<1>4. \A i \in 0..n : i \in S
  <2> HIDE DEF S
  <2> QED
    BY <1>1, <1>2, <1>3, RunInduction
<1>5. n \in S
  BY <1>1, <1>4
<1>6. Len(q) = n
  <2>1. n <= Len(q)
    BY <1>1, <1>5
  <2>2. SUFFICES ASSUME n < Len(q) PROVE FALSE
    BY <1>1, <2>1
  <2>3. n + 1 \in 1..Len(q) /\ (n + 1) - 1 = n
    BY <1>1, <2>2
  <2>4. \A j \in 1..((n + 1) - 1) : j \in 1..Len(p) /\ p[j] = q[j]
    BY <1>1, <1>5, <2>3
  <2>5. n + 1 \in 1..Len(p)
    BY <2>3, <2>4, BlockBegins
  <2> QED
    BY <1>1, <2>5
<1> QED
  BY <1>1, <1>5, <1>6, SeqEqual

-------------------------------------------------------------------------------
(* The loader of a window.                                                 *)

\* The lines of an S-record file.
GoodLines ==
    {l \in Lines : /\ l.kind \in {"data", "count", "end"}
                   /\ l.kind = "data" <=> l.data # <<>>
                   /\ l.kind = "data" => Truthful(Segment(l.at, l.data))}

\* The parts of a good line.
LEMMA GoodLineIs ==
    ASSUME NEW l \in GoodLines
    PROVE  /\ l \in Lines /\ l.at \in Nat /\ l.kind \in {"data", "count", "end"}
           /\ l.kind = "data" <=> l.data # <<>>
           /\ l.kind = "data" => Segment(l.at, l.data) \in Honest
<1>1. l \in Lines /\ l.at \in Nat /\ Segment(l.at, l.data) \in Segments
  BY DEF GoodLines, Lines, Segments, Segment
<1> QED
  BY <1>1 DEF GoodLines, Honest

\* found holds the segments of all that are not outside the window.
Linked(all, found, from, to) ==
    /\ all \in Seq(Honest) /\ found \in Seq(Honest)
    /\ \A i \in 1..Len(found) :
         ~Outside(found[i], from, to) /\ \E j \in 1..Len(all) : found[i] = all[j]
    /\ \A j \in 1..Len(all) :
         Outside(all[j], from, to) \/ \E i \in 1..Len(found) : found[i] = all[j]
    /\ AllApart(all) => AllApart(found)

\* A line more keeps the window's segments the ones of all that are not outside.
LEMMA LinkedGrows ==
    ASSUME NEW all, NEW found, NEW from, NEW to, Linked(all, found, from, to), NEW s \in Honest
    PROVE  Linked(Append(all, s), IF Outside(s, from, to) THEN found ELSE Append(found, s), from, to)
<1> DEFINE n == Len(all)
           k == Len(found)
           v == Append(all, s)
           w == Append(found, s)
<1>1. /\ all \in Seq(Honest) /\ found \in Seq(Honest) /\ n \in Nat /\ k \in Nat
  BY DEF Linked
<1>2. /\ v \in Seq(Honest) /\ Len(v) = n + 1 /\ v[n + 1] = s /\ \A i \in 1..n : v[i] = all[i]
      /\ w \in Seq(Honest) /\ Len(w) = k + 1 /\ w[k + 1] = s /\ \A i \in 1..k : w[i] = found[i]
  BY <1>1, AppendProperties
<1>3. /\ \A i : i \in 1..(n + 1) <=> i \in 1..n \/ i = n + 1
      /\ \A i : i \in 1..(k + 1) <=> i \in 1..k \/ i = k + 1
      /\ n + 1 \notin 1..n /\ k + 1 \notin 1..k
  BY <1>1
<1>4. /\ \A i \in 1..k : ~Outside(found[i], from, to) /\ \E j \in 1..n : found[i] = all[j]
      /\ \A j \in 1..n : Outside(all[j], from, to) \/ \E i \in 1..k : found[i] = all[j]
      /\ AllApart(all) => AllApart(found)
  BY DEF Linked
<1> HIDE DEF n, k, v, w
<1>5. ASSUME AllApart(v) PROVE AllApart(found) /\ \A i \in 1..k : Apart(found[i], s) /\ Apart(s, found[i])
  <2>1. \A i, j \in 1..(n + 1) : i # j => Apart(v[i], v[j])
    BY <1>2, <1>5 DEF AllApart
  <2>2. \A i \in 1..n : Apart(all[i], s) /\ Apart(s, all[i])
    BY <1>2, <1>3, <2>1
  <2>3. AllApart(all)
    BY <1>2, <1>3, <2>1 DEF AllApart, n
  <2>4. ASSUME NEW i \in 1..k PROVE Apart(found[i], s) /\ Apart(s, found[i])
    <3>1. PICK j \in 1..n : found[i] = all[j]
      BY <1>4
    <3> QED
      BY <2>2, <3>1
  <2> QED
    BY <1>4, <2>3, <2>4
<1>6. CASE Outside(s, from, to)
  <2>1. ASSUME NEW i \in 1..k PROVE \E j \in 1..(n + 1) : found[i] = v[j]
    <3>1. PICK j \in 1..n : found[i] = all[j]
      BY <1>4
    <3>2. j \in 1..(n + 1) /\ found[i] = v[j]
      BY <1>2, <1>3, <3>1
    <3> QED
      BY <3>2
  <2>2. \A j \in 1..(n + 1) : Outside(v[j], from, to) \/ \E i \in 1..k : found[i] = v[j]
    BY <1>2, <1>3, <1>4, <1>6
  <2>3. Linked(v, found, from, to)
    BY <1>1, <1>2, <1>4, <1>5, <2>1, <2>2 DEF Linked, k
  <2> QED
    BY <1>6, <2>3 DEF v
<1>7. CASE ~Outside(s, from, to)
  <2>1. \A i \in 1..(k + 1) : ~Outside(w[i], from, to) /\ \E j \in 1..(n + 1) : w[i] = v[j]
    <3>1. ASSUME NEW i \in 1..k PROVE \E j \in 1..(n + 1) : w[i] = v[j]
      <4>1. PICK j \in 1..n : found[i] = all[j]
        BY <1>4
      <4> QED
        BY <1>2, <1>3, <4>1
    <3>2. \A i \in 1..k : ~Outside(w[i], from, to)
      BY <1>2, <1>4
    <3>3. n + 1 \in 1..(n + 1) /\ w[k + 1] = v[n + 1] /\ ~Outside(w[k + 1], from, to)
      BY <1>2, <1>3, <1>7
    <3> QED
      BY <1>3, <3>1, <3>2, <3>3
  <2>2. ASSUME NEW j \in 1..(n + 1)
        PROVE  Outside(v[j], from, to) \/ \E i \in 1..(k + 1) : w[i] = v[j]
    <3>1. CASE j = n + 1
      <4>1. k + 1 \in 1..(k + 1) /\ w[k + 1] = v[j]
        BY <1>2, <1>3, <3>1
      <4> QED
        BY <4>1
    <3>2. CASE j \in 1..n
      <4>1. CASE Outside(all[j], from, to)
        BY <1>2, <3>2, <4>1
      <4>2. CASE \E i \in 1..k : found[i] = all[j]
        <5>1. PICK i \in 1..k : found[i] = all[j]
          BY <4>2
        <5>2. i \in 1..(k + 1) /\ w[i] = v[j]
          BY <1>2, <1>3, <3>2, <5>1
        <5> QED
          BY <5>2
      <4> QED
        BY <1>4, <3>2, <4>1, <4>2
    <3> QED
      BY <1>3, <3>1, <3>2
  <2>3. ASSUME AllApart(v) PROVE AllApart(w)
    <3>1. \A i, j \in 1..k : i # j => Apart(found[i], found[j])
      BY <1>5, <2>3 DEF AllApart, k
    <3>2. ASSUME NEW i \in 1..(k + 1), NEW j \in 1..(k + 1), i # j PROVE Apart(w[i], w[j])
      <4>1. CASE i \in 1..k /\ j \in 1..k
        BY <1>2, <3>1, <3>2, <4>1
      <4>2. CASE i = k + 1 /\ j \in 1..k
        BY <1>2, <1>5, <2>3, <4>2
      <4>3. CASE i \in 1..k /\ j = k + 1
        BY <1>2, <1>5, <2>3, <4>3
      <4> QED
        BY <1>3, <3>2, <4>1, <4>2, <4>3
    <3> QED
      BY <1>2, <3>2 DEF AllApart
  <2>4. Linked(v, w, from, to)
    BY <1>2, <2>1, <2>2, <2>3 DEF Linked
  <2> QED
    BY <1>7, <2>4 DEF v, w
<1> QED
  BY <1>6, <1>7

\* The two readers see the same data lines.
LEMMA ReadersLink ==
    ASSUME text \in Seq(GoodLines), form # "hex", NEW from \in Nat, NEW to \in Nat
    PROVE  FoldLeft(ReadLine, Start, text).ok =>
             Linked(FoldLeft(ReadLine, Start, text).segments, InWindow(from, to), from, to)
<1> DEFINE n == Len(text)
<1>1. text \in Seq(Lines) /\ n \in Nat /\ \A i \in 1..n : text[i] \in GoodLines
  BY SeqMonotonic DEF GoodLines
<1>2. PICK r \in [0..n -> States] :
              /\ r[0] = Start
              /\ \A i \in 1..n : r[i] = ReadLine(r[i - 1], text[i])
              /\ r[n] = FoldLeft(ReadLine, Start, text)
  BY <1>1, ReadFold
<1>3. PICK w \in [0..n -> Seq(Segments)] :
              /\ w[0] = <<>>
              /\ \A i \in 1..n : w[i] = Keep(w[i - 1], text[i], from, to)
              /\ w[n] = InWindow(from, to)
  BY <1>1, WindowFold
<1> DEFINE S == {i \in 0..n : r[i].ok => Linked(r[i].segments, w[i], from, to)}
<1>4. 0 \in S
  <2>1. Linked(<<>>, <<>>, from, to)
    BY EmptySeq DEF Linked, AllApart
  <2> QED
    BY <1>1, <1>2, <1>3, <2>1 DEF Start
<1>5. ASSUME NEW i \in 1..n, i - 1 \in S PROVE i \in S
  <2> DEFINE p == r[i - 1]
             l == text[i]
             s == Segment(l.at, l.data)
  <2>1. i - 1 \in 0..n /\ i \in 0..n
    BY <1>1
  <2>2. /\ p \in States /\ l \in GoodLines /\ r[i] = SrecLine(p, l)
        /\ w[i] = Keep(w[i - 1], l, from, to)
    BY <1>1, <1>2, <1>3, <2>1 DEF ReadLine
  <2>3. /\ l.kind \in {"data", "count", "end"}
        /\ l.kind = "data" <=> l.data # <<>>
        /\ l.kind = "data" => s \in Honest
    BY <2>2, GoodLineIs
  <2> SUFFICES ASSUME r[i].ok PROVE Linked(r[i].segments, w[i], from, to)
    BY <2>1
  <2> HIDE DEF p, l, s
  <2>4. ~p.ended /\ p.ok
    <3>1. [p EXCEPT !.ok = FALSE].ok = FALSE
      BY <2>2 DEF States
    <3>2. ~p.ended
      BY <2>2, <3>1 DEF SrecLine
    <3>3. /\ [p EXCEPT !.counts = Append(@, l.at), !.ok = @ /\ p.counts = <<>>].ok = (p.ok /\ p.counts = <<>>)
          /\ [p EXCEPT !.ended = TRUE, !.entry = l.at].ok = p.ok
          /\ [p EXCEPT !.segments = Append(@, Segment(l.at, l.data))].ok = p.ok
      BY <2>2 DEF States
    <3> QED
      BY <2>2, <3>2, <3>3 DEF SrecLine
  <2>5. Linked(p.segments, w[i - 1], from, to)
    BY <1>5, <2>4 DEF p
  <2>6. CASE l.kind = "data"
    <3>1. r[i] = [p EXCEPT !.segments = Append(@, s)]
      BY <2>2, <2>4, <2>6 DEF SrecLine, s
    <3>2. r[i].segments = Append(p.segments, s)
      BY <2>2, <3>1 DEF States
    <3>3. w[i] = IF Outside(s, from, to) THEN w[i - 1] ELSE Append(w[i - 1], s)
      BY <2>2, <2>3, <2>6 DEF Keep, s
    <3> QED
      BY <2>3, <2>5, <2>6, <3>2, <3>3, LinkedGrows
  <2>7. CASE l.kind # "data"
    <3>1. w[i] = w[i - 1]
      BY <2>2, <2>3, <2>7 DEF Keep
    <3>2. r[i].segments = p.segments
      <4>1. /\ [p EXCEPT !.counts = Append(@, l.at), !.ok = @ /\ p.counts = <<>>].segments = p.segments
            /\ [p EXCEPT !.ended = TRUE, !.entry = l.at].segments = p.segments
        BY <2>2 DEF States
      <4> QED
        BY <2>2, <2>3, <2>4, <2>7, <4>1 DEF SrecLine
    <3> QED
      BY <2>5, <3>1, <3>2
  <2> QED
    BY <2>6, <2>7
<1>6. \A i \in 0..n : i \in S
  <2> HIDE DEF S
  <2> QED
    BY <1>1, <1>4, <1>5, RunInduction
<1>7. n \in S
  <2> HIDE DEF S
  <2> QED
    BY <1>1, <1>6
<1> QED
  BY <1>2, <1>3, <1>7

\* A segment cut at the window's start.
LEMMA SlicedIs ==
    ASSUME NEW s \in Honest, NEW from \in Nat, NEW to, ~Outside(s, from, to)
    PROVE  /\ Sliced(s, from) \in Honest /\ End(Sliced(s, from)) = End(s)
           /\ Sliced(s, from).at \in Nat
           /\ Sliced(s, from).at = IF s.at >= from THEN s.at ELSE from
<1> DEFINE n == Len(s.data)
           t == Sliced(s, from)
<1>1. s \in Segments /\ s.at \in Nat /\ s.data \in Seq(Nat) /\ n \in Nat /\ End(s) = s.at + n
      /\ \A j \in 1..n : s.data[j] = s.at + j - 1
  BY SegmentIs DEF Honest, Truthful, End
<1>2. CASE s.at >= from
  <2>1. t = s
    BY <1>1, <1>2, SegmentIs DEF Sliced
  <2> QED
    BY <1>1, <1>2, <2>1
<1>3. CASE s.at < from
  <2> DEFINE k == from - s.at
             d == SubSeq(s.data, k + 1, n)
  <2>1. t = Segment(from, d)
    BY <1>1, <1>3 DEF Sliced
  <2>2. k \in Nat /\ k > 0 /\ k < n /\ from = s.at + k /\ k + 1 \in Int
        /\ k + 1 <= n /\ n - (k + 1) + 1 = n - k
    <3>1. ~(End(s) <= from)
      BY DEF Outside
    <3>2. s.at \in Nat /\ n \in Nat /\ from \in Nat /\ s.at < from /\ ~(s.at + n <= from)
      BY <1>1, <1>3, <3>1
    <3> HIDE DEF n
    <3> QED
      BY ONLY <3>2
  <2> HIDE DEF k, n
  <2>3. d \in Seq(Nat) /\ Len(d) = n - k /\ \A j \in 1..(n - k) : d[j] = s.data[k + 1 + j - 1]
    <3> DEFINE q == s.data
               m == k + 1
    <3>0. k \in Nat /\ n \in Nat /\ k < n
      BY <1>1, <2>2 DEF n
    <3>1. q \in Seq(Nat) /\ n = Len(q)
      BY <1>1 DEF n
    <3>2. /\ m \in Nat \ {0} /\ n \in Nat /\ n <= n /\ m <= n + 1 /\ n + 1 - m = n - k
          /\ \A j \in Nat : m + j - 1 = k + 1 + j - 1
      BY ONLY <3>0
    <3>3. d = SubSeq(q, m, n)
      BY DEF n
    <3> HIDE DEF d, q, m
    <3>4. /\ d \in Seq(Nat) /\ Len(d) = n + 1 - m
          /\ \A j \in 1..(n + 1 - m) : d[j] = q[m + j - 1]
      BY ONLY <3>1, <3>2, <3>3, PartIs
    <3>5. ASSUME NEW j \in 1..(n - k) PROVE d[j] = s.data[k + 1 + j - 1]
      <4>1. j \in Nat /\ j \in 1..(n + 1 - m)
        BY ONLY <3>0, <3>2, j \in 1..(n - k)
      <4>2. m + j - 1 = k + 1 + j - 1
        BY ONLY <3>2, <4>1
      <4> QED
        BY <3>4, <4>1, <4>2 DEF q
    <3>6. n + 1 - m = n - k
      BY ONLY <3>2
    <3> QED
      BY ONLY <3>4, <3>5, <3>6
  <2> HIDE DEF d
  <2>4. ASSUME NEW j \in 1..(n - k) PROVE d[j] = from + j - 1
    <3>0. n \in Nat /\ k \in Nat /\ j \in Int /\ 1 <= j /\ j <= n - k /\ s.at \in Nat
      BY <1>1, <2>2
    <3>1. k + 1 + j - 1 \in 1..n /\ k + 1 + j - 1 = k + j
      BY ONLY <3>0
    <3>2. s.data[k + j] = s.at + (k + j) - 1
      BY <1>1, <3>1
    <3>3. d[j] = s.data[k + j]
      BY <2>3, <3>1
    <3>4. d[j] = s.at + (k + j) - 1 /\ from = s.at + k
      BY <2>2, <3>2, <3>3
    <3> QED
      BY ONLY <3>0, <3>4
  <2>5. d # <<>>
    BY <1>1, <2>2, <2>3, EmptySeq
  <2>6. t.at = from /\ t.data = d /\ t \in Segments
    BY <2>1, <2>3 DEF Segment, Segments, Bytes
  <2>7. End(t) = End(s)
    <3> HIDE DEF t
    <3> QED
      <4>1. End(t) = from + (n - k)
        BY <2>3, <2>6 DEF End
      <4>2. End(s) = s.at + n /\ s.at \in Nat /\ n \in Nat
        BY <1>1
      <4> QED
        BY ONLY <2>2, <4>1, <4>2
  <2> HIDE DEF t
  <2>8. t \in Honest
    BY <2>3, <2>4, <2>5, <2>6 DEF Honest, Truthful
  <2> QED
    BY <1>1, <1>3, <2>6, <2>7, <2>8 DEF t
<1> QED
  BY <1>1, <1>2, <1>3

\* What joining the first n of q from an address on has found.
Tiled(q, n, from, b, m) ==
    m.ok => /\ b /\ m.next \in Nat /\ from <= m.next
            /\ m.data \in Seq(Nat) /\ Len(m.data) = m.next - from
            /\ \A j \in 1..Len(m.data) : m.data[j] = from + j - 1
            /\ \A a \in Nat : CoversTo(q, n, a) <=> from <= a /\ a < m.next

\* Joining one more slice keeps what is joined the bytes from the window's start.
LEMMA TiledGrows ==
    ASSUME NEW q \in Seq(Honest), NEW n \in 0..(Len(q) - 1), NEW from \in Nat, NEW b \in BOOLEAN,
           NEW m \in Joins, Tiled(q, n, from, b, m)
    PROVE  Tiled(q, n + 1, from, b, Join(m, q[n + 1]))
<1> DEFINE s == q[n + 1]
           w == Join(m, s)
<1>1. n \in Nat /\ s \in Honest /\ s \in Segments
  BY DEF Honest
<1>2. /\ s.at \in Nat /\ s.data \in Seq(Nat) /\ Len(s.data) \in Nat /\ End(s) = s.at + Len(s.data)
      /\ s.at < End(s) /\ \A j \in 1..Len(s.data) : s.data[j] = s.at + j - 1
  BY <1>1, SegmentIs DEF Honest, Truthful, End
<1>3. w.ok = (m.ok /\ s.at = m.next) /\ w.next = End(s) /\ w.data = m.data \o s.data
  BY DEF Join
<1>4. \A a : CoversTo(q, n + 1, a) <=> CoversTo(q, n, a) \/ (s.at <= a /\ a < End(s))
  BY <1>1, CoversMore
<1> HIDE DEF w, s
<1>5. ASSUME w.ok
      PROVE  /\ b /\ w.next \in Nat /\ from <= w.next
             /\ w.data \in Seq(Nat) /\ Len(w.data) = w.next - from
             /\ \A j \in 1..Len(w.data) : w.data[j] = from + j - 1
             /\ \A a \in Nat : CoversTo(q, n + 1, a) <=> from <= a /\ a < w.next
  <2>1. m.ok /\ s.at = m.next
    BY <1>3, <1>5
  <2>2. /\ b /\ m.next \in Nat /\ from <= m.next
        /\ m.data \in Seq(Nat) /\ Len(m.data) = m.next - from
        /\ \A j \in 1..Len(m.data) : m.data[j] = from + j - 1
        /\ \A a \in Nat : CoversTo(q, n, a) <=> from <= a /\ a < m.next
    BY <2>1 DEF Tiled
  <2> DEFINE x == Len(m.data)
             y == Len(s.data)
             d == m.data \o s.data
  <2>3. d \in Seq(Nat) /\ Len(d) = x + y
        /\ \A i \in 1..(x + y) : d[i] = IF i <= x THEN m.data[i] ELSE s.data[i - x]
    <3>1. m.data \in Seq(Nat) /\ s.data \in Seq(Nat)
      BY <1>2, <2>2
    <3> QED
      BY ONLY <3>1, ConcatProperties
  <2>4. /\ x \in Nat /\ y \in Nat /\ m.next = from + x /\ End(s) = from + (x + y) /\ s.at = from + x
        /\ \A i \in 1..x : m.data[i] = from + i - 1
        /\ \A i \in 1..y : s.data[i] = s.at + i - 1
    <3>1. y \in Nat /\ End(s) = s.at + y /\ s.at = m.next /\ s.at \in Nat
      BY <1>2, <2>1
    <3>2. x = m.next - from /\ m.next \in Nat /\ from <= m.next
      BY <2>2
    <3>3. /\ \A i \in 1..x : m.data[i] = from + i - 1
          /\ \A i \in 1..y : s.data[i] = s.at + i - 1
      BY <1>2, <2>2
    <3> HIDE DEF x, y
    <3> QED
      BY <3>1, <3>2, <3>3
  <2> HIDE DEF x, y, d
  <2>5. ASSUME NEW j \in 1..(x + y) PROVE d[j] = from + j - 1
    <3>1. CASE j <= x
      <4>1. j \in 1..x
        BY <2>4, <3>1
      <4> QED
        BY <2>3, <2>4, <3>1, <4>1
    <3>2. CASE j > x
      <4>1. j - x \in 1..y
        BY <2>4, <3>2
      <4>2. d[j] = s.data[j - x]
        BY <2>3, <2>4, <3>2
      <4>3. s.data[j - x] = s.at + (j - x) - 1
        BY <2>4, <4>1
      <4> QED
        BY <2>4, <4>2, <4>3
    <3> QED
      BY <2>4, <3>1, <3>2
  <2>6. w.data = d
    BY <1>3 DEF d
  <2>7. w.next \in Nat /\ from <= w.next /\ Len(d) = w.next - from
    BY <1>3, <2>3, <2>4
  <2>8. ASSUME NEW a \in Nat PROVE CoversTo(q, n + 1, a) <=> from <= a /\ a < w.next
    <3>1. CoversTo(q, n, a) <=> from <= a /\ a < m.next
      BY <2>2
    <3>2. CoversTo(q, n + 1, a) <=> CoversTo(q, n, a) \/ (s.at <= a /\ a < End(s))
      BY <1>4
    <3> QED
      BY ONLY <1>3, <2>4, <3>1, <3>2, from \in Nat, a \in Nat
  <2> QED
    BY <2>2, <2>3, <2>5, <2>6, <2>7, <2>8
<1> QED
  BY <1>5 DEF Tiled, w, s

\* What joining slices returns, and when it refuses them.
LEMMA JoinIs ==
    ASSUME NEW q \in Seq(Honest), NEW from \in Nat, NEW b \in BOOLEAN
    PROVE  LET joined == FoldLeft(Join, [ok |-> b, next |-> from, data |-> <<>>], q) IN
             /\ Tiled(q, Len(q), from, b, joined)
             /\ b /\ Ascending(q) /\ AllApart(q)
                  /\ (\E to \in Nat : \A a \in Nat : Covers(q, a) <=> from <= a /\ a < to)
                => joined.ok
<1> DEFINE n == Len(q)
           joined == FoldLeft(Join, [ok |-> b, next |-> from, data |-> <<>>], q)
<1>1. q \in Seq(Segments) /\ n \in Nat /\ \A i \in 1..n : q[i] \in Honest /\ q[i] \in Segments
  BY SeqMonotonic DEF Honest
<1>2. PICK r \in [0..n -> Joins] :
              /\ r[0] = [ok |-> b, next |-> from, data |-> <<>>]
              /\ \A i \in 1..n : r[i] = Join(r[i - 1], q[i])
              /\ r[n] = joined
  BY <1>1, JoinFold
<1> DEFINE S == {i \in 0..n : Tiled(q, i, from, b, r[i])}
<1>3. 0 \in S
  <2>1. r[0].ok = b /\ r[0].next = from /\ r[0].data = <<>>
    BY <1>2
  <2>2. 1..0 = {} /\ <<>> \in Seq(Nat) /\ Len(<<>>) = 0
    BY EmptySeq
  <2>3. Tiled(q, 0, from, b, r[0])
    BY <2>1, <2>2 DEF Tiled, CoversTo
  <2> QED
    BY <1>1, <2>3
<1>4. ASSUME NEW i \in 1..n, i - 1 \in S PROVE i \in S
  <2>1. i - 1 \in 0..(n - 1) /\ (i - 1) + 1 = i /\ i \in 0..n /\ i - 1 \in 0..n
    BY <1>1
  <2>2. r[i - 1] \in Joins /\ Tiled(q, i - 1, from, b, r[i - 1])
    BY <1>4, <2>1
  <2>3. Tiled(q, (i - 1) + 1, from, b, Join(r[i - 1], q[(i - 1) + 1]))
    BY <2>1, <2>2, TiledGrows
  <2> QED
    BY <1>2, <2>1, <2>3
<1>5. \A i \in 0..n : i \in S
  <2> HIDE DEF S
  <2> QED
    BY <1>1, <1>3, <1>4, RunInduction
<1>6. Tiled(q, n, from, b, joined)
  BY <1>1, <1>2, <1>5
<1>7. ASSUME b, Ascending(q), AllApart(q), NEW to \in Nat,
             \A a \in Nat : Covers(q, a) <=> from <= a /\ a < to
      PROVE  joined.ok
  <2> DEFINE T == {i \in 0..n : r[i].ok}
  <2>1. 0 \in T
    BY <1>1, <1>2, <1>7
  <2>2. ASSUME NEW i \in 1..n, i - 1 \in T PROVE i \in T
    <3> DEFINE next == r[i - 1].next
    <3>1. i - 1 \in 0..n /\ i \in 0..n /\ r[i - 1].ok
      BY <1>1, <2>2
    <3>2. /\ next \in Nat /\ from <= next
          /\ \A a \in Nat : CoversTo(q, i - 1, a) <=> from <= a /\ a < next
      BY <1>5, <3>1 DEF Tiled
    <3>3. /\ \A j \in 1..n : q[j].at \in Nat /\ End(q[j]) \in Nat /\ q[j].at < End(q[j])
      BY <1>1, SegmentIs
    <3>4. q[i].at \in Nat /\ from <= q[i].at /\ q[i].at < to
      <4>1. Covers(q, q[i].at)
        BY <3>3 DEF Covers
      <4> QED
        BY <1>7, <3>3, <4>1
    <3>5. ~CoversTo(q, i - 1, q[i].at)
      <4>1. SUFFICES ASSUME NEW j \in 1..(i - 1), q[j].at <= q[i].at, q[i].at < End(q[j])
                     PROVE  FALSE
        BY DEF CoversTo
      <4>2. j \in 1..n /\ j # i
        BY <1>1
      <4>3. Apart(q[j], q[i])
        BY <1>7, <4>2 DEF AllApart
      <4> QED
        BY <3>3, <4>1, <4>2, <4>3 DEF Apart
    <3>6. next <= q[i].at
      BY <3>2, <3>4, <3>5
    <3>7. ~(next < q[i].at)
      <4>1. SUFFICES ASSUME next < q[i].at PROVE FALSE
        OBVIOUS
      <4>2. Covers(q, next)
        BY <1>7, <3>2, <3>4, <4>1
      <4>3. PICK j \in 1..n : q[j].at <= next /\ next < End(q[j])
        BY <4>2 DEF Covers
      <4>4. ~CoversTo(q, i - 1, next)
        BY <3>2
      <4>5. j >= i
        <5>1. j \notin 1..(i - 1)
          BY <4>3, <4>4 DEF CoversTo
        <5> QED
          BY <1>1, <5>1
      <4>6. q[i].at <= q[j].at
        BY <1>1, <1>7, <3>3, <4>5 DEF Ascending
      <4> QED
        BY <3>2, <3>3, <4>1, <4>3, <4>6
    <3>8. q[i].at = next
      BY <3>2, <3>4, <3>6, <3>7
    <3>9. r[i].ok
      <4>1. r[i] = Join(r[i - 1], q[i])
        BY <1>2
      <4>2. r[i].ok = (r[i - 1].ok /\ q[i].at = r[i - 1].next)
        BY <4>1 DEF Join
      <4> QED
        BY <3>1, <3>8, <4>2
    <3> QED
      BY <3>1, <3>9
  <2>3. \A i \in 0..n : i \in T
    <3> HIDE DEF T
    <3> QED
      BY <1>1, <2>1, <2>2, RunInduction
  <2> QED
    BY <1>1, <1>2, <2>3
<1> QED
  BY <1>6, <1>7

\* The slices of a window cover what the window's segments cover from its start.
LEMMA SlicesAre ==
    ASSUME NEW found \in Seq(Honest), NEW from \in Nat, NEW to,
           \A i \in 1..Len(found) : ~Outside(found[i], from, to),
           NEW q, q = [i \in DOMAIN found |-> Sliced(found[i], from)]
    PROVE  /\ q \in Seq(Honest) /\ Len(q) = Len(found)
           /\ AllApart(found) => AllApart(q)
           /\ \A a \in Nat : Covers(q, a) <=> from <= a /\ Covers(found, a)
<1> DEFINE n == Len(found)
<1>1. n \in Nat /\ DOMAIN found = 1..n /\ \A i \in 1..n : found[i] \in Honest /\ found[i] \in Segments
  BY DEF Honest
<1>2. \A i \in 1..n : found[i].at \in Nat /\ End(found[i]) \in Nat
  BY <1>1, SegmentIs
<1>3. ASSUME NEW i \in 1..n
      PROVE  /\ q[i] \in Honest /\ End(q[i]) = End(found[i]) /\ q[i].at \in Nat
             /\ q[i].at = IF found[i].at >= from THEN found[i].at ELSE from
  <2>1. q[i] = Sliced(found[i], from)
    BY <1>1
  <2> QED
    BY <1>1, <2>1, SlicedIs
<1>4. q \in Seq(Honest) /\ Len(q) = n
  <2>1. q \in [1..n -> Honest]
    BY <1>1, <1>3
  <2>2. q \in Seq(Honest)
    BY <1>1, <2>1
  <2>3. DOMAIN q = 1..Len(q) /\ DOMAIN q = 1..n /\ Len(q) \in Nat
    BY <2>1, <2>2, LenProperties
  <2> QED
    BY <1>1, <2>2, <2>3
<1>5. ASSUME AllApart(found), NEW i \in 1..n, NEW j \in 1..n, i # j PROVE Apart(q[i], q[j])
  <2>1. End(found[i]) <= found[j].at \/ End(found[j]) <= found[i].at
    BY <1>5 DEF AllApart, Apart
  <2>2. /\ End(q[i]) = End(found[i]) /\ q[i].at = IF found[i].at >= from THEN found[i].at ELSE from
        /\ End(q[j]) = End(found[j]) /\ q[j].at = IF found[j].at >= from THEN found[j].at ELSE from
        /\ found[i].at \in Nat /\ End(found[i]) \in Nat
        /\ found[j].at \in Nat /\ End(found[j]) \in Nat
    BY <1>2, <1>3
  <2>3. End(q[i]) <= q[j].at \/ End(q[j]) <= q[i].at
    BY ONLY <2>1, <2>2, from \in Nat
  <2> QED
    BY <2>3 DEF Apart
<1>6. ASSUME NEW a \in Nat PROVE Covers(q, a) <=> from <= a /\ Covers(found, a)
  <2>1. ASSUME NEW i \in 1..n
        PROVE  (q[i].at <= a /\ a < End(q[i])) <=> from <= a /\ found[i].at <= a /\ a < End(found[i])
    <3>1. /\ End(q[i]) = End(found[i]) /\ q[i].at = IF found[i].at >= from THEN found[i].at ELSE from
          /\ found[i].at \in Nat /\ End(found[i]) \in Nat
      BY <1>2, <1>3
    <3> QED
      BY ONLY <3>1, from \in Nat, a \in Nat
  <2> QED
    BY <1>4, <2>1 DEF Covers
<1> QED
  BY <1>4, <1>5, <1>6 DEF AllApart

\* What the loader returns of a window, by what image_parser found.
LEMMA LoadedIs ==
    ASSUME text \in Seq(GoodLines), form # "hex", Parsed.ok, NEW from \in Nat, NEW to \in Nat
    PROVE  LET crossed == \E s \in Range(InWindow(from, to)) : End(s) > to
               inside(a) == Covers(Parsed.segments, a) /\ from <= a /\ a < to
               load == Loaded(from, to)
           IN /\ Parsed.segments \in Seq(Honest)
              /\ load.ok => \E next \in Nat :
                   /\ from < next
                   /\ load.data \in Seq(Nat) /\ Len(load.data) = next - from
                   /\ \A j \in 1..Len(load.data) : load.data[j] = from + j - 1
                   /\ \A a \in Nat : inside(a) <=> from <= a /\ a < next
              /\ (\E a \in Nat : inside(a)) /\ ~crossed
                   /\ (\E next \in Nat : \A a \in Nat : inside(a) <=> from <= a /\ a < next)
                 => load.ok
<1> DEFINE p == FoldLeft(ReadLine, Start, text)
           all == p.segments
           found == InWindow(from, to)
           q == [i \in DOMAIN found |-> Sliced(found[i], from)]
           t == Sorted(q)
           b == found # <<>>
           joined == FoldLeft(Join, [ok |-> b, next |-> from, data |-> <<>>], t)
           load == Loaded(from, to)
           within == \A s \in Range(found) : End(s) <= to
           inside(a) == Covers(Parsed.segments, a) /\ from <= a /\ a < to
<1>1. p.ok /\ Finish(all).ok /\ Parsed.segments = Finish(all).segments
  BY DEF Parsed, Accepted
<1>2. Linked(all, found, from, to)
  BY <1>1, ReadersLink
<1>3. load.ok = (joined.ok /\ within) /\ load.data = joined.data
  BY DEF Loaded
<1> HIDE DEF p, found, load
<1>4. /\ all \in Seq(Honest) /\ found \in Seq(Honest)
      /\ \A i \in 1..Len(found) :
           ~Outside(found[i], from, to) /\ \E j \in 1..Len(all) : found[i] = all[j]
      /\ \A j \in 1..Len(all) :
           Outside(all[j], from, to) \/ \E i \in 1..Len(found) : found[i] = all[j]
      /\ AllApart(all) => AllApart(found)
  BY <1>2 DEF Linked
<1>5. /\ AllApart(all) /\ Blocks(Parsed.segments)
      /\ \A a \in Nat : Covers(Parsed.segments, a) <=> Covers(all, a)
  BY <1>1, <1>4, FinishIs
<1>6. /\ q \in Seq(Honest) /\ Len(q) = Len(found) /\ AllApart(q)
      /\ \A a \in Nat : Covers(q, a) <=> from <= a /\ Covers(found, a)
  BY <1>4, <1>5, SlicesAre
<1> HIDE DEF q
<1>7. /\ t \in Seq(Honest) /\ Len(t) = Len(found) /\ Ascending(t) /\ AllApart(t)
      /\ \A a \in Nat : Covers(t, a) <=> from <= a /\ Covers(found, a)
  BY <1>6, SortKeeps
<1> HIDE DEF t
<1>8. b \in BOOLEAN
  OBVIOUS
<1>9. /\ Tiled(t, Len(t), from, b, joined)
      /\ b /\ Ascending(t) /\ AllApart(t)
           /\ (\E to_ \in Nat : \A a \in Nat : Covers(t, a) <=> from <= a /\ a < to_)
         => joined.ok
  BY <1>7, <1>8, JoinIs
<1> HIDE DEF joined
<1>10. /\ \A i \in 1..Len(found) : found[i].at \in Nat /\ End(found[i]) \in Nat /\ found[i].at < End(found[i])
       /\ \A i \in 1..Len(all) : all[i].at \in Nat /\ End(all[i]) \in Nat
  <2>1. /\ \A i \in 1..Len(found) : found[i] \in Honest /\ found[i] \in Segments
        /\ \A i \in 1..Len(all) : all[i] \in Honest /\ all[i] \in Segments
    BY <1>4 DEF Honest
  <2> QED
    BY <2>1, SegmentIs
<1>11. ASSUME NEW a \in Nat, from <= a, a < to PROVE Covers(all, a) <=> Covers(found, a)
  <2>1. ASSUME Covers(found, a) PROVE Covers(all, a)
    <3>1. PICK i \in 1..Len(found) : found[i].at <= a /\ a < End(found[i])
      BY <2>1 DEF Covers
    <3>2. PICK j \in 1..Len(all) : found[i] = all[j]
      BY <1>4
    <3> QED
      BY <3>1, <3>2 DEF Covers
  <2>2. ASSUME Covers(all, a) PROVE Covers(found, a)
    <3>1. PICK j \in 1..Len(all) : all[j].at <= a /\ a < End(all[j])
      BY <2>2 DEF Covers
    <3>2. ~Outside(all[j], from, to)
      BY <1>10, <1>11, <3>1 DEF Outside
    <3>3. PICK i \in 1..Len(found) : found[i] = all[j]
      BY <1>4, <3>2
    <3> QED
      BY <3>1, <3>3 DEF Covers
  <2> QED
    BY <2>1, <2>2
<1>12. ASSUME within, NEW a \in Nat PROVE inside(a) <=> Covers(t, a)
  <2>1. ASSUME Covers(found, a) PROVE a < to
    <3>1. PICK i \in 1..Len(found) : found[i].at <= a /\ a < End(found[i])
      BY <2>1 DEF Covers
    <3>2. found[i] \in Range(found)
      BY <1>4 DEF Range
    <3>3. End(found[i]) <= to
      BY <1>12, <3>2
    <3> QED
      BY <1>10, <3>1, <3>3
  <2> QED
    BY <1>5, <1>7, <1>11, <2>1
<1>13. ASSUME load.ok
       PROVE  \E next \in Nat :
                   /\ from < next
                   /\ load.data \in Seq(Nat) /\ Len(load.data) = next - from
                   /\ \A j \in 1..Len(load.data) : load.data[j] = from + j - 1
                   /\ \A a \in Nat : inside(a) <=> from <= a /\ a < next
  <2>1. joined.ok /\ within
    BY <1>3, <1>13
  <2>2. /\ b /\ joined.next \in Nat /\ from <= joined.next
        /\ joined.data \in Seq(Nat) /\ Len(joined.data) = joined.next - from
        /\ \A j \in 1..Len(joined.data) : joined.data[j] = from + j - 1
        /\ \A a \in Nat : CoversTo(t, Len(t), a) <=> from <= a /\ a < joined.next
    BY <1>9, <2>1 DEF Tiled
  <2>3. \A a : CoversTo(t, Len(t), a) <=> Covers(t, a)
    BY DEF Covers, CoversTo
  <2>4. \A a \in Nat : inside(a) <=> from <= a /\ a < joined.next
    BY <1>12, <2>1, <2>2, <2>3
  <2>5. from < joined.next
    <3>1. 1 \in 1..Len(t)
      BY <1>4, <1>7, <2>2, EmptySeq
    <3>2. t[1] \in Honest /\ t[1] \in Segments
      BY <1>7, <3>1 DEF Honest
    <3>3. t[1].at \in Nat /\ t[1].at < End(t[1])
      BY <3>2, SegmentIs
    <3>4. CoversTo(t, Len(t), t[1].at)
      BY <3>1, <3>3 DEF CoversTo
    <3> QED
      BY <2>2, <3>3, <3>4
  <2> QED
    BY <1>3, <2>2, <2>4, <2>5
<1>14. ASSUME \E a \in Nat : inside(a), within,
              NEW next \in Nat, \A a \in Nat : inside(a) <=> from <= a /\ a < next
       PROVE  load.ok
  <2>1. PICK a \in Nat : inside(a)
    BY <1>14
  <2>2. Covers(found, a)
    BY <1>5, <1>11, <2>1
  <2>3. b
    <3>1. PICK i \in 1..Len(found) : TRUE
      BY <2>2 DEF Covers
    <3> QED
      BY <3>1, EmptySeq
  <2>4. \A x \in Nat : Covers(t, x) <=> from <= x /\ x < next
    BY <1>12, <1>14
  <2>5. joined.ok
    BY <1>7, <1>9, <2>3, <2>4
  <2> QED
    BY <1>3, <1>14, <2>5
<1>15. Parsed.segments \in Seq(Honest)
  BY <1>5 DEF Blocks
<1>16. ASSUME ~(\E s \in Range(found) : End(s) > to) PROVE within
  <2>1. ASSUME NEW s \in Range(found) PROVE End(s) <= to
    <3>1. PICK i \in 1..Len(found) : s = found[i]
      BY <1>4 DEF Range
    <3> QED
      BY <1>10, <1>16, <3>1
  <2> QED
    BY <2>1
<1> HIDE DEF inside, within
<1> QED
  BY <1>13, <1>14, <1>15, <1>16 DEF inside, load, found

\* The two readers agree about every list of good lines.
LEMMA LoadersAgreeHolds ==
    ASSUME form \in {"s19", "compiled"} => text \in Seq(GoodLines)
    PROVE  LoadersAgree
<1> SUFFICES ASSUME form \in {"s19", "compiled"}, Parsed.ok,
                    NEW from \in 0..(Top - 1), NEW to \in (from + 1)..Top
             PROVE  LET window == {b \in Memory(Parsed.segments) : from <= b[1] /\ b[1] < to}
                        load == Loaded(from, to)
                        filled == {b[1] : b \in window} = from..(from + Cardinality(window) - 1)
                    IN /\ load.ok => Memory(<<Segment(from, load.data)>>) = window
                       /\ window # {} /\ filled
                            /\ (\A s \in Range(InWindow(from, to)) : End(s) <= to) => load.ok
  BY DEF LoadersAgree
<1> DEFINE inside(a) == Covers(Parsed.segments, a) /\ from <= a /\ a < to
           window == {b \in Memory(Parsed.segments) : from <= b[1] /\ b[1] < to}
           load == Loaded(from, to)
           size == Cardinality(window)
<1>1. from \in Nat /\ to \in Nat /\ text \in Seq(GoodLines) /\ form # "hex"
  BY TextAssumption
<1>2. /\ Parsed.segments \in Seq(Honest)
      /\ load.ok => \E next \in Nat :
                   /\ from < next
                   /\ load.data \in Seq(Nat) /\ Len(load.data) = next - from
                   /\ \A j \in 1..Len(load.data) : load.data[j] = from + j - 1
                   /\ \A a \in Nat : inside(a) <=> from <= a /\ a < next
      /\ (\E a \in Nat : inside(a)) /\ ~(\E s \in Range(InWindow(from, to)) : End(s) > to)
           /\ (\E next \in Nat : \A a \in Nat : inside(a) <=> from <= a /\ a < next)
         => load.ok
  BY <1>1, LoadedIs
<1>3. Memory(Parsed.segments) = {<<a, a>> : a \in {x \in Nat : Covers(Parsed.segments, x)}}
  BY <1>2, MemoryIs
<1> HIDE DEF load
<1>4. window = {<<a, a>> : a \in {x \in Nat : inside(x)}}
  BY <1>3
<1> HIDE DEF window
<1>5. ASSUME load.ok PROVE Memory(<<Segment(from, load.data)>>) = window
  <2> DEFINE s == Segment(from, load.data)
  <2>1. PICK next \in Nat :
                   /\ from < next
                   /\ load.data \in Seq(Nat) /\ Len(load.data) = next - from
                   /\ \A j \in 1..Len(load.data) : load.data[j] = from + j - 1
                   /\ \A a \in Nat : inside(a) <=> from <= a /\ a < next
    BY <1>2, <1>5
  <2>2. s.at = from /\ s.data = load.data /\ s \in Segments
    BY <1>1, <2>1 DEF Segment, Segments, Bytes
  <2>3. load.data # <<>>
    BY <1>1, <2>1, EmptySeq
  <2>4. s \in Honest /\ End(s) = next
    <3> HIDE DEF s
    <3> QED
      BY <1>1, <2>1, <2>2, <2>3 DEF Honest, Truthful, End
  <2> HIDE DEF s
  <2>5. <<s>> \in Seq(Honest) /\ Len(<<s>>) = 1 /\ <<s>>[1] = s
    BY <2>4
  <2>6. \A a : Covers(<<s>>, a) <=> from <= a /\ a < next
    BY <2>2, <2>4, <2>5 DEF Covers
  <2>7. Memory(<<s>>) = {<<a, a>> : a \in {x \in Nat : Covers(<<s>>, x)}}
    BY <2>5, MemoryIs
  <2>8. {x \in Nat : Covers(<<s>>, x)} = {x \in Nat : inside(x)}
    BY <2>1, <2>6
  <2>9. Memory(<<s>>) = window
    <3> HIDE DEF inside
    <3> QED
      BY <1>4, <2>7, <2>8
  <2> QED
    BY <2>9 DEF s
<1>6. size \in Nat
  <2>1. IsFiniteSet(from..to)
    BY <1>1, FS_Interval
  <2>2. IsFiniteSet((from..to) \X (from..to))
    BY <2>1, FS_Product
  <2>3. window \subseteq (from..to) \X (from..to)
    BY <1>1, <1>4
  <2>4. IsFiniteSet(window)
    BY <2>2, <2>3, FS_Subset
  <2> QED
    BY <2>4, FS_CardinalityType
<1> HIDE DEF size
<1>7. ASSUME window # {}, {b[1] : b \in window} = from..(from + size - 1),
             \A s \in Range(InWindow(from, to)) : End(s) <= to
      PROVE  load.ok
  <2>1. \E a \in Nat : inside(a)
    BY <1>4, <1>7
  <2>2. \A a \in Nat : inside(a) <=> a \in {b[1] : b \in window}
    <3>1. \A a \in Nat : inside(a) <=> <<a, a>> \in window
      BY <1>4
    <3>2. \A b \in window : \E a \in Nat : b = <<a, a>>
      BY <1>4
    <3>3. ASSUME NEW a \in Nat, inside(a) PROVE a \in {b[1] : b \in window}
      <4>1. <<a, a>> \in window /\ <<a, a>>[1] = a
        BY <3>1, <3>3
      <4> HIDE DEF inside
      <4> QED
        BY <4>1
    <3>4. ASSUME NEW a \in Nat, a \in {b[1] : b \in window} PROVE inside(a)
      <4>1. PICK b \in window : a = b[1]
        BY <3>4
      <4>2. PICK c \in Nat : b = <<c, c>>
        BY <3>2
      <4>3. <<a, a>> \in window
        BY <4>1, <4>2
      <4> QED
        BY <3>1, <4>3
    <3> HIDE DEF inside
    <3> QED
      BY <3>3, <3>4
  <2>3. from + size \in Nat /\ \A a \in Nat : inside(a) <=> from <= a /\ a < from + size
    <3>1. \A a \in Nat : a \in from..(from + size - 1) <=> from <= a /\ a < from + size
      BY <1>1, <1>6
    <3>2. \A a \in Nat : inside(a) <=> a \in from..(from + size - 1)
      <4> HIDE DEF inside
      <4> QED
        BY <1>7, <2>2
    <3> HIDE DEF inside
    <3> QED
      BY <1>1, <1>6, <3>1, <3>2
  <2>4. ASSUME NEW s \in Range(InWindow(from, to)), End(s) > to PROVE FALSE
    <3>1. End(s) <= to
      BY <1>7
    <3>2. End(s) \in Nat
      <4>1. FoldLeft(ReadLine, Start, text).ok
        BY DEF Parsed, Accepted
      <4>2. InWindow(from, to) \in Seq(Honest)
        BY <1>1, <4>1, ReadersLink DEF Linked
      <4>3. s \in Segments
        BY <4>2 DEF Range, Honest
      <4> QED
        BY <4>3, SegmentIs
    <3> QED
      BY <1>1, <2>4, <3>1, <3>2
  <2> HIDE DEF inside
  <2> QED
    BY <1>2, <2>1, <2>3, <2>4
<1> HIDE DEF inside
<1> QED
  BY <1>5, <1>7 DEF window, load, size

-------------------------------------------------------------------------------
(* The writers: chunks, page lines and the lists put together.             *)

\* The remainder by its definition.
LEMMA Remainder ==
    ASSUME NEW x \in Int, NEW c \in Int, c > 0
    PROVE  x % c = x - (x \div c) * c
OBVIOUS

\* Quotient and remainder of naturals.
LEMMA Division ==
    ASSUME NEW x \in Nat, NEW c \in Nat \ {0}
    PROVE  /\ x \div c \in Nat /\ x % c \in Nat /\ x % c < c
           /\ x = (x \div c) * c + (x % c)
           /\ (x \div c) * c \in Nat /\ (x \div c) * c <= x /\ x < (x \div c) * c + c
<1>1. x \div c \in Nat /\ x % c \in Nat /\ x % c < c
  OBVIOUS
<1> DEFINE y == (x \div c) * c
           z == x % c
<1>2. y \in Nat
  BY <1>1
<1>3. z = x - y
  BY Remainder
<1>4. z \in Nat /\ z < c
  BY <1>1
<1> HIDE DEF y, z
<1>5. x = y + z /\ y <= x /\ x < y + c
  BY <1>2, <1>3, <1>4
<1>6. x = y + z
  BY <1>5
<1>8. x = (x \div c) * c + (x % c)
  BY ONLY <1>6, Zenon DEF y, z
<1>7. (x \div c) * c <= x /\ x < (x \div c) * c + c /\ (x \div c) * c \in Nat
  BY ONLY <1>2, <1>5 DEF y
<1> QED
  BY ONLY <1>1, <1>7, <1>8

\* Multiples of the size of a line or a page grow with their factor.
LEMMA Multiples ==
    ASSUME NEW x \in Nat, NEW y \in Nat, NEW c \in Nat
    PROVE  /\ x * c \in Nat /\ (x + 1) * c = x * c + c
           /\ x <= y => x * c <= y * c
OBVIOUS

\* Honest segments between two addresses, in their order.
Laid(q, from, to) ==
    /\ q \in Seq(Honest) /\ q # <<>>
    /\ \A i \in 1..Len(q) : from <= q[i].at /\ End(q[i]) <= to
    /\ \A i, j \in 1..Len(q) : i < j => End(q[i]) <= q[j].at

\* A region's bytes are the addresses they belong to.
LEMMA RegionIs ==
    ASSUME NEW b \in Nat, NEW m \in Nat \ {0}
    PROVE  /\ Region(b, m) \in Honest /\ Region(b, m).at = b /\ End(Region(b, m)) = b + m
           /\ Len(Region(b, m).data) = m
           /\ \A j \in 1..m : Region(b, m).data[j] = b + j - 1
<1> DEFINE d == [i \in 1..m |-> b + i - 1]
           s == Region(b, m)
<1>1. s.at = b /\ s.data = d
  BY DEF Region, Segment
<1>2. d \in Seq(Nat) /\ Len(d) = m /\ \A j \in 1..m : d[j] = b + j - 1
  <2>1. \A i \in 1..m : b + i - 1 \in Nat
    OBVIOUS
  <2>2. d \in [1..m -> Nat] /\ m \in Nat
    BY <2>1
  <2>3. d \in Seq(Nat)
    BY <2>2
  <2> QED
    BY <2>2, <2>3
<1> HIDE DEF d
<1>3. d # <<>>
  BY <1>2, EmptySeq
<1>4. s \in Segments
  BY <1>2 DEF Region, Segment, Segments, Bytes, d
<1> HIDE DEF s
<1>5. s \in Honest /\ End(s) = b + m
  BY <1>1, <1>2, <1>3, <1>4 DEF Honest, Truthful, End
<1> QED
  BY <1>1, <1>2, <1>5 DEF s

\* The lines of a region cover it, in order and without overlap.
LEMMA ChunksAre ==
    ASSUME NEW b \in Nat, NEW m \in Nat \ {0}
    PROVE  /\ Laid(Chunks(Region(b, m)), b, b + m)
           /\ \A a \in Nat : Covers(Chunks(Region(b, m)), a) <=> b <= a /\ a < b + m
<1> DEFINE d == Region(b, m).data
           c == Chunk
           n == (m + c - 1) \div c
           from(k) == (k - 1) * c
           to(k) == IF from(k) + c < m THEN from(k) + c ELSE m
           q == Chunks(Region(b, m))
<1>1. /\ Region(b, m) \in Honest /\ Region(b, m) \in Segments /\ Region(b, m).at = b
      /\ Len(d) = m /\ d \in Seq(Nat) /\ \A j \in 1..m : d[j] = b + j - 1
  <2>1. /\ Region(b, m) \in Honest /\ Region(b, m).at = b /\ Len(d) = m
        /\ \A j \in 1..m : d[j] = b + j - 1
    BY RegionIs
  <2>2. Region(b, m) \in Segments
    BY <2>1 DEF Honest
  <2> HIDE DEF d
  <2> QED
    BY <2>1, <2>2, SegmentIs DEF d
<1>2. c \in Nat /\ c > 0 /\ c \in Nat \ {0} /\ m \in Nat /\ m > 0
  BY TextAssumption
<1> HIDE DEF c, d
<1>3. /\ n \in Nat /\ n * c \in Nat /\ n * c <= m + c - 1 /\ m + c - 1 < n * c + c
  <2>1. m + c - 1 \in Nat
    BY <1>2
  <2> QED
    BY <1>2, <2>1, Division
<1> HIDE DEF n
<1>4. /\ n * c <= m + c - 1 /\ m <= n * c /\ n > 0
  <2>1. m <= n * c
    BY <1>2, <1>3
  <2>2. n # 0
    BY <1>2, <2>1
  <2> QED
    BY <1>3, <2>1, <2>2
<1>5. q = [k \in 1..n |-> Segment(b + from(k), SubSeq(d, from(k) + 1, to(k)))]
  BY <1>1 DEF Chunks, n, c, d
<1>6. ASSUME NEW k \in 1..n
      PROVE  /\ from(k) \in Nat /\ from(k) < m /\ from(k) + c = k * c
             /\ to(k) \in Nat /\ from(k) < to(k) /\ to(k) <= m /\ to(k) <= k * c
  <2>1. k - 1 \in Nat /\ k \in Nat /\ n - 1 \in Nat /\ k - 1 <= n - 1 /\ (k - 1) + 1 = k /\ (n - 1) + 1 = n
    BY <1>3
  <2>2. /\ (k - 1) * c \in Nat /\ k * c = (k - 1) * c + c /\ (k - 1) * c <= (n - 1) * c
        /\ n * c = (n - 1) * c + c /\ (n - 1) * c \in Nat
    <3>1. (k - 1) * c \in Nat /\ ((k - 1) + 1) * c = (k - 1) * c + c /\ (k - 1) * c <= (n - 1) * c
      BY <1>2, <2>1, Multiples
    <3>2. (n - 1) * c \in Nat /\ ((n - 1) + 1) * c = (n - 1) * c + c
      BY <1>2, <2>1, Multiples
    <3> QED
      BY <2>1, <3>1, <3>2
  <2>3. (k - 1) * c < m
    BY <1>2, <1>3, <1>4, <2>2
  <2> QED
    BY <1>2, <2>2, <2>3
<1>7. ASSUME NEW k \in 1..n
      PROVE  q[k] \in Honest /\ q[k].at = b + from(k) /\ End(q[k]) = b + to(k)
  <2> DEFINE x == from(k)
             y == to(k)
             e == SubSeq(d, x + 1, y)
             s == Segment(b + x, e)
  <2>1. x \in Nat /\ y \in Nat /\ x < y /\ y <= m
    BY <1>6
  <2>2. q[k] = s
    BY <1>5
  <2> HIDE DEF x, y, q
  <2>3. e \in Seq(Nat) /\ Len(e) = y - x /\ \A j \in 1..(y - x) : e[j] = d[x + 1 + j - 1]
    <3>1. \A j \in (x + 1)..y : d[j] \in Nat
      <4>1. \A j \in (x + 1)..y : j \in 1..m
        BY <1>2, <2>1
      <4> QED
        BY <1>1, <1>2, <4>1
    <3>2. x + 1 \in Int /\ y \in Int /\ y - (x + 1) + 1 = y - x /\ x + 1 <= y
      BY <2>1
    <3> QED
      BY <3>1, <3>2, SubSeqProperties
  <2> HIDE DEF e
  <2>4. ASSUME NEW j \in 1..(y - x) PROVE e[j] = (b + x) + j - 1
    <3>1. x + 1 + j - 1 = x + j /\ x + j \in 1..m
      BY <1>2, <2>1
    <3>2. e[j] = b + (x + j) - 1
      BY <1>1, <2>3, <3>1
    <3> QED
      BY <2>1, <3>2
  <2>5. e # <<>> /\ b + x \in Nat
    BY <2>1, <2>3, EmptySeq
  <2>6. s.at = b + x /\ s.data = e /\ s \in Segments
    BY <2>3, <2>5 DEF Segment, Segments, Bytes
  <2> HIDE DEF s
  <2>7. s \in Honest
    BY <2>3, <2>4, <2>5, <2>6 DEF Honest, Truthful
  <2>8. End(s) = b + y
    <3>1. End(s) = (b + x) + (y - x)
      BY <2>3, <2>6 DEF End
    <3> QED
      BY <2>1, <3>1
  <2> QED
    BY <2>2, <2>6, <2>7, <2>8 DEF x, y
<1>8. q \in Seq(Honest) /\ Len(q) = n /\ q # <<>>
  <2>1. q = [k \in 1..n |-> q[k]]
    BY <1>5
  <2> HIDE DEF q
  <2>2. q \in [1..n -> Honest]
    BY <1>7, <2>1
  <2>3. q \in Seq(Honest)
    BY <1>3, <2>2
  <2>4. Len(q) = n
    BY <1>3, <2>2, <2>3, LenProperties
  <2> QED
    BY <1>3, <1>4, <2>3, <2>4, EmptySeq
<1> HIDE DEF q
<1>9. ASSUME NEW i \in 1..n, NEW j \in 1..n, i < j PROVE End(q[i]) <= q[j].at
  <2>1. i \in Nat /\ j - 1 \in Nat /\ i <= j - 1
    BY <1>3, <1>9
  <2>2. i * c \in Nat /\ i * c <= (j - 1) * c
    BY <1>2, <2>1, Multiples
  <2>3. to(i) <= from(j) /\ to(i) \in Nat /\ from(j) \in Nat
    BY <1>6, <2>2
  <2> HIDE DEF to, from
  <2>4. End(q[i]) = b + to(i) /\ q[j].at = b + from(j)
    BY <1>7
  <2> QED
    BY <2>3, <2>4
<1>10. ASSUME NEW k \in 1..n PROVE b <= q[k].at /\ End(q[k]) <= b + m
  <2>1. from(k) \in Nat /\ to(k) \in Nat /\ to(k) <= m
    BY <1>6
  <2> HIDE DEF from, to
  <2> QED
    BY <1>2, <1>7, <2>1
<1>11. ASSUME NEW a \in Nat, b <= a, a < b + m PROVE Covers(q, a)
  <2> DEFINE x == a - b
             k == x \div c + 1
  <2>1. x \in Nat /\ x < m
    BY <1>2, <1>11
  <2>2. x \div c \in Nat /\ (x \div c) * c \in Nat /\ (x \div c) * c <= x /\ x < (x \div c) * c + c
    BY <1>2, <2>1, Division
  <2>3. k - 1 = x \div c /\ k \in Nat
    BY <2>2
  <2>4. k <= n
    <3>1. SUFFICES ASSUME n <= x \div c PROVE FALSE
      BY <1>3, <2>2
    <3>2. n * c <= (x \div c) * c
      BY <1>2, <1>3, <2>2, <3>1, Multiples
    <3> QED
      BY <1>2, <1>3, <1>4, <2>1, <2>2, <3>2
  <2>5. k \in 1..n
    BY <1>3, <2>2, <2>4
  <2>6. from(k) = (x \div c) * c
    BY <2>3
  <2>7. from(k) <= x /\ x < to(k) /\ from(k) \in Nat /\ to(k) \in Nat
    BY <1>2, <2>1, <2>2, <2>6
  <2>8. a = b + x
    BY <1>11
  <2> HIDE DEF k, x, from, to
  <2>9. q[k].at <= a /\ a < End(q[k])
    BY <1>7, <2>1, <2>5, <2>7, <2>8
  <2> QED
    BY <1>8, <2>5, <2>9 DEF Covers
<1>12. ASSUME NEW a \in Nat, Covers(q, a) PROVE b <= a /\ a < b + m
  <2>1. PICK k \in 1..n : q[k].at <= a /\ a < End(q[k])
    BY <1>8, <1>12 DEF Covers
  <2>2. q[k] \in Honest /\ q[k] \in Segments
    BY <1>7 DEF Honest
  <2>3. q[k].at \in Nat /\ End(q[k]) \in Nat
    BY <2>2, SegmentIs
  <2>4. b <= q[k].at /\ End(q[k]) <= b + m
    BY <1>10
  <2> QED
    BY <1>2, <2>1, <2>3, <2>4
<1> QED
  BY <1>8, <1>9, <1>10, <1>11, <1>12 DEF Laid, q

\* Segments laid one after the other are apart.
LEMMA LaidIsApart ==
    ASSUME NEW q, NEW from, NEW to, Laid(q, from, to)
    PROVE  AllApart(q)
<1>1. Len(q) \in Nat /\ \A i, j \in 1..Len(q) : i < j => End(q[i]) <= q[j].at
  BY DEF Laid
<1> QED
  BY <1>1 DEF AllApart, Apart

\* Two lists laid one behind the other.
LEMMA LaidTogether ==
    ASSUME NEW p, NEW q, NEW x \in Nat, NEW y \in Nat, NEW v \in Nat, NEW z \in Nat,
           Laid(p, x, y), Laid(q, v, z), x <= y, y <= v, v <= z
    PROVE  /\ Laid(p \o q, x, z)
           /\ \A a : Covers(p \o q, a) <=> Covers(p, a) \/ Covers(q, a)
<1> DEFINE m == Len(p)
           n == Len(q)
           t == p \o q
<1>1. /\ p \in Seq(Honest) /\ q \in Seq(Honest) /\ m \in Nat /\ n \in Nat /\ m > 0
  BY EmptySeq DEF Laid
<1>2. /\ t \in Seq(Honest) /\ Len(t) = m + n
      /\ \A i \in 1..(m + n) : t[i] = IF i <= m THEN p[i] ELSE q[i - m]
  BY <1>1, ConcatProperties
<1>3. /\ \A i \in 1..m : p[i].at \in Nat /\ End(p[i]) \in Nat
      /\ \A i \in 1..n : q[i].at \in Nat /\ End(q[i]) \in Nat
  <2>1. /\ \A i \in 1..m : p[i] \in Honest /\ p[i] \in Segments
        /\ \A i \in 1..n : q[i] \in Honest /\ q[i] \in Segments
    BY <1>1 DEF Honest
  <2> QED
    BY <2>1, SegmentIs
<1>4. /\ \A i \in 1..m : x <= p[i].at /\ End(p[i]) <= y
      /\ \A i, j \in 1..m : i < j => End(p[i]) <= p[j].at
      /\ \A i \in 1..n : v <= q[i].at /\ End(q[i]) <= z
      /\ \A i, j \in 1..n : i < j => End(q[i]) <= q[j].at
  BY DEF Laid
<1> HIDE DEF m, n, t
<1>5. ASSUME NEW i \in 1..(m + n)
      PROVE  \/ i \in 1..m /\ t[i] = p[i]
             \/ i > m /\ i - m \in 1..n /\ t[i] = q[i - m]
  BY <1>1, <1>2
<1>6. /\ \A i \in 1..m : i \in 1..(m + n) /\ t[i] = p[i]
      /\ \A i \in 1..n : i + m \in 1..(m + n) /\ t[i + m] = q[i]
  <2>1. \A i \in 1..m : i \in 1..(m + n) /\ i <= m
    BY <1>1
  <2>2. \A i \in 1..n : i + m \in 1..(m + n) /\ ~(i + m <= m) /\ (i + m) - m = i
    BY <1>1
  <2> QED
    BY <1>2, <2>1, <2>2
<1>7. ASSUME NEW i \in 1..(m + n) PROVE x <= t[i].at /\ End(t[i]) <= z
  BY <1>3, <1>4, <1>5
<1>8. ASSUME NEW i \in 1..(m + n), NEW j \in 1..(m + n), i < j PROVE End(t[i]) <= t[j].at
  <2>1. CASE i \in 1..m /\ t[i] = p[i] /\ j \in 1..m /\ t[j] = p[j]
    BY <1>4, <1>8, <2>1
  <2>2. CASE i \in 1..m /\ t[i] = p[i] /\ j - m \in 1..n /\ t[j] = q[j - m]
    BY <1>3, <1>4, <2>2
  <2>3. CASE i - m \in 1..n /\ t[i] = q[i - m] /\ j - m \in 1..n /\ t[j] = q[j - m]
    <3>1. i - m < j - m
      BY <1>1, <1>8
    <3> QED
      BY <1>4, <2>3, <3>1
  <2>4. i > m => ~(j \in 1..m)
    BY <1>1, <1>8
  <2> QED
    BY <1>5, <2>1, <2>2, <2>3, <2>4
<1>9. ASSUME NEW a PROVE Covers(t, a) <=> Covers(p, a) \/ Covers(q, a)
  <2>1. ASSUME Covers(t, a) PROVE Covers(p, a) \/ Covers(q, a)
    <3>1. PICK i \in 1..(m + n) : t[i].at <= a /\ a < End(t[i])
      BY <1>2, <2>1 DEF Covers
    <3> QED
      BY <1>5, <3>1 DEF Covers, m, n
  <2>2. ASSUME Covers(p, a) PROVE Covers(t, a)
    BY <1>2, <1>6, <2>2 DEF Covers, m
  <2>3. ASSUME Covers(q, a) PROVE Covers(t, a)
    BY <1>2, <1>6, <2>3 DEF Covers, n
  <2> QED
    BY <2>1, <2>2, <2>3
<1>10. t # <<>>
  BY <1>1, <1>2, EmptySeq
<1> QED
  BY <1>2, <1>7, <1>8, <1>9, <1>10 DEF Laid, t

\* The parts of a flattened sequence of sequences, one after the other.
FlatRun(F, E, r) ==
    /\ r \in [1..Len(F) -> Seq(E)]
    /\ r[1] = F[1] /\ \A i \in 2..Len(F) : r[i] = r[i - 1] \o F[i]

\* The function that FlattenSeq defines: the lists before i, put together.
LEMMA FlatExists ==
    ASSUME NEW E, NEW F \in Seq(Seq(E)), Len(F) > 0
    PROVE  FlatRun(F, E, LET f[i \in 1..Len(F)] == IF i = 1 THEN F[i] ELSE f[i - 1] \o F[i] IN f)
<1> DEFINE Def(f, k) == [i \in 1..k |-> IF i = 1 THEN F[i] ELSE f[i - 1] \o F[i]]
           S == {k \in Nat : k \in 1..Len(F) => \E f \in [1..k -> Seq(E)] : f = Def(f, k)}
<1>0. Len(F) \in Nat /\ \A i \in 1..Len(F) : F[i] \in Seq(E)
  OBVIOUS
<1>1. 0 \in S
  OBVIOUS
<1>2. ASSUME NEW k \in Nat, k \in S PROVE k + 1 \in S
  <2> SUFFICES ASSUME k + 1 \in 1..Len(F)
               PROVE  \E f \in [1..(k + 1) -> Seq(E)] : f = Def(f, k + 1)
    <3> HIDE DEF Def
    <3> QED
      OBVIOUS
  <2>1. CASE k = 0
    <3> DEFINE f == [i \in 1..(k + 1) |-> F[i]]
    <3>1. \A i \in 1..(k + 1) : i = 1 /\ i \in 1..Len(F)
      BY <1>0, <2>1
    <3>2. f \in [1..(k + 1) -> Seq(E)] /\ f = Def(f, k + 1)
      BY <1>0, <3>1
    <3> QED
      BY <3>2
  <2>2. CASE k # 0
    <3>1. k \in 1..Len(F)
      BY <1>0, <2>2
    <3>2. PICK g \in [1..k -> Seq(E)] : g = Def(g, k)
      BY <1>2, <3>1
    <3> DEFINE f == [i \in 1..(k + 1) |-> IF i = k + 1 THEN g[k] \o F[k + 1] ELSE g[i]]
    <3>3. g[k] \o F[k + 1] \in Seq(E)
      <4>1. g[k] \in Seq(E) /\ F[k + 1] \in Seq(E)
        BY <1>0, <2>2, <3>2
      <4> QED
        BY ONLY <4>1, ConcatProperties
    <3>4. f \in [1..(k + 1) -> Seq(E)]
      <4>1. \A i \in 1..(k + 1) : i # k + 1 => i \in 1..k
        OBVIOUS
      <4> QED
        BY <3>3, <4>1
    <3>5. ASSUME NEW i \in 1..(k + 1)
          PROVE  f[i] = IF i = 1 THEN F[i] ELSE f[i - 1] \o F[i]
      <4>1. CASE i = k + 1
        <5>0. k \in 1..(k + 1) /\ k + 1 \in 1..(k + 1) /\ k # k + 1 /\ i - 1 = k /\ i # 1
          BY <2>2, <4>1
        <5>1. f[k + 1] = g[k] \o F[k + 1] /\ f[k] = g[k] /\ i - 1 = k /\ i # 1
          BY <5>0
        <5> HIDE DEF f
        <5> QED
          BY <4>1, <5>1
      <4>2. CASE i # k + 1
        <5>1. i \in 1..k /\ f[i] = g[i]
          BY <4>2
        <5>2. g[i] = IF i = 1 THEN F[i] ELSE g[i - 1] \o F[i]
          BY <3>2, <5>1
        <5>3. i # 1 => f[i - 1] = g[i - 1]
          BY <4>2, <5>1
        <5> HIDE DEF f
        <5> QED
          BY <5>1, <5>2, <5>3
      <4> QED
        BY <4>1, <4>2
    <3>6. f = Def(f, k + 1)
      <4>1. f = [i \in 1..(k + 1) |-> f[i]]
        OBVIOUS
      <4> HIDE DEF f
      <4> QED
        BY <3>5, <4>1
    <3> QED
      BY <3>4, <3>6
  <2> QED
    BY <2>1, <2>2
<1>3. Nat \subseteq S
  <2> HIDE DEF S
  <2> QED
    BY <1>1, <1>2, Induction
<1> DEFINE n == Len(F)
           r == CHOOSE f : f = Def(f, n)
<1>4. n \in S /\ n \in 1..n /\ 1 \in 1..n
  <2> HIDE DEF S
  <2> QED
    BY <1>0, <1>3
<1>5. \E f : f = Def(f, n)
  BY <1>4
<1>6. r = Def(r, n)
  <2> HIDE DEF Def
  <2> QED
    BY <1>5
<1> HIDE DEF r
<1>7. \A i \in 1..n : r[i] = IF i = 1 THEN F[i] ELSE r[i - 1] \o F[i]
  BY <1>6
<1>8. r = [i \in 1..n |-> r[i]]
  BY <1>6
<1> DEFINE T == {i \in 0..n : i > 0 => r[i] \in Seq(E)}
<1>9. \A i \in 0..n : i \in T
  <2>1. 0 \in T
    BY <1>0
  <2>2. ASSUME NEW i \in 1..n, i - 1 \in T PROVE i \in T
    <3>0. i \in 0..n /\ F[i] \in Seq(E)
      BY <1>0
    <3>1. CASE i = 1
      BY <1>7, <3>0, <3>1
    <3>2. CASE i # 1
      <4>0. i - 1 > 0
        BY <3>2
      <4>1. r[i - 1] \in Seq(E) /\ r[i] = r[i - 1] \o F[i]
        BY <1>7, <2>2, <3>2, <4>0
      <4>2. r[i - 1] \o F[i] \in Seq(E)
        BY ONLY <3>0, <4>1, ConcatProperties
      <4> QED
        BY <3>0, <4>1, <4>2
    <3> QED
      BY <3>1, <3>2
  <2> HIDE DEF T
  <2> QED
    BY <1>0, <2>1, <2>2, RunInduction
<1>10. \A i \in 1..n : r[i] \in Seq(E)
  BY <1>0, <1>9
<1>11. r \in [1..n -> Seq(E)]
  BY <1>8, <1>10
<1>12. FlatRun(F, E, r)
  <2>1. r[1] = F[1]
    BY <1>4, <1>7
  <2>2. ASSUME NEW i \in 2..n PROVE r[i] = r[i - 1] \o F[i]
    <3>1. i \in 1..n /\ i # 1
      BY <1>0
    <3> QED
      BY <1>7, <3>1
  <2> QED
    BY <1>11, <2>1, <2>2 DEF FlatRun
<1> QED
  BY <1>12 DEF r

\* What FlattenSeq returns, with its beginnings.
LEMMA FlattenIs ==
    ASSUME NEW E, NEW F \in Seq(Seq(E)), Len(F) > 0
    PROVE  \E r : /\ FlatRun(F, E, r) /\ r[Len(F)] = FlattenSeq(F)
                  /\ \A k \in 1..Len(F) :
                       /\ Len(r[k]) <= Len(FlattenSeq(F))
                       /\ \A j \in 1..Len(r[k]) : r[k][j] = FlattenSeq(F)[j]
<1> DEFINE n == Len(F)
           r == LET f[i \in 1..Len(F)] == IF i = 1 THEN F[i] ELSE f[i - 1] \o F[i] IN f
<1>1. FlatRun(F, E, r)
  BY FlatExists
<1>2. r[n] = FlattenSeq(F)
  BY DEF FlattenSeq
<1> HIDE DEF r
<1>3. n \in Nat /\ \A i \in 1..n : F[i] \in Seq(E) /\ r[i] \in Seq(E)
  <2>1. r \in [1..n -> Seq(E)]
    BY <1>1 DEF FlatRun
  <2>2. n \in Nat /\ \A i \in 1..n : F[i] \in Seq(E)
    OBVIOUS
  <2> QED
    BY <2>1, <2>2
<1> DEFINE Begins(s, t) == Len(s) <= Len(t) /\ \A j \in 1..Len(s) : s[j] = t[j]
           S == {k \in 0..n : \A i \in 1..k : Begins(r[i], r[k])}
<1>4. 0 \in S
  BY <1>3
<1>5. ASSUME NEW k \in 1..n, k - 1 \in S PROVE k \in S
  <2>1. ASSUME NEW i \in 1..(k - 1) PROVE Begins(r[i], r[k])
    <3>1. k \in 2..n /\ k - 1 \in 1..n /\ i \in 1..n
      BY <1>3
    <3>2. Begins(r[i], r[k - 1]) /\ r[k] = r[k - 1] \o F[k]
      BY <1>1, <1>5, <3>1 DEF FlatRun
    <3>3. r[k - 1] \in Seq(E) /\ F[k] \in Seq(E) /\ r[i] \in Seq(E)
      BY <1>3, <3>1
    <3> DEFINE s == r[k - 1]
               t == F[k]
    <3>4. /\ Len(s) \in Nat /\ Len(t) \in Nat /\ Len(r[i]) \in Nat
          /\ Len(s \o t) = Len(s) + Len(t)
          /\ \A j \in 1..(Len(s) + Len(t)) :
               (s \o t)[j] = IF j <= Len(s) THEN s[j] ELSE t[j - Len(s)]
      BY ONLY <3>3, ConcatProperties, LenProperties
    <3>5. Len(r[i]) <= Len(s) /\ \A j \in 1..Len(r[i]) : r[i][j] = s[j]
      BY <3>2
    <3>6. ASSUME NEW j \in 1..Len(r[i]) PROVE j <= Len(s) /\ j \in 1..(Len(s) + Len(t))
      <4>1. Len(s) \in Nat /\ Len(t) \in Nat /\ Len(r[i]) \in Nat /\ Len(r[i]) <= Len(s)
        BY <3>4, <3>5
      <4> HIDE DEF s, t
      <4> QED
        BY ONLY <4>1, j \in 1..Len(r[i])
    <3>7. r[k] = s \o t
      BY <3>2
    <3> HIDE DEF s, t
    <3>8. Len(r[i]) <= Len(s \o t)
      BY ONLY <3>4, <3>5
    <3>9. ASSUME NEW j \in 1..Len(r[i]) PROVE r[i][j] = (s \o t)[j]
      <4>1. r[i][j] = s[j] /\ j <= Len(s) /\ j \in 1..(Len(s) + Len(t))
        BY <3>5, <3>6
      <4> QED
        BY <3>4, <4>1
    <3> QED
      BY <3>7, <3>8, <3>9
  <2>2. Begins(r[k], r[k])
    BY <1>3
  <2>3. k \in 0..n /\ \A i \in 1..k : i \in 1..(k - 1) \/ i = k
    BY <1>3
  <2> HIDE DEF Begins
  <2> QED
    BY <2>1, <2>2, <2>3
<1>6. \A k \in 0..n : k \in S
  <2> HIDE DEF S
  <2> QED
    BY <1>3, <1>4, <1>5, RunInduction
<1>7. n \in S
  <2> HIDE DEF S
  <2> QED
    BY <1>3, <1>6
<1>8. \A k \in 1..n : Begins(r[k], r[n])
  <2> HIDE DEF Begins
  <2> QED
    BY <1>7
<1> QED
  BY <1>1, <1>2, <1>8

\* A function on 1..n is a list of length n.
LEMMA ListIs ==
    ASSUME NEW n \in Nat, NEW X, NEW f \in [1..n -> X]
    PROVE  f \in Seq(X) /\ Len(f) = n /\ DOMAIN f = 1..n
<1>1. f \in Seq(X)
  OBVIOUS
<1>2. DOMAIN f = 1..n /\ DOMAIN f = 1..Len(f) /\ Len(f) \in Nat
  BY <1>1, LenProperties
<1> QED
  BY <1>1, <1>2

RegionsLaid ==
    \E b, v, a \in 0..(Top - 1), m, n, k \in 1..Top :
        /\ b + m <= v /\ v + n <= a /\ a + k <= Top
        /\ regions = <<Region(b, m), Region(v, n), Region(a, k)>>

\* The regions, and the lines of all of them.
LEMMA RegionsAre ==
    ASSUME RegionsLaid
    PROVE  /\ regions \in Seq(Honest) /\ Len(regions) = 3
           /\ \A i, j \in 1..3 : i < j => End(regions[i]) <= regions[j].at
           /\ Laid(AllChunks, 0, Top)
           /\ \A a \in Nat : Covers(AllChunks, a) <=> Covers(regions, a)
<1>1. PICK b \in 0..(Top - 1), v \in 0..(Top - 1), a \in 0..(Top - 1),
           m \in 1..Top, n \in 1..Top, k \in 1..Top :
        /\ b + m <= v /\ v + n <= a /\ a + k <= Top
        /\ regions = <<Region(b, m), Region(v, n), Region(a, k)>>
  BY DEF RegionsLaid
<1>2. /\ b \in Nat /\ v \in Nat /\ a \in Nat /\ Top \in Nat
      /\ m \in Nat \ {0} /\ n \in Nat \ {0} /\ k \in Nat \ {0}
      /\ b + m \in Nat /\ v + n \in Nat /\ a + k \in Nat
  BY TextAssumption
<1> DEFINE r1 == Region(b, m)
           r2 == Region(v, n)
           r3 == Region(a, k)
           c1 == Chunks(r1)
           c2 == Chunks(r2)
           c3 == Chunks(r3)
<1>3. /\ r1 \in Honest /\ r1.at = b /\ End(r1) = b + m
      /\ r2 \in Honest /\ r2.at = v /\ End(r2) = v + n
      /\ r3 \in Honest /\ r3.at = a /\ End(r3) = a + k
  BY <1>2, RegionIs
<1>4. /\ Laid(c1, b, b + m) /\ \A x \in Nat : Covers(c1, x) <=> b <= x /\ x < b + m
      /\ Laid(c2, v, v + n) /\ \A x \in Nat : Covers(c2, x) <=> v <= x /\ x < v + n
      /\ Laid(c3, a, a + k) /\ \A x \in Nat : Covers(c3, x) <=> a <= x /\ x < a + k
  BY <1>2, ChunksAre
<1>5. regions = <<r1, r2, r3>>
  BY <1>1
<1> HIDE DEF r1, r2, r3
<1>6. /\ regions \in Seq(Honest) /\ Len(regions) = 3 /\ DOMAIN regions = 1..3
      /\ regions[1] = r1 /\ regions[2] = r2 /\ regions[3] = r3
  BY <1>3, <1>5
<1>7. \A i \in 1..3 : i = 1 \/ i = 2 \/ i = 3
  OBVIOUS
<1>8. ASSUME NEW i \in 1..3, NEW j \in 1..3, i < j PROVE End(regions[i]) <= regions[j].at
  <2>1. (i = 1 /\ j = 2) \/ (i = 1 /\ j = 3) \/ (i = 2 /\ j = 3)
    BY <1>8
  <2>2. b + m <= v /\ v + n <= a /\ b + m <= a
    BY <1>1, <1>2
  <2> QED
    BY <1>3, <1>6, <2>1, <2>2
<1> DEFINE F == [i \in DOMAIN regions |-> Chunks(regions[i])]
<1>9. F = [i \in 1..3 |-> F[i]] /\ F[1] = c1 /\ F[2] = c2 /\ F[3] = c3
  BY <1>6
<1> HIDE DEF c1, c2, c3
<1>10. c1 \in Seq(Honest) /\ c2 \in Seq(Honest) /\ c3 \in Seq(Honest)
  BY <1>4 DEF Laid
<1>11. F \in Seq(Seq(Honest)) /\ Len(F) = 3
  <2> HIDE DEF F
  <2>1. \A i \in 1..3 : F[i] \in Seq(Honest)
    BY <1>7, <1>9, <1>10
  <2>2. F \in [1..3 -> Seq(Honest)]
    BY <1>9, <2>1
  <2> QED
    BY <2>2, ListIs
<1>12. AllChunks = FlattenSeq(F)
  BY DEF AllChunks
<1> HIDE DEF F
<1>13. PICK r : FlatRun(F, Honest, r) /\ r[Len(F)] = FlattenSeq(F)
  <2>1. Len(F) > 0
    BY <1>11
  <2> QED
    BY <1>11, <2>1, FlattenIs
<1>14. AllChunks = (c1 \o c2) \o c3
  <2>1. r[1] = F[1] /\ r[2] = r[1] \o F[2] /\ r[3] = r[2] \o F[3]
    <3>1. 2 \in 2..3 /\ 3 \in 2..3 /\ 2 - 1 = 1 /\ 3 - 1 = 2
      OBVIOUS
    <3> QED
      BY <1>11, <1>13, <3>1 DEF FlatRun
  <2> QED
    BY <1>9, <1>11, <1>12, <1>13, <2>1
<1>15. /\ Laid(c1 \o c2, b, v + n)
       /\ \A x : Covers(c1 \o c2, x) <=> Covers(c1, x) \/ Covers(c2, x)
  <2>1. b <= b + m /\ b + m <= v /\ v <= v + n
    BY <1>1, <1>2
  <2> QED
    BY <1>2, <1>4, <2>1, LaidTogether
<1>16. /\ Laid(AllChunks, b, a + k)
       /\ \A x : Covers(AllChunks, x) <=> Covers(c1, x) \/ Covers(c2, x) \/ Covers(c3, x)
  <2>1. b <= v + n /\ v + n <= a /\ a <= a + k
    BY <1>1, <1>2
  <2> DEFINE c == c1 \o c2
  <2>2. Laid(c, b, v + n) /\ Laid(c3, a, a + k)
    BY <1>4, <1>15
  <2> HIDE DEF c
  <2>3. Laid(c \o c3, b, a + k) /\ \A x : Covers(c \o c3, x) <=> Covers(c, x) \/ Covers(c3, x)
    BY <1>2, <2>1, <2>2, LaidTogether
  <2> QED
    BY <1>14, <1>15, <2>3 DEF c
<1>17. Laid(AllChunks, 0, Top)
  <2>1. AllChunks \in Seq(Honest)
    BY <1>16 DEF Laid
  <2>2. \A i \in 1..Len(AllChunks) : AllChunks[i].at \in Nat /\ End(AllChunks[i]) \in Nat
    <3>1. \A i \in 1..Len(AllChunks) : AllChunks[i] \in Segments
      BY <2>1 DEF Honest
    <3> QED
      BY <3>1, SegmentIs
  <2>3. \A i \in 1..Len(AllChunks) : 0 <= AllChunks[i].at /\ End(AllChunks[i]) <= Top
    <3>1. \A i \in 1..Len(AllChunks) : End(AllChunks[i]) <= a + k
      BY <1>16 DEF Laid
    <3>2. ASSUME NEW i \in 1..Len(AllChunks) PROVE 0 <= AllChunks[i].at /\ End(AllChunks[i]) <= Top
      BY <1>1, <1>2, <2>2, <3>1
    <3> QED
      BY <3>2
  <2> QED
    BY <1>16, <2>3 DEF Laid
<1>18. ASSUME NEW x \in Nat PROVE Covers(AllChunks, x) <=> Covers(regions, x)
  <2>1. Covers(regions, x) <=> \/ b <= x /\ x < b + m
                               \/ v <= x /\ x < v + n
                               \/ a <= x /\ x < a + k
    <3>1. 1 \in 1..3 /\ 2 \in 1..3 /\ 3 \in 1..3
      OBVIOUS
    <3>2. Covers(regions, x) <=> \E i \in 1..3 : regions[i].at <= x /\ x < End(regions[i])
      BY <1>6 DEF Covers
    <3>3. Covers(regions, x) <=> \/ r1.at <= x /\ x < End(r1)
                                 \/ r2.at <= x /\ x < End(r2)
                                 \/ r3.at <= x /\ x < End(r3)
      BY <1>6, <1>7, <3>1, <3>2
    <3> QED
      BY <1>3, <3>3
  <2>2. Covers(AllChunks, x) <=> Covers(c1, x) \/ Covers(c2, x) \/ Covers(c3, x)
    BY <1>16
  <2> QED
    BY <1>4, <2>1, <2>2
<1> QED
  BY <1>6, <1>8, <1>17, <1>18

\* What a reader makes of the chunks of an image.
LEMMA ImageOfChunks ==
    ASSUME RegionsLaid
    PROVE  LET f == Finish(AllChunks) IN
             /\ f.ok /\ Memory(f.segments) = Memory(regions)
             /\ Covered(0, f.segments) <=> Covered(0, regions)
             /\ (f.segments = regions) <=> ~Touching
<1> DEFINE f == Finish(AllChunks)
<1>1. /\ regions \in Seq(Honest) /\ Len(regions) = 3
      /\ \A i, j \in 1..3 : i < j => End(regions[i]) <= regions[j].at
      /\ Laid(AllChunks, 0, Top)
      /\ \A a \in Nat : Covers(AllChunks, a) <=> Covers(regions, a)
  BY RegionsAre
<1>2. AllChunks \in Seq(Honest) /\ AllChunks # <<>> /\ AllApart(AllChunks)
  BY <1>1, LaidIsApart DEF Laid
<1>3. /\ f.ok /\ Blocks(f.segments)
      /\ \A a \in Nat : Covers(f.segments, a) <=> Covers(AllChunks, a)
  BY <1>2, FinishIs
<1> DEFINE g == f.segments
<1>4. f.ok /\ Blocks(g) /\ g \in Seq(Honest) /\ \A a \in Nat : Covers(g, a) <=> Covers(regions, a)
  BY <1>1, <1>3 DEF Blocks
<1> HIDE DEF g
<1>5. g \in Seq(Segments) /\ regions \in Seq(Segments)
  BY <1>1, <1>4, SeqMonotonic DEF Honest
<1>6. Memory(g) = Memory(regions)
  <2>1. Memory(g) = {<<a, a>> : a \in {x \in Nat : Covers(g, x)}}
    BY <1>4, MemoryIs
  <2>2. Memory(regions) = {<<a, a>> : a \in {x \in Nat : Covers(regions, x)}}
    BY <1>1, MemoryIs
  <2>3. {x \in Nat : Covers(g, x)} = {x \in Nat : Covers(regions, x)}
    BY <1>4
  <2> QED
    BY <2>1, <2>2, <2>3
<1>7. Covered(0, g) <=> Covered(0, regions)
  BY <1>4, <1>5, CoveredIs
<1>8. \A i \in 1..3 : regions[i].at \in Nat /\ End(regions[i]) \in Nat
  <2>1. \A i \in 1..3 : regions[i] \in Segments
    BY <1>1 DEF Honest
  <2> QED
    BY <2>1, SegmentIs
<1>9. ASSUME ~Touching PROVE g = regions
  <2>1. ASSUME NEW i \in 1..3, NEW j \in 1..3, i < j PROVE End(regions[i]) < regions[j].at
    <3>1. \A x \in 1..2 : End(regions[x]) # regions[x + 1].at
      BY <1>9 DEF Touching
    <3>2. 1 \in 1..3 /\ 2 \in 1..3 /\ 3 \in 1..3 /\ 1 \in 1..2 /\ 2 \in 1..2 /\ 1 + 1 = 2 /\ 2 + 1 = 3
      OBVIOUS
    <3>3. End(regions[1]) < regions[2].at /\ End(regions[2]) < regions[3].at
      BY <1>1, <1>8, <3>1, <3>2
    <3>4. regions[2].at < End(regions[2])
      <4>1. regions \in Seq(Honest) /\ 2 \in 1..Len(regions)
        BY <1>1, <3>2
      <4>2. regions[2] \in Honest
        BY ONLY <4>1, ElementOfSeq
      <4>3. regions[2] \in Segments
        BY ONLY <4>2 DEF Honest
      <4> QED
        BY <4>2, <4>3, SegmentIs
    <3>5. End(regions[1]) < regions[3].at
      BY <1>8, <3>2, <3>3, <3>4
    <3>6. (i = 1 /\ j = 2) \/ (i = 1 /\ j = 3) \/ (i = 2 /\ j = 3)
      BY <2>1
    <3> QED
      BY <3>3, <3>5, <3>6
  <2>2. Blocks(regions)
    BY <1>1, <2>1 DEF Blocks, Gapped
  <2> QED
    BY <1>4, <2>2, SameCoverSameBlocks
<1>10. ASSUME Touching, g = regions PROVE FALSE
  <2>1. PICK i \in 1..2 : End(regions[i]) = regions[i + 1].at
    BY <1>10 DEF Touching
  <2>2. i \in 1..3 /\ i + 1 \in 1..3 /\ i < i + 1
    OBVIOUS
  <2>3. End(regions[i]) < regions[i + 1].at
    BY <1>1, <1>4, <1>10, <2>2 DEF Blocks, Gapped
  <2> QED
    BY <1>8, <2>1, <2>2, <2>3
<1> QED
  BY <1>4, <1>6, <1>7, <1>9, <1>10 DEF g

-------------------------------------------------------------------------------
(* Reading back what was written.                                          *)

\* The chunks that become data lines.
LEMMA ChunkIs ==
    ASSUME RegionsLaid
    PROVE  /\ AllChunks \in Seq(Segments) /\ Len(AllChunks) \in Nat /\ Len(AllChunks) > 0
           /\ DOMAIN AllChunks = 1..Len(AllChunks)
           /\ \A i \in 1..Len(AllChunks) :
                /\ AllChunks[i] \in Honest /\ AllChunks[i].at \in Nat
                /\ AllChunks[i].data \in Bytes /\ AllChunks[i].data # <<>>
                /\ AllChunks[i] = Segment(AllChunks[i].at, AllChunks[i].data)
<1> DEFINE c == AllChunks
<1>1. c \in Seq(Honest) /\ c # <<>>
  BY RegionsAre DEF Laid
<1> HIDE DEF c
<1>2. c \in Seq(Segments) /\ Len(c) \in Nat /\ Len(c) > 0 /\ DOMAIN c = 1..Len(c)
  BY <1>1, SeqMonotonic, EmptySeq, LenProperties DEF Honest
<1>3. ASSUME NEW i \in 1..Len(c)
      PROVE  /\ c[i] \in Honest /\ c[i].at \in Nat /\ c[i].data \in Bytes /\ c[i].data # <<>>
             /\ c[i] = Segment(c[i].at, c[i].data)
  <2>1. c[i] \in Honest /\ c[i] \in Segments
    BY <1>1 DEF Honest
  <2> QED
    BY <2>1, SegmentIs DEF Honest, Truthful, Bytes
<1> QED
  BY <1>2, <1>3 DEF c

\* The lines of the S-record texts.
LEMMA TextsAre ==
    ASSUME RegionsLaid
    PROVE  LET n == Len(AllChunks) IN
             /\ n \in Nat /\ n > 0
             /\ DataLines \in Seq(GoodLines) /\ Len(DataLines) = n
             /\ S19Text \in Seq(GoodLines) /\ Len(S19Text) = n + 1
             /\ S19Text[n + 1] = Line("end", 0, <<>>)
             /\ CompiledText \in Seq(GoodLines) /\ Len(CompiledText) = n + 2
             /\ CompiledText[n + 1] = Line("count", n, <<>>)
             /\ CompiledText[n + 2] = Line("end", regions[1].at, <<>>)
             /\ \A i \in 1..n : /\ DataLines[i] = Line("data", AllChunks[i].at, AllChunks[i].data)
                                /\ S19Text[i] = DataLines[i] /\ CompiledText[i] = DataLines[i]
<1> DEFINE c == AllChunks
           n == Len(c)
           d == DataLines
<1>1. /\ n \in Nat /\ n > 0 /\ DOMAIN c = 1..n
      /\ \A i \in 1..n : /\ c[i] \in Honest /\ c[i].at \in Nat /\ c[i].data \in Bytes
                         /\ c[i].data # <<>> /\ c[i] = Segment(c[i].at, c[i].data)
  BY ChunkIs
<1>2. d = [i \in 1..n |-> Line("data", c[i].at, c[i].data)]
  BY <1>1 DEF DataLines
<1>3. \A at \in Nat : /\ Line("end", at, <<>>) \in GoodLines
                      /\ Line("count", at, <<>>) \in GoodLines
  BY EmptySeq DEF Line, GoodLines, Lines, LineKinds, Bytes
<1>4. ASSUME NEW i \in 1..n PROVE Line("data", c[i].at, c[i].data) \in GoodLines
  <2>1. Truthful(Segment(c[i].at, c[i].data))
    BY <1>1 DEF Honest
  <2> HIDE DEF c
  <2> QED
    BY <1>1, <2>1 DEF Line, GoodLines, Lines, LineKinds
<1>5. regions[1].at \in Nat
  <2>1. regions[1] \in Honest /\ regions[1] \in Segments
    BY RegionsAre DEF Honest
  <2> QED
    BY <2>1, SegmentIs
<1> HIDE DEF c, n
<1>6. /\ d \in Seq(GoodLines) /\ Len(d) = n
      /\ \A i \in 1..n : d[i] = Line("data", c[i].at, c[i].data)
  <2>1. d \in [1..n -> GoodLines]
    BY <1>2, <1>4
  <2> QED
    BY <1>1, <1>2, <2>1, ListIs
<1> HIDE DEF d
<1> DEFINE e == Line("end", 0, <<>>)
           k == Line("count", Len(d), <<>>)
           z == Line("end", regions[1].at, <<>>)
           t == <<k, z>>
<1>7. e \in GoodLines /\ k \in GoodLines /\ z \in GoodLines /\ k = Line("count", n, <<>>)
  BY <1>1, <1>3, <1>5, <1>6
<1>8. S19Text = Append(d, e) /\ CompiledText = d \o t
  BY DEF S19Text, CompiledText, d
<1> HIDE DEF e, k, z
<1>9. /\ S19Text \in Seq(GoodLines) /\ Len(S19Text) = n + 1 /\ S19Text[n + 1] = e
      /\ \A i \in 1..n : S19Text[i] = d[i]
  BY <1>6, <1>7, <1>8, AppendProperties
<1>10. t \in Seq(GoodLines) /\ Len(t) = 2 /\ t[1] = k /\ t[2] = z
  BY <1>7
<1> HIDE DEF t
<1>11. /\ d \o t \in Seq(GoodLines) /\ Len(d \o t) = n + 2
       /\ \A i \in 1..(n + 2) : (d \o t)[i] = IF i <= n THEN d[i] ELSE t[i - n]
  <2>1. d \in Seq(GoodLines) /\ t \in Seq(GoodLines)
    BY <1>6, <1>10
  <2>2. /\ d \o t \in Seq(GoodLines) /\ Len(d \o t) = Len(d) + Len(t)
        /\ \A i \in 1..(Len(d) + Len(t)) : (d \o t)[i] = IF i <= Len(d) THEN d[i] ELSE t[i - Len(d)]
    BY ONLY <2>1, ConcatProperties
  <2> QED
    BY <1>6, <1>10, <2>2
<1>12. /\ n + 1 \in 1..(n + 2) /\ ~(n + 1 <= n) /\ (n + 1) - n = 1
       /\ n + 2 \in 1..(n + 2) /\ ~(n + 2 <= n) /\ (n + 2) - n = 2
       /\ \A i \in 1..n : i \in 1..(n + 2) /\ i <= n
  BY <1>1
<1>13. /\ CompiledText[n + 1] = k /\ CompiledText[n + 2] = z
       /\ \A i \in 1..n : CompiledText[i] = d[i]
  BY <1>8, <1>10, <1>11, <1>12
<1> QED
  BY <1>1, <1>6, <1>7, <1>8, <1>9, <1>11, <1>13 DEF c, n, d, e, z

\* What a reader has after n data lines.
HasRead(p, n, c) ==
    /\ p.ok /\ ~p.ended /\ p.entry = 0 /\ p.counts = <<>>
    /\ Len(p.segments) = n /\ \A i \in 1..n : p.segments[i] = c[i]

\* Reading a data line, by what has been read.
LEMMA SegmentRead ==
    ASSUME NEW p \in States, NEW n \in Nat, NEW c, HasRead(p, n, c), c[n + 1] \in Segments
    PROVE  HasRead([p EXCEPT !.segments = Append(@, c[n + 1])], n + 1, c)
<1> DEFINE q == [p EXCEPT !.segments = Append(@, c[n + 1])]
           t == Append(p.segments, c[n + 1])
<1>1. /\ q.ok = p.ok /\ q.ended = p.ended /\ q.entry = p.entry /\ q.counts = p.counts
      /\ q.segments = t
  BY DEF States
<1>2. p.segments \in Seq(Segments) /\ Len(p.segments) = n /\ \A i \in 1..n : p.segments[i] = c[i]
  BY DEF States, HasRead
<1>3. Len(t) = n + 1 /\ t[n + 1] = c[n + 1] /\ \A i \in 1..n : t[i] = p.segments[i]
  BY <1>2, AppendProperties
<1>4. \A i \in 1..(n + 1) : i \in 1..n \/ i = n + 1
  OBVIOUS
<1>5. \A i \in 1..(n + 1) : t[i] = c[i]
  BY <1>2, <1>3, <1>4
<1> HIDE DEF q, t
<1>6. HasRead(q, n + 1, c)
  BY <1>1, <1>3, <1>5 DEF HasRead
<1> QED
  BY <1>6 DEF q

\* After n data lines the S-record reader has the n segments.
LEMMA DataRead ==
    ASSUME text \in Seq(Lines), form # "hex", NEW n \in 0..Len(text), NEW c,
           \A i \in 1..n : text[i].kind = "data" /\ c[i] = Segment(text[i].at, text[i].data),
           NEW r \in [0..Len(text) -> States], r[0] = Start,
           \A i \in 1..Len(text) : r[i] = ReadLine(r[i - 1], text[i])
    PROVE  HasRead(r[n], n, c)
<1> DEFINE S == {i \in 0..n : HasRead(r[i], i, c)}
<1>1. Len(text) \in Nat /\ n \in Nat
  OBVIOUS
<1>2. 0 \in S
  <2>1. HasRead(Start, 0, c)
    BY EmptySeq DEF HasRead, Start
  <2> QED
    BY <1>1, <2>1
<1>3. ASSUME NEW i \in 1..n, i - 1 \in S PROVE i \in S
  <2>1. i \in 1..Len(text) /\ i - 1 \in Nat /\ i - 1 \in 0..Len(text) /\ (i - 1) + 1 = i /\ i \in 0..n
    BY <1>1
  <2>2. /\ r[i - 1] \in States /\ HasRead(r[i - 1], i - 1, c) /\ text[i] \in Lines
        /\ r[i] = SrecLine(r[i - 1], text[i])
    BY <1>3, <2>1 DEF ReadLine
  <2>3. c[i] = Segment(text[i].at, text[i].data) /\ c[i] \in Segments /\ text[i].kind = "data"
    <3>1. c[i] = Segment(text[i].at, text[i].data) /\ text[i].kind = "data"
      BY <2>1
    <3>2. text[i].at \in Nat /\ text[i].data \in Bytes
      BY <2>2 DEF Lines
    <3> QED
      BY ONLY <3>1, <3>2 DEF Segment, Segments
  <2>4. r[i] = [r[i - 1] EXCEPT !.segments = Append(@, c[i])]
    BY <2>2, <2>3 DEF SrecLine, HasRead
  <2>5. HasRead([r[i - 1] EXCEPT !.segments = Append(@, c[(i - 1) + 1])], (i - 1) + 1, c)
    BY <2>1, <2>2, <2>3, SegmentRead
  <2> QED
    BY <2>1, <2>4, <2>5
<1>4. \A i \in 0..n : i \in S
  <2> HIDE DEF S
  <2> QED
    BY <1>1, <1>2, <1>3, RunInduction
<1>5. n \in S
  <2> HIDE DEF S
  <2> QED
    BY <1>1, <1>4
<1> QED
  BY <1>5

\* The composer's own S-records are read back as its chunks.
LEMMA S19IsRead ==
    ASSUME RegionsLaid, form = "s19", text = S19Text
    PROVE  LET p == FoldLeft(ReadLine, Start, text) IN
             p.ok /\ p.ended /\ p.entry = 0 /\ p.counts = <<>> /\ p.segments = AllChunks
<1> DEFINE n == Len(AllChunks)
           c == AllChunks
           p == FoldLeft(ReadLine, Start, text)
<1>1. /\ n \in Nat /\ n > 0 /\ text \in Seq(GoodLines) /\ Len(text) = n + 1
      /\ text[n + 1] = Line("end", 0, <<>>)
      /\ \A i \in 1..n : text[i] = Line("data", c[i].at, c[i].data)
  BY TextsAre
<1>2. c \in Seq(Segments) /\ \A i \in 1..n : c[i] = Segment(c[i].at, c[i].data)
  BY ChunkIs
<1> HIDE DEF c, n
<1>3. text \in Seq(Lines)
  BY <1>1, SeqMonotonic DEF GoodLines
<1>4. PICK r \in [0..Len(text) -> States] :
              /\ r[0] = Start
              /\ \A i \in 1..Len(text) : r[i] = ReadLine(r[i - 1], text[i])
              /\ r[Len(text)] = p
  BY <1>3, ReadFold
<1> HIDE DEF p
<1>5. \A i \in 1..n : text[i].kind = "data" /\ c[i] = Segment(text[i].at, text[i].data)
  <2>1. ASSUME NEW i \in 1..n PROVE text[i].kind = "data" /\ c[i] = Segment(text[i].at, text[i].data)
    <3>1. text[i] = Line("data", c[i].at, c[i].data) /\ c[i] = Segment(c[i].at, c[i].data)
      BY <1>1, <1>2
    <3>2. text[i].kind = "data" /\ text[i].at = c[i].at /\ text[i].data = c[i].data
      BY <3>1 DEF Line
    <3> QED
      BY <3>1, <3>2
  <2> QED
    BY <2>1
<1>6. n \in 0..Len(text) /\ n + 1 \in 1..Len(text) /\ (n + 1) - 1 = n
  BY <1>1
<1>7. HasRead(r[n], n, c)
  BY <1>3, <1>4, <1>5, <1>6, DataRead
<1>8. r[n] \in States
  BY <1>4, <1>6
<1>9. p = ReadLine(r[n], Line("end", 0, <<>>))
  BY <1>1, <1>4, <1>6
<1>10. p = [r[n] EXCEPT !.ended = TRUE, !.entry = 0]
  BY <1>7, <1>9 DEF ReadLine, SrecLine, Line, HasRead
<1>11. p.ok /\ p.ended /\ p.entry = 0 /\ p.counts = <<>> /\ p.segments = r[n].segments
  BY <1>7, <1>8, <1>10 DEF States, HasRead
<1>12. r[n].segments = c
  <2>1. r[n].segments \in Seq(Segments) /\ Len(r[n].segments) = n /\ Len(c) = n
        /\ \A i \in 1..n : r[n].segments[i] = c[i]
    BY <1>7, <1>8 DEF States, HasRead, n, c
  <2> QED
    BY <1>2, <2>1, SeqEqual
<1> QED
  BY <1>11, <1>12 DEF p, c

\* With a count, a text that lacks a data line is not accepted.
LEMMA CountIsRead ==
    ASSUME form = "compiled", text \in Seq(Lines), NEW n \in Nat, Len(text) = n + 2,
           \A i \in 1..n : text[i].kind = "data",
           text[n + 1].kind = "count", text[n + 1].at # n, text[n + 2].kind = "end"
    PROVE  ~Parsed.ok
<1> DEFINE p == FoldLeft(ReadLine, Start, text)
           c == [i \in 1..n |-> Segment(text[i].at, text[i].data)]
           l == text[n + 1]
           e == text[n + 2]
<1>1. PICK r \in [0..Len(text) -> States] :
              /\ r[0] = Start
              /\ \A i \in 1..Len(text) : r[i] = ReadLine(r[i - 1], text[i])
              /\ r[Len(text)] = p
  BY ReadFold
<1>2. ~Accepted(p) => ~Parsed.ok
  BY DEF Parsed
<1> HIDE DEF p
<1>3. /\ n \in 0..Len(text) /\ n + 1 \in 1..Len(text) /\ (n + 1) - 1 = n
      /\ n + 2 \in 1..Len(text) /\ (n + 2) - 1 = n + 1 /\ n + 1 \in 0..Len(text)
  OBVIOUS
<1>4. HasRead(r[n], n, c)
  <2>1. form # "hex" /\ \A i \in 1..n : c[i] = Segment(text[i].at, text[i].data)
    OBVIOUS
  <2> HIDE DEF c
  <2> QED
    BY <1>1, <1>3, <2>1, DataRead
<1>5. r[n] \in States /\ r[n + 1] \in States /\ l \in Lines /\ e \in Lines
  BY <1>1, <1>3
<1>6. r[n + 1] = SrecLine(r[n], l) /\ p = SrecLine(r[n + 1], e)
  BY <1>1, <1>3 DEF ReadLine
<1>7. l.kind = "count" /\ e.kind = "end" /\ l.at # n /\ l.at \in Nat
  BY <1>5 DEF Lines
<1> HIDE DEF l, e, c
<1>8. r[n + 1] = [r[n] EXCEPT !.counts = Append(@, l.at), !.ok = @ /\ r[n].counts = <<>>]
  BY <1>4, <1>6, <1>7 DEF SrecLine, HasRead
<1>9. /\ r[n + 1].counts = Append(<<>>, l.at) /\ r[n + 1].segments = r[n].segments
      /\ r[n + 1].ended = FALSE
  BY <1>4, <1>5, <1>8 DEF States, HasRead
<1>10. p = [r[n + 1] EXCEPT !.ended = TRUE, !.entry = e.at]
  BY <1>6, <1>7, <1>9 DEF SrecLine
<1>11. p.counts = Append(<<>>, l.at) /\ p.segments = r[n].segments
  BY <1>5, <1>9, <1>10 DEF States
<1>12. Append(<<>>, l.at) # <<>> /\ Append(<<>>, l.at)[1] = l.at
  <2>1. <<>> \in Seq(Nat) /\ Len(<<>>) = 0 /\ 0 + 1 = 1
    BY EmptySeq
  <2> QED
    BY <1>7, <2>1, AppendProperties
<1>13. Len(p.segments) = n
  BY <1>4, <1>11 DEF HasRead
<1> QED
  BY <1>2, <1>7, <1>11, <1>12, <1>13 DEF Accepted

PageOf(i) == Line("page", AllChunks[i].at \div Page, <<>>)
DataOf(i) == Line("data", AllChunks[i].at % Page, AllChunks[i].data)

\* Where the lines of each chunk end in the HEX text.
Places(pos, n) ==
    /\ pos \in [0..n -> Nat] /\ pos[0] = 0
    /\ Len(HexText) = pos[n] + 1 /\ HexText[pos[n] + 1] = Line("end", 0, <<>>)
    /\ \A k \in 1..n :
         /\ pos[k] <= pos[n]
         /\ PageLine(k) => /\ pos[k] = pos[k - 1] + 2
                           /\ HexText[pos[k - 1] + 1] = PageOf(k)
                           /\ HexText[pos[k - 1] + 2] = DataOf(k)
         /\ ~PageLine(k) => /\ pos[k] = pos[k - 1] + 1
                            /\ HexText[pos[k - 1] + 1] = DataOf(k)

\* The lines of the HEX text: a page line where the page changes, then the data line.
LEMMA HexTextIs ==
    ASSUME RegionsLaid
    PROVE  HexText \in Seq(Lines) /\ \E pos : Places(pos, Len(AllChunks))
<1> DEFINE n == Len(AllChunks)
           F == [i \in DOMAIN AllChunks |->
                   LET c == AllChunks[i] IN
                     (IF PageLine(i) THEN <<Line("page", c.at \div Page, <<>>)>> ELSE <<>>)
                       \o <<Line("data", c.at % Page, c.data)>>]
           e == Line("end", 0, <<>>)
           t == FlattenSeq(F)
<1>1. /\ n \in Nat /\ n > 0 /\ DOMAIN AllChunks = 1..n
      /\ \A i \in 1..n : AllChunks[i].at \in Nat /\ AllChunks[i].data \in Bytes
  BY ChunkIs
<1>2. HexText = t \o <<e>>
  BY DEF HexText
<1>3. e \in Lines
  BY EmptySeq DEF Line, Lines, LineKinds, Bytes
<1>4. ASSUME NEW i \in 1..n
      PROVE  /\ F[i] \in Seq(Lines)
             /\ PageLine(i) => Len(F[i]) = 2 /\ F[i][1] = PageOf(i) /\ F[i][2] = DataOf(i)
             /\ ~PageLine(i) => Len(F[i]) = 1 /\ F[i][1] = DataOf(i)
  <2> DEFINE x == PageOf(i)
             y == DataOf(i)
  <2>1. x \in Lines /\ y \in Lines
    <3>1. AllChunks[i].at \div Page \in Nat /\ AllChunks[i].at % Page \in Nat
      BY <1>1, TextAssumption, Division
    <3> QED
      BY <1>1, <3>1, EmptySeq DEF PageOf, DataOf, Line, Lines, LineKinds, Bytes
  <2>2. F[i] = (IF PageLine(i) THEN <<x>> ELSE <<>>) \o <<y>>
    BY <1>1 DEF PageOf, DataOf
  <2> HIDE DEF F, x, y
  <2>3. <<x>> \o <<y>> = <<x, y>> /\ <<>> \o <<y>> = <<y>>
    <3> DEFINE u == <<x>>
               v == <<y>>
               w == <<x, y>>
    <3>1. /\ u \in Seq(Lines) /\ Len(u) = 1 /\ u[1] = x
          /\ v \in Seq(Lines) /\ Len(v) = 1 /\ v[1] = y
          /\ w \in Seq(Lines) /\ Len(w) = 2 /\ w[1] = x /\ w[2] = y
      BY <2>1
    <3> HIDE DEF u, v, w
    <3>2. /\ u \o v \in Seq(Lines) /\ Len(u \o v) = Len(u) + Len(v)
          /\ \A j \in 1..(Len(u) + Len(v)) :
               (u \o v)[j] = IF j <= Len(u) THEN u[j] ELSE v[j - Len(u)]
      BY ONLY <3>1, ConcatProperties
    <3>3. Len(u \o v) = 2 /\ (u \o v)[1] = x /\ (u \o v)[2] = y
      BY <3>1, <3>2
    <3>4. \A j \in 1..Len(w) : (u \o v)[j] = w[j]
      <4>1. \A j \in 1..Len(w) : j = 1 \/ j = 2
        BY <3>1
      <4> QED
        BY <3>1, <3>3, <4>1
    <3>5. u \o v = w
      BY ONLY <3>1, <3>2, <3>3, <3>4, SeqEqual
    <3>6. <<>> \o v = v
      BY ONLY <3>1, ConcatEmptySeq
    <3> QED
      BY <3>5, <3>6 DEF u, v, w
  <2>4. <<x, y>> \in Seq(Lines) /\ <<y>> \in Seq(Lines)
    BY <2>1
  <2>5. F[i] = IF PageLine(i) THEN <<x, y>> ELSE <<y>>
    BY <2>2, <2>3
  <2> QED
    BY <2>4, <2>5 DEF x, y
<1>5. F = [i \in 1..n |-> F[i]]
  BY <1>1
<1> HIDE DEF F, n, e
<1>6. F \in Seq(Seq(Lines)) /\ Len(F) = n
  <2>1. F \in [1..n -> Seq(Lines)]
    BY <1>4, <1>5
  <2> QED
    BY <1>1, <2>1, ListIs
<1>7. PICK r : /\ FlatRun(F, Lines, r) /\ r[n] = t
               /\ \A k \in 1..n : /\ Len(r[k]) <= Len(t)
                                  /\ \A j \in 1..Len(r[k]) : r[k][j] = t[j]
  <2>1. Len(F) = n /\ Len(F) > 0
    BY <1>1, <1>6
  <2> HIDE DEF t
  <2>2. t = FlattenSeq(F)
    BY DEF t
  <2>3. \E r : /\ FlatRun(F, Lines, r) /\ r[Len(F)] = FlattenSeq(F)
               /\ \A k \in 1..Len(F) :
                    /\ Len(r[k]) <= Len(FlattenSeq(F))
                    /\ \A j \in 1..Len(r[k]) : r[k][j] = FlattenSeq(F)[j]
    BY ONLY <1>6, <2>1, FlattenIs
  <2> QED
    BY ONLY <2>1, <2>2, <2>3
<1> HIDE DEF t
<1>8. /\ \A k \in 1..n : r[k] \in Seq(Lines) /\ Len(r[k]) \in Nat
      /\ r[1] = F[1] /\ \A k \in 2..n : r[k] = r[k - 1] \o F[k]
  <2>1. r \in [1..n -> Seq(Lines)] /\ r[1] = F[1] /\ \A k \in 2..n : r[k] = r[k - 1] \o F[k]
    BY <1>6, <1>7 DEF FlatRun
  <2> QED
    BY <2>1, LenProperties
<1>9. t \in Seq(Lines) /\ Len(t) \in Nat /\ n \in 1..n
  BY <1>1, <1>7, <1>8
<1>10. /\ HexText \in Seq(Lines) /\ Len(HexText) = Len(t) + 1 /\ HexText[Len(t) + 1] = e
       /\ \A j \in 1..Len(t) : HexText[j] = t[j]
  <2>1. <<e>> \in Seq(Lines) /\ Len(<<e>>) = 1 /\ <<e>>[1] = e
    BY <1>3
  <2> DEFINE g == <<e>>
  <2> HIDE DEF g
  <2>2. /\ t \o g \in Seq(Lines) /\ Len(t \o g) = Len(t) + Len(g)
        /\ \A j \in 1..(Len(t) + Len(g)) : (t \o g)[j] = IF j <= Len(t) THEN t[j] ELSE g[j - Len(t)]
    BY <1>9, <2>1, ConcatProperties DEF g
  <2>3. Len(g) = 1 /\ g[1] = e /\ HexText = t \o g
    BY <1>2, <2>1 DEF g
  <2>4. /\ Len(t) + 1 \in 1..(Len(t) + 1) /\ ~(Len(t) + 1 <= Len(t)) /\ (Len(t) + 1) - Len(t) = 1
        /\ \A j \in 1..Len(t) : j \in 1..(Len(t) + 1) /\ j <= Len(t)
    BY <1>9
  <2> QED
    BY <2>2, <2>3, <2>4
<1> DEFINE pos == [k \in 0..n |-> IF k = 0 THEN 0 ELSE Len(r[k])]
<1>11. pos \in [0..n -> Nat] /\ pos[0] = 0 /\ \A k \in 1..n : pos[k] = Len(r[k])
  BY <1>1, <1>8
<1> HIDE DEF pos
<1>12. ASSUME NEW k \in 1..n
       PROVE  /\ pos[k - 1] \in Nat /\ pos[k] = pos[k - 1] + Len(F[k])
              /\ \A j \in 1..Len(F[k]) : HexText[pos[k - 1] + j] = F[k][j]
  <2>0. F[k] \in Seq(Lines) /\ Len(F[k]) \in Nat
    BY <1>4, LenProperties
  <2>1. CASE k = 1
    <3>1. pos[k - 1] = 0 /\ r[k] = F[k] /\ pos[k] = Len(F[k])
      BY <1>8, <1>11, <2>1
    <3>2. ASSUME NEW j \in 1..Len(F[k]) PROVE HexText[0 + j] = F[k][j]
      <4>1. j \in 1..Len(t) /\ t[j] = F[k][j] /\ 0 + j = j
        BY <1>7, <1>9, <2>0, <3>1
      <4> QED
        BY <1>10, <4>1
    <3> QED
      BY <2>0, <3>1, <3>2
  <2>2. CASE k # 1
    <3> DEFINE s == r[k - 1]
               g == F[k]
    <3>1. k - 1 \in 1..n /\ k \in 2..n
      BY <1>1, <2>2
    <3>2. s \in Seq(Lines) /\ Len(s) \in Nat /\ r[k] = s \o g /\ pos[k - 1] = Len(s) /\ pos[k] = Len(r[k])
      BY <1>8, <1>11, <3>1
    <3> HIDE DEF g
    <3>6. s \in Seq(Lines) /\ g \in Seq(Lines) /\ Len(g) = Len(F[k]) /\ g = F[k]
      BY <2>0, <3>2 DEF g
    <3> HIDE DEF s
    <3>3. /\ Len(s \o g) = Len(s) + Len(g)
          /\ \A j \in 1..(Len(s) + Len(g)) : (s \o g)[j] = IF j <= Len(s) THEN s[j] ELSE g[j - Len(s)]
      BY ONLY <3>6, ConcatProperties
    <3>4. /\ Len(s \o g) <= Len(t)
          /\ \A j \in 1..Len(s \o g) : (s \o g)[j] = t[j]
      BY <1>7, <3>2
    <3>5. ASSUME NEW j \in 1..Len(F[k]) PROVE HexText[Len(s) + j] = F[k][j]
      <4>1. /\ Len(s) + j \in 1..(Len(s) + Len(g)) /\ ~(Len(s) + j <= Len(s))
            /\ (Len(s) + j) - Len(s) = j /\ Len(s) + j \in 1..Len(t)
        BY <1>9, <2>0, <3>2, <3>6, <3>3, <3>4
      <4>2. (s \o g)[Len(s) + j] = g[j]
        BY <3>6, <3>3, <4>1
      <4>3. (s \o g)[Len(s) + j] = t[Len(s) + j]
        BY <3>3, <3>4, <4>1
      <4> QED
        BY <1>10, <3>6, <4>1, <4>2, <4>3
    <3> QED
      BY <3>2, <3>6, <3>3, <3>5
  <2> QED
    BY <2>1, <2>2
<1>13. ASSUME NEW k \in 1..n
       PROVE  /\ pos[k] <= pos[n]
              /\ PageLine(k) => /\ pos[k] = pos[k - 1] + 2
                                /\ HexText[pos[k - 1] + 1] = PageOf(k)
                                /\ HexText[pos[k - 1] + 2] = DataOf(k)
              /\ ~PageLine(k) => /\ pos[k] = pos[k - 1] + 1
                                 /\ HexText[pos[k - 1] + 1] = DataOf(k)
  <2>1. pos[k] <= pos[n]
    BY <1>7, <1>9, <1>11
  <2>2. ASSUME PageLine(k)
        PROVE  /\ pos[k] = pos[k - 1] + 2 /\ HexText[pos[k - 1] + 1] = PageOf(k)
               /\ HexText[pos[k - 1] + 2] = DataOf(k)
    <3>1. Len(F[k]) = 2 /\ F[k][1] = PageOf(k) /\ F[k][2] = DataOf(k) /\ 1 \in 1..2 /\ 2 \in 1..2
      BY <1>4, <2>2
    <3> QED
      BY <1>12, <3>1
  <2>3. ASSUME ~PageLine(k)
        PROVE  pos[k] = pos[k - 1] + 1 /\ HexText[pos[k - 1] + 1] = DataOf(k)
    <3>1. Len(F[k]) = 1 /\ F[k][1] = DataOf(k) /\ 1 \in 1..1
      BY <1>4, <2>3
    <3> QED
      BY <1>12, <3>1
  <2> QED
    BY <2>1, <2>2, <2>3
<1>14. pos[n] = Len(t)
  BY <1>7, <1>9, <1>11
<1>15. Places(pos, n)
  BY <1>10, <1>11, <1>13, <1>14 DEF Places, e
<1> QED
  BY <1>10, <1>15 DEF n

\* The composer's own HEX lines are read back as its chunks.
LEMMA HexIsRead ==
    ASSUME RegionsLaid, form = "hex", text = HexText
    PROVE  LET p == FoldLeft(ReadLine, Start, text) IN
             p.ok /\ p.ended /\ p.entry = 0 /\ p.counts = <<>> /\ p.segments = AllChunks
<1> DEFINE c == AllChunks
           n == Len(c)
           p == FoldLeft(ReadLine, Start, text)
           base(k) == (c[k].at \div Page) * Page
<1>1. /\ c \in Seq(Segments) /\ n \in Nat /\ n > 0
      /\ \A i \in 1..n : /\ c[i] \in Segments /\ c[i].at \in Nat /\ c[i].data \in Bytes
                         /\ c[i] = Segment(c[i].at, c[i].data)
  BY ChunkIs DEF Honest
<1>2. text \in Seq(Lines)
  BY HexTextIs
<1>3. PICK pos : Places(pos, n)
  BY HexTextIs
<1>4. /\ pos \in [0..n -> Nat] /\ pos[0] = 0
      /\ Len(text) = pos[n] + 1 /\ text[pos[n] + 1] = Line("end", 0, <<>>)
      /\ \A k \in 1..n :
           /\ pos[k] <= pos[n]
           /\ PageLine(k) => /\ pos[k] = pos[k - 1] + 2
                             /\ text[pos[k - 1] + 1] = PageOf(k)
                             /\ text[pos[k - 1] + 2] = DataOf(k)
           /\ ~PageLine(k) => /\ pos[k] = pos[k - 1] + 1
                              /\ text[pos[k - 1] + 1] = DataOf(k)
  BY <1>3 DEF Places
<1>5. PICK r \in [0..Len(text) -> States] :
              /\ r[0] = Start
              /\ \A i \in 1..Len(text) : r[i] = ReadLine(r[i - 1], text[i])
              /\ r[Len(text)] = p
  BY <1>2, ReadFold
<1> HIDE DEF p, n
<1>6. \A i \in 1..Len(text) : r[i] = HexLine(r[i - 1], text[i])
  BY <1>5 DEF ReadLine
<1>7. ASSUME NEW k \in 1..n
      PROVE  /\ c[k].at \div Page \in Nat /\ c[k].at % Page \in Nat /\ base(k) \in Nat
             /\ c[k].at = base(k) + (c[k].at % Page)
  BY <1>1, TextAssumption, Division
<1>8. ASSUME NEW k \in 1..n PROVE pos[k - 1] \in Nat /\ pos[k] \in Nat /\ pos[n] \in Nat
  <2>1. k - 1 \in 0..n /\ k \in 0..n /\ n \in 0..n
    BY <1>1
  <2> QED
    BY <1>4, <2>1
<1> DEFINE S == {k \in 0..n : HasRead(r[pos[k]], k, c) /\ (k > 0 => r[pos[k]].base = base(k))}
<1>9. 0 \in S
  <2>1. HasRead(Start, 0, c)
    BY EmptySeq DEF HasRead, Start
  <2> QED
    BY <1>1, <1>4, <1>5, <2>1
\* A data line on its own page.
<1>10. ASSUME NEW k \in 1..n, NEW x \in States, HasRead(x, k - 1, c), x.base = base(k)
       PROVE  HasRead(HexLine(x, DataOf(k)), k, c) /\ HexLine(x, DataOf(k)).base = base(k)
  <2>1. Segment(x.base + DataOf(k).at, DataOf(k).data) = c[k]
    <3>1. DataOf(k).at = c[k].at % Page /\ DataOf(k).data = c[k].data
      BY DEF DataOf, Line
    <3>2. x.base + DataOf(k).at = c[k].at
      BY <1>7, <1>10, <3>1
    <3> QED
      BY <1>1, <3>1, <3>2
  <2>2. HexLine(x, DataOf(k)) = [x EXCEPT !.segments = Append(@, c[k])]
    <3>1. DataOf(k).kind = "data"
      BY DEF DataOf, Line
    <3> QED
      BY <1>10, <2>1, <3>1 DEF HexLine, HasRead
  <2>3. k - 1 \in Nat /\ (k - 1) + 1 = k /\ c[k] \in Segments
    BY <1>1
  <2> HIDE DEF c
  <2>4. HasRead([x EXCEPT !.segments = Append(@, c[(k - 1) + 1])], (k - 1) + 1, c)
    BY <1>10, <2>3, SegmentRead
  <2>5. [x EXCEPT !.segments = Append(@, c[k])].base = x.base
    BY DEF States
  <2> QED
    BY <1>10, <2>2, <2>3, <2>4, <2>5
<1>11. ASSUME NEW k \in 1..n, k - 1 \in S PROVE k \in S
  <2> DEFINE i == pos[k - 1]
             x == r[i]
  <2>1. k \in 0..n /\ k - 1 \in 0..n /\ i \in Nat /\ pos[k] \in Nat /\ pos[k] <= pos[n]
        /\ pos[n] \in Nat
    BY <1>1, <1>4, <1>8
  <2>2. HasRead(x, k - 1, c) /\ (k - 1 > 0 => x.base = base(k - 1))
    BY <1>11
  <2> SUFFICES HasRead(r[pos[k]], k, c) /\ r[pos[k]].base = base(k)
    BY <2>1
  <2> HIDE DEF i, base, S
  <2>3. CASE PageLine(k)
    <3> DEFINE y == r[i + 1]
    <3>1. pos[k] = i + 2 /\ text[i + 1] = PageOf(k) /\ text[i + 2] = DataOf(k)
      BY <1>4, <2>3 DEF i
    <3>2. /\ i + 1 \in 1..Len(text) /\ i + 2 \in 1..Len(text) /\ (i + 1) - 1 = i /\ (i + 2) - 1 = i + 1
          /\ i \in 0..Len(text) /\ i + 1 \in 0..Len(text)
      BY <1>4, <2>1, <3>1
    <3>3. x \in States /\ y \in States /\ y = HexLine(x, PageOf(k)) /\ r[pos[k]] = HexLine(y, DataOf(k))
      BY <1>5, <1>6, <3>1, <3>2
    <3>4. y = [x EXCEPT !.base = (c[k].at \div Page) * Page]
      BY <2>2, <3>3 DEF HexLine, PageOf, Line, HasRead
    <3>5. /\ y.ok = x.ok /\ y.ended = x.ended /\ y.entry = x.entry /\ y.counts = x.counts
          /\ y.segments = x.segments /\ y.base = base(k)
      BY <3>3, <3>4 DEF States, base
    <3> HIDE DEF x, y
    <3>6. HasRead(y, k - 1, c)
      BY <2>2, <3>5 DEF HasRead
    <3> QED
      BY <1>10, <3>3, <3>5, <3>6
  <2>4. CASE ~PageLine(k)
    <3>1. k # 1 /\ c[k].at \div Page = c[k - 1].at \div Page
      BY <2>4 DEF PageLine
    <3>2. k - 1 > 0 /\ base(k) = base(k - 1)
      BY <2>1, <3>1 DEF base
    <3>3. pos[k] = i + 1 /\ text[i + 1] = DataOf(k)
      BY <1>4, <2>4 DEF i
    <3>4. i + 1 \in 1..Len(text) /\ (i + 1) - 1 = i /\ i \in 0..Len(text)
      BY <1>4, <2>1, <3>3
    <3>5. x \in States /\ r[pos[k]] = HexLine(x, DataOf(k))
      BY <1>5, <1>6, <3>3, <3>4
    <3> QED
      BY <1>10, <2>2, <3>2, <3>5
  <2> QED
    BY <2>3, <2>4
<1>12. \A k \in 0..n : k \in S
  <2> HIDE DEF S
  <2> QED
    BY <1>1, <1>9, <1>11, RunInduction
<1> DEFINE z == r[pos[n]]
<1>13. HasRead(z, n, c) /\ n \in 1..n
  <2>1. n \in S
    <3> HIDE DEF S
    <3> QED
      BY <1>1, <1>12
  <2> QED
    BY <1>1, <2>1
<1>14. pos[n] + 1 \in 1..Len(text) /\ (pos[n] + 1) - 1 = pos[n] /\ pos[n] \in 0..Len(text)
  <2>1. pos[n] \in Nat /\ Len(text) = pos[n] + 1
    BY <1>4, <1>8, <1>13
  <2> QED
    BY ONLY <2>1
<1>15. z \in States /\ p = HexLine(z, Line("end", 0, <<>>))
  BY <1>4, <1>5, <1>6, <1>14
<1> HIDE DEF z
<1>16. p = [z EXCEPT !.ended = TRUE]
  BY <1>13, <1>15 DEF HexLine, Line, HasRead
<1>17. p.ok /\ p.ended /\ p.entry = 0 /\ p.counts = <<>> /\ p.segments = z.segments
  BY <1>13, <1>15, <1>16 DEF States, HasRead
<1>18. z.segments = c
  <2>1. z.segments \in Seq(Segments) /\ Len(z.segments) = n /\ Len(c) = n
        /\ \A i \in 1..n : z.segments[i] = c[i]
    BY <1>13, <1>15 DEF States, HasRead, n
  <2> HIDE DEF c
  <2> QED
    BY <1>1, <2>1, SeqEqual
<1> QED
  BY <1>17, <1>18 DEF p

\* An undamaged file of the composer is read back as the image it is of.
LEMMA ComposedIsReadBackHolds ==
    ASSUME RegionsLaid,
           lost = "nothing" /\ form = "hex" => text = HexText,
           lost = "nothing" /\ form = "s19" => text = S19Text
    PROVE  ComposedIsReadBack
<1> SUFFICES ASSUME lost = "nothing", form \in {"hex", "s19"}
             PROVE  /\ Parsed.ok <=> form = "hex" \/ Covered(0, regions)
                    /\ Memory(Parsed.segments) = Memory(regions)
                    /\ (Parsed.segments = regions) <=> ~Touching
  BY DEF ComposedIsReadBack
<1> DEFINE p == FoldLeft(ReadLine, Start, text)
           f == Finish(AllChunks)
<1>1. p.ok /\ p.ended /\ p.entry = 0 /\ p.counts = <<>> /\ p.segments = AllChunks
  BY HexIsRead, S19IsRead
<1>2. /\ f.ok /\ Memory(f.segments) = Memory(regions)
      /\ Covered(0, f.segments) <=> Covered(0, regions)
      /\ (f.segments = regions) <=> ~Touching
  BY ImageOfChunks
<1>3. Parsed = [ok |-> Accepted(p) /\ Finish(p.segments).ok
                         /\ (form = "hex" \/ Covered(p.entry, Finish(p.segments).segments)),
                segments |-> Finish(p.segments).segments]
  BY DEF Parsed
<1> HIDE DEF p
<1>4. Accepted(p)
  BY <1>1 DEF Accepted
<1>5. /\ Parsed.ok <=> Accepted(p) /\ f.ok /\ (form = "hex" \/ Covered(0, f.segments))
      /\ Parsed.segments = f.segments
  BY <1>1, <1>3
<1> HIDE DEF f
<1> QED
  BY <1>2, <1>4, <1>5

-------------------------------------------------------------------------------
(* The invariant of a text, and its steps.                                 *)

\* Losing, repeating or swapping lines leaves a sequence of the same lines.
LEMMA EditsAre ==
    ASSUME NEW E, NEW t \in Seq(E), NEW i \in 1..Len(t)
    PROVE  /\ RemoveAt(t, i) \in Seq(E) /\ Len(RemoveAt(t, i)) = Len(t) - 1
           /\ \A j \in 1..(i - 1) : RemoveAt(t, i)[j] = t[j]
           /\ \A j \in i..(Len(t) - 1) : RemoveAt(t, i)[j] = t[j + 1]
           /\ InsertAt(t, i, t[i]) \in Seq(E)
           /\ i < Len(t) => [t EXCEPT ![i] = t[i + 1], ![i + 1] = t[i]] \in Seq(E)
<1> DEFINE n == Len(t)
           a == SubSeq(t, 1, i - 1)
           b == SubSeq(t, i + 1, n)
           c == SubSeq(t, i, n)
           e == <<t[i]>>
<1>1. n \in Nat /\ i \in Nat /\ i > 0 /\ i <= n /\ \A j \in 1..n : t[j] \in E
  BY LenProperties
<1>2. /\ a \in Seq(E) /\ Len(a) = i - 1 /\ \A j \in 1..(i - 1) : a[j] = t[j]
      /\ b \in Seq(E) /\ Len(b) = n - i /\ \A j \in 1..(n - i) : b[j] = t[i + j]
      /\ c \in Seq(E)
  <2>1. /\ t \in Seq(E) /\ n \in Nat /\ n <= n /\ n = Len(t)
        /\ 1 \in Nat \ {0} /\ i - 1 \in Nat /\ 1 <= (i - 1) + 1 /\ i - 1 <= n
        /\ i + 1 \in Nat \ {0} /\ i + 1 <= n + 1 /\ i \in Nat \ {0} /\ i <= n + 1
    BY <1>1
  <2> HIDE DEF n
  <2>2. /\ a \in Seq(E) /\ Len(a) = (i - 1) + 1 - 1
        /\ \A j \in 1..((i - 1) + 1 - 1) : a[j] = t[1 + j - 1]
    BY ONLY <2>1, PartIs DEF a
  <2>3. /\ b \in Seq(E) /\ Len(b) = n + 1 - (i + 1)
        /\ \A j \in 1..(n + 1 - (i + 1)) : b[j] = t[(i + 1) + j - 1]
    BY ONLY <2>1, PartIs DEF b
  <2>4. c \in Seq(E)
    BY ONLY <2>1, PartIs DEF c
  <2>5. /\ (i - 1) + 1 - 1 = i - 1 /\ n + 1 - (i + 1) = n - i
        /\ \A j \in 1..(i - 1) : 1 + j - 1 = j
        /\ \A j \in 1..(n - i) : (i + 1) + j - 1 = i + j
    BY ONLY <2>1
  <2> HIDE DEF a, b, c
  <2> QED
    BY ONLY <2>2, <2>3, <2>4, <2>5
<1>3. e \in Seq(E)
  BY <1>1
<1>4. RemoveAt(t, i) = a \o b /\ InsertAt(t, i, t[i]) = (a \o e) \o c
  BY DEF RemoveAt, InsertAt
<1> HIDE DEF a, b, c, e
<1>5. /\ a \o b \in Seq(E) /\ Len(a \o b) = Len(a) + Len(b)
      /\ \A j \in 1..(Len(a) + Len(b)) : (a \o b)[j] = IF j <= Len(a) THEN a[j] ELSE b[j - Len(a)]
  BY ONLY <1>2, ConcatProperties
<1>6. (a \o e) \o c \in Seq(E)
  BY ONLY <1>2, <1>3, ConcatProperties
<1>7. Len(a \o b) = n - 1
  BY <1>1, <1>2, <1>5
<1>8. ASSUME NEW j \in 1..(i - 1) PROVE (a \o b)[j] = t[j]
  BY <1>1, <1>2, <1>5
<1>9. ASSUME NEW j \in i..(n - 1) PROVE (a \o b)[j] = t[j + 1]
  <2>1. /\ j \in 1..(Len(a) + Len(b)) /\ ~(j <= Len(a)) /\ j - Len(a) = j - i + 1
        /\ j - i + 1 \in 1..(n - i) /\ i + (j - i + 1) = j + 1
    BY <1>1, <1>2
  <2> QED
    BY <1>2, <1>5, <2>1
<1>10. ASSUME i < n PROVE [t EXCEPT ![i] = t[i + 1], ![i + 1] = t[i]] \in Seq(E)
  <2>1. t \in [1..n -> E] /\ i + 1 \in 1..n
    BY <1>1, <1>10
  <2>2. t[i] \in E /\ t[i + 1] \in E
    BY <1>1, <2>1
  <2> HIDE DEF n
  <2>3. [t EXCEPT ![i] = t[i + 1], ![i + 1] = t[i]] \in [1..n -> E]
    BY <2>1, <2>2
  <2> QED
    BY <1>1, <2>3, ListIs
<1> QED
  BY <1>4, <1>5, <1>6, <1>7, <1>8, <1>9, <1>10

\* A compiled file without one of its data lines.
CountIsShort ==
    \E n \in Nat :
        /\ Len(text) = n + 2 /\ \A i \in 1..n : text[i].kind = "data"
        /\ text[n + 1].kind = "count" /\ text[n + 1].at = n + 1 /\ text[n + 2].kind = "end"

TextTypeOK ==
    /\ RegionsLaid /\ form \in {"none", "hex", "s19", "compiled"}
    /\ lost \in {"nothing", "data", "any"} /\ text \in Seq(Lines)
    /\ form = "none" => text = <<>>

\* An undamaged text is the one that was written; a damaged one still has
\* lines that are good by themselves.
WrittenIsOk ==
    /\ lost = "nothing" =>
         /\ form = "hex" => text = HexText
         /\ form = "s19" => text = S19Text
         /\ form = "compiled" => text = CompiledText
    /\ form \in {"s19", "compiled"} => text \in Seq(GoodLines)

TextInv == TextTypeOK /\ WrittenIsOk /\ (form = "compiled" /\ lost = "data" => CountIsShort)

\* The texts depend on the regions alone, which nothing changes.
LEMMA TextsStay ==
    ASSUME UNCHANGED regions
    PROVE  UNCHANGED <<AllChunks, HexText, S19Text, CompiledText>> /\ (RegionsLaid => RegionsLaid')
<1>1. AllChunks' = AllChunks
  BY DEF AllChunks
<1>2. DataLines' = DataLines
  BY <1>1 DEF DataLines
<1>3. \A i : PageLine(i)' <=> PageLine(i)
  BY <1>1 DEF PageLine
<1>4. HexText' = HexText
  BY <1>1, <1>3 DEF HexText
<1>5. S19Text' = S19Text
  BY <1>2 DEF S19Text
<1>6. CompiledText' = CompiledText
  BY <1>2 DEF CompiledText
<1>7. RegionsLaid => RegionsLaid'
  BY DEF RegionsLaid
<1> QED
  BY <1>1, <1>4, <1>5, <1>6, <1>7

\* The writer's steps and the harm done to its lines.
LEMMA TextStep == TextInv /\ TextNext => TextInv'
<1> SUFFICES ASSUME TextInv, TextNext PROVE TextInv'
  OBVIOUS
<1>0. /\ RegionsLaid /\ text \in Seq(Lines) /\ (form = "none" => text = <<>>)
      /\ form \in {"none", "hex", "s19", "compiled"}
  BY DEF TextInv, TextTypeOK
<1>1. ASSUME NEW f \in {"hex", "s19", "compiled"}, Write(f) PROVE TextInv'
  <2>1. /\ form' = f /\ lost' = "nothing" /\ UNCHANGED regions
        /\ f = "hex" => text' = HexText
        /\ f = "s19" => text' = S19Text
        /\ f = "compiled" => text' = CompiledText
    BY <1>1 DEF Write
  <2>2. UNCHANGED <<HexText, S19Text, CompiledText>> /\ RegionsLaid'
    BY <1>0, <2>1, TextsStay
  <2>3. HexText \in Seq(Lines) /\ S19Text \in Seq(GoodLines) /\ CompiledText \in Seq(GoodLines)
    BY <1>0, HexTextIs, TextsAre
  <2>4. f \in {"s19", "compiled"} => text' \in Seq(GoodLines)
    BY <2>1, <2>3
  <2>5. text' \in Seq(Lines)
    <3>1. GoodLines \in SUBSET Lines
      BY DEF GoodLines
    <3>2. S19Text \in Seq(Lines) /\ CompiledText \in Seq(Lines)
      BY <2>3, <3>1, SeqMonotonic
    <3> QED
      BY <2>1, <2>3, <3>2
  <2> QED
    BY <2>1, <2>2, <2>4, <2>5 DEF TextInv, TextTypeOK, WrittenIsOk
<1>2. ASSUME NEW i \in DOMAIN text, LoseLine(i) \/ RepeatLine(i) \/ SwapLines(i)
      PROVE  TextInv'
  <2>0. i \in 1..Len(text) /\ Len(text) \in Nat /\ form # "none"
    <3>1. DOMAIN text = 1..Len(text) /\ Len(text) \in Nat
      BY <1>0, LenProperties
    <3>2. text # <<>>
      BY <1>2, <3>1
    <3> QED
      BY <1>0, <3>1, <3>2
  <2>1. /\ lost = "nothing" /\ UNCHANGED <<regions, form>> /\ lost' \in {"data", "any"}
        /\ \/ text' = RemoveAt(text, i)
           \/ text' = InsertAt(text, i, text[i])
           \/ i < Len(text) /\ text' = [text EXCEPT ![i] = text[i + 1], ![i + 1] = text[i]]
    BY <1>2 DEF LoseLine, RepeatLine, SwapLines
  <2>6. ASSUME NEW E, text \in Seq(E) PROVE text' \in Seq(E)
    <3>1. /\ RemoveAt(text, i) \in Seq(E) /\ InsertAt(text, i, text[i]) \in Seq(E)
          /\ i < Len(text) => [text EXCEPT ![i] = text[i + 1], ![i + 1] = text[i]] \in Seq(E)
      BY ONLY <2>0, <2>6, EditsAre
    <3> QED
      BY ONLY <2>1, <3>1
  <2>2. text' \in Seq(Lines)
    BY <1>0, <2>6
  <2>3. ASSUME form \in {"s19", "compiled"} PROVE text' \in Seq(GoodLines)
    <3>1. text \in Seq(GoodLines)
      BY <2>3 DEF TextInv, WrittenIsOk
    <3> QED
      BY <2>6, <3>1
  <2>4. RegionsLaid'
    BY <1>0, <2>1, TextsStay
  <2>5. ASSUME form = "compiled", lost' = "data" PROVE CountIsShort'
    <3> DEFINE n == Len(AllChunks)
    <3>1. text' = RemoveAt(text, i) /\ text[i].kind = "data"
      BY <1>2, <2>1, <2>5 DEF LoseLine, RepeatLine, SwapLines
    <3>2. text = CompiledText
      BY <2>1, <2>5 DEF TextInv, WrittenIsOk
    <3>3. /\ n \in Nat /\ n > 0 /\ Len(text) = n + 2
          /\ text[n + 1] = Line("count", n, <<>>) /\ text[n + 2] = Line("end", regions[1].at, <<>>)
          /\ \A j \in 1..n : text[j] = Line("data", AllChunks[j].at, AllChunks[j].data)
      BY <1>0, <3>2, TextsAre
    <3> HIDE DEF n
    <3>4. /\ text[n + 1].kind = "count" /\ text[n + 1].at = n /\ text[n + 2].kind = "end"
          /\ \A j \in 1..n : text[j].kind = "data"
      <4>1. \A k, at, data : Line(k, at, data).kind = k /\ Line(k, at, data).at = at
        BY DEF Line
      <4> QED
        BY ONLY <3>3, <4>1 DEF LineKinds
    <3>5. i \in 1..n
      <4>1. i \in 1..n \/ i = n + 1 \/ i = n + 2
        BY <2>0, <3>3
      <4> QED
        BY <3>1, <3>4, <4>1
    <3>6. /\ Len(text') = Len(text) - 1 /\ \A j \in 1..(i - 1) : text'[j] = text[j]
          /\ \A j \in i..(Len(text) - 1) : text'[j] = text[j + 1]
      BY <1>0, <2>0, <3>1, EditsAre
    <3>7. /\ n - 1 \in Nat /\ Len(text') = (n - 1) + 2 /\ (n - 1) + 1 = n /\ (n - 1) + 2 = n + 1
          /\ n \in i..(Len(text) - 1) /\ n + 1 \in i..(Len(text) - 1) /\ (n + 1) + 1 = n + 2
      BY <3>3, <3>5, <3>6
    <3>8. text'[n] = text[n + 1] /\ text'[n + 1] = text[n + 2]
      BY <3>6, <3>7
    <3>9. ASSUME NEW j \in 1..(n - 1) PROVE text'[j].kind = "data"
      <4>1. \/ j \in 1..(i - 1) /\ j \in 1..n
            \/ j \in i..(Len(text) - 1) /\ j + 1 \in 1..n
        BY <3>3, <3>5
      <4> QED
        BY <3>4, <3>6, <4>1
    <3> QED
      BY <3>4, <3>7, <3>8, <3>9 DEF CountIsShort
  <2> QED
    BY <1>0, <2>0, <2>1, <2>2, <2>3, <2>4, <2>5 DEF TextInv, TextTypeOK, WrittenIsOk
<1> QED
  BY <1>1, <1>2 DEF TextNext

\* The composer's own reader and the flash tools' loader agree about every
\* text that is accepted, and the count shows the loss of a data line.
LEMMA TextInvIsEnough == TextInv => TextKeepsImage
<1> SUFFICES ASSUME TextInv PROVE TextKeepsImage
  OBVIOUS
<1>1. ComposedIsReadBack
  BY ComposedIsReadBackHolds DEF TextInv, TextTypeOK, WrittenIsOk
<1>2. LoadersAgree
  BY LoadersAgreeHolds DEF TextInv, WrittenIsOk
<1>3. ASSUME form = "compiled", lost = "data" PROVE ~Parsed.ok
  <2>1. PICK n \in Nat :
            /\ Len(text) = n + 2 /\ \A i \in 1..n : text[i].kind = "data"
            /\ text[n + 1].kind = "count" /\ text[n + 1].at = n + 1 /\ text[n + 2].kind = "end"
    BY <1>3 DEF TextInv, CountIsShort
  <2>2. text[n + 1].at # n /\ text \in Seq(Lines)
    BY <2>1 DEF TextInv, TextTypeOK
  <2> QED
    BY <1>3, <2>1, <2>2, CountIsRead
<1> QED
  BY <1>1, <1>2, <1>3 DEF TextKeepsImage, CountTellsLoss

\* image_parser, the composer and load_srec_image: what the composer writes is
\* read back, the two readers of S-records agree on every accepted text, whole
\* or damaged, and a count shows the loss, for any regions and sizes.
THEOREM TextKept == Spec => []TextKeepsImage
<1>1. Init => TextInv
  <2> SUFFICES ASSUME Init PROVE TextInv
    OBVIOUS
  <2>1. TextInit
    BY DEF Init
  <2>2. RegionsLaid
    BY <2>1 DEF TextInit, RegionsLaid
  <2> QED
    BY <2>1, <2>2, EmptySeq DEF TextInit, TextInv, TextTypeOK, WrittenIsOk
<1>2. TextInv /\ [Next]_vars => TextInv'
  <2>1. ASSUME TextInv, UNCHANGED textVars PROVE TextInv'
    <3>1. UNCHANGED <<regions, text, form, lost>>
      BY <2>1 DEF textVars
    <3>2. UNCHANGED <<HexText, S19Text, CompiledText>> /\ (RegionsLaid => RegionsLaid')
      BY <3>1, TextsStay
    <3> QED
      BY <2>1, <3>1, <3>2 DEF TextInv, TextTypeOK, WrittenIsOk, CountIsShort
  <2> QED
    BY <2>1, TextStep DEF Next, Store, Image, Text, Package, Runtime, vars
<1>3. TextInv => TextKeepsImage
  BY TextInvIsEnough
<1> QED
  BY <1>1, <1>2, <1>3, PTL DEF Spec
===============================================================================
