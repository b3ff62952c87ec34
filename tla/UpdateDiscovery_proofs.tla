------------------------- MODULE UpdateDiscovery_proofs -------------------------
(***************************************************************************)
(* Proofs about the publication of releases and the check for updates, for *)
(* any number of workflow runs, releases and versions.                     *)
(***************************************************************************)
EXTENDS UpdateDiscovery, TLAPS

-------------------------------------------------------------------------------
(* Publication.                                                            *)

Pcs == {"idle", "pushed", "gated", "built", "audited", "signed", "checked", "draft",
        "verified", "done", "failed"}
RunRecords ==
    [pc : Pcs, tag : Nat, source : Nat, ancestor : BOOLEAN, sound : BOOLEAN, signed : BOOLEAN,
     release : {"none", "draft", "published"}, assets : Nat, bad : BOOLEAN]

\* At the release of its tag; and past the job that creates it.
Releasing == {"checked", "draft", "verified"}
Late == {"draft", "verified", "done", "failed"}

\* What a run knows of itself: each job has passed before the next began, and
\* no release was created before all of them.
RunIsOk(x) ==
    /\ x.pc \in {"gated", "built", "audited", "signed"} \cup Releasing =>
         x.source = x.tag /\ x.ancestor
    /\ x.pc \in {"audited", "signed"} \cup Releasing => x.sound
    /\ x.pc \in {"signed"} \cup Releasing => x.signed
    /\ x.release # "none" =>
         x.pc \in Late /\ x.source = x.tag /\ x.ancestor /\ x.sound /\ x.signed
    /\ x.pc = "verified" => x.assets = Assets /\ ~x.bad

\* Until two runs of one tag meet, a run that is at the release of its tag
\* finds no other release there.
TagIsOwn ==
    ~twice =>
        /\ \A q, r \in Runs :
             run[q].release # "none" /\ run[r].release # "none" /\ run[q].tag = run[r].tag => q = r
        /\ \A q, r \in Runs :
             run[q].release # "none" /\ run[r].pc \in Releasing /\ run[q].tag = run[r].tag => q = r
        /\ \A r \in Runs :
             run[r].release = "published" =>
                 run[r].pc = "done" /\ run[r].assets = Assets /\ ~run[r].bad

PublicationTypeOK == run \in [Runs -> RunRecords] /\ twice \in BOOLEAN
PublicationInv ==
    /\ PublicationTypeOK
    /\ \A r \in Runs : RunIsOk(run[r])
    /\ TagIsOwn

\* Nothing was released before the first run.
LEMMA PublicationStarts == PublicationInit => PublicationInv
<1> SUFFICES ASSUME PublicationInit PROVE PublicationInv
  OBVIOUS
<1>1. NoRun \in RunRecords /\ NoRun.pc = "idle" /\ NoRun.release = "none"
  BY DEF NoRun, RunRecords, Pcs
<1>2. PublicationTypeOK
  BY <1>1 DEF PublicationInit, PublicationTypeOK
<1>3. \A r \in Runs : run[r] = NoRun
  BY DEF PublicationInit
<1>4. \A r \in Runs : RunIsOk(run[r])
  BY <1>1, <1>3 DEF RunIsOk, Releasing
<1>5. TagIsOwn
  BY <1>1, <1>3 DEF TagIsOwn, Releasing
<1> QED
  BY <1>2, <1>4, <1>5 DEF PublicationInv

\* A step of one run that neither creates nor publishes a release.
LEMMA RunSteps ==
    ASSUME PublicationInv, NEW r \in Runs, NEW x \in RunRecords, RunIsOk(x),
           run' = [run EXCEPT ![r] = x], twice' = twice, run[r].pc # "done",
           x.release = run[r].release,
           x.tag = run[r].tag \/ (x.release = "none" /\ x.pc \notin Releasing),
           x.pc \in Releasing => run[r].pc \in Releasing \/ OfTag(run[r].tag) = {}
    PROVE  PublicationInv'
<1>t. run \in [Runs -> RunRecords] /\ twice \in BOOLEAN
  BY DEF PublicationInv, PublicationTypeOK
<1>1. \A q \in Runs : run'[q] = IF q = r THEN x ELSE run[q]
  BY <1>t
<1>2. PublicationTypeOK' /\ \A q \in Runs : RunIsOk(run[q])'
  <2>1. PublicationTypeOK'
    BY <1>t DEF PublicationTypeOK
  <2>2. \A q \in Runs : RunIsOk(run'[q])
    BY <1>1 DEF PublicationInv
  <2> QED
    BY <2>1, <2>2 DEF RunIsOk
<1>3. TagIsOwn'
  <2> SUFFICES ASSUME ~twice PROVE TagIsOwn'
    BY DEF TagIsOwn
  <2>1. TagIsOwn
    BY DEF PublicationInv
  <2>2. run[r].release # "published"
    BY <2>1 DEF TagIsOwn
  <2>3. ASSUME NEW p \in Runs, NEW q \in Runs, run'[p].release # "none", run'[q].release # "none",
               run'[p].tag = run'[q].tag
        PROVE  p = q
    BY <1>1, <2>1, <2>3 DEF TagIsOwn
  <2>4. ASSUME NEW p \in Runs, NEW q \in Runs, run'[p].release # "none", run'[q].pc \in Releasing,
               run'[p].tag = run'[q].tag
        PROVE  p = q
    <3>1. run[p].release # "none" /\ run[p].tag = run'[p].tag
      BY <1>1, <2>4
    <3>2. run[q].pc \in Releasing \/ (q = r /\ OfTag(run[r].tag) = {})
      BY <1>1, <2>4
    <3>3. run[q].tag = run'[q].tag
      BY <1>1, <2>4
    <3>4. p \in OfTag(run[q].tag)
      BY <2>4, <3>1, <3>3 DEF OfTag
    <3> QED
      BY <2>1, <2>4, <3>1, <3>2, <3>3, <3>4 DEF TagIsOwn
  <2>5. ASSUME NEW q \in Runs, run'[q].release = "published"
        PROVE  run'[q].pc = "done" /\ run'[q].assets = Assets /\ ~run'[q].bad
    BY <1>1, <2>1, <2>2, <2>5 DEF TagIsOwn
  <2> QED
    BY <2>3, <2>4, <2>5 DEF TagIsOwn
<1> QED
  BY <1>2, <1>3 DEF PublicationInv

\* A run that fails.
LEMMA RunFails ==
    ASSUME PublicationInv, NEW r \in Runs, Fails(r), twice' = twice,
           run[r].pc # "done", run[r].pc # "idle"
    PROVE  PublicationInv'
<1> DEFINE x == [run[r] EXCEPT !.pc = "failed"]
<1>1. run[r] \in RunRecords /\ RunIsOk(run[r]) /\ run' = [run EXCEPT ![r] = x]
  BY DEF PublicationInv, PublicationTypeOK, Fails, Goes
<1>2. /\ x \in RunRecords /\ x.pc = "failed" /\ x.release = run[r].release /\ x.tag = run[r].tag
      /\ x.source = run[r].source /\ x.ancestor = run[r].ancestor /\ x.sound = run[r].sound
      /\ x.signed = run[r].signed
  BY <1>1 DEF RunRecords, Pcs
<1>3. RunIsOk(x)
  BY <1>1, <1>2 DEF RunIsOk, Releasing, Late
<1> QED
  BY <1>1, <1>2, <1>3, RunSteps DEF Releasing

\* A run that goes on to its next job, with nothing else changed.
LEMMA RunGoesOn ==
    ASSUME PublicationInv, NEW r \in Runs, NEW pc \in Pcs, Goes(r, pc), twice' = twice,
           \/ run[r].pc = "pushed" /\ pc = "gated" /\ GatePasses(r)
           \/ run[r].pc = "built" /\ pc = "audited" /\ run[r].sound
           \/ run[r].pc = "signed" /\ pc = "checked" /\ OfTag(run[r].tag) = {}
           \/ run[r].pc = "draft" /\ pc = "verified" /\ run[r].assets = Assets /\ ~run[r].bad
    PROVE  PublicationInv'
<1> DEFINE x == [run[r] EXCEPT !.pc = pc]
<1>1. run[r] \in RunRecords /\ RunIsOk(run[r]) /\ run' = [run EXCEPT ![r] = x]
  BY DEF PublicationInv, PublicationTypeOK, Goes
<1>2. /\ x \in RunRecords /\ x.pc = pc /\ x.release = run[r].release /\ x.tag = run[r].tag
      /\ x.source = run[r].source /\ x.ancestor = run[r].ancestor /\ x.sound = run[r].sound
      /\ x.signed = run[r].signed /\ x.assets = run[r].assets /\ x.bad = run[r].bad
  BY <1>1 DEF RunRecords
<1> HIDE DEF x
<1>3. RunIsOk(x)
  BY <1>1, <1>2 DEF RunIsOk, Releasing, Late, GatePasses
<1> QED
  BY <1>1, <1>2, <1>3, RunSteps DEF Releasing

\* Two runs that meet, or one that finds no release of its tag, may draft.
LEMMA DraftStep ==
    ASSUME PublicationInv, NEW r \in Runs, CreateDraft(r) PROVE PublicationInv'
<1> DEFINE x == [run[r] EXCEPT !.pc = "draft", !.release = "draft"]
<1>t. run \in [Runs -> RunRecords] /\ twice \in BOOLEAN
  BY DEF PublicationInv, PublicationTypeOK
<1>1. run[r] \in RunRecords /\ RunIsOk(run[r]) /\ run[r].pc = "checked"
  BY DEF PublicationInv, PublicationTypeOK, CreateDraft
<1>2. /\ x \in RunRecords /\ x.pc = "draft" /\ x.release = "draft" /\ x.tag = run[r].tag
      /\ x.source = run[r].source /\ x.ancestor = run[r].ancestor /\ x.sound = run[r].sound
      /\ x.signed = run[r].signed
  BY <1>1 DEF RunRecords, Pcs
<1>3. RunIsOk(x)
  <2> HIDE DEF x
  <2> QED
    BY <1>1, <1>2 DEF RunIsOk, Releasing, Late
<1>4. run' = [run EXCEPT ![r] = x]
  BY <1>t DEF CreateDraft
<1>5. \A q \in Runs : run'[q] = IF q = r THEN x ELSE run[q]
  BY <1>t, <1>4
<1>6. PublicationTypeOK' /\ \A q \in Runs : RunIsOk(run[q])'
  <2>1. twice' \in BOOLEAN
    BY DEF CreateDraft
  <2>2. PublicationTypeOK'
    BY <1>t, <1>2, <1>4, <2>1 DEF PublicationTypeOK
  <2>3. \A q \in Runs : RunIsOk(run'[q])
    BY <1>3, <1>5 DEF PublicationInv
  <2> QED
    BY <2>2, <2>3 DEF RunIsOk
<1>7. TagIsOwn'
  <2> SUFFICES ASSUME ~twice' PROVE TagIsOwn'
    BY DEF TagIsOwn
  <2>1. ~twice /\ OfTag(run[r].tag) = {} /\ AtRelease(run[r].tag) = {r} /\ TagIsOwn
    BY <1>t DEF CreateDraft, PublicationInv
  <2>2. \A q \in Runs : run[q].release # "none" => run[q].tag # run[r].tag
    BY <2>1 DEF OfTag
  <2>3. \A q \in Runs : run[q].pc \in Releasing /\ run[q].tag = run[r].tag => q = r
    BY <2>1 DEF AtRelease, Releasing
  <2> HIDE DEF x
  <2>4. ASSUME NEW p \in Runs, NEW q \in Runs, run'[p].release # "none", run'[q].release # "none",
               run'[p].tag = run'[q].tag
        PROVE  p = q
    BY <1>2, <1>5, <2>1, <2>2, <2>4 DEF TagIsOwn
  <2>5. ASSUME NEW p \in Runs, NEW q \in Runs, run'[p].release # "none", run'[q].pc \in Releasing,
               run'[p].tag = run'[q].tag
        PROVE  p = q
    BY <1>1, <1>2, <1>5, <2>1, <2>2, <2>3, <2>5 DEF TagIsOwn, Releasing
  <2>6. ASSUME NEW q \in Runs, run'[q].release = "published"
        PROVE  run'[q].pc = "done" /\ run'[q].assets = Assets /\ ~run'[q].bad
    BY <1>2, <1>5, <2>1, <2>6 DEF TagIsOwn
  <2> QED
    BY <2>4, <2>5, <2>6 DEF TagIsOwn
<1> QED
  BY <1>6, <1>7 DEF PublicationInv

\* Publishing a release of the tag: the run's own unless two have met.
LEMMA PublishStep ==
    ASSUME PublicationInv, NEW r \in Runs, Publish(r), OfTag(run[r].tag) # {}
    PROVE  PublicationInv'
<1>t. run \in [Runs -> RunRecords] /\ twice \in BOOLEAN
  BY DEF PublicationInv, PublicationTypeOK
<1>1. PICK q \in OfTag(run[r].tag) :
        run' = [[run EXCEPT ![r].pc = "done"] EXCEPT ![q].release = "published"]
  BY DEF Publish
<1>2. q \in Runs /\ run[q].release # "none" /\ run[q].tag = run[r].tag
      /\ run[r].pc = "verified" /\ twice' = twice
  BY DEF Publish, OfTag
<1>3. ASSUME NEW s \in Runs
      PROVE  /\ run'[s] \in RunRecords
             /\ run'[s].pc = (IF s = r THEN "done" ELSE run[s].pc)
             /\ run'[s].release = (IF s = q THEN "published" ELSE run[s].release)
             /\ run'[s].tag = run[s].tag /\ run'[s].source = run[s].source
             /\ run'[s].ancestor = run[s].ancestor /\ run'[s].sound = run[s].sound
             /\ run'[s].signed = run[s].signed /\ run'[s].assets = run[s].assets
             /\ run'[s].bad = run[s].bad
  <2> DEFINE x == [run[s] EXCEPT !.pc = "done"]
             y == [run[s] EXCEPT !.release = "published"]
             z == [x EXCEPT !.release = "published"]
  <2>0. run[s] \in RunRecords
    BY <1>t
  <2>1. run'[s] = IF s = r THEN IF s = q THEN z ELSE x ELSE IF s = q THEN y ELSE run[s]
    BY <1>t, <1>1, <1>2
  <2> QED
    <3>1. CASE s = r /\ s = q
      BY <2>0, <2>1, <3>1 DEF RunRecords, Pcs
    <3>2. CASE s = r /\ s # q
      BY <2>0, <2>1, <3>2 DEF RunRecords, Pcs
    <3>3. CASE s # r /\ s = q
      BY <2>0, <2>1, <3>3 DEF RunRecords
    <3>4. CASE s # r /\ s # q
      BY <2>0, <2>1, <3>4
    <3> QED
      BY <3>1, <3>2, <3>3, <3>4
<1>4. PublicationTypeOK'
  <2>1. run' = [s \in Runs |-> run'[s]]
    BY <1>t, <1>1
  <2> QED
    BY <1>t, <1>2, <1>3, <2>1 DEF PublicationTypeOK
<1>5. ASSUME NEW s \in Runs PROVE RunIsOk(run[s])'
  <2>1. RunIsOk(run[s]) /\ RunIsOk(run[r])
    BY DEF PublicationInv
  <2> QED
    BY <1>2, <1>3, <2>1 DEF RunIsOk, Releasing, Late
<1>6. TagIsOwn'
  <2> SUFFICES ASSUME ~twice PROVE TagIsOwn'
    BY <1>2 DEF TagIsOwn
  <2>1. TagIsOwn /\ RunIsOk(run[r])
    BY DEF PublicationInv
  <2>2. q = r /\ run[r].assets = Assets /\ ~run[r].bad
    BY <1>2, <2>1 DEF TagIsOwn, RunIsOk, Releasing
  <2>3. ASSUME NEW p \in Runs, NEW s \in Runs, run'[p].release # "none", run'[s].release # "none",
               run'[p].tag = run'[s].tag
        PROVE  p = s
    BY <1>2, <1>3, <2>1, <2>2, <2>3 DEF TagIsOwn
  <2>4. ASSUME NEW p \in Runs, NEW s \in Runs, run'[p].release # "none", run'[s].pc \in Releasing,
               run'[p].tag = run'[s].tag
        PROVE  p = s
    BY <1>2, <1>3, <2>1, <2>2, <2>4 DEF TagIsOwn, Releasing
  <2>5. ASSUME NEW s \in Runs, run'[s].release = "published"
        PROVE  run'[s].pc = "done" /\ run'[s].assets = Assets /\ ~run'[s].bad
    BY <1>2, <1>3, <2>1, <2>2, <2>5 DEF TagIsOwn
  <2> QED
    BY <2>3, <2>4, <2>5 DEF TagIsOwn
<1> QED
  BY <1>4, <1>5, <1>6 DEF PublicationInv

\* Deleting a release keeps what is known of the others.
LEMMA DeleteStep == ASSUME PublicationInv, NEW r \in Runs, Delete(r) PROVE PublicationInv'
<1> DEFINE x == [run[r] EXCEPT !.release = "none"]
<1>t. run \in [Runs -> RunRecords] /\ twice \in BOOLEAN /\ twice' = twice
  BY DEF PublicationInv, PublicationTypeOK, Delete
<1>1. run[r] \in RunRecords /\ RunIsOk(run[r]) /\ run' = [run EXCEPT ![r] = x]
  BY <1>t DEF PublicationInv, PublicationTypeOK, Delete
<1>2. /\ x \in RunRecords /\ x.pc = run[r].pc /\ x.release = "none" /\ x.tag = run[r].tag
      /\ x.source = run[r].source /\ x.ancestor = run[r].ancestor /\ x.sound = run[r].sound
      /\ x.signed = run[r].signed /\ x.assets = run[r].assets /\ x.bad = run[r].bad
  BY <1>1 DEF RunRecords
<1> HIDE DEF x
<1>3. RunIsOk(x)
  BY <1>1, <1>2 DEF RunIsOk
<1>4. \A q \in Runs : run'[q] = IF q = r THEN x ELSE run[q]
  BY <1>t, <1>1
<1>5. PublicationTypeOK' /\ \A q \in Runs : RunIsOk(run[q])'
  <2>1. PublicationTypeOK'
    BY <1>t, <1>1, <1>2 DEF PublicationTypeOK
  <2>2. \A q \in Runs : RunIsOk(run'[q])
    BY <1>3, <1>4 DEF PublicationInv
  <2> QED
    BY <2>1, <2>2 DEF RunIsOk
<1>6. TagIsOwn'
  BY <1>t, <1>2, <1>4 DEF TagIsOwn, PublicationInv
<1> QED
  BY <1>5, <1>6 DEF PublicationInv

\* Every step of the workflow and of the maintainers keeps the invariant.
LEMMA PublicationStep == PublicationInv /\ Publication => PublicationInv'
<1> SUFFICES ASSUME PublicationInv, NEW r \in Runs,
                    \/ Workflow(r) \/ Delete(r)
                    \/ \E v, s \in Versions, ancestor \in BOOLEAN : Push(r, v, s, ancestor)
             PROVE  PublicationInv'
  BY DEF Publication
<1>t. run \in [Runs -> RunRecords] /\ twice \in BOOLEAN
  BY DEF PublicationInv, PublicationTypeOK
<1>a. run[r] \in RunRecords /\ RunIsOk(run[r])
  BY <1>t DEF PublicationInv
<1>1. CASE Gate(r)
  <2>1. run[r].pc = "pushed" /\ twice' = twice /\ (GatePasses(r) => Goes(r, "gated"))
        /\ (~GatePasses(r) => Fails(r))
    BY <1>1 DEF Gate
  <2> QED
    BY <2>1, RunGoesOn, RunFails DEF Pcs
<1>2. CASE Build(r)
  <2>1. PICK sound \in BOOLEAN : run' = [run EXCEPT ![r].pc = "built", ![r].sound = sound]
    BY <1>2 DEF Build
  <2> DEFINE x == [run[r] EXCEPT !.pc = "built", !.sound = sound]
  <2>2. /\ x \in RunRecords /\ x.pc = "built" /\ x.release = run[r].release /\ x.tag = run[r].tag
        /\ x.source = run[r].source /\ x.ancestor = run[r].ancestor
    BY <1>a DEF RunRecords, Pcs
  <2>3. run' = [run EXCEPT ![r] = x]
    BY <1>t, <2>1
  <2>4. run[r].pc = "gated" /\ twice' = twice
    BY <1>2 DEF Build
  <2> HIDE DEF x
  <2>5. RunIsOk(x)
    BY <1>a, <2>2, <2>4 DEF RunIsOk, Releasing, Late
  <2> QED
    BY <2>2, <2>3, <2>4, <2>5, RunSteps DEF Releasing
<1>3. CASE Audit(r)
  <2>1. run[r].pc = "built" /\ twice' = twice /\ (run[r].sound => Goes(r, "audited"))
        /\ (~run[r].sound => Fails(r))
    BY <1>3 DEF Audit
  <2> QED
    BY <2>1, RunGoesOn, RunFails DEF Pcs
<1>4. CASE Sign(r)
  <2>1. run[r].pc = "audited" /\ twice' = twice
    BY <1>4 DEF Sign
  <2>2. CASE Fails(r)
    BY <2>1, <2>2, RunFails
  <2>3. CASE run' = [run EXCEPT ![r].pc = "signed", ![r].signed = TRUE]
    <3> DEFINE x == [run[r] EXCEPT !.pc = "signed", !.signed = TRUE]
    <3>1. /\ x \in RunRecords /\ x.pc = "signed" /\ x.release = run[r].release /\ x.tag = run[r].tag
          /\ x.source = run[r].source /\ x.ancestor = run[r].ancestor /\ x.sound = run[r].sound
          /\ x.signed
      BY <1>a DEF RunRecords, Pcs
    <3>2. run' = [run EXCEPT ![r] = x]
      BY <1>t, <2>3
    <3> HIDE DEF x
    <3>3. RunIsOk(x)
      BY <1>a, <2>1, <3>1 DEF RunIsOk, Releasing, Late
    <3> QED
      BY <2>1, <3>1, <3>2, <3>3, RunSteps DEF Releasing
  <2> QED
    BY <1>4, <2>2, <2>3 DEF Sign
<1>5. CASE CheckExisting(r)
  <2>1. run[r].pc = "signed" /\ twice' = twice /\ (OfTag(run[r].tag) = {} => Goes(r, "checked"))
        /\ (OfTag(run[r].tag) # {} => Fails(r))
    BY <1>5 DEF CheckExisting
  <2> QED
    BY <2>1, RunGoesOn, RunFails DEF Pcs
<1>6. CASE CreateDraft(r)
  BY <1>6, DraftStep
<1>7. CASE Upload(r)
  <2>1. PICK bad \in {run[r].bad, TRUE} :
          run' = [run EXCEPT ![r].assets = @ + 1, ![r].bad = bad]
    BY <1>7 DEF Upload
  <2> DEFINE n == run[r].assets + 1
             x == [run[r] EXCEPT !.assets = n, !.bad = bad]
  <2>2. n \in Nat /\ bad \in BOOLEAN
    <3>1. run[r].assets \in Nat /\ run[r].bad \in BOOLEAN
      BY <1>a DEF RunRecords
    <3>2. n \in Nat
      BY <3>1
    <3> HIDE DEF n
    <3> QED
      BY <3>1, <3>2
  <2>3. /\ x \in RunRecords /\ x.pc = run[r].pc /\ x.release = run[r].release /\ x.tag = run[r].tag
        /\ x.source = run[r].source /\ x.ancestor = run[r].ancestor /\ x.sound = run[r].sound
        /\ x.signed = run[r].signed
    <3> HIDE DEF n
    <3> QED
      BY <1>a, <2>2 DEF RunRecords
  <2>4. run' = [run EXCEPT ![r] = x]
    BY <1>t, <2>1
  <2>5. run[r].pc = "draft" /\ twice' = twice
    BY <1>7 DEF Upload
  <2> HIDE DEF x
  <2>6. RunIsOk(x)
    BY <1>a, <2>3, <2>5 DEF RunIsOk, Releasing, Late
  <2> QED
    BY <2>3, <2>4, <2>5, <2>6, RunSteps DEF Releasing
<1>8. CASE VerifyAssets(r)
  <2>1. run[r].pc = "draft" /\ twice' = twice /\ (run[r].assets = Assets \/ run[r].release = "none")
    BY <1>8 DEF VerifyAssets
  <2>2. CASE Drafts(run[r].tag) = {r} /\ DigestsMatch(r)
    <3>1. run[r].release = "draft" /\ ~run[r].bad
      BY <2>2 DEF Drafts, DigestsMatch
    <3>2. Goes(r, "verified") /\ run[r].assets = Assets
      BY <1>8, <2>1, <2>2, <3>1 DEF VerifyAssets
    <3> QED
      BY <2>1, <3>1, <3>2, RunGoesOn DEF Pcs
  <2>3. CASE ~(Drafts(run[r].tag) = {r} /\ DigestsMatch(r))
    <3>1. Fails(r)
      BY <1>8, <2>3 DEF VerifyAssets
    <3> QED
      BY <2>1, <3>1, RunFails
  <2> QED
    BY <2>2, <2>3
<1>9. CASE Publish(r)
  <2>1. CASE OfTag(run[r].tag) = {}
    BY <1>9, <2>1, RunFails DEF Publish
  <2> QED
    BY <1>9, <2>1, PublishStep
<1>10. CASE JobDies(r)
  BY <1>10, RunFails DEF JobDies
<1>11. CASE Delete(r)
  BY <1>11, DeleteStep
<1>12. CASE \E v, s \in Versions, ancestor \in BOOLEAN : Push(r, v, s, ancestor)
  <2>1. PICK v \in Versions, s \in Versions, ancestor \in BOOLEAN : Push(r, v, s, ancestor)
    BY <1>12
  <2> DEFINE x == [NoRun EXCEPT !.pc = "pushed", !.tag = v, !.source = s, !.ancestor = ancestor]
  <2>2. v \in Nat /\ s \in Nat
    BY VersionsAssumption
  <2>3. x \in RunRecords /\ x.pc = "pushed" /\ x.release = "none"
    BY <2>2 DEF NoRun, RunRecords, Pcs
  <2>4. run' = [run EXCEPT ![r] = x] /\ run[r].pc = "idle" /\ twice' = twice
    BY <2>1 DEF Push
  <2> HIDE DEF x
  <2>5. RunIsOk(x) /\ run[r].release = "none"
    BY <1>a, <2>3, <2>4 DEF RunIsOk, Releasing, Late
  <2> QED
    BY <2>3, <2>4, <2>5, RunSteps DEF Releasing
<1> QED
  BY <1>1, <1>2, <1>3, <1>4, <1>5, <1>6, <1>7, <1>8, <1>9, <1>10, <1>11, <1>12 DEF Workflow

\* A run that has got as far as its release does not change what it is.
LEMMA FitStays ==
    ASSUME PublicationInv, Publication, NEW q \in Runs, run[q].pc \in Late, Fit(q)
    PROVE  run'[q].pc \in Late /\ Fit(q)' /\ run'[q].tag = run[q].tag
<1>t. run \in [Runs -> RunRecords] /\ run[q] \in RunRecords
  BY DEF PublicationInv, PublicationTypeOK
<1> DEFINE Keeps == /\ run'[q].pc \in Late /\ run'[q].tag = run[q].tag
                    /\ run'[q].source = run[q].source /\ run'[q].ancestor = run[q].ancestor
                    /\ run'[q].sound = run[q].sound /\ run'[q].signed = run[q].signed
<1> SUFFICES Keeps
  BY DEF Fit
<1>1. PICK r \in Runs :
         \/ Workflow(r) \/ Delete(r)
         \/ \E v, s \in Versions, ancestor \in BOOLEAN : Push(r, v, s, ancestor)
  BY DEF Publication
<1>2. CASE run'[q] = run[q]
  BY <1>2
<1>3. ASSUME NEW pc \in Late, Goes(r, pc) PROVE Keeps
  BY <1>t, <1>3 DEF Goes, RunRecords
<1>4. ASSUME Fails(r) PROVE Keeps
  BY <1>3, <1>4 DEF Fails, Late
<1>5. CASE Gate(r)
  BY <1>t, <1>4, <1>5 DEF Gate, Goes, Late
<1>6. CASE Build(r)
  BY <1>t, <1>2, <1>6 DEF Build, Late
<1>7. CASE Audit(r)
  BY <1>t, <1>4, <1>7 DEF Audit, Goes, Late
<1>8. CASE Sign(r)
  BY <1>t, <1>4, <1>8 DEF Sign, Late
<1>9. CASE CheckExisting(r)
  BY <1>t, <1>4, <1>9 DEF CheckExisting, Goes, Late
<1>10. CASE CreateDraft(r)
  BY <1>t, <1>10 DEF CreateDraft, Late, RunRecords
<1>11. CASE Upload(r)
  BY <1>t, <1>11 DEF Upload, Late, RunRecords
<1>12. CASE VerifyAssets(r)
  <2>1. "verified" \in Late
    BY DEF Late
  <2> QED
    BY <1>3, <1>4, <1>12, <2>1 DEF VerifyAssets
<1>13. CASE Publish(r)
  <2>1. CASE OfTag(run[r].tag) = {}
    BY <1>4, <1>13, <2>1 DEF Publish
  <2>2. CASE OfTag(run[r].tag) # {}
    <3>1. PICK o \in OfTag(run[r].tag) :
            run' = [[run EXCEPT ![r].pc = "done"] EXCEPT ![o].release = "published"]
      BY <1>13, <2>2 DEF Publish
    <3> DEFINE mid == [run EXCEPT ![r].pc = "done"]
    <3>2. /\ mid \in [Runs -> RunRecords] /\ mid[q].pc \in Late /\ mid[q].tag = run[q].tag
          /\ mid[q].source = run[q].source /\ mid[q].ancestor = run[q].ancestor
          /\ mid[q].sound = run[q].sound /\ mid[q].signed = run[q].signed
      <4>1. "done" \in Late /\ "done" \in Pcs
        BY DEF Late, Pcs
      <4> QED
        BY <1>t, <4>1 DEF RunRecords
    <3>3. o \in Runs /\ run' = [mid EXCEPT ![o].release = "published"]
      BY <3>1 DEF OfTag
    <3> HIDE DEF mid
    <3> QED
      BY <3>2, <3>3 DEF RunRecords
  <2> QED
    BY <2>1, <2>2
<1>14. CASE JobDies(r)
  BY <1>4, <1>14 DEF JobDies
<1>15. CASE Delete(r)
  BY <1>t, <1>15 DEF Delete, RunRecords
<1>16. CASE \E v, s \in Versions, ancestor \in BOOLEAN : Push(r, v, s, ancestor)
  BY <1>t, <1>16 DEF Push, Late
<1> QED
  BY <1>1, <1>5, <1>6, <1>7, <1>8, <1>9, <1>10, <1>11, <1>12, <1>13, <1>14, <1>15, <1>16
     DEF Workflow

-------------------------------------------------------------------------------
(* The check for updates.                                                  *)

\* What has been offered is of a run that has got as far as its release.
OfferInv ==
    check.outcome = "offer" =>
        /\ check.offer \in Runs /\ run[check.offer].pc \in Late /\ Fit(check.offer)
        /\ own.official /\ run[check.offer].tag > own.version

CheckRecords ==
    [pc : {"idle", "locator", "json", "sig"}, attempt : {0, 1}, tag : Nat,
     json : Runs \cup {"none"}, outcome : {"none", "current", "offer", "security", "network"},
     offer : Runs \cup {"none"}, latest : Runs \cup {"none"}, calm : BOOLEAN, spoilt : Nat]

DiscoveryTypeOK ==
    /\ latest \in Runs \cup {"none"} /\ check \in CheckRecords
    /\ own \in [version : Nat, official : BOOLEAN]

\* Only official builds check, and a check under way has no outcome.
CheckIsOk == check.pc # "idle" => own.official /\ check.outcome = "none"

DiscoveryInv == PublicationInv /\ DiscoveryTypeOK /\ CheckIsOk /\ OfferInv

\* A check that has not begun is one of the records.
LEMMA NoCheckIsCheck ==
    NoCheck \in CheckRecords /\ NoCheck.pc = "idle" /\ NoCheck.outcome = "none"
BY DEF NoCheck, CheckRecords

\* The invariant holds initially.
LEMMA DiscoveryStarts == Init => DiscoveryInv
<1> SUFFICES ASSUME Init PROVE DiscoveryInv
  OBVIOUS
<1>1. PublicationInv
  BY PublicationStarts DEF Init
<1>2. latest \in Runs \cup {"none"} /\ check \in CheckRecords
  BY NoCheckIsCheck DEF Init, PublicationInit
<1>3. own \in [version : Nat, official : BOOLEAN]
  <2>1. CASE own \in [version : Versions, official : {TRUE}]
    BY <2>1, VersionsAssumption
  <2>2. CASE own \in [version : {0}, official : {FALSE}]
    <3>1. own = [version |-> 0, official |-> FALSE]
      BY <2>2
    <3> QED
      BY <3>1
  <2> QED
    BY <2>1, <2>2 DEF Init
<1>4. CheckIsOk /\ OfferInv
  BY NoCheckIsCheck DEF Init, CheckIsOk, OfferInv
<1> QED
  BY <1>1, <1>2, <1>3, <1>4 DEF DiscoveryInv, DiscoveryTypeOK

\* A step of the check alone that offers nothing.
LEMMA CheckSteps ==
    ASSUME DiscoveryInv, NEW x \in CheckRecords, check' = x, x.outcome # "offer",
           x.pc # "idle" => own.official /\ x.outcome = "none",
           UNCHANGED <<publicationVars, own>>
    PROVE  DiscoveryInv'
<1>1. PublicationInv'
  BY DEF DiscoveryInv, PublicationInv, PublicationTypeOK, TagIsOwn, publicationVars
<1>2. DiscoveryTypeOK'
  BY DEF DiscoveryInv, DiscoveryTypeOK, publicationVars
<1> QED
  BY <1>1, <1>2 DEF DiscoveryInv, CheckIsOk, OfferInv

\* A check that ends without an offer.
LEMMA CheckReturns ==
    ASSUME DiscoveryInv, NEW o \in {"current", "network"}, Returns(o, "none"),
           UNCHANGED <<publicationVars, own>>
    PROVE  DiscoveryInv'
<1> DEFINE x == [check EXCEPT !.pc = "idle", !.outcome = o, !.offer = "none",
                              !.tag = 0, !.json = "none"]
<1>1. x \in CheckRecords /\ x.pc = "idle" /\ x.outcome = o
  BY DEF DiscoveryInv, DiscoveryTypeOK, CheckRecords
<1> QED
  BY <1>1, CheckSteps DEF Returns

\* A pair that cannot be verified.
LEMMA CheckMismatch ==
    ASSUME DiscoveryInv, NEW n \in Nat, Mismatch(n), check.pc # "idle",
           UNCHANGED <<publicationVars, own>>
    PROVE  DiscoveryInv'
<1>t. check \in CheckRecords /\ own.official /\ check.outcome = "none"
  BY DEF DiscoveryInv, DiscoveryTypeOK, CheckIsOk
<1> DEFINE m == check.spoilt + n
           x == [check EXCEPT !.pc = "locator", !.attempt = 1, !.tag = 0, !.json = "none",
                              !.spoilt = m]
           y == [check EXCEPT !.pc = "idle", !.outcome = "security", !.tag = 0,
                              !.json = "none", !.spoilt = m]
<1>1. m \in Nat
  BY <1>t DEF CheckRecords
<1>2. /\ x \in CheckRecords /\ x.outcome = "none"
      /\ y \in CheckRecords /\ y.outcome = "security" /\ y.pc = "idle"
  <2> HIDE DEF m
  <2> QED
    BY <1>t, <1>1 DEF CheckRecords
<1>3. check' = x \/ check' = y
  BY DEF Mismatch
<1> HIDE DEF x, y
<1> QED
  BY <1>t, <1>2, <1>3, CheckSteps

\* Every step of a client, a workflow and a maintainer keeps it.
LEMMA DiscoveryStep == DiscoveryInv /\ [Next]_vars => DiscoveryInv'
<1> SUFFICES ASSUME DiscoveryInv, [Next]_vars PROVE DiscoveryInv'
  OBVIOUS
<1>t. check \in CheckRecords /\ PublicationInv /\ CheckIsOk /\ OfferInv
      /\ latest \in Runs \cup {"none"} /\ run \in [Runs -> RunRecords]
  BY DEF DiscoveryInv, DiscoveryTypeOK, PublicationInv, PublicationTypeOK
<1>1. CASE UNCHANGED vars
  BY <1>1 DEF DiscoveryInv, PublicationInv, PublicationTypeOK, TagIsOwn, DiscoveryTypeOK,
              CheckIsOk, OfferInv, Fit, vars, publicationVars
<1>2. CASE CheckForUpdate
  <2> DEFINE x == [NoCheck EXCEPT !.outcome = "current"]
             y == [NoCheck EXCEPT !.pc = "locator", !.latest = latest, !.calm = TRUE]
  <2>1. /\ x \in CheckRecords /\ x.pc = "idle" /\ x.outcome = "current"
        /\ y \in CheckRecords /\ y.outcome = "none"
    BY <1>t, NoCheckIsCheck DEF CheckRecords
  <2>2. (check' = x \/ (check' = y /\ own.official)) /\ UNCHANGED <<publicationVars, own>>
    BY <1>2 DEF CheckForUpdate
  <2> HIDE DEF x, y
  <2> QED
    BY <2>1, <2>2, CheckSteps
<1>3. CASE NetworkFails
  BY <1>3, CheckReturns DEF NetworkFails
<1>4. CASE ReadLocator
  <2>1. CASE Mismatch(1)
    BY <1>4, <2>1, CheckMismatch DEF ReadLocator
  <2>2. CASE check' = [check EXCEPT !.pc = "json", !.tag = run[latest].tag]
    <3> DEFINE x == [check EXCEPT !.pc = "json", !.tag = run[latest].tag]
    <3>1. latest \in Runs /\ run[latest].tag \in Nat
      BY <1>t, <1>4 DEF ReadLocator, RunRecords
    <3>2. x \in CheckRecords /\ x.outcome = check.outcome
      BY <1>t, <3>1 DEF CheckRecords
    <3>3. check.outcome = "none" /\ own.official /\ UNCHANGED <<publicationVars, own>>
      BY <1>t, <1>4 DEF ReadLocator, CheckIsOk
    <3> QED
      BY <2>2, <3>2, <3>3, CheckSteps
  <2> QED
    BY <1>4, <2>1, <2>2 DEF ReadLocator
<1>5. CASE ReadJson
  <2>1. check.outcome = "none" /\ own.official /\ UNCHANGED <<publicationVars, own>>
    BY <1>t, <1>5 DEF ReadJson, CheckIsOk
  <2>2. ASSUME NEW q \in Runs, check' = [check EXCEPT !.pc = "sig", !.json = q]
        PROVE  DiscoveryInv'
    <3> DEFINE x == [check EXCEPT !.pc = "sig", !.json = q]
    <3>1. x \in CheckRecords /\ x.outcome = check.outcome
      BY <1>t DEF CheckRecords
    <3> QED
      BY <2>1, <2>2, <3>1, CheckSteps
  <2>3. CASE check' = [check EXCEPT !.pc = "sig", !.json = "none", !.spoilt = @ + 1]
    <3> DEFINE m == check.spoilt + 1
               x == [check EXCEPT !.pc = "sig", !.json = "none", !.spoilt = m]
    <3>1. m \in Nat
      BY <1>t DEF CheckRecords
    <3>2. x \in CheckRecords /\ x.outcome = check.outcome
      <4> HIDE DEF m
      <4> QED
        BY <1>t, <3>1 DEF CheckRecords
    <3> QED
      BY <2>1, <2>3, <3>2, CheckSteps
  <2> QED
    BY <1>5, <2>2, <2>3 DEF ReadJson, Served, OfTag
<1>6. CASE ReadSignature
  <2>1. own.official /\ UNCHANGED <<publicationVars, own>> /\ check.pc # "idle"
    BY <1>t, <1>6 DEF ReadSignature, CheckIsOk
  <2>2. ASSUME NEW q \in Served(check.tag, 2), Newer(run[q].tag), Returns("offer", q)
        PROVE  DiscoveryInv'
    <3>1. q \in Runs /\ run[q].release = "published"
      BY DEF Served, OfTag
    <3>2. Fit(q) /\ run[q].pc \in Late
      BY <1>t, <3>1 DEF PublicationInv, RunIsOk, Fit
    <3> DEFINE x == [check EXCEPT !.pc = "idle", !.outcome = "offer", !.offer = q,
                                  !.tag = 0, !.json = "none"]
    <3>3. x \in CheckRecords /\ x.pc = "idle" /\ x.offer = q
      BY <1>t, <3>1 DEF CheckRecords
    <3>4. check' = x
      BY <2>2 DEF Returns
    <3> HIDE DEF x
    <3>5. OfferInv'
      BY <2>1, <2>2, <3>1, <3>2, <3>3, <3>4 DEF OfferInv, Newer, Fit, publicationVars
    <3>6. PublicationInv' /\ DiscoveryTypeOK' /\ CheckIsOk'
      BY <2>1, <3>3, <3>4 DEF DiscoveryInv, PublicationInv, PublicationTypeOK, TagIsOwn,
                             DiscoveryTypeOK, CheckIsOk, publicationVars
    <3> QED
      BY <3>5, <3>6 DEF DiscoveryInv
  <2>3. CASE Returns("current", "none")
    BY <2>1, <2>3, CheckReturns
  <2>4. CASE Mismatch(0) \/ Mismatch(1)
    BY <2>1, <2>4, CheckMismatch
  <2> QED
    BY <1>6, <2>2, <2>3, <2>4 DEF ReadSignature
<1>7. CASE Publishes
  <2>1. PublicationInv' /\ own' = own
    BY <1>t, <1>7, PublicationStep DEF Publishes
  <2>2. latest' \in Runs \cup {"none"}
    <3>1. PICK r \in Runs :
             \/ Workflow(r) \/ Delete(r)
             \/ \E v, s \in Versions, ancestor \in BOOLEAN : Push(r, v, s, ancestor)
      BY <1>7 DEF Publishes, Publication
    <3>2. CASE Publish(r)
      BY <1>t, <3>2 DEF Publish, OfTag
    <3>3. CASE Delete(r)
      BY <1>t, <3>3 DEF Delete
    <3>4. CASE ~Publish(r) /\ ~Delete(r)
      BY <1>t, <3>1, <3>4 DEF Workflow, Gate, Build, Audit, Sign, CheckExisting, CreateDraft,
                             Upload, VerifyAssets, JobDies, Push
    <3> QED
      BY <3>2, <3>3, <3>4
  <2> DEFINE calm == check.calm /\ check.pc # "idle" /\ latest' = latest
                       /\ \A q \in Runs : (run'[q].release = "published") = Published(q)
             x == [check EXCEPT !.calm = calm]
  <2>3. x \in CheckRecords /\ x.pc = check.pc /\ x.outcome = check.outcome /\ x.offer = check.offer
    <3>1. calm \in BOOLEAN
      OBVIOUS
    <3> HIDE DEF calm
    <3> QED
      BY <1>t, <3>1 DEF CheckRecords
  <2>4. check' = x
    BY <1>7 DEF Publishes
  <2> HIDE DEF x
  <2>5. OfferInv'
    <3> SUFFICES ASSUME check.outcome = "offer"
                 PROVE  /\ check.offer \in Runs /\ run'[check.offer].pc \in Late
                        /\ Fit(check.offer)' /\ own.official
                        /\ run'[check.offer].tag > own.version
      BY <2>1, <2>3, <2>4 DEF OfferInv, Fit
    <3>1. check.offer \in Runs /\ run[check.offer].pc \in Late /\ Fit(check.offer)
          /\ own.official /\ run[check.offer].tag > own.version
      BY <1>t DEF OfferInv
    <3>2. check'.offer = check.offer
      BY <2>3, <2>4
    <3>3. \A q \in Runs : run[q].pc \in Late /\ Fit(q) =>
            run'[q].pc \in Late /\ Fit(q)' /\ run'[q].tag = run[q].tag
      BY <1>t, <1>7, FitStays DEF Publishes
    <3> QED
      BY <3>1, <3>2, <3>3 DEF Fit
  <2> QED
    BY <1>t, <2>1, <2>2, <2>3, <2>4, <2>5 DEF DiscoveryInv, DiscoveryTypeOK, CheckIsOk
<1> QED
  BY <1>1, <1>2, <1>3, <1>4, <1>5, <1>6, <1>7 DEF Next, Client

\* Types of the workflow runs, of what they publish and of the check.
THEOREM DiscoveryIsTyped == Spec => [](PublicationTypeOK /\ DiscoveryTypeOK)
<1>1. DiscoveryInv => PublicationTypeOK /\ DiscoveryTypeOK
  BY DEF DiscoveryInv, PublicationInv
<1> QED
  BY <1>1, DiscoveryStarts, DiscoveryStep, PTL DEF Spec

\* release.yml and release_build.py: whatever jobs die and releases are
\* deleted, a published release is gated, audited and signed, and it is
\* alone and complete unless two runs of one tag have met.
THEOREM OnlyWholeIsPublished == Spec => []PublishedIsWhole
<1>1. DiscoveryInv => PublishedIsWhole
  <2> SUFFICES ASSUME DiscoveryInv, NEW r \in Runs, run[r].release = "published"
               PROVE  /\ Fit(r)
                      /\ twice \/ (run[r].assets = Assets /\ ~run[r].bad /\ OfTag(run[r].tag) = {r})
    BY DEF PublishedIsWhole
  <2>1. Fit(r)
    BY DEF DiscoveryInv, PublicationInv, RunIsOk, Fit
  <2>2. ~twice => run[r].assets = Assets /\ ~run[r].bad /\ OfTag(run[r].tag) = {r}
    BY DEF DiscoveryInv, PublicationInv, TagIsOwn, OfTag
  <2> QED
    BY <2>1, <2>2
<1> QED
  BY <1>1, DiscoveryStarts, DiscoveryStep, PTL DEF Spec

\* UpdateService.check: what an official build is offered has passed all of
\* that and is newer than itself, however the releases change meanwhile.
THEOREM OnlyFitIsOffered == Spec => []OfferIsFit
<1>1. DiscoveryInv => OfferIsFit
  BY DEF DiscoveryInv, OfferInv, OfferIsFit
<1> QED
  BY <1>1, DiscoveryStarts, DiscoveryStep, PTL DEF Spec
-------------------------------------------------------------------------------
(* A calm check.                                                           *)

\* The latest release is one that is there for all to read.
LatestIsPublished == latest # "none" => Published(latest)

\* What has been read of the latest release is what it is, unless a file was
\* spoilt; the second attempt is owed to one spoilt file, and a check that has
\* decided nothing to two.
ReadsAreTrue(L) ==
    /\ check.attempt = 1 => check.spoilt >= 1
    /\ check.pc \in {"json", "sig"} => check.tag = run[L].tag
    /\ check.pc = "sig" => check.json = L \/ check.spoilt > check.attempt
    /\ check.pc = "idle" =>
          \/ check.outcome = "network" \/ check.spoilt >= 2
          \/ run[L].tag > own.version /\ check.outcome = "offer" /\ check.offer = L
          \/ ~(run[L].tag > own.version) /\ check.outcome = "current"

CalmInv ==
    /\ LatestIsPublished
    /\ check.calm =>
          /\ check.latest = latest
          /\ ~twice /\ latest # "none" => ReadsAreTrue(latest)


\* No release is there before the first run, and no check.
LEMMA CalmStarts == Init => CalmInv
BY NoCheckIsCheck DEF Init, PublicationInit, CalmInv, LatestIsPublished, NoCheck

\* That two runs have met is not forgotten.
LEMMA MetStays == ASSUME Publication, ~twice' PROVE ~twice
BY DEF Publication, Workflow, Gate, Build, Audit, Sign, CheckExisting, CreateDraft, Upload,
       VerifyAssets, Publish, JobDies, Delete, Push

\* Publishing and deleting move releases/latest to a published release; the
\* other steps leave the published releases alone.
LEMMA LatestStep ==
    ASSUME DiscoveryInv, LatestIsPublished, Publication PROVE LatestIsPublished'
<1>t. run \in [Runs -> RunRecords] /\ latest \in Runs \cup {"none"}
      /\ \A q \in Runs : run[q] \in RunRecords /\ RunIsOk(run[q])
  BY DEF DiscoveryInv, DiscoveryTypeOK, PublicationInv, PublicationTypeOK
<1>1. PICK r \in Runs :
         \/ Workflow(r) \/ Delete(r)
         \/ \E v, s \in Versions, ancestor \in BOOLEAN : Push(r, v, s, ancestor)
  BY DEF Publication
<1>2. ASSUME latest' = latest,
             \A q \in Runs : run[q].release = "published" => run'[q].release = "published"
      PROVE  LatestIsPublished'
  BY <1>t, <1>2 DEF LatestIsPublished, Published
<1>3. ASSUME NEW pc, Goes(r, pc), latest' = latest PROVE LatestIsPublished'
  BY <1>t, <1>2, <1>3 DEF Goes, RunRecords
<1>4. ASSUME Fails(r), latest' = latest PROVE LatestIsPublished'
  BY <1>3, <1>4 DEF Fails
<1>5. CASE Gate(r) \/ Audit(r) \/ CheckExisting(r) \/ VerifyAssets(r) \/ JobDies(r)
  BY <1>3, <1>4, <1>5 DEF Gate, Audit, CheckExisting, VerifyAssets, JobDies
<1>6. CASE Build(r) \/ Sign(r)
  <2>1. run[r].release # "published"
    BY <1>t, <1>6 DEF Build, Sign, RunIsOk, Late
  <2>2. \A q \in Runs \ {r} : run'[q] = run[q]
    BY <1>t, <1>6 DEF Build, Sign, Fails, Goes
  <2> QED
    BY <1>2, <1>6, <2>1, <2>2 DEF Build, Sign
<1>7. CASE CreateDraft(r)
  <2>1. run[r].release # "published"
    BY <1>t, <1>7 DEF CreateDraft, RunIsOk, Late
  <2>2. \A q \in Runs \ {r} : run'[q] = run[q]
    BY <1>t, <1>7 DEF CreateDraft
  <2> QED
    BY <1>2, <1>7, <2>1, <2>2 DEF CreateDraft
<1>8. CASE Upload(r)
  <2>1. run[r].release # "published"
    BY <1>8 DEF Upload
  <2>2. \A q \in Runs \ {r} : run'[q] = run[q]
    BY <1>t, <1>8 DEF Upload
  <2> QED
    BY <1>2, <1>8, <2>1, <2>2 DEF Upload
<1>9. CASE Publish(r)
  <2>1. CASE OfTag(run[r].tag) = {}
    BY <1>4, <1>9, <2>1 DEF Publish
  <2>2. CASE OfTag(run[r].tag) # {}
    <3>1. PICK q \in OfTag(run[r].tag) :
            latest' = q
            /\ run' = [[run EXCEPT ![r].pc = "done"] EXCEPT ![q].release = "published"]
      BY <1>9, <2>2 DEF Publish
    <3> DEFINE mid == [run EXCEPT ![r].pc = "done"]
    <3>2. mid \in [Runs -> RunRecords]
      <4>1. "done" \in Pcs
        BY DEF Pcs
      <4> QED
        BY <1>t, <4>1 DEF RunRecords
    <3>3. q \in Runs /\ run' = [mid EXCEPT ![q].release = "published"]
      BY <3>1 DEF OfTag
    <3> HIDE DEF mid
    <3>4. run'[q].release = "published"
      BY <3>2, <3>3 DEF RunRecords
    <3> QED
      BY <3>1, <3>4 DEF LatestIsPublished, Published
  <2> QED
    BY <2>1, <2>2
<1>10. CASE Delete(r)
  <2>1. \A q \in Runs \ {r} : run'[q] = run[q]
    BY <1>t, <1>10 DEF Delete
  <2>2. CASE latest # r
    BY <1>t, <1>10, <2>1, <2>2 DEF Delete, LatestIsPublished, Published
  <2>3. CASE latest = r
    <3> DEFINE others == {o \in Runs \ {r} : run[o].release = "published"}
    <3>1. latest' = "none" \/ latest' \in others
      BY <1>10, <2>3 DEF Delete
    <3> QED
      BY <2>1, <3>1 DEF LatestIsPublished, Published
  <2> QED
    BY <2>2, <2>3
<1>11. CASE \E v, s \in Versions, ancestor \in BOOLEAN : Push(r, v, s, ancestor)
  <2>1. run[r].release # "published"
    BY <1>t, <1>11 DEF Push, RunIsOk, Late
  <2>2. \A q \in Runs \ {r} : run'[q] = run[q]
    BY <1>t, <1>11 DEF Push
  <2> QED
    BY <1>2, <1>11, <2>1, <2>2 DEF Push
<1> QED
  BY <1>1, <1>5, <1>6, <1>7, <1>8, <1>9, <1>10, <1>11 DEF Workflow

\* The latest release, unless two runs have met, is alone, whole and signed.
LEMMA LatestIsWhole ==
    ASSUME DiscoveryInv, LatestIsPublished, ~twice, latest # "none"
    PROVE  /\ latest \in Runs /\ run[latest].assets = Assets /\ ~run[latest].bad
           /\ run[latest].signed /\ OfTag(run[latest].tag) = {latest}
           /\ run[latest].tag \in Nat
<1>1. latest \in Runs /\ run[latest].release = "published" /\ run[latest] \in RunRecords
  BY DEF DiscoveryInv, DiscoveryTypeOK, LatestIsPublished, Published, PublicationInv,
         PublicationTypeOK
<1>2. run[latest].signed /\ TagIsOwn
  BY <1>1 DEF DiscoveryInv, PublicationInv, RunIsOk
<1>3. OfTag(run[latest].tag) = {latest}
  BY <1>1, <1>2 DEF TagIsOwn, OfTag
<1> QED
  BY <1>1, <1>2, <1>3 DEF TagIsOwn, RunRecords

\* A step of the check alone: what it has read is to be true if it is calm.
LEMMA CalmSteps ==
    ASSUME DiscoveryInv, CalmInv, UNCHANGED <<publicationVars, own>>,
           check'.calm => check'.latest = latest,
           check'.calm /\ ~twice /\ latest # "none" => ReadsAreTrue(latest)'
    PROVE  CalmInv'
BY DEF CalmInv, LatestIsPublished, Published, publicationVars, ReadsAreTrue

\* A pair that cannot be verified is tried again, or was the second one.
LEMMA MismatchReads ==
    ASSUME DiscoveryInv, CalmInv, NEW n \in {0, 1}, Mismatch(n), check.pc # "idle",
           check.calm /\ ~twice /\ latest # "none" => n = 1 \/ check.spoilt > check.attempt,
           UNCHANGED <<publicationVars, own>>
    PROVE  CalmInv'
<1>t. check \in CheckRecords /\ check.attempt \in {0, 1} /\ check.spoilt \in Nat
  BY DEF DiscoveryInv, DiscoveryTypeOK, CheckRecords
<1> DEFINE m == check.spoilt + n
<1>1. m \in Nat
  BY <1>t
<1>2. /\ check'.calm = check.calm /\ check'.latest = check.latest /\ check'.spoilt = m
      /\ \/ check.attempt = 0 /\ check'.pc = "locator" /\ check'.attempt = 1
         \/ check.attempt = 1 /\ check'.pc = "idle" /\ check'.attempt = 1
  <2>1. CASE check.attempt = 0
    <3>1. check' = [check EXCEPT !.pc = "locator", !.attempt = 1, !.tag = 0,
                                !.json = "none", !.spoilt = m]
      BY <2>1 DEF Mismatch, Retries
    <3> HIDE DEF m
    <3> QED
      BY <1>t, <2>1, <3>1 DEF CheckRecords
  <2>2. CASE check.attempt = 1
    <3>1. check' = [check EXCEPT !.pc = "idle", !.outcome = "security", !.tag = 0,
                                !.json = "none", !.spoilt = m]
      BY <2>2 DEF Mismatch, Retries
    <3> HIDE DEF m
    <3> QED
      BY <1>t, <2>2, <3>1 DEF CheckRecords
  <2> QED
    BY <1>t, <2>1, <2>2
<1>3. ASSUME check'.calm, ~twice, latest # "none" PROVE ReadsAreTrue(latest)'
  <2>1. check.attempt = 1 => check.spoilt >= 1
    BY <1>2, <1>3 DEF CalmInv, ReadsAreTrue
  <2>2. n = 1 \/ check.spoilt > check.attempt
    BY <1>2, <1>3
  <2>3. m >= 1
    BY <1>t, <2>2
  <2>4. check.attempt = 1 => m >= 2
    BY <1>t, <2>1, <2>2
  <2> HIDE DEF m
  <2> QED
    BY <1>2, <2>3, <2>4 DEF ReadsAreTrue
<1> QED
  BY <1>2, <1>3, CalmSteps DEF CalmInv

\* Every step of a client, a workflow and a maintainer keeps a calm check true.
LEMMA CalmStep == DiscoveryInv /\ CalmInv /\ [Next]_vars => CalmInv'
<1> SUFFICES ASSUME DiscoveryInv, CalmInv, [Next]_vars PROVE CalmInv'
  OBVIOUS
<1>t. /\ check \in CheckRecords /\ check.attempt \in {0, 1} /\ check.spoilt \in Nat
      /\ latest \in Runs \cup {"none"} /\ run \in [Runs -> RunRecords] /\ LatestIsPublished
      /\ CheckIsOk /\ twice \in BOOLEAN
  BY DEF DiscoveryInv, DiscoveryTypeOK, CheckRecords, PublicationInv, PublicationTypeOK, CalmInv
<1>1. CASE UNCHANGED vars
  BY <1>1 DEF vars, publicationVars, CalmInv, LatestIsPublished, Published, ReadsAreTrue
<1>2. CASE CheckForUpdate
  <2> DEFINE x == [NoCheck EXCEPT !.outcome = "current"]
             y == [NoCheck EXCEPT !.pc = "locator", !.latest = latest, !.calm = TRUE]
  <2>1. /\ ~x.calm
        /\ y.pc = "locator" /\ y.latest = latest /\ y.attempt = 0
    BY DEF NoCheck
  <2>2. (check' = x \/ check' = y) /\ UNCHANGED <<publicationVars, own>>
    BY <1>2 DEF CheckForUpdate
  <2> HIDE DEF x, y
  <2> QED
    BY <2>1, <2>2, CalmSteps DEF ReadsAreTrue
<1>3. CASE NetworkFails
  <2>1. /\ check'.pc = "idle" /\ check'.outcome = "network" /\ check'.calm = check.calm
        /\ check'.latest = check.latest /\ check'.attempt = check.attempt
        /\ check'.spoilt = check.spoilt /\ UNCHANGED <<publicationVars, own>>
    BY <1>t, <1>3 DEF NetworkFails, Returns, CheckRecords
  <2> QED
    BY <2>1, CalmSteps DEF CalmInv, ReadsAreTrue
<1>4. CASE ReadLocator
  <2>1. UNCHANGED <<publicationVars, own>> /\ check.pc # "idle"
    BY <1>4 DEF ReadLocator
  <2>2. CASE Mismatch(1)
    BY <2>1, <2>2, MismatchReads
  <2>3. CASE check' = [check EXCEPT !.pc = "json", !.tag = run[latest].tag]
    <3>1. /\ check'.pc = "json" /\ check'.tag = run[latest].tag /\ check'.calm = check.calm
          /\ check'.latest = check.latest /\ check'.attempt = check.attempt
          /\ check'.spoilt = check.spoilt
      BY <1>t, <2>3 DEF CheckRecords
    <3> QED
      BY <2>1, <3>1, CalmSteps DEF CalmInv, ReadsAreTrue, publicationVars
  <2> QED
    BY <1>4, <2>2, <2>3 DEF ReadLocator
<1>5. CASE ReadJson
  <2>1. UNCHANGED <<publicationVars, own>> /\ check.pc = "json"
    BY <1>5 DEF ReadJson
  <2>2. ASSUME NEW q \in Served(check.tag, 1), check' = [check EXCEPT !.pc = "sig", !.json = q]
        PROVE  CalmInv'
    <3>1. /\ check'.pc = "sig" /\ check'.json = q /\ check'.calm = check.calm
          /\ check'.latest = check.latest /\ check'.attempt = check.attempt
          /\ check'.spoilt = check.spoilt /\ check'.tag = check.tag
      BY <1>t, <2>2 DEF CheckRecords
    <3>2. ASSUME check'.calm, ~twice, latest # "none" PROVE ReadsAreTrue(latest)'
      <4>1. ReadsAreTrue(latest)
        BY <3>1, <3>2 DEF CalmInv
      <4>2. q = latest
        BY <1>t, <2>1, <3>2, <4>1, LatestIsWhole DEF ReadsAreTrue, Served
      <4> QED
        BY <2>1, <3>1, <4>1, <4>2 DEF ReadsAreTrue, publicationVars
    <3> QED
      BY <2>1, <3>1, <3>2, CalmSteps DEF CalmInv
  <2>3. CASE check' = [check EXCEPT !.pc = "sig", !.json = "none", !.spoilt = @ + 1]
    <3> DEFINE m == check.spoilt + 1
    <3>1. check' = [check EXCEPT !.pc = "sig", !.json = "none", !.spoilt = m]
      BY <2>3
    <3>m. m \in Nat /\ (check.attempt = 1 /\ check.spoilt >= 1 => m > 1) /\ m > 0 /\ m >= 1
      BY <1>t
    <3> HIDE DEF m
    <3>2. /\ check'.pc = "sig" /\ check'.calm = check.calm
          /\ check'.latest = check.latest /\ check'.attempt = check.attempt
          /\ check'.spoilt = m /\ check'.tag = check.tag
      BY <1>t, <3>1 DEF CheckRecords
    <3>3. ASSUME check'.calm, ~twice, latest # "none" PROVE ReadsAreTrue(latest)'
      <4>1. ReadsAreTrue(latest)
        BY <3>2, <3>3 DEF CalmInv
      <4>2. check.attempt = 1 => check.spoilt >= 1
        BY <4>1 DEF ReadsAreTrue
      <4>3. m > check.attempt
        BY <1>t, <3>m, <4>2
      <4>4. check'.tag = run'[latest'].tag
        BY <2>1, <3>2, <4>1 DEF ReadsAreTrue, publicationVars
      <4> QED
        BY <3>2, <3>m, <4>3, <4>4 DEF ReadsAreTrue
    <3> QED
      BY <2>1, <3>2, <3>3, CalmSteps DEF CalmInv
  <2> QED
    BY <1>5, <2>2, <2>3 DEF ReadJson
<1>6. CASE ReadSignature
  <2>1. UNCHANGED <<publicationVars, own>> /\ check.pc = "sig"
    BY <1>6 DEF ReadSignature
  <2>2. CASE Mismatch(1)
    BY <2>1, <2>2, MismatchReads
  <2>3. ASSUME NEW q \in Served(check.tag, 2), ~Spoilt(q),
               IF Verified(q)
               THEN IF Newer(run[q].tag) THEN Returns("offer", q) ELSE Returns("current", "none")
               ELSE Mismatch(0)
        PROVE  CalmInv'
    <3>1. ASSUME check.calm, ~twice, latest # "none"
          PROVE  /\ q = latest /\ (Verified(q) <=> check.json = latest)
                 /\ check.json = latest \/ check.spoilt > check.attempt
                 /\ ReadsAreTrue(latest)
      <4>1. ReadsAreTrue(latest)
        BY <3>1 DEF CalmInv
      <4>2. q = latest
        BY <1>t, <2>1, <3>1, <4>1, LatestIsWhole DEF ReadsAreTrue, Served
      <4>3. run[latest].signed /\ run[latest].tag = check.tag
        BY <1>t, <2>1, <3>1, <4>1, LatestIsWhole DEF ReadsAreTrue
      <4> QED
        BY <2>1, <4>1, <4>2, <4>3 DEF ReadsAreTrue, Verified
    <3>2. CASE ~Verified(q)
      BY <2>1, <2>3, <3>1, <3>2, MismatchReads
    <3>3. CASE Verified(q)
      <4>1. /\ check'.pc = "idle" /\ check'.calm = check.calm /\ check'.latest = check.latest
            /\ check'.attempt = check.attempt /\ check'.spoilt = check.spoilt
            /\ \/ Newer(run[q].tag) /\ check'.outcome = "offer" /\ check'.offer = q
               \/ ~Newer(run[q].tag) /\ check'.outcome = "current"
        BY <1>t, <2>3, <3>3 DEF Returns, CheckRecords
      <4>2. ASSUME check'.calm, ~twice, latest # "none" PROVE ReadsAreTrue(latest)'
        <5>1. q = latest /\ ReadsAreTrue(latest)
          BY <3>1, <4>1, <4>2
        <5> QED
          BY <2>1, <4>1, <5>1 DEF ReadsAreTrue, Newer, publicationVars
      <4> QED
        BY <2>1, <4>1, <4>2, CalmSteps DEF CalmInv
    <3> QED
      BY <3>2, <3>3
  <2> QED
    BY <1>6, <2>2, <2>3 DEF ReadSignature
<1>7. CASE Publishes
  <2> DEFINE calm == check.calm /\ check.pc # "idle" /\ latest' = latest
                       /\ \A q \in Runs : (run'[q].release = "published") = Published(q)
             x == [check EXCEPT !.calm = calm]
  <2>1. /\ x.calm = calm /\ x.latest = check.latest /\ x.attempt = check.attempt
        /\ x.spoilt = check.spoilt /\ x.pc = check.pc /\ x.tag = check.tag
        /\ x.json = check.json
    <3>1. calm \in BOOLEAN
      OBVIOUS
    <3> HIDE DEF calm
    <3> QED
      BY <1>t, <3>1 DEF CheckRecords
  <2>2. check' = x /\ Publication
    BY <1>7 DEF Publishes
  <2> HIDE DEF x
  <2>3. LatestIsPublished'
    BY <1>t, <2>2, LatestStep
  <2>4. ASSUME calm, ~twice', latest' # "none" PROVE ReadsAreTrue(latest)'
    <3>1. ~twice /\ latest # "none" /\ latest' = latest /\ check.pc # "idle"
      BY <2>2, <2>4, MetStays
    <3>2. ReadsAreTrue(latest)
      BY <2>4, <3>1 DEF CalmInv
    <3>3. latest \in Runs /\ run[latest].pc \in Late /\ Fit(latest) /\ PublicationInv
      BY <1>t, <3>1 DEF LatestIsPublished, Published, DiscoveryInv, PublicationInv, RunIsOk, Fit
    <3>4. run'[latest].tag = run[latest].tag
      BY <2>2, <3>3, FitStays
    <3> HIDE DEF calm
    <3> QED
      BY <2>1, <2>2, <3>1, <3>2, <3>4 DEF ReadsAreTrue
  <2>5. calm => x.latest = latest'
    BY <2>1 DEF CalmInv
  <2> HIDE DEF calm
  <2> QED
    BY <2>1, <2>2, <2>3, <2>4, <2>5 DEF CalmInv
<1> QED
  BY <1>1, <1>2, <1>3, <1>4, <1>5, <1>6, <1>7 DEF Next, Client

\* UpdateService.check with its one retry: when no release comes or goes during
\* a check and one file at most is spoilt, an official build is told of exactly
\* the latest release, or that it is that new itself.
THEOREM CalmCheckTellsLatest == Spec => []CalmCheckDecides
<1>1. DiscoveryInv /\ CalmInv => CalmCheckDecides
  <2> SUFFICES ASSUME DiscoveryInv, CalmInv, check.pc = "idle", check.calm, check.spoilt <= 1,
                      ~twice, check.latest # "none", check.outcome # "network"
               PROVE  IF run[check.latest].tag > own.version
                      THEN check.outcome = "offer" /\ check.offer = check.latest
                      ELSE check.outcome = "current"
    BY DEF CalmCheckDecides
  <2>1. check.latest = latest /\ ReadsAreTrue(latest)
    BY DEF CalmInv
  <2>2. check.spoilt \in Nat
    BY DEF DiscoveryInv, DiscoveryTypeOK, CheckRecords
  <2>3. ~(check.spoilt >= 2)
    BY <2>2
  <2> QED
    BY <2>1, <2>3 DEF ReadsAreTrue
<1> QED
  BY <1>1, DiscoveryStarts, DiscoveryStep, CalmStarts, CalmStep, PTL DEF Spec
===============================================================================
