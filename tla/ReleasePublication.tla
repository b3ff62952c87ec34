-------------------------- MODULE ReleasePublication --------------------------
(***************************************************************************)
(* The release workflow: a pushed tag starts a run whose build job gates,  *)
(* builds and audits, and whose publish job signs, drafts, verifies and    *)
(* publishes.  Several runs may be under way, of one tag as well; any job  *)
(* may die between two steps; maintainers delete releases.                 *)
(***************************************************************************)
EXTENDS Naturals, FiniteSets

CONSTANTS
    Runs,       \* runs of the workflow
    Versions    \* versions, as their rank

ASSUME VersionsAssumption == Versions \subseteq Nat \ {0}

VARIABLES
    run,        \* each run and the release it creates
    latest,     \* the release behind releases/latest, or "none"
    twice       \* history: two runs were at the release of one tag at once

publicationVars == <<run, latest, twice>>

\* An update file and its signature, and the installer they tell of.
Assets == 3

NoRun == [pc |-> "idle", tag |-> 0, source |-> 0, ancestor |-> FALSE, sound |-> FALSE,
          signed |-> FALSE, release |-> "none", assets |-> 0, bad |-> FALSE]

PublicationInit ==
    /\ run = [r \in Runs |-> NoRun] /\ latest = "none" /\ twice = FALSE

Goes(r, pc) == run' = [run EXCEPT ![r].pc = pc]
Fails(r) == Goes(r, "failed")

\* A tag of some version is pushed at a commit whose source has a version.
Push(r, v, s, ancestor) ==
    /\ run[r].pc = "idle"
    /\ run' = [run EXCEPT ![r] = [NoRun EXCEPT !.pc = "pushed", !.tag = v, !.source = s,
                                               !.ancestor = ancestor]]
    /\ UNCHANGED <<latest, twice>>

\* The gate of the workflow and validate_release_git_state ask the same.  A
\* mutant does not ask for the default branch.
GatePassesAnyBranch(r) == run[r].source = run[r].tag
GatePasses(r) == run[r].source = run[r].tag /\ run[r].ancestor

Gate(r) ==
    /\ run[r].pc = "pushed"
    /\ IF GatePasses(r) THEN Goes(r, "gated") ELSE Fails(r)
    /\ UNCHANGED <<latest, twice>>

\* What the build has put together is as pinned and of this identity, or not.
Build(r) ==
    /\ run[r].pc = "gated"
    /\ \E sound \in BOOLEAN : run' = [run EXCEPT ![r].pc = "built", ![r].sound = sound]
    /\ UNCHANGED <<latest, twice>>

Audit(r) ==
    /\ run[r].pc = "built"
    /\ IF run[r].sound THEN Goes(r, "audited") ELSE Fails(r)
    /\ UNCHANGED <<latest, twice>>

\* assert-key stops when the secret is not the key the tool knows.
Sign(r) ==
    /\ run[r].pc = "audited"
    /\ \/ run' = [run EXCEPT ![r].pc = "signed", ![r].signed = TRUE]
       \/ Fails(r)
    /\ UNCHANGED <<latest, twice>>

OfTag(v) == {q \in Runs : run[q].release # "none" /\ run[q].tag = v}
Drafts(v) == {q \in OfTag(v) : run[q].release = "draft"}

AtRelease(v) == {q \in Runs : run[q].tag = v /\ run[q].pc \in {"checked", "draft", "verified"}}

CheckExisting(r) ==
    /\ run[r].pc = "signed"
    /\ IF OfTag(run[r].tag) # {} THEN Fails(r) ELSE Goes(r, "checked")
    /\ UNCHANGED <<latest, twice>>

CreateDraft(r) ==
    /\ run[r].pc = "checked"
    /\ run' = [run EXCEPT ![r].pc = "draft", ![r].release = "draft"]
    /\ twice' = (twice \/ OfTag(run[r].tag) # {} \/ AtRelease(run[r].tag) # {r})
    /\ UNCHANGED latest

Upload(r) ==
    /\ run[r].pc = "draft" /\ run[r].assets < Assets /\ run[r].release = "draft"
    /\ \E bad \in {run[r].bad, TRUE} :
         run' = [run EXCEPT ![r].assets = @ + 1, ![r].bad = bad]
    /\ UNCHANGED <<latest, twice>>

\* A mutant publishes what it has uploaded without comparing it.
DigestsMatchUnread(r) == TRUE
DigestsMatch(r) == ~run[r].bad

\* The draft is found by its tag: it must be there, and be the only one.
VerifyAssets(r) ==
    /\ run[r].pc = "draft" /\ (run[r].assets = Assets \/ run[r].release = "none")
    /\ IF Drafts(run[r].tag) = {r} /\ DigestsMatch(r) THEN Goes(r, "verified") ELSE Fails(r)
    /\ UNCHANGED <<latest, twice>>

\* The release to publish is named by its tag again.
Publish(r) ==
    /\ run[r].pc = "verified"
    /\ IF OfTag(run[r].tag) = {} THEN Fails(r) /\ UNCHANGED latest
       ELSE \E q \in OfTag(run[r].tag) :
              /\ latest' = q
              /\ run' = [[run EXCEPT ![r].pc = "done"] EXCEPT ![q].release = "published"]
    /\ UNCHANGED twice

JobDies(r) ==
    /\ run[r].pc \notin {"idle", "done", "failed"} /\ Fails(r)
    /\ UNCHANGED <<latest, twice>>

\* A maintainer deletes a release; another one becomes the latest.
Delete(q) ==
    /\ run[q].release # "none"
    /\ run' = [run EXCEPT ![q].release = "none"]
    /\ LET others == {o \in Runs \ {q} : run[o].release = "published"} IN
         latest' \in IF latest # q THEN {latest} ELSE IF others = {} THEN {"none"} ELSE others
    /\ UNCHANGED twice

Workflow(r) ==
    \/ Gate(r) \/ Build(r) \/ Audit(r) \/ Sign(r) \/ CheckExisting(r)
    \/ CreateDraft(r) \/ Upload(r) \/ VerifyAssets(r) \/ Publish(r) \/ JobDies(r)

Publication ==
    \E r \in Runs :
        \/ Workflow(r) \/ Delete(r)
        \/ \E v, s \in Versions, ancestor \in BOOLEAN : Push(r, v, s, ancestor)

\* Fit for users: gated, audited and signed.
Fit(r) == run[r].source = run[r].tag /\ run[r].ancestor /\ run[r].sound /\ run[r].signed

\* Every published release is fit; and it is the only one of its tag and has
\* all its assets unharmed, unless two runs of one tag have met.
PublishedIsWhole ==
    \A r \in Runs : run[r].release = "published" =>
        /\ Fit(r)
        /\ twice \/ (run[r].assets = Assets /\ ~run[r].bad /\ OfTag(run[r].tag) = {r})
===============================================================================
