------------------------------ MODULE UpdateCache ------------------------------
(***************************************************************************)
(* UpdateService.download: the installer of one version is put into a      *)
(* directory that every running instance of the tool shares.  Each writes  *)
(* a part file of its own, checks it and moves it to the common name.  The *)
(* user may cancel, and the network may fail, truncate or corrupt what it  *)
(* sends.                                                                  *)
(***************************************************************************)
EXTENDS Naturals

CONSTANTS
    Downloaders,  \* instances of the tool that may download
    Size          \* chunks of the installer as its signed metadata gives them

ASSUME CacheAssumption == Size \in Nat \ {0}

VARIABLES
    target,     \* the file under the installer's name
    locked,     \* it is being executed, so Windows lets nobody remove it
    at,         \* where each instance's download() is
    part,       \* what its part file holds: chunks, and whether genuine
    cancelled,  \* its cancel event
    outcome     \* what its last download() ended with

cacheVars == <<target, locked, at, part, cancelled, outcome>>

Empty == [written |-> 0, genuine |-> TRUE]

CacheInit ==
    /\ target \in {"absent", "good", "bad"} /\ locked = FALSE
    /\ at = [d \in Downloaders |-> "idle"]
    /\ part = [d \in Downloaders |-> Empty]
    /\ cancelled = [d \in Downloaders |-> FALSE]
    /\ outcome = [d \in Downloaders |-> "none"]

Goes(d, place) == at' = [at EXCEPT ![d] = place]
Ends(d, what)  == Goes(d, "idle") /\ outcome' = [outcome EXCEPT ![d] = what]

Begin(d) ==
    /\ at[d] = "idle"
    /\ Goes(d, "look")
    /\ cancelled' = [cancelled EXCEPT ![d] = FALSE]
    /\ outcome' = [outcome EXCEPT ![d] = "none"]
    /\ UNCHANGED <<target, locked, part>>

\* What is there is used again only if it is what the metadata says; a mutant:
\* it is used as it is.
ReusableUnchecked == target # "absent"
Reusable          == target = "good"

\* A right one that cannot be read counts as wrong.
Look(d) ==
    /\ at[d] = "look"
    /\ \/ Reusable /\ Ends(d, "path")
       \/ Reusable /\ Goes(d, "unread") /\ UNCHANGED outcome
       \/ ~Reusable /\ Goes(d, IF target = "absent" THEN "create" ELSE "discard")
                    /\ UNCHANGED outcome
    /\ UNCHANGED <<target, locked, part, cancelled>>

\* The file removed may be another than the one that was looked at.
Discard(d) ==
    /\ at[d] \in {"discard", "unread"}
    /\ IF locked
       THEN Ends(d, "error") /\ UNCHANGED target
       ELSE Goes(d, "create") /\ target' = "absent" /\ UNCHANGED outcome
    /\ UNCHANGED <<locked, part, cancelled>>

Create(d) ==
    /\ at[d] = "create"
    /\ Goes(d, IF cancelled[d] THEN "failing" ELSE "reading")
    /\ part' = [part EXCEPT ![d] = Empty]
    /\ UNCHANGED <<target, locked, cancelled, outcome>>

\* iter_bytes lets no more than the declared size through.
Fits(d) == part[d].written < Size

\* One chunk.
Read(d, genuine) ==
    /\ at[d] = "reading" /\ Fits(d)
    /\ IF cancelled[d]
       THEN Goes(d, "failing") /\ UNCHANGED part
       ELSE /\ part' = [part EXCEPT ![d] = [written |-> @.written + 1,
                                            genuine |-> @.genuine /\ genuine]]
            /\ UNCHANGED at
    /\ UNCHANGED <<target, locked, cancelled, outcome>>

Whole(d) == part[d].written = Size /\ part[d].genuine

\* The connection is at its end: a last look at the event, then the checks.
EndOfStream(d) ==
    /\ at[d] = "reading"
    /\ Goes(d, IF ~cancelled[d] /\ Whole(d) THEN "place" ELSE "failing")
    /\ UNCHANGED <<target, locked, part, cancelled, outcome>>

ReadFails(d) ==
    /\ at[d] \in {"create", "reading"}
    /\ Goes(d, "failing")
    /\ UNCHANGED <<target, locked, part, cancelled, outcome>>

Place(d) ==
    /\ at[d] = "place"
    /\ IF locked
       THEN Goes(d, "failing") /\ UNCHANGED <<target, outcome>>
       ELSE Ends(d, "path") /\ target' = IF Whole(d) THEN "good" ELSE "bad"
    /\ part' = [part EXCEPT ![d] = IF locked THEN @ ELSE Empty]
    /\ UNCHANGED <<locked, cancelled>>

\* except BaseException: the part file goes, and whatever has the common name.
CleanUp(d) ==
    /\ at[d] = "failing"
    /\ part' = [part EXCEPT ![d] = Empty]
    /\ target' = IF locked THEN target ELSE "absent"
    /\ Ends(d, "error")
    /\ UNCHANGED <<locked, cancelled>>

Download(d) ==
    \/ Look(d) \/ Discard(d) \/ Create(d) \/ EndOfStream(d) \/ ReadFails(d)
    \/ (\E genuine \in BOOLEAN : Read(d, genuine)) \/ Place(d) \/ CleanUp(d)

SetCancel(d) ==
    /\ cancelled' = [cancelled EXCEPT ![d] = TRUE]
    /\ UNCHANGED <<target, locked, at, part, outcome>>

-------------------------------------------------------------------------------

CacheTypeOK ==
    /\ target \in {"absent", "good", "bad"} /\ locked \in BOOLEAN
    /\ at \in [Downloaders -> {"idle", "look", "discard", "unread", "create",
                               "reading", "place", "failing"}]
    /\ part \in [Downloaders -> [written : 0..Size, genuine : BOOLEAN]]
    /\ cancelled \in [Downloaders -> BOOLEAN]
    /\ outcome \in [Downloaders -> {"none", "path", "error"}]
===============================================================================
