----------------------------- MODULE ArtifactStore -----------------------------
(***************************************************************************)
(* The content-addressed store of inspected and signed artifacts.  Several *)
(* processes put and load at once; the source file of a put can be edited  *)
(* while it runs, and an entry can be damaged on the disk.  A content      *)
(* stands for the bytes of a file and for its identifier; the suffix of    *)
(* the file is part of the metadata and not of the identifier.             *)
(***************************************************************************)
EXTENDS FileUsers

CONSTANTS
    Contents,    \* contents of a source file
    Extensions,  \* file name suffixes that are parsed alike
    MaxEdits     \* bound on edits of source files and damages of entries

\* An identifier is a hash.
ASSUME NoneIsNoContent == "none" \notin Contents

Kinds == {"inspected", "signed"}

VARIABLES
    kind,      \* the kind of artifact: each has a directory of its own
    source,    \* each user's source file
    entry,     \* the entry of each identifier
    job,       \* what each user does
    harmed,    \* history: the entries that were damaged
    edits

storeVars == <<kind, source, entry, job, harmed, edits>>

None  == [of |-> "none", suffix |-> "none", body |-> "none"]
NoJob == [pc |-> "idle", id |-> "none", suffix |-> "none",
          checks |-> 0, got |-> None, edited |-> FALSE, outcome |-> "none"]

StoreInit ==
    /\ source \in [Users -> Contents] /\ edits = 0
    /\ kind \in Kinds /\ entry = [c \in Contents |-> None]
    /\ job = [u \in Users |-> NoJob]
    /\ harmed = {}

Becomes(u, change) == job' = [job EXCEPT ![u] = change]
Entry(u) == entry[job[u].id]

Ends(u, outcome) ==
    Becomes(u, [NoJob EXCEPT !.id = job[u].id,
                             !.edited = job[u].edited, !.outcome = outcome])

\* Looks at the source before it is read for storing: an inspected artifact
\* is checked, inspected again and checked again, a signed one checked once.
Checks == IF kind = "inspected" THEN 3 ELSE 1

\* inspect_artifact, by the caller: the artifact is what the file holds now.
Inspect(u, suffix) ==
    /\ job[u].pc = "idle"
    /\ Becomes(u, [NoJob EXCEPT !.pc = "check", !.suffix = suffix,
                                !.id = source[u], !.checks = Checks])
    /\ UNCHANGED <<kind, source, entry, harmed, edits>>

CheckSource(u) ==
    /\ job[u].pc = "check"
    /\ IF source[u] # job[u].id THEN Ends(u, "failed")
       ELSE Becomes(u, [job[u] EXCEPT !.checks = @ - 1,
                                      !.pc = IF job[u].checks = 1 THEN "read" ELSE "check"])
    /\ UNCHANGED <<kind, source, entry, harmed, edits>>

\* The bytes to store are read once more and not compared again.
ReadSource(u) ==
    /\ job[u].pc = "read"
    /\ Becomes(u, [job[u] EXCEPT !.pc = "rename",
                     !.got = [of |-> job[u].id, suffix |-> job[u].suffix, body |-> source[u]]])
    /\ UNCHANGED <<kind, source, entry, harmed, edits>>

\* _put: the stage becomes the entry, or is compared with the one that is there.
\* A mutant takes any entry that is there for its own.
OutcomeUnlooked(u) == "stored"
Outcome(u) == IF Entry(u) = job[u].got THEN "stored" ELSE "failed"

Rename(u) ==
    /\ job[u].pc = "rename"
    /\ IF Entry(u) = None
       THEN /\ entry' = [entry EXCEPT ![job[u].id] = job[u].got]
            /\ Ends(u, "stored")
       ELSE UNCHANGED entry /\ Ends(u, Outcome(u))
    /\ UNCHANGED <<kind, source, harmed, edits>>

\* Writing the stage fails, the rename fails, or the process dies: nobody
\* reads a stage, so what is left of it does not matter.
PutFails(u) ==
    /\ job[u].pc \in {"read", "rename"} /\ Ends(u, "failed")
    /\ UNCHANGED <<kind, source, entry, harmed, edits>>

\* load: the metadata is read, then the file it names.
LoadMetadata(u, id) ==
    /\ job[u].pc = "idle" /\ entry[id] # None
    /\ Becomes(u, [NoJob EXCEPT !.pc = "load", !.id = id, !.got = entry[id]])
    /\ UNCHANGED <<kind, source, entry, harmed, edits>>

\* The file is inspected again: a signed entry's second file is compared alike.
Reproduces(u) == job[u].got.of = job[u].id /\ Entry(u).body = job[u].got.of

LoadFile(u) ==
    /\ job[u].pc = "load"
    /\ IF Reproduces(u)
       THEN Becomes(u, [job[u] EXCEPT !.pc = "idle", !.outcome = "loaded", !.got = Entry(u)])
       ELSE Ends(u, "failed")
    /\ UNCHANGED <<kind, source, entry, harmed, edits>>

EditSource(u, c) ==
    /\ edits < MaxEdits /\ edits' = edits + 1
    /\ source' = [source EXCEPT ![u] = c]
    /\ Becomes(u, [job[u] EXCEPT !.edited = @ \/ job[u].pc # "idle"])
    /\ UNCHANGED <<kind, entry, harmed>>

Damage(id, c) ==
    /\ edits < MaxEdits /\ edits' = edits + 1
    /\ entry[id] # None
    /\ \/ entry' = [entry EXCEPT ![id].body = c]
       \/ entry' = [entry EXCEPT ![id].of = c]
    /\ harmed' = harmed \cup {id}
    /\ UNCHANGED <<kind, source, job>>

StoreNext ==
    \/ \E u \in Users :
         \/ CheckSource(u) \/ ReadSource(u) \/ Rename(u) \/ PutFails(u) \/ LoadFile(u)
         \/ \E x \in Extensions : Inspect(u, x)
         \/ \E c \in Contents : LoadMetadata(u, c) \/ EditSource(u, c)
    \/ \E id, c \in Contents : Damage(id, c)

\* What is loaded is what was asked for, whatever was stored under its name;
\* and a put that returned, whose source nobody touched meanwhile, has left an
\* entry that loads, although others put the same artifact at the same time.
StoreIsTruthful ==
    \A u \in Users :
        /\ job[u].outcome = "loaded" => job[u].got.body = job[u].id
        /\ job[u].outcome = "stored" /\ ~job[u].edited
           /\ job[u].id \notin harmed
           => Entry(u).of = job[u].id /\ Entry(u).body = job[u].id
===============================================================================
