----------------------------- MODULE RuntimeCache -----------------------------
(***************************************************************************)
(* fetch_usb2xxx_runtime: the two vendor libraries are cloned beside the   *)
(* cache directory, verified, copied, verified again and renamed into      *)
(* place.  Several builds share the cache.                                 *)
(***************************************************************************)
EXTENDS FileUsers

CONSTANTS
    MaxHarm     \* bound on what happens to files outside the function

Files == {"USB2XXX.dll", "libusb-1.0.dll"}

VARIABLES
    cache,      \* the cache directory: each file's state, or the directory's
    fetch,      \* what each user does
    harm

runtimeVars == <<cache, fetch, harm>>

\* A file is "good", "bad" or "gone"; a stranger is any other file.
Dir(state) == [there |-> TRUE, stranger |-> FALSE, file |-> [f \in Files |-> state]]
NoDir == [Dir("gone") EXCEPT !.there = FALSE]
NoFetch == [pc |-> "idle", online |-> FALSE, stage |-> NoDir, harmed |-> FALSE, outcome |-> "none"]

RuntimeInit ==
    /\ cache \in {NoDir, Dir("gone"), [Dir("gone") EXCEPT !.stranger = TRUE]}
    /\ fetch = [u \in Users |-> NoFetch] /\ harm = 0

Steps(u, change) == fetch' = [fetch EXCEPT ![u] = change]
Leaves(u, outcome) == Steps(u, [fetch[u] EXCEPT !.pc = "idle", !.outcome = outcome])

FetchRuntime(u, online) ==
    /\ fetch[u].pc = "idle"
    /\ Steps(u, [NoFetch EXCEPT !.pc = "look", !.online = online])
    /\ UNCHANGED <<cache, harm>>

AllGood(dir) == \A f \in Files : dir.file[f] = "good"

\* A mutant is content with the files' presence.
TrustworthyIfThere(dir) == \A f \in Files : dir.file[f] # "gone"
Trustworthy(dir) == AllGood(dir)

\* One of the files is there: both must be, and be right.  Otherwise the
\* directory must be missing or empty.
Look(u) ==
    /\ fetch[u].pc = "look"
    /\ IF \E f \in Files : cache.file[f] # "gone"
       THEN Leaves(u, IF Trustworthy(cache) THEN "ready" ELSE "refused")
       ELSE Steps(u, [fetch[u] EXCEPT !.pc = IF cache.there THEN "clear" ELSE "fetch"])
    /\ UNCHANGED <<cache, harm>>

Empty(dir) == ~dir.stranger /\ \A f \in Files : dir.file[f] = "gone"

ClearDirectory(u) ==
    /\ fetch[u].pc = "clear"
    /\ IF cache.there /\ Empty(cache)
       THEN cache' = NoDir /\ Steps(u, [fetch[u] EXCEPT !.pc = "fetch"])
       ELSE UNCHANGED cache /\ Leaves(u, "refused")
    /\ UNCHANGED harm

\* Clone, check out, verify and copy; any of them may fail, and the commit
\* that is checked out is compared with the one that is pinned.
CloneAndCopy(u) ==
    /\ fetch[u].pc = "fetch"
    /\ \/ Leaves(u, "refused")
       \/ /\ fetch[u].online
          /\ \E state \in [Files -> {"good", "bad"}] :
               Steps(u, [fetch[u] EXCEPT !.pc = "verify", !.stage = [Dir("gone") EXCEPT !.file = state]])
    /\ UNCHANGED <<cache, harm>>

VerifyStage(u) ==
    /\ fetch[u].pc = "verify"
    /\ IF Trustworthy(fetch[u].stage) THEN Steps(u, [fetch[u] EXCEPT !.pc = "place"])
       ELSE Leaves(u, "refused")
    /\ UNCHANGED <<cache, harm>>

\* The rename fails when another build was faster, or like any file operation.
Place(u) ==
    /\ fetch[u].pc = "place"
    /\ \/ ~cache.there /\ cache' = fetch[u].stage /\ Leaves(u, "ready")
       \/ UNCHANGED cache /\ Leaves(u, "refused")
    /\ UNCHANGED harm

\* The process dies: its temporary directory is nobody else's.
FetchDies(u) ==
    /\ fetch[u].pc # "idle" /\ Leaves(u, "died") /\ UNCHANGED <<cache, harm>>

\* A virus scanner removes a file, a disk spoils one, someone adds one.
Harm ==
    /\ harm < MaxHarm /\ harm' = harm + 1 /\ cache.there
    /\ \/ \E f \in Files, s \in {"bad", "gone"} :
            cache.file[f] # "gone" /\ cache' = [cache EXCEPT !.file[f] = s]
       \/ cache' = [cache EXCEPT !.stranger = TRUE]
    /\ fetch' = [u \in Users |-> [fetch[u] EXCEPT !.harmed = TRUE]]

RuntimeNext ==
    \/ Harm
    \/ \E u \in Users :
         \/ \E online \in BOOLEAN : FetchRuntime(u, online)
         \/ Look(u) \/ ClearDirectory(u) \/ CloneAndCopy(u) \/ VerifyStage(u)
         \/ Place(u) \/ FetchDies(u)

\* A fetch that returned leaves both pinned libraries in the cache, whatever
\* other builds do; and the cache never holds one without the other, or a
\* wrong one, unless something outside the function changed it.
RuntimeIsVerified ==
    /\ \A u \in Users : fetch[u].outcome = "ready" /\ ~fetch[u].harmed => AllGood(cache)
    /\ harm = 0 => AllGood(cache) \/ \A f \in Files : cache.file[f] = "gone"
===============================================================================
