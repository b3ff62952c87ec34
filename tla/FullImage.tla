------------------------------ MODULE FullImage ------------------------------
(***************************************************************************)
(* compose_full_image: one image written as full_image.hex and as          *)
(* full_image.s19 in a directory that may hold an older pair, and that     *)
(* several processes may use.  An image is named by the user who composes  *)
(* it.                                                                     *)
(***************************************************************************)
EXTENDS FileUsers

VARIABLES
    file,      \* file["hex"] and file["s19"]: the image in it, or "none"
    work,      \* what each user does
    excuse     \* history: the pair may be mixed

imageVars == <<file, work, excuse>>

Formats == {"hex", "s19"}
NoWork == [pc |-> "idle", hashes |-> [f \in Formats |-> "none"], alone |-> FALSE,
           outcome |-> "none"]

ImageInit ==
    /\ file \in [Formats -> {"none", "old"}] /\ file["hex"] = file["s19"]
    /\ work = [u \in Users |-> NoWork] /\ excuse = FALSE

Busy(u) == work[u].pc # "idle"
Turns(u, change) == work' = [work EXCEPT ![u] = change]

\* A composer that starts while another is at work meddles with its files.
\* What cannot be verified ends here, with nothing written.
Compose(u) ==
    /\ ~Busy(u)
    /\ LET alone == \A v \in Users : ~Busy(v)
       IN /\ work' = [v \in Users |->
                        IF v = u THEN [NoWork EXCEPT !.pc = "hex", !.alone = alone]
                        ELSE [work[v] EXCEPT !.alone = FALSE]]
          /\ excuse' = (excuse \/ ~alone)
    /\ UNCHANGED file

\* _atomic_verified_write: the file is there only after it was read back.
WriteHex(u) ==
    /\ work[u].pc = "hex"
    /\ \/ file' = [file EXCEPT !["hex"] = u] /\ Turns(u, [work[u] EXCEPT !.pc = "s19"])
       \/ UNCHANGED file /\ Turns(u, [work[u] EXCEPT !.pc = "idle", !.outcome = "failed"])
    /\ UNCHANGED excuse

WriteS19(u) ==
    /\ work[u].pc = "s19"
    /\ \/ file' = [file EXCEPT !["s19"] = u] /\ Turns(u, [work[u] EXCEPT !.pc = "hash"])
       \/ UNCHANGED file /\ Turns(u, [work[u] EXCEPT !.pc = "unlink"])
    /\ UNCHANGED excuse

\* A mutant forgets the HEX file when the S19 could not be written.
UnlinkForgotten(u) ==
    /\ work[u].pc = "unlink" /\ UNCHANGED <<file, excuse>>
    /\ Turns(u, [work[u] EXCEPT !.pc = "idle", !.outcome = "failed"])

UnlinkHex(u) ==
    /\ work[u].pc = "unlink"
    /\ \/ file' = [file EXCEPT !["hex"] = "none"] /\ UNCHANGED excuse
       \/ UNCHANGED file /\ excuse' = TRUE   \* in use by another program
    /\ Turns(u, [work[u] EXCEPT !.pc = "idle", !.outcome = "failed"])

\* The hashes are those of the files that are there by now.
Hash(u) ==
    /\ work[u].pc = "hash"
    /\ LET f == IF work[u].hashes["hex"] = "none" THEN "hex" ELSE "s19" IN
         Turns(u, IF file[f] = "none"
                  THEN [work[u] EXCEPT !.pc = "idle", !.outcome = "failed"]
                  ELSE [work[u] EXCEPT !.hashes[f] = file[f],
                          !.pc = IF f = "hex" THEN "hash" ELSE "idle",
                          !.outcome = IF f = "hex" THEN "none" ELSE "composed"])
    /\ UNCHANGED <<file, excuse>>

Dies(u) ==
    /\ Busy(u) /\ excuse' = (excuse \/ work[u].pc \in {"s19", "unlink"})
    /\ Turns(u, [work[u] EXCEPT !.pc = "idle", !.outcome = "died"])
    /\ UNCHANGED file

ImageNext ==
    \E u \in Users :
        \/ Compose(u) \/ WriteHex(u) \/ WriteS19(u) \/ UnlinkHex(u) \/ Hash(u) \/ Dies(u)

\* Two files of different images lie side by side only after a crash, a
\* second composer or a HEX file that could not be removed; and while nobody
\* else composes, the result names the files that are there.
ImagePairMatches ==
    /\ "none" \in {file["hex"], file["s19"]} \/ file["hex"] = file["s19"]
       \/ excuse \/ \E u \in Users : work[u].pc \in {"s19", "unlink"}
    /\ \A u \in Users :
         work[u].outcome = "composed" /\ work[u].alone =>
             work[u].hashes = [f \in Formats |-> u]
===============================================================================
