----------------------------- MODULE PackageFile -----------------------------
(***************************************************************************)
(* build_as5pr_release_package and write_release_package: the identities   *)
(* of the three build outputs are read and compared, then their bytes are  *)
(* read; the package is written beside its target, verified and renamed.   *)
(* The firmware build may run meanwhile: it replaces its outputs one by    *)
(* one.                                                                    *)
(***************************************************************************)
EXTENDS FileUsers, Sequences

CONSTANTS
    MaxBuilds   \* bound on the firmware builds

Roles == <<"boot", "app", "driver">>

VARIABLES
    tree,       \* tree[i] = [elf, bin]: the builds the outputs of role i are of
    target,     \* the package file
    pack,       \* what each user does
    firmware    \* the build of the outputs that are being written

packageVars == <<tree, target, pack, firmware>>

Sealed(build, parts) == [build |-> build, parts |-> parts, intact |-> TRUE]
NoPackage == Sealed(0, <<>>)
NoPack == [pc |-> "idle", ids |-> <<>>, parts |-> <<>>, temp |-> NoPackage,
           rebuilt |-> FALSE, outcome |-> "none"]

PackageInit ==
    /\ tree = [i \in DOMAIN Roles |-> [elf |-> 1, bin |-> 1]]
    /\ target = NoPackage /\ firmware = 1
    /\ pack = [u \in Users |-> NoPack]

Goes(u, change) == pack' = [pack EXCEPT ![u] = change]
Stops(u, outcome) ==
    Goes(u, [NoPack EXCEPT !.temp = IF outcome = "written" THEN pack[u].temp ELSE NoPackage,
                           !.rebuilt = pack[u].rebuilt, !.outcome = outcome])

BuildPackage(u) ==
    /\ pack[u].pc = "idle" /\ Goes(u, [NoPack EXCEPT !.pc = "identities"])
    /\ UNCHANGED <<tree, target, firmware>>

\* read_build_identity of the next role: the ELF's, found again in the BIN.
ReadIdentity(u) ==
    /\ pack[u].pc = "identities"
    /\ LET r == tree[Len(pack[u].ids) + 1]
           ids == Append(pack[u].ids, r.elf)
       IN IF r.elf # r.bin THEN Stops(u, "failed")
          ELSE Goes(u, [pack[u] EXCEPT !.ids = ids,
                          !.pc = IF Len(ids) = Len(Roles) THEN "validate" ELSE "identities"])
    /\ UNCHANGED <<tree, target, firmware>>

\* A mutant trusts the output directory.
OneBuildUnchecked(ids) == TRUE
OneBuild(ids) == \A i, j \in DOMAIN ids : ids[i] = ids[j]

ValidateBuild(u) ==
    /\ pack[u].pc = "validate"
    /\ IF OneBuild(pack[u].ids) THEN Goes(u, [pack[u] EXCEPT !.pc = "bytes"])
       ELSE Stops(u, "failed")
    /\ UNCHANGED <<tree, target, firmware>>

\* The BIN of the next role; after the last one the package is encoded and
\* signed under the first identity.
ReadBytes(u) ==
    /\ pack[u].pc = "bytes"
    /\ LET parts == Append(pack[u].parts, tree[Len(pack[u].parts) + 1].bin)
           last  == Len(parts) = Len(Roles)
       IN Goes(u, [pack[u] EXCEPT !.parts = parts,
                     !.pc = IF last THEN "write" ELSE "bytes",
                     !.temp = IF last THEN Sealed(pack[u].ids[1], parts) ELSE @])
    /\ UNCHANGED <<tree, target, firmware>>

\* What is read back may differ from what was written.
WriteTemporary(u) ==
    /\ pack[u].pc = "write"
    /\ \E ok \in BOOLEAN : Goes(u, [pack[u] EXCEPT !.pc = "verify", !.temp.intact = ok])
    /\ UNCHANGED <<tree, target, firmware>>

\* load_verified_release_package: hashes, layout, roles and signature.
Verifies(p) == p.intact

Replace(u) ==
    /\ pack[u].pc = "verify"
    /\ \/ Verifies(pack[u].temp) /\ target' = pack[u].temp /\ Stops(u, "written")
       \/ UNCHANGED target /\ Stops(u, "failed")
    /\ UNCHANGED <<tree, firmware>>

\* The build replaces one output after the other, role by role.
Rebuild ==
    /\ LET old == {i \in DOMAIN Roles : tree[i].bin # firmware} IN
         IF old = {}
         THEN firmware < MaxBuilds /\ firmware' = firmware + 1 /\ UNCHANGED tree
         ELSE /\ UNCHANGED firmware
              /\ \E i \in old : tree' =
                   IF tree[i].elf = firmware THEN [tree EXCEPT ![i].bin = firmware]
                   ELSE [tree EXCEPT ![i].elf = firmware]
    /\ pack' = [u \in Users |-> [pack[u] EXCEPT !.rebuilt = @ \/ pack[u].pc \in {"identities", "validate", "bytes"}]]
    /\ UNCHANGED target

PackageNext ==
    \/ Rebuild
    \/ \E u \in Users :
         \/ BuildPackage(u) \/ ReadIdentity(u) \/ ValidateBuild(u) \/ ReadBytes(u)
         \/ WriteTemporary(u) \/ Replace(u)

Uniform(p) == \A i \in DOMAIN p.parts : p.parts[i] = p.build

\* The target is never a package that does not verify, and a package written
\* while no firmware build replaced an output between the first identity and
\* the last byte consists of the one build it names.  One that is replaced after
\* its identity was read may make it a package of two builds: the bytes are not
\* compared with the identities once more.
PackageIsVerified ==
    /\ target.intact
    /\ \A u \in Users :
         pack[u].outcome = "written" /\ ~pack[u].rebuilt => Uniform(pack[u].temp)
===============================================================================
