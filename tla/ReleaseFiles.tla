----------------------------- MODULE ReleaseFiles -----------------------------
(***************************************************************************)
(* The operations of the release tools on files that others write or read: *)
(* the artifact store, the full image and its text, the release package    *)
(* and the cache of vendor libraries.  They share no file, so a behaviour  *)
(* is about the one that "area" names.                                     *)
(***************************************************************************)
EXTENDS ArtifactStore, FullImage, ImageText, PackageFile, RuntimeCache

VARIABLE area

vars == <<area, storeVars, imageVars, textVars, packageVars, runtimeVars>>

Init ==
    /\ area \in {"store", "image", "text", "package", "runtime"}
    /\ StoreInit /\ ImageInit /\ TextInit /\ PackageInit /\ RuntimeInit
    \* What does not take part starts in one state.
    /\ area # "store" => kind = "signed" /\ \A u, v \in Users : source[u] = source[v]
    /\ area # "image" => file["hex"] = "none"
    /\ area # "text" => regions = <<Region(0, 1), Region(1, 1), Region(2, 1)>>
    /\ area # "runtime" => ~cache.there

Store   == StoreNext   /\ UNCHANGED <<imageVars, textVars, packageVars, runtimeVars>>
Image   == ImageNext   /\ UNCHANGED <<storeVars, textVars, packageVars, runtimeVars>>
Text    == TextNext    /\ UNCHANGED <<storeVars, imageVars, packageVars, runtimeVars>>
Package == PackageNext /\ UNCHANGED <<storeVars, imageVars, textVars, runtimeVars>>
Runtime == RuntimeNext /\ UNCHANGED <<storeVars, imageVars, textVars, packageVars>>

Next ==
    /\ UNCHANGED area
    /\ \/ area = "store" /\ Store
       \/ area = "image" /\ Image
       \/ area = "text" /\ Text
       \/ area = "package" /\ Package
       \/ area = "runtime" /\ Runtime

Spec == Init /\ [][Next]_vars
===============================================================================
