--------------------------- MODULE UpdateDiscovery ---------------------------
(***************************************************************************)
(* UpdateService.check with GitHubReleaseSource.fetch: the locator names a *)
(* tag, the update file and its signature of that tag are read one after   *)
(* the other, and releases come and go between the reads.  A pair that     *)
(* cannot be verified is tried once more from the start; a read that fails *)
(* ends the check.  Keys and files are genuine or spoilt on their way.     *)
(***************************************************************************)
EXTENDS ReleasePublication

VARIABLES
    own,        \* the tool's build identity: version and official build
    check       \* the check that is under way, or the last one

vars == <<publicationVars, own, check>>

NoCheck == [pc |-> "idle", attempt |-> 0, tag |-> 0, json |-> "none",
            outcome |-> "none", offer |-> "none",
            \* history: the latest release at the start, if none came or
            \* went since then, and the files that were spoilt
            latest |-> "none", calm |-> FALSE, spoilt |-> 0]

Init ==
    /\ PublicationInit /\ check = NoCheck
    /\ own \in [version : Versions, official : {TRUE}] \cup [version : {0}, official : {FALSE}]

Returns(outcome, offer) ==
    check' = [check EXCEPT !.pc = "idle", !.outcome = outcome, !.offer = offer,
                           !.tag = 0, !.json = "none"]

CheckForUpdate ==
    /\ check.pc = "idle"
    /\ check' = IF ~own.official THEN [NoCheck EXCEPT !.outcome = "current"]
                ELSE [NoCheck EXCEPT !.pc = "locator", !.latest = latest, !.calm = TRUE]
    /\ UNCHANGED <<publicationVars, own>>

\* fetch: metadata and security errors are tried once more.  A mutant gives
\* up at once.
RetriesNever == FALSE
Retries == check.attempt = 0

Mismatch(spoilt) ==
    check' = IF Retries
             THEN [check EXCEPT !.pc = "locator", !.attempt = 1, !.tag = 0,
                                !.json = "none", !.spoilt = @ + spoilt]
             ELSE [check EXCEPT !.pc = "idle", !.outcome = "security", !.tag = 0,
                                !.json = "none", !.spoilt = @ + spoilt]

NetworkFails ==
    /\ check.pc # "idle" /\ Returns("network", "none")
    /\ UNCHANGED <<publicationVars, own>>

\* What a download of a tag's files can meet: asset i of a published release.
Served(v, i) == {q \in OfTag(v) : run[q].release = "published" /\ run[q].assets >= i}
Spoilt(q) == run[q].bad

ReadLocator ==
    /\ check.pc = "locator" /\ latest # "none" /\ run[latest].assets >= 1
    /\ \/ ~Spoilt(latest)
          /\ check' = [check EXCEPT !.pc = "json", !.tag = run[latest].tag]
       \/ Mismatch(1)
    /\ UNCHANGED <<publicationVars, own>>

ReadJson ==
    /\ check.pc = "json"
    /\ \/ \E q \in Served(check.tag, 1) :
            ~Spoilt(q) /\ check' = [check EXCEPT !.pc = "sig", !.json = q]
       \/ Served(check.tag, 1) # {}
          /\ check' = [check EXCEPT !.pc = "sig", !.json = "none", !.spoilt = @ + 1]
    /\ UNCHANGED <<publicationVars, own>>

\* verify_signed_update and the pairing with the tag: the signature is of
\* exactly these bytes, by the key the tool knows.
Verified(sig) == check.json = sig /\ run[sig].signed /\ run[sig].tag = check.tag

\* A mutant offers the same version again.
NewerOrSame(v) == v >= own.version
Newer(v) == v > own.version

ReadSignature ==
    /\ check.pc = "sig"
    /\ \/ Served(check.tag, 2) # {} /\ Mismatch(1)
       \/ \E q \in Served(check.tag, 2) :
            ~Spoilt(q) /\
            IF Verified(q)
            THEN IF Newer(run[q].tag) THEN Returns("offer", q) ELSE Returns("current", "none")
            ELSE Mismatch(0)
    /\ UNCHANGED <<publicationVars, own>>

Client == CheckForUpdate \/ NetworkFails \/ ReadLocator \/ ReadJson \/ ReadSignature

\* The check is no longer calm when what it could read has changed.
Published(q) == run[q].release = "published"
Publishes ==
    /\ Publication /\ UNCHANGED own
    /\ check' = [check EXCEPT !.calm = @ /\ check.pc # "idle" /\ latest' = latest
                    /\ \A q \in Runs : (run'[q].release = "published") = Published(q)]

Next == Client \/ Publishes

Spec == Init /\ [][Next]_vars

\* What is offered has passed the gate, the audit and the signing, is newer
\* than the tool, and is offered to official builds only.
OfferIsFit ==
    check.outcome = "offer" =>
        Fit(check.offer) /\ own.official /\ run[check.offer].tag > own.version

\* A check during which no release came or went, and for which at most one
\* file was spoilt and no read failed, tells of the latest release.
CalmCheckDecides ==
    check.pc = "idle" /\ check.calm /\ check.spoilt <= 1 /\ ~twice
    /\ check.latest # "none" /\ check.outcome # "network" =>
        IF run[check.latest].tag > own.version
        THEN check.outcome = "offer" /\ check.offer = check.latest
        ELSE check.outcome = "current"
===============================================================================
