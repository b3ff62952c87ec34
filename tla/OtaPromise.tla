------------------------------ MODULE OtaPromise ------------------------------
(***************************************************************************)
(* What an OTA run promises whoever started it, without the protocol: a    *)
(* status that says the App flash was left alone is only reported by a run *)
(* that took no risk, the App flash changes only once a risk was taken,    *)
(* and a status that says the update is in place is true when reported and *)
(* stays true until the next run.                                          *)
(***************************************************************************)
CONSTANTS
    Safe,       \* statuses that say the App flash was left alone
    Committed,  \* statuses that say the new App is installed
    Unsettled   \* the others: the App flash may be anything

VARIABLES
    verdict,    \* the last run's status, "none" while a run is on
    risk,       \* the current run may have touched the App flash
    exposed,    \* this or an earlier run may have
    flash,      \* content of the App flash
    installed   \* the App flash holds this run's App

promiseVars == <<verdict, risk, exposed, flash, installed>>

Init ==
    /\ verdict = "none" /\ risk = FALSE /\ exposed = FALSE
    /\ installed = FALSE /\ flash \in {"valid", "blank"}

\* A new run starts, or is turned down at once.
Begin ==
    /\ verdict' \in {"none"} \cup Safe
    /\ risk' = FALSE /\ exposed' \in {exposed, exposed \/ risk}
    /\ installed' = FALSE /\ flash' = flash

TakeRisk ==
    /\ verdict = "none"
    /\ risk' = TRUE /\ exposed' = TRUE
    /\ UNCHANGED <<verdict, flash, installed>>

\* Also after the run that asked for it has ended, unless it vouched for the App.
Change ==
    /\ exposed /\ verdict \notin Committed
    /\ flash' \in {"valid", "blank", "loaded"}
    /\ installed' \in {FALSE, flash' = "valid"}
    /\ UNCHANGED <<verdict, risk, exposed>>

Conclude ==
    /\ verdict = "none"
    /\ \/ verdict' \in Safe /\ ~risk
       \/ verdict' \in Committed /\ risk /\ installed
       \/ verdict' \in Unsettled /\ risk
    /\ UNCHANGED <<risk, exposed, flash, installed>>

Next == Begin \/ TakeRisk \/ Change \/ Conclude

Spec == Init /\ [][Next]_promiseVars
===============================================================================
