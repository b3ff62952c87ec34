------------------------------- MODULE FlashCli -------------------------------
(***************************************************************************)
(* main() of the command-line tools that flash an ECU, and of those that   *)
(* only use or look for a device: DeviceSession before and after the work, *)
(* FlashWorkflow as the work.  A program may be started again after it has *)
(* ended; the ECU and what is still on the bus stay as they are.           *)
(***************************************************************************)
EXTENDS DeviceSession, FlashWorkflow

CONSTANT MaxRuns    \* bound on the starts of the program

ASSUME RunsAssumption == MaxRuns \in Nat \ {0}

VARIABLE runs

vars == <<sessionVars, flowVars, runs>>

Flashes == prog \in {"e68", "as5pr", "fake", "sim", "window"}

Init == SessionInit /\ FlowInit /\ runs = 1

\* Clearing the receive buffer discards the answers that have come by then.
\* LIN answers are asked for by a header each, so none waits in a buffer.
Session ==
    /\ SessionStep
    /\ wire' = IF dev'.clean /\ ~dev.clean /\ prog = "as5pr" THEN <<>> ELSE wire
    /\ UNCHANGED <<runVars, inbox, ecu, faults, runs>>

StartFlash ==
    /\ stage = "work" /\ Flashes /\ phase = "off"
    /\ Begin /\ wire' = IF prog = "fake" THEN FakeAnswers ELSE wire
    /\ UNCHANGED <<sessionVars, runs>>

\* flash_e68 loads the images when the session is open already.
FlashNotStarted ==
    /\ stage = "work" /\ prog = "window" /\ phase = "off"
    /\ stage' = "close" /\ exit' \in {"error", "dry run"}
    /\ UNCHANGED <<prog, nth, dev, opened, skip, held, flowVars, runs>>

InWork(A) == stage = "work" /\ A /\ UNCHANGED <<sessionVars, runs>>
Run == InWork(RunStep)
CancelClicked == InWork(prog = "window" /\ Cancel)

\* What main prints and returns.
Code == IF phase = "done" THEN "ok" ELSE "error"

FlashReturns ==
    /\ stage = "work" /\ phase \in {"done", "failed", "cancelled"}
    /\ stage' = "close" /\ exit' = Code /\ phase' = "off"
    /\ UNCHANGED <<prog, nth, dev, opened, skip, held, runs>>
    /\ UNCHANGED <<at, late, cancelled, inbox, wire, ecu, faults>>

\* The release tool's command, and the loopback's three exchanges.
OtherWork ==
    /\ stage = "work" /\ ~Flashes
    /\ stage' = "close" /\ exit' \in {"ok", "error"}
    /\ UNCHANGED <<prog, nth, dev, opened, skip, held, flowVars, runs>>

\* The fake and the simulated ECU live and die with their program.
RunAgain ==
    /\ stage = "ended" /\ runs < MaxRuns /\ prog \notin {"fake", "sim"}
    /\ runs' = runs + 1 /\ stage' = "load" /\ nth' = 1
    /\ dev' = Down /\ opened' = FALSE /\ held' = FALSE /\ exit' = "none"
    /\ UNCHANGED <<prog, skip, flowVars>>

Ecu(A) == prog # "fake" /\ A /\ UNCHANGED <<sessionVars, runs>>

Next ==
    \/ Session \/ StartFlash \/ FlashNotStarted \/ Run \/ CancelClicked \/ FlashReturns
    \/ OtherWork \/ RunAgain \/ Ecu(EcuStep)

Spec == Init /\ [][Next]_vars

\* The program goes on, whatever its calls return; time passes; an ECU that
\* can serves its requests and comes back from a restart.
FairSpec ==
    /\ Spec
    /\ WF_vars(Session \/ StartFlash \/ Run \/ FlashReturns \/ OtherWork)
    /\ WF_vars(InWork(DeadlinePasses))
    /\ WF_vars(Ecu(EcuServes)) /\ WF_vars(Ecu(EcuIsBack))

-------------------------------------------------------------------------------
TypeOK == SessionTypeOK /\ FlowTypeOK /\ runs \in 1..MaxRuns

\* FLASH SUCCESS and exit code 0: the ECU holds the whole new App, has found
\* it valid, and the new App has answered.  Answers that an earlier run did
\* not wait for may still come, and must not stand in for it.
SuccessMeansNewApp ==
    exit = "ok" /\ Flashes /\ prog # "fake" => ecu.app = "new" /\ ecu.valid /\ ecu.alive

\* When nothing is lost, late or restarted, no run fails: every request
\* meets the ECU in the state it needs, and is answered as it is expected.
\* (The window's user may cancel, and leave answers for the run after.)
UndisturbedFlashSucceeds ==
    faults = 0 /\ prog # "window" => phase # "failed"

\* However a program ends, no USB device is left open.  A TSMaster program
\* whose open has returned, and that does not skip closing on purpose, takes
\* back everything it told the library.  One whose open failed takes back the
\* initialisation at least, except where set_current_application fails before
\* the try block and main does not know the adapter yet.  What it had connected
\* stays connected: close() disconnects only what is _opened, which is set last.
TakenIsGivenBack ==
    stage = "ended" =>
        /\ dev.handles = {}
        /\ held /\ ~skip => dev = [Down EXCEPT !.clean = dev.clean]
        /\ dev.lib /\ ~skip => ~KnowsAdapter /\ nth <= Len(Script) /\ Script[nth] = "current"

\* Every program ends, with its exit code.
ProgramEnds == (stage = "load") ~> (stage = "ended")
===============================================================================
