----------------------- MODULE ReleaseWorkspace_proofs -----------------------
(***************************************************************************)
(* What TLAPS proves of ReleaseWorkspace for any number of tasks, checks   *)
(* and starts of the other instance, and any size of the installer: what   *)
(* is launched was verified, the window outlives its work and starts       *)
(* nothing after the hand-over, the installer spares running tools, and an *)
(* OTA does not end in silence.                                            *)
(***************************************************************************)
EXTENDS ReleaseWorkspace, TLAPS

(***************************************************************************)
(* The inductive invariant.  CacheOK: a bad file is only there as long as  *)
(* nobody has looked at it or replaced it, as a part file that is about to *)
(* be placed is whole.  WorkOK: how the hand-over, the window's end and    *)
(* the installer's progress exclude work.                                  *)
(***************************************************************************)
CacheOK ==
    /\ DOMAIN at = Downloaders /\ DOMAIN part = Downloaders
    /\ DOMAIN outcome = Downloaders
    /\ target \in {"absent", "good", "bad"}
    /\ \A d \in Downloaders : at[d] = "place" => Whole(d)
    /\ \A d \in Downloaders :
         outcome[d] \in {"none", "path", "error"} /\ (outcome[d] = "path" => target # "bad")
    /\ locked => target = "good"

WorkOK ==
    /\ process \in {"none", "scan", "flash"}
    /\ window = "quitting" => exiting
    /\ exiting => frozen /\ process = "none" /\ thread = "none"
    /\ window = "gone" => process = "none" /\ thread = "none"
    /\ installer \in {"guard", "version", "copying"} => window = "gone"
    /\ installer \in {"version", "copying"} => ~(other # "none" /\ early)

VerdictOK ==
    /\ verdict \in {"none", "found", "nothing", "error", "path"}
    /\ verdict = "path" => target # "bad"

IInv == CacheOK /\ WorkOK /\ VerdictOK

\* Once the file is not a bad one, it never becomes one.
NeverSpoilt == target # "bad" => target' # "bad"

-------------------------------------------------------------------------------
(* The cache.                                                              *)

\* No step of any instance's download spoils the file or touches it while it
\* is being executed.
LEMMA DownloadKeeps ==
    ASSUME CacheOK, NEW d \in Downloaders, Download(d)
    PROVE  CacheOK' /\ NeverSpoilt
<1> USE DEF CacheOK, NeverSpoilt, Goes, Ends, Whole
<1>1. CASE Look(d)
  BY <1>1 DEF Look, Reusable
<1>2. CASE Discard(d)
  BY <1>2 DEF Discard
<1>3. CASE Create(d)
  BY <1>3 DEF Create
<1>4. CASE EndOfStream(d) \/ ReadFails(d)
  BY <1>4 DEF EndOfStream, ReadFails
<1>5. CASE \E genuine \in BOOLEAN : Read(d, genuine)
  BY <1>5 DEF Read
<1>6. CASE Place(d)
  BY <1>6 DEF Place
<1>7. CASE CleanUp(d)
  BY <1>7 DEF CleanUp
<1> QED
  BY <1>1, <1>2, <1>3, <1>4, <1>5, <1>6, <1>7 DEF Download

\* Beginning one forgets how the last ended.
LEMMA BeginKeeps ==
    ASSUME CacheOK, NEW d \in Downloaders, Begin(d)
    PROVE  CacheOK' /\ NeverSpoilt
BY DEF CacheOK, NeverSpoilt, Begin, Goes, Whole

\* Whoever lets the file, the parts and the outcomes alone keeps the cache.
LEMMA CacheStays ==
    ASSUME CacheOK, UNCHANGED <<target, locked, at, part, outcome>>
    PROVE  CacheOK' /\ NeverSpoilt
BY DEF CacheOK, NeverSpoilt, Whole

-------------------------------------------------------------------------------
(* The steps.                                                              *)

\* The child process and what the window does about it.
LEMMA TasksKeep ==
    ASSUME IInv,
           \/ \E line \in {"devices", "empty", "error", "progress", "ok", "result"} :
                CliSays(line)
           \/ CliDies \/ ReadStdout \/ Finished \/ ProcessError \/ ChooseProject
           \/ ClickScan \/ ClickOta \/ \E yes \in BOOLEAN : AnswerConfirm(yes)
    PROVE  IInv'
<1>1. UNCHANGED <<cacheVars, window, frozen, exiting, updVars, sysVars>>
  BY DEF CliSays, CliDies, ReadStdout, Finished, ProcessError, ChooseProject,
     ClickScan, ClickOta, AnswerConfirm, guiVars
<1>2. \/ process' = process
      \/ process' = "none"
      \/ process' \in {"scan", "flash"} /\ Alive /\ ~frozen
  BY DEF CliSays, CliDies, ReadStdout, Finished, ProcessError, ChooseProject,
     ClickScan, ClickOta, AnswerConfirm, Execute, Refuses, Responsive, guiVars
<1>3. WorkOK'
  BY <1>1, <1>2 DEF IInv, WorkOK, Alive, updVars, sysVars
<1> QED
  BY <1>1, <1>3, CacheStays DEF IInv, VerdictOK, NeverSpoilt, cacheVars, updVars

\* Checks, questions and their answers.
LEMMA QuestionsKeep ==
    ASSUME IInv,
           \/ \E asked \in BOOLEAN : CheckForUpdates(asked)
           \/ ClickCancel \/ AnswerWarning
           \/ \E yes \in BOOLEAN : AnswerPrompt(yes)
    PROVE  IInv'
<1>1. UNCHANGED <<window, process, frozen, exiting, sysVars>>
  BY DEF CheckForUpdates, ClickCancel, AnswerWarning, AnswerPrompt
<1>2. \/ UNCHANGED <<thread, verdict>>
      \/ thread' # "none" /\ verdict' = "none" /\ Alive /\ ~frozen
  BY DEF CheckForUpdates, ClickCancel, AnswerWarning, AnswerPrompt, CanInstall, updVars
<1>3. \/ UNCHANGED <<target, locked, at, part, outcome>>
      \/ Begin(Window)
  BY DEF CheckForUpdates, ClickCancel, AnswerWarning, AnswerPrompt, SetCancel, cacheVars
<1>4. CacheOK' /\ NeverSpoilt
  BY <1>3, CacheStays, BeginKeeps, WorkspaceAssumption DEF IInv
<1>5. WorkOK'
  BY <1>1, <1>2 DEF IInv, WorkOK, Alive, sysVars
<1> QED
  BY <1>2, <1>4, <1>5 DEF IInv, VerdictOK, NeverSpoilt

\* The worker of this window, and its end, which brings what it ended with.
LEMMA WorkerKeeps ==
    ASSUME IInv, Worker
    PROVE  IInv'
<1>1. CASE WorkerEnds
  <2>1. UNCHANGED <<cacheVars, guiVars, thread, sysVars>>
    BY <1>1 DEF WorkerEnds
  <2>2. verdict' \in {"found", "nothing", "error"} \/ verdict' = outcome[Window]
    BY <1>1 DEF WorkerEnds, Reported
  <2>3. VerdictOK'
    BY <2>1, <2>2, WorkspaceAssumption DEF IInv, CacheOK, VerdictOK, cacheVars
  <2>4. WorkOK'
    BY <2>1 DEF IInv, WorkOK, guiVars, sysVars
  <2> QED
    BY <2>1, <2>3, <2>4, CacheStays DEF IInv, cacheVars
<1>2. CASE Download(Window) /\ UNCHANGED <<guiVars, cliVars, updVars, sysVars, counters>>
  <2>1. CacheOK' /\ NeverSpoilt
    BY <1>2, DownloadKeeps, WorkspaceAssumption DEF IInv
  <2>2. WorkOK'
    BY <1>2 DEF IInv, WorkOK, guiVars, updVars, sysVars
  <2> QED
    BY <1>2, <2>1, <2>2 DEF IInv, VerdictOK, NeverSpoilt, updVars
<1> QED
  BY <1>1, <1>2 DEF Worker

\* The installer is only started with the verified file, by a window that has
\* nothing else to do; the file is locked from then on.
LEMMA FinishKeeps ==
    ASSUME IInv, FinishUpdateWorker
    PROVE  IInv'
<1>1. /\ UNCHANGED <<target, at, part, process, other, early>>
      /\ thread' = "none" /\ verdict' = "none" /\ Alive
      /\ outcome' = [outcome EXCEPT ![Window] = "none"]
  BY DEF FinishUpdateWorker
<1>2. \/ UNCHANGED <<frozen, exiting, window, installer, locked>>
      \/ /\ verdict = "path" /\ CanInstall /\ target # "absent"
         /\ frozen' = TRUE /\ exiting' = TRUE /\ window' = "quitting"
         /\ installer' = "waiting" /\ locked' = TRUE
  <2>1. verdict \in {"path", "error", "nothing", "found"}
    BY DEF IInv, VerdictOK, FinishUpdateWorker
  <2>2. CASE verdict = "path" /\ CanInstall
    <3>1. HandOver
      BY <2>2 DEF FinishUpdateWorker
    <3> QED
      BY <2>2, <3>1 DEF HandOver, Launch
  <2>3. CASE verdict = "error" \/ (verdict = "path" /\ ~CanInstall)
    <3>1. NoHandOver
      BY <2>3 DEF FinishUpdateWorker
    <3> QED
      BY <3>1 DEF NoHandOver
  <2>4. CASE verdict \in {"nothing", "found"}
    BY <2>4 DEF FinishUpdateWorker
  <2> QED
    BY <2>1, <2>2, <2>3, <2>4
<1>3. CacheOK'
  BY <1>1, <1>2 DEF IInv, CacheOK, VerdictOK, Whole
<1>4. WorkOK'
  BY <1>1, <1>2 DEF IInv, WorkOK, CanInstall, Alive
<1> QED
  BY <1>1, <1>3, <1>4 DEF IInv, VerdictOK, CacheOK

\* The window only goes when nothing of it is at work.
LEMMA EndsKeep ==
    ASSUME IInv, Close \/ Quits
    PROVE  IInv'
<1>1. UNCHANGED <<target, locked, at, part, outcome, frozen, exiting, updVars, sysVars>>
  BY DEF Close, Quits, cacheVars
<1>2. CASE Close
  <2>1. \/ UNCHANGED <<window, process>>
        \/ /\ window' = "gone" /\ process' = IF process = "scan" THEN "none" ELSE process
           /\ exiting \/ (thread = "none" /\ process # "flash")
    BY <1>2 DEF Close, Vanish, Busy
  <2> QED
    BY <1>1, <2>1, CacheStays DEF IInv, VerdictOK, WorkOK, NeverSpoilt, updVars, sysVars
<1>3. CASE Quits
  <2>1. window = "quitting" /\ window' = "gone" /\ process' = process
    BY <1>3 DEF Quits, Vanish
  <2> QED
    BY <1>1, <2>1, CacheStays DEF IInv, VerdictOK, WorkOK, NeverSpoilt, updVars, sysVars
<1> QED
  BY <1>2, <1>3

\* The installer passes the mutex test only when the window is gone, and the guard
\* only when no other instance is there.
LEMMA InstallerKeeps ==
    ASSUME IInv, Installer
    PROVE  IInv'
<1>1. /\ UNCHANGED <<target, at, part, outcome, guiVars, updVars, other, early>>
      /\ locked' => locked
  BY DEF Installer, AwaitParent, ParentTimeout, CheckMutex, CheckProcesses,
     CheckVersion, Copied, InstallerStep
<1>2. \/ installer' \in {"refused", "done"}
      \/ installer' = "mutex"
      \/ installer = "mutex" /\ installer' = "guard" /\ window = "gone"
      \/ installer = "guard" /\ installer' = "version" /\ other = "none"
      \/ installer = "version" /\ installer' = "copying"
  BY DEF Installer, AwaitParent, ParentTimeout, ParentGone, CheckMutex,
     CheckProcesses, GuardFinds, CheckVersion, Copied, InstallerStep
<1>3. CacheOK'
  BY <1>1 DEF IInv, CacheOK, Whole
<1>4. WorkOK'
  BY <1>1, <1>2 DEF IInv, WorkOK, guiVars, updVars
<1> QED
  BY <1>1, <1>3, <1>4 DEF IInv, VerdictOK, CacheOK, updVars

\* Another instance shares the file, and may come and go.
LEMMA OtherKeeps ==
    ASSUME IInv, OtherStarts \/ OtherGoesOn \/ OtherDownloads
    PROVE  IInv'
<1>1. CASE OtherStarts
  <2>1. UNCHANGED <<cacheVars, guiVars, updVars, installer>>
        /\ early' = (installer \in {"none", "waiting", "mutex", "guard"})
    BY <1>1 DEF OtherStarts
  <2>2. WorkOK'
    BY <2>1 DEF IInv, WorkOK, guiVars, updVars
  <2> QED
    BY <2>1, <2>2, CacheStays DEF IInv, VerdictOK, NeverSpoilt, cacheVars, updVars
<1>2. CASE OtherGoesOn
  <2>1. /\ UNCHANGED <<target, locked, part, outcome, guiVars, updVars, installer>>
        /\ at' = at \/ at' = [at EXCEPT ![Other] = "idle"]
    BY <1>2 DEF OtherGoesOn
  <2>2. (other = "starting" /\ UNCHANGED early) \/ other' = "none"
    BY <1>2 DEF OtherGoesOn
  <2>3. CacheOK'
    BY <2>1 DEF IInv, CacheOK, Whole
  <2>4. WorkOK'
    BY <2>1, <2>2 DEF IInv, WorkOK, guiVars, updVars
  <2> QED
    BY <2>1, <2>3, <2>4 DEF IInv, VerdictOK, updVars
<1>3. CASE OtherDownloads
  <2>1. Begin(Other) \/ Download(Other)
    BY <1>3 DEF OtherDownloads
  <2>2. CacheOK' /\ NeverSpoilt
    BY <2>1, BeginKeeps, DownloadKeeps, WorkspaceAssumption DEF IInv
  <2>3. UNCHANGED <<guiVars, updVars, sysVars>>
    BY <1>3 DEF OtherDownloads
  <2>4. WorkOK'
    BY <2>3 DEF IInv, WorkOK, guiVars, updVars, sysVars
  <2> QED
    BY <2>2, <2>3, <2>4 DEF IInv, VerdictOK, NeverSpoilt, updVars
<1> QED
  BY <1>1, <1>2, <1>3

-------------------------------------------------------------------------------
(* The theorems.                                                           *)

\* The inductive invariant holds in every reachable state of every instance.
THEOREM Inductive == Spec => []IInv
<1>1. Init => IInv
  BY DEF Init, CacheInit, IInv, CacheOK, WorkOK, VerdictOK
<1>2. IInv /\ Next => IInv'
  BY TasksKeep, QuestionsKeep, WorkerKeeps, FinishKeeps, EndsKeep, InstallerKeeps,
     OtherKeeps DEF Next, User
<1>3. IInv /\ UNCHANGED vars => IInv'
  BY DEF IInv, CacheOK, Whole, WorkOK, VerdictOK, vars, cacheVars, guiVars, updVars, sysVars
<1> QED
  BY <1>1, <1>2, <1>3, PTL DEF Spec

\* What is executed is an installer that was verified, whoever put it into the
\* cache and whoever removed and replaced it meanwhile.
THEOREM OnlyVerifiedIsLaunched == Spec => []LaunchedIsVerified
<1>1. IInv => LaunchedIsVerified
  BY DEF IInv, CacheOK, LaunchedIsVerified
<1> QED
  BY <1>1, Inductive, PTL

\* The window is never gone while its OTA process or its update thread runs.
THEOREM WindowStays == Spec => []WindowOutlivesItsWork
<1>1. IInv => WindowOutlivesItsWork
  BY DEF IInv, WorkOK, WindowOutlivesItsWork
<1> QED
  BY <1>1, Inductive, PTL

\* Once the installer is started this window starts nothing.
THEOREM HandOverIsFinal == Spec => []NothingAfterHandOver
<1>1. IInv => NothingAfterHandOver
  BY DEF IInv, WorkOK, NothingAfterHandOver
<1> QED
  BY <1>1, Inductive, PTL

\* No instance of the tool that was there before the process guard's answer runs
\* while the files are replaced.
THEOREM ToolsAreSpared == Spec => []InstallerSparesTools
<1>1. IInv => InstallerSparesTools
  BY DEF IInv, WorkOK, InstallerSparesTools
<1> QED
  BY <1>1, Inductive, PTL

-------------------------------------------------------------------------------
(* How an OTA ends.                                                        *)

\* An OTA process that has ended well has said so, and the window has read it or
\* will before it judges the end.
EndIsTold == process = "flash" /\ cli = "zero" => out = "ok" \/ terminal = TRUE

LEMMA EndToldInitially ==
    ASSUME Init
    PROVE  EndIsTold
BY DEF Init, EndIsTold

LEMMA EndToldStep ==
    ASSUME IInv, EndIsTold, [Next]_vars
    PROVE  EndIsTold'
<1>1. CASE \E line \in {"devices", "empty", "error", "progress", "ok", "result"} : CliSays(line)
  <2>1. PICK line : CliSays(line)
    BY <1>1
  <2>2. process = "flash" => line \in {"progress", "ok", "result", "error"}
    BY <2>1 DEF CliSays
  <2>3. process' = process /\ out' = line /\ (process = "flash" /\ cli' = "zero" => line = "ok")
    BY <2>1, <2>2 DEF CliSays, guiVars
  <2> QED
    BY <2>3 DEF EndIsTold
<1>2. CASE CliDies
  BY <1>2 DEF CliDies, EndIsTold
<1>3. CASE ReadStdout
  BY <1>3 DEF ReadStdout, EndIsTold, TerminalAfter
<1>4. CASE ClickScan \/ \E yes \in BOOLEAN : AnswerConfirm(yes)
  BY <1>4 DEF ClickScan, AnswerConfirm, Execute, EndIsTold, cliVars
<1>5. CASE Finished
  BY <1>5 DEF Finished, EndIsTold
<1>6. CASE ProcessError
  BY <1>6 DEF ProcessError, EndIsTold
<1>7. CASE Close \/ Quits
  BY <1>7 DEF Close, Quits, Vanish, Busy, EndIsTold, cliVars, IInv, WorkOK
<1>8. CASE \/ ChooseProject \/ ClickOta \/ ClickCancel \/ AnswerWarning \/ FinishUpdateWorker
           \/ (\E yes \in BOOLEAN : AnswerPrompt(yes))
           \/ (\E asked \in BOOLEAN : CheckForUpdates(asked))
  <2>1. UNCHANGED <<process, terminal, cli, out>>
    BY <1>8 DEF ChooseProject, ClickOta, ClickCancel, AnswerWarning, FinishUpdateWorker,
       AnswerPrompt, CheckForUpdates, cliVars
  <2> QED
    BY <2>1 DEF EndIsTold
<1>9. CASE Worker \/ Installer \/ OtherStarts \/ OtherGoesOn \/ OtherDownloads \/ UNCHANGED vars
  <2>1. UNCHANGED <<guiVars, cliVars>>
    BY <1>9 DEF Worker, WorkerEnds, Installer, AwaitParent, ParentTimeout, CheckMutex,
       CheckProcesses, CheckVersion, Copied, InstallerStep, OtherStarts, OtherGoesOn,
       OtherDownloads, vars
  <2> QED
    BY <2>1 DEF EndIsTold, guiVars, cliVars
<1> QED
  BY <1>1, <1>2, <1>3, <1>4, <1>5, <1>6, <1>7, <1>8, <1>9 DEF Next, User

\* However its process ends, an OTA does not end with the label still telling that
\* it goes on: what the process has said last is read before its end is judged.
THEOREM EndIsShown == Spec => NoSilentEnd
<1>1. ASSUME IInv, EndIsTold, [Next]_vars, process = "flash", process' = "none"
      PROVE  label' # "going" \/ terminal
  <2>1. Finished \/ ProcessError
    BY <1>1 DEF Next, User, CliSays, CliDies, ReadStdout, ChooseProject, ClickScan, ClickOta,
       AnswerConfirm, Execute, CheckForUpdates, ClickCancel, AnswerWarning, AnswerPrompt, Worker,
       WorkerEnds, FinishUpdateWorker, Close, Vanish, Busy, Quits, Installer, AwaitParent,
       ParentTimeout, CheckMutex, CheckProcesses, CheckVersion, Copied, InstallerStep,
       OtherStarts, OtherGoesOn, OtherDownloads, IInv, WorkOK, vars, guiVars
  <2>2. CASE ProcessError
    BY <2>2 DEF ProcessError
  <2>3. CASE Finished
    <3>1. /\ cli \in {"zero", "nonzero"}
          /\ label' = IF cli = "nonzero" /\ ~TerminalAfter(out) THEN "outcome" ELSE LabelAfter(out)
      BY <2>3 DEF Finished, Unread
    <3>2. TerminalAfter(out) => terminal \/ LabelAfter(out) = "outcome"
      BY DEF TerminalAfter, LabelAfter
    <3>3. cli = "zero" => TerminalAfter(out)
      BY <1>1 DEF EndIsTold, TerminalAfter
    <3> QED
      BY <3>1, <3>2, <3>3
  <2> QED
    BY <2>1, <2>2, <2>3
<1>2. Spec => []EndIsTold
  BY EndToldInitially, EndToldStep, Inductive, PTL DEF Spec
<1>3. IInv /\ EndIsTold /\ [Next]_vars =>
        [process = "flash" /\ process' = "none" => label' # "going" \/ terminal]_vars
  BY <1>1
<1> QED
  BY <1>2, <1>3, Inductive, PTL DEF Spec, NoSilentEnd
===============================================================================
