--------------------------- MODULE ReleaseWorkspace ---------------------------
(***************************************************************************)
(* ReleaseMainWindow: one window that runs scans and OTAs in a CLI child   *)
(* process, checks for and downloads updates in a worker thread, and hands *)
(* over to the installer.  Its handlers run in one event loop, but message *)
(* boxes nest that loop: a result may arrive, and be acted upon, below an  *)
(* open question.  Another instance of the tool shares the download cache  *)
(* and the run mutex.                                                      *)
(***************************************************************************)
EXTENDS UpdateCache

CONSTANTS
    Window, Other, \* the downloaders: this window and the other instance
    MaxTasks,      \* bound on the CLI processes started
    MaxChecks,     \* bound on the update checks
    MaxOthers      \* bound on the starts of the other instance

ASSUME WorkspaceAssumption ==
    /\ Window # Other /\ Downloaders = {Window, Other}
    /\ {MaxTasks, MaxChecks, MaxOthers} \subseteq Nat

VARIABLES
    window,     \* "open", "quitting" (QApplication.quit called) or "gone"
    devices,    \* the device list is not empty
    label,      \* the status label: a task is "going", its "outcome", or "other"
    process,    \* _process with _operation: "none", "scan" or "flash"
    terminal,   \* _terminal_event_received
    cli,        \* the child: "none", "running" or how it ended
    out,        \* its last unread line
    below,      \* the message box the window's own handler waits in
    prompt,     \* the update prompt is open, above that box
    thread,     \* _update_thread: "none", "check" or "download"
    verdict,    \* what the worker thread ended with; "none" while it runs
    suppressed, \* _update_prompt_suppressed
    frozen,     \* _tasks_frozen
    exiting,    \* _update_exit_requested
    installer,  \* where the installer is
    other,      \* the other instance: "none", "starting" (no mutex) or "running"
    early,      \* history: it was started before the process guard's answer
    tasks, checks, others

guiVars  == <<window, devices, label, process, terminal, below, prompt,
              suppressed, frozen, exiting>>
cliVars  == <<cli, out>>
updVars  == <<thread, verdict>>
sysVars  == <<installer, other, early>>
counters == <<tasks, checks, others>>
vars     == <<cacheVars, guiVars, cliVars, updVars, sysVars, counters>>

Init ==
    /\ CacheInit
    /\ window = "open" /\ devices = FALSE /\ label = "other"
    /\ process = "none" /\ terminal = FALSE /\ cli = "none" /\ out = "none"
    /\ below = "none" /\ prompt = FALSE
    /\ thread = "none" /\ verdict = "none"
    /\ suppressed = FALSE /\ frozen = FALSE /\ exiting = FALSE
    /\ installer = "none" /\ other = "none" /\ early = FALSE
    /\ tasks = 0 /\ checks = 0 /\ others = 0

-------------------------------------------------------------------------------
(* The CLI child.                                                          *)

CliStays == UNCHANGED <<cliVars>>
SysStays == UNCHANGED <<sysVars>>

\* One line of JSON; after a final one it exits.
CliSays(line) ==
    /\ cli = "running"
    /\ line \in IF process = "scan" THEN {"devices", "empty", "error"}
                                   ELSE {"progress", "ok", "result", "error"}
    /\ out' = line
    /\ cli' = CASE line = "progress" -> "running"
                [] line \in {"devices", "ok"} -> "zero"
                [] line \in {"empty", "result", "error"} -> "nonzero"
    /\ UNCHANGED <<cacheVars, guiVars, updVars, sysVars, counters>>

\* It is killed or crashes, perhaps while exiting.
CliDies ==
    /\ cli \in {"running", "zero", "nonzero"} /\ cli' \in {"nonzero", "crashed"}
    /\ UNCHANGED <<cacheVars, guiVars, out, updVars, sysVars, counters>>

-------------------------------------------------------------------------------
(* The window's handlers.                                                  *)

Alive == window # "gone"

\* No message box is open, so the window takes the user's input.
Responsive == Alive /\ below = "none" /\ ~prompt

\* _handle_output_line.
LabelAfter(line) ==
    CASE line = "none" -> label
      [] line = "progress" -> "going"
      [] OTHER -> "outcome"
TerminalAfter(line) == terminal \/ line \in {"ok", "result", "error"}
DevicesAfter(line)  == line = "devices" \/ (devices /\ line # "empty")

ReadStdout ==
    /\ Alive /\ process # "none" /\ out # "none"
    /\ label' = LabelAfter(out) /\ terminal' = TerminalAfter(out)
    /\ devices' = DevicesAfter(out) /\ out' = "none"
    /\ UNCHANGED <<cacheVars, window, process, below, prompt, suppressed,
                   frozen, exiting, cli, updVars, sysVars, counters>>

\* _finished reads what is left before it judges the exit code; a mutant: it does not.
UnreadDropped == "none"
Unread        == out

Finished ==
    /\ Alive /\ process # "none" /\ cli \in {"zero", "nonzero"}
    /\ label' = IF cli = "nonzero" /\ ~TerminalAfter(Unread) THEN "outcome"
                ELSE LabelAfter(Unread)
    /\ terminal' = TerminalAfter(Unread) /\ devices' = DevicesAfter(Unread)
    /\ process' = "none" /\ cli' = "none" /\ out' = "none"
    /\ UNCHANGED <<cacheVars, window, below, prompt, suppressed,
                   frozen, exiting, updVars, sysVars, counters>>

\* _process_error: a crash (Qt hands over the output first) or a failed start
\* releases the process, an error of a pipe does not.
ProcessError ==
    /\ Alive /\ process # "none"
    /\ label' = "outcome" /\ terminal' = TRUE
    /\ \/ /\ cli \in {"crashed", "failed"}
          /\ devices' = DevicesAfter(out)
          /\ process' = "none" /\ cli' = "none" /\ out' = "none"
       \/ /\ cli = "running"
          /\ UNCHANGED <<devices, process, cliVars>>
    /\ UNCHANGED <<cacheVars, window, below, prompt, suppressed,
                   frozen, exiting, updVars, sysVars, counters>>

\* _project_changed.  E68 has no tasks: choosing it and coming back is one step,
\* which is not told from what may happen in between.
ChooseProject ==
    /\ Responsive /\ ~frozen
    /\ devices' = FALSE /\ label' = "other"
    /\ UNCHANGED <<cacheVars, window, process, terminal, below, prompt,
                   suppressed, frozen, exiting, cliVars, updVars, sysVars, counters>>

\* _execute refuses once the window is frozen; a mutant: only while it is busy.
RefusesWhileBusy == process # "none"
Refuses          == frozen \/ process # "none"

Execute(operation) ==
    IF Refuses \/ (operation = "flash" /\ ~devices)
    THEN UNCHANGED <<process, terminal, devices, label, cliVars, tasks>>
    ELSE /\ process' = operation /\ terminal' = FALSE
         /\ devices' = (devices /\ operation = "flash")
         /\ label' = "going" /\ out' = "none" /\ cli' \in {"running", "failed"}
         /\ tasks' = tasks + 1

ClickScan ==
    /\ Responsive /\ process = "none" /\ ~frozen /\ tasks < MaxTasks
    /\ Execute("scan")
    /\ UNCHANGED <<cacheVars, window, below, prompt, suppressed,
                   frozen, exiting, updVars, sysVars, checks, others>>

ClickOta ==
    /\ Responsive /\ process = "none" /\ ~frozen /\ devices /\ tasks < MaxTasks
    /\ below' = "confirm"
    /\ UNCHANGED <<cacheVars, window, devices, label, process, terminal, prompt,
                   suppressed, frozen, exiting, cliVars, updVars, sysVars, counters>>

AnswerConfirm(yes) ==
    /\ Alive /\ below = "confirm" /\ ~prompt
    /\ below' = "none"
    /\ IF yes THEN Execute("flash")
       ELSE UNCHANGED <<process, terminal, devices, label, cliVars, tasks>>
    /\ UNCHANGED <<cacheVars, window, prompt, suppressed, frozen,
                   exiting, updVars, sysVars, checks, others>>

\* The automatic check comes first and once; the menu's may follow.
CheckForUpdates(asked) ==
    /\ Alive /\ checks < MaxChecks
    /\ IF asked THEN Responsive /\ ~frozen ELSE checks = 0
    /\ label' = IF asked THEN "other" ELSE label
    /\ IF thread # "none" \/ frozen
       THEN UNCHANGED <<thread, verdict, checks>>
       ELSE /\ thread' = "check" /\ verdict' = "none"
            /\ checks' = checks + 1
    /\ UNCHANGED <<cacheVars, window, devices, process, terminal, below, prompt,
                   suppressed, frozen, exiting, cliVars, sysVars, tasks, others>>

\* _can_start_update_install.
CanInstall == process = "none" /\ ~frozen /\ ~exiting

AnswerPrompt(yes) ==
    /\ Alive /\ prompt
    /\ prompt' = FALSE
    /\ IF yes /\ CanInstall /\ thread = "none"
       THEN /\ thread' = "download" /\ verdict' = "none" /\ Begin(Window)
            /\ UNCHANGED <<label, suppressed>>
       ELSE /\ label' = "other" /\ suppressed' = (suppressed \/ ~yes)
            /\ UNCHANGED <<thread, verdict, cacheVars>>
    /\ UNCHANGED <<window, devices, process, terminal, below, frozen,
                   exiting, cliVars, sysVars, counters>>

ClickCancel ==
    /\ Responsive /\ thread = "download" /\ ~cancelled[Window]
    /\ SetCancel(Window) /\ label' = "other"
    /\ UNCHANGED <<window, devices, process, terminal, below, prompt,
                   suppressed, frozen, exiting, cliVars, updVars, sysVars, counters>>

\* UpdateWorker.run emits finished whatever happened; a mutant: not on failure.
ReportedUnlessFailed(end) == IF end = "error" THEN "none" ELSE end
Reported(end)             == end

WorkerEnds ==
    /\ thread # "none" /\ verdict = "none" /\ at[Window] = "idle"
    /\ \E end \in IF thread = "check" THEN {"found", "nothing", "error"}
                                     ELSE {outcome[Window]} :
         verdict' = Reported(end)
    /\ UNCHANGED <<cacheVars, guiVars, cliVars, thread, sysVars, counters>>

\* _launch_verified_installer: the tool quits once the process was created, and
\* is as before when it was not.
Launch(started) ==
    /\ started => target # "absent"
    /\ label' = "other"
    /\ IF started
       THEN /\ frozen' = TRUE /\ exiting' = TRUE /\ window' = "quitting"
            /\ installer' = "waiting" /\ locked' = TRUE
       ELSE UNCHANGED <<frozen, exiting, window, installer, locked>>
    /\ UNCHANGED <<prompt, suppressed>>

HandOver == \E started \in BOOLEAN : Launch(started)

NoHandOver ==
    label' = "other" /\ UNCHANGED <<prompt, suppressed, frozen, exiting, window,
                                     installer, locked>>

\* _finish_update_worker and the handler of what the worker brought.
FinishUpdateWorker ==
    /\ Alive /\ verdict # "none"
    /\ thread' = "none" /\ verdict' = "none"
    /\ cancelled' = [cancelled EXCEPT ![Window] = FALSE]
    /\ outcome' = [outcome EXCEPT ![Window] = "none"]
    /\ CASE verdict = "path" /\ CanInstall -> HandOver
         [] verdict = "path" /\ ~CanInstall -> NoHandOver
         [] verdict = "error" -> NoHandOver
         [] verdict = "nothing" ->
              /\ label' \in {label, "other"} \* it is told if the user had asked
              /\ UNCHANGED <<prompt, suppressed, frozen, exiting, window, installer, locked>>
         [] verdict = "found" ->
              /\ prompt' = ~suppressed
              /\ label' = IF suppressed THEN "other" ELSE label
              /\ UNCHANGED <<suppressed, frozen, exiting, window, installer, locked>>
    /\ UNCHANGED <<target, at, part, devices, process, terminal, below,
                   cliVars, other, early, counters>>

\* A window that is gone has no state left; its process and thread would remain.
Vanish ==
    /\ window' = "gone" /\ devices' = FALSE /\ label' = "other"
    /\ terminal' = FALSE /\ below' = "none" /\ prompt' = FALSE
    /\ suppressed' = FALSE

\* closeEvent; a mutant: it minds only the update thread.
BusyUpdatingOnly == thread # "none"
Busy             == thread # "none" \/ process = "flash"

Close ==
    /\ Responsive
    /\ IF Busy /\ ~exiting
       THEN /\ below' = "warn"
            /\ cancelled' = [cancelled EXCEPT ![Window] = @ \/ thread = "download"]
            /\ UNCHANGED <<window, devices, label, terminal, prompt,
                           suppressed, process, cliVars>>
       ELSE /\ Vanish /\ UNCHANGED cancelled
            /\ IF process = "scan"
               THEN process' = "none" /\ cli' = "none" /\ out' = "none"
               ELSE UNCHANGED <<process, cliVars>>
    /\ UNCHANGED <<target, locked, at, part, outcome, frozen, exiting, updVars, sysVars,
                   counters>>

AnswerWarning ==
    /\ Alive /\ below = "warn" /\ ~prompt /\ below' = "none"
    /\ UNCHANGED <<cacheVars, window, devices, label, process, terminal, prompt,
                   suppressed, frozen, exiting, cliVars, updVars, sysVars, counters>>

\* QApplication.quit takes effect some events later.
Quits ==
    /\ window = "quitting" /\ Vanish
    /\ UNCHANGED <<cacheVars, process, frozen, exiting, cliVars, updVars, sysVars, counters>>

-------------------------------------------------------------------------------
(* The installer and the other instance.                                   *)

InstallerStep(from, to) ==
    /\ installer = from /\ installer' = to
    /\ locked' = (locked /\ to \notin {"refused", "done"})
    /\ UNCHANGED <<target, at, part, cancelled, outcome, guiVars, cliVars, updVars,
                   other, early, counters>>

\* WaitForParentProcess goes on when the window is gone, and also when its process
\* cannot be opened: only one that it waits for can take too long.
ParentGone == window = "gone"

AwaitParent   == InstallerStep("waiting", "mutex")
ParentTimeout == ~ParentGone /\ InstallerStep("waiting", "refused")

\* CheckForMutexes: every GUI holds it for its whole life, a CLI for its command.
CheckMutex ==
    InstallerStep("mutex", IF window # "gone" \/ other = "running" THEN "refused" ELSE "guard")

\* check_running_processes.ps1 finds every process of the install directory; a
\* mutant: only those the mutex shows.
GuardFindsMutex == other = "running"
GuardFinds      == other # "none"

\* It also refuses when it cannot tell.
CheckProcesses ==
    \/ InstallerStep("guard", "refused")
    \/ InstallerStep("guard", "version") /\ ~GuardFinds

\* CheckInstalledVersion: another instance may have installed a newer one.
CheckVersion == \E to \in {"refused", "copying"} : InstallerStep("version", to)

Copied == InstallerStep("copying", "done")

Installer == AwaitParent \/ ParentTimeout \/ CheckMutex \/ CheckProcesses
             \/ CheckVersion \/ Copied

OtherStarts ==
    /\ other = "none" /\ others < MaxOthers
    /\ other' = "starting" /\ others' = others + 1
    /\ early' = (installer \in {"none", "waiting", "mutex", "guard"})
    /\ UNCHANGED <<cacheVars, guiVars, cliVars, updVars, installer,
                   tasks, checks>>

OtherGoesOn ==
    /\ \/ other = "starting" /\ other' = "running" /\ UNCHANGED <<at, early>>
       \/ /\ other # "none" /\ other' = "none" /\ early' = FALSE
          /\ at' = [at EXCEPT ![Other] = "idle"]
    /\ UNCHANGED <<target, locked, part, cancelled, outcome, guiVars, cliVars, updVars,
                   installer, counters>>

\* It downloads at most once; ReadFails stands for its user's cancellation.
OtherDownloads ==
    /\ other = "running"
    /\ (outcome[Other] = "none" /\ Begin(Other)) \/ Download(Other)
    /\ UNCHANGED <<guiVars, cliVars, updVars, sysVars, counters>>

-------------------------------------------------------------------------------

Worker ==
    \/ WorkerEnds
    \/ Download(Window) /\ UNCHANGED <<guiVars, cliVars, updVars, sysVars, counters>>

User ==
    \/ ChooseProject \/ ClickScan \/ ClickOta \/ ClickCancel \/ Close \/ AnswerWarning
    \/ (\E yes \in BOOLEAN : AnswerConfirm(yes) \/ AnswerPrompt(yes))
    \/ (\E asked \in BOOLEAN : CheckForUpdates(asked))

Next ==
    \/ User \/ ReadStdout \/ Finished \/ ProcessError \/ FinishUpdateWorker \/ Quits
    \/ Worker \/ Installer
    \/ (\E line \in {"devices", "empty", "error", "progress", "ok", "result"} : CliSays(line))
    \/ CliDies \/ OtherStarts \/ OtherGoesOn \/ OtherDownloads

Spec == Init /\ [][Next]_vars

\* The worker thread runs, its reads have timeouts, and the event loop, nested or
\* not, handles what the thread posts.
FairSpec == Spec /\ WF_vars(Worker) /\ WF_vars(FinishUpdateWorker)

-------------------------------------------------------------------------------
(* Properties.                                                             *)

TypeOK ==
    /\ CacheTypeOK
    /\ window \in {"open", "quitting", "gone"}
    /\ {devices, terminal, prompt, suppressed, frozen, exiting, early}
         \subseteq BOOLEAN
    /\ label \in {"going", "outcome", "other"}
    /\ process \in {"none", "scan", "flash"}
    /\ cli \in {"none", "running", "failed", "zero", "nonzero", "crashed"}
    /\ out \in {"none", "devices", "empty", "error", "progress", "ok", "result"}
    /\ (cli = "none") <=> (process = "none")
    /\ below \in {"none", "confirm", "warn"}
    /\ thread \in {"none", "check", "download"}
    /\ verdict \in {"none", "found", "nothing", "error", "path"}
    /\ installer \in {"none", "waiting", "mutex", "guard", "version",
                      "copying", "done", "refused"}
    /\ other \in {"none", "starting", "running"}

\* The window is never gone while its OTA process or its update thread runs: Qt
\* would kill the one in the middle of programming and crash on the other.
WindowOutlivesItsWork == window = "gone" => process = "none" /\ thread = "none"

\* Once the installer is started this window starts nothing, also not from a
\* question that was asked before, nor from an event already queued.
NothingAfterHandOver == exiting => process = "none" /\ thread = "none"

\* An OTA never ends with the label still telling that it goes on, however the
\* process ended, unless an error of its pipe had been taken for its end.
NoSilentEnd ==
    [][process = "flash" /\ process' = "none" => label' # "going" \/ terminal]_vars

\* What is executed is an installer whose size and hash were verified, whoever
\* put it into the cache.
LaunchedIsVerified == locked => target = "good"

\* No instance of the tool that was there before the process guard's answer runs
\* while the files are replaced.
InstallerSparesTools ==
    installer = "copying" => window = "gone" /\ process = "none" /\ ~(other # "none" /\ early)

\* Every check and download comes to its end: cancelled or not, found or failed.
ThreadEnds == thread # "none" ~> thread = "none"

\* A failure removes an installer only if it is not the right one, or if it could
\* not be read.
GoodInstallerKept ==
    [][target = "good" /\ target' # "good" =>
         \E d \in Downloaders : at[d] = "unread" /\ at'[d] # "unread"]_vars
===============================================================================
