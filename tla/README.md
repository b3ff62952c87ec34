# Verification of the ECU firmware release tool

TLA+ models of the tool that programs ECUs over CAN and LIN, packs and publishes
releases, keeps itself up to date and hands over to its own installer; the TLC runs
that check them on small instances; and TLAPS proofs of what matters most for every
size. Paths are relative to the repository; `src/unified_can_lin_host_tool/` is
abbreviated `uclht/`.

## 1. The system

| Part | State | Operations | Where it is hard |
|---|---|---|---|
| **AS5PR OTA state machine** `uclht/as5pr/ota_state_machine.py` | step of the chain, `_destructive_started`, block counter, token | `run`: probe, hand-over to Boot, security access, driver and App download, erase, authentication, reset, verification against a deadline | some forty requests of which any can be lost, refused, answered late or cancelled; a request that timed out may still be served; the status must tell truthfully what is left in the flash |
| **Identity probe** `uclht/release/ecu_identity.py` | none | two DIDs, classified as App, Boot, other project, no response | decides whether programming may begin, from answers that may be old |
| **CAN ISO-TP transport** `uclht/transport/can_isotp.py` | attempt, frames sent, block, WAITs, deadline, response being put together | `request`: segmentation, flow control, polling, reassembly, 0x78, cancellation | frames of an earlier request in the queue; WAITs that prolong a call; sequence numbers modulo 16 |
| **LIN diagnostic transport** `uclht/transport/lin_diag.py` | frames sent, deadline | `request`: segmentation, polling by headers, 0x78, ignored answers, cancellation | a cancelled call leaves half a request in the ECU's assembler, an answer in the slave's buffer |
| **Adapters** `uclht/adapters/tsmaster.py`, `usb2xxx.py` | library, connection, FIFO, handle; frames received, not returned | probe, scan, open, close, `receive_can_frame` | a dozen calls to the vendor's library, any of which fails; a batch holds more than the one frame returned |
| **Flash workflows, their programs** `uclht/e68/`, `uclht/as5pr/flash_workflow.py`, `uclht/cli/` | place in the chain, block counter, deadline | load, open, sessions, keys, downloads, reset, polling of the DID, close | the chain must fit the ECU's states; polls with a timeout of their own against a deadline; what an earlier run left behind |
| **Release window** `uclht/ui/release_workspace.py`, `update_worker.py`, `app.py` | child process, update thread, prompt, frozen/exit flags, label | scan, OTA, CLI output/error/end, update check, prompt, download, hand-over, close | message boxes nest the event loop; process exit, its output and its errors are separate events |
| **Release command line** `uclht/cli/release.py` | none | one command, lines of JSON, exit code | it may crash at any line |
| **Update cache** `uclht/update/service.py`, `https_client.py` | installer file, `.part` files | `download`, clean-up | two instances share one directory without a lock |
| **Update check** `uclht/update/github_release.py`, `metadata.py`, `service.py` | none | locator, update file, signature; one retry; version | releases come and go between three reads |
| **Run mutex** `uclht/update/runtime_mutex.py` | a named mutex per process | held for life | a process exists before it holds it |
| **Installer, process guard** `installer/EcuReleaseTool.iss`, `check_running_processes.ps1` | step of `PrepareToInstall` | wait for the parent, test the mutex, test the processes, test the version | instances started between two tests |
| **Diagnostic window, session and backends** `uclht/ui/main_window.py`, `ui/workers.py`, `backends/`, `core/session.py` | enabled buttons, workers and threads, current session, exclusive owner | scan, connect, UDS, flash, cancel, close | results, ends of threads and clicks in any order; ownership released on every path |
| **Artifact store, composer** `uclht/release/artifact_store.py`, `inspector.py`, `composer.py` | entries, `full_image.hex` and `.s19` | inspect, `put`, load, compose | two processes put one identifier; the source is read again after it was checked; a pair of files replaced one by one |
| **Image texts** `release/composer.py`, `release/image_parser.py`, `firmware/image.py` | none | write HEX and S-records, read them, cut a window out | 64 KiB pages, entry address, lines lost, repeated or out of order; two readers |
| **Packages** `uclht/release/package_builder.py`, `build_identity.py`, `package.py` | the package file | identities, bytes, temporary file, verification, replacement | the firmware build runs between the reads |
| **Vendor library cache** `scripts/release_build.py`, `bootstrap_release_tools.ps1` | a directory of two files | look, clone, verify, rename | two builds, a crash, a virus scanner |
| **Release workflow** `.github/workflows/release.yml`, `scripts/` | release of a tag, its assets | gate, build, audit, sign, draft, upload, compare, publish | two runs of one tag; a job that dies |

`RuntimeOta` hands a validated package to the state machine, which calls
`transport.request`; the transport calls an adapter. The window runs the command
line as a child process and reads its lines; it runs update checks and downloads
in one thread; the cache and the mutex are shared with other instances and with
the installer. The update check reads what the release workflow published. The
diagnostic window and the flash workflows are not part of the shipped program: only
tests and development commands use them.

What makes each part correct, in one sentence each:

* OTA: the status reported is true of the App flash now and stays true, nothing is
  programmed before Boot identified itself, another project's ECU is only asked for
  its identity, a cancelled run sends nothing more, a run ends.
* Transports: requests are carried out in order and at most once, an answer is
  returned whole, at most once and never for a request yet to come; a call ends.
* Flash workflows: success means the new App has answered; a program ends, leaves no USB
  device open, and gives back what a TSMaster open that returned has taken (one that fails
  midway leaves something behind: section 4).
* Window: it does not go away while it programs or a thread runs, starts nothing
  after the hand-over, tells how an OTA ended, and lets no unverified file run.
* Installer: replaces no file under a running instance.
* Update check: offers only a newer release that was gated, audited and signed, and
  finds it when nothing disturbs.
* Release files: what is loaded is what was asked for; a pair matches; an image
  survives its text; a package and a cache are verified as a whole.
* Diagnostic window: one worker at a time uses a session's channel and gives it back
  however it ends; no session in use is closed; every operation can be chosen
  again in the end.

## 2. The modules

| Module | Models | Uses |
|---|---|---|
| `As5prEcu` | the ECU as the tool's requests and expected prefixes presuppose it (external) | |
| `As5prOta` | the state machine, the probe, the outcomes of `request`, the bus | extends `As5prEcu` |
| `OtaPromise` | what a run promises its user | refined by `As5prOta` |
| `CanIsoTp` | the CAN transport, the adapter's queue, the ECU's end of ISO-TP (external) | |
| `LinDiag` | the LIN transport, the simulated ECU's assembler | |
| `UdsChannel` | what a transport promises | refined by `CanIsoTp` and `LinDiag` |
| `DeviceSession` | how programs open, scan, probe and close devices | |
| `FlashWorkflow` | both request chains, the simulated ECUs' answers | |
| `FlashCli` | the programs: session, workflow, exit code | extends both |
| `UpdateCache` | `download` of any number of instances | |
| `ReleaseWorkspace` | window, child process, thread, installer, other instance | extends `UpdateCache` |
| `ReleasePublication` | runs of the release workflow | |
| `UpdateDiscovery` | an update check against what is published | extends `ReleasePublication` |
| `ArtifactStore`, `FullImage`, `ImageText`, `PackageFile`, `RuntimeCache` | the five kinds of files several processes work on, by the users of `FileUsers` | |
| `ReleaseFiles` | the five, one at a time | extends them |
| `DiagWindow` | the diagnostic window, its workers and threads, `BusSession` | |
| `MCAs5prOta`, `MCFlashCli`, `MCReleaseFiles` | the checked instances | |
| `As5prOta_proofs`, `ReleaseWorkspace_proofs`, `DiagWindow_proofs`, `FlashCli_proofs`, `ReleaseFiles_proofs`, `UpdateDiscovery_proofs`, `LinDiag_proofs`, `CanIsoTp_proofs` | theorems | each extends its module |

### As5prOta and the code

`step` is the request `run` is at; `Service` names what it sends, `Following` what
comes next where the answer leaves no choice. A request is three steps:
`Begin` (the token check, and `_destructive_started` set before the erase is sent),
`Transmit`, and `Receive` or `TimeOut`; so a cancellation, an answer to an older
request, an ECU restart or a fault falls between any two. `Goto`, `Accepted`,
`UdsError` and `Identity` are the branches of `run`, `_download`, `_erase` and
`_verify_after_reset`, `Finish` the statuses of the `except` clauses.
`Matches` is the expected prefix with the sequence number. Two blocks and a counter
that wraps after two stand for the block loop. The transport is seen by what
`UdsChannel` promises, plus the answers left over from earlier requests; the other
errors are `SendFails`. Package rejection is a result of `Start`: it precedes every
request. Progress events and texts are left out.

### CanIsoTp and the code

`pc` is the loop `request` is in: sending the first frame, awaiting flow control,
sending consecutive frames, polling, assembling. `TakeFlowControl` and
`FlowControlTimeout` are `_wait_for_flow_control` with its retry of the first
frame, `SendConsecutive` the block loop, `Poll`, `Assemble`, `Broken`, `Answer`
the receiving half with 0x78 and with what `ignore_invalid_responses` passes over,
`ResponseTimeout` the deadline. A frame carries the call it belongs to and its
true position as history; the code's checks see only its type, service and
number modulo `SeqMod`. `KeepsBatch` chooses between the two adapters.
stMin and the 5 ms polls only take time.

### LinDiag and the code

A request is its frames, each sent by a step that looks at the token before and after
(`SendFrame`); `TakeFrame` is one turn of `_poll_response`: what is broken, of another
service, pending or of another prefix is passed over (`Ignored`, `Waits`), the rest
returned or raised. `Assembled` is `LinUdsRequestAssembler`, which forgets a
started request at a first or single frame (`Resets`). The window's `request_uds` gives no
prefix, the workflow always does: `Services` has both.

### DeviceSession, FlashWorkflow, FlashCli and the code

A TSMaster program's calls to the library are a script (`LinOpen`, `CanOpen`, `Scan`, ...),
gone through one call at a time by `OpenCall` and `OpenCallFails`, `Unguarded` the calls
outside the try block; `dev` records what the library was told. The
USB2XXX scan looks at one device after another (`UsbStep`). `Close` is `close` with its mode.
The chains are sequences of requests, built as `run` builds them, from
`SecurityAccess`, `DownloadImage` and so on for either workflow; `at` is the place in the
chain, `late` that the polling deadline has passed. The ECU is the response plans of
the virtual adapter (`Responses`, `Stored`), with the restart in between. `FlashCli` puts
the work between opening and closing, and starts programs again on what is left.

### ReleaseFiles and the code

Each area is a module with users that run the same function on the same files, one
file operation a step: reads, renames and removals of one user fall between those of
another. `ArtifactStore` has an identifier for each content, as hashes are injective here;
`Outcome` is the comparison after a failed rename. `FullImage` writes, replaces and removes the
two files in `compose_full_image`'s order. `ImageText` holds one text at a time:
`Write` encodes regions as `_encode_hex` or `_encode_s19` do, its environment loses, repeats
or swaps lines, and `Parsed` and `Loaded` are the two readers, as folds over the
lines; `Sorted` takes in one segment after the other, which orders them as Python's stable
sort does. In `PackageFile` the parts and the identities carry the number of the firmware build
they come from. In `RuntimeCache` a file is good, bad or gone.

### ReleasePublication, UpdateDiscovery and the code

A run of the workflow is its jobs in order, each of which may fail or die; `release` and
`assets` are what the release page holds of it. `Push` may come twice for one tag; `Delete` is a
maintainer's. `twice` is history: two runs of one tag were at the release page at once.
`CheckForUpdate`, `ReadLocator`, `ReadJson`, `ReadSignature` are the reads of a
check, `Verified` what `verify_signed_update` compares, `Mismatch` the retry.

### UpdateCache, ReleaseWorkspace and the code

Each step of `download` is an action: look at the file, remove it (also a right one that
cannot be read), create the part, read, end of stream, place it, clean up; another instance runs the same
steps on the same file. In the window, every Qt slot is one action. `below` is the
box a handler of the window waits in and `prompt` the update prompt above it:
actions that need the user are guarded by `Responsive` or by the box on top,
actions that events cause are not. `cli` and `out` are the child's state and its
last line; `Finished`, `ReadStdout` and `ProcessError` may come in any order Qt
allows. `installer` walks through `PrepareToInstall`.

### DiagWindow and the code

`job` is what each worker does, on which session, and how far its `run` is; `queue`
the events posted to the GUI, handled in order by `Handle`; `threads` is
`_active_threads`, `enabled` the buttons. `StartWorker` is `_start_worker` behind
each clicked handler. `Ends` is the end of a `run`: the result, the lambdas that
give buttons back and the thread's `quit`, in the order they are connected; a lambda
has no receiver, so PySide6 may call it in the worker's thread at once or post
it, and both are modelled. `ThreadFinished` is `_remove_thread` with
`_refresh_operation_controls`. `CloseEvent` and `StopReturns` are
`_stop_active_threads` before and after its waits, in which the GUI handles nothing.
`owner` is `_diag_owner` of each session; taking it, opening the log, working and
the `finally` clause are separate steps. `stuck` is history: sessions whose log
failed while they were owned. A request or flash that succeeds, fails or is cancelled
ends alike; texts and progress are left out.

## 3. The runs

| Run | Shows |
|---|---|
| `ota` | Two runs, two faults, a matching or a foreign ECU: all OTA properties, the refinement of `OtaPromise`, and that each run ends |
| `ota_cancelled_safe` | finding 1 |
| `isotp` | Two calls, one fault, single and multi frame both ways: the transport's properties, the refinement of `UdsChannel`, and that each call ends |
| `isotp_batch` | finding 2 |
| `lin` | Three calls, two faults, cancelled anywhere: an undisturbed call returns its own answer, and the refinement of `UdsChannel` |
| `flash` | Every program, every failing call, both chains, two starts, two faults: success means the new App, an undisturbed flash succeeds, what an open took is given back, programs end |
| `workspace` | Two CLI tasks, two checks and downloads, another instance and the installer: the window's, cache's and installer's properties, and that every check and download ends and is noticed |
| `workspace_good_installer` | finding 3 |
| `discovery` | Two workflow runs of one tag or two, dying anywhere, and a check meanwhile: what is published is whole, what is offered fit, and a calm check finds the latest |
| `files` | Two users at each of the five kinds of files, with edits, damages, crashes, failing renames and firmware builds |
| `window` | Six workers, two at a time, two sessions, one attempt to close, one log failure: the diagnostic window's properties, and that every thread ends |
| `window_one_request` | finding 4 |

**Bounds.** `ota`: `MaxRuns` 2 lets a request or answer of one run meet the next,
and starts the second from every state the first can leave the ECU in; `MaxFaults` 2
lets a lost answer be followed by a restart; `MaxBus` and `MaxRx` 2 put a late
request or answer before the current one; two App blocks under `SeqMod` 2 make the
counter wrap inside a transfer and two requests carry the same number.
`isotp`: two calls for late answers, `Cfs` {0, 2} for single and segmented
messages, a block of one or none, `SeqMod` 2 so that a number repeats within one
message, one WAIT, two attempts, one fault; the ECU repeats WAIT and 0x78 only
while the receive queue is short (`MaxRx`).
`lin`: `Cfs` {0, 3} with `SnModulus` 2 makes the number wrap; the third call meets what two
left behind.
`flash`: two channels and two devices so that the last differs from the first; two blocks with
`Modulus` 2 so that the counter wraps; the second start meets the first one's answers;
`MaxFaults` 2 is a loss and its consequence.
`workspace`: an OTA needs a scan before it, hence `MaxTasks` 2; the second check
covers "later" and a second download that finds the first one's file; the other
instance starts once; files are one unit long, so that too short, exact and too
long are distinct.
`discovery`: two workflow runs meet in pairs; two versions are newer, equal or older.
`files`: two users for every interference of two, with symmetry; two contents to confuse, two
extensions; images of up to eight bytes, lines of two, pages of three, so that a page ends inside a
line, on its edge and between two regions; an edit or harm before and one after a check.
`window`: two workers at a time is what it takes for one to disturb another; six starts
reach a scan, two connections and three requests, on either of two sessions; one
failing log is one path of each kind.
Every bound is a guard on a counter of the environment, never on a step
of the tool. `CHECK_DEADLOCK FALSE`: when the counters are used up, the system stops.

**Fairness.** `ota`: the tool's thread goes on (`WF(ToolStep)`), clocks reach their
deadlines (`WF(TimeOut)`, `WF(DeadlinePasses)`); nothing is assumed of ECU, bus or
user. `isotp`: the calling thread goes on and each deadline comes; as a WAIT
sets the deadline anew, each WAIT has a fairness conjunct of its own.
`flash`: the program goes on, whatever its calls return, and the deadline of the polling
comes; the ECU serves what reached it and comes back from a restart, without which a
poll's timeout could be put off for ever. `workspace`:
the worker's thread goes on (its reads have timeouts) and the event loop, nested or
not, handles what the thread posts. `window`: workers go on (their requests
have timeouts), the event loop handles what is posted, the waits of `closeEvent` are
limited. `lin`, `files` and `discovery` state no liveness.

## 4. Findings

1. `ota_cancelled_safe`: a cancellation after `$10 02` was accepted reports CANCELLED_SAFE with the ECU in Boot.
2. `isotp_batch`: the TSMaster adapter loses frames that arrive in one batch.
3. `workspace_good_installer`: a failing download deletes the valid installer another instance placed.
4. `window_one_request`: two connections to one channel have a session, and so an owner, each; two requests run at once.

`PROJECT.json` quotes the lines each of them contradicts. Divergences met and not given a run:

* A cancellation during the verification reports ECU_IN_BOOT although the new App runs (design of 2026-07-13, line 340).
* Security access cannot be awaited on cancellation, the recovery does not fall back to
  `10 01` and leaves the receive queue alone, and exit codes are 0, 2, 3, 4 instead of
  0 to 8 (same design, lines 336 to 344); the status byte of the erase routine is not looked at.
* The late answer to an earlier request is accepted for the next one of the same service
  (`tests/test_can_isotp_transport.py:100` has stale answers passed over).
* The installer is started although another instance holds the mutex (auto-update design, line 332);
  `InstallerSparesTools` holds all the same, as the installer refuses.
* A program whose TSMaster open fails midway does not take back what it told the library. `_initialize` makes two calls, and
  `probe`, `open_lin` and `open_can` call it before their try blocks (`tsmaster.py:183`, 299, 350): when
  `tsapp_set_current_application` (line 614) fails, nothing finalizes the library unless `main` knows the adapter already, which the
  release tool (`cli/release.py:89`, 245), the window and the probe do not. When a call after `tsapp_connect` fails (lines 327 to 336,
  374 to 381), `close` finalizes without `tsapp_disconnect` and leaves the FIFO enabled, as `_opened` is set last. Design of
  2026-07-13, line 344: every way out closes up as the hardware adapter asks for ('按硬件适配器约定收口'); plan of 2026-04-26
  (m0), line 889: '完成后需要 disconnect/finalize'. TLC finds both when `TakenIsGivenBack` is stated for every program that has
  ended; it says itself what it exempts.
* A firmware build between the reading of the identities (`package_builder.py:46`) and of the bytes (line 54) yields a
  verified package of two builds (package design of 2026-07-13, line 14: '必须来自同一次构建'; line 178): the condition `rebuilt` in
  `PackageIsVerified`, without which TLC finds it.
* The composer cannot write an image whose regions touch (`composer.py:120`: they are read back as one),
  nor S-records of an image that does not cover address 0 (line 104, refused by the parser): the
  conditions in `ComposedIsReadBack`.
* Two runs of one tag that are past line 142 of `release.yml` together can publish both, or one with
  the other's assets: the condition `twice`.

Where a property exempts what may still go wrong, no hazard of `PROJECT.json` counts it as covered: a failed open and a firmware
build in between (above), a log that fails while a request owns the channel (`stuck` in `OwnerIsAtWork`), an instance started between the guard's
answer and copying (`early` in `InstallerSparesTools`), a pipe error taken for the end of a task (`terminal` in `NoSilentEnd`), a
crash or a second composer between two replacements (`excuse`, `alone` in `ImagePairMatches`), two runs of one tag (`twice` in
`PublishedIsWhole`). An unsigned
locator that is well-formed but old (`github_release.py:50`, served by a CDN) is not among the files `UpdateDiscovery` lets be spoilt.

## 5. What is proved

Each theorem is for every value of the constants that the named assumptions allow
(`ImageAssumption`, `BoundAssumption`; `ConstantsAssumption` of `CanIsoTp` and of `LinDiag`;
`CacheAssumption`, `WorkspaceAssumption`; `DiagAssumption`;
`SessionAssumption`, `WorkflowAssumption`, `RunsAssumption`; `TextAssumption`; `NoneIsNoContent`, that the mark for "no content" is
not a content; `VersionsAssumption`, that versions are positive). Three theorems have a hypothesis beyond
these, and so have three of `CanIsoTp`; each is justified below, and each holds in the instance TLC checks.

**`As5prOta_proofs`**, any number of runs, faults and blocks, any buffers, either target.
`IInv` has three parts. `TypeOK`: all variables have their types.
`RunOK`: the destructive flag is set exactly where the chain is past the start of the erase, and
from the first download on `confirmed` holds. `WireOK`: a request that can
change the App flash is on the bus, or a transfer that can is open in the ECU, only when
`Exposed`. None of the properties is inductive alone: `DamageIsDeclared`
speaks of a step of the ECU long after the tool sent the request, so the fact that
the flag was set before it was sent has to travel with the request, which is `WireOK`; and
that the flag has been set needs the place in the chain, which is `RunOK`.
`OtherOK` adds, for an ECU of another project, that no answer under way confirms an identity: so
the run never leaves its first probe.
`Inductive`: `Spec => []IInv`, one step per action. `TypeCorrect`, `IdentityGate`,
`NoUndeclaredDamage`, `CancellationStops`, `OtherEcuIsSpared`: `TypeOK`, `IdentityBeforeProgramming`,
`DamageIsDeclared`, `CancelStopsRequests`, `OtherEcuIsOnlyProbed`.

`VerdictsAreTrue` (`CommittedVerdicts`) has to rule out that an answer to a request of an earlier run is taken for
the one that vouches for the App. The code accepts such answers (it looks at the service only), so the
argument counts: what is under way can be `Numbered` in the order in which it was asked, a run has had
seven answers accepted before it sends the erase (`Rank`), each of them used up one place (`UsedUp`), and
no more than `MaxBus` requests were left over when it began. With `MaxBus <= 7`
nothing of an earlier run is left from the erase on: the run is `Alone`, its answers are its
own (`OwnOK`), and `AnswerIsTrue` and `Settled` carry the verdict until the next run. The hypothesis is about the ECU's receive
buffer: a UDS server serves one request at a time and keeps one or two (the instance has 2).
`PromiseKept` (`KeepsPromise`): initial states map to initial states, and `PromiseStep` maps every step to one of
`OtaPromise` or a stutter, under the same hypothesis. `UndisturbedCompletes` (`UndisturbedRunCompletes`)
follows the ECU along with the run: `EcuAt` is the ECU state each place of the
chain finds, `Untroubled` and `CalmOK` that the answer on its way is the one the run waits for.

**`CanIsoTp_proofs`**, any number of calls, faults and frames, any block sizes, any modulus of the frame number.
`TypeInv` ties the numbers of a block and of the frames sent to the place in `request`.
`GrantsAreRespected` (`GrantsRespected`): what the ECU still expects covers the frames on their way
and what the host may yet send (`Credit`), whatever is lost.
`AnswersAreWhole` (`AnswersWhole`): the frames of one answer form a chain through inbox, queue and the payload being
put together, though the first may have come during an earlier call. `CallReturns`
(`UndisturbedCallReturns`) and `NoWaitIsVain` (`NeverWaitsInVain`) share one invariant of a calm call, which says where its only
request or answer is: `SingleSent`, `FirstSent`, `InTransit`, `Granted`, `CarryingOut`, `Answered`; `AskedFor` and `Coming` say
what the host waits for and that it comes. These three assume `KeepsBatch = TRUE`, which the USB2XXX adapter is; that
TSMaster's is not is finding 2, and with it they are false.
`ChannelKept` (`KeepsChannel`, for either adapter): along each queue requests and answers rise (`OrderOK`), which orders what is
carried out and what is returned. That a request is carried out whole has two reasons (`WholeOK`): unless something of an earlier call is left over, all
frames on their way are of the request at hand and beyond what is assembled of it (`InOrder`), so one that lacks a frame is
never completed; and as long as nothing is lost, the frames follow one another from what is assembled
to what is still to be sent (`Unbroken`), whatever is left over.

**`LinDiag_proofs`**, any number of calls, faults and frames of a request, any modulus. `TypeCorrect`: `TypeOK`. `ChannelKept`
(`KeepsChannel`): the requests on the bus, in the assembler and carried out rise (`RequestsRise`), so do the answers (`AnswersRise`);
wholeness as above. `CallReturns` (`UndisturbedCallReturns`): `Calm` counts the frames of an undisturbed call that have `Arrived`
and says what is under way at each count.

**`ReleaseWorkspace_proofs`**, any size of the installer, any number of tasks, checks and starts of
the other instance. `CacheOK`: a part that is about to be placed is whole, no instance that ended with a path
did so over a bad file, and nothing but the right file is locked; with `NeverSpoilt` (a file that is
not bad never becomes bad) the verdict can wait in the event queue while the other instance removes and
replaces the file. `WorkOK`: a window that is quitting has handed over, one that has is frozen and idle, one
that is gone has no work, the installer past its mutex test knows the window gone (its wait does not tell, as it
goes on when the process cannot be opened), and past its guard that no earlier instance runs. `OnlyVerifiedIsLaunched`, `WindowStays`, `HandOverIsFinal`, `ToolsAreSpared`:
`LaunchedIsVerified`, `WindowOutlivesItsWork`, `NothingAfterHandOver`, `InstallerSparesTools`.
`EndIsShown` (`NoSilentEnd`): `EndIsTold`, a process whose OTA ended well has written so, and the window has read it or
finds it unread when the end of the process is handled.

**`DiagWindow_proofs`**, any set of workers and any number of starts, sessions,
attempts to close and log failures. `IInv` adds to `TypeOK`: a worker that lives is on the thread list, and the
backend can be chosen only when the list is empty (`GuiOK`); each session has
one user whom `owner` names (`BusOK`); neither the current session nor a
worker's is closed (`SessionOK`); each connection and each thread's end is announced
once, and a session still announced is neither current nor closed
(`QueueOK`). `SessionInUseIsOpen` needs all of it: a session that is closed was current, it
became so through an event, and it was given to workers whose threads are
on the list that keeps the backend from being changed. `EndsKeeps` and
`MovesKeeps` do the work for every step of a worker. `InvariantHolds`, `TypeCorrect`, `OwnershipHolds`,
`ClosedSessionsIdle`, `WindowOutlivesWorkers`: `IInv`, `TypeOK`, `OwnerIsAtWork`, `SessionInUseIsOpen`, `GoneIsQuiet`.
`IdleWindowUsable` (`IdleIsUsable`) adds `ButtonsOK`: which buttons each running operation took away, and
that the event which gives them back is posted before its thread's end, so that it is handled
before the list is empty (`FollowedOK`), with a session (`SomeSessionOK`) or without (`NoSessionOK`).

**`FlashCli_proofs`**, any number of channels, devices, blocks and starts. `SessionInv`: TSMaster programs
open no handle, a USB program has at most the one it looks at or took (`UsbIsOk`), and where it stands says
whether an adapter is there to close it (`Held`). `LibraryIsOk` follows the script: the library is not initialised before its first
call and after each "finalize", so a failing "initialize" leaves nothing (`InitializeIsFirst`), a failing call inside the try block
finalizes, and only "current" in a program that does not know its adapter is left. `TakenDeviceIsGivenBack`: `TakenIsGivenBack`. It
says nothing of the connection after a failed open, which stays (section 4).
`SuccessIsTheNewApp` (`SuccessMeansNewApp`) counts as `VerdictsAreTrue` does (`FlowInv`): an earlier start and a fault leave at most
one request or answer nobody waits for (`Leftover`), each accepted answer of another request keeps the
run as far behind (`Lagging`), and with fewer of these than requests before the erase none is left that could stand in for the
erase's answer (`Erasing`); from there on run and ECU are `InStep`. Hence
its hypothesis `MaxRuns + MaxFaults <= Blocks["driver"] + 12`; it is sufficient, not claimed necessary, and the
instance has 2 + 2. `UndisturbedRunSucceeds` (`UndisturbedFlashSucceeds`): `ReadyFor` is the ECU
that each request finds, `SideBySide` that run and ECU go through the chain together. The fake adapter has no ECU; `FakeRuns` says that its list of
answers is taken off one after the other: `FakeAnswersAre`, by induction along `FlattenSeq`'s function, tells where on the
list the answers to each request end, `FakeNext` that what is next is the pending answer or the answer the run waits for.
(The lemmas on induction and `FlattenSeq` are those of `ReleaseFiles_proofs`, stated again for this module.)

**`ReleaseFiles_proofs`**, any number of users, contents, edits, builds and harms, images of any size, one invariant per area.
`RuntimeInv`: a stage that passed is good whatever happens to the cache. `StoreInv`: what a job knows of its
source at each place between the checks and the rename. `ImageInv`: which of the two files a composer between
its two writes has replaced. `PackageInv`: identities and parts are of one build until the first
rebuild. `RuntimeVerified`, `StoreTruthful`, `ImagePairHolds`, `PackageVerified`: the properties of these four areas.
`TextKept` (`TextKeepsImage`): `TextInv` only says that an undamaged text is the one that was written, that a damaged one has
lines that are good by themselves, and what a compiled one without a data line looks like; the work is what the writers and readers
compute from lists of any length. That takes induction over data, which the library's theorems cannot give (they take an operator);
`LeastNumber` and `Induction` state it for a set of naturals, and `FoldExists` with one lemma for each fold (`ReadFold`, `SortFold`,
`MergeFold`, `JoinFold`, `WindowFold`) turns a fold into a run whose steps can be counted. `SortIs`: `Sorted` is an ascending
reordering. `FinishIs`: merging it gives blocks with gaps that cover what the list covers, or refuses where segments overlap.
`SameCoverSameBlocks`: such blocks are determined by what they cover, which is why reading back finds the very regions unless they
touch. `MemoryIs`: as a byte's value is its address, equal coverage is equal memory. `LoadersAgreeHolds`: both readers collect the
same segments (`ReadersLink`), the loader's slices cover the window's part of them (`SlicesAre`), and joining succeeds exactly when
they leave no gap (`JoinIs`). `ChunksAre`, `HexTextIs` and `TextsAre` say which lines the writers write, `HexIsRead`, `S19IsRead` and
`CountIsRead` what becomes of them.

**`UpdateDiscovery_proofs`**, any number of workflow runs and any versions. `RunIsOk`: no release was created before
all jobs have passed; `TagIsOwn`: until two runs of one tag meet, a run at the release page finds no other release
of its tag; `OfferInv`: a check that has read an update file holds one of a fit run. `DiscoveryIsTyped`,
`OnlyWholeIsPublished`, `OnlyFitIsOffered`: the types, `PublishedIsWhole`, `OfferIsFit`. `CalmCheckTellsLatest`
(`CalmCheckDecides`): while nothing is published or deleted, each read of the check is still true of the release page (`CalmInv`,
`ReadsAreTrue`) when the next is made.

Only model-checked: `RunEnds`, `CallEnds`, `ThreadEnds`, `ThreadsEnd` and `ProgramEnds`, liveness under fairness, which the prover does
not reach.

## 6. What is left

1. Weaker hypotheses for the theorems that count: `MaxBus <= 7` and the bound of `SuccessIsTheNewApp` compare what may be left over with
   what is asked before the erase; how much of it can really be of a matching service is not looked at.
2. The order of the release window's label changes: no line of the repository says how long a
   result must stay visible, so there is no property to state yet.
3. A crash of the tool in the middle of a download leaves its part file for good; nothing ever reads it.

## 7. Not modelled

What happens inside the vendor DLLs; Qt's widgets; HTTP redirects and headers; hashes and signatures (a file is genuine or not);
CRC and key algorithms (bit arithmetic with fixed tables that tests pin); the checks of fields of a manifest, a
project configuration, a package layout or an audit, which read a record and keep no state and appear as one
condition each; the fake backend, a test double; file dialogs, profiles and logs; the installer's uninstall and command
line.
