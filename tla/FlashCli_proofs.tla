---------------------------- MODULE FlashCli_proofs ----------------------------
(***************************************************************************)
(* TakenIsGivenBack, SuccessMeansNewApp and UndisturbedFlashSucceeds for   *)
(* any number of channels, devices, blocks and starts of the program.  The *)
(* second holds while the starts and the faults together are fewer than    *)
(* the requests up to the erase.                                           *)
(***************************************************************************)
EXTENDS FlashCli, Integers, FiniteSetTheorems, SequenceTheorems, WellFoundedInduction, TLAPS

Devs == [lib : BOOLEAN, connected : BOOLEAN, fifo : BOOLEAN, lin : BOOLEAN,
         clean : BOOLEAN, handles : SUBSET Nat]

SessionType ==
    /\ stage \in {"load", "open", "work", "close", "ended"}
    /\ dev \in Devs /\ nth \in Nat \ {0} /\ opened \in BOOLEAN /\ skip \in BOOLEAN
    /\ held \in BOOLEAN
    /\ skip => prog \in {"e68", "as5pr", "window"}

\* What TSMaster was told is undone by Close alone, which needs an adapter
\* that is open.
TsmasterIsOk ==
    ~Usb => dev.handles = {}

Quiet(d) == d.lib = FALSE /\ d.connected = FALSE /\ d.fifo = FALSE /\ d.lin = FALSE

\* USB2XXX has one device open at most: the one it looks at, or took.
UsbIsOk ==
    Usb =>
        /\ Quiet(dev)
        /\ dev.handles \subseteq {Handle}
        /\ stage = "open" /\ dev.handles # {} => nth <= LastDevice

Held ==
    /\ stage \in {"load", "open"} => ~held /\ ~opened
    /\ stage = "load" => dev = Down
    /\ stage = "work" => opened
    /\ stage = "close" /\ held => opened
    /\ stage = "close" /\ Usb => opened
    /\ stage = "ended" => dev.handles = {}
    /\ stage = "ended" /\ held /\ ~skip => dev = [Down EXCEPT !.clean = dev.clean]

SessionInv == SessionType /\ TsmasterIsOk /\ UsbIsOk /\ Held

\* A library that was told nothing.
LEMMA DownIsDev ==
    /\ Down \in Devs /\ Down.handles = {} /\ Down.lib = FALSE
    /\ Down.connected = FALSE /\ Down.fifo = FALSE /\ Down.lin = FALSE
BY DEF Down, Devs

\* A device of which the library was told nothing, but to clear its buffer.
LEMMA QuietIsDown ==
    ASSUME NEW d \in Devs, d.lib = FALSE, d.connected = FALSE, d.fifo = FALSE, d.lin = FALSE,
           d.handles = {}
    PROVE  d = [Down EXCEPT !.clean = d.clean]
<1>1. ASSUME NEW e \in Devs, NEW c \in BOOLEAN
      PROVE  [e EXCEPT !.clean = c] =
               [lib |-> e.lib, connected |-> e.connected, fifo |-> e.fifo, lin |-> e.lin,
                clean |-> c, handles |-> e.handles]
  BY DEF Devs
<1>2. d = [lib |-> d.lib, connected |-> d.connected, fifo |-> d.fifo, lin |-> d.lin,
           clean |-> d.clean, handles |-> d.handles] /\ d.clean \in BOOLEAN
  BY DEF Devs
<1> QED
  BY <1>1, <1>2, DownIsDev

\* Every script begins with its first call.
LEMMA OneIsCounted == 1 \in Nat \ {0}
OBVIOUS

\* Whatever the library is told, no USB device is opened by it.
LEMMA ToldKeepsHandles ==
    ASSUME NEW d \in Devs, NEW call PROVE Told(d, call) \in Devs /\ Told(d, call).handles = d.handles
BY DEF Told, Devs

\* Closing takes back what the libraries were told.
LEMMA ClosedIsDown ==
    ASSUME dev \in Devs, dev.handles = {}
    PROVE  /\ Closed(dev) \in Devs /\ Closed(dev).handles = {}
           /\ opened => Closed(dev) = [Down EXCEPT !.clean = Closed(dev).clean]
<1> DEFINE a == [dev EXCEPT !.fifo = FALSE, !.lin = FALSE, !.connected = FALSE, !.lib = FALSE]
           b == [dev EXCEPT !.lib = FALSE]
<1>1. a \in Devs /\ b \in Devs /\ a.handles = {} /\ b.handles = {}
  BY DEF Devs
<1>2. a = [Down EXCEPT !.clean = a.clean]
  <2>1. a.lib = FALSE /\ a.connected = FALSE /\ a.fifo = FALSE /\ a.lin = FALSE
    BY DEF Devs
  <2> HIDE DEF a
  <2> QED
    BY <1>1, <2>1, QuietIsDown
<1>3. Closed(dev) = IF opened THEN a ELSE b
  BY DEF Closed
<1> QED
  BY <1>1, <1>2, <1>3

\* The invariant holds when the first program starts.
LEMMA SessionStarts == Init => SessionInv
<1> SUFFICES ASSUME Init PROVE SessionInv
  OBVIOUS
<1>1. SessionType
  <2>1. dev \in Devs /\ stage = "load" /\ nth = 1 /\ opened = FALSE /\ held = FALSE
    BY DownIsDev DEF Init, SessionInit
  <2>2. skip \in BOOLEAN /\ (skip => prog \in {"e68", "as5pr", "window"})
    BY DEF Init, SessionInit
  <2> QED
    BY <2>1, <2>2, OneIsCounted, Zenon DEF SessionType
<1>2. dev = Down /\ stage = "load" /\ ~held /\ ~opened
  BY DEF Init, SessionInit
<1>3. Quiet(Down)
  BY DownIsDev DEF Quiet
<1> QED
  BY <1>1, <1>2, <1>3, DownIsDev DEF SessionInv, TsmasterIsOk, UsbIsOk, Held

\* A step of a program that uses TSMaster or no device.
LEMMA TsmasterStep ==
    ASSUME SessionInv, prog' = prog, skip' = skip, ~Usb,
           SessionType', dev'.handles = {},
           stage' \in {"load", "open"} => ~held' /\ ~opened',
           stage' # "load", stage' = "work" => opened',
           stage' = "close" /\ held' => opened',
           stage' = "ended" /\ held' /\ ~skip => dev' = [Down EXCEPT !.clean = dev'.clean]
    PROVE  SessionInv'
BY DEF SessionInv, TsmasterIsOk, UsbIsOk, Held, Usb

\* A step that only tells how far the program has got.
LEMMA StageStep ==
    ASSUME SessionInv, UNCHANGED <<prog, nth, dev, opened, skip, held>>,
           stage' \in {"open", "work", "close", "ended"},
           stage' = "open" => stage = "load",
           stage' = "work" => stage = "work",
           stage' = "close" => stage = "work",
           stage' = "ended" => stage = "load" \/ (stage = "open" /\ ~Usb)
                               \/ (stage = "open" /\ dev.handles = {})
    PROVE  SessionInv'
<1>1. SessionType'
  BY DEF SessionInv, SessionType
<1>2. TsmasterIsOk' /\ UsbIsOk'
  BY DownIsDev DEF SessionInv, TsmasterIsOk, UsbIsOk, Held, Usb, Handle, LastDevice, OnlyScans
<1>3. Held'
  BY DownIsDev DEF SessionInv, TsmasterIsOk, Held, Usb
<1> QED
  BY <1>1, <1>2, <1>3 DEF SessionInv

\* A call of the script that succeeds keeps it, and so does the last one.
LEMMA TsmasterOpens == SessionInv /\ OpenCall => SessionInv'
<1> SUFFICES ASSUME SessionInv, OpenCall PROVE SessionInv'
  OBVIOUS
<1>1. dev' \in Devs /\ dev'.handles = dev.handles
  BY ToldKeepsHandles DEF OpenCall, SessionInv, SessionType
<1>2. nth' \in Nat \ {0} /\ UNCHANGED <<prog, stage, opened, skip, held, exit>> /\ stage = "open" /\ ~Usb
  BY DEF OpenCall, SessionInv, SessionType
<1>3. SessionType'
  BY <1>1, <1>2 DEF SessionInv, SessionType
<1> QED
  BY <1>1, <1>2, <1>3, TsmasterStep DEF SessionInv, TsmasterIsOk, Held

\* A call that fails keeps it: the adapter has closed what it had opened, or nothing was.
LEMMA TsmasterFails == SessionInv /\ OpenCallFails => SessionInv'
<1> SUFFICES ASSUME SessionInv, OpenCallFails PROVE SessionInv'
  OBVIOUS
<1>1. dev' \in Devs /\ dev'.handles = dev.handles
  BY ToldKeepsHandles DEF OpenCallFails, SessionInv, SessionType
<1>2. stage' \in {"close", "ended"} /\ UNCHANGED <<prog, nth, opened, skip, held>>
      /\ stage = "open" /\ ~Usb
  BY DEF OpenCallFails, AfterFailure, End
<1>3. SessionType'
  BY <1>1, <1>2 DEF SessionInv, SessionType
<1> QED
  BY <1>1, <1>2, <1>3, TsmasterStep DEF SessionInv, TsmasterIsOk, Held

\* A step of a program that uses USB2XXX, while it opens its device.
LEMMA UsbStepKeeps == SessionInv /\ UsbStep => SessionInv'
<1> SUFFICES ASSUME SessionInv, UsbStep PROVE SessionInv'
  OBVIOUS
<1>t. SessionType /\ UsbIsOk /\ Held /\ dev \in Devs
  BY DEF SessionInv, SessionType
<1>u. Usb /\ prog' = prog /\ Usb' /\ skip' = skip
  BY DEF UsbStep, UsbDoesNotOpen, UsbOpensDevice, UsbPasses, UsbFails, UsbTakes, UsbListEnds,
         UsbClose, UsbNext, LooksAt, Usb
<1>d. ASSUME NEW h, h \subseteq Nat
      PROVE  LET e == [dev EXCEPT !.handles = h] IN e \in Devs /\ e.handles = h /\ Quiet(e)
  <2>1. Quiet(dev)
    BY <1>t, <1>u DEF UsbIsOk
  <2> QED
    BY <1>t, <1>d, <2>1 DEF Devs, Quiet
<1>h. Handle \in Nat
  BY <1>t, SessionAssumption DEF Handle, SessionType
<1>1. CASE UsbDoesNotOpen \/ UsbPasses
  <2>1. dev' = [dev EXCEPT !.handles = {}] /\ nth' = nth + 1 /\ stage = "open"
        /\ UNCHANGED <<prog, stage, opened, skip, held>>
    <3>1. stage = "open" /\ ~opened /\ dev.handles \subseteq {Handle}
      BY <1>t, <1>u, <1>1 DEF UsbIsOk, Held, UsbDoesNotOpen, UsbPasses, LooksAt
    <3>2. CASE UsbDoesNotOpen
      BY <1>u, <3>1, <3>2 DEF UsbDoesNotOpen, UsbNext, LooksAt
    <3>3. CASE UsbPasses
      BY <3>1, <3>3 DEF UsbPasses, UsbNext
    <3> QED
      BY <1>1, <3>1, <3>2, <3>3
  <2>2. dev' \in Devs /\ dev'.handles = {} /\ Quiet(dev')
    BY <1>d, <2>1
  <2>3. SessionType'
    BY <1>t, <2>1, <2>2 DEF SessionType
  <2> QED
    BY <1>t, <1>u, <2>1, <2>2, <2>3 DEF SessionInv, TsmasterIsOk, UsbIsOk, Held
<1>2. CASE UsbOpensDevice
  <2>1. dev' = [dev EXCEPT !.handles = @ \cup {Handle}] /\ stage = "open" /\ nth <= LastDevice
        /\ UNCHANGED <<prog, stage, nth, opened, skip, held>> /\ dev.handles \subseteq {Handle}
    BY <1>t, <1>u, <1>2 DEF UsbOpensDevice, UsbIsOk
  <2>2. dev' = [dev EXCEPT !.handles = {Handle}]
    BY <2>1
  <2>3. dev' \in Devs /\ dev'.handles = {Handle} /\ Quiet(dev')
    BY <1>d, <1>h, <2>2
  <2>4. SessionType'
    BY <1>t, <2>1, <2>3 DEF SessionType
  <2>5. Handle' = Handle /\ LastDevice' = LastDevice
    BY <2>1 DEF Handle, LastDevice, OnlyScans
  <2> QED
    BY <1>t, <1>u, <2>1, <2>3, <2>4, <2>5 DEF SessionInv, TsmasterIsOk, UsbIsOk, Held
<1>3. CASE UsbFails
  <2>1. dev' = [dev EXCEPT !.handles = @ \ {Handle}] /\ stage = "open" /\ stage' = "ended"
        /\ UNCHANGED <<prog, nth, opened, skip, held>> /\ dev.handles \subseteq {Handle}
    BY <1>t, <1>u, <1>3 DEF UsbFails, LooksAt, End, UsbIsOk
  <2>2. dev' = [dev EXCEPT !.handles = {}]
    <3>1. dev.handles \ {Handle} = {}
      BY <2>1
    <3> QED
      BY <2>1, <3>1
  <2>3. dev' \in Devs /\ dev'.handles = {} /\ Quiet(dev')
    BY <1>d, <2>2
  <2>4. SessionType'
    BY <1>t, <2>1, <2>3 DEF SessionType
  <2> QED
    BY <1>t, <1>u, <2>1, <2>3, <2>4 DEF SessionInv, TsmasterIsOk, UsbIsOk, Held
<1>4. CASE UsbTakes
  <2>1. dev' = [dev EXCEPT !.clean = TRUE] /\ stage = "open" /\ stage' = "work"
        /\ opened' = TRUE /\ held' = TRUE /\ UNCHANGED <<prog, nth, skip>>
        /\ dev.handles \subseteq {Handle} /\ Quiet(dev)
    BY <1>t, <1>u, <1>4 DEF UsbTakes, LooksAt, UsbIsOk
  <2>2. dev' \in Devs /\ dev'.handles = dev.handles /\ Quiet(dev')
    BY <1>t, <2>1 DEF Devs, Quiet
  <2>3. SessionType'
    BY <1>t, <2>1, <2>2 DEF SessionType
  <2>4. Handle' = Handle
    BY <2>1 DEF Handle
  <2> QED
    BY <1>t, <1>u, <2>1, <2>2, <2>3, <2>4 DEF SessionInv, TsmasterIsOk, UsbIsOk, Held
<1>5. CASE UsbListEnds
  <2>1. /\ UNCHANGED <<prog, nth, dev, opened, skip, held>> /\ stage = "open" /\ stage' = "ended"
    BY <1>5 DEF UsbListEnds, End
  <2>2. dev.handles = {}
    <3>1. dev.handles \subseteq {Handle} /\ (dev.handles # {} => nth <= LastDevice) /\ ~opened
      BY <1>t, <1>u, <2>1 DEF UsbIsOk, Held
    <3>2. CASE nth > LastDevice
      <4>1. LastDevice \in Nat /\ nth \in Nat
        BY <1>t, SessionAssumption DEF LastDevice, SessionType
      <4> QED
        BY <3>1, <3>2, <4>1
    <3>3. CASE ~LooksAt
      BY <1>u, <2>1, <3>1, <3>3 DEF LooksAt
    <3> QED
      BY <1>5, <3>2, <3>3 DEF UsbListEnds
  <2> QED
    BY <2>1, <2>2, StageStep
<1>6. CASE UsbClose
  <2>1. dev.handles \subseteq {Handle} /\ stage = "close" /\ stage' = "ended" /\ opened
        /\ dev' = [dev EXCEPT !.handles = @ \ {Handle}] /\ opened' = FALSE
        /\ UNCHANGED <<prog, nth, skip, held>>
    BY <1>t, <1>u, <1>6 DEF UsbClose, UsbIsOk, Held
  <2>2. dev' = [dev EXCEPT !.handles = {}]
    <3>1. dev.handles \ {Handle} = {}
      BY <2>1
    <3> QED
      BY <2>1, <3>1
  <2>3. dev' \in Devs /\ dev'.handles = {} /\ Quiet(dev')
    BY <1>d, <2>2
  <2>4. dev' = [Down EXCEPT !.clean = dev'.clean]
    BY <2>3, QuietIsDown DEF Quiet
  <2>5. SessionType'
    BY <1>t, <2>1, <2>3 DEF SessionType
  <2> QED
    BY <1>t, <1>u, <2>1, <2>3, <2>4, <2>5 DEF SessionInv, TsmasterIsOk, UsbIsOk, Held
<1> QED
  BY <1>1, <1>2, <1>3, <1>4, <1>5, <1>6 DEF UsbStep

\* Every step of a program and its device keeps the invariant.
LEMMA SessionStepKeeps == SessionInv /\ SessionStep => SessionInv'
<1> SUFFICES ASSUME SessionInv, SessionStep PROVE SessionInv'
  OBVIOUS
<1>t. SessionType /\ TsmasterIsOk /\ UsbIsOk /\ Held
  BY DEF SessionInv
<1>1. CASE LoadStep
  <2>1. /\ UNCHANGED <<prog, nth, dev, opened, skip, held>> /\ stage = "load"
        /\ stage' \in {"open", "ended"}
    BY <1>1 DEF LoadStep, NotLoaded, DryRun, NotConfirmed, Loaded, End
  <2> QED
    BY <2>1, StageStep
<1>2. CASE OpenCall
  BY <1>2, TsmasterOpens
<1>3. CASE OpenCallFails
  BY <1>3, TsmasterFails
<1>4. CASE SelectedIsGone
  <2>1. /\ UNCHANGED <<prog, nth, dev, opened, skip, held>> /\ stage = "open" /\ ~Usb
        /\ stage' = "ended"
    BY <1>4 DEF SelectedIsGone, End, Usb
  <2> QED
    BY <2>1, StageStep
<1>5. CASE ChannelNotCovered
  <2>1. /\ UNCHANGED <<prog, nth, dev, opened, skip, held>> /\ stage = "open" /\ ~Usb
        /\ stage' \in {"close", "ended"}
    BY <1>5 DEF ChannelNotCovered, AfterFailure, End, Usb
  <2>2. SessionType'
    BY <1>t, <2>1 DEF SessionType
  <2> QED
    BY <1>t, <2>1, <2>2, TsmasterStep DEF TsmasterIsOk, Held
<1>6. CASE OpenReturns
  <2>1. /\ UNCHANGED <<prog, nth, dev, skip>> /\ stage = "open" /\ ~Usb
        /\ opened' = held' /\ held' \in BOOLEAN
        /\ stage' = (IF held' THEN "work" ELSE "ended")
    BY <1>6 DEF OpenReturns, AfterOpen, End, OnlyScans
  <2>2. SessionType'
    BY <1>t, <2>1 DEF SessionType
  <2> QED
    BY <1>t, <2>1, <2>2, TsmasterStep DEF TsmasterIsOk, Held
<1>7. CASE Close
  <2>1. /\ UNCHANGED <<prog, nth, skip, held>> /\ stage = "close" /\ ~Usb /\ stage' = "ended"
        /\ (skip => UNCHANGED <<dev, opened>>)
        /\ (~skip => dev' = Closed(dev) /\ opened' = FALSE)
    BY <1>7 DEF Close
  <2>2. dev.handles = {} /\ dev \in Devs
    BY <1>t, <2>1 DEF TsmasterIsOk, SessionType
  <2>3. dev' \in Devs /\ dev'.handles = {} /\ opened' \in BOOLEAN
    BY <1>t, <2>1, <2>2, ClosedIsDown DEF SessionType
  <2>4. held /\ ~skip => dev' = [Down EXCEPT !.clean = dev'.clean]
    BY <1>t, <2>1, <2>2, ClosedIsDown DEF Held
  <2>5. SessionType'
    BY <1>t, <2>1, <2>3 DEF SessionType
  <2> QED
    BY <2>1, <2>3, <2>4, <2>5, TsmasterStep
<1>8. CASE UsbStep
  BY <1>8, UsbStepKeeps
<1> QED
  BY <1>1, <1>2, <1>3, <1>4, <1>5, <1>6, <1>7, <1>8 DEF SessionStep

\* Every step of the program, the workflow and the ECU keeps it.
LEMMA FlashCliStep == SessionInv /\ [Next]_vars => SessionInv'
<1> SUFFICES ASSUME SessionInv, [Next]_vars PROVE SessionInv'
  OBVIOUS
<1>t. SessionType /\ TsmasterIsOk /\ UsbIsOk /\ Held
  BY DEF SessionInv
<1>0. ASSUME UNCHANGED sessionVars PROVE SessionInv'
  BY <1>t, <1>0 DEF SessionInv, SessionType, TsmasterIsOk, UsbIsOk, Held, Usb, Handle,
                    LastDevice, OnlyScans, sessionVars
<1>1. CASE UNCHANGED vars
  BY <1>0, <1>1 DEF vars
<1>2. CASE Session
  BY <1>2, SessionStepKeeps DEF Session
<1>3. CASE StartFlash \/ Run \/ CancelClicked \/ Ecu(EcuStep)
  BY <1>0, <1>3 DEF StartFlash, Run, CancelClicked, InWork, Ecu
<1>4. CASE FlashNotStarted \/ FlashReturns \/ OtherWork
  <2>1. /\ UNCHANGED <<prog, nth, dev, opened, skip, held>> /\ stage = "work"
        /\ stage' = "close"
    BY <1>4 DEF FlashNotStarted, FlashReturns, OtherWork
  <2> QED
    BY <2>1, StageStep
<1>5. CASE RunAgain
  <2>1. stage' = "load" /\ nth' = 1 /\ dev' = Down /\ opened' = FALSE /\ held' = FALSE
        /\ UNCHANGED <<prog, skip>>
    BY <1>5 DEF RunAgain
  <2>2. SessionType'
    BY <1>t, <2>1, DownIsDev, OneIsCounted, Zenon DEF SessionType
  <2>3. Quiet(dev')
    BY <2>1, DownIsDev DEF Quiet
  <2>4. dev'.handles = {}
    BY <2>1, DownIsDev
  <2>5. TsmasterIsOk' /\ UsbIsOk' /\ Held'
    BY <2>1, <2>3, <2>4 DEF TsmasterIsOk, UsbIsOk, Held
  <2> QED
    BY <2>2, <2>5 DEF SessionInv
<1> QED
  BY <1>1, <1>2, <1>3, <1>4, <1>5 DEF Next

\* Where the library is not initialised: before the first call of a script, after
\* every finalize, and when a program has ended whose failing call was guarded.
LibraryIsOk ==
    /\ stage = "load" => nth = 1
    /\ stage = "open" /\ ~Usb =>
         /\ nth = 1 => ~dev.lib
         /\ nth > 1 /\ nth <= Len(Script) + 1 /\ Script[nth - 1] = "finalize" => ~dev.lib
         /\ nth <= Len(Script) + 1
    /\ stage = "ended" /\ dev.lib /\ ~skip =>
         ~KnowsAdapter /\ nth <= Len(Script) /\ Script[nth] = "current"

\* The script and what a program knows do not change while it runs.
LEMMA ScriptStays == prog' = prog => Script' = Script /\ (KnowsAdapter <=> KnowsAdapter') /\ (Usb <=> Usb')
BY DEF Script, KnowsAdapter, Usb, LinOpen, CanOpen, SimOpen, LoopbackOpen, Probe, Scan, Initialize, PerChannel

\* A sequence of calls that initialises the library with its first call at most.
Others ==
    {"current", "can count", "lin count", "mapping", "baud", "connect", "function", "start",
     "fifo", "clear", "enumerate", "info", "finalize", "scan devices", "detail"}
OnceAtMost(calls) ==
    /\ calls \in Seq(Others \cup {"initialize"})
    /\ Len(calls) \in Nat \ {0}
    /\ \A n \in 2..Len(calls) : calls[n] \in Others

\* What follows it does not initialise the library again.
LEMMA OnceAndOthers ==
    ASSUME NEW s, OnceAtMost(s), NEW t \in Seq(Others)
    PROVE  OnceAtMost(s \o t)
<1> DEFINE All == Others \cup {"initialize"}
<1>1. s \in Seq(All) /\ t \in Seq(All) /\ Len(t) \in Nat /\ Len(s) \in Nat \ {0}
  BY DEF OnceAtMost
<1>2. \A n \in 2..Len(s) : s[n] \in Others
  BY DEF OnceAtMost
<1>3. \A n \in 1..Len(t) : t[n] \in Others
  OBVIOUS
<1> HIDE DEF All
<1>4. /\ s \o t \in Seq(All) /\ Len(s \o t) = Len(s) + Len(t)
      /\ \A i \in 1..Len(s) : (s \o t)[i] = s[i]
      /\ \A i \in 1..Len(t) : (s \o t)[Len(s) + i] = t[i]
  BY <1>1
<1>5. ASSUME NEW n \in 2..Len(s \o t) PROVE (s \o t)[n] \in Others
  <2>1. CASE n <= Len(s)
    BY <1>1, <1>2, <1>4, <1>5, <2>1
  <2>2. CASE n > Len(s)
    <3>1. n - Len(s) \in 1..Len(t) /\ Len(s) + (n - Len(s)) = n
      BY <1>1, <1>4, <1>5, <2>2
    <3> QED
      BY <1>3, <1>4, <3>1
  <2> QED
    BY <1>1, <1>5, <2>1, <2>2
<1> QED
  BY <1>1, <1>4, <1>5 DEF OnceAtMost, All

\* The calls for each channel.
LEMMA ChannelCalls ==
    ASSUME NEW n \in Nat, NEW calls \in Seq(Others), Len(calls) > 0
    PROVE  PerChannel(calls, n) \in Seq(Others)
<1>1. ASSUME NEW i \in 1..(n * Len(calls))
      PROVE  calls[1 + ((i - 1) % Len(calls))] \in Others
  <2>1. Len(calls) \in Nat \ {0} /\ i - 1 \in Nat
    BY <1>1
  <2>2. (i - 1) % Len(calls) \in 0..(Len(calls) - 1)
    BY <2>1
  <2> QED
    BY <2>1, <2>2
<1>2. n * Len(calls) \in Nat
  OBVIOUS
<1> QED
  BY <1>1, <1>2 DEF PerChannel

\* The scripts of one open.
LEMMA OpensInitializeOnce ==
    OnceAtMost(LinOpen) /\ OnceAtMost(CanOpen) /\ OnceAtMost(SimOpen) /\ OnceAtMost(LoopbackOpen)
    /\ OnceAtMost(Probe)
<1>1. OnceAtMost(Initialize)
  <2>1. "initialize" \in Others \cup {"initialize"} /\ "current" \in Others
    BY DEF Others
  <2>2. <<"initialize", "current">> \in Seq(Others \cup {"initialize"})
    BY <2>1
  <2>3. \A n \in 2..2 : <<"initialize", "current">>[n] \in Others
    BY <2>1
  <2> QED
    BY <2>2, <2>3 DEF OnceAtMost, Initialize
<1>2. <<"can count", "lin count", "mapping", "baud", "connect", "function", "start", "fifo", "clear">>
        \in Seq(Others)
  BY DEF Others
<1>3. <<"can count", "lin count">> \in Seq(Others) /\ <<"connect", "fifo", "clear">> \in Seq(Others)
      /\ <<"connect", "fifo">> \in Seq(Others)
  BY DEF Others
<1>4. <<"can count", "lin count", "mapping", "baud", "connect", "fifo", "clear">> \in Seq(Others)
      /\ <<"enumerate", "info", "finalize">> \in Seq(Others)
  BY DEF Others
<1>5. <<"mapping", "baud">> \in Seq(Others) /\ Len(<<"mapping", "baud">>) > 0
      /\ <<"clear">> \in Seq(Others) /\ Len(<<"clear">>) > 0
  BY DEF Others
<1>6. /\ PerChannel(<<"mapping", "baud">>, Channels) \in Seq(Others)
      /\ PerChannel(<<"mapping", "baud">>, 2) \in Seq(Others)
      /\ PerChannel(<<"clear">>, 2) \in Seq(Others)
  BY <1>5, ChannelCalls, SessionAssumption
<1>7. OnceAtMost(Initialize \o <<"can count", "lin count">>)
  BY <1>1, <1>3, OnceAndOthers
<1>8. OnceAtMost(CanOpen)
  <2>1. OnceAtMost(Initialize \o <<"can count", "lin count">> \o PerChannel(<<"mapping", "baud">>, Channels))
    BY <1>6, <1>7, OnceAndOthers
  <2>2. OnceAtMost(Initialize \o <<"can count", "lin count">> \o PerChannel(<<"mapping", "baud">>, Channels)
                     \o <<"connect", "fifo", "clear">>)
    BY <1>3, <2>1, OnceAndOthers
  <2> QED
    BY <2>2, Zenon DEF CanOpen
<1>9. OnceAtMost(LoopbackOpen)
  <2>1. OnceAtMost(Initialize \o <<"can count", "lin count">> \o PerChannel(<<"mapping", "baud">>, 2))
    BY <1>6, <1>7, OnceAndOthers
  <2>2. OnceAtMost(Initialize \o <<"can count", "lin count">> \o PerChannel(<<"mapping", "baud">>, 2)
                     \o <<"connect", "fifo">>)
    BY <1>3, <2>1, OnceAndOthers
  <2>3. OnceAtMost(Initialize \o <<"can count", "lin count">> \o PerChannel(<<"mapping", "baud">>, 2)
                     \o <<"connect", "fifo">> \o PerChannel(<<"clear">>, 2))
    BY <1>6, <2>2, OnceAndOthers
  <2> QED
    BY <2>3, Zenon DEF LoopbackOpen
<1>10. OnceAtMost(LinOpen)
  BY <1>1, <1>2, OnceAndOthers, Zenon DEF LinOpen
<1>11. OnceAtMost(SimOpen) /\ OnceAtMost(Probe)
  BY <1>1, <1>4, OnceAndOthers, Zenon DEF SimOpen, Probe
<1> QED
  BY <1>8, <1>9, <1>10, <1>11

\* The scripts end where the library is given back, and so does the first part
\* of the release tool's.
LEMMA ScriptsGiveBack ==
    /\ Len(Script) \in Nat
    /\ OnlyScans /\ ~Usb => Len(Script) > 0 /\ Script[Len(Script)] = "finalize"
    /\ prog = "release" => Len(Probe) = 5 /\ Len(Script) = 5 + Len(CanOpen) /\ Script[5] = "finalize"
                           /\ Len(CanOpen) \in Nat \ {0}
    /\ prog = "as5pr" => Script = CanOpen
<1> DEFINE All == Others \cup {"initialize"}
<1>a. ASSUME NEW x \in Seq(All), NEW y \in Seq(All)
      PROVE  /\ x \o y \in Seq(All) /\ Len(x \o y) = Len(x) + Len(y)
             /\ \A i \in 1..Len(x) : (x \o y)[i] = x[i]
             /\ \A i \in 1..Len(y) : (x \o y)[Len(x) + i] = y[i]
  <2> HIDE DEF All
  <2> QED
    OBVIOUS
<1>1. /\ OnceAtMost(LinOpen) /\ OnceAtMost(CanOpen) /\ OnceAtMost(SimOpen) /\ OnceAtMost(LoopbackOpen)
      /\ OnceAtMost(Probe)
  BY OpensInitializeOnce
<1>2. Probe \in Seq(All) /\ CanOpen \in Seq(All) /\ Len(CanOpen) \in Nat \ {0}
  BY <1>1 DEF OnceAtMost
<1>3. Len(Probe) = 5 /\ Probe[5] = "finalize"
  <2> DEFINE t == <<"enumerate", "info", "finalize">>
  <2>1. Len(Initialize) = 2 /\ Initialize \in Seq(All)
    <3>1. "initialize" \in All /\ "current" \in All
      BY DEF Others
    <3> HIDE DEF All
    <3> QED
      BY <3>1 DEF Initialize
  <2>2. t \in Seq(All) /\ Len(t) = 3 /\ t[3] = "finalize"
    BY DEF Others
  <2>3. Probe = Initialize \o t
    BY Zenon DEF Probe
  <2> HIDE DEF t, All
  <2>4. Len(Initialize \o t) = 5 /\ (Initialize \o t)[5] = t[3]
    <3>1. /\ Len(Initialize \o t) = Len(Initialize) + Len(t)
          /\ \A i \in 1..Len(t) : (Initialize \o t)[Len(Initialize) + i] = t[i]
      BY <1>a, <2>1, <2>2, Zenon
    <3>2. 3 \in 1..3 /\ 2 + 3 = 5
      OBVIOUS
    <3>3. Len(Initialize \o t) = 2 + 3 /\ \A i \in 1..3 : (Initialize \o t)[2 + i] = t[i]
      BY <2>1, <2>2, <3>1, Zenon
    <3> QED
      BY <3>2, <3>3, Zenon
  <2> QED
    BY <2>2, <2>3, <2>4, Zenon
<1> HIDE DEF All
<1>4. /\ Probe \o CanOpen \in Seq(All) /\ Len(Probe \o CanOpen) = 5 + Len(CanOpen)
      /\ (Probe \o CanOpen)[5] = "finalize"
  <2>1. /\ Probe \o CanOpen \in Seq(All) /\ Len(Probe \o CanOpen) = Len(Probe) + Len(CanOpen)
        /\ \A i \in 1..Len(Probe) : (Probe \o CanOpen)[i] = Probe[i]
    BY <1>a, <1>2, Zenon
  <2>2. 5 \in 1..5
    OBVIOUS
  <2>3. \A i \in 1..5 : (Probe \o CanOpen)[i] = Probe[i]
    BY <1>3, <2>1, Zenon
  <2> QED
    BY <1>3, <2>1, <2>2, <2>3, Zenon
<1>5. Len(Script) \in Nat
  <2>1. CASE prog \in {"e68", "window", "as5pr", "sim", "loopback", "probe"}
    <3>1. Script \in {LinOpen, CanOpen, SimOpen, LoopbackOpen, Probe}
      BY <2>1 DEF Script
    <3> QED
      BY <1>1, <3>1 DEF OnceAtMost
  <2>2. CASE prog = "release"
    <3>1. Script = Probe \o CanOpen
      BY <2>2 DEF Script
    <3> QED
      BY <1>2, <1>4, <3>1
  <2>3. CASE prog = "scan"
    <3>1. Script = Scan
      BY <2>3 DEF Script
    <3> QED
      BY <3>1 DEF Scan
  <2>4. CASE prog \notin {"e68", "window", "as5pr", "sim", "loopback", "probe", "release", "scan"}
    <3>1. Script = <<>>
      BY <2>4 DEF Script
    <3> QED
      BY <3>1
  <2> QED
    BY <2>1, <2>2, <2>3, <2>4
<1>6. prog = "probe" => Script = Probe
  BY DEF Script
<1>7. prog = "scan" => Script = Scan
  BY DEF Script
<1>8. prog = "release" => Script = Probe \o CanOpen
  BY DEF Script
<1>9. prog = "as5pr" => Script = CanOpen
  BY DEF Script
<1>10. OnlyScans /\ ~Usb => prog \in {"probe", "scan"}
  BY DEF OnlyScans, Usb
<1>11. Len(Scan) = 4 /\ Scan[4] = "finalize"
  BY DEF Scan
<1>12. OnlyScans /\ ~Usb => Len(Script) > 0 /\ Script[Len(Script)] = "finalize"
  <2> DEFINE given(calls) == Len(calls) > 0 /\ calls[Len(calls)] = "finalize"
  <2>1. CASE prog = "probe"
    <3>1. given(Probe)
      BY <1>3
    <3> HIDE DEF given
    <3>2. given(Script)
      BY <1>6, <2>1, <3>1
    <3> QED
      BY <3>2 DEF given
  <2>2. CASE prog = "scan"
    <3>1. given(Scan)
      BY <1>11
    <3> HIDE DEF given
    <3>2. given(Script)
      BY <1>7, <2>2, <3>1
    <3> QED
      BY <3>2 DEF given
  <2> QED
    BY <1>10, <2>1, <2>2
<1>13. prog = "release" => Len(Script) = 5 + Len(CanOpen) /\ Script[5] = "finalize"
  BY <1>4, <1>8
<1> QED
  BY <1>2, <1>3, <1>5, <1>9, <1>12, <1>13

\* A script initialises the library at its beginning, the release tool's once
\* more after it was given back.
LEMMA InitializeIsFirst ==
    ASSUME NEW n \in Nat \ {0}, n <= Len(Script), Script[n] = "initialize", prog # "scan"
    PROVE  n = 1 \/ (n > 1 /\ Script[n - 1] = "finalize")
<1>1. ASSUME NEW s, OnceAtMost(s), NEW m \in Nat \ {0}, m <= Len(s), s[m] = "initialize"
      PROVE  m = 1
  <2>1. m >= 2 => s[m] \in Others
    BY <1>1 DEF OnceAtMost
  <2> QED
    BY <1>1, <2>1 DEF Others
<1>2. CASE prog \in {"e68", "window", "as5pr", "sim", "loopback", "probe"}
  <2>1. Script \in {LinOpen, CanOpen, SimOpen, LoopbackOpen, Probe}
    BY <1>2 DEF Script
  <2>2. OnceAtMost(Script)
    BY <2>1, OpensInitializeOnce
  <2> QED
    BY <1>1, <2>2
<1>3. CASE prog = "release"
  <2>1. Script = Probe \o CanOpen /\ Len(Probe) = 5 /\ Len(CanOpen) \in Nat \ {0}
        /\ Len(Script) = 5 + Len(CanOpen) /\ Script[5] = "finalize"
    BY <1>3, ScriptsGiveBack DEF Script
  <2>2. /\ Probe \in Seq(Others \cup {"initialize"}) /\ CanOpen \in Seq(Others \cup {"initialize"})
    BY OpensInitializeOnce DEF OnceAtMost
  <2>3. CASE n <= 5
    <3>1. Script[n] = Probe[n]
      BY <2>1, <2>2, <2>3
    <3>2. n = 1
      BY <1>1, <2>1, <2>3, <3>1, OpensInitializeOnce
    <3> QED
      BY <3>2
  <2>4. CASE n > 5
    <3>1. n - 5 \in Nat \ {0} /\ n - 5 <= Len(CanOpen) /\ Script[n] = CanOpen[n - 5]
      BY <2>1, <2>2, <2>4
    <3>2. n - 5 = 1
      BY <1>1, <3>1, OpensInitializeOnce
    <3>3. n - 1 = 5 /\ n > 1
      BY <3>1, <3>2
    <3> QED
      BY <2>1, <3>3
  <2> QED
    BY <2>3, <2>4
<1>4. CASE prog \notin {"e68", "window", "as5pr", "sim", "loopback", "probe", "release"}
  <2>1. Script = <<>>
    BY <1>4 DEF Script
  <2> QED
    BY <2>1
<1> QED
  BY <1>2, <1>3, <1>4

\* A step that opens, closes or ends keeps LibraryIsOk.
LEMMA LibrarySessionStep == SessionInv /\ LibraryIsOk /\ SessionStep => LibraryIsOk'
<1> SUFFICES ASSUME SessionInv, LibraryIsOk, SessionStep PROVE LibraryIsOk'
  OBVIOUS
<1>t. SessionType /\ TsmasterIsOk /\ UsbIsOk /\ Held /\ dev \in Devs /\ nth \in Nat \ {0}
  BY DEF SessionInv, SessionType
<1>p. prog' = prog /\ skip' = skip
  BY DEF SessionStep, LoadStep, NotLoaded, DryRun, NotConfirmed, Loaded, OpenCall, SelectedIsGone,
         ChannelNotCovered, OpenCallFails, OpenReturns, Close, UsbStep, UsbDoesNotOpen, UsbOpensDevice,
         UsbPasses, UsbFails, UsbTakes, UsbListEnds, UsbClose, UsbNext
<1>s. Script' = Script /\ (KnowsAdapter <=> KnowsAdapter') /\ (Usb <=> Usb') /\ Len(Script) \in Nat
  BY <1>p, ScriptStays, ScriptsGiveBack
<1>q. ASSUME stage' # "load", stage' = "open" => Usb, ~dev'.lib PROVE LibraryIsOk'
  BY <1>q, <1>s DEF LibraryIsOk
<1>1. CASE LoadStep
  <2>1. stage = "load" /\ dev = Down /\ nth = 1 /\ UNCHANGED <<nth, dev>> /\ stage' \in {"open", "ended"}
    BY <1>1, <1>t DEF LoadStep, NotLoaded, DryRun, NotConfirmed, Loaded, End, Held, LibraryIsOk
  <2>2. ~dev'.lib
    BY <2>1, DownIsDev
  <2> QED
    BY <1>s, <2>1, <2>2 DEF LibraryIsOk
<1>2. CASE OpenCall
  <2>1. stage = "open" /\ ~Usb /\ nth <= Len(Script) /\ dev' = Told(dev, Script[nth]) /\ nth' = nth + 1
        /\ stage' = "open"
    BY <1>2 DEF OpenCall
  <2>2. Script[nth] = "finalize" => ~dev'.lib
    BY <1>t, <2>1 DEF Told, Devs
  <2>3. nth' > 1 /\ nth' - 1 = nth /\ nth' <= Len(Script) + 1
    BY <1>t, <1>s, <2>1
  <2> QED
    BY <1>s, <1>t, <2>1, <2>2, <2>3 DEF LibraryIsOk
<1>3. CASE OpenCallFails
  <2>1. stage = "open" /\ ~Usb /\ nth <= Len(Script) /\ Fails(Script[nth]) /\ nth' = nth /\ AfterFailure
        /\ dev' = (IF Unguarded(Script[nth]) THEN dev ELSE Told(dev, "finalize"))
    BY <1>3 DEF OpenCallFails
  <2>2. CASE ~Unguarded(Script[nth])
    <3>1. ~dev'.lib
      BY <1>t, <2>1, <2>2 DEF Told, Devs
    <3> QED
      BY <1>q, <2>1, <3>1 DEF AfterFailure, End
  <2>3. CASE KnowsAdapter
    BY <1>s, <2>1, <2>3 DEF LibraryIsOk, AfterFailure
  <2>4. CASE ~KnowsAdapter /\ Script[nth] = "current"
    BY <1>s, <2>1, <2>4 DEF LibraryIsOk, AfterFailure, End
  <2>5. CASE Script[nth] = "initialize"
    <3>1. nth = 1 \/ (nth > 1 /\ Script[nth - 1] = "finalize")
      BY <1>t, <1>s, <2>1, <2>5, InitializeIsFirst DEF Fails
    <3>2. ~dev.lib
      BY <1>t, <2>1, <3>1 DEF LibraryIsOk
    <3>3. dev' = dev
      BY <2>1, <2>5 DEF Unguarded
    <3> QED
      BY <1>q, <2>1, <3>2, <3>3 DEF AfterFailure, End
  <2> QED
    BY <2>2, <2>3, <2>4, <2>5 DEF Unguarded
<1>4. CASE SelectedIsGone \/ ChannelNotCovered
  <2>1. stage = "open" /\ prog \in {"as5pr", "release"} /\ UNCHANGED <<nth, dev>>
        /\ stage' \in {"close", "ended"}
    BY <1>4 DEF SelectedIsGone, ChannelNotCovered, AfterFailure, End
  <2>2. prog = "release" => nth = 6
    <3>1. CASE SelectedIsGone
      <4> SUFFICES ASSUME prog = "release" PROVE nth = 6
        OBVIOUS
      <4> DEFINE l == Len(Probe)
      <4>1. l = 5
        BY ScriptsGiveBack
      <4>2. nth = l + 1
        BY <3>1 DEF SelectedIsGone
      <4> HIDE DEF l
      <4> QED
        BY <4>1, <4>2
    <3>2. CASE ChannelNotCovered
      <4>1. nth = 1 + Len(Script) - Len(CanOpen)
        BY <3>2 DEF ChannelNotCovered
      <4> QED
        BY <4>1, ScriptsGiveBack
    <3> QED
      BY <1>4, <3>1, <3>2
  <2>3. prog = "as5pr" => nth = 1
    <3>1. prog = "as5pr" => nth = 1 + Len(CanOpen) - Len(CanOpen)
      BY <1>4, ScriptsGiveBack DEF SelectedIsGone, ChannelNotCovered
    <3>2. prog = "as5pr" => Len(CanOpen) \in Nat
      BY ScriptsGiveBack
    <3> QED
      BY <3>1, <3>2
  <2>4. ~dev.lib
    <3>1. ~Usb
      BY <2>1 DEF Usb
    <3>2. CASE prog = "as5pr"
      BY <2>1, <2>3, <3>1, <3>2 DEF LibraryIsOk
    <3>3. CASE prog = "release"
      <4>1. nth > 1 /\ nth <= Len(Script) + 1 /\ nth - 1 = 5 /\ Script[5] = "finalize"
        BY <2>2, <3>3, ScriptsGiveBack
      <4> QED
        BY <2>1, <3>1, <4>1 DEF LibraryIsOk
    <3> QED
      BY <2>1, <3>2, <3>3
  <2> QED
    BY <1>q, <2>1, <2>4
<1>5. CASE OpenReturns
  <2>1. stage = "open" /\ ~Usb /\ nth > Len(Script) /\ UNCHANGED <<nth, dev>> /\ AfterOpen
    BY <1>5 DEF OpenReturns
  <2>2. CASE ~OnlyScans
    BY <1>s, <2>1, <2>2 DEF AfterOpen, LibraryIsOk
  <2>3. CASE OnlyScans
    <3>1. nth - 1 = Len(Script) /\ nth > 1 /\ nth <= Len(Script) + 1
      BY <1>t, <1>s, <2>1, <2>3, ScriptsGiveBack DEF LibraryIsOk
    <3>2. ~dev.lib
      BY <2>1, <2>3, <3>1, ScriptsGiveBack DEF LibraryIsOk
    <3> QED
      BY <1>q, <2>1, <2>3, <3>2 DEF AfterOpen, End
  <2> QED
    BY <2>2, <2>3
<1>6. CASE Close
  <2>1. stage' = "ended" /\ (~skip => dev' = Closed(dev))
    BY <1>6 DEF Close
  <2>2. ~skip => ~dev'.lib
    BY <1>t, <2>1 DEF Closed, Devs
  <2> QED
    BY <1>p, <2>1, <2>2 DEF LibraryIsOk
<1>7. CASE UsbStep
  <2>1. Usb /\ stage' # "load"
    BY <1>7 DEF UsbStep, UsbDoesNotOpen, UsbOpensDevice, UsbPasses, UsbFails, UsbTakes, UsbListEnds,
           UsbClose, UsbNext, LooksAt, Usb, End
  <2>2. SessionInv'
    BY <1>7, UsbStepKeeps
  <2>3. ~dev'.lib
    BY <1>s, <2>1, <2>2 DEF SessionInv, UsbIsOk, Quiet
  <2> QED
    BY <1>q, <2>1, <2>3
<1> QED
  BY <1>1, <1>2, <1>3, <1>4, <1>5, <1>6, <1>7 DEF SessionStep

\* Every step of the program, the workflow and the ECU keeps it.
LEMMA LibraryStep == SessionInv /\ LibraryIsOk /\ [Next]_vars => LibraryIsOk'
<1> SUFFICES ASSUME SessionInv, LibraryIsOk, [Next]_vars PROVE LibraryIsOk'
  OBVIOUS
<1>0. ASSUME UNCHANGED sessionVars PROVE LibraryIsOk'
  <2>1. Script' = Script /\ (KnowsAdapter <=> KnowsAdapter') /\ (Usb <=> Usb')
    BY <1>0, ScriptStays DEF sessionVars
  <2> QED
    BY <1>0, <2>1 DEF LibraryIsOk, sessionVars
<1>1. CASE UNCHANGED vars
  BY <1>0, <1>1 DEF vars
<1>2. CASE Session
  BY <1>2, LibrarySessionStep DEF Session
<1>3. CASE StartFlash \/ Run \/ CancelClicked \/ Ecu(EcuStep)
  BY <1>0, <1>3 DEF StartFlash, Run, CancelClicked, InWork, Ecu
<1>4. CASE FlashNotStarted \/ FlashReturns \/ OtherWork
  <2>1. stage' = "close"
    BY <1>4 DEF FlashNotStarted, FlashReturns, OtherWork
  <2> QED
    BY <2>1 DEF LibraryIsOk
<1>5. CASE RunAgain
  <2>1. stage' = "load" /\ nth' = 1
    BY <1>5 DEF RunAgain
  <2> QED
    BY <2>1 DEF LibraryIsOk
<1> QED
  BY <1>1, <1>2, <1>3, <1>4, <1>5 DEF Next

\* The close paths of the command-line tools and of the adapters: whatever
\* call fails, no USB device stays open; a program whose open has returned
\* gives everything back unless it was told not to close; and a library that
\* stays initialised was left so by set_current_application, in a program that
\* does not know its adapter yet.
THEOREM TakenDeviceIsGivenBack == FairSpec => []TakenIsGivenBack
<1>1. SessionInv /\ LibraryIsOk => TakenIsGivenBack
  BY DEF SessionInv, Held, LibraryIsOk, TakenIsGivenBack
<1>2. Init => LibraryIsOk
  BY DEF Init, SessionInit, LibraryIsOk
<1>3. Spec => [](SessionInv /\ LibraryIsOk)
  BY <1>2, SessionStarts, FlashCliStep, LibraryStep, PTL DEF Spec
<1>4. FairSpec => Spec
  BY PTL DEF FairSpec
<1> QED
  BY <1>1, <1>3, <1>4, PTL

-------------------------------------------------------------------------------
(* The requests of a run.                                                  *)

Services ==
    {"10 01", "10 03", "27 01", "27 02", "31 01 02 03", "10 02", "27 09", "27 0A",
     "34", "36", "37", "31 01 02 02", "31 01 FF 00", "31 01 FF 01", "11 01", "22 30 00"}
Names == Images \cup {"none"}
Requests == [service : Services, seq : Nat, crc : Names, img : Names, block : Nat]
Replies == [service : Services, seq : Nat, crc : Names,
            code : {"ok", "pending", "refused", "unusable"}]

\* Where the App is erased, where it is found valid, and where the new App is
\* asked whether it is there.
ErasedAt == Blocks["driver"] + 12
VerifiedAt == ErasedAt + Blocks["app"] + 3
PollAt == VerifiedAt + 2

Erase == "31 01 FF 00"
Verify == "31 01 FF 01"
Poll == "22 30 00"
Early(service) == service \notin {Erase, Verify, Poll}

-------------------------------------------------------------------------------
(* What a flash run leaves behind, and what a run can take for its own.    *)

\* The answers among the first n on the wire that end a request.
Finals(w, n) == Cardinality({j \in 1..n : w[j].code # "pending"})

Running == phase \in {"send", "wait"}

FlowTyped ==
    /\ phase \in {"off", "send", "wait", "done", "failed", "cancelled"}
    /\ at \in 1..PollAt /\ late \in BOOLEAN /\ cancelled \in BOOLEAN
    /\ runs \in 1..MaxRuns /\ faults \in 0..MaxFaults
    /\ inbox \in Seq(Range(Chain)) /\ wire \in Seq(Replies)
    /\ phase # "off" => stage = "work" /\ Flashes
    /\ stage \in {"load", "open", "work"} => exit = "none"
    /\ wire # <<>> => wire[Len(wire)].code # "pending"

\* The ECU programs in its Boot only, and starts only what it found valid.
EcuFits(e) ==
    /\ e.mode \in {"app", "boot", "restart"} /\ e.stage \in 0..4
    /\ DOMAIN e = {"mode", "stage", "load", "driver", "app", "valid", "starts", "alive"}
    /\ e.valid \in BOOLEAN /\ e.alive \in BOOLEAN
    /\ e.stage >= 2 => e.mode = "boot"
    /\ e.mode = "app" => e.valid
EcuOK == EcuFits(ecu)

\* Each run and each fault leaves one request at most that nobody waits for.
Leftover ==
    Finals(wire, Len(wire)) + Len(inbox) <=
        (runs - 1) + faults
          + (IF phase = "send" \/ (phase = "off" /\ stage \in {"load", "open", "work"})
             THEN 0 ELSE 1)

\* Of the answers w and the requests q, the first a and the first b are of
\* earlier runs; each answer that a run at its n-th request has matched was
\* one of them or came after them.
Stale(w, q, n, a, b) ==
    /\ a \in 0..Len(w) /\ b \in 0..Len(q)
    /\ b > 0 => a = Len(w)
    /\ a > 0 => w[a].code # "pending"
    /\ (a = 0 /\ b = 0) \/ Finals(w, a) + b + n <= ErasedAt
    /\ \A j \in (a + 1)..Len(w) : Early(w[j].service) /\ w[j].code # "pending"
    /\ \A j \in (b + 1)..Len(q) : Early(q[j].service)

BeforeErase == at < ErasedAt \/ (at = ErasedAt /\ phase = "send")
Lagging ==
    Running /\ BeforeErase =>
        \E a \in 0..Len(wire), b \in 0..Len(inbox) : Stale(wire, inbox, at, a, b)

\* When the erase is sent nothing of an earlier run is left, so that it is
\* answered by its own answer, the last that comes.
Erasing ==
    phase = "wait" /\ at = ErasedAt =>
        /\ \A j \in 1..Len(inbox) : j < Len(inbox) => Early(inbox[j].service)
        /\ inbox # <<>> =>
              /\ inbox[Len(inbox)].service = Erase
              /\ \A j \in 1..Len(wire) : Early(wire[j].service) /\ wire[j].code # "pending"
        /\ \A j \in 1..Len(wire) : wire[j].service = Erase /\ wire[j].code = "ok" =>
              j = Len(wire) /\ inbox = <<>> /\ ~ecu.valid

\* From there on the run and the ECU are at the same request.
PollsOnly ==
    /\ \A j \in 1..Len(inbox) : inbox[j].service = Poll
    /\ \A j \in 1..Len(wire) : wire[j].service = Poll /\ wire[j].code # "pending"
NewApp == ecu.app = "new" /\ ecu.valid /\ ecu.alive

InStep ==
    Running /\ at > ErasedAt =>
        /\ phase = "send" /\ at < PollAt => inbox = <<>> /\ wire = <<>>
        /\ phase = "wait" /\ at < PollAt =>
              /\ inbox = <<>> \/ (inbox = <<Chain[at]>> /\ wire = <<>>)
              /\ \A j \in 1..Len(wire) : wire[j].code # "pending" => j = Len(wire)
        /\ at = PollAt =>
              PollsOnly /\ \A j \in 1..Len(wire) : wire[j].code = "ok" => NewApp
        /\ at < VerifiedAt => ~ecu.valid
        /\ ecu.valid => ecu.app = "new"

Succeeded == phase = "done" \/ (exit = "ok" /\ Flashes) => PollsOnly /\ NewApp

Flow == FlowTyped /\ EcuOK /\ Leftover /\ Lagging /\ Erasing /\ InStep /\ Succeeded
FlowInv == prog # "fake" => Flow

-------------------------------------------------------------------------------
(* The chain of requests, request by request.                              *)

\* A sequence that is put together from two.
LEMMA Joined ==
    ASSUME NEW S, NEW s \in Seq(S), NEW t \in Seq(S)
    PROVE  /\ s \o t \in Seq(S) /\ Len(s \o t) = Len(s) + Len(t)
           /\ \A i \in 1..Len(s) : (s \o t)[i] = s[i]
           /\ \A i \in 1..Len(t) : (s \o t)[Len(s) + i] = t[i]
<1>1. Len(s) \in Nat /\ Len(t) \in Nat
  OBVIOUS
<1>2. /\ s \o t \in Seq(S) /\ Len(s \o t) = Len(s) + Len(t)
      /\ \A i \in 1..(Len(s) + Len(t)) :
           (s \o t)[i] = IF i <= Len(s) THEN s[i] ELSE t[i - Len(s)]
  BY ConcatProperties
<1>3. ASSUME NEW i \in 1..Len(t) PROVE (s \o t)[Len(s) + i] = t[i]
  <2>1. /\ Len(s) + i \in 1..(Len(s) + Len(t)) /\ ~(Len(s) + i <= Len(s))
        /\ (Len(s) + i) - Len(s) = i
    BY <1>1
  <2> QED
    BY <1>2, <2>1
<1>4. ASSUME NEW i \in 1..Len(s) PROVE (s \o t)[i] = s[i]
  BY <1>1, <1>2
<1> QED
  BY <1>2, <1>3, <1>4

\* The same, counted from the other end, and its last two when two come last.
LEMMA JoinedAt ==
    ASSUME NEW S, NEW s \in Seq(S), NEW t \in Seq(S)
    PROVE  /\ s \o t \in Seq(S) /\ Len(s \o t) = Len(s) + Len(t)
           /\ \A i \in 1..Len(s) : (s \o t)[i] = s[i]
           /\ \A i \in 1..Len(t) : (s \o t)[i + Len(s)] = t[i]
           /\ Len(t) = 2 => (s \o t)[Len(s) + 1] = t[1] /\ (s \o t)[Len(s) + 2] = t[2]
<1> DEFINE st == s \o t
<1>1. /\ st \in Seq(S) /\ Len(st) = Len(s) + Len(t)
      /\ \A i \in 1..Len(s) : st[i] = s[i]
      /\ \A i \in 1..Len(t) : st[Len(s) + i] = t[i]
  BY Joined
<1>t. Len(s) \in Nat /\ Len(t) \in Nat
  OBVIOUS
<1> HIDE DEF st
<1>2. ASSUME NEW i \in 1..Len(t) PROVE st[i + Len(s)] = t[i]
  <2>1. Len(s) + i = i + Len(s)
    BY <1>t
  <2> QED
    BY <1>1, <2>1
<1>3. Len(t) = 2 => st[Len(s) + 1] = t[1] /\ st[Len(s) + 2] = t[2]
  BY <1>1
<1> QED
  BY <1>1, <1>2, <1>3 DEF st

\* A request carries what its service needs.
LEMMA RequestIs ==
    ASSUME NEW service \in Services
    PROVE  Request(service) \in Requests /\ Request(service).service = service
BY DEF Request, Requests, Names

\* The n-th block of an image.
BlockRequest(img, n) ==
    [Request("36") EXCEPT !.seq = BlockSequence(n), !.img = img, !.block = n]
StartRequest(img) == [Request("34") EXCEPT !.img = img]
EndRequest(img) == [Request("37") EXCEPT !.img = img, !.crc = img]

\* A block's number is what the code sends of it.
LEMMA BlockRequestIs ==
    ASSUME NEW img \in Images, NEW n \in Nat
    PROVE  /\ BlockRequest(img, n) \in Requests /\ BlockRequest(img, n).service = "36"
           /\ StartRequest(img) \in Requests /\ StartRequest(img).service = "34"
           /\ EndRequest(img) \in Requests /\ EndRequest(img).service = "37"
<1>1. BlockSequence(n) \in Nat
  BY WorkflowAssumption DEF BlockSequence
<1>2. img \in Names /\ {"34", "36", "37"} \subseteq Services
  BY DEF Names, Services
<1>3. /\ Request("36") \in Requests /\ Request("36").service = "36"
      /\ Request("34") \in Requests /\ Request("34").service = "34"
      /\ Request("37") \in Requests /\ Request("37").service = "37"
  BY <1>2, RequestIs
<1> QED
  BY <1>1, <1>2, <1>3 DEF BlockRequest, StartRequest, EndRequest, Requests

\* RequestDownload, the blocks in order, RequestTransferExit.
LEMMA DownloadIs ==
    ASSUME NEW img \in Images
    PROVE  /\ DownloadImage(img) \in Seq(Requests) /\ Len(DownloadImage(img)) = Blocks[img] + 2
           /\ DownloadImage(img)[1] = StartRequest(img)
           /\ \A n \in 1..Blocks[img] : DownloadImage(img)[n + 1] = BlockRequest(img, n)
           /\ DownloadImage(img)[Blocks[img] + 2] = EndRequest(img)
<1> DEFINE B == Blocks[img]
           blocks == [n \in 1..B |-> BlockRequest(img, n)]
           first == <<StartRequest(img)>>
           last == <<EndRequest(img)>>
<1>0. B \in Nat \ {0}
  BY WorkflowAssumption
<1>1. first \in Seq(Requests) /\ Len(first) = 1 /\ first[1] = StartRequest(img)
  BY BlockRequestIs
<1>2. last \in Seq(Requests) /\ Len(last) = 1 /\ last[1] = EndRequest(img)
  BY BlockRequestIs
<1>3. /\ blocks \in Seq(Requests) /\ Len(blocks) = B
      /\ \A n \in 1..B : blocks[n] = BlockRequest(img, n)
  BY <1>0, BlockRequestIs
<1>4. DownloadImage(img) = (first \o blocks) \o last
  BY DEF DownloadImage, StartRequest, EndRequest, BlockRequest
<1> HIDE DEF B, blocks, first, last
<1> DEFINE fb == first \o blocks
<1>5. /\ fb \in Seq(Requests) /\ Len(fb) = 1 + B /\ fb[1] = first[1]
      /\ \A i \in 1..B : fb[1 + i] = blocks[i]
  <2>1. /\ fb \in Seq(Requests) /\ Len(fb) = Len(first) + Len(blocks)
        /\ \A i \in 1..Len(first) : fb[i] = first[i]
        /\ \A i \in 1..Len(blocks) : fb[Len(first) + i] = blocks[i]
    <3>1. first \in Seq(Requests) /\ blocks \in Seq(Requests)
      BY <1>1, <1>3
    <3> QED
      BY <3>1, Joined
  <2> QED
    BY <1>1, <1>3, <2>1
<1> HIDE DEF fb
<1>6. /\ fb \o last \in Seq(Requests) /\ Len(fb \o last) = Len(fb) + 1
      /\ \A i \in 1..Len(fb) : (fb \o last)[i] = fb[i]
      /\ (fb \o last)[Len(fb) + 1] = last[1]
  <2>1. /\ fb \o last \in Seq(Requests) /\ Len(fb \o last) = Len(fb) + Len(last)
        /\ \A i \in 1..Len(fb) : (fb \o last)[i] = fb[i]
        /\ \A i \in 1..Len(last) : (fb \o last)[Len(fb) + i] = last[i]
    <3>1. fb \in Seq(Requests) /\ last \in Seq(Requests)
      BY <1>2, <1>5
    <3> QED
      BY <3>1, Joined
  <2> QED
    BY <1>2, <2>1
<1>7. DownloadImage(img) = fb \o last
  BY <1>4 DEF fb
<1>8. /\ DownloadImage(img) \in Seq(Requests) /\ Len(DownloadImage(img)) = B + 2
      /\ DownloadImage(img)[1] = StartRequest(img)
      /\ DownloadImage(img)[B + 2] = EndRequest(img)
  <2>1. Len(fb) + 1 = B + 2 /\ 1 \in 1..Len(fb)
    BY <1>0, <1>5
  <2> QED
    BY <1>1, <1>2, <1>5, <1>6, <1>7, <2>1
<1>9. ASSUME NEW n \in 1..B PROVE DownloadImage(img)[n + 1] = BlockRequest(img, n)
  <2>1. n + 1 \in 1..Len(fb) /\ n + 1 = 1 + n
    BY <1>0, <1>5
  <2> QED
    BY <1>3, <1>5, <1>6, <1>7, <2>1
<1> QED
  BY <1>8, <1>9 DEF B

\* Two entries.
LEMMA PairIs ==
    ASSUME NEW S, NEW a \in S, NEW b \in S
    PROVE  <<a, b>> \in Seq(S) /\ Len(<<a, b>>) = 2 /\ <<a, b>>[1] = a /\ <<a, b>>[2] = b
OBVIOUS

\* Three pairs of entries.
LEMMA SixAre ==
    ASSUME NEW S, NEW a \in S, NEW b \in S, NEW c \in S, NEW d \in S, NEW e \in S, NEW f \in S,
           NEW p, p = <<a, b>> \o <<c, d>> \o <<e, f>>
    PROVE  /\ p \in Seq(S) /\ Len(p) = 6
           /\ p[1] = a /\ p[2] = b /\ p[3] = c /\ p[4] = d /\ p[5] = e /\ p[6] = f
<1> DEFINE s == <<a, b>>
           t == <<c, d>>
           u == <<e, f>>
           st == s \o t
<1>1. s \in Seq(S) /\ Len(s) = 2 /\ s[1] = a /\ s[2] = b
  BY PairIs
<1>2. t \in Seq(S) /\ Len(t) = 2 /\ t[1] = c /\ t[2] = d
  BY PairIs
<1>3. u \in Seq(S) /\ Len(u) = 2 /\ u[1] = e /\ u[2] = f
  BY PairIs
<1>p. p = st \o u
  OBVIOUS
<1> HIDE DEF s, t, u
<1>4. /\ st \in Seq(S) /\ Len(st) = Len(s) + Len(t)
      /\ \A i \in 1..Len(s) : st[i] = s[i]
      /\ \A i \in 1..Len(t) : st[Len(s) + i] = t[i]
  <2>1. s \in Seq(S) /\ t \in Seq(S)
    BY <1>1, <1>2
  <2> QED
    BY <2>1, Joined
<1>5. Len(st) = 4 /\ st[1] = a /\ st[2] = b /\ st[3] = c /\ st[4] = d /\ st \in Seq(S)
  <2>1. st[2 + 1] = t[1] /\ st[2 + 2] = t[2] /\ st[1] = s[1] /\ st[2] = s[2]
    BY <1>1, <1>2, <1>4
  <2> QED
    BY <1>1, <1>2, <1>4, <2>1
<1> HIDE DEF st
<1>6. /\ p \in Seq(S) /\ Len(p) = Len(st) + Len(u)
      /\ \A i \in 1..Len(st) : p[i] = st[i]
      /\ \A i \in 1..Len(u) : p[Len(st) + i] = u[i]
  <2>1. st \in Seq(S) /\ u \in Seq(S)
    BY <1>3, <1>5
  <2> QED
    <3>1. /\ st \o u \in Seq(S) /\ Len(st \o u) = Len(st) + Len(u)
          /\ \A i \in 1..Len(st) : (st \o u)[i] = st[i]
          /\ \A i \in 1..Len(u) : (st \o u)[Len(st) + i] = u[i]
      BY <2>1, Joined
    <3> QED
      BY <1>p, <3>1, Zenon
<1>7. p[4 + 1] = u[1] /\ p[4 + 2] = u[2] /\ p[1] = st[1] /\ p[2] = st[2] /\ p[3] = st[3]
      /\ p[4] = st[4]
  BY <1>3, <1>5, <1>6
<1> QED
  BY <1>3, <1>5, <1>6, <1>7

\* The six requests before the ECU is in its Boot, and the two after that.
LEMMA PreprogrammingIs ==
    /\ Preprogramming \in Seq(Requests) /\ Len(Preprogramming) = 6
    /\ Preprogramming[1] = Request("10 01") /\ Preprogramming[2] = Request("10 03")
    /\ Preprogramming[3] = Request("27 01") /\ Preprogramming[4] = Request("27 02")
    /\ Preprogramming[5] = Request("31 01 02 03") /\ Preprogramming[6] = Request("10 02")
    /\ SecurityAccess("27 09", "27 0A") \in Seq(Requests)
    /\ Len(SecurityAccess("27 09", "27 0A")) = 2
    /\ SecurityAccess("27 09", "27 0A")[1] = Request("27 09")
    /\ SecurityAccess("27 09", "27 0A")[2] = Request("27 0A")
<1>1. /\ Request("10 01") \in Requests /\ Request("10 03") \in Requests
      /\ Request("27 01") \in Requests /\ Request("27 02") \in Requests
      /\ Request("31 01 02 03") \in Requests /\ Request("10 02") \in Requests
      /\ Request("27 09") \in Requests /\ Request("27 0A") \in Requests
  BY RequestIs DEF Services
<1>3. Preprogramming =
        <<Request("10 01"), Request("10 03")>> \o <<Request("27 01"), Request("27 02")>>
          \o <<Request("31 01 02 03"), Request("10 02")>>
  BY DEF Preprogramming, SecurityAccess
<1>4. /\ Preprogramming \in Seq(Requests) /\ Len(Preprogramming) = 6
      /\ Preprogramming[1] = Request("10 01") /\ Preprogramming[2] = Request("10 03")
      /\ Preprogramming[3] = Request("27 01") /\ Preprogramming[4] = Request("27 02")
      /\ Preprogramming[5] = Request("31 01 02 03") /\ Preprogramming[6] = Request("10 02")
  <2> DEFINE a == Request("10 01")
             b == Request("10 03")
             c == Request("27 01")
             d == Request("27 02")
             e == Request("31 01 02 03")
             f == Request("10 02")
  <2>1. a \in Requests /\ b \in Requests /\ c \in Requests /\ d \in Requests
        /\ e \in Requests /\ f \in Requests
    BY <1>1
  <2>2. Preprogramming = <<a, b>> \o <<c, d>> \o <<e, f>>
    BY <1>3
  <2> HIDE DEF a, b, c, d, e, f
  <2>3. /\ Preprogramming \in Seq(Requests) /\ Len(Preprogramming) = 6
        /\ Preprogramming[1] = a /\ Preprogramming[2] = b /\ Preprogramming[3] = c
        /\ Preprogramming[4] = d /\ Preprogramming[5] = e /\ Preprogramming[6] = f
    BY <2>1, <2>2, SixAre
  <2> QED
    BY <2>3 DEF a, b, c, d, e, f
<1>6. LET p == SecurityAccess("27 09", "27 0A") IN
      /\ p \in Seq(Requests) /\ Len(p) = 2 /\ p[1] = Request("27 09") /\ p[2] = Request("27 0A")
  BY <1>1, PairIs DEF SecurityAccess
<1> QED
  BY <1>4, <1>6

\* What is sent in the Boot: the key, the driver, the App.
LEMMA BootProgrammingIs ==
    LET Bd == Blocks["driver"]
        Ba == Blocks["app"]
        Boot == BootProgramming
    IN  /\ Boot \in Seq(Requests) /\ Len(Boot) = Bd + Ba + 10
        /\ Boot[1] = Request("27 09") /\ Boot[2] = Request("27 0A")
        /\ Boot[3] = StartRequest("driver")
        /\ \A n \in 1..Bd : Boot[n + 3] = BlockRequest("driver", n)
        /\ Boot[Bd + 4] = EndRequest("driver")
        /\ Boot[Bd + 5] = Request("31 01 02 02") /\ Boot[Bd + 6] = Request(Erase)
        /\ Boot[Bd + 7] = StartRequest("app")
        /\ \A n \in 1..Ba : Boot[n + (Bd + 7)] = BlockRequest("app", n)
        /\ Boot[Bd + Ba + 8] = EndRequest("app")
        /\ Boot[Bd + Ba + 9] = Request(Verify) /\ Boot[Bd + Ba + 10] = Request("11 01")
<1> DEFINE Bd == Blocks["driver"]
           Ba == Blocks["app"]
           k == SecurityAccess("27 09", "27 0A")
           d == DownloadImage("driver")
           x == <<Request("31 01 02 02"), Request("31 01 FF 00")>>
           a == DownloadImage("app")
           y == <<Request("31 01 FF 01"), Request("11 01")>>
           s1 == k \o d
           s2 == s1 \o x
           s3 == s2 \o a
           s4 == s3 \o y
<1>n. Bd \in Nat \ {0} /\ Ba \in Nat \ {0}
  BY WorkflowAssumption DEF Images
<1>k. /\ k \in Seq(Requests) /\ Len(k) = 2
      /\ k[1] = Request("27 09") /\ k[2] = Request("27 0A")
  BY PreprogrammingIs
<1>d. /\ d \in Seq(Requests) /\ Len(d) = Bd + 2
      /\ d[1] = StartRequest("driver") /\ d[Bd + 2] = EndRequest("driver")
      /\ \A n \in 1..Bd : d[n + 1] = BlockRequest("driver", n)
  BY DownloadIs DEF Images
<1>a. /\ a \in Seq(Requests) /\ Len(a) = Ba + 2
      /\ a[1] = StartRequest("app") /\ a[Ba + 2] = EndRequest("app")
      /\ \A n \in 1..Ba : a[n + 1] = BlockRequest("app", n)
  BY DownloadIs DEF Images
<1>r. /\ Request("31 01 02 02") \in Requests /\ Request("31 01 FF 00") \in Requests
      /\ Request("31 01 FF 01") \in Requests /\ Request("11 01") \in Requests
  BY RequestIs DEF Services
<1>x. /\ x \in Seq(Requests) /\ Len(x) = 2
      /\ x[1] = Request("31 01 02 02") /\ x[2] = Request(Erase)
  BY <1>r, PairIs DEF Erase
<1>y. /\ y \in Seq(Requests) /\ Len(y) = 2
      /\ y[1] = Request(Verify) /\ y[2] = Request("11 01")
  BY <1>r, PairIs DEF Verify
<1>b. BootProgramming = s4
  BY DEF BootProgramming
<1> HIDE DEF Bd, Ba, k, d, x, a, y
<1>1. /\ s1 \in Seq(Requests) /\ Len(s1) = Bd + 4
      /\ s1[1] = k[1] /\ s1[2] = k[2]
      /\ \A i \in 1..(Bd + 2) : s1[i + 2] = d[i]
  <2>1. k \in Seq(Requests) /\ d \in Seq(Requests)
    BY <1>k, <1>d
  <2>2. /\ s1 \in Seq(Requests) /\ Len(s1) = Len(k) + Len(d)
        /\ \A i \in 1..Len(k) : s1[i] = k[i]
        /\ \A i \in 1..Len(d) : s1[i + Len(k)] = d[i]
        /\ Len(d) = 2 => s1[Len(k) + 1] = d[1] /\ s1[Len(k) + 2] = d[2]
    BY <2>1, JoinedAt
  <2> HIDE DEF s1
  <2>3. Len(k) = 2 /\ Len(d) = Bd + 2
    BY <1>k, <1>d
  <2>4. 2 + (Bd + 2) = Bd + 4 /\ 1 \in 1..2 /\ 2 \in 1..2
    BY <1>n
  <2> QED
    BY <2>2, <2>3, <2>4
<1> HIDE DEF s1
<1>2. /\ s2 \in Seq(Requests) /\ Len(s2) = Bd + 6
      /\ \A i \in 1..(Bd + 4) : s2[i] = s1[i]
      /\ s2[Bd + 5] = x[1] /\ s2[Bd + 6] = x[2]
  <2>1. s1 \in Seq(Requests) /\ x \in Seq(Requests)
    BY <1>1, <1>x
  <2>2. /\ s2 \in Seq(Requests) /\ Len(s2) = Len(s1) + Len(x)
        /\ \A i \in 1..Len(s1) : s2[i] = s1[i]
        /\ \A i \in 1..Len(x) : s2[i + Len(s1)] = x[i]
        /\ Len(x) = 2 => s2[Len(s1) + 1] = x[1] /\ s2[Len(s1) + 2] = x[2]
    BY <2>1, JoinedAt
  <2> HIDE DEF s2
  <2>3. Len(s1) = Bd + 4 /\ Len(x) = 2
    BY <1>1, <1>x
  <2>4. (Bd + 4) + 1 = Bd + 5 /\ (Bd + 4) + 2 = Bd + 6
    BY <1>n
  <2> QED
    BY <2>2, <2>3, <2>4
<1> HIDE DEF s2
<1>3. /\ s3 \in Seq(Requests) /\ Len(s3) = Bd + Ba + 8
      /\ \A i \in 1..(Bd + 6) : s3[i] = s2[i]
      /\ \A i \in 1..(Ba + 2) : s3[i + (Bd + 6)] = a[i]
  <2>1. s2 \in Seq(Requests) /\ a \in Seq(Requests)
    BY <1>2, <1>a
  <2>2. /\ s3 \in Seq(Requests) /\ Len(s3) = Len(s2) + Len(a)
        /\ \A i \in 1..Len(s2) : s3[i] = s2[i]
        /\ \A i \in 1..Len(a) : s3[i + Len(s2)] = a[i]
        /\ Len(a) = 2 => s3[Len(s2) + 1] = a[1] /\ s3[Len(s2) + 2] = a[2]
    BY <2>1, JoinedAt
  <2> HIDE DEF s3
  <2>3. Len(s2) = Bd + 6 /\ Len(a) = Ba + 2
    BY <1>2, <1>a
  <2>4. (Bd + 6) + (Ba + 2) = Bd + Ba + 8
    BY <1>n
  <2> QED
    BY <2>2, <2>3, <2>4
<1> HIDE DEF s3
<1>4. /\ s4 \in Seq(Requests) /\ Len(s4) = Bd + Ba + 10
      /\ \A i \in 1..(Bd + Ba + 8) : s4[i] = s3[i]
      /\ s4[Bd + Ba + 9] = y[1] /\ s4[Bd + Ba + 10] = y[2]
  <2>1. s3 \in Seq(Requests) /\ y \in Seq(Requests)
    BY <1>3, <1>y
  <2>2. /\ s4 \in Seq(Requests) /\ Len(s4) = Len(s3) + Len(y)
        /\ \A i \in 1..Len(s3) : s4[i] = s3[i]
        /\ \A i \in 1..Len(y) : s4[i + Len(s3)] = y[i]
        /\ Len(y) = 2 => s4[Len(s3) + 1] = y[1] /\ s4[Len(s3) + 2] = y[2]
    BY <2>1, JoinedAt
  <2> HIDE DEF s4
  <2>3. Len(s3) = Bd + Ba + 8 /\ Len(y) = 2
    BY <1>3, <1>y
  <2>4. (Bd + Ba + 8) + 1 = Bd + Ba + 9 /\ (Bd + Ba + 8) + 2 = Bd + Ba + 10
    BY <1>n
  <2> QED
    BY <2>2, <2>3, <2>4
<1> HIDE DEF s4
<1>5. /\ s4 \in Seq(Requests) /\ Len(s4) = Bd + Ba + 10
      /\ s4[1] = Request("27 09") /\ s4[2] = Request("27 0A")
  <2>1. /\ 1 \in 1..(Bd + 4) /\ 1 \in 1..(Bd + 6) /\ 1 \in 1..(Bd + Ba + 8)
        /\ 2 \in 1..(Bd + 4) /\ 2 \in 1..(Bd + 6) /\ 2 \in 1..(Bd + Ba + 8)
    BY <1>n
  <2> QED
    BY <1>k, <1>1, <1>2, <1>3, <1>4, <2>1
<1>6. ASSUME NEW i \in 1..(Bd + 2) PROVE s4[i + 2] = d[i]
  <2>1. /\ i + 2 \in 1..(Bd + 4) /\ i + 2 \in 1..(Bd + 6) /\ i + 2 \in 1..(Bd + Ba + 8)
    BY <1>n
  <2> QED
    BY <1>1, <1>2, <1>3, <1>4, <2>1
<1>7. ASSUME NEW i \in 1..(Ba + 2) PROVE s4[i + (Bd + 6)] = a[i]
  <2>1. i + (Bd + 6) \in 1..(Bd + Ba + 8)
    BY <1>n
  <2> QED
    BY <1>3, <1>4, <2>1
<1>8. s4[Bd + 5] = Request("31 01 02 02") /\ s4[Bd + 6] = Request(Erase)
  <2>1. /\ Bd + 5 \in 1..(Bd + 6) /\ Bd + 6 \in 1..(Bd + 6)
        /\ Bd + 5 \in 1..(Bd + Ba + 8) /\ Bd + 6 \in 1..(Bd + Ba + 8)
    BY <1>n
  <2> QED
    BY <1>2, <1>3, <1>4, <1>x, <2>1
<1>9. /\ s4[3] = StartRequest("driver") /\ s4[Bd + 4] = EndRequest("driver")
      /\ \A n \in 1..Bd : s4[n + 3] = BlockRequest("driver", n)
  <2>1. s4[1 + 2] = d[1] /\ s4[(Bd + 2) + 2] = d[Bd + 2]
    <3>1. 1 \in 1..(Bd + 2) /\ Bd + 2 \in 1..(Bd + 2)
      BY <1>n
    <3> QED
      BY <1>6, <3>1
  <2>2. (Bd + 2) + 2 = Bd + 4 /\ 1 + 2 = 3
    BY <1>n
  <2>3. ASSUME NEW n \in 1..Bd PROVE s4[n + 3] = BlockRequest("driver", n)
    <3>1. n + 1 \in 1..(Bd + 2) /\ (n + 1) + 2 = n + 3
      BY <1>n
    <3>2. s4[(n + 1) + 2] = d[n + 1]
      BY <1>6, <3>1
    <3> QED
      BY <1>d, <3>1, <3>2
  <2> QED
    BY <1>d, <2>1, <2>2, <2>3
<1>10. /\ s4[Bd + 7] = StartRequest("app") /\ s4[Bd + Ba + 8] = EndRequest("app")
       /\ \A n \in 1..Ba : s4[n + (Bd + 7)] = BlockRequest("app", n)
  <2>1. s4[1 + (Bd + 6)] = a[1] /\ s4[(Ba + 2) + (Bd + 6)] = a[Ba + 2]
    <3>1. 1 \in 1..(Ba + 2) /\ Ba + 2 \in 1..(Ba + 2)
      BY <1>n
    <3> QED
      BY <1>7, <3>1
  <2>2. (Ba + 2) + (Bd + 6) = Bd + Ba + 8 /\ 1 + (Bd + 6) = Bd + 7
    BY <1>n
  <2>3. ASSUME NEW n \in 1..Ba PROVE s4[n + (Bd + 7)] = BlockRequest("app", n)
    <3>1. n + 1 \in 1..(Ba + 2) /\ (n + 1) + (Bd + 6) = n + (Bd + 7)
      BY <1>n
    <3>2. s4[(n + 1) + (Bd + 6)] = a[n + 1]
      BY <1>7, <3>1
    <3> QED
      BY <1>a, <3>1, <3>2
  <2> QED
    BY <1>a, <2>1, <2>2, <2>3
<1>11. s4[Bd + Ba + 9] = Request(Verify) /\ s4[Bd + Ba + 10] = Request("11 01")
  BY <1>4, <1>y
<1> QED
  BY <1>b, <1>5, <1>8, <1>9, <1>10, <1>11, Zenon DEF Bd, Ba

\* The whole chain, from the default session to the App's first answer.
LEMMA ChainIs ==
    LET Bd == Blocks["driver"]
        Ba == Blocks["app"]
    IN  /\ Chain \in Seq(Requests) /\ Len(Chain) = PollAt
        /\ Chain[1] = Request("10 01") /\ Chain[2] = Request("10 03")
        /\ Chain[3] = Request("27 01") /\ Chain[4] = Request("27 02")
        /\ Chain[5] = Request("31 01 02 03") /\ Chain[6] = Request("10 02")
        /\ Chain[7] = Request("27 09") /\ Chain[8] = Request("27 0A")
        /\ Chain[9] = StartRequest("driver")
        /\ \A n \in 1..Bd : Chain[n + 9] = BlockRequest("driver", n)
        /\ Chain[Bd + 10] = EndRequest("driver")
        /\ Chain[Bd + 11] = Request("31 01 02 02") /\ Chain[ErasedAt] = Request(Erase)
        /\ Chain[ErasedAt + 1] = StartRequest("app")
        /\ \A n \in 1..Ba : Chain[n + (ErasedAt + 1)] = BlockRequest("app", n)
        /\ Chain[ErasedAt + Ba + 2] = EndRequest("app")
        /\ Chain[VerifiedAt] = Request(Verify) /\ Chain[VerifiedAt + 1] = Request("11 01")
        /\ Chain[PollAt] = Request(Poll)
<1> DEFINE Bd == Blocks["driver"]
           Ba == Blocks["app"]
           p == Preprogramming
           b == BootProgramming
           l == <<Request("22 30 00")>>
           pb == p \o b
           c == pb \o l
<1>n. Bd \in Nat \ {0} /\ Ba \in Nat \ {0}
  BY WorkflowAssumption DEF Images
<1>p. p \in Seq(Requests) /\ Len(p) = 6
  BY PreprogrammingIs
<1>b. b \in Seq(Requests) /\ Len(b) = Bd + Ba + 10
  BY BootProgrammingIs
<1>l. l \in Seq(Requests) /\ Len(l) = 1 /\ l[1] = Request(Poll)
  <2>1. Request("22 30 00") \in Requests
    BY RequestIs DEF Services
  <2>2. \A r \in Requests : <<r>> \in Seq(Requests) /\ Len(<<r>>) = 1 /\ <<r>>[1] = r
    OBVIOUS
  <2> QED
    BY <2>1, <2>2 DEF Poll
<1>c. Chain = c
  BY DEF Chain
<1> HIDE DEF p, b, l
<1>1. /\ pb \in Seq(Requests) /\ Len(pb) = Bd + Ba + 16
      /\ \A i \in 1..6 : pb[i] = p[i]
      /\ \A i \in 1..(Bd + Ba + 10) : pb[i + 6] = b[i]
  <2>1. p \in Seq(Requests) /\ b \in Seq(Requests)
    BY <1>p, <1>b
  <2>2. /\ pb \in Seq(Requests) /\ Len(pb) = Len(p) + Len(b)
        /\ \A i \in 1..Len(p) : pb[i] = p[i]
        /\ \A i \in 1..Len(b) : pb[i + Len(p)] = b[i]
    BY <2>1, JoinedAt
  <2> HIDE DEF pb
  <2>3. Len(p) = 6 /\ Len(b) = Bd + Ba + 10
    BY <1>p, <1>b
  <2>4. 6 + (Bd + Ba + 10) = Bd + Ba + 16
    BY <1>n
  <2> QED
    BY <2>2, <2>3, <2>4
<1> HIDE DEF pb
<1>2. /\ c \in Seq(Requests) /\ Len(c) = Bd + Ba + 17
      /\ \A i \in 1..(Bd + Ba + 16) : c[i] = pb[i]
      /\ c[Bd + Ba + 17] = l[1]
  <2>1. pb \in Seq(Requests) /\ l \in Seq(Requests)
    BY <1>1, <1>l
  <2>2. /\ c \in Seq(Requests) /\ Len(c) = Len(pb) + Len(l)
        /\ \A i \in 1..Len(pb) : c[i] = pb[i]
        /\ \A i \in 1..Len(l) : c[i + Len(pb)] = l[i]
    BY <2>1, JoinedAt
  <2> HIDE DEF c
  <2>3. Len(pb) = Bd + Ba + 16 /\ Len(l) = 1 /\ 1 \in 1..1
    BY <1>1, <1>l
  <2>4. (Bd + Ba + 16) + 1 = Bd + Ba + 17 /\ 1 + (Bd + Ba + 16) = Bd + Ba + 17
    BY <1>n
  <2> QED
    BY <2>2, <2>3, <2>4
<1> HIDE DEF c
<1>3. ASSUME NEW i \in 1..6 PROVE c[i] = p[i]
  <2>1. i \in 1..(Bd + Ba + 16)
    BY <1>n
  <2> QED
    BY <1>1, <1>2, <2>1
<1>4. ASSUME NEW i \in 1..(Bd + Ba + 10) PROVE c[i + 6] = b[i]
  <2>1. i + 6 \in 1..(Bd + Ba + 16)
    BY <1>n
  <2> QED
    BY <1>1, <1>2, <2>1
<1>5. /\ c[1] = Request("10 01") /\ c[2] = Request("10 03")
      /\ c[3] = Request("27 01") /\ c[4] = Request("27 02")
      /\ c[5] = Request("31 01 02 03") /\ c[6] = Request("10 02")
  <2>1. c[1] = p[1] /\ c[2] = p[2] /\ c[3] = p[3] /\ c[4] = p[4] /\ c[5] = p[5] /\ c[6] = p[6]
    BY <1>3
  <2> QED
    BY <2>1, PreprogrammingIs DEF p
<1>6. /\ c[7] = b[1] /\ c[8] = b[2] /\ c[9] = b[3] /\ c[Bd + 10] = b[Bd + 4]
      /\ c[Bd + 11] = b[Bd + 5] /\ c[Bd + 12] = b[Bd + 6] /\ c[Bd + 13] = b[Bd + 7]
      /\ c[Bd + Ba + 14] = b[Bd + Ba + 8] /\ c[Bd + Ba + 15] = b[Bd + Ba + 9]
      /\ c[Bd + Ba + 16] = b[Bd + Ba + 10]
  <2>1. /\ c[1 + 6] = b[1] /\ c[2 + 6] = b[2] /\ c[3 + 6] = b[3] /\ c[(Bd + 4) + 6] = b[Bd + 4]
        /\ c[(Bd + 5) + 6] = b[Bd + 5] /\ c[(Bd + 6) + 6] = b[Bd + 6]
        /\ c[(Bd + 7) + 6] = b[Bd + 7] /\ c[(Bd + Ba + 8) + 6] = b[Bd + Ba + 8]
        /\ c[(Bd + Ba + 9) + 6] = b[Bd + Ba + 9] /\ c[(Bd + Ba + 10) + 6] = b[Bd + Ba + 10]
    <3>1. /\ 1 \in 1..(Bd + Ba + 10) /\ 2 \in 1..(Bd + Ba + 10) /\ 3 \in 1..(Bd + Ba + 10)
          /\ Bd + 4 \in 1..(Bd + Ba + 10) /\ Bd + 5 \in 1..(Bd + Ba + 10)
          /\ Bd + 6 \in 1..(Bd + Ba + 10) /\ Bd + 7 \in 1..(Bd + Ba + 10)
          /\ Bd + Ba + 8 \in 1..(Bd + Ba + 10) /\ Bd + Ba + 9 \in 1..(Bd + Ba + 10)
          /\ Bd + Ba + 10 \in 1..(Bd + Ba + 10)
      BY <1>n
    <3> QED
      BY <1>4, <3>1
  <2>2. /\ 1 + 6 = 7 /\ 2 + 6 = 8 /\ 3 + 6 = 9 /\ (Bd + 4) + 6 = Bd + 10
        /\ (Bd + 5) + 6 = Bd + 11 /\ (Bd + 6) + 6 = Bd + 12 /\ (Bd + 7) + 6 = Bd + 13
        /\ (Bd + Ba + 8) + 6 = Bd + Ba + 14 /\ (Bd + Ba + 9) + 6 = Bd + Ba + 15
        /\ (Bd + Ba + 10) + 6 = Bd + Ba + 16
    BY <1>n
  <2> QED
    BY <2>1, <2>2
<1>7. ASSUME NEW n \in 1..Bd PROVE c[n + 9] = BlockRequest("driver", n)
  <2>1. n + 3 \in 1..(Bd + Ba + 10) /\ (n + 3) + 6 = n + 9
    BY <1>n
  <2>2. c[(n + 3) + 6] = b[n + 3]
    BY <1>4, <2>1
  <2>3. b[n + 3] = BlockRequest("driver", n)
    BY BootProgrammingIs DEF b
  <2> QED
    BY <2>1, <2>2, <2>3
<1>8. ASSUME NEW n \in 1..Ba PROVE c[n + (Bd + 13)] = BlockRequest("app", n)
  <2>1. n + (Bd + 7) \in 1..(Bd + Ba + 10) /\ (n + (Bd + 7)) + 6 = n + (Bd + 13)
    BY <1>n
  <2>2. c[(n + (Bd + 7)) + 6] = b[n + (Bd + 7)]
    BY <1>4, <2>1
  <2>3. b[n + (Bd + 7)] = BlockRequest("app", n)
    BY BootProgrammingIs DEF b
  <2> QED
    BY <2>1, <2>2, <2>3
<1>9. /\ ErasedAt = Bd + 12 /\ ErasedAt + 1 = Bd + 13 /\ ErasedAt + Ba + 2 = Bd + Ba + 14
      /\ VerifiedAt = Bd + Ba + 15 /\ VerifiedAt + 1 = Bd + Ba + 16 /\ PollAt = Bd + Ba + 17
  BY <1>n DEF ErasedAt, VerifiedAt, PollAt
<1>10. /\ b[1] = Request("27 09") /\ b[2] = Request("27 0A") /\ b[3] = StartRequest("driver")
       /\ b[Bd + 4] = EndRequest("driver") /\ b[Bd + 5] = Request("31 01 02 02")
       /\ b[Bd + 6] = Request(Erase) /\ b[Bd + 7] = StartRequest("app")
       /\ b[Bd + Ba + 8] = EndRequest("app") /\ b[Bd + Ba + 9] = Request(Verify)
       /\ b[Bd + Ba + 10] = Request("11 01")
  BY BootProgrammingIs, Zenon DEF b, Bd, Ba
<1> HIDE DEF Bd, Ba
<1>11. /\ c[7] = Request("27 09") /\ c[8] = Request("27 0A") /\ c[9] = StartRequest("driver")
       /\ c[Bd + 10] = EndRequest("driver") /\ c[Bd + 11] = Request("31 01 02 02")
       /\ c[ErasedAt] = Request(Erase) /\ c[ErasedAt + 1] = StartRequest("app")
       /\ c[ErasedAt + Ba + 2] = EndRequest("app") /\ c[VerifiedAt] = Request(Verify)
       /\ c[VerifiedAt + 1] = Request("11 01") /\ c[PollAt] = Request(Poll)
  BY <1>l, <1>2, <1>6, <1>9, <1>10
<1>12. \A n \in 1..Ba : c[n + (ErasedAt + 1)] = BlockRequest("app", n)
  BY <1>8, <1>9
<1>13. c \in Seq(Requests) /\ Len(c) = PollAt
  BY <1>2, <1>9
<1> QED
  BY <1>c, <1>5, <1>7, <1>11, <1>12, <1>13, Zenon DEF Bd, Ba

\* The numbers that tell where the run is.
LEMMA PlacesAre ==
    /\ ErasedAt \in Nat /\ VerifiedAt \in Nat /\ PollAt \in Nat
    /\ ErasedAt >= 13 /\ ErasedAt + 1 < VerifiedAt /\ VerifiedAt + 1 < PollAt
    /\ PollAt = VerifiedAt + 2
BY WorkflowAssumption DEF ErasedAt, VerifiedAt, PollAt, Images

\* Which services are asked for where.
LEMMA ServiceAt ==
    ASSUME NEW n \in 1..PollAt
    PROVE  /\ Chain[n] \in Range(Chain) /\ Chain[n] \in Requests
           /\ n < ErasedAt => Early(Chain[n].service)
           /\ n = ErasedAt => Chain[n].service = Erase
           /\ n > ErasedAt /\ n < VerifiedAt => Chain[n].service \in {"34", "36", "37"}
           /\ n = VerifiedAt => Chain[n].service = Verify
           /\ n = VerifiedAt + 1 => Chain[n].service = "11 01"
           /\ n = PollAt => Chain[n].service = Poll
<1> DEFINE Bd == Blocks["driver"]
           Ba == Blocks["app"]
<1>n. Bd \in Nat \ {0} /\ Ba \in Nat \ {0}
  BY WorkflowAssumption DEF Images
<1>9. /\ ErasedAt = Bd + 12 /\ VerifiedAt = Bd + Ba + 15 /\ PollAt = Bd + Ba + 17
  BY <1>n DEF ErasedAt, VerifiedAt, PollAt
<1> HIDE DEF Bd, Ba
<1>1. Chain[n] \in Range(Chain) /\ Chain[n] \in Requests
  <2>1. Chain \in Seq(Requests) /\ Len(Chain) = PollAt
    BY ChainIs
  <2>2. n \in DOMAIN Chain
    BY <2>1
  <2> QED
    BY <2>1, <2>2 DEF Range
<1>s. /\ Request("10 01").service = "10 01" /\ Request("10 03").service = "10 03"
      /\ Request("27 01").service = "27 01" /\ Request("27 02").service = "27 02"
      /\ Request("31 01 02 03").service = "31 01 02 03" /\ Request("10 02").service = "10 02"
      /\ Request("27 09").service = "27 09" /\ Request("27 0A").service = "27 0A"
      /\ Request("31 01 02 02").service = "31 01 02 02" /\ Request("11 01").service = "11 01"
      /\ Request(Erase).service = Erase /\ Request(Verify).service = Verify
      /\ Request(Poll).service = Poll
  BY DEF Request
<1>2. ASSUME n < ErasedAt PROVE Early(Chain[n].service)
  <2>1. \/ n = 1 \/ n = 2 \/ n = 3 \/ n = 4 \/ n = 5 \/ n = 6 \/ n = 7 \/ n = 8 \/ n = 9
        \/ n \in 10..(Bd + 9) \/ n = Bd + 10 \/ n = Bd + 11
    BY <1>n, <1>9, <1>2
  <2>2. CASE n \in {1, 2, 3, 4}
    <3>1. Chain[n] \in {Request("10 01"), Request("10 03"), Request("27 01"), Request("27 02")}
      BY <2>2, ChainIs
    <3> QED
      BY <1>s, <3>1 DEF Early, Erase, Verify, Poll
  <2>3. CASE n \in {5, 6, 7, 8}
    <3>1. Chain[n] \in {Request("31 01 02 03"), Request("10 02"), Request("27 09"), Request("27 0A")}
      BY <2>3, ChainIs
    <3> QED
      BY <1>s, <3>1 DEF Early, Erase, Verify, Poll
  <2>4. CASE n = 9
    BY <2>4, ChainIs, BlockRequestIs DEF Images, Early, Erase, Verify, Poll
  <2>5. CASE n \in 10..(Bd + 9)
    <3>1. n - 9 \in 1..Bd /\ (n - 9) + 9 = n /\ n - 9 \in Nat
      BY <1>n, <2>5
    <3>2. Chain[n] = BlockRequest("driver", n - 9)
      BY <3>1, ChainIs DEF Bd
    <3> QED
      BY <3>1, <3>2, BlockRequestIs DEF Images, Early, Erase, Verify, Poll
  <2>6. CASE n = Bd + 10
    BY <2>6, ChainIs, BlockRequestIs DEF Images, Early, Erase, Verify, Poll, Bd
  <2>7. CASE n = Bd + 11
    <3>1. Chain[n] = Request("31 01 02 02")
      BY <2>7, ChainIs DEF Bd
    <3> QED
      BY <1>s, <3>1 DEF Early, Erase, Verify, Poll
  <2> QED
    BY <2>1, <2>2, <2>3, <2>4, <2>5, <2>6, <2>7
<1>3. ASSUME n > ErasedAt, n < VerifiedAt PROVE Chain[n].service \in {"34", "36", "37"}
  <2>1. \/ n = ErasedAt + 1 \/ n \in (ErasedAt + 2)..(ErasedAt + Ba + 1)
        \/ n = ErasedAt + Ba + 2
    BY <1>n, <1>9, <1>3
  <2>2. CASE n = ErasedAt + 1 \/ n = ErasedAt + Ba + 2
    BY <2>2, ChainIs, BlockRequestIs DEF Images, Ba
  <2>3. CASE n \in (ErasedAt + 2)..(ErasedAt + Ba + 1)
    <3> DEFINE m == n - (ErasedAt + 1)
    <3>1. m \in 1..Ba /\ m + (ErasedAt + 1) = n /\ m \in Nat
      BY <1>n, <1>9, <2>3
    <3> HIDE DEF m
    <3>2. Chain[n] = BlockRequest("app", m)
      BY <3>1, ChainIs DEF Ba
    <3> QED
      BY <3>1, <3>2, BlockRequestIs DEF Images
  <2> QED
    BY <2>1, <2>2, <2>3
<1>4. /\ Chain[ErasedAt].service = Erase /\ Chain[VerifiedAt].service = Verify
      /\ Chain[VerifiedAt + 1].service = "11 01" /\ Chain[PollAt].service = Poll
  BY <1>s, ChainIs
<1> QED
  BY <1>1, <1>2, <1>3, <1>4

\* What the ECU has to have been through before each of them.
LEMMA StageForIs ==
    ASSUME NEW r \in Range(Chain)
    PROVE  StageFor[r.service] =
             IF r.service \in {"31 01 02 03", "10 02"} THEN 1
             ELSE IF r.service \in {"27 09", "27 0A"} THEN 2
             ELSE IF r.service \in {"34", "36", "37", "31 01 02 02"} THEN 3
             ELSE IF r.service \in {Erase, Verify} THEN 4
             ELSE 0
<1> DEFINE s == r.service
<1>1. s \in {x.service : x \in Range(Chain)}
  OBVIOUS
<1>2. StageFor[s] =
        CASE s \in {"31 01 02 03", "10 02"} -> 1
          [] s \in {"27 09", "27 0A"} -> 2
          [] s \in {"34", "36", "37", "31 01 02 02"} -> 3
          [] s \in {"31 01 FF 00", "31 01 FF 01"} -> 4
          [] OTHER -> 0
  BY <1>1 DEF StageFor
<1> HIDE DEF s
<1>3. StageFor[s] =
        IF s \in {"31 01 02 03", "10 02"} THEN 1
        ELSE IF s \in {"27 09", "27 0A"} THEN 2
        ELSE IF s \in {"34", "36", "37", "31 01 02 02"} THEN 3
        ELSE IF s \in {Erase, Verify} THEN 4
        ELSE 0
  BY <1>2 DEF Erase, Verify
<1> QED
  BY <1>3 DEF s

\* The requests of a run are requests.
LEMMA InChain == Range(Chain) \subseteq Requests
<1>1. Chain \in Seq(Requests)
  BY ChainIs
<1> QED
  BY <1>1 DEF Range

-------------------------------------------------------------------------------
(* Answers that end a request.                                             *)

\* They are counted from the first on.
LEMMA FinalsAre ==
    ASSUME NEW w, NEW n \in Nat
    PROVE  /\ Finals(w, n) \in Nat /\ Finals(w, 0) = 0
           /\ Finals(w, n + 1) = IF w[n + 1].code # "pending" THEN Finals(w, n) + 1
                                                             ELSE Finals(w, n)
<1> DEFINE S(m) == {j \in 1..m : w[j].code # "pending"}
<1>1. ASSUME NEW m \in Nat PROVE IsFiniteSet(S(m)) /\ Cardinality(S(m)) \in Nat
  <2>1. IsFiniteSet(1..m) /\ S(m) \in SUBSET (1..m)
    BY FS_Interval
  <2>2. IsFiniteSet(S(m))
    BY <2>1, FS_Subset
  <2> QED
    BY <2>2, FS_CardinalityType
<1>2. S(0) = {}
  OBVIOUS
<1>3. Cardinality(S(0)) = 0
  BY <1>2, FS_EmptySet
<1>4. CASE w[n + 1].code # "pending"
  <2>1. S(n + 1) = S(n) \cup {n + 1} /\ n + 1 \notin S(n)
    BY <1>4
  <2>2. Cardinality(S(n) \cup {n + 1}) = Cardinality(S(n)) + 1
    <3> HIDE DEF S
    <3> QED
      BY <1>1, <2>1, FS_AddElement
  <2> QED
    BY <1>1, <1>3, <1>4, <2>1, <2>2 DEF Finals
<1>5. CASE ~(w[n + 1].code # "pending")
  <2>1. S(n + 1) = S(n)
    BY <1>5
  <2> QED
    BY <1>1, <1>3, <1>5, <2>1 DEF Finals
<1> QED
  BY <1>4, <1>5

\* Sequences that begin alike count alike.
LEMMA FinalsSame ==
    ASSUME NEW w, NEW v, NEW n \in Nat, \A j \in 1..n : w[j] = v[j]
    PROVE  Finals(w, n) = Finals(v, n)
<1>1. {j \in 1..n : w[j].code # "pending"} = {j \in 1..n : v[j].code # "pending"}
  OBVIOUS
<1> QED
  BY <1>1 DEF Finals

\* Taking the first answer leaves the others.
LEMMA FinalsTail ==
    ASSUME NEW S, NEW w \in Seq(S), w # <<>>, NEW n \in 1..Len(w)
    PROVE  /\ n - 1 \in Nat
           /\ Finals(Tail(w), n - 1) = IF w[1].code # "pending" THEN Finals(w, n) - 1
                                                                ELSE Finals(w, n)
<1> DEFINE A == {j \in 1..n : w[j].code # "pending"}
           B == {j \in 1..(n - 1) : Tail(w)[j].code # "pending"}
           f == [j \in B |-> j + 1]
<1>0. /\ n - 1 \in Nat /\ n \in Nat /\ Len(w) \in Nat
      /\ \A j \in 1..(n - 1) : Tail(w)[j] = w[j + 1]
  <2>1. Len(w) \in Nat /\ n \in Nat /\ n - 1 \in Nat /\ n - 1 <= Len(w) - 1
    OBVIOUS
  <2>2. Len(Tail(w)) = Len(w) - 1 /\ \A j \in 1..Len(Tail(w)) : Tail(w)[j] = w[j + 1]
    BY HeadTailProperties
  <2> QED
    BY <2>1, <2>2
<1>1. IsFiniteSet(A) /\ IsFiniteSet(B)
  <2>1. IsFiniteSet(1..n) /\ IsFiniteSet(1..(n - 1))
    <3>1. 1 \in Int /\ n \in Int /\ n - 1 \in Int
      BY <1>0
    <3> QED
      BY <3>1, FS_Interval
  <2>2. A \in SUBSET (1..n) /\ B \in SUBSET (1..(n - 1))
    OBVIOUS
  <2> QED
    BY <2>1, <2>2, FS_Subset
<1>2. f \in [B -> A \ {1}]
  BY <1>0
<1>3. \A x, y \in B : f[x] = f[y] => x = y
  BY <1>0
<1>4. ASSUME NEW y \in A \ {1} PROVE \E x \in B : f[x] = y
  <2>1. y - 1 \in 1..(n - 1) /\ (y - 1) + 1 = y
    BY <1>0
  <2>2. y - 1 \in B
    BY <1>0, <2>1
  <2> QED
    BY <2>1, <2>2
<1>5. f \in Bijection(B, A \ {1})
  BY <1>2, <1>3, <1>4 DEF Bijection, Injection, Surjection, IsInjective
<1>6. Cardinality(A \ {1}) = Cardinality(B)
  <2>1. ExistsBijection(B, A \ {1})
    BY <1>5 DEF ExistsBijection
  <2> HIDE DEF A, B, f
  <2> QED
    BY <1>1, <2>1, FS_Bijection
<1>7. Cardinality(A \ {1}) = IF 1 \in A THEN Cardinality(A) - 1 ELSE Cardinality(A)
  <2> HIDE DEF A
  <2> QED
    BY <1>1, FS_RemoveElement
<1>8. 1 \in A <=> w[1].code # "pending"
  BY <1>0
<1> QED
  BY <1>0, <1>6, <1>7, <1>8 DEF Finals

\* The wire v is w and, after it, what the ECU says to r: one answer, or 0x78
\* and then one.
Grows(w, v, r, code) ==
    /\ v \in Seq(Replies) /\ Len(v) > Len(w)
    /\ \A j \in 1..Len(w) : v[j] = w[j]
    /\ \A j \in (Len(w) + 1)..Len(v) : v[j].service = r.service
    /\ \A j \in (Len(w) + 1)..Len(v) : j # Len(v) => v[j].code = "pending"
    /\ v[Len(v)].code = code /\ code \in {"ok", "refused", "unusable"}
    /\ ~PendingAllowed(r) => Len(v) = Len(w) + 1
    /\ Finals(v, Len(v)) = Finals(w, Len(w)) + 1

\* An answer is told by its service and its code.
LEMMA AnswerIs ==
    ASSUME NEW r \in Requests, NEW code \in {"ok", "pending", "refused", "unusable"}
    PROVE  /\ Answer(r, code) \in Replies /\ Answer(r, code).service = r.service
           /\ Answer(r, code).code = code
BY DEF Answer, Requests, Replies

\* One answer.
LEMMA GrowsByOne ==
    ASSUME NEW w \in Seq(Replies), NEW r \in Requests, NEW code \in {"ok", "refused", "unusable"},
           NEW v, v = w \o <<Answer(r, code)>> \/ v = Append(w, Answer(r, code))
    PROVE  Grows(w, v, r, code)
<1> DEFINE x == Answer(r, code)
           n == Len(w)
<1>1. x \in Replies /\ x.service = r.service /\ x.code = code
  BY AnswerIs
<1>2. n \in Nat
  OBVIOUS
<1> HIDE DEF x
<1>3. /\ v \in Seq(Replies) /\ Len(v) = n + 1 /\ v[n + 1] = x
      /\ \A j \in 1..n : v[j] = w[j]
  <2>1. v = w \o <<x>> \/ v = Append(w, x)
    BY DEF x
  <2>2. CASE v = Append(w, x)
    BY <1>1, <2>2
  <2>3. CASE v = w \o <<x>>
    <3>1. w \o <<x>> = Append(w, x)
      BY <1>1, AppendIsConcat
    <3> QED
      BY <1>1, <2>3, <3>1
  <2> QED
    BY <2>1, <2>2, <2>3
<1> HIDE DEF n
<1>4. Finals(v, n) = Finals(w, n)
  BY <1>2, <1>3, FinalsSame
<1>5. Finals(v, n + 1) = Finals(v, n) + 1
  BY <1>1, <1>2, <1>3, FinalsAre
<1>6. \A j \in (n + 1)..(n + 1) : j = n + 1
  BY <1>2
<1>7. n + 1 > n
  BY <1>2
<1> QED
  BY <1>1, <1>3, <1>4, <1>5, <1>6, <1>7 DEF Grows, n

\* The routine is under way, and then it is done.
LEMMA GrowsByTwo ==
    ASSUME NEW w \in Seq(Replies), NEW r \in Requests, PendingAllowed(r)
    PROVE  Grows(w, w \o <<Answer(r, "pending"), Answer(r, "ok")>>, r, "ok")
<1> DEFINE x == Answer(r, "pending")
           y == Answer(r, "ok")
           n == Len(w)
           v == w \o <<x, y>>
<1>1. /\ x \in Replies /\ x.service = r.service /\ x.code = "pending"
      /\ y \in Replies /\ y.service = r.service /\ y.code = "ok"
  BY AnswerIs
<1>2. n \in Nat
  OBVIOUS
<1> HIDE DEF x, y
<1>3. /\ v \in Seq(Replies) /\ Len(v) = n + 2 /\ v[n + 1] = x /\ v[n + 2] = y
      /\ \A j \in 1..n : v[j] = w[j]
  <2>1. <<x, y>> \in Seq(Replies) /\ Len(<<x, y>>) = 2 /\ <<x, y>>[1] = x /\ <<x, y>>[2] = y
    BY <1>1, PairIs
  <2> DEFINE t == <<x, y>>
  <2> HIDE DEF t
  <2>2. t \in Seq(Replies) /\ Len(t) = 2 /\ t[1] = x /\ t[2] = y
    BY <2>1 DEF t
  <2>3. /\ w \o t \in Seq(Replies) /\ Len(w \o t) = Len(w) + Len(t)
        /\ \A i \in 1..Len(w) : (w \o t)[i] = w[i]
        /\ Len(t) = 2 => (w \o t)[Len(w) + 1] = t[1] /\ (w \o t)[Len(w) + 2] = t[2]
    BY <2>2, JoinedAt
  <2> QED
    BY <2>2, <2>3 DEF t
<1> HIDE DEF n, v
<1>4. Finals(v, n) = Finals(w, n)
  BY <1>2, <1>3, FinalsSame
<1>5. Finals(v, n + 1) = Finals(v, n)
  BY <1>1, <1>2, <1>3, FinalsAre
<1>6. Finals(v, n + 2) = Finals(v, n + 1) + 1
  <2>1. n + 1 \in Nat /\ (n + 1) + 1 = n + 2
    BY <1>2
  <2>2. v[(n + 1) + 1].code # "pending"
    BY <1>1, <1>3, <2>1
  <2> QED
    BY <2>1, <2>2, FinalsAre
<1>7. \A j \in (n + 1)..(n + 2) : j = n + 1 \/ j = n + 2
  BY <1>2
<1>8. n + 2 > n /\ n + 1 # n + 2
  BY <1>2
<1>9. Grows(w, v, r, "ok")
  BY <1>1, <1>3, <1>4, <1>5, <1>6, <1>7, <1>8 DEF Grows, n
<1> QED
  BY <1>9 DEF v, x, y

\* What the ECU says to a request that it serves.
LEMMA ResponsesGrow ==
    ASSUME NEW w \in Seq(Replies), NEW r \in Requests
    PROVE  Grows(w, w \o Responses(r), r, IF Refuses(r) THEN "refused" ELSE "ok")
<1>1. CASE Refuses(r)
  BY <1>1, GrowsByOne DEF Responses
<1>2. CASE ~Refuses(r) /\ ~PendingAllowed(r)
  BY <1>2, GrowsByOne DEF Responses
<1>3. CASE ~Refuses(r) /\ PendingAllowed(r)
  BY <1>3, GrowsByTwo DEF Responses
<1> QED
  BY <1>1, <1>2, <1>3

-------------------------------------------------------------------------------
(* What a request does to the ECU.                                         *)

\* Stored, service by service.
LEMMA StoredAs ==
    ASSUME NEW e, NEW r
    PROVE  /\ r.service = "10 01" => Stored(e, r) = [e EXCEPT !.stage = 0]
           /\ r.service = "27 02" => Stored(e, r) = [e EXCEPT !.stage = 1]
           /\ r.service = "10 02" => Stored(e, r) = [e EXCEPT !.stage = 2, !.mode = "boot"]
           /\ r.service = "27 0A" => Stored(e, r) = [e EXCEPT !.stage = 3]
           /\ r.service = "34" =>
                Stored(e, r) = [e EXCEPT !.load = [img |-> r.img, blocks |-> <<>>]]
           /\ r.service = "36" =>
                Stored(e, r) = [e EXCEPT !.load.blocks = Append(@, <<r.img, r.block>>),
                                         !.app = IF e.load.img = "app" THEN "part" ELSE @]
           /\ r.service = "37" =>
                Stored(e, r) = [e EXCEPT !.load = NoDownload, !.driver = @ \/ r.crc = "driver",
                                         !.app = IF r.crc = "app" THEN "new" ELSE @]
           /\ r.service = "31 01 02 02" => Stored(e, r) = [e EXCEPT !.stage = 4]
           /\ r.service = Erase =>
                Stored(e, r) = [e EXCEPT !.app = "none", !.valid = FALSE, !.starts = TRUE,
                                         !.alive = FALSE]
           /\ r.service = Verify => Stored(e, r) = [e EXCEPT !.valid = TRUE]
           /\ r.service = "11 01" => Stored(e, r) = Restarted(e)
           /\ r.service = Poll => Stored(e, r) = [e EXCEPT !.alive = TRUE]
           /\ r.service \in {"10 03", "27 01", "31 01 02 03", "27 09"} => Stored(e, r) = e
<1>1. r.service = "10 01" => Stored(e, r) = [e EXCEPT !.stage = 0]
  BY DEF Stored, IsPoll
<1>2. r.service = "27 02" => Stored(e, r) = [e EXCEPT !.stage = 1]
  BY DEF Stored, IsPoll
<1>3. r.service = "10 02" => Stored(e, r) = [e EXCEPT !.stage = 2, !.mode = "boot"]
  BY DEF Stored, IsPoll
<1>4. r.service = "27 0A" => Stored(e, r) = [e EXCEPT !.stage = 3]
  BY DEF Stored, IsPoll
<1>5. r.service = "34" => Stored(e, r) = [e EXCEPT !.load = [img |-> r.img, blocks |-> <<>>]]
  BY DEF Stored, IsPoll
<1>6. r.service = "36" =>
        Stored(e, r) = [e EXCEPT !.load.blocks = Append(@, <<r.img, r.block>>),
                                 !.app = IF e.load.img = "app" THEN "part" ELSE @]
  BY DEF Stored, IsPoll
<1>7. r.service = "37" =>
        Stored(e, r) = [e EXCEPT !.load = NoDownload, !.driver = @ \/ r.crc = "driver",
                                 !.app = IF r.crc = "app" THEN "new" ELSE @]
  BY DEF Stored, IsPoll
<1>8. r.service = "31 01 02 02" => Stored(e, r) = [e EXCEPT !.stage = 4]
  BY DEF Stored, IsPoll
<1>9. r.service = Erase =>
        Stored(e, r) = [e EXCEPT !.app = "none", !.valid = FALSE, !.starts = TRUE,
                                 !.alive = FALSE]
  BY DEF Stored, IsPoll, Erase
<1>10. r.service = Verify => Stored(e, r) = [e EXCEPT !.valid = TRUE]
  BY DEF Stored, IsPoll, Verify
<1>11. r.service = "11 01" => Stored(e, r) = Restarted(e)
  BY DEF Stored, IsPoll
<1>12. r.service = Poll => Stored(e, r) = [e EXCEPT !.alive = TRUE]
  BY DEF Stored, IsPoll, Poll
<1>13. r.service \in {"10 03", "27 01", "31 01 02 03", "27 09"} => Stored(e, r) = e
  BY DEF Stored, IsPoll
<1> QED
  BY <1>1, <1>2, <1>3, <1>4, <1>5, <1>6, <1>7, <1>8, <1>9, <1>10, <1>11, <1>12, <1>13

\* What the ECU refuses, as far as its success depends on it.
LEMMA ServedIs ==
    ASSUME EcuOK, NEW r \in Range(Chain), ~Refuses(r)
    PROVE  /\ r.service \in Services
           /\ r.service \in {"27 09", "27 0A", "34", "36", "37", "31 01 02 02", Erase, Verify} =>
                ecu.mode = "boot"
           /\ r.service = Verify => ecu.app = "new"
           /\ r.service = Poll => ecu.mode = "app"
<1>1. r.service \in Services
  BY InChain DEF Requests
<1>2. ecu.stage \in 0..4 /\ (ecu.stage >= 2 => ecu.mode = "boot")
  BY DEF EcuOK, EcuFits
<1>3. ~(ecu.stage < StageFor[r.service])
  BY DEF Refuses
<1>4. ASSUME r.service \in {"27 09", "27 0A", "34", "36", "37", "31 01 02 02", Erase, Verify}
      PROVE  ecu.mode = "boot"
  <2>1. StageFor[r.service] \in {2, 3, 4}
    BY <1>4, StageForIs DEF Erase, Verify
  <2> QED
    BY <1>2, <1>3, <2>1
<1>5. (r.service = Verify => ecu.app = "new") /\ (r.service = Poll => ecu.mode = "app")
  BY DEF Refuses, IsPoll, Verify, Poll
<1> QED
  BY <1>1, <1>4, <1>5

\* The fields of an ECU after a request that it has served.
LEMMA StoredIs ==
    ASSUME EcuOK, NEW r \in Range(Chain), ~Refuses(r),
           NEW e, e = Stored(ecu, r)
    PROVE  /\ EcuFits(e)
           /\ r.service \notin {Erase, Verify} => e.valid = ecu.valid
           /\ r.service \notin {"36", "37", Erase} => e.app = ecu.app
           /\ r.service \notin {Erase, Poll} => e.alive = ecu.alive
           /\ r.service = Erase => e.valid = FALSE
           /\ r.service = Verify => ecu.app = "new" /\ e.valid = TRUE
           /\ r.service = Poll => ecu.mode = "app" /\ e.alive = TRUE
<1> DEFINE s == r.service
           Fields == {"mode", "stage", "load", "driver", "app", "valid", "starts", "alive"}
<1>t. /\ ecu.mode \in {"app", "boot", "restart"} /\ ecu.stage \in 0..4 /\ DOMAIN ecu = Fields
      /\ (ecu.stage >= 2 => ecu.mode = "boot") /\ (ecu.mode = "app" => ecu.valid)
      /\ ecu.valid \in BOOLEAN /\ ecu.alive \in BOOLEAN
  BY DEF EcuOK, EcuFits
<1>s. /\ s \in Services
      /\ s \in {"27 09", "27 0A", "34", "36", "37", "31 01 02 02", Erase, Verify} =>
           ecu.mode = "boot"
      /\ s = Verify => ecu.app = "new"
      /\ s = Poll => ecu.mode = "app"
  BY ServedIs
<1> DEFINE Goal ==
      /\ EcuFits(e)
      /\ s \notin {Erase, Verify} => e.valid = ecu.valid
      /\ s \notin {"36", "37", Erase} => e.app = ecu.app
      /\ s \notin {Erase, Poll} => e.alive = ecu.alive
      /\ s = Erase => e.valid = FALSE
      /\ s = Verify => ecu.app = "new" /\ e.valid = TRUE
      /\ s = Poll => ecu.mode = "app" /\ e.alive = TRUE
<1> USE DEF Erase, Verify, Poll
<1>1. ASSUME s = "10 01" \/ s = "27 02" PROVE Goal
  <2>1. e = [ecu EXCEPT !.stage = 0] \/ e = [ecu EXCEPT !.stage = 1]
    BY <1>1, StoredAs
  <2>2. DOMAIN e = Fields
    BY <1>t, <2>1
  <2>3. e.mode = ecu.mode
    BY <1>t, <1>s, <1>1, <2>1
  <2>4. e.stage \in {0, 1}
    BY <1>t, <1>s, <1>1, <2>1
  <2>5. e.valid = ecu.valid /\ e.alive = ecu.alive
    BY <1>t, <1>s, <1>1, <2>1
  <2>6. e.app = ecu.app
    BY <1>t, <1>s, <1>1, <2>1
  <2> HIDE DEF s
  <2>7. 0 \in 0..4 /\ 1 \in 0..4 /\ 2 \in 0..4 /\ 3 \in 0..4 /\ 4 \in 0..4
    OBVIOUS
  <2>8. EcuFits(e)
    BY <1>t, <2>7, <2>2, <2>3, <2>4, <2>5, <2>6 DEF EcuFits
  <2> QED
    BY <1>1, <2>2, <2>3, <2>4, <2>5, <2>6, <2>8
<1>2. ASSUME s \in {"10 03", "27 01", "31 01 02 03", "27 09"} PROVE Goal
  <2>1. e = ecu
    BY <1>2, StoredAs
  <2> HIDE DEF s
  <2> QED
    BY <1>2, <2>1 DEF EcuOK
<1>3. ASSUME s = "10 02" PROVE Goal
  <2>1. e = [ecu EXCEPT !.stage = 2, !.mode = "boot"]
    BY <1>3, StoredAs
  <2>2. DOMAIN e = Fields
    BY <1>t, <2>1
  <2>3. e.mode = "boot"
    BY <1>t, <1>s, <1>3, <2>1
  <2>4. e.stage = 2
    BY <1>t, <1>s, <1>3, <2>1
  <2>5. e.valid = ecu.valid /\ e.alive = ecu.alive
    BY <1>t, <1>s, <1>3, <2>1
  <2>6. e.app = ecu.app
    BY <1>t, <1>s, <1>3, <2>1
  <2> HIDE DEF s
  <2>7. 0 \in 0..4 /\ 1 \in 0..4 /\ 2 \in 0..4 /\ 3 \in 0..4 /\ 4 \in 0..4
    OBVIOUS
  <2>8. EcuFits(e)
    BY <1>t, <2>7, <2>2, <2>3, <2>4, <2>5, <2>6 DEF EcuFits
  <2> QED
    BY <1>3, <2>2, <2>3, <2>4, <2>5, <2>6, <2>8
<1>4. ASSUME s = "27 0A" \/ s = "31 01 02 02" PROVE Goal
  <2>1. e = [ecu EXCEPT !.stage = 3] \/ e = [ecu EXCEPT !.stage = 4]
    BY <1>4, StoredAs
  <2>2. DOMAIN e = Fields
    BY <1>t, <2>1
  <2>3. e.mode = "boot"
    BY <1>t, <1>s, <1>4, <2>1
  <2>4. e.stage \in {3, 4}
    BY <1>t, <1>s, <1>4, <2>1
  <2>5. e.valid = ecu.valid /\ e.alive = ecu.alive
    BY <1>t, <1>s, <1>4, <2>1
  <2>6. e.app = ecu.app
    BY <1>t, <1>s, <1>4, <2>1
  <2> HIDE DEF s
  <2>7. 0 \in 0..4 /\ 1 \in 0..4 /\ 2 \in 0..4 /\ 3 \in 0..4 /\ 4 \in 0..4
    OBVIOUS
  <2>8. EcuFits(e)
    BY <1>t, <2>7, <2>2, <2>3, <2>4, <2>5, <2>6 DEF EcuFits
  <2> QED
    BY <1>4, <2>2, <2>3, <2>4, <2>5, <2>6, <2>8
<1>5. ASSUME s = "34" PROVE Goal
  <2> DEFINE x == [img |-> r.img, blocks |-> <<>>]
  <2>1. e = [ecu EXCEPT !.load = x]
    BY <1>5, StoredAs
  <2> HIDE DEF x
  <2>2. DOMAIN e = Fields
    BY <1>t, <2>1
  <2>3. e.mode = ecu.mode /\ e.stage = ecu.stage
    BY <1>t, <2>1
  <2>4. e.valid = ecu.valid /\ e.alive = ecu.alive /\ e.app = ecu.app
    BY <1>t, <2>1
  <2> HIDE DEF s
  <2> QED
    BY <1>t, <1>s, <1>5, <2>2, <2>3, <2>4 DEF EcuFits
<1>6. ASSUME s = "36" PROVE Goal
  <2> DEFINE x == [ecu.load EXCEPT !.blocks = Append(@, <<r.img, r.block>>)]
             y == IF ecu.load.img = "app" THEN "part" ELSE ecu.app
  <2>1. e = [ecu EXCEPT !.load.blocks = Append(@, <<r.img, r.block>>),
                        !.app = IF ecu.load.img = "app" THEN "part" ELSE @]
    BY <1>6, StoredAs
  <2>2. e = [[ecu EXCEPT !.load = x] EXCEPT !.app = y]
    BY <1>t, <2>1
  <2> HIDE DEF x, y
  <2>3. DOMAIN e = Fields /\ e.mode = ecu.mode /\ e.stage = ecu.stage
    BY <1>t, <2>2
  <2>4. e.valid = ecu.valid /\ e.alive = ecu.alive
    BY <1>t, <2>2
  <2> HIDE DEF s
  <2> QED
    BY <1>t, <1>s, <1>6, <2>3, <2>4 DEF EcuFits
<1>7. ASSUME s = "37" PROVE Goal
  <2> DEFINE x == ecu.driver \/ r.crc = "driver"
             y == IF r.crc = "app" THEN "new" ELSE ecu.app
             z == NoDownload
  <2>1. e = [ecu EXCEPT !.load = NoDownload, !.driver = @ \/ r.crc = "driver",
                        !.app = IF r.crc = "app" THEN "new" ELSE @]
    BY <1>7, StoredAs
  <2>2. e = [ecu EXCEPT !.load = z, !.driver = x, !.app = y]
    BY <1>t, <2>1
  <2> HIDE DEF x, y, z
  <2>3. DOMAIN e = Fields /\ e.mode = ecu.mode /\ e.stage = ecu.stage
    BY <1>t, <2>2
  <2>4. e.valid = ecu.valid /\ e.alive = ecu.alive
    BY <1>t, <2>2
  <2> HIDE DEF s
  <2> QED
    BY <1>t, <1>s, <1>7, <2>3, <2>4 DEF EcuFits
<1>8. ASSUME s = Erase PROVE Goal
  <2>1. e = [ecu EXCEPT !.app = "none", !.valid = FALSE, !.starts = TRUE, !.alive = FALSE]
    BY <1>8, StoredAs
  <2>2. DOMAIN e = Fields
    BY <1>t, <2>1
  <2>3. e.mode = "boot"
    BY <1>t, <1>s, <1>8, <2>1
  <2>4. e.stage = ecu.stage
    BY <1>t, <1>s, <1>8, <2>1
  <2>5. e.valid = FALSE
    BY <1>t, <1>s, <1>8, <2>1
  <2>6. e.alive = FALSE
    BY <1>t, <1>s, <1>8, <2>1
  <2> HIDE DEF s
  <2> QED
    BY <1>t, <1>s, <1>8, <2>2, <2>3, <2>4, <2>5, <2>6 DEF EcuFits
<1>9. ASSUME s = Verify PROVE Goal
  <2>1. e = [ecu EXCEPT !.valid = TRUE]
    BY <1>9, StoredAs
  <2>2. DOMAIN e = Fields
    BY <1>t, <2>1
  <2>3. e.mode = "boot"
    BY <1>t, <1>s, <1>9, <2>1
  <2>4. e.stage = ecu.stage
    BY <1>t, <1>s, <1>9, <2>1
  <2>5. e.valid = TRUE
    BY <1>t, <1>s, <1>9, <2>1
  <2>6. e.alive = ecu.alive
    BY <1>t, <1>s, <1>9, <2>1
  <2>7. e.app = ecu.app
    BY <1>t, <1>s, <1>9, <2>1
  <2>8. ecu.app = "new"
    BY <1>t, <1>s, <1>9, <2>1
  <2> HIDE DEF s
  <2> QED
    BY <1>t, <1>s, <1>9, <2>2, <2>3, <2>4, <2>5, <2>6, <2>7, <2>8 DEF EcuFits
<1>10. ASSUME s = "11 01" PROVE Goal
  <2>1. e = Restarted(ecu)
    BY <1>10, StoredAs
  <2> DEFINE z == NoDownload
  <2>2. e = [ecu EXCEPT !.mode = "restart", !.stage = 0, !.load = z, !.driver = FALSE]
    BY <2>1 DEF Restarted
  <2> HIDE DEF z
  <2>3. DOMAIN e = Fields /\ e.mode = "restart" /\ e.stage = 0
    BY <1>t, <2>2
  <2>4. e.valid = ecu.valid /\ e.alive = ecu.alive /\ e.app = ecu.app
    BY <1>t, <2>2
  <2> HIDE DEF s
  <2>7. 0 \in 0..4 /\ 1 \in 0..4 /\ 2 \in 0..4 /\ 3 \in 0..4 /\ 4 \in 0..4
    OBVIOUS
  <2>8. EcuFits(e)
    BY <1>t, <2>7, <2>3, <2>4 DEF EcuFits
  <2> QED
    BY <1>10, <2>3, <2>4, <2>8
<1>11. ASSUME s = Poll PROVE Goal
  <2>1. e = [ecu EXCEPT !.alive = TRUE]
    BY <1>11, StoredAs
  <2>2. DOMAIN e = Fields
    BY <1>t, <2>1
  <2>3. e.mode = ecu.mode
    BY <1>t, <1>s, <1>11, <2>1
  <2>4. e.stage = ecu.stage
    BY <1>t, <1>s, <1>11, <2>1
  <2>5. e.valid = ecu.valid
    BY <1>t, <1>s, <1>11, <2>1
  <2>6. e.alive = TRUE
    BY <1>t, <1>s, <1>11, <2>1
  <2>7. e.app = ecu.app
    BY <1>t, <1>s, <1>11, <2>1
  <2>8. ecu.mode = "app"
    BY <1>t, <1>s, <1>11, <2>1
  <2> HIDE DEF s
  <2> QED
    BY <1>t, <1>s, <1>11, <2>2, <2>3, <2>4, <2>5, <2>6, <2>7, <2>8 DEF EcuFits
<1>12. Goal
  BY <1>s, <1>1, <1>2, <1>3, <1>4, <1>5, <1>6, <1>7, <1>8, <1>9, <1>10, <1>11 DEF Services
<1> QED
  BY <1>12

\* A restart loses what is in RAM alone.
LEMMA RestartedIs ==
    ASSUME EcuOK, NEW e, e = Restarted(ecu)
    PROVE  EcuFits(e) /\ e.valid = ecu.valid /\ e.app = ecu.app /\ e.alive = ecu.alive
BY DEF EcuOK, EcuFits, Restarted

-------------------------------------------------------------------------------
(* What goes through the pipe.                                             *)

\* All but the first.
LEMMA TailIs ==
    ASSUME NEW S, NEW w \in Seq(S), w # <<>>
    PROVE  /\ Len(w) \in Nat /\ Len(w) >= 1 /\ Head(w) = w[1] /\ w[1] \in S
           /\ Tail(w) \in Seq(S) /\ Len(Tail(w)) = Len(w) - 1
           /\ \A j \in 1..(Len(w) - 1) : Tail(w)[j] = w[j + 1] /\ j + 1 \in 1..Len(w)
<1>1. Len(w) \in Nat /\ Len(w) >= 1
  BY EmptySeq
<1>2. /\ Tail(w) \in Seq(S) /\ Len(Tail(w)) = Len(w) - 1
      /\ \A j \in 1..Len(Tail(w)) : Tail(w)[j] = w[j + 1]
  BY HeadTailProperties
<1>3. \A j \in 1..(Len(w) - 1) : j + 1 \in 1..Len(w)
  BY <1>1
<1>4. Head(w) = w[1] /\ w[1] \in S
  BY <1>1
<1> QED
  BY <1>1, <1>2, <1>3, <1>4

\* Each end of a request is counted, and an answer that is taken no more.
LEMMA TailCounts ==
    ASSUME NEW w \in Seq(Replies), w # <<>>, w[Len(w)].code # "pending"
    PROVE  /\ Finals(w, Len(w)) \in Nat
           /\ Finals(Tail(w), Len(Tail(w))) \in Nat
           /\ Finals(Tail(w), Len(Tail(w))) =
                IF w[1].code # "pending" THEN Finals(w, Len(w)) - 1 ELSE Finals(w, Len(w))
           /\ Tail(w) # <<>> => Tail(w)[Len(Tail(w))].code # "pending"
<1>1. /\ Len(w) \in Nat /\ Len(w) >= 1 /\ Len(Tail(w)) = Len(w) - 1 /\ Tail(w) \in Seq(Replies)
      /\ \A j \in 1..(Len(w) - 1) : Tail(w)[j] = w[j + 1]
  BY TailIs
<1>2. Len(w) \in 1..Len(w) /\ Len(w) - 1 \in Nat
  BY <1>1
<1>3. Finals(Tail(w), Len(w) - 1) = IF w[1].code # "pending" THEN Finals(w, Len(w)) - 1
                                                            ELSE Finals(w, Len(w))
  BY <1>2, FinalsTail
<1>4. Finals(w, Len(w)) \in Nat
  BY <1>1, FinalsAre
<1>5. Finals(Tail(w), Len(w) - 1) \in Nat
  BY <1>2, FinalsAre
<1>6. ASSUME Tail(w) # <<>> PROVE Tail(w)[Len(Tail(w))].code # "pending"
  <2>1. Len(Tail(w)) # 0
    BY <1>1, <1>6, EmptySeq
  <2>2. Len(w) - 1 \in 1..(Len(w) - 1) /\ (Len(w) - 1) + 1 = Len(w)
    BY <1>1, <2>1
  <2>3. Tail(w)[Len(w) - 1] = w[Len(w)]
    BY <1>1, <2>2
  <2> QED
    BY <1>1, <2>3
<1> QED
  BY <1>1, <1>3, <1>4, <1>5, <1>6

\* Fewer answers end fewer requests.
LEMMA FinalsUpTo ==
    ASSUME NEW w, NEW n \in Nat, n > 0, w[n].code # "pending"
    PROVE  Finals(w, n) >= 1 /\ Finals(w, n) \in Nat
<1>1. n - 1 \in Nat /\ (n - 1) + 1 = n
  OBVIOUS
<1>2. Finals(w, (n - 1) + 1) = Finals(w, n - 1) + 1 /\ Finals(w, n - 1) \in Nat
  BY <1>1, FinalsAre
<1> QED
  BY <1>1, <1>2

\* An answer of an earlier run is taken, or one of this run.
LEMMA StaleTail ==
    ASSUME NEW w \in Seq(Replies), w # <<>>, NEW q \in Seq(Requests), NEW n \in Nat,
           NEW a, NEW b, Stale(w, q, n, a, b),
           NEW m \in Nat, m = n \/ (m = n + 1 /\ w[1].code # "pending")
    PROVE  \E c \in 0..Len(Tail(w)) : Stale(Tail(w), q, m, c, b)
<1> DEFINE v == Tail(w)
<1>1. /\ Len(w) \in Nat /\ Len(w) >= 1 /\ Len(v) = Len(w) - 1 /\ v \in Seq(Replies)
      /\ \A j \in 1..(Len(w) - 1) : v[j] = w[j + 1] /\ j + 1 \in 1..Len(w)
  BY TailIs
<1>q. Len(q) \in Nat
  OBVIOUS
<1>n. ErasedAt \in Nat
  BY PlacesAre
<1>2. /\ a \in 0..Len(w) /\ b \in 0..Len(q) /\ (b > 0 => a = Len(w))
      /\ (a > 0 => w[a].code # "pending")
      /\ ((a = 0 /\ b = 0) \/ Finals(w, a) + b + n <= ErasedAt)
      /\ \A j \in (a + 1)..Len(w) : Early(w[j].service) /\ w[j].code # "pending"
      /\ \A j \in (b + 1)..Len(q) : Early(q[j].service)
  BY DEF Stale
<1>3. CASE a = 0
  <2>1. b = 0
    BY <1>1, <1>q, <1>2, <1>3
  <2>2. \A j \in 1..Len(v) : Early(v[j].service) /\ v[j].code # "pending"
    <3>1. ASSUME NEW j \in 1..Len(v) PROVE j \in 1..(Len(w) - 1) /\ j + 1 \in (0 + 1)..Len(w)
      BY <1>1
    <3> QED
      BY <1>1, <1>2, <1>3, <3>1
  <2> HIDE DEF v
  <2>4. Stale(v, q, m, 0, 0)
    BY <1>1, <1>2, <1>q, <2>1, <2>2 DEF Stale
  <2>5. 0 \in 0..Len(v)
    BY <1>1
  <2> QED
    BY <2>1, <2>4, <2>5 DEF v
<1>4. CASE a # 0
  <2> DEFINE c == a - 1
  <2>1. /\ c \in 0..(Len(w) - 1) /\ c \in Nat /\ a \in 1..Len(w) /\ a > 0 /\ c + 1 = a
        /\ (b > 0 => c = Len(v)) /\ c \in 0..Len(v)
    <3>1. a \in 0..Len(w) /\ (b > 0 => a = Len(w))
      BY <1>2
    <3>2. \A l \in Nat : \A x \in 0..l :
            x # 0 => x - 1 \in 0..(l - 1) /\ x - 1 \in Nat /\ x \in 1..l /\ x > 0 /\ (x - 1) + 1 = x
      OBVIOUS
    <3>3. c \in 0..(Len(w) - 1) /\ c \in Nat /\ a \in 1..Len(w) /\ a > 0 /\ c + 1 = a
      BY <1>1, <1>4, <3>1, <3>2
    <3> QED
      BY <1>1, <3>1, <3>3
  <2>2. c > 0 => v[c].code # "pending"
    <3>1. ASSUME c > 0 PROVE c \in 1..(Len(w) - 1)
      BY <2>1, <3>1
    <3> QED
      BY <1>1, <1>2, <2>1, <3>1
  <2>3. /\ Finals(v, c) = IF w[1].code # "pending" THEN Finals(w, a) - 1 ELSE Finals(w, a)
        /\ Finals(v, c) \in Nat /\ Finals(w, a) \in Nat
    <3>1. Finals(v, a - 1) = IF w[1].code # "pending" THEN Finals(w, a) - 1 ELSE Finals(w, a)
      BY <2>1, FinalsTail
    <3>2. Finals(w, a) \in Nat
      BY <2>1, FinalsAre
    <3>3. Finals(v, c) \in Nat
      BY <2>1, FinalsAre
    <3> QED
      BY <3>1, <3>2, <3>3
  <2>4. Finals(v, c) + b + m <= ErasedAt
    <3>1. Finals(w, a) + b + n <= ErasedAt
      BY <1>2, <1>4
    <3>2. b \in Nat
      BY <1>q, <1>2
    <3> HIDE DEF v, c
    <3> QED
      BY <1>n, <2>3, <3>1, <3>2
  <2>5. \A j \in (c + 1)..Len(v) : Early(v[j].service) /\ v[j].code # "pending"
    <3>1. ASSUME NEW j \in (c + 1)..Len(v) PROVE j \in 1..(Len(w) - 1) /\ j + 1 \in (a + 1)..Len(w)
      BY <1>1, <2>1
    <3> QED
      BY <1>1, <1>2, <3>1
  <2> HIDE DEF c, v
  <2>6. Stale(v, q, m, c, b)
    BY <1>2, <2>1, <2>2, <2>4, <2>5 DEF Stale
  <2> QED
    BY <2>1, <2>6 DEF v
<1> QED
  BY <1>3, <1>4

-------------------------------------------------------------------------------
(* The steps of the ECU and of the bus.                                    *)

\* What a served request does to the App, and what leaves it as it is.
SameApp == ecu'.app = ecu.app /\ ecu'.valid = ecu.valid /\ ecu'.alive = ecu.alive

EcuTook(r) ==
    /\ r.service \notin {Erase, Verify} => ecu'.valid = ecu.valid
    /\ r.service \notin {"36", "37", Erase} => ecu'.app = ecu.app
    /\ r.service \notin {Erase, Poll} => ecu'.alive = ecu.alive
    /\ r.service = Erase => ecu'.valid = FALSE
    /\ r.service = Verify => ecu.app = "new"
    /\ r.service = Poll => ecu.valid /\ ecu'.alive = TRUE

ServesAs(r, code) ==
    /\ inbox # <<>> /\ r = Head(inbox) /\ inbox' = Tail(inbox) /\ Grows(wire, wire', r, code)
    /\ IF code = "ok" THEN EcuTook(r) ELSE SameApp
DropsRequest == inbox # <<>> /\ inbox' = Tail(inbox) /\ wire' = wire /\ SameApp
DropsAnswer == wire # <<>> /\ wire' = Tail(wire) /\ inbox' = inbox /\ SameApp
Empties == inbox' = <<>> /\ wire' = wire /\ SameApp
Stays == inbox' = inbox /\ wire' = wire /\ SameApp

Serves ==
    \E r \in Range(Chain), code \in {"ok", "refused", "unusable"} : ServesAs(r, code)
PipeStep == Serves \/ DropsRequest \/ DropsAnswer \/ Empties \/ Stays

\* A fault is counted.
LEMMA FaultIs ==
    ASSUME FlowTyped, Fault \/ faults' = faults
    PROVE  faults' \in 0..MaxFaults /\ faults \in Nat /\ faults' >= faults
<1>1. faults \in 0..MaxFaults /\ MaxFaults \in Nat
  BY WorkflowAssumption DEF FlowTyped
<1>2. (faults < MaxFaults /\ faults' = faults + 1) \/ faults' = faults
  BY DEF Fault
<1> QED
  BY <1>1, <1>2

\* What is on its way to the ECU are requests of the chain.
LEMMA InboxIs ==
    ASSUME FlowTyped
    PROVE  /\ inbox \in Seq(Range(Chain)) /\ inbox \in Seq(Requests)
           /\ inbox # <<>> => Head(inbox) \in Range(Chain) /\ Tail(inbox) \in Seq(Range(Chain))
<1>1. inbox \in Seq(Range(Chain))
  BY DEF FlowTyped
<1>2. ASSUME inbox # <<>>
      PROVE  Head(inbox) \in Range(Chain) /\ Tail(inbox) \in Seq(Range(Chain))
  BY <1>1, <1>2, TailIs
<1>3. inbox \in Seq(Requests)
  <2> DEFINE R == Range(Chain)
  <2>1. R \subseteq Requests /\ inbox \in Seq(R)
    BY <1>1, InChain
  <2> HIDE DEF R
  <2> QED
    BY <2>1
<1> QED
  BY <1>1, <1>2, <1>3

\* EcuServes: the request at the head is answered, or lost on a restart.
LEMMA ServesIs ==
    ASSUME FlowTyped, EcuOK, EcuServes
    PROVE  (Serves \/ DropsRequest) /\ EcuOK'
<1> DEFINE r == Head(inbox)
<1>1. inbox # <<>> /\ inbox' = Tail(inbox)
  BY DEF EcuServes
<1>2. r \in Range(Chain) /\ r \in Requests
  BY <1>1, InboxIs, InChain
<1>3. CASE ecu.mode = "restart"
  <2>1. wire' = wire /\ ecu' = ecu
    BY <1>3 DEF EcuServes
  <2> QED
    BY <1>1, <2>1 DEF DropsRequest, SameApp, EcuOK
<1>4. CASE ecu.mode # "restart"
  <2>1. /\ wire' = wire \o Responses(r)
        /\ ecu' = IF Refuses(r) THEN ecu ELSE Stored(ecu, r)
    BY <1>4 DEF EcuServes
  <2>2. wire \in Seq(Replies)
    BY DEF FlowTyped
  <2>3. Grows(wire, wire', r, IF Refuses(r) THEN "refused" ELSE "ok")
    BY <1>2, <2>1, <2>2, ResponsesGrow
  <2> HIDE DEF r
  <2>4. CASE Refuses(r)
    <3>1. Grows(wire, wire', r, "refused") /\ ecu' = ecu
      BY <2>1, <2>3, <2>4
    <3>2. ServesAs(r, "refused")
      BY <1>1, <3>1 DEF ServesAs, SameApp, r
    <3> QED
      BY <1>2, <3>1, <3>2 DEF Serves, EcuOK
  <2>5. CASE ~Refuses(r)
    <3>1. Grows(wire, wire', r, "ok") /\ ecu' = Stored(ecu, r)
      BY <2>1, <2>3, <2>5
    <3>2. /\ EcuFits(ecu')
          /\ r.service \notin {Erase, Verify} => ecu'.valid = ecu.valid
          /\ r.service \notin {"36", "37", Erase} => ecu'.app = ecu.app
          /\ r.service \notin {Erase, Poll} => ecu'.alive = ecu.alive
          /\ r.service = Erase => ecu'.valid = FALSE
          /\ r.service = Verify => ecu.app = "new" /\ ecu'.valid = TRUE
          /\ r.service = Poll => ecu.mode = "app" /\ ecu'.alive = TRUE
      BY <1>2, <2>5, <3>1, StoredIs
    <3>3. ecu.mode = "app" => ecu.valid
      BY DEF EcuOK, EcuFits
    <3>4. EcuTook(r)
      BY <3>2, <3>3 DEF EcuTook
    <3>5. ServesAs(r, "ok")
      BY <1>1, <3>1, <3>4 DEF ServesAs, r
    <3> QED
      BY <1>2, <3>2, <3>5 DEF Serves, EcuOK
  <2> QED
    BY <2>4, <2>5
<1> QED
  BY <1>3, <1>4

\* Every step of the ECU and of the bus is one of these.
LEMMA EcuStepIs ==
    ASSUME FlowTyped, EcuOK, EcuStep
    PROVE  /\ PipeStep /\ EcuOK' /\ UNCHANGED runVars
           /\ faults' \in 0..MaxFaults /\ faults \in Nat /\ faults' >= faults
<1>1. CASE EcuServes
  BY <1>1, ServesIs, FaultIs DEF PipeStep, EcuServes
<1>2. CASE EcuAnswersBadly
  <2> DEFINE r == Head(inbox)
  <2>1. /\ inbox # <<>> /\ inbox' = Tail(inbox) /\ wire' = Append(wire, Answer(r, "unusable"))
        /\ ecu' = ecu /\ UNCHANGED runVars /\ Fault
    BY <1>2 DEF EcuAnswersBadly
  <2>2. r \in Range(Chain) /\ r \in Requests
    BY <2>1, InboxIs, InChain
  <2>3. wire \in Seq(Replies)
    BY DEF FlowTyped
  <2>4. Grows(wire, wire', r, "unusable")
    BY <2>1, <2>2, <2>3, GrowsByOne
  <2> HIDE DEF r
  <2>5. ServesAs(r, "unusable")
    BY <2>1, <2>4 DEF ServesAs, SameApp, r
  <2>6. Serves /\ EcuOK'
    BY <2>1, <2>2, <2>5 DEF Serves, EcuOK
  <2> QED
    BY <2>1, <2>6, FaultIs DEF PipeStep
<1>3. CASE EcuIsBack
  <2> DEFINE m == IF Startable THEN "app" ELSE "boot"
  <2>1. /\ ecu' = [ecu EXCEPT !.mode = m] /\ ecu.mode = "restart"
        /\ UNCHANGED <<runVars, inbox, wire, faults>>
    BY <1>3 DEF EcuIsBack
  <2>2. m \in {"app", "boot"} /\ (m = "app" => ecu.valid)
    BY DEF Startable
  <2> HIDE DEF m
  <2>3. /\ ecu'.mode = m /\ DOMAIN ecu' = DOMAIN ecu /\ ecu'.stage = ecu.stage
        /\ ecu'.valid = ecu.valid /\ ecu'.alive = ecu.alive /\ ecu'.app = ecu.app
    BY <2>1 DEF EcuOK, EcuFits
  <2>4. EcuFits(ecu')
    BY <2>1, <2>2, <2>3 DEF EcuOK, EcuFits
  <2> QED
    BY <2>1, <2>3, <2>4, FaultIs DEF PipeStep, Stays, SameApp, EcuOK
<1>4. CASE EcuRestarts
  <2>1. ecu' = Restarted(ecu) /\ inbox' = <<>> /\ UNCHANGED <<runVars, wire>> /\ Fault
    BY <1>4 DEF EcuRestarts
  <2>2. EcuFits(ecu') /\ SameApp
    BY <2>1, RestartedIs DEF SameApp
  <2> QED
    BY <2>1, <2>2, FaultIs DEF PipeStep, Empties, EcuOK
<1>5. CASE EcuStaysInBoot
  <2>1. /\ ecu' = [ecu EXCEPT !.mode = "boot", !.starts = FALSE] /\ ecu.mode = "restart"
        /\ UNCHANGED <<runVars, inbox, wire>> /\ Fault
    BY <1>5 DEF EcuStaysInBoot
  <2>3. /\ ecu'.mode = "boot" /\ DOMAIN ecu' = DOMAIN ecu /\ ecu'.stage = ecu.stage
        /\ ecu'.valid = ecu.valid /\ ecu'.alive = ecu.alive /\ ecu'.app = ecu.app
    BY <2>1 DEF EcuOK, EcuFits
  <2>4. EcuFits(ecu')
    BY <2>1, <2>3 DEF EcuOK, EcuFits
  <2> QED
    BY <2>1, <2>3, <2>4, FaultIs DEF PipeStep, Stays, SameApp, EcuOK
<1>6. CASE Loss
  <2>1. /\ \/ inbox # <<>> /\ inbox' = Tail(inbox) /\ UNCHANGED wire
           \/ wire # <<>> /\ wire' = Tail(wire) /\ UNCHANGED inbox
        /\ UNCHANGED <<runVars, ecu>> /\ Fault
    BY <1>6 DEF Loss
  <2>2. SameApp /\ EcuOK'
    BY <2>1 DEF SameApp, EcuOK
  <2> QED
    BY <2>1, <2>2, FaultIs DEF PipeStep, DropsRequest, DropsAnswer
<1> QED
  BY <1>1, <1>2, <1>3, <1>4, <1>5, <1>6 DEF EcuStep

\* What the ECU and the bus do leaves whole answers, and no more to come.
LEMMA PipeCounts ==
    ASSUME FlowTyped, PipeStep
    PROVE  /\ inbox' \in Seq(Range(Chain)) /\ wire' \in Seq(Replies)
           /\ wire' # <<>> => wire'[Len(wire')].code # "pending"
           /\ Finals(wire', Len(wire')) + Len(inbox') <= Finals(wire, Len(wire)) + Len(inbox)
           /\ Finals(wire', Len(wire')) + Len(inbox') \in Nat
           /\ Finals(wire, Len(wire)) + Len(inbox) \in Nat
<1> DEFINE F == Finals(wire, Len(wire))
           G == Finals(wire', Len(wire'))
<1>1. /\ wire \in Seq(Replies) /\ (wire # <<>> => wire[Len(wire)].code # "pending")
      /\ inbox \in Seq(Range(Chain))
  BY DEF FlowTyped
<1>2. Len(wire) \in Nat /\ Len(inbox) \in Nat
  BY <1>1
<1>3. F \in Nat
  BY <1>2, FinalsAre
<1>4. CASE Serves
  <2>1. PICK r \in Range(Chain), code \in {"ok", "refused", "unusable"} : ServesAs(r, code)
    BY <1>4 DEF Serves
  <2>2. inbox # <<>> /\ inbox' = Tail(inbox) /\ Grows(wire, wire', r, code)
    BY <2>1 DEF ServesAs
  <2>3. inbox' \in Seq(Range(Chain)) /\ Len(inbox') = Len(inbox) - 1 /\ Len(inbox) >= 1
    BY <1>1, <2>2, TailIs
  <2>4. /\ wire' \in Seq(Replies) /\ wire'[Len(wire')].code = code /\ code # "pending"
        /\ G = F + 1
    BY <2>2 DEF Grows
  <2> HIDE DEF F, G
  <2>5. G + Len(inbox') <= F + Len(inbox) /\ G + Len(inbox') \in Nat /\ F + Len(inbox) \in Nat
    BY <1>2, <1>3, <2>3, <2>4
  <2> QED
    BY <2>3, <2>4, <2>5 DEF F, G
<1>5. CASE DropsRequest
  <2>1. inbox # <<>> /\ inbox' = Tail(inbox) /\ wire' = wire
    BY <1>5 DEF DropsRequest
  <2>2. inbox' \in Seq(Range(Chain)) /\ Len(inbox') = Len(inbox) - 1 /\ Len(inbox) >= 1
    BY <1>1, <2>1, TailIs
  <2>3. G = F
    BY <2>1
  <2> HIDE DEF F, G
  <2>4. G + Len(inbox') <= F + Len(inbox) /\ G + Len(inbox') \in Nat /\ F + Len(inbox) \in Nat
    BY <1>2, <1>3, <2>2, <2>3
  <2> QED
    BY <1>1, <2>1, <2>2, <2>4 DEF F, G
<1>6. CASE DropsAnswer
  <2>1. wire # <<>> /\ wire' = Tail(wire) /\ inbox' = inbox
    BY <1>6 DEF DropsAnswer
  <2>2. /\ G \in Nat /\ (G = F - 1 \/ G = F) /\ wire' \in Seq(Replies)
        /\ wire' # <<>> => wire'[Len(wire')].code # "pending"
    BY <1>1, <2>1, TailCounts, TailIs
  <2> HIDE DEF F, G
  <2>4. G + Len(inbox') <= F + Len(inbox) /\ G + Len(inbox') \in Nat /\ F + Len(inbox) \in Nat
    BY <1>2, <1>3, <2>1, <2>2
  <2> QED
    BY <1>1, <2>1, <2>2, <2>4 DEF F, G
<1>7. CASE Empties \/ Stays
  <2>1. wire' = wire /\ (inbox' = <<>> \/ inbox' = inbox)
    BY <1>7 DEF Empties, Stays
  <2>2. /\ G = F /\ Len(inbox') \in Nat /\ Len(inbox') <= Len(inbox)
        /\ inbox' \in Seq(Range(Chain))
    <3>1. G = F
      BY <2>1
    <3>2. CASE inbox' = inbox
      BY <1>1, <1>2, <3>1, <3>2
    <3>3. CASE inbox' = <<>>
      <4>1. Len(inbox') = 0 /\ inbox' \in Seq(Range(Chain))
        BY <3>3
      <4> HIDE DEF F, G
      <4> QED
        BY <1>2, <3>1, <4>1
    <3> QED
      BY <2>1, <3>2, <3>3
  <2> HIDE DEF F, G
  <2>4. G + Len(inbox') <= F + Len(inbox) /\ G + Len(inbox') \in Nat /\ F + Len(inbox) \in Nat
    BY <1>2, <1>3, <2>2
  <2> QED
    BY <1>1, <2>1, <2>2, <2>4 DEF F, G
<1> QED
  BY <1>4, <1>5, <1>6, <1>7 DEF PipeStep

\* An answer comes that this run asked for, or one that an earlier run did.
LEMMA StaleServed ==
    ASSUME NEW w \in Seq(Replies), NEW v \in Seq(Replies),
           NEW q \in Seq(Requests), q # <<>>, NEW n \in Nat, NEW a, NEW b, Stale(w, q, n, a, b),
           NEW code, Grows(w, v, Head(q), code)
    PROVE  \E c \in 0..Len(v), d \in 0..Len(Tail(q)) : Stale(v, Tail(q), n, c, d)
<1> DEFINE t == Tail(q)
           r == Head(q)
<1>1. /\ Len(q) \in Nat /\ Len(q) >= 1 /\ Len(t) = Len(q) - 1 /\ t \in Seq(Requests)
      /\ r = q[1] /\ \A j \in 1..(Len(q) - 1) : t[j] = q[j + 1] /\ j + 1 \in 1..Len(q)
  BY TailIs
<1>w. Len(w) \in Nat /\ Len(v) \in Nat
  OBVIOUS
<1>2. /\ a \in 0..Len(w) /\ b \in 0..Len(q) /\ (b > 0 => a = Len(w))
      /\ (a > 0 => w[a].code # "pending")
      /\ ((a = 0 /\ b = 0) \/ Finals(w, a) + b + n <= ErasedAt)
      /\ \A j \in (a + 1)..Len(w) : Early(w[j].service) /\ w[j].code # "pending"
      /\ \A j \in (b + 1)..Len(q) : Early(q[j].service)
  BY DEF Stale
<1>3. /\ Len(v) > Len(w) /\ \A j \in 1..Len(w) : v[j] = w[j]
      /\ \A j \in (Len(w) + 1)..Len(v) : v[j].service = r.service
      /\ \A j \in (Len(w) + 1)..Len(v) : j # Len(v) => v[j].code = "pending"
      /\ v[Len(v)].code # "pending"
      /\ ~PendingAllowed(r) => Len(v) = Len(w) + 1
      /\ Finals(v, Len(v)) = Finals(w, Len(w)) + 1
  BY DEF Grows
<1>f. Finals(w, Len(w)) \in Nat
  BY <1>w, FinalsAre
<1>n. ErasedAt \in Nat
  BY PlacesAre
<1> HIDE DEF t, r
<1>4. CASE b > 0
  <2> DEFINE d == b - 1
  <2>1. d \in Nat /\ d \in 0..Len(t) /\ b \in Nat /\ d + 1 = b
    BY <1>1, <1>2, <1>4
  <2>2. Finals(v, Len(v)) + d + n <= ErasedAt
    <3>1. Finals(w, Len(w)) + b + n <= ErasedAt
      BY <1>2, <1>4
    <3> HIDE DEF d
    <3> QED
      BY <1>3, <1>f, <1>n, <2>1, <3>1
  <2>3. \A j \in (d + 1)..Len(t) : Early(t[j].service)
    <3>1. ASSUME NEW j \in (d + 1)..Len(t)
          PROVE  j \in 1..(Len(q) - 1) /\ j + 1 \in (b + 1)..Len(q)
      BY <1>1, <2>1
    <3> QED
      BY <1>1, <1>2, <3>1
  <2> HIDE DEF d
  <2>4. Len(v) \in 0..Len(v) /\ \A j \in (Len(v) + 1)..Len(v) : FALSE
    BY <1>w
  <2>5. Stale(v, t, n, Len(v), d)
    BY <1>3, <2>1, <2>2, <2>3, <2>4 DEF Stale
  <2> QED
    BY <2>1, <2>4, <2>5 DEF t
<1>5. CASE ~(b > 0)
  <2>1. b = 0
    BY <1>1, <1>2, <1>5
  <2>2. Early(r.service)
    <3>1. 1 \in (0 + 1)..Len(q)
      BY <1>1
    <3> QED
      BY <1>1, <1>2, <2>1, <3>1
  <2>3. Len(v) = Len(w) + 1
    BY <1>3, <2>2 DEF PendingAllowed, Early, Erase, Verify
  <2>4. a \in Nat /\ a \in 0..Len(v) /\ a <= Len(w)
    BY <1>2, <1>w, <2>3
  <2>5. a > 0 => v[a].code # "pending"
    <3>1. a > 0 => a \in 1..Len(w)
      BY <1>w, <2>4
    <3> QED
      BY <1>2, <1>3, <3>1
  <2>6. (a = 0 /\ 0 = 0) \/ Finals(v, a) + 0 + n <= ErasedAt
    <3>1. \A j \in 1..a : v[j] = w[j]
      <4>1. \A j \in 1..a : j \in 1..Len(w)
        BY <1>w, <2>4
      <4> QED
        BY <1>3, <4>1
    <3>2. Finals(v, a) = Finals(w, a)
      BY <2>4, <3>1, FinalsSame
    <3> QED
      BY <1>2, <2>1, <3>2
  <2>7. \A j \in (a + 1)..Len(v) : Early(v[j].service) /\ v[j].code # "pending"
    <3>1. ASSUME NEW j \in (a + 1)..Len(v)
          PROVE  (j \in (a + 1)..Len(w) /\ j \in 1..Len(w))
                   \/ (j = Len(v) /\ j \in (Len(w) + 1)..Len(v))
      BY <1>w, <2>3, <2>4
    <3> QED
      BY <1>2, <1>3, <2>2, <3>1
  <2>8. \A j \in (0 + 1)..Len(t) : Early(t[j].service)
    <3>1. ASSUME NEW j \in (0 + 1)..Len(t)
          PROVE  j \in 1..(Len(q) - 1) /\ j + 1 \in (0 + 1)..Len(q)
      BY <1>1
    <3> QED
      BY <1>1, <1>2, <2>1, <3>1
  <2>9. 0 \in 0..Len(t)
    BY <1>1
  <2>10. Stale(v, t, n, a, 0)
    BY <2>4, <2>5, <2>6, <2>7, <2>8, <2>9 DEF Stale
  <2> QED
    BY <2>4, <2>9, <2>10 DEF t
<1> QED
  BY <1>4, <1>5

\* A request does not arrive.
LEMMA StaleDropped ==
    ASSUME NEW w \in Seq(Replies), NEW q \in Seq(Requests), NEW n \in Nat, NEW a, NEW b,
           Stale(w, q, n, a, b), NEW t \in Seq(Requests),
           t = <<>> \/ (q # <<>> /\ t = Tail(q))
    PROVE  \E d \in 0..Len(t) : Stale(w, t, n, a, d)
<1>1. /\ a \in 0..Len(w) /\ b \in 0..Len(q) /\ (b > 0 => a = Len(w))
      /\ (a > 0 => w[a].code # "pending")
      /\ ((a = 0 /\ b = 0) \/ Finals(w, a) + b + n <= ErasedAt)
      /\ \A j \in (a + 1)..Len(w) : Early(w[j].service) /\ w[j].code # "pending"
      /\ \A j \in (b + 1)..Len(q) : Early(q[j].service)
  BY DEF Stale
<1>w. Len(w) \in Nat /\ Len(q) \in Nat /\ Len(t) \in Nat /\ a \in Nat /\ b \in Nat
  BY <1>1
<1>f. Finals(w, a) \in Nat /\ ErasedAt \in Nat
  BY <1>w, FinalsAre, PlacesAre
<1> DEFINE d == IF t = <<>> \/ b = 0 THEN 0 ELSE b - 1
<1>2. /\ d \in Nat /\ d <= b /\ (d > 0 => d = b - 1 /\ b > 0)
      /\ (t # <<>> => d = IF b = 0 THEN 0 ELSE b - 1)
  BY <1>w
<1>t. /\ t # <<>> => Len(q) >= 1 /\ Len(t) = Len(q) - 1
      /\ t # <<>> => \A j \in 1..(Len(q) - 1) : t[j] = q[j + 1] /\ j + 1 \in 1..Len(q)
  BY TailIs
<1>3. d \in 0..Len(t)
  BY <1>1, <1>w, <1>t
<1> HIDE DEF d
<1>4. (a = 0 /\ d = 0) \/ Finals(w, a) + d + n <= ErasedAt
  BY <1>1, <1>w, <1>f, <1>2
<1>5. \A j \in (d + 1)..Len(t) : Early(t[j].service)
  <2>1. CASE t = <<>>
    <3>1. Len(t) = 0
      BY <2>1
    <3> QED
      BY <1>2, <3>1
  <2>2. CASE t # <<>>
    <3>1. ASSUME NEW j \in (d + 1)..Len(t)
          PROVE  j \in 1..(Len(q) - 1) /\ j + 1 \in (b + 1)..Len(q)
      BY <1>w, <1>2, <1>t, <2>2
    <3> QED
      BY <1>1, <1>t, <2>2, <3>1
  <2> QED
    BY <2>1, <2>2
<1>6. d > 0 => a = Len(w)
  BY <1>1, <1>2
<1>7. Stale(w, t, n, a, d)
  BY <1>1, <1>3, <1>4, <1>5, <1>6 DEF Stale
<1> QED
  BY <1>3, <1>7

-------------------------------------------------------------------------------
(* What the ECU and the bus do to a run.                                   *)

Beside ==
    /\ UNCHANGED <<sessionVars, runVars, runs>>
    /\ faults' \in 0..MaxFaults /\ faults \in Nat /\ faults' >= faults

\* They leave no more to come than there was.
LEMMA PipeKeepsLeftover ==
    ASSUME FlowTyped, Leftover, PipeStep, Beside
    PROVE  FlowTyped' /\ Leftover'
<1>1. /\ inbox' \in Seq(Range(Chain)) /\ wire' \in Seq(Replies)
      /\ wire' # <<>> => wire'[Len(wire')].code # "pending"
  BY PipeCounts
<1>2. /\ phase' = phase /\ at' = at /\ late' = late /\ cancelled' = cancelled /\ runs' = runs
      /\ stage' = stage /\ exit' = exit /\ prog' = prog /\ faults' \in 0..MaxFaults
  BY DEF Beside, sessionVars, runVars
<1>3. FlowTyped'
  BY <1>1, <1>2 DEF FlowTyped, Flashes
<1> DEFINE x == Finals(wire, Len(wire)) + Len(inbox)
           y == Finals(wire', Len(wire')) + Len(inbox')
           z == IF phase = "send" \/ (phase = "off" /\ stage \in {"load", "open", "work"})
                THEN 0 ELSE 1
<1>4. x \in Nat /\ y \in Nat /\ y <= x
  BY PipeCounts
<1>5. x <= (runs - 1) + faults + z
  BY DEF Leftover
<1>6. runs \in Nat /\ z \in {0, 1} /\ faults' \in Nat /\ faults \in Nat /\ faults' >= faults
  BY DEF FlowTyped, Beside
<1>7. y <= (runs - 1) + faults' + z
  <2>1. \A k, l, m, n, p \in Nat : \A i \in {0, 1} :
          m <= l /\ l <= (k - 1) + n + i /\ p >= n => m <= (k - 1) + p + i
    OBVIOUS
  <2> HIDE DEF x, y, z
  <2> QED
    BY <1>4, <1>5, <1>6, <2>1
<1> QED
  BY <1>2, <1>3, <1>7 DEF Leftover

\* What is of an earlier run stays in front.
LEMMA PipeKeepsLagging ==
    ASSUME FlowTyped, Lagging, PipeStep, Beside
    PROVE  Lagging'
<1>1. phase' = phase /\ at' = at
  BY DEF Beside, runVars
<1>2. SUFFICES ASSUME Running, BeforeErase
               PROVE  \E a \in 0..Len(wire'), b \in 0..Len(inbox') : Stale(wire', inbox', at, a, b)
  BY <1>1 DEF Lagging, Running, BeforeErase
<1>3. PICK a \in 0..Len(wire), b \in 0..Len(inbox) : Stale(wire, inbox, at, a, b)
  BY <1>2 DEF Lagging
<1>4. /\ wire \in Seq(Replies) /\ wire' \in Seq(Replies) /\ inbox \in Seq(Requests)
      /\ at \in Nat
  BY PipeCounts, InboxIs, PlacesAre DEF FlowTyped
<1>5. CASE Serves
  <2>1. PICK r \in Range(Chain), code \in {"ok", "refused", "unusable"} : ServesAs(r, code)
    BY <1>5 DEF Serves
  <2>2. /\ inbox # <<>> /\ inbox' = Tail(inbox) /\ Grows(wire, wire', Head(inbox), code)
    BY <2>1 DEF ServesAs
  <2>3. \E c \in 0..Len(wire'), d \in 0..Len(Tail(inbox)) :
           Stale(wire', Tail(inbox), at, c, d)
    BY <1>3, <1>4, <2>2, StaleServed
  <2> QED
    BY <2>2, <2>3
<1>6. CASE DropsRequest \/ Empties
  <2>1. /\ wire' = wire
        /\ inbox' = <<>> \/ (inbox # <<>> /\ inbox' = Tail(inbox))
    BY <1>6 DEF DropsRequest, Empties
  <2>2. inbox' \in Seq(Requests)
    <3>1. inbox # <<>> => Tail(inbox) \in Seq(Requests)
      BY <1>4, TailIs
    <3>2. <<>> \in Seq(Requests)
      OBVIOUS
    <3> QED
      BY <2>1, <3>1, <3>2
  <2>3. \E d \in 0..Len(inbox') : Stale(wire, inbox', at, a, d)
    BY <1>3, <1>4, <2>1, <2>2, StaleDropped
  <2> QED
    BY <1>3, <2>1, <2>3
<1>7. CASE DropsAnswer
  <2>1. wire # <<>> /\ wire' = Tail(wire) /\ inbox' = inbox
    BY <1>7 DEF DropsAnswer
  <2>2. \E c \in 0..Len(Tail(wire)) : Stale(Tail(wire), inbox, at, c, b)
    BY <1>3, <1>4, <2>1, StaleTail
  <2> QED
    BY <1>3, <2>1, <2>2
<1>8. CASE Stays
  BY <1>3, <1>8 DEF Stays
<1> QED
  BY <1>5, <1>6, <1>7, <1>8 DEF PipeStep

\* The erase is answered last.
LEMMA PipeKeepsErasing ==
    ASSUME FlowTyped, Erasing, PipeStep, Beside
    PROVE  Erasing'
<1>1. phase' = phase /\ at' = at
  BY DEF Beside, runVars
<1> DEFINE Own(q, w, e) ==
      /\ \A j \in 1..Len(q) : j < Len(q) => Early(q[j].service)
      /\ q # <<>> =>
           /\ q[Len(q)].service = Erase
           /\ \A j \in 1..Len(w) : Early(w[j].service) /\ w[j].code # "pending"
      /\ \A j \in 1..Len(w) : w[j].service = Erase /\ w[j].code = "ok" =>
           j = Len(w) /\ q = <<>> /\ ~e.valid
<1>2. SUFFICES ASSUME Own(inbox, wire, ecu) PROVE Own(inbox', wire', ecu')
  BY <1>1 DEF Erasing
<1>w. wire \in Seq(Replies) /\ Len(wire) \in Nat /\ inbox \in Seq(Requests) /\ Len(inbox) \in Nat
  BY InboxIs DEF FlowTyped
<1>e. \A s : Early(s) => s # Erase
  BY DEF Early
<1>v. SameApp => ecu'.valid = ecu.valid
  BY DEF SameApp
<1>3. CASE Serves
  <2>1. PICK r \in Range(Chain), code \in {"ok", "refused", "unusable"} : ServesAs(r, code)
    BY <1>3 DEF Serves
  <2>2. /\ inbox # <<>> /\ r = Head(inbox) /\ inbox' = Tail(inbox)
        /\ Grows(wire, wire', r, code) /\ (IF code = "ok" THEN EcuTook(r) ELSE SameApp)
    BY <2>1 DEF ServesAs
  <2>3. /\ Len(inbox) >= 1 /\ r = inbox[1] /\ Len(inbox') = Len(inbox) - 1
        /\ inbox' \in Seq(Requests)
        /\ \A j \in 1..(Len(inbox) - 1) : inbox'[j] = inbox[j + 1] /\ j + 1 \in 1..Len(inbox)
    BY <1>w, <2>2, TailIs
  <2>4. /\ Len(wire') > Len(wire) /\ \A j \in 1..Len(wire) : wire'[j] = wire[j]
        /\ \A j \in (Len(wire) + 1)..Len(wire') : wire'[j].service = r.service
        /\ \A j \in (Len(wire) + 1)..Len(wire') : j # Len(wire') => wire'[j].code = "pending"
        /\ wire'[Len(wire')].code = code
        /\ ~PendingAllowed(r) => Len(wire') = Len(wire) + 1
        /\ Len(wire') \in Nat
    BY <2>2 DEF Grows
  <2>5. /\ \A j \in 1..Len(wire) : Early(wire[j].service) /\ wire[j].code # "pending"
        /\ inbox[Len(inbox)].service = Erase
    BY <1>2, <2>2
  <2>6. \A j \in 1..Len(inbox') : j < Len(inbox') => Early(inbox'[j].service)
    <3>1. ASSUME NEW j \in 1..Len(inbox'), j < Len(inbox')
          PROVE  j \in 1..(Len(inbox) - 1) /\ j + 1 \in 1..Len(inbox) /\ j + 1 < Len(inbox)
      BY <1>w, <2>3, <3>1
    <3> QED
      BY <1>2, <2>3, <3>1
  <2>7. CASE Len(inbox) = 1
    <3>1. inbox' = <<>> /\ r.service = Erase
      <4>1. Len(inbox') = 0
        BY <2>3, <2>7
      <4> QED
        BY <2>3, <2>5, <2>7, <4>1, EmptySeq
    <3>2. ASSUME NEW j \in 1..Len(wire'), wire'[j].service = Erase, wire'[j].code = "ok"
          PROVE  j = Len(wire') /\ ~ecu'.valid
      <4>1. j \in 1..Len(wire) \/ j \in (Len(wire) + 1)..Len(wire')
        BY <1>w, <2>4
      <4>2. j \notin 1..Len(wire)
        BY <1>e, <2>4, <2>5, <3>2
      <4>3. j = Len(wire') /\ code = "ok"
        BY <2>4, <3>2, <4>1, <4>2
      <4>4. ecu'.valid = FALSE
        BY <2>2, <3>1, <4>3 DEF EcuTook
      <4> QED
        BY <4>3, <4>4
    <3> QED
      BY <2>6, <3>1, <3>2
  <2>8. CASE Len(inbox) # 1
    <3>1. Early(r.service)
      <4>1. 1 \in 1..Len(inbox) /\ 1 < Len(inbox)
        BY <1>w, <2>3, <2>8
      <4> QED
        BY <1>2, <2>3, <4>1
    <3>2. Len(wire') = Len(wire) + 1
      BY <2>4, <3>1 DEF PendingAllowed, Early, Erase, Verify
    <3>3. \A j \in 1..Len(wire') : Early(wire'[j].service) /\ wire'[j].code # "pending"
      <4>1. ASSUME NEW j \in 1..Len(wire')
            PROVE  j \in 1..Len(wire) \/ (j = Len(wire') /\ j \in (Len(wire) + 1)..Len(wire'))
        BY <1>w, <3>2
      <4> QED
        BY <2>4, <2>5, <3>1, <4>1
    <3>4. inbox'[Len(inbox')].service = Erase
      <4>1. /\ Len(inbox') \in 1..(Len(inbox) - 1) /\ Len(inbox') + 1 = Len(inbox)
        BY <1>w, <2>3, <2>8
      <4> QED
        BY <2>3, <2>5, <4>1
    <3> QED
      BY <1>e, <2>6, <3>3, <3>4
  <2> QED
    BY <2>7, <2>8
<1>4. CASE DropsRequest
  <2>1. inbox # <<>> /\ inbox' = Tail(inbox) /\ wire' = wire /\ ecu'.valid = ecu.valid
    BY <1>4, <1>v DEF DropsRequest
  <2>3. /\ Len(inbox) >= 1 /\ Len(inbox') = Len(inbox) - 1 /\ inbox' \in Seq(Requests)
        /\ \A j \in 1..(Len(inbox) - 1) : inbox'[j] = inbox[j + 1] /\ j + 1 \in 1..Len(inbox)
    BY <1>w, <2>1, TailIs
  <2>5. /\ \A j \in 1..Len(wire) : Early(wire[j].service) /\ wire[j].code # "pending"
        /\ inbox[Len(inbox)].service = Erase
    BY <1>2, <2>1
  <2>6. \A j \in 1..Len(inbox') : j < Len(inbox') => Early(inbox'[j].service)
    <3>1. ASSUME NEW j \in 1..Len(inbox'), j < Len(inbox')
          PROVE  j \in 1..(Len(inbox) - 1) /\ j + 1 \in 1..Len(inbox) /\ j + 1 < Len(inbox)
      BY <1>w, <2>3, <3>1
    <3> QED
      BY <1>2, <2>3, <3>1
  <2>7. inbox' # <<>> => inbox'[Len(inbox')].service = Erase
    <3>1. ASSUME inbox' # <<>>
          PROVE  Len(inbox') \in 1..(Len(inbox) - 1) /\ Len(inbox') + 1 = Len(inbox)
      <4>1. Len(inbox') # 0
        BY <2>3, <3>1, EmptySeq
      <4> QED
        BY <1>w, <2>3, <4>1
    <3> QED
      BY <2>3, <2>5, <3>1
  <2> QED
    BY <1>e, <2>1, <2>5, <2>6, <2>7
<1>5. CASE DropsAnswer
  <2>1. wire # <<>> /\ wire' = Tail(wire) /\ inbox' = inbox /\ ecu'.valid = ecu.valid
    BY <1>5, <1>v DEF DropsAnswer
  <2>2. /\ Len(wire) >= 1 /\ Len(wire') = Len(wire) - 1
        /\ \A j \in 1..(Len(wire) - 1) : wire'[j] = wire[j + 1] /\ j + 1 \in 1..Len(wire)
    BY <1>w, <2>1, TailIs
  <2>3. \A j \in 1..Len(wire') : wire'[j] = wire[j + 1] /\ j + 1 \in 1..Len(wire)
    BY <2>2
  <2>4. \A j \in 1..Len(wire') : j + 1 = Len(wire) => j = Len(wire')
    BY <1>w, <2>2
  <2> QED
    BY <1>2, <2>1, <2>3, <2>4
<1>6. CASE Empties
  <2>1. inbox' = <<>> /\ wire' = wire /\ ecu'.valid = ecu.valid
    BY <1>6, <1>v DEF Empties
  <2>2. ASSUME NEW j \in 1..Len(wire), wire[j].service = Erase, wire[j].code = "ok"
        PROVE  j = Len(wire) /\ ~ecu.valid
    BY <1>2, <2>2
  <2>3. \A j \in 1..Len(inbox') : FALSE
    BY <2>1
  <2> QED
    BY <2>1, <2>2, <2>3
<1>7. CASE Stays
  BY <1>2, <1>7, <1>v DEF Stays
<1> QED
  BY <1>3, <1>4, <1>5, <1>6, <1>7 DEF PipeStep

\* The App is asked whether it is there, and is left as it is.
LEMMA PipeKeepsPolls ==
    ASSUME FlowTyped, EcuOK, PollsOnly, PipeStep
    PROVE  /\ PollsOnly' /\ ecu'.valid = ecu.valid /\ ecu'.app = ecu.app
           /\ ecu.alive => ecu'.alive
           /\ \A j \in 1..Len(wire') : wire'[j].code = "ok" =>
                (ecu'.valid /\ ecu'.alive) \/ \E k \in 1..Len(wire) : wire[k].code = "ok"
<1>w. wire \in Seq(Replies) /\ Len(wire) \in Nat /\ inbox \in Seq(Requests) /\ Len(inbox) \in Nat
  BY InboxIs DEF FlowTyped
<1>b. ecu.alive \in BOOLEAN /\ ecu.valid \in BOOLEAN
  BY DEF EcuOK, EcuFits
<1>p. /\ \A j \in 1..Len(inbox) : inbox[j].service = Poll
      /\ \A j \in 1..Len(wire) : wire[j].service = Poll /\ wire[j].code # "pending"
  BY DEF PollsOnly
<1>t. ASSUME inbox # <<>>
      PROVE  \A j \in 1..Len(Tail(inbox)) : Tail(inbox)[j].service = Poll
  <2>1. /\ Len(Tail(inbox)) = Len(inbox) - 1
        /\ \A j \in 1..(Len(inbox) - 1) : Tail(inbox)[j] = inbox[j + 1] /\ j + 1 \in 1..Len(inbox)
    BY <1>w, <1>t, TailIs
  <2> QED
    BY <1>p, <2>1
<1>3. CASE Serves
  <2>1. PICK r \in Range(Chain), code \in {"ok", "refused", "unusable"} : ServesAs(r, code)
    BY <1>3 DEF Serves
  <2>2. /\ inbox # <<>> /\ r = Head(inbox) /\ inbox' = Tail(inbox)
        /\ Grows(wire, wire', r, code) /\ (IF code = "ok" THEN EcuTook(r) ELSE SameApp)
    BY <2>1 DEF ServesAs
  <2>3. r.service = Poll
    <3>1. r = inbox[1] /\ 1 \in 1..Len(inbox)
      BY <1>w, <2>2, TailIs
    <3> QED
      BY <1>p, <3>1
  <2>4. /\ Len(wire') > Len(wire) /\ \A j \in 1..Len(wire) : wire'[j] = wire[j]
        /\ \A j \in (Len(wire) + 1)..Len(wire') : wire'[j].service = r.service
        /\ wire'[Len(wire')].code = code
        /\ ~PendingAllowed(r) => Len(wire') = Len(wire) + 1
    BY <2>2 DEF Grows
  <2>5. Len(wire') = Len(wire) + 1
    BY <2>3, <2>4 DEF PendingAllowed, Poll
  <2>6. \A j \in 1..Len(wire') :
          j \in 1..Len(wire) \/ (j = Len(wire') /\ j \in (Len(wire) + 1)..Len(wire'))
    BY <1>w, <2>5
  <2>7. \A j \in 1..Len(wire') : wire'[j].service = Poll /\ wire'[j].code # "pending"
    BY <1>p, <2>3, <2>4, <2>6
  <2>8. PollsOnly'
    BY <1>t, <2>2, <2>7 DEF PollsOnly
  <2>9. CASE code = "ok"
    <3>1. ecu'.valid = ecu.valid /\ ecu'.app = ecu.app /\ ecu.valid /\ ecu'.alive = TRUE
      BY <2>2, <2>3, <2>9 DEF EcuTook, Erase, Verify, Poll
    <3> QED
      BY <2>8, <3>1
  <2>10. CASE code # "ok"
    <3>1. ecu'.valid = ecu.valid /\ ecu'.app = ecu.app /\ ecu'.alive = ecu.alive
      BY <2>2, <2>10 DEF SameApp
    <3>2. \A j \in 1..Len(wire') : wire'[j].code = "ok" =>
            \E k \in 1..Len(wire) : wire[k].code = "ok"
      BY <2>4, <2>6, <2>10
    <3> QED
      BY <2>8, <3>1, <3>2
  <2> QED
    BY <2>9, <2>10
<1>4. ASSUME DropsRequest \/ Empties \/ Stays \/ DropsAnswer
      PROVE  ecu'.valid = ecu.valid /\ ecu'.app = ecu.app /\ ecu'.alive = ecu.alive
  BY <1>4 DEF DropsRequest, Empties, Stays, DropsAnswer, SameApp
<1>5. CASE DropsRequest \/ Empties \/ Stays
  <2>1. wire' = wire
    BY <1>5 DEF DropsRequest, Empties, Stays
  <2>2. \A j \in 1..Len(inbox') : inbox'[j].service = Poll
    <3>1. CASE DropsRequest
      BY <1>t, <3>1 DEF DropsRequest
    <3>2. CASE Empties
      <4>1. Len(inbox') = 0
        BY <3>2 DEF Empties
      <4> QED
        BY <4>1
    <3>3. CASE Stays
      BY <1>p, <3>3 DEF Stays
    <3> QED
      BY <1>5, <3>1, <3>2, <3>3
  <2>3. PollsOnly'
    BY <1>p, <2>1, <2>2 DEF PollsOnly
  <2> QED
    BY <1>4, <1>5, <2>1, <2>3
<1>6. CASE DropsAnswer
  <2>1. wire # <<>> /\ wire' = Tail(wire) /\ inbox' = inbox
    BY <1>6 DEF DropsAnswer
  <2>2. \A j \in 1..Len(wire') : wire'[j] = wire[j + 1] /\ j + 1 \in 1..Len(wire)
    BY <1>w, <2>1, TailIs
  <2>3. PollsOnly'
    BY <1>p, <2>1, <2>2 DEF PollsOnly
  <2> QED
    BY <1>4, <1>6, <2>2, <2>3
<1> QED
  BY <1>3, <1>5, <1>6 DEF PipeStep

\* The request under way is the run's own, and meets an App that is as far as
\* the run.
LEMMA PipeKeepsOwn ==
    ASSUME FlowTyped, EcuOK, Running, at > ErasedAt, at < PollAt, phase = "wait",
           InStep, PipeStep
    PROVE  /\ inbox' = <<>> \/ (inbox' = <<Chain[at]>> /\ wire' = <<>>)
           /\ \A j \in 1..Len(wire') : wire'[j].code # "pending" => j = Len(wire')
           /\ at < VerifiedAt => ~ecu'.valid
           /\ ecu'.valid => ecu'.app = "new"
<1>w. wire \in Seq(Replies) /\ Len(wire) \in Nat /\ inbox \in Seq(Requests) /\ Len(inbox) \in Nat
  BY InboxIs DEF FlowTyped
<1>i. /\ inbox = <<>> \/ (inbox = <<Chain[at]>> /\ wire = <<>>)
      /\ \A j \in 1..Len(wire) : wire[j].code # "pending" => j = Len(wire)
      /\ at < VerifiedAt => ~ecu.valid
      /\ ecu.valid => ecu.app = "new"
  BY DEF InStep
<1>s. /\ at \in 1..PollAt /\ at \in Nat
      /\ at < VerifiedAt => Chain[at].service \in {"34", "36", "37"}
      /\ at = VerifiedAt => Chain[at].service = Verify
      /\ at = VerifiedAt + 1 => Chain[at].service = "11 01"
      /\ at < VerifiedAt \/ at = VerifiedAt \/ at = VerifiedAt + 1
  <2>1. at \in 1..PollAt /\ at \in Nat
    BY PlacesAre DEF FlowTyped
  <2>2. at < VerifiedAt \/ at = VerifiedAt \/ at = VerifiedAt + 1
    BY <2>1, PlacesAre
  <2> QED
    BY <2>1, <2>2, ServiceAt
<1>t. ASSUME inbox # <<>>
      PROVE  Tail(inbox) = <<>> /\ Head(inbox) = Chain[at] /\ wire = <<>>
  <2> DEFINE c == Chain[at]
  <2>1. inbox = <<c>> /\ wire = <<>>
    BY <1>i, <1>t
  <2> HIDE DEF c
  <2>2. Len(inbox) = 1 /\ inbox[1] = c
    BY <2>1
  <2>3. /\ Head(inbox) = inbox[1] /\ Len(Tail(inbox)) = Len(inbox) - 1
        /\ Tail(inbox) \in Seq(Requests)
    BY <1>w, <1>t, TailIs
  <2>4. Tail(inbox) = <<>>
    <3>1. Len(Tail(inbox)) = 0
      BY <2>2, <2>3
    <3> QED
      BY <2>3, <3>1, EmptySeq
  <2> QED
    BY <2>1, <2>2, <2>3, <2>4 DEF c
<1>v. SameApp => ecu'.valid = ecu.valid /\ ecu'.app = ecu.app
  BY DEF SameApp
<1>3. CASE Serves
  <2>1. PICK r \in Range(Chain), code \in {"ok", "refused", "unusable"} : ServesAs(r, code)
    BY <1>3 DEF Serves
  <2>2. /\ inbox # <<>> /\ r = Head(inbox) /\ inbox' = Tail(inbox)
        /\ Grows(wire, wire', r, code) /\ (IF code = "ok" THEN EcuTook(r) ELSE SameApp)
    BY <2>1 DEF ServesAs
  <2>3. r = Chain[at] /\ inbox' = <<>> /\ Len(wire) = 0
    BY <1>t, <2>2
  <2>4. \A j \in (Len(wire) + 1)..Len(wire') : j # Len(wire') => wire'[j].code = "pending"
    BY <2>2 DEF Grows
  <2>5. \A j \in 1..Len(wire') : wire'[j].code # "pending" => j = Len(wire')
    BY <2>3, <2>4
  <2>6. CASE code = "ok"
    <3>1. /\ r.service \notin {Erase, Verify} => ecu'.valid = ecu.valid
          /\ r.service \notin {"36", "37", Erase} => ecu'.app = ecu.app
          /\ r.service = Verify => ecu.app = "new"
      BY <2>2, <2>6 DEF EcuTook
    <3>2. at < VerifiedAt => ecu'.valid = ecu.valid
      BY <1>s, <2>3, <3>1 DEF Erase, Verify
    <3>3. at = VerifiedAt => ecu'.app = "new"
      BY <1>s, <2>3, <3>1 DEF Erase, Verify
    <3>4. at = VerifiedAt + 1 => ecu'.valid = ecu.valid /\ ecu'.app = ecu.app
      BY <1>s, <2>3, <3>1 DEF Erase, Verify
    <3> QED
      BY <1>i, <1>s, <2>3, <2>5, <3>2, <3>3, <3>4
  <2>7. CASE code # "ok"
    BY <1>i, <1>v, <2>2, <2>3, <2>5, <2>7
  <2> QED
    BY <2>6, <2>7
<1>4. CASE DropsRequest \/ Empties
  <2>1. inbox' = <<>> /\ wire' = wire /\ SameApp
    BY <1>4, <1>t DEF DropsRequest, Empties
  <2> QED
    BY <1>i, <1>v, <2>1
<1>5. CASE DropsAnswer
  <2>1. wire # <<>> /\ wire' = Tail(wire) /\ inbox' = inbox /\ SameApp
    BY <1>5 DEF DropsAnswer
  <2>2. /\ Len(wire') = Len(wire) - 1
        /\ \A j \in 1..(Len(wire) - 1) : wire'[j] = wire[j + 1] /\ j + 1 \in 1..Len(wire)
    BY <1>w, <2>1, TailIs
  <2>3. ASSUME NEW j \in 1..Len(wire'), wire'[j].code # "pending" PROVE j = Len(wire')
    <3>1. j \in 1..(Len(wire) - 1) /\ j \in Int
      BY <2>2
    <3>2. wire'[j] = wire[j + 1] /\ j + 1 \in 1..Len(wire)
      BY <2>2, <3>1
    <3>3. j + 1 = Len(wire)
      BY <1>i, <2>3, <3>2
    <3> QED
      BY <1>w, <2>2, <3>1, <3>3
  <2> QED
    BY <1>i, <1>v, <2>1, <2>3
<1>6. CASE Stays
  BY <1>i, <1>v, <1>6 DEF Stays
<1> QED
  BY <1>3, <1>4, <1>5, <1>6 DEF PipeStep

\* Whatever the ECU and the bus do, the run and the ECU stay at the same request.
LEMMA PipeKeepsInStep ==
    ASSUME FlowTyped, EcuOK, InStep, PipeStep, Beside
    PROVE  InStep'
<1>1. phase' = phase /\ at' = at
  BY DEF Beside, runVars
<1>2. SUFFICES ASSUME Running, at > ErasedAt PROVE InStep'
  BY <1>1 DEF InStep, Running
<1>a. at \in 1..PollAt /\ at \in Nat
  BY PlacesAre DEF FlowTyped
<1>p. at < PollAt => ~(at = PollAt)
  BY <1>a, PlacesAre
<1>3. CASE at < PollAt /\ phase = "wait"
  <2>1. /\ inbox' = <<>> \/ (inbox' = <<Chain[at]>> /\ wire' = <<>>)
        /\ \A j \in 1..Len(wire') : wire'[j].code # "pending" => j = Len(wire')
        /\ at < VerifiedAt => ~ecu'.valid
        /\ ecu'.valid => ecu'.app = "new"
    BY <1>2, <1>3, PipeKeepsOwn
  <2> QED
    BY <1>1, <1>3, <1>p, <2>1 DEF InStep
<1>4. CASE at < PollAt /\ phase = "send"
  <2>1. /\ inbox = <<>> /\ wire = <<>> /\ (at < VerifiedAt => ~ecu.valid)
        /\ (ecu.valid => ecu.app = "new")
    BY <1>2, <1>4 DEF InStep
  <2>2. inbox' = <<>> /\ wire' = <<>> /\ SameApp
    BY <2>1 DEF PipeStep, Serves, ServesAs, DropsRequest, DropsAnswer, Empties, Stays
  <2> QED
    BY <1>1, <1>4, <1>p, <2>1, <2>2 DEF InStep, SameApp
<1>5. CASE at = PollAt
  <2>1. /\ PollsOnly /\ (ecu.valid => ecu.app = "new")
        /\ \A j \in 1..Len(wire) : wire[j].code = "ok" => NewApp
    BY <1>2, <1>5 DEF InStep
  <2>2. /\ PollsOnly' /\ ecu'.valid = ecu.valid /\ ecu'.app = ecu.app
        /\ ecu.alive => ecu'.alive
        /\ \A j \in 1..Len(wire') : wire'[j].code = "ok" =>
             (ecu'.valid /\ ecu'.alive) \/ \E k \in 1..Len(wire) : wire[k].code = "ok"
    BY <2>1, PipeKeepsPolls
  <2>3. NewApp => NewApp'
    BY <2>2 DEF NewApp
  <2>4. ecu'.valid /\ ecu'.alive => NewApp'
    BY <2>1, <2>2 DEF NewApp
  <2>5. \A j \in 1..Len(wire') : wire'[j].code = "ok" => NewApp'
    BY <2>1, <2>2, <2>3, <2>4
  <2>6. ~(at < PollAt) /\ ~(at < VerifiedAt)
    BY <1>5, <1>a, PlacesAre
  <2> QED
    BY <1>1, <2>1, <2>2, <2>5, <2>6 DEF InStep
<1>6. at < PollAt \/ at = PollAt
  BY <1>a, PlacesAre
<1> QED
  BY <1>2, <1>3, <1>4, <1>5, <1>6 DEF Running

\* The new App stays.
LEMMA PipeKeepsSucceeded ==
    ASSUME FlowTyped, EcuOK, Succeeded, PipeStep, Beside
    PROVE  Succeeded'
<1>1. phase' = phase /\ exit' = exit /\ prog' = prog
  BY DEF Beside, runVars, sessionVars
<1>2. SUFFICES ASSUME PollsOnly, NewApp PROVE PollsOnly' /\ NewApp'
  BY <1>1 DEF Succeeded, Flashes
<1>3. /\ PollsOnly' /\ ecu'.valid = ecu.valid /\ ecu'.app = ecu.app /\ (ecu.alive => ecu'.alive)
  BY <1>2, PipeKeepsPolls
<1> QED
  BY <1>2, <1>3 DEF NewApp

\* The ECU and the bus disturb no run.
LEMMA PipeKeepsFlow ==
    ASSUME Flow, EcuStep, UNCHANGED <<sessionVars, runs>>
    PROVE  Flow'
<1>1. FlowTyped /\ EcuOK /\ Leftover /\ Lagging /\ Erasing /\ InStep /\ Succeeded
  BY DEF Flow
<1>2. PipeStep /\ EcuOK' /\ Beside
  BY <1>1, EcuStepIs DEF Beside
<1>3. FlowTyped' /\ Leftover'
  BY <1>1, <1>2, PipeKeepsLeftover
<1>4. Lagging'
  BY <1>1, <1>2, PipeKeepsLagging
<1>5. Erasing'
  BY <1>1, <1>2, PipeKeepsErasing
<1>6. InStep'
  BY <1>1, <1>2, PipeKeepsInStep
<1>7. Succeeded'
  BY <1>1, <1>2, PipeKeepsSucceeded
<1> QED
  BY <1>2, <1>3, <1>4, <1>5, <1>6, <1>7 DEF Flow

-------------------------------------------------------------------------------
(* The steps of a run.                                                     *)

\* What Leftover bounds, and what of it counts for the run itself.
ToCome == Finals(wire, Len(wire)) + Len(inbox)
Own == IF phase = "send" \/ (phase = "off" /\ stage \in {"load", "open", "work"}) THEN 0 ELSE 1

\* Leftover, in numbers.
LEMMA LeftoverIs ==
    ASSUME FlowTyped
    PROVE  /\ Leftover <=> ToCome <= (runs - 1) + faults + Own
           /\ ToCome \in Nat /\ Own \in {0, 1} /\ runs \in Nat /\ runs >= 1 /\ faults \in Nat
           /\ Finals(wire, Len(wire)) \in Nat /\ Len(inbox) \in Nat
<1>1. wire \in Seq(Replies) /\ inbox \in Seq(Range(Chain))
  BY DEF FlowTyped
<1>2. Len(wire) \in Nat /\ Len(inbox) \in Nat
  BY <1>1
<1>3. Finals(wire, Len(wire)) \in Nat
  BY <1>2, FinalsAre
<1>4. ToCome \in Nat
  BY <1>2, <1>3 DEF ToCome
<1>5. runs \in Nat /\ runs >= 1 /\ faults \in Nat
  BY DEF FlowTyped
<1>6. Leftover <=> ToCome <= (runs - 1) + faults + Own
  BY DEF Leftover, ToCome, Own
<1> QED
  BY <1>2, <1>3, <1>4, <1>5, <1>6 DEF Own

\* The request that is repeated is the last.
LEMMA PollIsAt ==
    ASSUME at \in 1..PollAt
    PROVE  /\ Current \in Range(Chain) /\ Current \in Requests
           /\ IsPoll(Current) <=> at = PollAt
<1>3. /\ Current \in Range(Chain) /\ Current \in Requests
      /\ at < ErasedAt => Early(Current.service)
      /\ at = ErasedAt => Current.service = Erase
      /\ at > ErasedAt /\ at < VerifiedAt => Current.service \in {"34", "36", "37"}
      /\ at = VerifiedAt => Current.service = Verify
      /\ at = VerifiedAt + 1 => Current.service = "11 01"
      /\ at = PollAt => Current.service = Poll
  BY ServiceAt DEF Current
<1>4. \/ at < ErasedAt \/ at = ErasedAt \/ (at > ErasedAt /\ at < VerifiedAt)
      \/ at = VerifiedAt \/ at = VerifiedAt + 1 \/ at = PollAt
  BY PlacesAre
<1> HIDE DEF Current
<1>5. IsPoll(Current) <=> Current.service = Poll
  BY DEF IsPoll, Poll
<1>6. Current.service = Poll => at = PollAt
  BY <1>3, <1>4 DEF Early, Erase, Verify, Poll
<1> QED
  BY <1>3, <1>5, <1>6

\* The same, of a run that is what it has to be.
LEMMA PollIsLast ==
    ASSUME FlowTyped
    PROVE  /\ at \in 1..PollAt /\ at \in Nat /\ Len(Chain) = PollAt
           /\ Current \in Range(Chain) /\ Current \in Requests
           /\ IsPoll(Current) <=> at = PollAt
<1>1. at \in 1..PollAt
  BY DEF FlowTyped
<1>2. at \in Nat
  BY <1>1, PlacesAre
<1>3. Len(Chain) = PollAt
  BY ChainIs
<1> QED
  BY <1>1, <1>2, <1>3, PollIsAt

Aside == stage = "work" /\ UNCHANGED <<sessionVars, runs>>

\* A run ends without success.
LEMMA RunEndsBadly ==
    ASSUME Flow, Aside, Running, phase' \in {"failed", "cancelled"},
           UNCHANGED <<at, late, cancelled, inbox, ecu>>,
           wire' = wire \/ (wire # <<>> /\ wire' = Tail(wire)),
           Fault \/ faults' = faults
    PROVE  Flow'
<1>1. FlowTyped /\ EcuOK /\ Leftover
  BY DEF Flow
<1>2. /\ stage' = stage /\ exit' = exit /\ prog' = prog /\ runs' = runs /\ stage = "work"
      /\ exit = "none" /\ Flashes
  BY <1>1 DEF Aside, sessionVars, FlowTyped, Running
<1>3. faults' \in 0..MaxFaults /\ faults \in Nat /\ faults' >= faults
  BY <1>1, FaultIs
<1>4. /\ wire' \in Seq(Replies) /\ (wire' # <<>> => wire'[Len(wire')].code # "pending")
      /\ Finals(wire', Len(wire')) \in Nat
      /\ Finals(wire', Len(wire')) <= Finals(wire, Len(wire))
  <2>1. wire \in Seq(Replies) /\ (wire # <<>> => wire[Len(wire)].code # "pending")
    BY <1>1 DEF FlowTyped
  <2>2. Finals(wire, Len(wire)) \in Nat
    BY <1>1, LeftoverIs
  <2>3. CASE wire' = wire
    BY <2>1, <2>2, <2>3
  <2>4. CASE wire # <<>> /\ wire' = Tail(wire)
    <3> DEFINE F == Finals(wire, Len(wire))
               G == Finals(wire', Len(wire'))
    <3>1. /\ wire' \in Seq(Replies) /\ (wire' # <<>> => wire'[Len(wire')].code # "pending")
          /\ G \in Nat /\ (G = F - 1 \/ G = F)
      BY <2>1, <2>4, TailIs, TailCounts
    <3>2. F \in Nat
      BY <2>2
    <3> HIDE DEF F, G
    <3>3. G <= F
      BY <3>1, <3>2
    <3> QED
      BY <3>1, <3>3 DEF F, G
  <2> QED
    BY <2>3, <2>4
<1>5. FlowTyped'
  BY <1>1, <1>2, <1>3, <1>4 DEF FlowTyped, Flashes
<1>6. Leftover'
  <2> DEFINE x == ToCome
             y == ToCome'
             i == Own
             k == runs
             n == faults
             p == faults'
  <2>1. y <= x /\ x \in Nat /\ y \in Nat
    <3>1. Len(inbox) \in Nat /\ Finals(wire, Len(wire)) \in Nat /\ inbox' = inbox
      BY <1>1, LeftoverIs
    <3> QED
      BY <1>4, <3>1 DEF ToCome
  <2>2. Own' = 1
    BY DEF Own
  <2>3. x <= (k - 1) + n + i /\ i \in {0, 1} /\ k \in Nat /\ n \in Nat
    BY <1>1, LeftoverIs
  <2>4. p \in Nat /\ p >= n
    BY <1>3
  <2> HIDE DEF x, y, i, k, n, p
  <2>5. y <= (k - 1) + p + 1
    BY <2>1, <2>3, <2>4
  <2>6. Leftover' <=> y <= (k - 1) + p + 1
    BY <1>2, <2>2 DEF Leftover, ToCome, Own, x, y, i, k, n, p
  <2> QED
    BY <2>5, <2>6
<1>7. Lagging' /\ InStep' /\ Erasing'
  BY DEF Lagging, InStep, Erasing, Running
<1>8. Succeeded'
  BY <1>2 DEF Succeeded
<1>9. EcuOK'
  BY <1>1 DEF EcuOK
<1> QED
  BY <1>5, <1>6, <1>7, <1>8, <1>9 DEF Flow

\* One more at the end.
LEMMA AppendIs ==
    ASSUME NEW S, NEW q \in Seq(S), NEW x \in S
    PROVE  /\ Append(q, x) \in Seq(S) /\ Len(Append(q, x)) = Len(q) + 1 /\ Len(q) \in Nat
           /\ \A j \in 1..Len(q) : Append(q, x)[j] = q[j]
           /\ Append(q, x)[Len(q) + 1] = x
           /\ \A j \in 1..(Len(q) + 1) : j \in 1..Len(q) \/ j = Len(q) + 1
OBVIOUS

\* Before the erase, nothing of an earlier run is left.
LEMMA NoneStale ==
    ASSUME NEW w \in Seq(Replies), NEW q \in Seq(Requests), NEW a, NEW b,
           Stale(w, q, ErasedAt, a, b)
    PROVE  a = 0 /\ b = 0
<1>1. /\ a \in 0..Len(w) /\ b \in 0..Len(q) /\ (a > 0 => w[a].code # "pending")
      /\ ((a = 0 /\ b = 0) \/ Finals(w, a) + b + ErasedAt <= ErasedAt)
  BY DEF Stale
<1>2. a \in Nat /\ b \in Nat /\ ErasedAt \in Nat
  BY <1>1, PlacesAre
<1>3. Finals(w, a) \in Nat /\ (a > 0 => Finals(w, a) >= 1)
  BY <1>1, <1>2, FinalsAre, FinalsUpTo
<1> QED
  BY <1>1, <1>2, <1>3

\* A request goes out.
LEMMA SendKeepsFlow ==
    ASSUME Flow, Aside, SendRequest
    PROVE  Flow'
<1>1. FlowTyped /\ EcuOK /\ Leftover /\ Lagging /\ Erasing /\ InStep /\ Succeeded
  BY DEF Flow
<1>2. /\ phase = "send" /\ phase' = "wait" /\ inbox' = Append(inbox, Current)
      /\ at' = at /\ late' = late /\ cancelled' = cancelled /\ wire' = wire /\ ecu' = ecu
      /\ faults' = faults
  BY DEF SendRequest
<1>3. /\ stage' = stage /\ exit' = exit /\ prog' = prog /\ runs' = runs /\ stage = "work"
      /\ exit = "none"
  BY <1>1 DEF Aside, sessionVars, FlowTyped
<1>4. /\ at \in 1..PollAt /\ at \in Nat /\ Current \in Range(Chain) /\ Current \in Requests
  BY <1>1, PollIsLast
<1>5. /\ wire \in Seq(Replies) /\ inbox \in Seq(Range(Chain)) /\ inbox \in Seq(Requests)
      /\ Len(wire) \in Nat
  BY <1>1, InboxIs DEF FlowTyped
<1>6. /\ inbox' \in Seq(Requests) /\ Len(inbox') = Len(inbox) + 1 /\ Len(inbox) \in Nat
      /\ \A j \in 1..Len(inbox) : inbox'[j] = inbox[j]
      /\ inbox'[Len(inbox) + 1] = Current
      /\ \A j \in 1..(Len(inbox) + 1) : j \in 1..Len(inbox) \/ j = Len(inbox) + 1
  BY <1>2, <1>4, <1>5, AppendIs
<1>7. inbox' \in Seq(Range(Chain))
  BY <1>2, <1>4, <1>5, AppendIs
<1>8. FlowTyped'
  BY <1>1, <1>2, <1>3, <1>7 DEF FlowTyped, Flashes
<1>s. /\ at < ErasedAt => Early(Current.service)
      /\ at = ErasedAt => Current.service = Erase
      /\ at = PollAt => Current.service = Poll
  BY <1>4, ServiceAt DEF Current
<1>9. Leftover'
  <2> DEFINE x == ToCome
             y == ToCome'
             k == runs
             n == faults
  <2>1. y = x + 1 /\ x \in Nat
    <3> DEFINE F == Finals(wire, Len(wire))
    <3>1. F \in Nat
      BY <1>1, LeftoverIs
    <3>2. x = F + Len(inbox) /\ y = F + Len(inbox')
      BY <1>2 DEF ToCome
    <3> HIDE DEF F, x, y
    <3> QED
      BY <1>6, <3>1, <3>2
  <2>2. Own' = 1 /\ Own = 0
    BY <1>2 DEF Own
  <2>3. x <= (k - 1) + n + 0 /\ k \in Nat /\ n \in Nat
    BY <1>1, <2>2, LeftoverIs
  <2> HIDE DEF x, y, k, n
  <2>5. y <= (k - 1) + n + 1
    BY <2>1, <2>3
  <2>6. Leftover' <=> y <= (k - 1) + n + 1
    BY <1>2, <1>3, <2>2 DEF Leftover, ToCome, Own, x, y, k, n
  <2> QED
    BY <2>5, <2>6
<1>10. Lagging'
  <2>1. SUFFICES ASSUME at < ErasedAt
                 PROVE  \E a \in 0..Len(wire), b \in 0..Len(inbox') : Stale(wire, inbox', at, a, b)
    BY <1>2 DEF Lagging, BeforeErase
  <2>2. PICK a \in 0..Len(wire), b \in 0..Len(inbox) : Stale(wire, inbox, at, a, b)
    BY <1>1, <1>2, <2>1 DEF Lagging, BeforeErase, Running
  <2>3. b \in 0..Len(inbox') /\ b \in Nat
    BY <1>6
  <2>4. \A j \in (b + 1)..Len(inbox') : Early(inbox'[j].service)
    <3>1. ASSUME NEW j \in (b + 1)..Len(inbox')
          PROVE  (j \in (b + 1)..Len(inbox) /\ j \in 1..Len(inbox)) \/ j = Len(inbox) + 1
      BY <1>6, <2>3
    <3> QED
      BY <1>6, <1>s, <2>1, <2>2, <3>1 DEF Stale
  <2>5. Stale(wire, inbox', at, a, b)
    BY <2>2, <2>3, <2>4 DEF Stale
  <2> QED
    BY <2>3, <2>5
<1>11. Erasing'
  <2>1. CASE at = ErasedAt
    <3>1. PICK a \in 0..Len(wire), b \in 0..Len(inbox) : Stale(wire, inbox, at, a, b)
      BY <1>1, <1>2, <2>1 DEF Lagging, BeforeErase, Running
    <3>2. a = 0 /\ b = 0
      BY <1>5, <2>1, <3>1, NoneStale
    <3>3. /\ \A j \in 1..Len(wire) : Early(wire[j].service) /\ wire[j].code # "pending"
          /\ \A j \in 1..Len(inbox) : Early(inbox[j].service)
      <4>1. /\ \A j \in (0 + 1)..Len(wire) : Early(wire[j].service) /\ wire[j].code # "pending"
            /\ \A j \in (0 + 1)..Len(inbox) : Early(inbox[j].service)
        BY <3>1, <3>2 DEF Stale
      <4> QED
        BY <4>1
    <3>4. \A j \in 1..Len(inbox') : j < Len(inbox') => Early(inbox'[j].service)
      <4>1. ASSUME NEW j \in 1..Len(inbox'), j < Len(inbox') PROVE j \in 1..Len(inbox)
        BY <1>6, <4>1
      <4> QED
        BY <1>6, <3>3, <4>1
    <3>5. inbox'[Len(inbox')].service = Erase
      BY <1>6, <1>s, <2>1
    <3>6. \A j \in 1..Len(wire) : wire[j].service # Erase
      BY <3>3 DEF Early
    <3> QED
      BY <1>2, <3>3, <3>4, <3>5, <3>6 DEF Erasing
  <2>2. CASE at # ErasedAt
    BY <1>2, <2>2 DEF Erasing
  <2> QED
    BY <2>1, <2>2
<1>12. InStep'
  <2>1. SUFFICES ASSUME at > ErasedAt PROVE InStep'
    BY <1>2 DEF InStep
  <2>2. (at < VerifiedAt => ~ecu.valid) /\ (ecu.valid => ecu.app = "new")
    BY <1>1, <1>2, <2>1 DEF InStep, Running
  <2>3. CASE at < PollAt
    <3>1. inbox = <<>> /\ wire = <<>>
      BY <1>1, <1>2, <2>1, <2>3 DEF InStep, Running
    <3>2. inbox' = <<Chain[at]>> /\ wire' = <<>>
      BY <1>2, <3>1 DEF Current
    <3>3. ~(at = PollAt)
      BY <1>4, <2>3, PlacesAre
    <3>4. \A j \in 1..Len(wire') : FALSE
      BY <3>2
    <3> QED
      BY <1>2, <2>2, <3>2, <3>3, <3>4 DEF InStep
  <2>4. CASE at = PollAt
    <3>1. PollsOnly /\ \A j \in 1..Len(wire) : wire[j].code = "ok" => NewApp
      BY <1>1, <1>2, <2>1, <2>4 DEF InStep, Running
    <3>2. PollsOnly'
      BY <1>2, <1>6, <1>s, <2>4, <3>1 DEF PollsOnly
    <3>3. ~(at < PollAt)
      BY <1>4, <2>4, PlacesAre
    <3>4. NewApp' <=> NewApp
      BY <1>2 DEF NewApp
    <3> QED
      BY <1>2, <2>2, <3>1, <3>2, <3>3, <3>4 DEF InStep
  <2>5. at < PollAt \/ at = PollAt
    BY <1>4, PlacesAre
  <2> QED
    BY <2>3, <2>4, <2>5
<1>13. Succeeded'
  BY <1>2, <1>3 DEF Succeeded
<1>14. EcuOK'
  BY <1>1, <1>2 DEF EcuOK
<1> QED
  BY <1>8, <1>9, <1>10, <1>11, <1>12, <1>13, <1>14 DEF Flow

\* An answer is taken off the wire.
LEMMA TakeIs ==
    ASSUME FlowTyped, TakeAnswer
    PROVE  /\ wire # <<>> /\ wire' = Tail(wire) /\ phase = "wait" /\ inbox' = inbox /\ ecu' = ecu
           /\ faults' = faults
           /\ \/ UNCHANGED runVars
              \/ Failed /\ (at = PollAt \/ phase' = "failed")
              \/ Advanced /\ Head(wire).code = "ok" /\ Head(wire).service = Current.service
<1> DEFINE a == Head(wire)
<1>1. /\ wire # <<>> /\ wire' = Tail(wire) /\ phase = "wait" /\ inbox' = inbox /\ ecu' = ecu
      /\ faults' = faults
  BY DEF TakeAnswer
<1>2. \/ UNCHANGED runVars
      \/ Failed
      \/ Advanced /\ a.code = "ok" /\ Matches(a, Current)
  BY DEF TakeAnswer
<1>3. Failed => at = PollAt \/ phase' = "failed"
  BY PollIsLast DEF Failed, Retried
<1>4. Matches(a, Current) => a.service = Current.service
  <2>1. Matches(a, Current) => Prefix(a).service = Prefix(Current).service
    BY DEF Matches
  <2>2. Prefix(a).service = a.service /\ Prefix(Current).service = Current.service
    BY DEF Prefix
  <2> QED
    BY <2>1, <2>2
<1> QED
  BY <1>1, <1>2, <1>3, <1>4

\* The run goes on after an answer, at the same request or at the next.
GoesOn(n) ==
    /\ phase = "wait" /\ wire # <<>> /\ wire' = Tail(wire) /\ inbox' = inbox /\ ecu' = ecu
    /\ faults' = faults /\ at' = n /\ late' = late /\ cancelled' = cancelled
    /\ \/ n = at /\ phase' = "wait"
       \/ n = at /\ phase' = "send" /\ at = PollAt
       \/ /\ n = at /\ phase' = "done" /\ at = PollAt /\ wire[1].code = "ok"
       \/ /\ n = at + 1 /\ phase' = "send" /\ at < PollAt /\ wire[1].code = "ok"
          /\ wire[1].service = Current.service

\* TakeAnswer is one of these, or the run fails.
LEMMA TakeGoesOn ==
    ASSUME FlowTyped, TakeAnswer
    PROVE  \/ GoesOn(at) \/ GoesOn(at + 1)
           \/ /\ phase' = "failed" /\ UNCHANGED <<at, late, cancelled, inbox, ecu>>
              /\ wire # <<>> /\ wire' = Tail(wire) /\ faults' = faults /\ phase = "wait"
<1>1. /\ wire # <<>> /\ wire' = Tail(wire) /\ phase = "wait" /\ inbox' = inbox /\ ecu' = ecu
      /\ faults' = faults
      /\ \/ UNCHANGED runVars
         \/ Failed /\ (at = PollAt \/ phase' = "failed")
         \/ Advanced /\ Head(wire).code = "ok" /\ Head(wire).service = Current.service
  BY TakeIs
<1>2. Head(wire) = wire[1]
  BY <1>1, TailIs DEF FlowTyped
<1>3. at \in 1..PollAt /\ at \in Nat /\ Len(Chain) = PollAt /\ PollAt \in Nat
  BY PollIsLast, PlacesAre
<1>4. CASE UNCHANGED runVars
  BY <1>1, <1>4 DEF GoesOn, runVars
<1>5. CASE Failed /\ (at = PollAt \/ phase' = "failed")
  <2>1. (phase' = "send" \/ phase' = "failed") /\ UNCHANGED <<at, late, cancelled>>
    BY <1>5 DEF Failed
  <2> QED
    BY <1>1, <1>5, <2>1 DEF GoesOn
<1>6. CASE Advanced /\ Head(wire).code = "ok" /\ Head(wire).service = Current.service
  <2>1. CASE at = PollAt
    <3>1. phase' = "done" /\ at' = at /\ UNCHANGED <<late, cancelled>>
      BY <1>3, <1>6, <2>1 DEF Advanced
    <3> QED
      BY <1>1, <1>2, <1>6, <2>1, <3>1 DEF GoesOn
  <2>2. CASE at # PollAt
    <3>1. phase' = "send" /\ at' = at + 1 /\ UNCHANGED <<late, cancelled>>
      BY <1>3, <1>6, <2>2 DEF Advanced
    <3>2. at < PollAt
      BY <1>3, <2>2
    <3> QED
      BY <1>1, <1>2, <1>6, <3>1, <3>2 DEF GoesOn
  <2> QED
    BY <2>1, <2>2
<1> QED
  BY <1>1, <1>4, <1>5, <1>6

\* The run has its answer, or waits on.
LEMMA GoesOnKeepsFlow ==
    ASSUME Flow, Aside, NEW n, GoesOn(n)
    PROVE  Flow'
<1>1. FlowTyped /\ EcuOK /\ Leftover /\ Lagging /\ Erasing /\ InStep /\ Succeeded
  BY DEF Flow
<1>2. /\ phase = "wait" /\ wire # <<>> /\ wire' = Tail(wire) /\ inbox' = inbox /\ ecu' = ecu
      /\ faults' = faults /\ at' = n /\ late' = late /\ cancelled' = cancelled
  BY DEF GoesOn
<1>3. /\ stage' = stage /\ exit' = exit /\ prog' = prog /\ runs' = runs /\ stage = "work"
      /\ exit = "none"
  BY <1>1 DEF Aside, sessionVars, FlowTyped
<1>4. /\ at \in 1..PollAt /\ at \in Nat /\ PollAt \in Nat /\ VerifiedAt \in Nat /\ ErasedAt \in Nat
      /\ ErasedAt + 1 < VerifiedAt /\ VerifiedAt + 1 < PollAt
  BY <1>1, PollIsLast, PlacesAre
<1>5. /\ wire \in Seq(Replies) /\ inbox \in Seq(Requests) /\ wire[Len(wire)].code # "pending"
  BY <1>1, <1>2, InboxIs DEF FlowTyped
<1>6. /\ wire' \in Seq(Replies) /\ Len(wire) \in Nat /\ Len(wire) >= 1
      /\ Len(wire') = Len(wire) - 1
      /\ \A j \in 1..(Len(wire) - 1) : wire'[j] = wire[j + 1] /\ j + 1 \in 1..Len(wire)
  BY <1>2, <1>5, TailIs
<1>7. \/ n = at /\ phase' = "wait"
      \/ n = at /\ phase' = "send" /\ at = PollAt
      \/ n = at /\ phase' = "done" /\ at = PollAt /\ wire[1].code = "ok"
      \/ n = at + 1 /\ phase' = "send" /\ at < PollAt /\ wire[1].code = "ok"
         /\ wire[1].service = Current.service
  BY DEF GoesOn
<1>n. n \in 1..PollAt /\ n \in Nat
  BY <1>4, <1>7
<1>t. \A j \in 1..Len(wire') : wire'[j] = wire[j + 1] /\ j + 1 \in 1..Len(wire)
  BY <1>6
<1>o. 1 \in 1..Len(wire)
  BY <1>6
<1>8. FlowTyped'
  <2>1. wire' # <<>> => wire'[Len(wire')].code # "pending"
    BY <1>2, <1>5, TailCounts
  <2>2. phase' \in {"wait", "send", "done"}
    BY <1>7
  <2> QED
    BY <1>1, <1>2, <1>3, <1>6, <1>n, <2>1, <2>2 DEF FlowTyped, Flashes
<1>p. at = PollAt => /\ PollsOnly /\ \A j \in 1..Len(wire) : wire[j].code = "ok" => NewApp
  BY <1>1, <1>2, <1>4 DEF InStep, Running
<1>9. Leftover'
  <2> DEFINE F == Finals(wire, Len(wire))
             G == Finals(wire', Len(wire'))
             L == Len(inbox)
             k == runs
             m == faults
  <2>1. /\ F \in Nat /\ G \in Nat /\ L \in Nat /\ k \in Nat /\ m \in Nat
        /\ G = IF wire[1].code # "pending" THEN F - 1 ELSE F
    BY <1>1, <1>2, <1>5, TailCounts, LeftoverIs
  <2>2. Own = 1
    BY <1>2 DEF Own
  <2>3. F + L <= (k - 1) + m + 1
    BY <1>1, <2>2, LeftoverIs DEF ToCome
  <2>4. phase' = "send" => wire[1].code # "pending"
    BY <1>7, <1>p, <1>o DEF PollsOnly
  <2>5. Own' \in {0, 1} /\ (phase' # "send" => Own' = 1)
    BY <1>7 DEF Own
  <2> DEFINE o == Own'
  <2> HIDE DEF F, G, L, k, m, o
  <2>6. o \in {0, 1} /\ (o = 0 => G = F - 1) /\ (G = F \/ G = F - 1)
    BY <2>1, <2>4, <2>5 DEF o
  <2>7. G + L <= (k - 1) + m + o
    BY <2>1, <2>3, <2>6
  <2>8. Leftover' <=> G + L <= (k - 1) + m + o
    BY <1>2, <1>3 DEF Leftover, Own, G, L, k, m, o
  <2> QED
    BY <2>7, <2>8
<1>10. Lagging'
  <2>1. SUFFICES ASSUME phase' \in {"send", "wait"}, n < ErasedAt \/ (n = ErasedAt /\ phase' = "send")
                 PROVE  \E a \in 0..Len(wire'), b \in 0..Len(inbox') : Stale(wire', inbox', n, a, b)
    BY <1>2 DEF Lagging, BeforeErase, Running
  <2>2. at < ErasedAt /\ (n = at \/ (n = at + 1 /\ wire[1].code # "pending"))
    BY <1>4, <1>7, <2>1
  <2>3. PICK a \in 0..Len(wire), b \in 0..Len(inbox) : Stale(wire, inbox, at, a, b)
    BY <1>1, <1>2, <2>2 DEF Lagging, BeforeErase, Running
  <2>4. \E c \in 0..Len(Tail(wire)) : Stale(Tail(wire), inbox, n, c, b)
    BY <1>2, <1>4, <1>5, <1>n, <2>2, <2>3, StaleTail
  <2> QED
    BY <1>2, <2>3, <2>4
<1>11. Erasing'
  <2>1. SUFFICES ASSUME phase' = "wait", n = at, at = ErasedAt PROVE Erasing'
    BY <1>2, <1>7 DEF Erasing
  <2>2. /\ \A j \in 1..Len(inbox) : j < Len(inbox) => Early(inbox[j].service)
        /\ inbox # <<>> =>
              /\ inbox[Len(inbox)].service = Erase
              /\ \A j \in 1..Len(wire) : Early(wire[j].service) /\ wire[j].code # "pending"
        /\ \A j \in 1..Len(wire) : wire[j].service = Erase /\ wire[j].code = "ok" =>
              j = Len(wire) /\ inbox = <<>> /\ ~ecu.valid
    BY <1>1, <1>2, <2>1 DEF Erasing
  <2>3. \A j \in 1..Len(wire') : j + 1 = Len(wire) => j = Len(wire')
    BY <1>6
  <2> QED
    BY <1>2, <1>t, <2>1, <2>2, <2>3 DEF Erasing
<1>12. InStep'
  <2>1. SUFFICES ASSUME phase' \in {"send", "wait"}, n > ErasedAt PROVE InStep'
    BY <1>2 DEF InStep, Running
  <2>2. CASE at = PollAt
    <3>1. PollsOnly'
      BY <1>2, <1>p, <1>t, <2>2 DEF PollsOnly
    <3>2. \A j \in 1..Len(wire') : wire'[j].code = "ok" => NewApp
      BY <1>p, <1>t, <2>2
    <3>3. NewApp' <=> NewApp
      BY <1>2 DEF NewApp
    <3>4. n = at /\ at > ErasedAt /\ ~(n < PollAt) /\ ~(n < VerifiedAt)
      BY <1>4, <1>7, <2>2
    <3>5. ecu.valid => ecu.app = "new"
      BY <1>1, <1>2, <3>4 DEF InStep, Running
    <3> QED
      BY <1>2, <3>1, <3>2, <3>3, <3>4, <3>5 DEF InStep
  <2>3. CASE at < PollAt /\ at > ErasedAt
    <3>1. /\ inbox = <<>> \/ (inbox = <<Chain[at]>> /\ wire = <<>>)
          /\ \A j \in 1..Len(wire) : wire[j].code # "pending" => j = Len(wire)
          /\ (at < VerifiedAt => ~ecu.valid) /\ (ecu.valid => ecu.app = "new")
      BY <1>1, <1>2, <2>3 DEF InStep, Running
    <3>2. inbox' = <<>>
      BY <1>2, <3>1
    <3>3. \A j \in 1..Len(wire') : wire'[j].code # "pending" => j = Len(wire')
      <4>1. \A j \in 1..Len(wire') : j + 1 = Len(wire) => j = Len(wire')
        BY <1>6
      <4> QED
        BY <1>t, <3>1, <4>1
    <3>4. n < VerifiedAt => at < VerifiedAt
      BY <1>4, <1>7
    <3>5. CASE n = at /\ phase' = "wait"
      <4>1. ~(n = PollAt) /\ n < PollAt
        BY <1>4, <2>3, <3>5
      <4> QED
        BY <1>2, <3>1, <3>2, <3>3, <3>4, <3>5, <4>1 DEF InStep
    <3>6. CASE n = at + 1 /\ phase' = "send" /\ wire[1].code = "ok"
      <4>1. Len(wire) = 1
        BY <1>o, <3>1, <3>6
      <4>2. wire' = <<>>
        <5>1. Len(wire') = 0
          BY <1>6, <4>1
        <5> QED
          BY <1>6, <5>1, EmptySeq
      <4>3. PollsOnly' /\ \A j \in 1..Len(wire') : FALSE
        <5>1. (\A j \in 1..Len(wire') : FALSE) /\ (\A j \in 1..Len(inbox') : FALSE)
          BY <3>2, <4>2
        <5> QED
          BY <5>1 DEF PollsOnly
      <4> QED
        BY <1>2, <3>1, <3>2, <3>4, <3>6, <4>2, <4>3 DEF InStep
    <3>7. at # PollAt
      BY <1>4, <2>3
    <3> QED
      BY <1>7, <3>5, <3>6, <3>7
  <2>4. CASE at = ErasedAt
    <3>1. n = at + 1 /\ phase' = "send" /\ wire[1].code = "ok" /\ wire[1].service = Current.service
      BY <1>4, <1>7, <2>1, <2>4
    <3>2. Current.service = Erase
      BY <1>4, <2>4, ServiceAt DEF Current
    <3>3. 1 = Len(wire) /\ inbox = <<>> /\ ~ecu.valid
      BY <1>1, <1>2, <1>o, <2>4, <3>1, <3>2 DEF Erasing
    <3>4. wire' = <<>>
      <4>0. Len(wire) = 1
        BY <3>3
      <4>1. Len(wire') = 0
        BY <1>6, <4>0
      <4> QED
        BY <1>6, <4>1, EmptySeq
    <3>5. n < PollAt /\ ~(n = PollAt)
      BY <1>4, <2>4, <3>1
    <3> QED
      BY <1>2, <3>1, <3>3, <3>4, <3>5 DEF InStep
  <2>5. at = PollAt \/ (at < PollAt /\ at > ErasedAt) \/ at = ErasedAt
    BY <1>4, <1>7, <2>1
  <2> QED
    BY <2>2, <2>3, <2>4, <2>5
<1>13. Succeeded'
  <2>1. SUFFICES ASSUME phase' = "done" PROVE PollsOnly' /\ NewApp'
    BY <1>3 DEF Succeeded
  <2>2. at = PollAt /\ wire[1].code = "ok"
    BY <1>7, <2>1
  <2>3. PollsOnly'
    BY <1>2, <1>p, <1>t, <2>2 DEF PollsOnly
  <2>4. NewApp
    BY <1>o, <1>p, <2>2
  <2> QED
    BY <1>2, <2>3, <2>4 DEF NewApp
<1>14. EcuOK'
  BY <1>1, <1>2 DEF EcuOK
<1> QED
  BY <1>8, <1>9, <1>10, <1>11, <1>12, <1>13, <1>14 DEF Flow

\* What goes on beside the run leaves its pipe as it is.
LEMMA AsideKeepsFlow ==
    ASSUME Flow, Aside, Running, UNCHANGED <<at, inbox, wire, ecu>>,
           late' \in BOOLEAN, cancelled' \in BOOLEAN,
           \/ phase' = phase /\ (Fault \/ faults' = faults)
           \/ /\ phase = "wait" /\ phase' = "send" /\ at = PollAt
              /\ IF Underway THEN Fault ELSE faults' = faults
    PROVE  Flow'
<1>1. FlowTyped /\ EcuOK /\ Leftover /\ Lagging /\ Erasing /\ InStep /\ Succeeded
  BY DEF Flow
<1>2. /\ stage' = stage /\ exit' = exit /\ prog' = prog /\ runs' = runs /\ stage = "work"
      /\ exit = "none" /\ at' = at /\ inbox' = inbox /\ wire' = wire /\ ecu' = ecu
  BY <1>1 DEF Aside, sessionVars, FlowTyped
<1>3. faults' \in 0..MaxFaults /\ faults \in Nat /\ faults' >= faults
  BY <1>1, FaultIs
<1>4. phase' \in {"send", "wait"} /\ (phase' = phase \/ (phase' = "send" /\ at = PollAt))
  BY DEF Running
<1>5. FlowTyped'
  BY <1>1, <1>2, <1>3, <1>4 DEF FlowTyped, Flashes, Running
<1>6. Leftover'
  <2> DEFINE x == ToCome
             k == runs
             n == faults
             p == faults'
             i == Own
             o == Own'
  <2>1. x <= (k - 1) + n + i /\ x \in Nat /\ i \in {0, 1} /\ k \in Nat /\ k >= 1 /\ n \in Nat
    BY <1>1, LeftoverIs
  <2>2. o \in {0, 1} /\ p \in Nat /\ p >= n
    BY <1>3 DEF Own
  <2>3. CASE phase' = phase
    <3>1. o = i
      BY <1>2, <2>3 DEF Own
    <3>2. Leftover' <=> x <= (k - 1) + p + o
      BY <1>2 DEF Leftover, ToCome, Own, x, k, p, o
    <3> HIDE DEF x, k, n, p, i, o
    <3>3. x <= (k - 1) + p + o
      BY <2>1, <2>2, <3>1
    <3> QED
      BY <3>2, <3>3
  <2>4. CASE phase' # phase
    <3>1. IF Underway THEN Fault ELSE faults' = faults
      BY <2>4
    <3>2. Leftover' <=> x <= (k - 1) + p + o
      BY <1>2 DEF Leftover, ToCome, Own, x, k, p, o
    <3>3. x <= (k - 1) + p + o
      <4>1. CASE Underway
        <5>1. p = n + 1
          BY <3>1, <4>1 DEF Fault
        <5> HIDE DEF x, k, n, p, i, o
        <5> QED
          BY <2>1, <2>2, <5>1
      <4>2. CASE ~Underway
        <5>1. inbox = <<>> /\ wire = <<>>
          BY <4>2 DEF Underway
        <5>2. x = 0
          <6>1. Len(inbox) = 0 /\ Len(wire) = 0
            BY <5>1
          <6>2. Finals(wire, 0) = 0
            <7>1. 0 \in Nat
              OBVIOUS
            <7> QED
              BY <7>1, FinalsAre
          <6> QED
            BY <6>1, <6>2 DEF ToCome
        <5> HIDE DEF x, k, n, p, i, o
        <5> QED
          BY <2>1, <2>2, <5>2
      <4> QED
        BY <4>1, <4>2
    <3> QED
      BY <3>2, <3>3
  <2> QED
    BY <2>3, <2>4
<1>a. at \in Nat /\ PollAt \in Nat /\ ErasedAt \in Nat /\ ErasedAt < PollAt
  <2>1. at \in Nat
    BY <1>1, PollIsLast
  <2> QED
    BY <2>1, PlacesAre
<1>7. Lagging'
  <2>1. CASE phase' = phase
    BY <1>1, <1>2, <2>1 DEF Lagging, BeforeErase, Running
  <2>2. CASE at = PollAt
    <3>1. ~(at < ErasedAt) /\ at # ErasedAt
      BY <1>a, <2>2
    <3> QED
      BY <1>2, <3>1 DEF Lagging, BeforeErase
  <2> QED
    BY <1>4, <2>1, <2>2
<1>8. Erasing'
  BY <1>1, <1>2, <1>4 DEF Erasing
<1>9. InStep'
  <2>1. CASE phase' = phase
    BY <1>1, <1>2, <2>1 DEF InStep, Running, PollsOnly, NewApp
  <2>2. CASE phase' = "send" /\ at = PollAt
    <3>1. /\ at > ErasedAt /\ ~(at < PollAt)
      BY <1>a, <2>2
    <3>2. /\ PollsOnly /\ (\A j \in 1..Len(wire) : wire[j].code = "ok" => NewApp)
          /\ (at < VerifiedAt => ~ecu.valid) /\ (ecu.valid => ecu.app = "new")
      BY <1>1, <2>2, <3>1 DEF InStep
    <3>3. PollsOnly' /\ (NewApp' <=> NewApp)
      BY <1>2, <3>2 DEF PollsOnly, NewApp
    <3> QED
      BY <1>2, <2>2, <3>1, <3>2, <3>3 DEF InStep
  <2> QED
    BY <1>4, <2>1, <2>2
<1>10. Succeeded'
  BY <1>2, <1>4 DEF Succeeded
<1>11. EcuOK'
  BY <1>1, <1>2 DEF EcuOK
<1> QED
  BY <1>5, <1>6, <1>7, <1>8, <1>9, <1>10, <1>11 DEF Flow

\* Every step of run().
LEMMA RunKeepsFlow ==
    ASSUME Flow, Aside, RunStep \/ Cancel
    PROVE  Flow'
<1>1. FlowTyped
  BY DEF Flow
<1>t. late \in BOOLEAN /\ cancelled \in BOOLEAN
  BY <1>1 DEF FlowTyped
<1>2. CASE CheckCancel
  BY <1>2, RunEndsBadly DEF CheckCancel, Running
<1>3. CASE SendRequest
  BY <1>3, SendKeepsFlow
<1>4. CASE TakeAnswer
  <2>1. CASE GoesOn(at) \/ GoesOn(at + 1)
    BY <2>1, GoesOnKeepsFlow
  <2>2. CASE /\ phase' = "failed" /\ UNCHANGED <<at, late, cancelled, inbox, ecu>>
             /\ wire # <<>> /\ wire' = Tail(wire) /\ faults' = faults /\ phase = "wait"
    BY <2>2, RunEndsBadly DEF Running
  <2> QED
    BY <1>1, <1>4, <2>1, <2>2, TakeGoesOn
<1>5. CASE Timeout
  <2>1. /\ phase = "wait" /\ (IF Underway THEN Fault ELSE faults' = faults)
        /\ UNCHANGED <<at, late, cancelled, inbox, wire, ecu>>
        /\ phase' = IF Retried THEN "send" ELSE "failed"
    BY <1>5 DEF Timeout, Failed
  <2>2. Retried => at = PollAt
    BY <1>1, PollIsLast DEF Retried
  <2>3. CASE Retried
    BY <1>t, <2>1, <2>2, <2>3, AsideKeepsFlow DEF Running
  <2>4. CASE ~Retried
    BY <2>1, <2>4, RunEndsBadly DEF Running
  <2> QED
    BY <2>3, <2>4
<1>6. CASE DeadlinePasses
  <2>1. /\ phase \in {"send", "wait"} /\ (Fault \/ faults' = faults) /\ late' = TRUE
        /\ UNCHANGED <<phase, at, cancelled, inbox, wire, ecu>>
    BY <1>6 DEF DeadlinePasses
  <2> QED
    BY <1>t, <2>1, AsideKeepsFlow DEF Running
<1>7. CASE Cancel
  <2>1. /\ phase \in {"send", "wait"} /\ cancelled' = TRUE
        /\ UNCHANGED <<phase, at, late, inbox, wire, ecu, faults>>
    BY <1>7 DEF Cancel
  <2> QED
    BY <1>t, <2>1, AsideKeepsFlow DEF Running
<1> QED
  BY <1>2, <1>3, <1>4, <1>5, <1>6, <1>7 DEF RunStep

-------------------------------------------------------------------------------
(* The programs about a run.                                               *)

\* The calls before and after the work: what has ended begins no more, and
\* only a scan is a success of its own.
LEMMA SessionIs ==
    ASSUME SessionStep
    PROVE  /\ prog' = prog /\ stage \in {"load", "open", "close"}
           /\ stage' \in {"load", "open", "work"} => exit' = exit /\ stage \in {"load", "open"}
           /\ exit' = "ok" => exit = "ok" \/ OnlyScans
<1>1. CASE LoadStep
  BY <1>1 DEF LoadStep, NotLoaded, DryRun, NotConfirmed, Loaded, End
<1>2. CASE OpenCall
  BY <1>2 DEF OpenCall
<1>3. CASE SelectedIsGone
  BY <1>3 DEF SelectedIsGone, End
<1>4. CASE ChannelNotCovered
  BY <1>4 DEF ChannelNotCovered, AfterFailure, End
<1>5. CASE OpenCallFails
  BY <1>5 DEF OpenCallFails, AfterFailure, End
<1>6. CASE OpenReturns
  BY <1>6 DEF OpenReturns, AfterOpen, End
<1>7. CASE Close
  BY <1>7 DEF Close
<1>8. CASE UsbStep
  BY <1>8 DEF UsbStep, UsbDoesNotOpen, UsbOpensDevice, UsbPasses, UsbFails, UsbTakes,
              UsbListEnds, UsbClose, UsbNext, LooksAt, End
<1> QED
  BY <1>1, <1>2, <1>3, <1>4, <1>5, <1>6, <1>7, <1>8 DEF SessionStep

\* A step outside a run leaves the ECU and the requests as they are, keeps or
\* clears what is on the wire, and only the program's start takes back what
\* it had to come itself.
LEMMA OutsideKeepsFlow ==
    ASSUME Flow, phase' = "off", UNCHANGED <<prog, at, late, cancelled, inbox, ecu, faults>>,
           wire' = wire \/ wire' = <<>>,
           (runs' = runs /\ Own' >= Own) \/ (runs' = runs + 1 /\ runs < MaxRuns),
           stage' \in {"load", "open", "work"} => exit' = "none",
           exit' = "ok" /\ Flashes => exit = "ok" \/ phase = "done"
    PROVE  Flow'
<1>1. FlowTyped /\ EcuOK /\ Leftover /\ Succeeded
  BY DEF Flow
<1>2. /\ wire' \in Seq(Replies) /\ (wire' # <<>> => wire'[Len(wire')].code # "pending")
      /\ Finals(wire', Len(wire')) \in Nat
      /\ Finals(wire', Len(wire')) <= Finals(wire, Len(wire))
  <2>1. wire \in Seq(Replies) /\ (wire # <<>> => wire[Len(wire)].code # "pending")
    BY <1>1 DEF FlowTyped
  <2>2. Finals(wire, Len(wire)) \in Nat
    BY <1>1, LeftoverIs
  <2>3. CASE wire' = wire
    BY <2>1, <2>2, <2>3
  <2>4. CASE wire' = <<>>
    <3>1. Len(wire') = 0 /\ wire' \in Seq(Replies)
      BY <2>4
    <3>2. Finals(wire', 0) = 0
      <4>1. 0 \in Nat
        OBVIOUS
      <4> QED
        BY <4>1, FinalsAre
    <3> QED
      BY <2>2, <2>4, <3>1, <3>2
  <2> QED
    BY <2>3, <2>4
<1>3. runs' \in 1..MaxRuns
  <2>1. runs \in 1..MaxRuns /\ (runs' = runs \/ (runs' = runs + 1 /\ runs < MaxRuns))
    BY <1>1 DEF FlowTyped
  <2> QED
    BY <2>1, RunsAssumption
<1>4. FlowTyped'
  BY <1>1, <1>2, <1>3 DEF FlowTyped, Flashes
<1>5. Leftover'
  <2> DEFINE F == Finals(wire, Len(wire))
             G == Finals(wire', Len(wire'))
             L == Len(inbox)
             k == runs
             l == runs'
             m == faults
             i == Own
             o == Own'
  <2>1. F + L <= (k - 1) + m + i
    BY <1>1, LeftoverIs DEF ToCome
  <2>2. F \in Nat /\ L \in Nat /\ i \in {0, 1} /\ k \in Nat /\ m \in Nat
    BY <1>1, LeftoverIs
  <2>3. G \in Nat /\ G <= F /\ o \in {0, 1}
    BY <1>2 DEF Own
  <2>4. (l = k /\ o >= i) \/ l = k + 1
    OBVIOUS
  <2>5. Leftover' <=> G + L <= (l - 1) + m + o
    BY DEF Leftover, Own, G, L, l, m, o
  <2> HIDE DEF F, G, L, k, l, m, i, o
  <2>6. G + L <= (l - 1) + m + o
    BY <2>1, <2>2, <2>3, <2>4
  <2> QED
    BY <2>5, <2>6
<1>6. Lagging' /\ Erasing' /\ InStep'
  BY DEF Lagging, Erasing, InStep, Running
<1>7. Succeeded'
  <2>1. SUFFICES ASSUME exit' = "ok", Flashes PROVE PollsOnly' /\ NewApp'
    BY DEF Succeeded, Flashes
  <2>2. PollsOnly /\ NewApp
    BY <1>1, <2>1 DEF Succeeded
  <2>3. \A j \in 1..Len(wire') : wire'[j].service = Poll /\ wire'[j].code # "pending"
    <3>1. CASE wire' = wire
      BY <2>2, <3>1 DEF PollsOnly
    <3>2. CASE wire' = <<>>
      <4>1. Len(wire') = 0
        BY <3>2
      <4> QED
        BY <4>1
    <3> QED
      BY <3>1, <3>2
  <2> QED
    BY <2>2, <2>3 DEF PollsOnly, NewApp
<1>8. EcuOK'
  BY <1>1 DEF EcuOK
<1> QED
  BY <1>4, <1>5, <1>6, <1>7, <1>8 DEF Flow

\* What is left to come at the start of a run runs out before its erase.
LEMMA StartKeepsFlow ==
    ASSUME MaxRuns + MaxFaults <= Blocks["driver"] + 12,
           Flow, prog # "fake", StartFlash
    PROVE  Flow'
<1>1. FlowTyped /\ EcuOK /\ Leftover
  BY DEF Flow
<1>2. /\ stage = "work" /\ Flashes /\ phase = "off" /\ phase' = "send" /\ at' = 1
      /\ late' = FALSE /\ cancelled' = FALSE /\ wire' = wire
      /\ UNCHANGED <<sessionVars, runs, inbox, ecu, faults>>
  BY DEF StartFlash, Begin
<1>3. stage' = stage /\ exit' = exit /\ prog' = prog /\ exit = "none"
  BY <1>1, <1>2 DEF sessionVars, FlowTyped
<1>4. /\ wire \in Seq(Replies) /\ inbox \in Seq(Requests) /\ Len(wire) \in Nat
      /\ wire # <<>> => wire[Len(wire)].code # "pending"
  BY <1>1, InboxIs DEF FlowTyped
<1>5. FlowTyped'
  <2>1. 1 \in 1..PollAt
    BY PlacesAre
  <2> QED
    BY <1>1, <1>2, <1>3, <2>1 DEF FlowTyped, Flashes
<1>6. Leftover'
  BY <1>1, <1>2, <1>3 DEF Leftover
<1>7. Stale(wire, inbox, 1, Len(wire), Len(inbox))
  <2> DEFINE F == Finals(wire, Len(wire))
             L == Len(inbox)
             k == runs
             m == faults
             E == ErasedAt
  <2>1. F \in Nat /\ L \in Nat /\ k \in Nat /\ m \in Nat
    BY <1>1, LeftoverIs
  <2>2. Own = 0
    BY <1>2 DEF Own
  <2>3. F + L <= (k - 1) + m + 0
    BY <1>1, <2>2, LeftoverIs DEF ToCome
  <2>4. k <= MaxRuns /\ m <= MaxFaults /\ MaxFaults \in Nat
    BY <1>1, WorkflowAssumption, RunsAssumption DEF FlowTyped
  <2>5. E = Blocks["driver"] + 12 /\ E \in Nat
    BY PlacesAre DEF ErasedAt
  <2>6. MaxRuns + MaxFaults <= E
    BY <2>5
  <2> HIDE DEF F, L, k, m, E
  <2>7. F + L + 1 <= E
    BY <2>1, <2>3, <2>4, <2>5, <2>6, RunsAssumption
  <2>8. Finals(wire, Len(wire)) + Len(inbox) + 1 <= ErasedAt
    BY <2>7 DEF F, L, E
  <2>9. /\ Len(wire) \in 0..Len(wire) /\ Len(inbox) \in 0..Len(inbox)
        /\ (\A j \in (Len(wire) + 1)..Len(wire) : FALSE)
        /\ (\A j \in (Len(inbox) + 1)..Len(inbox) : FALSE)
        /\ (Len(wire) > 0 => wire # <<>>)
    <3>1. Len(inbox) \in Nat
      BY <1>4
    <3> QED
      BY <1>4, <3>1
  <2> QED
    BY <1>4, <2>8, <2>9 DEF Stale
<1>8. Lagging'
  <2>1. Len(wire) \in 0..Len(wire) /\ Len(inbox) \in 0..Len(inbox)
    BY <1>7 DEF Stale
  <2> QED
    BY <1>2, <1>7, <2>1 DEF Lagging
<1>9. Erasing'
  BY <1>2 DEF Erasing
<1>10. InStep'
  <2>1. ~(1 > ErasedAt)
    BY PlacesAre
  <2> QED
    BY <1>2, <2>1 DEF InStep
<1>11. Succeeded'
  BY <1>2, <1>3 DEF Succeeded
<1>12. EcuOK'
  BY <1>1, <1>2 DEF EcuOK
<1> QED
  BY <1>5, <1>6, <1>8, <1>9, <1>10, <1>11, <1>12 DEF Flow

\* No run begins before its program has the device, or ends without one.
LEMMA FlowStarts == Init => FlowInv
<1> SUFFICES ASSUME Init PROVE Flow
  BY DEF FlowInv
<1>1. /\ phase = "off" /\ at = 1 /\ late = FALSE /\ cancelled = FALSE /\ inbox = <<>>
      /\ wire = <<>> /\ faults = 0 /\ runs = 1 /\ stage = "load" /\ exit = "none"
  BY DEF Init, FlowInit, SessionInit
<1>2. FlowTyped
  <2>1. 1 \in 1..PollAt /\ 1 \in 1..MaxRuns /\ 0 \in 0..MaxFaults
    BY PlacesAre, WorkflowAssumption, RunsAssumption
  <2>2. <<>> \in Seq(Range(Chain)) /\ <<>> \in Seq(Replies)
    OBVIOUS
  <2> QED
    BY <1>1, <2>1, <2>2 DEF FlowTyped
<1>3. EcuOK
  <2>1. ecu \in [mode : {"app", "boot"}, stage : {0}, load : {NoDownload},
                 driver : {FALSE}, app : {"old"}, valid : {TRUE}, starts : {TRUE},
                 alive : {FALSE}]
    BY DEF Init, FlowInit
  <2> DEFINE z == NoDownload
  <2>2. ecu \in [mode : {"app", "boot"}, stage : {0}, load : {z}, driver : {FALSE},
                 app : {"old"}, valid : {TRUE}, starts : {TRUE}, alive : {FALSE}]
    BY <2>1
  <2> HIDE DEF z
  <2>3. /\ ecu.mode \in {"app", "boot"} /\ ecu.stage = 0 /\ ecu.valid = TRUE /\ ecu.alive = FALSE
        /\ DOMAIN ecu = {"mode", "stage", "load", "driver", "app", "valid", "starts", "alive"}
    BY <2>2
  <2>4. 0 \in 0..4 /\ ~(0 >= 2)
    OBVIOUS
  <2> QED
    BY <2>3, <2>4 DEF EcuOK, EcuFits
<1>4. Leftover
  <2>1. Len(wire) = 0 /\ Len(inbox) = 0
    BY <1>1
  <2>2. Finals(wire, 0) = 0
    <3>1. 0 \in Nat
      OBVIOUS
    <3> QED
      BY <3>1, FinalsAre
  <2> QED
    BY <1>1, <2>1, <2>2 DEF Leftover
<1>5. Lagging /\ Erasing /\ InStep /\ Succeeded
  BY <1>1 DEF Lagging, Erasing, InStep, Succeeded, Running
<1> QED
  BY <1>2, <1>3, <1>4, <1>5 DEF Flow

\* Every step of a program, of its ECU and of its bus.
LEMMA FlowStep ==
    ASSUME MaxRuns + MaxFaults <= Blocks["driver"] + 12,
           FlowInv, [Next]_vars
    PROVE  FlowInv'
<1>p. prog' = prog
  <2>1. CASE Session
    BY <2>1, SessionIs DEF Session
  <2>2. CASE ~Session
    BY <2>2 DEF Next, vars, sessionVars, StartFlash, FlashNotStarted, Run, CancelClicked, InWork,
                FlashReturns, OtherWork, RunAgain, Ecu
  <2> QED
    BY <2>1, <2>2
<1> SUFFICES ASSUME prog # "fake" PROVE Flow'
  BY <1>p DEF FlowInv
<1>0. Flow
  BY DEF FlowInv
<1>t. /\ phase \in {"off", "send", "wait", "done", "failed", "cancelled"}
      /\ phase # "off" => stage = "work" /\ Flashes
      /\ stage \in {"load", "open", "work"} => exit = "none"
      /\ runs \in 1..MaxRuns
  BY <1>0 DEF Flow, FlowTyped
<1>1. CASE UNCHANGED vars
  <2>1. /\ UNCHANGED <<prog, stage, exit, phase, at, late, cancelled, inbox, wire, ecu>>
        /\ UNCHANGED <<faults, runs>>
    BY <1>1 DEF vars, sessionVars, flowVars, runVars
  <2> QED
    BY <1>0, <2>1 DEF Flow, FlowTyped, EcuOK, Leftover, Lagging, BeforeErase, Erasing, InStep,
                      Succeeded, Running, PollsOnly, NewApp, Flashes
<1>2. CASE Session
  <2>1. /\ SessionStep /\ UNCHANGED <<runVars, inbox, ecu, faults, runs>>
        /\ wire' = wire \/ wire' = <<>>
    BY <1>2 DEF Session
  <2>2. /\ stage \in {"load", "open", "close"}
        /\ stage' \in {"load", "open", "work"} => exit' = exit /\ stage \in {"load", "open"}
        /\ exit' = "ok" => exit = "ok" \/ OnlyScans
    BY <2>1, SessionIs
  <2>3. phase = "off" /\ phase' = "off"
    BY <1>t, <2>1, <2>2 DEF runVars
  <2>4. Own' >= Own
    BY <2>2, <2>3 DEF Own
  <2>5. Flashes => ~OnlyScans
    BY DEF Flashes, OnlyScans
  <2> QED
    BY <1>0, <1>p, <1>t, <2>1, <2>2, <2>3, <2>4, <2>5, OutsideKeepsFlow DEF runVars
<1>3. CASE StartFlash
  BY <1>0, <1>3, StartKeepsFlow
<1>4. CASE FlashNotStarted
  <2>1. /\ stage = "work" /\ phase = "off" /\ stage' = "close" /\ exit' \in {"error", "dry run"}
        /\ UNCHANGED <<phase, at, late, cancelled, inbox, wire, ecu, faults, runs>>
    BY <1>4 DEF FlashNotStarted, flowVars, runVars
  <2>2. Own' >= Own
    <3>1. Own' = 1 /\ Own \in {0, 1}
      BY <2>1 DEF Own
    <3> QED
      BY <3>1
  <2> QED
    BY <1>0, <1>p, <2>1, <2>2, OutsideKeepsFlow
<1>5. CASE Run \/ CancelClicked
  <2>1. Aside /\ (RunStep \/ Cancel)
    BY <1>5 DEF Run, CancelClicked, InWork, Aside
  <2> QED
    BY <1>0, <2>1, RunKeepsFlow
<1>6. CASE FlashReturns
  <2>1. /\ stage = "work" /\ phase \in {"done", "failed", "cancelled"} /\ stage' = "close"
        /\ exit' = (IF phase = "done" THEN "ok" ELSE "error") /\ phase' = "off"
        /\ UNCHANGED <<at, late, cancelled, inbox, wire, ecu, faults, runs>>
    BY <1>6 DEF FlashReturns, Code
  <2>2. Own' >= Own
    <3>1. Own' = 1 /\ Own \in {0, 1}
      BY <2>1 DEF Own
    <3> QED
      BY <3>1
  <2> QED
    BY <1>0, <1>p, <2>1, <2>2, OutsideKeepsFlow
<1>7. CASE OtherWork
  <2>1. /\ stage = "work" /\ ~Flashes /\ stage' = "close"
        /\ UNCHANGED <<phase, at, late, cancelled, inbox, wire, ecu, faults, runs>>
    BY <1>7 DEF OtherWork, flowVars, runVars
  <2>2. phase = "off"
    BY <1>t, <2>1
  <2>3. Own' >= Own
    BY <2>1, <2>2 DEF Own
  <2> QED
    BY <1>0, <1>p, <2>1, <2>2, <2>3, OutsideKeepsFlow
<1>8. CASE RunAgain
  <2>1. /\ stage = "ended" /\ runs < MaxRuns /\ runs' = runs + 1 /\ stage' = "load"
        /\ exit' = "none" /\ UNCHANGED <<phase, at, late, cancelled, inbox, wire, ecu, faults>>
    BY <1>8 DEF RunAgain, flowVars, runVars
  <2>2. phase = "off"
    BY <1>t, <2>1
  <2> QED
    BY <1>0, <1>p, <2>1, <2>2, OutsideKeepsFlow
<1>9. CASE Ecu(EcuStep)
  BY <1>0, <1>9, PipeKeepsFlow DEF Ecu
<1> QED
  BY <1>1, <1>2, <1>3, <1>4, <1>5, <1>6, <1>7, <1>8, <1>9 DEF Next

\* FLASH SUCCESS and exit code 0 are only printed when the ECU holds the whole
\* new App, found valid and answering, whatever earlier runs have left on the
\* bus, as long as these and the faults are fewer than the requests before
\* the erase.
THEOREM SuccessIsTheNewApp ==
    ASSUME MaxRuns + MaxFaults <= Blocks["driver"] + 12
    PROVE  FairSpec => []SuccessMeansNewApp
<1>1. FlowInv => SuccessMeansNewApp
  BY DEF FlowInv, Flow, Succeeded, NewApp, SuccessMeansNewApp
<1>2. Init => FlowInv
  BY FlowStarts
<1>3. FlowInv /\ [Next]_vars => FlowInv'
  BY FlowStep
<1>4. Spec => []SuccessMeansNewApp
  BY <1>1, <1>2, <1>3, PTL DEF Spec
<1>5. FairSpec => Spec
  BY PTL DEF FairSpec
<1> QED
  BY <1>4, <1>5, PTL

-------------------------------------------------------------------------------
(* A run that nothing disturbs.                                            *)

\* What the ECU has of an image after its k-th block.
Got(img, k) == [img |-> img, blocks |-> [j \in 1..k |-> <<img, j>>]]

\* The state that the n-th request of the chain needs and finds.
StageAt(n) ==
    IF n <= 4 THEN 0 ELSE IF n <= 6 THEN 1 ELSE IF n <= 8 THEN 2
    ELSE IF n < ErasedAt THEN 3 ELSE IF n <= VerifiedAt THEN 4 ELSE 0

ReadyFor(e, n) ==
    /\ EcuFits(e) /\ e.starts = TRUE /\ e.stage >= StageAt(n)
    /\ n < PollAt => e.mode # "restart"
    /\ n >= PollAt => e.mode # "boot"
    /\ \A k \in 0..Blocks["driver"] : n = 10 + k => e.load = Got("driver", k)
    /\ n = Blocks["driver"] + 11 => e.driver = TRUE
    /\ \A k \in 0..Blocks["app"] : n = ErasedAt + 2 + k => e.load = Got("app", k)
    /\ n = VerifiedAt => e.app = "new"
    /\ n > VerifiedAt => e.valid = TRUE
    /\ n > PollAt => e.mode = "app"

CheckDriver == "31 01 02 02"
Reset == "11 01"

\* What a request does to the fields that a later one needs.
Gives(e, f, r) ==
    /\ f.starts = e.starts \/ f.starts = TRUE
    /\ r.service \notin {"10 02", "11 01"} => f.mode = e.mode
    /\ r.service \notin {"10 01", "27 02", "10 02", "27 0A", "31 01 02 02", "11 01"} =>
         f.stage = e.stage
    /\ r.service = "27 02" => f.stage = 1
    /\ r.service = "10 02" => f.stage = 2 /\ f.mode = "boot"
    /\ r.service = "27 0A" => f.stage = 3
    /\ r.service = "31 01 02 02" => f.stage = 4
    /\ r.service = "34" => f.load = [img |-> r.img, blocks |-> <<>>]
    /\ r.service = "36" => f.load = [e.load EXCEPT !.blocks = Append(@, <<r.img, r.block>>)]
    /\ r.service = "37" /\ r.crc = "driver" => f.driver = TRUE
    /\ r.service = "37" /\ r.crc = "app" => f.app = "new"
    /\ r.service = "31 01 02 02" => f.driver = e.driver
    /\ r.service = Verify => f.valid = TRUE
    /\ r.service \in {"11 01", Poll} => f.valid = e.valid
    /\ r.service = "11 01" => f.mode = "restart" /\ f.stage = 0

\* A block is added to those that have come.
LEMMA GotGrows ==
    ASSUME NEW img, NEW k \in Nat
    PROVE  /\ Len(Got(img, k).blocks) = k /\ Got(img, k).img = img
           /\ [Got(img, k) EXCEPT !.blocks = Append(@, <<img, k + 1>>)] = Got(img, k + 1)
           /\ Got(img, 0) = [img |-> img, blocks |-> <<>>]
           /\ Got(img, Blocks[img]) = Whole(img)
<1> DEFINE b(m) == [j \in 1..m |-> <<img, j>>]
           V == {<<img, j>> : j \in Nat}
<1>1. ASSUME NEW m \in Nat PROVE b(m) \in Seq(V) /\ Len(b(m)) = m
  <2>1. \A j \in 1..m : <<img, j>> \in V
    OBVIOUS
  <2> HIDE DEF V
  <2> QED
    BY <2>1
<1>2. Append(b(k), <<img, k + 1>>) = b(k + 1)
  <2> DEFINE s == b(k)
             x == <<img, k + 1>>
             t == b(k + 1)
  <2>1. s \in Seq(V) /\ Len(s) = k /\ x \in V /\ t \in Seq(V) /\ Len(t) = k + 1
    BY <1>1
  <2>2. (\A j \in 1..k : s[j] = t[j]) /\ t[k + 1] = x
    OBVIOUS
  <2> HIDE DEF s, x, t, V
  <2>3. /\ Append(s, x) \in Seq(V) /\ Len(Append(s, x)) = k + 1
        /\ \A j \in 1..k : Append(s, x)[j] = s[j]
        /\ Append(s, x)[k + 1] = x
    BY <2>1
  <2>4. \A j \in 1..(k + 1) : Append(s, x)[j] = t[j]
    <3>1. \A j \in 1..(k + 1) : j \in 1..k \/ j = k + 1
      OBVIOUS
    <3> QED
      BY <2>2, <2>3, <3>1
  <2>5. Append(s, x) = t
    BY <2>1, <2>3, <2>4, SeqEqual
  <2> QED
    BY <2>5 DEF s, x, t
<1>3. b(0) = <<>>
  <2>1. b(0) \in Seq(V) /\ Len(b(0)) = 0
    BY <1>1
  <2> HIDE DEF V
  <2> QED
    BY <2>1, EmptySeq
<1>4. Len(Got(img, k).blocks) = k /\ Got(img, k).img = img
  <2>1. Got(img, k).blocks = b(k)
    BY DEF Got
  <2> QED
    BY <1>1, <2>1 DEF Got
<1>5. [Got(img, k) EXCEPT !.blocks = Append(@, <<img, k + 1>>)] = Got(img, k + 1)
  <2> DEFINE s == b(k)
             x == <<img, k + 1>>
             t == b(k + 1)
  <2>1. Got(img, k) = [img |-> img, blocks |-> s] /\ Got(img, k + 1) = [img |-> img, blocks |-> t]
    BY DEF Got
  <2>2. Append(s, x) = t
    BY <1>2
  <2> HIDE DEF s, x, t
  <2>3. [Got(img, k) EXCEPT !.blocks = Append(@, x)] = [img |-> img, blocks |-> Append(s, x)]
    <3> DEFINE g == Got(img, k)
               y == Append(s, x)
    <3>1. g = [img |-> img, blocks |-> s] /\ g.blocks = s
      BY <2>1
    <3>2. [g EXCEPT !.blocks = Append(@, x)] = [g EXCEPT !.blocks = y]
      BY <3>1
    <3> HIDE DEF y
    <3>3. [g EXCEPT !.blocks = y] = [img |-> img, blocks |-> y]
      BY <3>1
    <3> QED
      BY <3>2, <3>3 DEF y
  <2>4. [Got(img, k) EXCEPT !.blocks = Append(@, x)] = Got(img, k + 1)
    BY <2>1, <2>2, <2>3
  <2> QED
    BY <2>4 DEF x
<1>6. Got(img, 0) = [img |-> img, blocks |-> <<>>]
  BY <1>3 DEF Got
<1>7. Got(img, Blocks[img]) = Whole(img)
  BY DEF Got, Whole
<1> QED
  BY <1>4, <1>5, <1>6, <1>7

\* The other fields of an ECU after a request.
LEMMA StoredGives ==
    ASSUME NEW e, NEW f, NEW r \in Requests, f = Stored(e, r),
           DOMAIN e = {"mode", "stage", "load", "driver", "app", "valid", "starts", "alive"}
    PROVE  Gives(e, f, r)
<1> DEFINE s == r.service
           Goal ==
             /\ f.starts = e.starts \/ f.starts = TRUE
             /\ s \notin {"10 02", "11 01"} => f.mode = e.mode
             /\ s \notin {"10 01", "27 02", "10 02", "27 0A", "31 01 02 02", "11 01"} =>
                  f.stage = e.stage
             /\ s = "27 02" => f.stage = 1
             /\ s = "10 02" => f.stage = 2 /\ f.mode = "boot"
             /\ s = "27 0A" => f.stage = 3
             /\ s = "31 01 02 02" => f.stage = 4
             /\ s = "34" => f.load = [img |-> r.img, blocks |-> <<>>]
             /\ s = "36" => f.load = [e.load EXCEPT !.blocks = Append(@, <<r.img, r.block>>)]
             /\ s = "37" /\ r.crc = "driver" => f.driver = TRUE
             /\ s = "37" /\ r.crc = "app" => f.app = "new"
             /\ s = "31 01 02 02" => f.driver = e.driver
             /\ s = Verify => f.valid = TRUE
             /\ s \in {"11 01", Poll} => f.valid = e.valid
             /\ s = "11 01" => f.mode = "restart" /\ f.stage = 0
<1> USE DEF Erase, Verify, Poll
<1>s. s \in Services
  BY DEF Requests
<1>1. ASSUME s = "10 01" \/ s = "27 02" \/ s = "27 0A" \/ s = "31 01 02 02" PROVE Goal
  <2>1. /\ s = "10 01" => f = [e EXCEPT !.stage = 0]
        /\ s = "27 02" => f = [e EXCEPT !.stage = 1]
        /\ s = "27 0A" => f = [e EXCEPT !.stage = 3]
        /\ s = "31 01 02 02" => f = [e EXCEPT !.stage = 4]
    BY StoredAs
  <2> HIDE DEF s
  <2>2. f.mode = e.mode /\ f.starts = e.starts /\ f.driver = e.driver
    BY <1>1, <2>1
  <2>3. /\ s = "27 02" => f.stage = 1
        /\ s = "27 0A" => f.stage = 3
        /\ s = "31 01 02 02" => f.stage = 4
    BY <2>1
  <2> QED
    BY <1>1, <2>2, <2>3
<1>2. ASSUME s \in {"10 03", "27 01", "31 01 02 03", "27 09"} PROVE Goal
  <2>1. f = e
    BY <1>2, StoredAs
  <2> HIDE DEF s
  <2> QED
    BY <1>2, <2>1
<1>3. ASSUME s = "10 02" PROVE Goal
  <2>1. f = [e EXCEPT !.stage = 2, !.mode = "boot"]
    BY <1>3, StoredAs
  <2>2. f.stage = 2 /\ f.mode = "boot" /\ f.starts = e.starts
    BY <2>1
  <2> HIDE DEF s
  <2> QED
    BY <1>3, <2>2
<1>5. ASSUME s = "34" PROVE Goal
  <2> DEFINE x == [img |-> r.img, blocks |-> <<>>]
  <2>0. f = [e EXCEPT !.load = [img |-> r.img, blocks |-> <<>>]]
    BY <1>5 DEF Stored, IsPoll
  <2>1. f = [e EXCEPT !.load = x]
    BY <2>0
  <2> HIDE DEF x
  <2>2. f.load = x /\ f.mode = e.mode /\ f.stage = e.stage /\ f.starts = e.starts
    BY <2>1
  <2> HIDE DEF s
  <2> QED
    BY <1>5, <2>2 DEF x
<1>6. ASSUME s = "36" PROVE Goal
  <2> DEFINE x == [e.load EXCEPT !.blocks = Append(@, <<r.img, r.block>>)]
             y == IF e.load.img = "app" THEN "part" ELSE e.app
  <2>1. f = [e EXCEPT !.load.blocks = Append(@, <<r.img, r.block>>),
                      !.app = IF e.load.img = "app" THEN "part" ELSE @]
    BY <1>6, StoredAs
  <2>2. f = [[e EXCEPT !.load = x] EXCEPT !.app = y]
    BY <2>1
  <2> HIDE DEF x, y
  <2>3. f.load = x /\ f.mode = e.mode /\ f.stage = e.stage /\ f.starts = e.starts
    BY <2>2
  <2> HIDE DEF s
  <2> QED
    BY <1>6, <2>3 DEF x
<1>7. ASSUME s = "37" PROVE Goal
  <2> DEFINE x == e.driver \/ r.crc = "driver"
             y == IF r.crc = "app" THEN "new" ELSE e.app
             z == NoDownload
  <2>1. f = [e EXCEPT !.load = NoDownload, !.driver = @ \/ r.crc = "driver",
                      !.app = IF r.crc = "app" THEN "new" ELSE @]
    BY <1>7, StoredAs
  <2>2. f = [e EXCEPT !.load = z, !.driver = x, !.app = y]
    BY <2>1
  <2>3. (r.crc = "driver" => x = TRUE) /\ (r.crc = "app" => y = "new")
    OBVIOUS
  <2> HIDE DEF x, y, z
  <2>4. f.driver = x /\ f.app = y /\ f.mode = e.mode /\ f.stage = e.stage /\ f.starts = e.starts
    BY <2>2
  <2> HIDE DEF s
  <2> QED
    BY <1>7, <2>3, <2>4
<1>8. ASSUME s = Erase PROVE Goal
  <2>1. f = [e EXCEPT !.app = "none", !.valid = FALSE, !.starts = TRUE, !.alive = FALSE]
    BY <1>8, StoredAs
  <2>2. f.starts = TRUE /\ f.mode = e.mode /\ f.stage = e.stage
    BY <2>1
  <2> HIDE DEF s
  <2> QED
    BY <1>8, <2>2
<1>9. ASSUME s = Verify PROVE Goal
  <2>1. f = [e EXCEPT !.valid = TRUE]
    BY <1>9, StoredAs
  <2>2. f.starts = e.starts /\ f.mode = e.mode /\ f.stage = e.stage /\ f.valid = TRUE
    BY <2>1
  <2> HIDE DEF s
  <2> QED
    BY <1>9, <2>2
<1>10. ASSUME s = "11 01" PROVE Goal
  <2>1. f = Restarted(e)
    BY <1>10, StoredAs
  <2> DEFINE z == NoDownload
  <2>2. f = [e EXCEPT !.mode = "restart", !.stage = 0, !.load = z, !.driver = FALSE]
    BY <2>1 DEF Restarted
  <2> HIDE DEF z
  <2>3. f.starts = e.starts /\ f.mode = "restart" /\ f.stage = 0 /\ f.valid = e.valid
    BY <2>2
  <2> HIDE DEF s
  <2> QED
    BY <1>10, <2>3
<1>11. ASSUME s = Poll PROVE Goal
  <2>1. f = [e EXCEPT !.alive = TRUE]
    BY <1>11, StoredAs
  <2>2. f.starts = e.starts /\ f.mode = e.mode /\ f.stage = e.stage /\ f.valid = e.valid
    BY <2>1
  <2> HIDE DEF s
  <2> QED
    BY <1>11, <2>2
<1>12. Goal
  <2> HIDE DEF s, Goal
  <2> QED
    BY <1>s, <1>1, <1>2, <1>3, <1>5, <1>6, <1>7, <1>8, <1>9, <1>10, <1>11 DEF Services
<1> QED
  BY <1>12 DEF Gives

\* Refuses, condition by condition.
LEMMA NotRefused ==
    ASSUME NEW r \in Range(Chain), EcuFits(ecu), ecu.stage >= StageFor[r.service],
           StageFor[r.service] \in Nat,
           r.service = "36" => /\ ecu.load.img # "none"
                               /\ r.seq = EcuSequence(Len(ecu.load.blocks) + 1),
           r.service = "37" => ecu.load = Whole(r.crc),
           r.service = CheckDriver => ecu.driver = TRUE,
           r.service = Verify => ecu.app = "new",
           r.service = Poll => ecu.mode = "app"
    PROVE  ~Refuses(r)
<1>1. ecu.stage \in 0..4
  BY DEF EcuFits
<1>2. ~(ecu.stage < StageFor[r.service])
  <2>1. \A x, y \in Nat : x >= y => ~(x < y)
    OBVIOUS
  <2>2. ecu.stage \in Nat
    BY <1>1
  <2> QED
    BY <2>1, <2>2
<1> QED
  BY <1>2 DEF Refuses, IsPoll, Verify, Poll, CheckDriver

\* What a request is, by its place.
LEMMA RequestFields ==
    ASSUME NEW img \in Images, NEW k \in Nat, NEW s
    PROVE  /\ Request(s).service = s /\ Request(s).crc = "none"
           /\ StartRequest(img).service = "34" /\ StartRequest(img).img = img
           /\ BlockRequest(img, k).service = "36" /\ BlockRequest(img, k).seq = k % Modulus
           /\ BlockRequest(img, k).img = img /\ BlockRequest(img, k).block = k
           /\ EndRequest(img).service = "37" /\ EndRequest(img).crc = img
BY DEF Request, StartRequest, BlockRequest, EndRequest, BlockSequence

\* The requests of a run, as far as what the ECU has to be ready for.
LEMMA NumbersAre ==
    ASSUME NEW D, NEW A, D = Blocks["driver"], A = Blocks["app"]
    PROVE  /\ D \in Nat /\ A \in Nat /\ D >= 1 /\ A >= 1
           /\ ErasedAt = D + 12 /\ VerifiedAt = D + A + 15 /\ PollAt = D + A + 17
BY WorkflowAssumption DEF ErasedAt, VerifiedAt, PollAt, Images

\* Up to the erase: the sessions, the keys, the driver.
LEMMA ReadyBefore ==
    ASSUME NEW n \in 1..PollAt, n <= 9 \/ n = Blocks["driver"] + 11,
           ReadyFor(ecu, n), ecu.mode # "restart"
    PROVE  ~Refuses(Chain[n]) /\ ReadyFor(Stored(ecu, Chain[n]), n + 1)
<1> DEFINE r == Chain[n]
           f == Stored(ecu, r)
           D == Blocks["driver"]
           A == Blocks["app"]
<1>n. /\ D \in Nat /\ A \in Nat /\ D >= 1 /\ A >= 1 /\ n \in Nat /\ n >= 1
      /\ ErasedAt = D + 12 /\ VerifiedAt = D + A + 15 /\ PollAt = D + A + 17
  BY NumbersAre
<1>r. r \in Range(Chain) /\ r \in Requests
  BY ServiceAt
<1>e. /\ EcuFits(ecu) /\ ecu.starts = TRUE /\ ecu.stage >= StageAt(n) /\ ecu.stage \in 0..4
      /\ DOMAIN ecu = {"mode", "stage", "load", "driver", "app", "valid", "starts", "alive"}
      /\ n = D + 11 => ecu.driver = TRUE
  BY DEF ReadyFor, EcuFits
<1>s. /\ n \in {1, 2, 3, 4} => r.service \in {"10 01", "10 03", "27 01", "27 02"}
      /\ n = 4 => r.service = "27 02"
      /\ n = 5 => r.service = "31 01 02 03"
      /\ n = 6 => r.service = "10 02"
      /\ n = 7 => r.service = "27 09"
      /\ n = 8 => r.service = "27 0A"
      /\ n = 9 => r.service = "34" /\ r.img = "driver"
      /\ n = D + 11 => r.service = "31 01 02 02"
  <2>1. /\ Chain[1] = Request("10 01") /\ Chain[2] = Request("10 03")
        /\ Chain[3] = Request("27 01") /\ Chain[4] = Request("27 02")
        /\ Chain[5] = Request("31 01 02 03") /\ Chain[6] = Request("10 02")
        /\ Chain[7] = Request("27 09") /\ Chain[8] = Request("27 0A")
        /\ Chain[9] = StartRequest("driver") /\ Chain[D + 11] = Request("31 01 02 02")
    BY ChainIs
  <2>2. "driver" \in Images /\ 0 \in Nat
    BY DEF Images
  <2>3. StartRequest("driver").service = "34" /\ StartRequest("driver").img = "driver"
    BY <2>2, RequestFields
  <2>4. \A s : Request(s).service = s
    BY DEF Request
  <2> HIDE DEF D
  <2>5. n \in {1, 2, 3, 4} => r.service \in {"10 01", "10 03", "27 01", "27 02"}
    <3>1. n \in {1, 2, 3, 4} =>
            r \in {Request("10 01"), Request("10 03"), Request("27 01"), Request("27 02")}
      BY <2>1
    <3> QED
      BY <2>4, <3>1
  <2>6. n = 4 => r.service = "27 02"
    BY <2>1, <2>4
  <2>7. n = 5 => r.service = "31 01 02 03"
    BY <2>1, <2>4
  <2>8. n = 6 => r.service = "10 02"
    BY <2>1, <2>4
  <2>9. n = 7 => r.service = "27 09"
    BY <2>1, <2>4
  <2>10. n = 8 => r.service = "27 0A"
    BY <2>1, <2>4
  <2>11. n = 9 => r.service = "34" /\ r.img = "driver"
    BY <2>1, <2>3
  <2>12. n = D + 11 => r.service = "31 01 02 02"
    BY <2>1, <2>4
  <2> QED
    BY <2>5, <2>6, <2>7, <2>8, <2>9, <2>10, <2>11, <2>12
<1>c. n \in {1, 2, 3, 4} \/ n = 5 \/ n = 6 \/ n = 7 \/ n = 8 \/ n = 9 \/ n = D + 11
  BY <1>n
<1> HIDE DEF r
<1>f. StageFor[r.service] =
        IF r.service \in {"31 01 02 03", "10 02"} THEN 1
        ELSE IF r.service \in {"27 09", "27 0A"} THEN 2
        ELSE IF r.service \in {"34", "36", "37", "31 01 02 02"} THEN 3
        ELSE IF r.service \in {Erase, Verify} THEN 4
        ELSE 0
  BY <1>r, StageForIs
<1>a. /\ n \in {1, 2, 3, 4} => StageAt(n) = 0
      /\ n \in {5, 6} => StageAt(n) = 1
      /\ n \in {7, 8} => StageAt(n) = 2
      /\ n = 9 \/ n = D + 11 => StageAt(n) = 3
      /\ n \in {8, 9} => StageAt(n + 1) = 3
      /\ n = D + 11 => StageAt(n + 1) = 4
      /\ n \in {1, 2, 3} => StageAt(n + 1) = 0
      /\ n \in {4, 5} => StageAt(n + 1) = 1
      /\ n \in {6, 7} => StageAt(n + 1) = 2
  <2> HIDE DEF D, A
  <2> QED
    BY <1>n DEF StageAt
<1>1. ~Refuses(r)
  <2>1. /\ r.service \notin {"36", "37", Verify, Poll}
        /\ r.service = CheckDriver => n = D + 11
    BY <1>s, <1>c DEF Verify, Poll, CheckDriver
  <2>2. StageFor[r.service] \in Nat /\ ecu.stage >= StageFor[r.service]
    <3>1. CASE n \in {1, 2, 3, 4}
      <4>1. StageFor[r.service] = 0
        BY <1>s, <1>f, <3>1 DEF Erase, Verify
      <4> QED
        BY <1>e, <4>1
    <3>2. CASE n = 5 \/ n = 6
      <4>1. StageFor[r.service] = 1 /\ StageAt(n) = 1
        BY <1>s, <1>f, <1>a, <3>2
      <4> QED
        BY <1>e, <4>1
    <3>3. CASE n = 7 \/ n = 8
      <4>1. StageFor[r.service] = 2 /\ StageAt(n) = 2
        BY <1>s, <1>f, <1>a, <3>3
      <4> QED
        BY <1>e, <4>1
    <3>4. CASE n = 9 \/ n = D + 11
      <4>1. StageFor[r.service] = 3 /\ StageAt(n) = 3
        BY <1>s, <1>f, <1>a, <3>4
      <4> QED
        BY <1>e, <4>1
    <3> QED
      BY <1>c, <3>1, <3>2, <3>3, <3>4
  <2> QED
    BY <1>e, <1>r, <2>1, <2>2, NotRefused
<1>2. EcuFits(f)
  BY <1>e, <1>r, <1>1, StoredIs DEF EcuOK
<1>3. /\ f.starts = TRUE
      /\ r.service \notin {"10 02", "11 01"} => f.mode = ecu.mode
      /\ r.service \notin {"10 01", "27 02", "10 02", "27 0A", "31 01 02 02", "11 01"} =>
           f.stage = ecu.stage
      /\ r.service = "27 02" => f.stage = 1
      /\ r.service = "10 02" => f.stage = 2 /\ f.mode = "boot"
      /\ r.service = "27 0A" => f.stage = 3
      /\ r.service = "31 01 02 02" => f.stage = 4
      /\ r.service = "34" => f.load = [img |-> r.img, blocks |-> <<>>]
  <2>1. Gives(ecu, f, r)
    BY <1>e, <1>r, StoredGives
  <2> HIDE DEF f
  <2> QED
    BY <1>e, <2>1 DEF Gives
<1> HIDE DEF f
<1>4. f.stage >= StageAt(n + 1)
  <2>0. f.stage \in 0..4
    BY <1>2 DEF EcuFits
  <2>1. CASE n \in {1, 2, 3}
    <3>1. StageAt(n + 1) = 0
      BY <1>a, <2>1
    <3> QED
      BY <2>0, <3>1
  <2>2. CASE n = 4
    <3>1. StageAt(n + 1) = 1 /\ f.stage = 1
      BY <1>a, <1>s, <1>3, <2>2
    <3> QED
      BY <3>1
  <2>3. CASE n = 5
    <3>1. StageAt(n + 1) = 1 /\ f.stage = ecu.stage /\ StageAt(n) = 1
      BY <1>a, <1>s, <1>3, <2>3
    <3> QED
      BY <1>e, <3>1
  <2>4. CASE n = 6
    <3>1. StageAt(n + 1) = 2 /\ f.stage = 2
      BY <1>a, <1>s, <1>3, <2>4
    <3> QED
      BY <3>1
  <2>5. CASE n = 7
    <3>1. StageAt(n + 1) = 2 /\ f.stage = ecu.stage /\ StageAt(n) = 2
      BY <1>a, <1>s, <1>3, <2>5
    <3> QED
      BY <1>e, <3>1
  <2>6. CASE n = 8
    <3>1. StageAt(n + 1) = 3 /\ f.stage = 3
      BY <1>a, <1>s, <1>3, <2>6
    <3> QED
      BY <3>1
  <2>7. CASE n = 9
    <3>1. StageAt(n + 1) = 3 /\ f.stage = ecu.stage /\ StageAt(n) = 3
      BY <1>a, <1>s, <1>3, <2>7
    <3> QED
      BY <1>e, <3>1
  <2>8. CASE n = D + 11
    <3>1. StageAt(n + 1) = 4 /\ f.stage = 4
      BY <1>a, <1>s, <1>3, <2>8
    <3> QED
      BY <3>1
  <2> QED
    BY <1>c, <2>1, <2>2, <2>3, <2>4, <2>5, <2>6, <2>7, <2>8
<1>5. f.mode # "restart"
  <2>1. r.service # "11 01"
    BY <1>s, <1>c
  <2> QED
    BY <1>3, <2>1
<1>6. \A k \in 0..D : n + 1 = 10 + k => f.load = Got("driver", k)
  <2>1. SUFFICES ASSUME NEW k \in 0..D, n + 1 = 10 + k PROVE f.load = Got("driver", k)
    OBVIOUS
  <2>2. n = 9 /\ k = 0
    <3> HIDE DEF D, A
    <3> QED
      BY <1>n, <1>c, <2>1
  <2>3. Got("driver", 0) = [img |-> "driver", blocks |-> <<>>]
    <3>1. 0 \in Nat
      OBVIOUS
    <3> QED
      BY <3>1, GotGrows
  <2> QED
    BY <1>3, <1>s, <2>2, <2>3
<1>7. /\ n + 1 # D + 11 /\ (\A k \in 0..A : n + 1 # ErasedAt + 2 + k)
      /\ n + 1 # VerifiedAt /\ ~(n + 1 > VerifiedAt) /\ ~(n + 1 > PollAt) /\ ~(n + 1 >= PollAt)
  <2> HIDE DEF D, A
  <2> QED
    BY <1>n, <1>c
<1>8. ReadyFor(f, n + 1)
  BY <1>2, <1>3, <1>4, <1>5, <1>6, <1>7 DEF ReadyFor
<1> QED
  BY <1>1, <1>8 DEF r, f

\* An ECU that has served a request still fits, and has what the request gives.
LEMMA ServedFits ==
    ASSUME NEW n \in 1..PollAt, EcuFits(ecu), ecu.starts = TRUE, ~Refuses(Chain[n]),
           NEW f, f = Stored(ecu, Chain[n])
    PROVE  EcuFits(f) /\ f.starts = TRUE /\ Gives(ecu, f, Chain[n])
<1> DEFINE r == Chain[n]
<1>1. r \in Range(Chain) /\ r \in Requests
  BY ServiceAt
<1>2. DOMAIN ecu = {"mode", "stage", "load", "driver", "app", "valid", "starts", "alive"}
  BY DEF EcuFits
<1> HIDE DEF r
<1>3. EcuFits(f)
  BY <1>1, StoredIs DEF EcuOK, r
<1>4. Gives(ecu, f, r)
  BY <1>1, <1>2, StoredGives DEF r
<1>5. f.starts = TRUE
  BY <1>4 DEF Gives
<1> QED
  BY <1>3, <1>4, <1>5 DEF r

\* A block is taken when the ones before it have come.
LEMMA BlockServed ==
    ASSUME NEW n \in 1..PollAt, NEW img \in Images, NEW k \in Nat,
           Chain[n] = BlockRequest(img, k + 1), ecu.load = Got(img, k),
           EcuFits(ecu), ecu.starts = TRUE, ecu.stage >= 3,
           NEW f, f = Stored(ecu, Chain[n])
    PROVE  /\ ~Refuses(Chain[n]) /\ EcuFits(f) /\ f.starts = TRUE
           /\ f.load = Got(img, k + 1) /\ f.stage = ecu.stage /\ f.mode = ecu.mode
<1> DEFINE r == Chain[n]
<1>1. r \in Range(Chain)
  BY ServiceAt
<1>2. /\ r.service = "36" /\ r.seq = (k + 1) % Modulus /\ r.img = img /\ r.block = k + 1
  <2>1. k + 1 \in Nat
    OBVIOUS
  <2> QED
    BY <2>1, RequestFields
<1> HIDE DEF r
<1>g. /\ Len(Got(img, k).blocks) = k /\ Got(img, k).img = img
      /\ [Got(img, k) EXCEPT !.blocks = Append(@, <<img, k + 1>>)] = Got(img, k + 1)
  <2>1. /\ Len(Got(img, k).blocks) = k /\ Got(img, k).img = img
        /\ [Got(img, k) EXCEPT !.blocks = Append(@, <<img, k + 1>>)] = Got(img, k + 1)
        /\ Got(img, 0) = [img |-> img, blocks |-> <<>>]
        /\ Got(img, Blocks[img]) = Whole(img)
    BY GotGrows, Zenon
  <2> QED
    BY <2>1, Zenon
<1>3. StageFor[r.service] = 3
  BY <1>1, <1>2, StageForIs
<1>4. ecu.load.img # "none" /\ r.seq = EcuSequence(Len(ecu.load.blocks) + 1)
  <2>1. Len(ecu.load.blocks) = k /\ ecu.load.img = img
    BY <1>g
  <2>2. img # "none"
    BY DEF Images
  <2> QED
    BY <1>2, <2>1, <2>2 DEF EcuSequence
<1>5. ~Refuses(r)
  <2>1. r.service # "37" /\ r.service # CheckDriver /\ r.service # Verify /\ r.service # Poll
    BY <1>2 DEF CheckDriver, Verify, Poll
  <2>2. StageFor[r.service] \in Nat /\ ecu.stage >= StageFor[r.service]
    BY <1>3
  <2> QED
    BY <1>1, <1>4, <2>1, <2>2, NotRefused
<1>6. EcuFits(f) /\ f.starts = TRUE /\ Gives(ecu, f, r)
  BY <1>5, ServedFits DEF r
<1>7. /\ f.load = [ecu.load EXCEPT !.blocks = Append(@, <<r.img, r.block>>)]
      /\ f.stage = ecu.stage /\ f.mode = ecu.mode
  BY <1>2, <1>6 DEF Gives
<1>8. f.load = Got(img, k + 1)
  BY <1>2, <1>7, <1>g
<1> QED
  BY <1>5, <1>6, <1>7, <1>8 DEF r

\* The end of a transfer is accepted when all the blocks have come.
LEMMA EndServed ==
    ASSUME NEW n \in 1..PollAt, NEW img \in Images,
           Chain[n] = EndRequest(img), ecu.load = Got(img, Blocks[img]),
           EcuFits(ecu), ecu.starts = TRUE, ecu.stage >= 3,
           NEW f, f = Stored(ecu, Chain[n])
    PROVE  /\ ~Refuses(Chain[n]) /\ EcuFits(f) /\ f.starts = TRUE
           /\ f.stage = ecu.stage /\ f.mode = ecu.mode
           /\ img = "driver" => f.driver = TRUE
           /\ img = "app" => f.app = "new"
<1> DEFINE r == Chain[n]
<1>1. r \in Range(Chain)
  BY ServiceAt
<1>2. r.service = "37" /\ r.crc = img
  BY RequestFields
<1> HIDE DEF r
<1>3. StageFor[r.service] = 3
  BY <1>1, <1>2, StageForIs
<1>4. ecu.load = Whole(r.crc)
  BY <1>2, GotGrows
<1>5. ~Refuses(r)
  <2>1. r.service # "36" /\ r.service # CheckDriver /\ r.service # Verify /\ r.service # Poll
    BY <1>2 DEF CheckDriver, Verify, Poll
  <2>2. StageFor[r.service] \in Nat /\ ecu.stage >= StageFor[r.service]
    BY <1>3
  <2> QED
    BY <1>1, <1>4, <2>1, <2>2, NotRefused
<1>6. EcuFits(f) /\ f.starts = TRUE /\ Gives(ecu, f, r)
  BY <1>5, ServedFits DEF r
<1>7. /\ f.stage = ecu.stage /\ f.mode = ecu.mode
      /\ img = "driver" => f.driver = TRUE
      /\ img = "app" => f.app = "new"
  BY <1>2, <1>6 DEF Gives
<1> QED
  BY <1>5, <1>6, <1>7 DEF r

\* From the routine that checks the driver to the App's first answer.
LEMMA PlainServed ==
    ASSUME NEW n \in 1..PollAt,
           Chain[n].service \in {Erase, "34", Verify, Reset, Poll},
           EcuFits(ecu), ecu.starts = TRUE,
           Chain[n].service \in {Erase, "34", Verify} => ecu.stage >= 4,
           Chain[n].service = Verify => ecu.app = "new",
           Chain[n].service = Poll => ecu.mode = "app",
           NEW f, f = Stored(ecu, Chain[n])
    PROVE  /\ ~Refuses(Chain[n]) /\ EcuFits(f) /\ f.starts = TRUE
           /\ Chain[n].service \in {Erase, "34", Verify, Poll} =>
                f.stage = ecu.stage /\ f.mode = ecu.mode
           /\ Chain[n].service = "34" => f.load = Got(Chain[n].img, 0)
           /\ Chain[n].service = Verify => f.valid = TRUE
           /\ Chain[n].service \in {Reset, Poll} => f.valid = ecu.valid
           /\ Chain[n].service = Reset => f.mode = "restart"
<1> DEFINE r == Chain[n]
<1>1. r \in Range(Chain)
  BY ServiceAt
<1> HIDE DEF r
<1>2. r.service \notin {"36", "37", CheckDriver}
  BY DEF r, Erase, Verify, Poll, Reset, CheckDriver
<1>3. StageFor[r.service] \in Nat /\ ecu.stage >= StageFor[r.service]
  <2>0. ecu.stage \in 0..4
    BY DEF EcuFits
  <2>1. CASE r.service \in {Erase, Verify}
    <3>1. StageFor[r.service] = 4
      BY <1>1, <2>1, StageForIs DEF Erase, Verify
    <3> QED
      BY <2>1, <3>1 DEF r
  <2>2. CASE r.service = "34"
    <3>1. StageFor[r.service] = 3
      BY <1>1, <2>2, StageForIs
    <3>2. ecu.stage >= 4
      BY <2>2 DEF r
    <3> QED
      BY <2>0, <3>1, <3>2
  <2>3. CASE r.service = Reset \/ r.service = Poll
    <3>1. StageFor[r.service] = 0
      BY <1>1, <2>3, StageForIs DEF Erase, Verify, Poll, Reset
    <3> QED
      BY <2>0, <3>1
  <2> QED
    BY <2>1, <2>2, <2>3 DEF r
<1>4. ~Refuses(r)
  <2>1. r.service = Verify => ecu.app = "new"
    BY DEF r
  <2>2. r.service = Poll => ecu.mode = "app"
    BY DEF r
  <2> QED
    BY <1>1, <1>2, <1>3, <2>1, <2>2, NotRefused
<1>5. EcuFits(f) /\ f.starts = TRUE /\ Gives(ecu, f, r)
  BY <1>4, ServedFits DEF r
<1>6. /\ r.service \in {Erase, "34", Verify, Poll} => f.stage = ecu.stage /\ f.mode = ecu.mode
      /\ r.service = "34" => f.load = [img |-> r.img, blocks |-> <<>>]
      /\ r.service = Verify => f.valid = TRUE
      /\ r.service \in {Reset, Poll} => f.valid = ecu.valid
      /\ r.service = Reset => f.mode = "restart"
  BY <1>5 DEF Gives, Erase, Verify, Poll, Reset
<1>7. r.service = "34" => f.load = Got(r.img, 0)
  <2>1. 0 \in Nat
    OBVIOUS
  <2>2. Got(r.img, 0) = [img |-> r.img, blocks |-> <<>>]
    BY <2>1, GotGrows
  <2> QED
    BY <1>6, <2>2
<1> QED
  BY <1>4, <1>5, <1>6, <1>7 DEF r

\* The states that the requests from the first block on need.
LEMMA StageAtIs ==
    ASSUME NEW n \in Nat
    PROVE  /\ n >= 9 /\ n < ErasedAt => StageAt(n) = 3
           /\ n >= ErasedAt /\ n <= VerifiedAt => StageAt(n) = 4
           /\ n > VerifiedAt => StageAt(n) = 0
<1>1. ErasedAt \in Nat /\ VerifiedAt \in Nat /\ ErasedAt >= 13 /\ ErasedAt + 1 < VerifiedAt
  BY PlacesAre
<1> QED
  BY <1>1 DEF StageAt

\* The blocks of the driver, and of the App.
LEMMA ReadyBlock ==
    ASSUME NEW n \in 1..PollAt, NEW k \in Nat, ReadyFor(ecu, n), ecu.mode # "restart",
           \/ k < Blocks["driver"] /\ n = 10 + k
           \/ k < Blocks["app"] /\ n = ErasedAt + 2 + k
    PROVE  ~Refuses(Chain[n]) /\ ReadyFor(Stored(ecu, Chain[n]), n + 1)
<1> DEFINE f == Stored(ecu, Chain[n])
           D == Blocks["driver"]
           A == Blocks["app"]
<1>n. /\ D \in Nat /\ A \in Nat /\ D >= 1 /\ A >= 1 /\ n \in Nat /\ n >= 1
      /\ ErasedAt = D + 12 /\ VerifiedAt = D + A + 15 /\ PollAt = D + A + 17
  BY NumbersAre
<1>e. /\ EcuFits(ecu) /\ ecu.starts = TRUE /\ ecu.stage >= StageAt(n) /\ ecu.stage \in 0..4
  BY DEF ReadyFor, EcuFits
<1>i. "driver" \in Images /\ "app" \in Images
  BY DEF Images
<1>1. CASE k < D /\ n = 10 + k
  <2>1. Chain[n] = BlockRequest("driver", k + 1)
    <3>1. \A m \in 1..D : Chain[m + 9] = BlockRequest("driver", m)
      BY ChainIs
    <3> HIDE DEF D
    <3>2. k + 1 \in 1..D /\ (k + 1) + 9 = n
      BY <1>1, <1>n
    <3> QED
      BY <3>1, <3>2
  <2>2. ecu.load = Got("driver", k)
    <3>1. \A j \in 0..D : n = 10 + j => ecu.load = Got("driver", j)
      BY DEF ReadyFor
    <3> HIDE DEF D
    <3>2. k \in 0..D
      BY <1>1, <1>n
    <3> QED
      BY <1>1, <3>1, <3>2
  <2>3. StageAt(n) = 3 /\ StageAt(n + 1) = 3 /\ ecu.stage >= 3
    <3> HIDE DEF D, A
    <3>1. n >= 9 /\ n < ErasedAt /\ n + 1 >= 9 /\ n + 1 < ErasedAt /\ n + 1 \in Nat
      BY <1>1, <1>n
    <3>2. StageAt(n) = 3 /\ StageAt(n + 1) = 3
      BY <1>n, <3>1, StageAtIs
    <3> QED
      BY <1>e, <3>2
  <2>s. ecu.stage >= 3
    BY <2>3
  <2>4. /\ ~Refuses(Chain[n]) /\ EcuFits(f) /\ f.starts = TRUE
        /\ f.load = Got("driver", k + 1) /\ f.stage = ecu.stage /\ f.mode = ecu.mode
    BY <1>e, <1>i, <2>1, <2>2, <2>s, BlockServed
  <2> HIDE DEF f
  <2>5. /\ n + 1 < PollAt /\ ~(n + 1 >= PollAt) /\ n + 1 # D + 11
        /\ (\A j \in 0..A : n + 1 # ErasedAt + 2 + j)
        /\ n + 1 # VerifiedAt /\ ~(n + 1 > VerifiedAt) /\ ~(n + 1 > PollAt)
        /\ (\A j \in 0..D : n + 1 = 10 + j => j = k + 1)
    <3> HIDE DEF D, A
    <3> QED
      BY <1>1, <1>n
  <2>6. f.stage >= StageAt(n + 1)
    BY <2>3, <2>4
  <2>7. ReadyFor(f, n + 1)
    BY <2>4, <2>5, <2>6 DEF ReadyFor
  <2> QED
    BY <2>4, <2>7 DEF f
<1>2. CASE k < A /\ n = ErasedAt + 2 + k
  <2>1. Chain[n] = BlockRequest("app", k + 1)
    <3>1. \A m \in 1..A : Chain[m + (ErasedAt + 1)] = BlockRequest("app", m)
      BY ChainIs
    <3> HIDE DEF D, A
    <3>2. k + 1 \in 1..A /\ (k + 1) + (ErasedAt + 1) = n
      BY <1>2, <1>n
    <3> QED
      BY <3>1, <3>2
  <2>2. ecu.load = Got("app", k)
    <3>1. \A j \in 0..A : n = ErasedAt + 2 + j => ecu.load = Got("app", j)
      BY DEF ReadyFor
    <3> HIDE DEF A
    <3>2. k \in 0..A
      BY <1>2, <1>n
    <3> QED
      BY <1>2, <3>1, <3>2
  <2>3. StageAt(n) = 4 /\ StageAt(n + 1) = 4 /\ ecu.stage >= 4
    <3> HIDE DEF D, A
    <3>1. n >= ErasedAt /\ n <= VerifiedAt /\ n + 1 >= ErasedAt /\ n + 1 <= VerifiedAt /\ n + 1 \in Nat
      BY <1>2, <1>n
    <3>2. StageAt(n) = 4 /\ StageAt(n + 1) = 4
      BY <1>n, <3>1, StageAtIs
    <3> QED
      BY <1>e, <3>2
  <2>s. ecu.stage >= 3
    BY <1>e, <2>3
  <2>4. /\ ~Refuses(Chain[n]) /\ EcuFits(f) /\ f.starts = TRUE
        /\ f.load = Got("app", k + 1) /\ f.stage = ecu.stage /\ f.mode = ecu.mode
    BY <1>e, <1>i, <2>1, <2>2, <2>s, BlockServed
  <2> HIDE DEF f
  <2>5. /\ n + 1 < PollAt /\ ~(n + 1 >= PollAt) /\ n + 1 # D + 11
        /\ (\A j \in 0..D : n + 1 # 10 + j)
        /\ n + 1 # VerifiedAt /\ ~(n + 1 > VerifiedAt) /\ ~(n + 1 > PollAt)
        /\ (\A j \in 0..A : n + 1 = ErasedAt + 2 + j => j = k + 1)
    <3> HIDE DEF D, A
    <3> QED
      BY <1>2, <1>n
  <2>6. f.stage >= StageAt(n + 1)
    BY <2>3, <2>4
  <2>7. ReadyFor(f, n + 1)
    BY <2>4, <2>5, <2>6 DEF ReadyFor
  <2> QED
    BY <2>4, <2>7 DEF f
<1> QED
  BY <1>1, <1>2

\* The ends of the two transfers.
LEMMA ReadyEnd ==
    ASSUME NEW n \in 1..PollAt, ReadyFor(ecu, n), ecu.mode # "restart",
           n = Blocks["driver"] + 10 \/ n = ErasedAt + Blocks["app"] + 2
    PROVE  ~Refuses(Chain[n]) /\ ReadyFor(Stored(ecu, Chain[n]), n + 1)
<1> DEFINE f == Stored(ecu, Chain[n])
           D == Blocks["driver"]
           A == Blocks["app"]
<1>n. /\ D \in Nat /\ A \in Nat /\ D >= 1 /\ A >= 1 /\ n \in Nat /\ n >= 1
      /\ ErasedAt = D + 12 /\ VerifiedAt = D + A + 15 /\ PollAt = D + A + 17
  BY NumbersAre
<1>e. /\ EcuFits(ecu) /\ ecu.starts = TRUE /\ ecu.stage >= StageAt(n) /\ ecu.stage \in 0..4
  BY DEF ReadyFor, EcuFits
<1>i. "driver" \in Images /\ "app" \in Images
  BY DEF Images
<1>1. CASE n = D + 10
  <2>1. Chain[n] = EndRequest("driver")
    <3>1. Chain[D + 10] = EndRequest("driver")
      BY ChainIs
    <3> QED
      BY <1>1, <3>1
  <2>2. ecu.load = Got("driver", D)
    <3>1. \A j \in 0..D : n = 10 + j => ecu.load = Got("driver", j)
      BY DEF ReadyFor
    <3> HIDE DEF D
    <3>2. D \in 0..D /\ n = 10 + D
      BY <1>1, <1>n
    <3> QED
      BY <3>1, <3>2
  <2>3. StageAt(n) = 3 /\ StageAt(n + 1) = 3
    <3> HIDE DEF D, A
    <3>1. n >= 9 /\ n < ErasedAt /\ n + 1 >= 9 /\ n + 1 < ErasedAt /\ n + 1 \in Nat
      BY <1>1, <1>n
    <3> QED
      BY <1>n, <3>1, StageAtIs
  <2>s. ecu.stage >= 3
    BY <1>e, <2>3
  <2>4. /\ ~Refuses(Chain[n]) /\ EcuFits(f) /\ f.starts = TRUE
        /\ f.stage = ecu.stage /\ f.mode = ecu.mode /\ f.driver = TRUE
    BY <1>e, <1>i, <2>1, <2>2, <2>s, EndServed
  <2> HIDE DEF f
  <2>5. /\ n + 1 < PollAt /\ ~(n + 1 >= PollAt)
        /\ (\A j \in 0..D : n + 1 # 10 + j)
        /\ (\A j \in 0..A : n + 1 # ErasedAt + 2 + j)
        /\ n + 1 # VerifiedAt /\ ~(n + 1 > VerifiedAt) /\ ~(n + 1 > PollAt)
    <3> HIDE DEF D, A
    <3> QED
      BY <1>1, <1>n
  <2>6. f.stage >= StageAt(n + 1)
    BY <2>3, <2>4, <2>s
  <2>7. ReadyFor(f, n + 1)
    BY <2>4, <2>5, <2>6 DEF ReadyFor
  <2> QED
    BY <2>4, <2>7 DEF f
<1>2. CASE n = ErasedAt + A + 2
  <2>1. Chain[n] = EndRequest("app")
    <3>1. Chain[ErasedAt + A + 2] = EndRequest("app")
      BY ChainIs
    <3> QED
      BY <1>2, <3>1
  <2>2. ecu.load = Got("app", A)
    <3>1. \A j \in 0..A : n = ErasedAt + 2 + j => ecu.load = Got("app", j)
      BY DEF ReadyFor
    <3> HIDE DEF A
    <3>2. A \in 0..A /\ n = ErasedAt + 2 + A
      BY <1>2, <1>n
    <3> QED
      BY <3>1, <3>2
  <2>3. StageAt(n) = 4 /\ StageAt(n + 1) = 4
    <3> HIDE DEF D, A
    <3>1. n >= ErasedAt /\ n <= VerifiedAt /\ n + 1 >= ErasedAt /\ n + 1 <= VerifiedAt /\ n + 1 \in Nat
      BY <1>2, <1>n
    <3> QED
      BY <1>n, <3>1, StageAtIs
  <2>s. ecu.stage >= 3 /\ ecu.stage >= 4
    BY <1>e, <2>3
  <2>4. /\ ~Refuses(Chain[n]) /\ EcuFits(f) /\ f.starts = TRUE
        /\ f.stage = ecu.stage /\ f.mode = ecu.mode /\ f.app = "new"
    BY <1>e, <1>i, <2>1, <2>2, <2>s, EndServed
  <2> HIDE DEF f
  <2>5. /\ n + 1 < PollAt /\ ~(n + 1 >= PollAt) /\ n + 1 # D + 11
        /\ (\A j \in 0..D : n + 1 # 10 + j)
        /\ (\A j \in 0..A : n + 1 # ErasedAt + 2 + j)
        /\ ~(n + 1 > VerifiedAt) /\ ~(n + 1 > PollAt)
    <3> HIDE DEF D, A
    <3> QED
      BY <1>2, <1>n
  <2>6. f.stage >= StageAt(n + 1)
    BY <2>3, <2>4, <2>s
  <2>7. ReadyFor(f, n + 1)
    BY <2>4, <2>5, <2>6 DEF ReadyFor
  <2> QED
    BY <2>4, <2>7 DEF f
<1> QED
  BY <1>1, <1>2

\* The other requests from the erase on.
LEMMA ReadyPlain ==
    ASSUME NEW n \in 1..PollAt, ReadyFor(ecu, n), ecu.mode # "restart",
           n \in {ErasedAt, ErasedAt + 1, VerifiedAt, VerifiedAt + 1, PollAt}
    PROVE  ~Refuses(Chain[n]) /\ ReadyFor(Stored(ecu, Chain[n]), n + 1)
<1> DEFINE f == Stored(ecu, Chain[n])
           D == Blocks["driver"]
           A == Blocks["app"]
           s == Chain[n].service
<1>n. /\ D \in Nat /\ A \in Nat /\ D >= 1 /\ A >= 1 /\ n \in Nat /\ n >= 1
      /\ ErasedAt = D + 12 /\ VerifiedAt = D + A + 15 /\ PollAt = D + A + 17
  BY NumbersAre
<1>e. /\ EcuFits(ecu) /\ ecu.starts = TRUE /\ ecu.stage >= StageAt(n) /\ ecu.stage \in 0..4
      /\ n = VerifiedAt => ecu.app = "new"
      /\ n > VerifiedAt => ecu.valid = TRUE
      /\ n >= PollAt => ecu.mode # "boot"
      /\ ecu.mode \in {"app", "boot", "restart"}
  BY DEF ReadyFor, EcuFits
<1>s. /\ n = ErasedAt => s = Erase
      /\ n = VerifiedAt => s = Verify
      /\ n = VerifiedAt + 1 => s = Reset
      /\ n = PollAt => s = Poll
  BY ServiceAt DEF Reset
<1>t. n = ErasedAt + 1 => s = "34" /\ Chain[n].img = "app"
  <2>1. Chain[ErasedAt + 1] = StartRequest("app")
    BY ChainIs
  <2>2. "app" \in Images /\ 0 \in Nat
    BY DEF Images
  <2>3. StartRequest("app").service = "34" /\ StartRequest("app").img = "app"
    BY <2>2, RequestFields
  <2> QED
    BY <2>1, <2>3
<1>u. /\ Erase # "34" /\ Erase # Verify /\ Erase # Reset /\ Erase # Poll
      /\ Verify # "34" /\ Verify # Reset /\ Verify # Poll
      /\ Reset # "34" /\ Reset # Poll /\ Poll # "34"
  BY DEF Erase, Verify, Reset, Poll
<1>c. n = ErasedAt \/ n = ErasedAt + 1 \/ n = VerifiedAt \/ n = VerifiedAt + 1 \/ n = PollAt
  OBVIOUS
<1>o. /\ n = ErasedAt => n # PollAt /\ n # VerifiedAt /\ ~(n > VerifiedAt)
      /\ n = ErasedAt + 1 => n # PollAt /\ n # VerifiedAt /\ ~(n > VerifiedAt)
      /\ n = VerifiedAt => n # PollAt
      /\ n = VerifiedAt + 1 => n # PollAt /\ n # VerifiedAt /\ n > VerifiedAt
      /\ n = PollAt => n # VerifiedAt /\ n > VerifiedAt /\ n >= PollAt
  <2> HIDE DEF D, A
  <2> QED
    BY <1>n
<1>a. /\ n \in {ErasedAt, ErasedAt + 1, VerifiedAt} => StageAt(n) = 4
      /\ n \in {ErasedAt, ErasedAt + 1} => StageAt(n + 1) = 4
      /\ n \in {VerifiedAt, VerifiedAt + 1, PollAt} => StageAt(n + 1) = 0
  <2> HIDE DEF D, A
  <2>1. /\ n \in {ErasedAt, ErasedAt + 1, VerifiedAt} => n >= ErasedAt /\ n <= VerifiedAt
        /\ n \in {ErasedAt, ErasedAt + 1} => n + 1 >= ErasedAt /\ n + 1 <= VerifiedAt
        /\ n \in {VerifiedAt, VerifiedAt + 1, PollAt} => n + 1 > VerifiedAt
        /\ n + 1 \in Nat
    BY <1>n
  <2> QED
    BY <1>n, <2>1, StageAtIs
<1>1. /\ s \in {Erase, "34", Verify, Reset, Poll}
      /\ s \in {Erase, "34", Verify} => n \in {ErasedAt, ErasedAt + 1, VerifiedAt}
      /\ s = Verify => n = VerifiedAt
      /\ s = Poll => n = PollAt
  <2> HIDE DEF s
  <2> QED
    BY <1>s, <1>t, <1>u, <1>c
<1>2. /\ s \in {Erase, "34", Verify} => ecu.stage >= 4
      /\ s = Verify => ecu.app = "new"
      /\ s = Poll => ecu.mode = "app"
  <2> HIDE DEF s
  <2>1. s \in {Erase, "34", Verify} => ecu.stage >= 4
    <3>1. SUFFICES ASSUME s \in {Erase, "34", Verify} PROVE ecu.stage >= 4
      OBVIOUS
    <3>2. StageAt(n) = 4
      BY <1>1, <1>a, <3>1
    <3> QED
      BY <1>e, <3>2
  <2>2. s = Verify => ecu.app = "new"
    BY <1>1, <1>e
  <2>3. s = Poll => ecu.mode = "app"
    BY <1>1, <1>e, <1>o
  <2> QED
    BY <2>1, <2>2, <2>3
<1>3. /\ ~Refuses(Chain[n]) /\ EcuFits(f) /\ f.starts = TRUE
      /\ s \in {Erase, "34", Verify, Poll} => f.stage = ecu.stage /\ f.mode = ecu.mode
      /\ s = "34" => f.load = Got(Chain[n].img, 0)
      /\ s = Verify => f.valid = TRUE
      /\ s \in {Reset, Poll} => f.valid = ecu.valid
      /\ s = Reset => f.mode = "restart"
  BY <1>1, <1>2, <1>e, PlainServed
<1> HIDE DEF f, s
<1>4. f.stage >= StageAt(n + 1)
  <2>0. f.stage \in 0..4
    BY <1>3 DEF EcuFits
  <2>1. CASE n \in {ErasedAt, ErasedAt + 1}
    <3>1. StageAt(n + 1) = 4 /\ f.stage = ecu.stage /\ ecu.stage >= 4
      BY <1>a, <1>s, <1>t, <1>2, <1>3, <2>1
    <3> QED
      BY <3>1
  <2>2. CASE n \in {VerifiedAt, VerifiedAt + 1, PollAt}
    <3>1. StageAt(n + 1) = 0
      BY <1>a, <2>2
    <3> QED
      BY <2>0, <3>1
  <2> QED
    BY <1>c, <2>1, <2>2
<1>5. n + 1 < PollAt => f.mode # "restart"
  <2>1. n + 1 < PollAt => n = ErasedAt \/ n = ErasedAt + 1 \/ n = VerifiedAt
    <3> HIDE DEF D, A
    <3> QED
      BY <1>n, <1>c
  <2> QED
    BY <1>s, <1>t, <1>3, <2>1
<1>6. n + 1 >= PollAt => f.mode # "boot" /\ f.valid = TRUE
  <2>1. n + 1 >= PollAt => n = VerifiedAt + 1 \/ n = PollAt
    <3> HIDE DEF D, A
    <3> QED
      BY <1>n, <1>c
  <2>2. n = VerifiedAt + 1 => f.mode = "restart" /\ f.valid = TRUE
    BY <1>s, <1>3, <1>e, <1>o
  <2>3. n = PollAt => f.mode # "boot" /\ f.valid = TRUE
    BY <1>s, <1>3, <1>e, <1>o
  <2> QED
    BY <2>1, <2>2, <2>3
<1>7. n + 1 > VerifiedAt => f.valid = TRUE
  <2>1. n + 1 > VerifiedAt => n + 1 >= PollAt \/ n = VerifiedAt
    <3> HIDE DEF D, A
    <3> QED
      BY <1>n, <1>c
  <2> QED
    BY <1>s, <1>3, <1>6, <2>1
<1>8. n + 1 > PollAt => f.mode = "app"
  <2>1. n + 1 > PollAt => n = PollAt
    <3> HIDE DEF D, A
    <3> QED
      BY <1>n, <1>c
  <2> QED
    BY <1>s, <1>1, <1>2, <1>3, <2>1
<1>9. \A j \in 0..A : n + 1 = ErasedAt + 2 + j => f.load = Got("app", j)
  <2>1. \A j \in 0..A : n + 1 = ErasedAt + 2 + j => n = ErasedAt + 1 /\ j = 0
    <3> HIDE DEF D, A
    <3> QED
      BY <1>n, <1>c
  <2> QED
    BY <1>t, <1>3, <2>1
<1>10. (\A j \in 0..D : n + 1 # 10 + j) /\ n + 1 # D + 11 /\ n + 1 # VerifiedAt
  <2> HIDE DEF D, A
  <2> QED
    BY <1>n, <1>c
<1>11. ReadyFor(f, n + 1)
  BY <1>3, <1>4, <1>5, <1>6, <1>7, <1>8, <1>9, <1>10 DEF ReadyFor
<1> QED
  BY <1>3, <1>11 DEF f

\* An ECU that is ready for a request serves it, and is ready for the next.
LEMMA ServesReady ==
    ASSUME NEW n \in 1..PollAt, ReadyFor(ecu, n), ecu.mode # "restart"
    PROVE  ~Refuses(Chain[n]) /\ ReadyFor(Stored(ecu, Chain[n]), n + 1)
<1> DEFINE D == Blocks["driver"]
           A == Blocks["app"]
<1>n. /\ D \in Nat /\ A \in Nat /\ D >= 1 /\ A >= 1 /\ n \in Nat /\ n >= 1
      /\ ErasedAt = D + 12 /\ VerifiedAt = D + A + 15 /\ PollAt = D + A + 17
  BY NumbersAre
<1>1. \/ n <= 9 \/ n = D + 11
      \/ n >= 10 /\ n < D + 10
      \/ n = D + 10 \/ n = ErasedAt + A + 2
      \/ n >= ErasedAt + 2 /\ n < ErasedAt + 2 + A
      \/ n \in {ErasedAt, ErasedAt + 1, VerifiedAt, VerifiedAt + 1, PollAt}
  <2> HIDE DEF D, A
  <2> QED
    BY <1>n
<1>2. CASE n >= 10 /\ n < D + 10
  <2> DEFINE k == n - 10
  <2>1. k \in Nat /\ k < D /\ n = 10 + k
    <3> HIDE DEF D, A
    <3> QED
      BY <1>2, <1>n
  <2> HIDE DEF k
  <2> QED
    BY <2>1, ReadyBlock
<1>3. CASE n >= ErasedAt + 2 /\ n < ErasedAt + 2 + A
  <2> DEFINE k == n - (ErasedAt + 2)
  <2>1. k \in Nat /\ k < A /\ n = ErasedAt + 2 + k
    <3> HIDE DEF D, A
    <3> QED
      BY <1>3, <1>n
  <2> HIDE DEF k
  <2> QED
    BY <2>1, ReadyBlock
<1>4. CASE n <= 9 \/ n = D + 11
  BY <1>4, ReadyBefore
<1>5. CASE n = D + 10 \/ n = ErasedAt + A + 2
  BY <1>5, ReadyEnd
<1>6. CASE n \in {ErasedAt, ErasedAt + 1, VerifiedAt, VerifiedAt + 1, PollAt}
  BY <1>6, ReadyPlain
<1> QED
  BY <1>1, <1>2, <1>3, <1>4, <1>5, <1>6

\* A request's answers, as they come from an ECU that serves it.
OkTo(r, w) ==
    \/ w = <<Answer(r, "ok")>>
    \/ PendingAllowed(r) /\ w = <<Answer(r, "pending"), Answer(r, "ok")>>

Silent == inbox = <<>> /\ wire = <<>>

\* The run and the ECU go through the chain side by side.
SideBySide ==
    /\ phase \in {"off", "send", "wait", "done"} /\ at \in 1..PollAt
    /\ phase # "off" => stage = "work" /\ Flashes
    /\ phase \in {"off", "done"} => Silent /\ ReadyFor(ecu, 1)
    /\ Running => cancelled = FALSE /\ late = FALSE
    /\ phase = "send" => Silent /\ ReadyFor(ecu, at)
    /\ phase = "wait" =>
         \/ inbox = <<Current>> /\ wire = <<>> /\ ReadyFor(ecu, at)
         \/ inbox = <<>> /\ OkTo(Current, wire) /\ ReadyFor(ecu, at + 1)
         \/ Silent /\ at = PollAt /\ ReadyFor(ecu, at)

Undisturbed == faults = 0 /\ prog \notin {"fake", "window"}
UndisturbedInv == prog \in Programs /\ faults \in Nat /\ (Undisturbed => SideBySide)

\* The first request finds an ECU ready that is there.
LEMMA FirstReady ==
    ASSUME NEW e, EcuFits(e), e.starts = TRUE, e.mode # "restart"
    PROVE  ReadyFor(e, 1)
<1> DEFINE D == Blocks["driver"]
           A == Blocks["app"]
<1>n. /\ D \in Nat /\ A \in Nat /\ D >= 1 /\ A >= 1
      /\ ErasedAt = D + 12 /\ VerifiedAt = D + A + 15 /\ PollAt = D + A + 17
  BY NumbersAre
<1>1. /\ ~(1 >= PollAt) /\ 1 # D + 11 /\ (\A j \in 0..D : 1 # 10 + j)
      /\ (\A j \in 0..A : 1 # ErasedAt + 2 + j)
      /\ 1 # VerifiedAt /\ ~(1 > VerifiedAt) /\ ~(1 > PollAt) /\ StageAt(1) = 0
  <2> HIDE DEF D, A
  <2> QED
    BY <1>n DEF StageAt
<1>2. e.stage >= StageAt(1)
  <2>1. e.stage \in 0..4
    BY DEF EcuFits
  <2> QED
    BY <1>1, <2>1
<1> QED
  BY <1>1, <1>2 DEF ReadyFor

\* An ECU that restarts while a run polls it comes back with the App.
LEMMA BackIsReady ==
    ASSUME NEW n \in Nat, ReadyFor(ecu, n), ecu.mode = "restart",
           NEW f, f = [ecu EXCEPT !.mode = IF Startable THEN "app" ELSE "boot"]
    PROVE  ReadyFor(f, n)
<1> DEFINE D == Blocks["driver"]
           A == Blocks["app"]
<1>n. /\ D \in Nat /\ A \in Nat /\ D >= 1 /\ A >= 1
      /\ ErasedAt = D + 12 /\ VerifiedAt = D + A + 15 /\ PollAt = D + A + 17
  BY NumbersAre
<1>e. /\ EcuFits(ecu) /\ ecu.starts = TRUE /\ ecu.stage >= StageAt(n)
      /\ n < PollAt => ecu.mode # "restart"
      /\ n > VerifiedAt => ecu.valid = TRUE
  BY DEF ReadyFor
<1>1. n >= PollAt /\ n > VerifiedAt
  <2> HIDE DEF D, A
  <2> QED
    BY <1>n, <1>e
<1>2. Startable
  BY <1>e, <1>1 DEF Startable
<1>3. DOMAIN ecu = {"mode", "stage", "load", "driver", "app", "valid", "starts", "alive"}
  BY <1>e DEF EcuFits
<1>4. /\ f.mode = "app" /\ f.stage = ecu.stage /\ f.starts = ecu.starts /\ f.valid = ecu.valid
      /\ f.alive = ecu.alive /\ DOMAIN f = DOMAIN ecu
  BY <1>2, <1>3
<1> HIDE DEF D, A
<1>5. EcuFits(f)
  <2>1. /\ ecu.stage \in 0..4 /\ ecu.valid \in BOOLEAN /\ ecu.alive \in BOOLEAN
        /\ ecu.stage >= 2 => ecu.mode = "boot"
    BY <1>e DEF EcuFits
  <2>2. ~(ecu.stage >= 2)
    BY <2>1
  <2>3. f.valid = TRUE
    BY <1>e, <1>1, <1>4
  <2> QED
    BY <1>3, <1>4, <2>1, <2>2, <2>3 DEF EcuFits
<1>6. /\ (\A j \in 0..D : n # 10 + j) /\ n # D + 11
      /\ (\A j \in 0..A : n # ErasedAt + 2 + j) /\ n # VerifiedAt
  BY <1>n, <1>1
<1> QED
  BY <1>e, <1>1, <1>4, <1>5, <1>6 DEF ReadyFor, D, A

\* The ECU serves the request, or is away while it is polled.
LEMMA ServesSideBySide ==
    ASSUME SideBySide, EcuServes, UNCHANGED <<prog, stage>>
    PROVE  SideBySide'
<1>1. /\ inbox # <<>> /\ inbox' = Tail(inbox) /\ UNCHANGED <<phase, at, late, cancelled>>
      /\ ecu.mode = "restart" => wire' = wire /\ ecu' = ecu
      /\ ecu.mode # "restart" =>
           /\ wire' = wire \o Responses(Head(inbox))
           /\ ecu' = IF Refuses(Head(inbox)) THEN ecu ELSE Stored(ecu, Head(inbox))
  BY DEF EcuServes, runVars
<1>2. phase = "wait" /\ inbox = <<Current>> /\ wire = <<>> /\ ReadyFor(ecu, at)
  BY <1>1 DEF SideBySide, Silent
<1>3. Head(inbox) = Current /\ inbox' = <<>>
  BY <1>1, <1>2
<1>4. at \in 1..PollAt /\ at \in Nat /\ PollAt \in Nat
  BY PlacesAre DEF SideBySide
<1>5. Current = Chain[at]
  BY DEF Current
<1>k. /\ phase' = "wait" /\ at' = at /\ at' \in 1..PollAt /\ stage' = "work" /\ Flashes'
      /\ cancelled' = FALSE /\ late' = FALSE /\ Current' = Current
  BY <1>1, <1>2, <1>4 DEF SideBySide, Flashes, Running, Current
<1>6. CASE ecu.mode = "restart"
  <2>1. at = PollAt
    <3>1. at < PollAt => ecu.mode # "restart"
      BY <1>2 DEF ReadyFor
    <3> QED
      BY <1>4, <1>6, <3>1
  <2>2. wire' = <<>> /\ ecu' = ecu
    BY <1>1, <1>2, <1>6
  <2>3. ReadyFor(ecu', at')
    BY <1>2, <1>k, <2>2
  <2> QED
    BY <1>3, <1>k, <2>1, <2>2, <2>3 DEF SideBySide, Silent, Running
<1>7. CASE ecu.mode # "restart"
  <2>1. ~Refuses(Current) /\ ReadyFor(Stored(ecu, Current), at + 1)
    BY <1>2, <1>4, <1>5, <1>7, ServesReady
  <2>2. ecu' = Stored(ecu, Current) /\ wire' = <<>> \o Responses(Current)
    BY <1>1, <1>2, <1>3, <1>7, <2>1
  <2>3. OkTo(Current, wire')
    <3>1. <<>> \o Responses(Current) = Responses(Current)
      BY DEF Responses
    <3> QED
      BY <2>1, <2>2, <3>1 DEF OkTo, Responses
  <2>4. ReadyFor(ecu', at' + 1)
    BY <2>1, <2>2, <1>k
  <2>5. OkTo(Current', wire')
    BY <2>3, <1>k
  <2> QED
    BY <1>3, <1>k, <2>4, <2>5 DEF SideBySide, Silent, Running
<1> QED
  BY <1>6, <1>7

\* A step of the run that nothing disturbs.
LEMMA RunSideBySide ==
    ASSUME SideBySide, RunStep, faults = 0, faults' = 0, UNCHANGED <<prog, stage>>
    PROVE  SideBySide'
<1>a. /\ at \in 1..PollAt /\ at \in Nat /\ PollAt \in Nat /\ Len(Chain) = PollAt
      /\ IsPoll(Current) <=> at = PollAt
  <2>1. at \in 1..PollAt
    BY DEF SideBySide
  <2>2. at \in Nat /\ PollAt \in Nat
    BY <2>1, PlacesAre
  <2>3. Len(Chain) = PollAt
    BY ChainIs
  <2> QED
    BY <2>1, <2>2, <2>3, PollIsAt
<1>b. ASSUME phase \in {"send", "wait"}
      PROVE  /\ stage' = "work" /\ Flashes' /\ cancelled = FALSE /\ late = FALSE
  BY <1>b DEF SideBySide, Flashes, Running
<1>f. ~Fault
  <2>1. faults' # faults + 1
    OBVIOUS
  <2> QED
    BY <2>1 DEF Fault
<1>1. CASE CheckCancel
  BY <1>1, <1>b DEF CheckCancel
<1>2. CASE SendRequest
  <2>1. /\ phase = "send" /\ phase' = "wait" /\ inbox' = Append(inbox, Current)
        /\ UNCHANGED <<at, late, cancelled, wire, ecu>>
    BY <1>2 DEF SendRequest
  <2>2. inbox = <<>> /\ wire = <<>> /\ ReadyFor(ecu, at)
    BY <2>1 DEF SideBySide, Silent
  <2>3. inbox' = <<Current>> /\ wire' = <<>> /\ ReadyFor(ecu', at') /\ Current' = Current
        /\ at' \in 1..PollAt
    BY <1>a, <2>1, <2>2 DEF Current
  <2> QED
    BY <1>b, <2>1, <2>3 DEF SideBySide, Running
<1>3. CASE TakeAnswer
  <2>1. /\ phase = "wait" /\ wire # <<>> /\ wire' = Tail(wire) /\ UNCHANGED <<inbox, ecu>>
    BY <1>3 DEF TakeAnswer
  <2>2. /\ inbox = <<>> /\ OkTo(Current, wire) /\ ReadyFor(ecu, at + 1)
    BY <2>1 DEF SideBySide, Silent
  <2>3. CASE wire = <<Answer(Current, "ok")>>
    <3> DEFINE x == Answer(Current, "ok")
    <3>1. Head(wire) = x /\ wire' = <<>>
      BY <2>1, <2>3
    <3>2. x.code = "ok" /\ Matches(x, Current)
      BY DEF Answer, Matches, Prefix
    <3> HIDE DEF x
    <3>3. Advanced
      BY <1>3, <3>1, <3>2 DEF TakeAnswer
    <3>4. CASE at = Len(Chain)
      <4>1. phase' = "done" /\ at' = at /\ at' \in 1..PollAt
        BY <1>a, <3>3, <3>4 DEF Advanced
      <4>2. EcuFits(ecu) /\ ecu.starts = TRUE /\ ecu.mode = "app"
        <5>1. at + 1 > PollAt
          BY <1>a, <3>4
        <5> QED
          BY <2>2, <5>1 DEF ReadyFor
      <4>3. ReadyFor(ecu, 1)
        BY <4>2, FirstReady
      <4>4. ReadyFor(ecu', 1) /\ inbox' = <<>>
        BY <2>1, <2>2, <4>3
      <4> QED
        BY <1>b, <2>1, <3>1, <4>1, <4>4 DEF SideBySide, Silent, Running
    <3>5. CASE at # Len(Chain)
      <4>1. phase' = "send" /\ at' = at + 1 /\ late' = late /\ cancelled' = cancelled
        BY <3>3, <3>5 DEF Advanced
      <4>2. at' \in 1..PollAt
        BY <1>a, <3>5, <4>1
      <4>3. ReadyFor(ecu', at') /\ inbox' = <<>>
        BY <2>1, <2>2, <4>1
      <4> QED
        BY <1>b, <2>1, <3>1, <4>1, <4>2, <4>3 DEF SideBySide, Silent, Running
    <3> QED
      BY <3>4, <3>5
  <2>4. CASE PendingAllowed(Current) /\ wire = <<Answer(Current, "pending"), Answer(Current, "ok")>>
    <3> DEFINE x == Answer(Current, "pending")
               y == Answer(Current, "ok")
    <3>1. Head(wire) = x /\ wire' = <<y>>
      BY <2>1, <2>4
    <3>2. x.code = "pending"
      BY DEF Answer
    <3>3. OkTo(Current, wire')
      BY <3>1 DEF OkTo
    <3> HIDE DEF x, y
    <3>4. UNCHANGED runVars
      BY <1>3, <2>4, <3>1, <3>2 DEF TakeAnswer
    <3>5. /\ phase' = "wait" /\ at' = at /\ late' = late /\ cancelled' = cancelled /\ inbox' = <<>>
          /\ ReadyFor(ecu', at' + 1) /\ Current' = Current /\ at' \in 1..PollAt
      BY <1>a, <2>1, <2>2, <3>4 DEF runVars, Current
    <3>6. OkTo(Current', wire')
      BY <3>3, <3>5
    <3> QED
      BY <1>b, <2>1, <3>5, <3>6 DEF SideBySide, Running
  <2> QED
    BY <2>2, <2>3, <2>4 DEF OkTo
<1>4. CASE Timeout
  <2>1. phase = "wait" /\ inbox = <<>> /\ wire = <<>> /\ Failed /\ UNCHANGED <<inbox, wire, ecu>>
    BY <1>4, <1>f DEF Timeout, Underway
  <2>2. at = PollAt /\ ReadyFor(ecu, at)
    BY <2>1 DEF SideBySide, OkTo
  <2>3. phase' = "send" /\ UNCHANGED <<at, late, cancelled>>
    BY <1>a, <1>b, <2>1, <2>2 DEF Failed, Retried
  <2>4. ReadyFor(ecu', at') /\ at' \in 1..PollAt /\ inbox' = <<>> /\ wire' = <<>>
    BY <1>a, <2>1, <2>2, <2>3
  <2> QED
    BY <1>b, <2>1, <2>3, <2>4 DEF SideBySide, Silent, Running
<1>5. CASE DeadlinePasses
  <2>1. phase \in {"send", "wait"} /\ at = PollAt /\ ~Startable
    BY <1>5, <1>f, <1>a DEF DeadlinePasses
  <2>2. ReadyFor(ecu, at) \/ ReadyFor(ecu, at + 1)
    BY <2>1 DEF SideBySide
  <2>3. at > VerifiedAt /\ at + 1 > VerifiedAt
    BY <2>1, PlacesAre
  <2> QED
    BY <2>1, <2>2, <2>3 DEF ReadyFor, Startable
<1> QED
  BY <1>1, <1>2, <1>3, <1>4, <1>5 DEF RunStep

\* The steps of an ECU that nothing disturbs.
LEMMA EcuSideBySide ==
    ASSUME SideBySide, EcuStep, faults = 0, faults' = 0, UNCHANGED <<prog, stage>>
    PROVE  SideBySide'
<1>f. ~Fault
  <2>1. faults' # faults + 1
    OBVIOUS
  <2> QED
    BY <2>1 DEF Fault
<1>1. CASE EcuServes
  BY <1>1, ServesSideBySide
<1>2. CASE EcuAnswersBadly \/ EcuRestarts \/ EcuStaysInBoot \/ Loss
  BY <1>2, <1>f DEF EcuAnswersBadly, EcuRestarts, EcuStaysInBoot, Loss
<1>3. CASE EcuIsBack
  <2>1. /\ ecu.mode = "restart" /\ UNCHANGED <<phase, at, late, cancelled, inbox, wire>>
        /\ ecu' = [ecu EXCEPT !.mode = IF Startable THEN "app" ELSE "boot"]
    BY <1>3 DEF EcuIsBack, runVars
  <2>2. at \in 1..PollAt /\ at \in Nat /\ at + 1 \in Nat
    BY PlacesAre DEF SideBySide
  <2>3. ~ReadyFor(ecu, 1)
    <3>1. 1 < PollAt
      BY PlacesAre
    <3> QED
      BY <2>1, <3>1 DEF ReadyFor
  <2>4. phase \in {"send", "wait"}
    BY <2>3 DEF SideBySide
  <2>5. ReadyFor(ecu, at) => ReadyFor(ecu', at)
    BY <2>1, <2>2, BackIsReady
  <2>6. ReadyFor(ecu, at + 1) => ReadyFor(ecu', at + 1)
    BY <2>1, <2>2, BackIsReady
  <2>7. /\ ReadyFor(ecu, at) => ReadyFor(ecu', at')
        /\ ReadyFor(ecu, at + 1) => ReadyFor(ecu', at' + 1)
        /\ Current' = Current /\ at' \in 1..PollAt
    BY <2>1, <2>2, <2>5, <2>6 DEF Current
  <2>8. /\ stage' = "work" /\ Flashes' /\ cancelled' = FALSE /\ late' = FALSE
    BY <2>1, <2>4 DEF SideBySide, Flashes, Running
  <2>9. CASE phase = "send"
    BY <2>1, <2>7, <2>8, <2>9 DEF SideBySide, Silent, Running
  <2>10. CASE phase = "wait"
    <3>1. \/ inbox = <<Current>> /\ wire = <<>> /\ ReadyFor(ecu, at)
          \/ inbox = <<>> /\ OkTo(Current, wire) /\ ReadyFor(ecu, at + 1)
          \/ Silent /\ at = PollAt /\ ReadyFor(ecu, at)
      BY <2>10 DEF SideBySide
    <3>2. \/ inbox' = <<Current'>> /\ wire' = <<>> /\ ReadyFor(ecu', at')
          \/ inbox' = <<>> /\ OkTo(Current', wire') /\ ReadyFor(ecu', at' + 1)
          \/ Silent' /\ at' = PollAt /\ ReadyFor(ecu', at')
      BY <2>1, <2>7, <3>1 DEF Silent
    <3> QED
      BY <2>1, <2>7, <2>8, <2>10, <3>2 DEF SideBySide, Running
  <2> QED
    BY <2>4, <2>9, <2>10
<1> QED
  BY <1>1, <1>2, <1>3 DEF EcuStep

\* A step while no run goes on.
LEMMA OffSideBySide ==
    ASSUME SideBySide, phase \in {"off", "done"}, phase' = "off", at' = at, inbox' = inbox,
           ecu' = ecu, wire' = wire \/ wire' = <<>>
    PROVE  SideBySide'
<1>1. inbox = <<>> /\ wire = <<>> /\ ReadyFor(ecu, 1) /\ at \in 1..PollAt
  BY DEF SideBySide, Silent
<1>2. inbox' = <<>> /\ wire' = <<>> /\ ReadyFor(ecu', 1) /\ at' \in 1..PollAt
  BY <1>1
<1> QED
  BY <1>2 DEF SideBySide, Silent, Running

\* The invariant of a run that nothing disturbs, at the start and in each step.
LEMMA UndisturbedStarts == Init => UndisturbedInv
<1> SUFFICES ASSUME Init PROVE UndisturbedInv
  OBVIOUS
<1>1. /\ phase = "off" /\ at = 1 /\ inbox = <<>> /\ wire = <<>> /\ faults = 0
      /\ prog \in Programs
      /\ ecu \in [mode : {"app", "boot"}, stage : {0}, load : {NoDownload},
                  driver : {FALSE}, app : {"old"}, valid : {TRUE}, starts : {TRUE},
                  alive : {FALSE}]
  BY DEF Init, FlowInit, SessionInit
<1>2. EcuFits(ecu) /\ ecu.starts = TRUE /\ ecu.mode # "restart"
  <2> DEFINE N == NoDownload
  <2>1. ecu \in [mode : {"app", "boot"}, stage : {0}, load : {N}, driver : {FALSE},
                 app : {"old"}, valid : {TRUE}, starts : {TRUE}, alive : {FALSE}]
    BY <1>1
  <2> HIDE DEF N
  <2>2. /\ ecu.mode \in {"app", "boot"} /\ ecu.stage = 0 /\ ecu.valid = TRUE
        /\ ecu.starts = TRUE /\ ecu.alive = FALSE
        /\ DOMAIN ecu = {"mode", "stage", "load", "driver", "app", "valid", "starts", "alive"}
    BY <2>1
  <2>3. 0 \in 0..4 /\ ~(0 >= 2)
    OBVIOUS
  <2> QED
    BY <2>2, <2>3 DEF EcuFits
<1>3. ReadyFor(ecu, 1)
  BY <1>2, FirstReady
<1>4. 1 \in 1..PollAt /\ 0 \in Nat
  BY PlacesAre
<1>5. SideBySide
  BY <1>1, <1>3, <1>4 DEF SideBySide, Silent, Running
<1> QED
  BY <1>1, <1>4, <1>5 DEF UndisturbedInv

\* What goes wrong is counted.
LEMMA FaultsCount ==
    ASSUME faults \in Nat, [Next]_vars
    PROVE  prog' = prog /\ faults' \in Nat /\ (faults' = 0 => faults = 0)
<1>1. prog' = prog /\ (faults' = faults \/ faults' = faults + 1)
  <2>1. CASE Session
    BY <2>1, SessionIs DEF Session
  <2>2. CASE StartFlash \/ FlashNotStarted
    BY <2>2 DEF StartFlash, FlashNotStarted, Begin, sessionVars, flowVars
  <2>3. CASE Run
    BY <2>3 DEF Run, InWork, RunStep, CheckCancel, SendRequest, TakeAnswer, Timeout, DeadlinePasses,
                Fault, sessionVars
  <2>4. CASE CancelClicked
    BY <2>4 DEF CancelClicked, InWork, Cancel, sessionVars
  <2>5. CASE FlashReturns \/ OtherWork \/ RunAgain
    BY <2>5 DEF FlashReturns, OtherWork, RunAgain, flowVars
  <2>6. CASE Ecu(EcuStep)
    BY <2>6 DEF Ecu, EcuStep, EcuServes, EcuAnswersBadly, EcuIsBack, EcuRestarts, EcuStaysInBoot,
                Loss, Fault, sessionVars
  <2>7. CASE UNCHANGED vars
    BY <2>7 DEF vars, sessionVars, flowVars
  <2> QED
    BY <2>1, <2>2, <2>3, <2>4, <2>5, <2>6, <2>7 DEF Next
<1> QED
  BY <1>1

\* Each step of a program, its run and its ECU.
LEMMA UndisturbedStep == UndisturbedInv /\ [Next]_vars => UndisturbedInv'
<1> SUFFICES ASSUME UndisturbedInv, [Next]_vars PROVE UndisturbedInv'
  OBVIOUS
<1>1. /\ prog' = prog /\ prog' \in Programs /\ faults' \in Nat
      /\ Undisturbed' => Undisturbed
  BY FaultsCount DEF UndisturbedInv, Undisturbed
<1>2. ASSUME Undisturbed' PROVE SideBySide'
  <2>1. SideBySide /\ faults = 0 /\ faults' = 0 /\ prog \notin {"fake", "window"}
    BY <1>1, <1>2 DEF UndisturbedInv, Undisturbed
  <2>2. phase # "off" => stage = "work" /\ Flashes
    BY <2>1 DEF SideBySide
  <2>3. CASE Session
    <3>1. SessionStep /\ UNCHANGED <<phase, at, late, cancelled, inbox, ecu>>
          /\ (wire' = wire \/ wire' = <<>>)
      BY <2>3 DEF Session, runVars
    <3>2. phase = "off"
      BY <2>2, <3>1, SessionIs
    <3> QED
      BY <2>1, <3>1, <3>2, OffSideBySide
  <2>4. CASE StartFlash
    <3>1. /\ stage' = "work" /\ Flashes' /\ phase = "off" /\ phase' = "send" /\ at' = 1
          /\ late' = FALSE /\ cancelled' = FALSE /\ inbox' = inbox /\ ecu' = ecu /\ wire' = wire
      BY <2>1, <2>4 DEF StartFlash, Begin, sessionVars, Flashes
    <3>2. inbox' = <<>> /\ wire' = <<>> /\ ReadyFor(ecu', at') /\ at' \in 1..PollAt
      BY <2>1, <3>1, PlacesAre DEF SideBySide, Silent
    <3> QED
      BY <3>1, <3>2 DEF SideBySide, Silent, Running
  <2>5. CASE FlashNotStarted \/ CancelClicked
    BY <2>1, <2>5 DEF FlashNotStarted, CancelClicked, InWork
  <2>6. CASE Run
    BY <2>1, <2>6, RunSideBySide DEF Run, InWork, sessionVars
  <2>7. CASE FlashReturns
    <3>1. /\ phase \in {"done", "failed", "cancelled"} /\ phase' = "off" /\ at' = at
          /\ inbox' = inbox /\ wire' = wire /\ ecu' = ecu
      BY <2>7 DEF FlashReturns
    <3>2. phase = "done"
      BY <2>1, <3>1 DEF SideBySide
    <3> QED
      BY <2>1, <3>1, <3>2, OffSideBySide
  <2>8. CASE OtherWork \/ RunAgain
    <3>1. UNCHANGED <<phase, at, inbox, wire, ecu>> /\ (~Flashes \/ stage = "ended")
      BY <2>8 DEF OtherWork, RunAgain, flowVars, runVars
    <3>2. phase = "off"
      BY <2>2, <3>1
    <3> QED
      BY <2>1, <3>1, <3>2, OffSideBySide
  <2>9. CASE Ecu(EcuStep)
    BY <2>1, <2>9, EcuSideBySide DEF Ecu, sessionVars
  <2>10. CASE UNCHANGED vars
    BY <2>1, <2>10 DEF vars, sessionVars, flowVars, runVars, SideBySide, Silent, Running, Current,
                      Flashes
  <2> QED
    BY <2>3, <2>4, <2>5, <2>6, <2>7, <2>8, <2>9, <2>10 DEF Next
<1> QED
  BY <1>1, <1>2 DEF UndisturbedInv

-------------------------------------------------------------------------------
(* FlattenSeq is defined by recursion: that its function exists, and what  *)
(* it returns, is proved by induction over the naturals.                   *)

\* A set of naturals has a least member: what every induction below rests on.
LEMMA LeastNumber ==
    ASSUME NEW T, T \subseteq Nat, T # {}
    PROVE  \E x \in T : \A y \in T : x <= y
<1>1. IsWellFoundedOn(OpToRel(<, Nat), Nat)
  BY NatLessThanWellFounded
<1>2. \E x \in T : \A y \in T : ~ (<<y, x>> \in OpToRel(<, Nat))
  BY <1>1, WFMin
<1>3. OpToRel(<, Nat) = {ss \in Nat \X Nat : ss[1] < ss[2]}
  BY Zenon DEF OpToRel
<1>4. PICK x \in T : \A y \in T : ~ (<<y, x>> \in {ss \in Nat \X Nat : ss[1] < ss[2]})
  BY ONLY <1>2, <1>3, Zenon
<1>5. ASSUME NEW y \in T PROVE x <= y
  <2>1. ~ (<<y, x>> \in {ss \in Nat \X Nat : ss[1] < ss[2]})
    BY <1>4
  <2> QED
    BY ONLY <2>1, <1>4, y \in T, T \subseteq Nat, SMT
<1> QED
  BY <1>4, <1>5

\* Induction for a set of naturals; no operator is a parameter.
LEMMA Induction ==
    ASSUME NEW S, 0 \in S, \A n \in Nat : n \in S => n + 1 \in S
    PROVE  Nat \subseteq S
<1> SUFFICES ASSUME ~(Nat \subseteq S) PROVE FALSE
  OBVIOUS
<1> DEFINE T == {n \in Nat : n \notin S}
<1>1. T \subseteq Nat /\ T # {}
  OBVIOUS
<1>2. PICK x \in T : \A y \in T : x <= y
  <2> HIDE DEF T
  <2> QED
    BY <1>1, LeastNumber
<1>3. x # 0 /\ x - 1 \in Nat
  BY <1>2
<1>4. x - 1 \in S
  BY <1>2, <1>3
<1> QED
  BY <1>2, <1>3, <1>4

\* Induction along a run of n steps.
LEMMA RunInduction ==
    ASSUME NEW n \in Nat, NEW S, 0 \in S, \A i \in 1..n : i - 1 \in S => i \in S
    PROVE  \A i \in 0..n : i \in S
<1> DEFINE T == {i \in Nat : i <= n => i \in S}
<1>1. 0 \in T
  OBVIOUS
<1>2. ASSUME NEW i \in Nat, i \in T PROVE i + 1 \in T
  <2> SUFFICES ASSUME i + 1 <= n PROVE i + 1 \in S
    OBVIOUS
  <2>1. i + 1 \in 1..n /\ (i + 1) - 1 = i /\ i \in S
    BY <1>2
  <2> QED
    BY <2>1
<1>3. Nat \subseteq T
  <2> HIDE DEF T
  <2> QED
    BY <1>1, <1>2, Induction
<1> QED
  BY <1>3

\* The parts of a flattened sequence of sequences, one after the other.
FlatRun(F, E, r) ==
    /\ r \in [1..Len(F) -> Seq(E)]
    /\ r[1] = F[1] /\ \A i \in 2..Len(F) : r[i] = r[i - 1] \o F[i]

\* The function that FlattenSeq defines: the lists before i, put together.
LEMMA FlatExists ==
    ASSUME NEW E, NEW F \in Seq(Seq(E)), Len(F) > 0
    PROVE  FlatRun(F, E, LET f[i \in 1..Len(F)] == IF i = 1 THEN F[i] ELSE f[i - 1] \o F[i] IN f)
<1> DEFINE Def(f, k) == [i \in 1..k |-> IF i = 1 THEN F[i] ELSE f[i - 1] \o F[i]]
           S == {k \in Nat : k \in 1..Len(F) => \E f \in [1..k -> Seq(E)] : f = Def(f, k)}
<1>0. Len(F) \in Nat /\ \A i \in 1..Len(F) : F[i] \in Seq(E)
  OBVIOUS
<1>1. 0 \in S
  OBVIOUS
<1>2. ASSUME NEW k \in Nat, k \in S PROVE k + 1 \in S
  <2> SUFFICES ASSUME k + 1 \in 1..Len(F)
               PROVE  \E f \in [1..(k + 1) -> Seq(E)] : f = Def(f, k + 1)
    <3> HIDE DEF Def
    <3> QED
      OBVIOUS
  <2>1. CASE k = 0
    <3> DEFINE f == [i \in 1..(k + 1) |-> F[i]]
    <3>1. \A i \in 1..(k + 1) : i = 1 /\ i \in 1..Len(F)
      BY <1>0, <2>1
    <3>2. f \in [1..(k + 1) -> Seq(E)] /\ f = Def(f, k + 1)
      BY <1>0, <3>1
    <3> QED
      BY <3>2
  <2>2. CASE k # 0
    <3>1. k \in 1..Len(F)
      BY <1>0, <2>2
    <3>2. PICK g \in [1..k -> Seq(E)] : g = Def(g, k)
      BY <1>2, <3>1
    <3> DEFINE f == [i \in 1..(k + 1) |-> IF i = k + 1 THEN g[k] \o F[k + 1] ELSE g[i]]
    <3>3. g[k] \o F[k + 1] \in Seq(E)
      <4>1. g[k] \in Seq(E) /\ F[k + 1] \in Seq(E)
        BY <1>0, <2>2, <3>2
      <4> QED
        BY ONLY <4>1, ConcatProperties
    <3>4. f \in [1..(k + 1) -> Seq(E)]
      <4>1. \A i \in 1..(k + 1) : i # k + 1 => i \in 1..k
        OBVIOUS
      <4> QED
        BY <3>3, <4>1
    <3>5. ASSUME NEW i \in 1..(k + 1)
          PROVE  f[i] = IF i = 1 THEN F[i] ELSE f[i - 1] \o F[i]
      <4>1. CASE i = k + 1
        <5>0. k \in 1..(k + 1) /\ k + 1 \in 1..(k + 1) /\ k # k + 1 /\ i - 1 = k /\ i # 1
          BY <2>2, <4>1
        <5>1. f[k + 1] = g[k] \o F[k + 1] /\ f[k] = g[k] /\ i - 1 = k /\ i # 1
          BY <5>0
        <5> HIDE DEF f
        <5> QED
          BY <4>1, <5>1
      <4>2. CASE i # k + 1
        <5>1. i \in 1..k /\ f[i] = g[i]
          BY <4>2
        <5>2. g[i] = IF i = 1 THEN F[i] ELSE g[i - 1] \o F[i]
          BY <3>2, <5>1
        <5>3. i # 1 => f[i - 1] = g[i - 1]
          BY <4>2, <5>1
        <5> HIDE DEF f
        <5> QED
          BY <5>1, <5>2, <5>3
      <4> QED
        BY <4>1, <4>2
    <3>6. f = Def(f, k + 1)
      <4>1. f = [i \in 1..(k + 1) |-> f[i]]
        OBVIOUS
      <4> HIDE DEF f
      <4> QED
        BY <3>5, <4>1
    <3> QED
      BY <3>4, <3>6
  <2> QED
    BY <2>1, <2>2
<1>3. Nat \subseteq S
  <2> HIDE DEF S
  <2> QED
    BY <1>1, <1>2, Induction
<1> DEFINE n == Len(F)
           r == CHOOSE f : f = Def(f, n)
<1>4. n \in S /\ n \in 1..n /\ 1 \in 1..n
  <2> HIDE DEF S
  <2> QED
    BY <1>0, <1>3
<1>5. \E f : f = Def(f, n)
  BY <1>4
<1>6. r = Def(r, n)
  <2> HIDE DEF Def
  <2> QED
    BY <1>5
<1> HIDE DEF r
<1>7. \A i \in 1..n : r[i] = IF i = 1 THEN F[i] ELSE r[i - 1] \o F[i]
  BY <1>6
<1>8. r = [i \in 1..n |-> r[i]]
  BY <1>6
<1> DEFINE T == {i \in 0..n : i > 0 => r[i] \in Seq(E)}
<1>9. \A i \in 0..n : i \in T
  <2>1. 0 \in T
    BY <1>0
  <2>2. ASSUME NEW i \in 1..n, i - 1 \in T PROVE i \in T
    <3>0. i \in 0..n /\ F[i] \in Seq(E)
      BY <1>0
    <3>1. CASE i = 1
      BY <1>7, <3>0, <3>1
    <3>2. CASE i # 1
      <4>0. i - 1 > 0
        BY <3>2
      <4>1. r[i - 1] \in Seq(E) /\ r[i] = r[i - 1] \o F[i]
        BY <1>7, <2>2, <3>2, <4>0
      <4>2. r[i - 1] \o F[i] \in Seq(E)
        BY ONLY <3>0, <4>1, ConcatProperties
      <4> QED
        BY <3>0, <4>1, <4>2
    <3> QED
      BY <3>1, <3>2
  <2> HIDE DEF T
  <2> QED
    BY <1>0, <2>1, <2>2, RunInduction
<1>10. \A i \in 1..n : r[i] \in Seq(E)
  BY <1>0, <1>9
<1>11. r \in [1..n -> Seq(E)]
  BY <1>8, <1>10
<1>12. FlatRun(F, E, r)
  <2>1. r[1] = F[1]
    BY <1>4, <1>7
  <2>2. ASSUME NEW i \in 2..n PROVE r[i] = r[i - 1] \o F[i]
    <3>1. i \in 1..n /\ i # 1
      BY <1>0
    <3> QED
      BY <1>7, <3>1
  <2> QED
    BY <1>11, <2>1, <2>2 DEF FlatRun
<1> QED
  BY <1>12 DEF r

\* What FlattenSeq returns, with its beginnings.
LEMMA FlattenIs ==
    ASSUME NEW E, NEW F \in Seq(Seq(E)), Len(F) > 0
    PROVE  \E r : /\ FlatRun(F, E, r) /\ r[Len(F)] = FlattenSeq(F)
                  /\ \A k \in 1..Len(F) :
                       /\ Len(r[k]) <= Len(FlattenSeq(F))
                       /\ \A j \in 1..Len(r[k]) : r[k][j] = FlattenSeq(F)[j]
<1> DEFINE n == Len(F)
           r == LET f[i \in 1..Len(F)] == IF i = 1 THEN F[i] ELSE f[i - 1] \o F[i] IN f
<1>1. FlatRun(F, E, r)
  BY FlatExists
<1>2. r[n] = FlattenSeq(F)
  BY DEF FlattenSeq
<1> HIDE DEF r
<1>3. n \in Nat /\ \A i \in 1..n : F[i] \in Seq(E) /\ r[i] \in Seq(E)
  <2>1. r \in [1..n -> Seq(E)]
    BY <1>1 DEF FlatRun
  <2>2. n \in Nat /\ \A i \in 1..n : F[i] \in Seq(E)
    OBVIOUS
  <2> QED
    BY <2>1, <2>2
<1> DEFINE Begins(s, t) == Len(s) <= Len(t) /\ \A j \in 1..Len(s) : s[j] = t[j]
           S == {k \in 0..n : \A i \in 1..k : Begins(r[i], r[k])}
<1>4. 0 \in S
  BY <1>3
<1>5. ASSUME NEW k \in 1..n, k - 1 \in S PROVE k \in S
  <2>1. ASSUME NEW i \in 1..(k - 1) PROVE Begins(r[i], r[k])
    <3>1. k \in 2..n /\ k - 1 \in 1..n /\ i \in 1..n
      BY <1>3
    <3>2. Begins(r[i], r[k - 1]) /\ r[k] = r[k - 1] \o F[k]
      BY <1>1, <1>5, <3>1 DEF FlatRun
    <3>3. r[k - 1] \in Seq(E) /\ F[k] \in Seq(E) /\ r[i] \in Seq(E)
      BY <1>3, <3>1
    <3> DEFINE s == r[k - 1]
               t == F[k]
    <3>4. /\ Len(s) \in Nat /\ Len(t) \in Nat /\ Len(r[i]) \in Nat
          /\ Len(s \o t) = Len(s) + Len(t)
          /\ \A j \in 1..(Len(s) + Len(t)) :
               (s \o t)[j] = IF j <= Len(s) THEN s[j] ELSE t[j - Len(s)]
      BY ONLY <3>3, ConcatProperties, LenProperties
    <3>5. Len(r[i]) <= Len(s) /\ \A j \in 1..Len(r[i]) : r[i][j] = s[j]
      BY <3>2
    <3>6. ASSUME NEW j \in 1..Len(r[i]) PROVE j <= Len(s) /\ j \in 1..(Len(s) + Len(t))
      <4>1. Len(s) \in Nat /\ Len(t) \in Nat /\ Len(r[i]) \in Nat /\ Len(r[i]) <= Len(s)
        BY <3>4, <3>5
      <4> HIDE DEF s, t
      <4> QED
        BY ONLY <4>1, j \in 1..Len(r[i])
    <3>7. r[k] = s \o t
      BY <3>2
    <3> HIDE DEF s, t
    <3>8. Len(r[i]) <= Len(s \o t)
      BY ONLY <3>4, <3>5
    <3>9. ASSUME NEW j \in 1..Len(r[i]) PROVE r[i][j] = (s \o t)[j]
      <4>1. r[i][j] = s[j] /\ j <= Len(s) /\ j \in 1..(Len(s) + Len(t))
        BY <3>5, <3>6
      <4> QED
        BY <3>4, <4>1
    <3> QED
      BY <3>7, <3>8, <3>9
  <2>2. Begins(r[k], r[k])
    BY <1>3
  <2>3. k \in 0..n /\ \A i \in 1..k : i \in 1..(k - 1) \/ i = k
    BY <1>3
  <2> HIDE DEF Begins
  <2> QED
    BY <2>1, <2>2, <2>3
<1>6. \A k \in 0..n : k \in S
  <2> HIDE DEF S
  <2> QED
    BY <1>3, <1>4, <1>5, RunInduction
<1>7. n \in S
  <2> HIDE DEF S
  <2> QED
    BY <1>3, <1>6
<1>8. \A k \in 1..n : Begins(r[k], r[n])
  <2> HIDE DEF Begins
  <2> QED
    BY <1>7
<1> QED
  BY <1>1, <1>2, <1>8

\* A function on 1..n is a list of length n.
LEMMA ListIs ==
    ASSUME NEW n \in Nat, NEW X, NEW f \in [1..n -> X]
    PROVE  f \in Seq(X) /\ Len(f) = n /\ DOMAIN f = 1..n
<1>1. f \in Seq(X)
  OBVIOUS
<1>2. DOMAIN f = 1..n /\ DOMAIN f = 1..Len(f) /\ Len(f) \in Nat
  BY <1>1, LenProperties
<1> QED
  BY <1>1, <1>2

-------------------------------------------------------------------------------
(* The fake adapter, which holds the answers to the whole chain ready.     *)

\* The answers to one request, as the fake adapter holds them.
Part(r) ==
    IF PendingAllowed(r) THEN <<Answer(r, "pending"), Answer(r, "ok")>>
                         ELSE <<Answer(r, "ok")>>

Parts == [i \in 1..PollAt |-> Part(Chain[i])]
Prepared == {Answer(Chain[i], c) : i \in 1..PollAt, c \in {"pending", "ok"}}

\* Where the answers to each request end on the fake adapter's list.
EndsAt(p) ==
    /\ p \in [0..PollAt -> Nat] /\ p[0] = 0
    /\ \A i \in 1..PollAt :
         /\ p[i] = p[i - 1] + Len(Part(Chain[i])) /\ p[i] <= Len(FakeAnswers)
         /\ \A j \in 1..Len(Part(Chain[i])) :
              FakeAnswers[p[i - 1] + j] = Part(Chain[i])[j]

\* One answer, or a pending one and the answer.
LEMMA PartIs ==
    ASSUME NEW i \in 1..PollAt
    PROVE  /\ Part(Chain[i]) \in Seq(Prepared)
           /\ Len(Part(Chain[i])) = IF PendingAllowed(Chain[i]) THEN 2 ELSE 1
           /\ PendingAllowed(Chain[i]) =>
                /\ Part(Chain[i])[1] = Answer(Chain[i], "pending")
                /\ Part(Chain[i])[2] = Answer(Chain[i], "ok")
           /\ ~PendingAllowed(Chain[i]) => Part(Chain[i])[1] = Answer(Chain[i], "ok")
<1> DEFINE x == Answer(Chain[i], "pending")
           y == Answer(Chain[i], "ok")
<1>1. x \in Prepared /\ y \in Prepared
  BY DEF Prepared
<1>2. Part(Chain[i]) = IF PendingAllowed(Chain[i]) THEN <<x, y>> ELSE <<y>>
  BY DEF Part
<1> HIDE DEF x, y
<1>3. /\ <<x, y>> \in Seq(Prepared) /\ <<y>> \in Seq(Prepared) /\ Len(<<x, y>>) = 2 /\ Len(<<y>>) = 1
      /\ <<x, y>>[1] = x /\ <<x, y>>[2] = y /\ <<y>>[1] = y
  BY <1>1
<1> QED
  BY <1>2, <1>3 DEF x, y

\* The list is one request's answers after the other's.
LEMMA FakeAnswersAre == FakeAnswers \in Seq(Prepared) /\ \E p : EndsAt(p)
<1> DEFINE W == FakeAnswers
<1>n. PollAt \in Nat /\ PollAt >= 1 /\ 1 \in 1..PollAt
  BY PlacesAre
<1>1. Parts \in [1..PollAt -> Seq(Prepared)]
  BY PartIs DEF Parts
<1>2. Parts \in Seq(Seq(Prepared)) /\ Len(Parts) = PollAt
  BY <1>n, <1>1, ListIs
<1>3. FakeAnswers = FlattenSeq(Parts)
  <2>1. Chain \in Seq(Requests) /\ Len(Chain) = PollAt
    BY ChainIs
  <2>2. DOMAIN Chain = 1..PollAt
    BY ONLY <2>1, LenProperties
  <2>3. ASSUME NEW r
        PROVE  (LET ok == <<Answer(r, "ok")>>
                IN  IF PendingAllowed(r) THEN <<Answer(r, "pending")>> \o ok ELSE ok) = Part(r)
    <3> DEFINE x == Answer(r, "pending")
               y == Answer(r, "ok")
    <3>1. Part(r) = IF PendingAllowed(r) THEN <<x, y>> ELSE <<y>>
      BY DEF Part
    <3> HIDE DEF x, y
    <3>2. <<x>> \o <<y>> = <<x, y>>
      <4> DEFINE S == {x, y}
                 u == <<x>> \o <<y>>
                 v == <<x, y>>
      <4>1. <<x>> \in Seq(S) /\ <<y>> \in Seq(S) /\ v \in Seq(S)
        OBVIOUS
      <4>2. Len(<<x>>) = 1 /\ Len(<<y>>) = 1 /\ Len(v) = 2
        OBVIOUS
      <4>3. u \in Seq(S) /\ Len(u) = 2 /\ u[1] = x /\ u[2] = y
        <5>1. <<x>>[1] = x /\ <<y>>[1] = y
          OBVIOUS
        <5> HIDE DEF S, v
        <5> QED
          BY <4>1, <4>2, <5>1, ConcatProperties
      <4>4. v[1] = x /\ v[2] = y
        OBVIOUS
      <4> HIDE DEF S, u, v
      <4>5. u \in [1..2 -> S] /\ v \in [1..2 -> S]
        BY ONLY <4>1, <4>2, <4>3, LenProperties
      <4>6. \A i \in 1..2 : i = 1 \/ i = 2
        OBVIOUS
      <4>7. u = v
        BY ONLY <4>3, <4>4, <4>5, <4>6
      <4> QED
        BY <4>7 DEF u, v
    <3> QED
      BY <3>1, <3>2 DEF x, y
  <2> QED
    BY <2>2, <2>3, Zenon DEF FakeAnswers, Parts
<1>4. PICK r : /\ FlatRun(Parts, Prepared, r) /\ r[Len(Parts)] = W
               /\ \A k \in 1..Len(Parts) :
                    Len(r[k]) <= Len(W) /\ \A j \in 1..Len(r[k]) : r[k][j] = W[j]
  BY <1>n, <1>2, <1>3, FlattenIs
<1>5. /\ r \in [1..PollAt -> Seq(Prepared)] /\ r[1] = Parts[1]
      /\ \A i \in 2..PollAt : r[i] = r[i - 1] \o Parts[i]
  BY <1>2, <1>4 DEF FlatRun
<1>6. W \in Seq(Prepared) /\ Len(W) \in Nat
  <2>1. r[PollAt] \in Seq(Prepared) /\ r[PollAt] = W
    BY <1>n, <1>2, <1>4, <1>5
  <2> QED
    BY <2>1
<1> DEFINE p == [i \in 0..PollAt |-> IF i = 0 THEN 0 ELSE Len(r[i])]
<1>7. p \in [0..PollAt -> Nat] /\ p[0] = 0 /\ \A i \in 1..PollAt : p[i] = Len(r[i])
  <2>1. \A i \in 1..PollAt : Len(r[i]) \in Nat
    BY <1>5
  <2>2. \A i \in 0..PollAt : i # 0 => i \in 1..PollAt
    BY <1>n
  <2> QED
    BY <1>n, <2>1, <2>2
<1>8. ASSUME NEW i \in 1..PollAt
      PROVE  /\ p[i] = p[i - 1] + Len(Part(Chain[i])) /\ p[i] <= Len(W)
             /\ \A j \in 1..Len(Part(Chain[i])) : W[p[i - 1] + j] = Part(Chain[i])[j]
  <2> DEFINE t == Part(Chain[i])
  <2>1. t \in Seq(Prepared) /\ Parts[i] = t /\ Len(t) \in Nat
    BY PartIs DEF Parts
  <2>2. Len(r[i]) <= Len(W) /\ (\A j \in 1..Len(r[i]) : r[i][j] = W[j]) /\ p[i] = Len(r[i])
    BY <1>2, <1>4, <1>7
  <2> HIDE DEF t, W, p
  <2>3. CASE i = 1
    <3>1. r[i] = t /\ p[i - 1] = 0
      BY <1>5, <1>7, <2>1, <2>3
    <3>2. \A j \in 1..Len(t) : 0 + j = j
      OBVIOUS
    <3> QED
      BY <2>1, <2>2, <3>1, <3>2 DEF t
  <2>4. CASE i # 1
    <3>1. i \in 2..PollAt /\ i - 1 \in 1..PollAt
      BY <1>n, <2>4
    <3> DEFINE s == r[i - 1]
    <3>2. s \in Seq(Prepared) /\ r[i] = s \o t /\ p[i - 1] = Len(s)
      BY <1>5, <1>7, <2>1, <3>1
    <3> HIDE DEF s
    <3>3. /\ Len(s) \in Nat /\ Len(s \o t) = Len(s) + Len(t)
          /\ \A j \in 1..(Len(s) + Len(t)) :
               (s \o t)[j] = IF j <= Len(s) THEN s[j] ELSE t[j - Len(s)]
      BY ONLY <2>1, <3>2, ConcatProperties, LenProperties
    <3>4. ASSUME NEW j \in 1..Len(t) PROVE W[Len(s) + j] = t[j]
      <4>1. /\ Len(s) + j \in 1..(Len(s) + Len(t)) /\ ~(Len(s) + j <= Len(s))
            /\ (Len(s) + j) - Len(s) = j
        BY <2>1, <3>3
      <4>2. (s \o t)[Len(s) + j] = t[j]
        BY <3>3, <4>1
      <4>3. Len(s) + j \in 1..Len(r[i])
        BY <3>2, <3>3, <4>1
      <4> QED
        BY <2>2, <3>2, <4>2, <4>3
    <3> QED
      BY <2>2, <3>2, <3>3, <3>4 DEF t
  <2> QED
    BY <2>3, <2>4
<1>9. EndsAt(p)
  <2> HIDE DEF p
  <2> QED
    BY <1>7, <1>8 DEF EndsAt
<1> QED
  BY <1>6, <1>9

\* What is left of a list when k of its members are taken.
Left(s, k) == SubSeq(s, k + 1, Len(s))

\* All of it, before anything is taken.
LEMMA LeftAll ==
    ASSUME NEW E, NEW s \in Seq(E)
    PROVE  Left(s, 0) = s
<1> DEFINE n == Len(s)
           t == SubSeq(s, 1, n)
<1>1. n \in Nat /\ (\A i \in 1..n : s[i] \in E) /\ s \in [1..n -> E]
  BY LenProperties
<1>2. /\ t \in Seq(E) /\ Len(t) = IF 1 <= n THEN n - 1 + 1 ELSE 0
      /\ \A i \in 1..(n - 1 + 1) : t[i] = s[1 + i - 1]
  <2> HIDE DEF n
  <2> QED
    BY <1>1, SubSeqProperties
<1> HIDE DEF n, t
<1>3. Len(t) = n /\ \A i \in 1..n : t[i] = s[i]
  BY <1>1, <1>2
<1>4. t \in [1..n -> E]
  BY <1>2, <1>3, LenProperties
<1>5. t = s
  BY <1>1, <1>3, <1>4
<1> QED
  BY <1>5 DEF Left, t, n

\* The next of a list, and the rest.
LEMMA LeftIs ==
    ASSUME NEW E, NEW s \in Seq(E), NEW k \in Nat, k < Len(s)
    PROVE  Left(s, k) # <<>> /\ Head(Left(s, k)) = s[k + 1] /\ Tail(Left(s, k)) = Left(s, k + 1)
<1> DEFINE n == Len(s)
           t == SubSeq(s, k + 1, n)
           u == SubSeq(s, k + 2, n)
<1>1. n \in Nat /\ \A i \in 1..n : s[i] \in E
  OBVIOUS
<1>2. t \in Seq(E) /\ Len(t) = n - k /\ \A i \in 1..(n - k) : t[i] = s[k + i]
  <2>1. \A i \in (k + 1)..n : s[i] \in E
    BY <1>1
  <2>2. /\ t \in Seq(E) /\ Len(t) = IF k + 1 <= n THEN n - (k + 1) + 1 ELSE 0
        /\ \A i \in 1..(n - (k + 1) + 1) : t[i] = s[(k + 1) + i - 1]
    <3> HIDE DEF n
    <3> QED
      BY <1>1, <2>1, SubSeqProperties
  <2> HIDE DEF t, n
  <2>3. n - (k + 1) + 1 = n - k /\ k + 1 <= n /\ \A i \in 1..(n - k) : (k + 1) + i - 1 = k + i
    BY <1>1 DEF n
  <2> QED
    BY <2>2, <2>3
<1>3. u \in Seq(E) /\ Len(u) = n - k - 1 /\ \A i \in 1..(n - k - 1) : u[i] = s[k + 1 + i]
  <2>1. \A i \in (k + 2)..n : s[i] \in E
    BY <1>1
  <2>2. /\ u \in Seq(E) /\ Len(u) = IF k + 2 <= n THEN n - (k + 2) + 1 ELSE 0
        /\ \A i \in 1..(n - (k + 2) + 1) : u[i] = s[(k + 2) + i - 1]
    <3> HIDE DEF n
    <3> QED
      BY <1>1, <2>1, SubSeqProperties
  <2> HIDE DEF u, n
  <2>3. /\ n - (k + 2) + 1 = n - k - 1 /\ ~(k + 2 <= n) => n - k - 1 = 0
        /\ \A i \in 1..(n - k - 1) : (k + 2) + i - 1 = k + 1 + i
    BY <1>1 DEF n
  <2>4. Len(u) = n - k - 1
    <3>1. n \in Nat /\ k < n
      BY <1>1 DEF n
    <3> QED
      BY <2>2, <3>1
  <2>5. ASSUME NEW i \in 1..(n - k - 1) PROVE u[i] = s[k + 1 + i]
    <3>1. i \in 1..(n - (k + 2) + 1) /\ (k + 2) + i - 1 = k + 1 + i
      <4>1. n \in Nat
        BY <1>1 DEF n
      <4> QED
        BY ONLY <4>1, k \in Nat, i \in 1..(n - k - 1)
    <3> QED
      BY <2>2, <3>1
  <2> QED
    BY <2>2, <2>4, <2>5
<1> HIDE DEF t, u
<1>4. n - k \in Nat /\ n - k >= 1 /\ n - k - 1 \in Nat /\ 1 \in 1..(n - k)
  BY <1>1
<1>5. t # <<>> /\ Head(t) = s[k + 1]
  BY <1>2, <1>4
<1>6. Tail(t) \in Seq(E) /\ Len(Tail(t)) = n - k - 1 /\ \A i \in 1..(n - k - 1) : Tail(t)[i] = t[i + 1]
  BY <1>2, <1>5, HeadTailProperties
<1>7. \A i \in 1..(n - k - 1) : Tail(t)[i] = u[i]
  <2>1. ASSUME NEW i \in 1..(n - k - 1) PROVE t[i + 1] = s[k + 1 + i]
    <3> HIDE DEF n
    <3>1. i + 1 \in 1..(n - k) /\ k + (i + 1) = k + 1 + i
      BY <1>1, <1>4
    <3> QED
      BY <1>2, <3>1
  <2> QED
    BY <1>3, <1>6, <2>1
<1>8. Tail(t) = u
  <2> DEFINE v == Tail(t)
  <2>1. v \in Seq(E) /\ u \in Seq(E) /\ Len(v) = Len(u)
    BY <1>3, <1>6
  <2>2. \A i \in 1..Len(v) : v[i] = u[i]
    BY <1>6, <1>7
  <2> HIDE DEF v
  <2>3. v = u
    BY ONLY <2>1, <2>2, SeqEqual
  <2> QED
    BY <2>3 DEF v
<1>9. (k + 1) + 1 = k + 2
  OBVIOUS
<1> QED
  BY <1>5, <1>8, <1>9 DEF Left, t, u

\* A run of the fake adapter takes one answer after the other off the list.
FakeRuns ==
    /\ phase \in {"off", "send", "wait", "done"}
    /\ phase # "off" => stage = "work"
    /\ Running =>
         /\ cancelled = FALSE /\ at \in 1..PollAt
         /\ \E p, k : /\ EndsAt(p) /\ wire = Left(FakeAnswers, k)
                      /\ \/ k = p[at - 1]
                         \/ phase = "wait" /\ PendingAllowed(Current) /\ k = p[at - 1] + 1

FakeInv == prog = "fake" /\ faults = 0 => FakeRuns

\* Before the run there is nothing to show.
LEMMA FakeStarts == Init => FakeInv
BY DEF Init, SessionInit, FlowInit, FakeInv, FakeRuns, Running

\* What comes next on the list.
LEMMA FakeNext ==
    ASSUME at \in 1..PollAt, NEW p, NEW k, EndsAt(p), wire = Left(FakeAnswers, k),
           k = p[at - 1] \/ (PendingAllowed(Current) /\ k = p[at - 1] + 1)
    PROVE  /\ wire # <<>> /\ Tail(wire) = Left(FakeAnswers, k + 1)
           /\ \/ Head(wire) = Answer(Current, "ok") /\ k + 1 = p[at]
              \/ /\ Head(wire) = Answer(Current, "pending")
                 /\ PendingAllowed(Current) /\ k = p[at - 1]
<1> DEFINE W == FakeAnswers
           t == Part(Current)
<1>1. W \in Seq(Prepared) /\ Len(W) \in Nat
  BY FakeAnswersAre
<1>2. /\ Len(t) = IF PendingAllowed(Current) THEN 2 ELSE 1
      /\ PendingAllowed(Current) => t[1] = Answer(Current, "pending") /\ t[2] = Answer(Current, "ok")
      /\ ~PendingAllowed(Current) => t[1] = Answer(Current, "ok")
  BY PartIs DEF Current
<1>3. /\ p \in [0..PollAt -> Nat] /\ p[at] = p[at - 1] + Len(t) /\ p[at] <= Len(W)
      /\ \A j \in 1..Len(t) : W[p[at - 1] + j] = t[j]
  BY DEF EndsAt, Current
<1>4. p[at - 1] \in Nat /\ p[at] \in Nat
  <2>1. at - 1 \in 0..PollAt /\ at \in 0..PollAt
    BY PlacesAre
  <2> QED
    BY <1>3, <2>1
<1> HIDE DEF W, t
<1>5. k \in Nat /\ k < Len(W) /\ k < p[at]
  BY <1>1, <1>2, <1>3, <1>4
<1>6. wire # <<>> /\ Head(wire) = W[k + 1] /\ Tail(wire) = Left(W, k + 1)
  <2>1. wire = Left(W, k)
    BY DEF W
  <2> QED
    BY <1>1, <1>5, <2>1, LeftIs
<1>7. CASE k = p[at - 1] /\ PendingAllowed(Current)
  <2>1. W[k + 1] = Answer(Current, "pending")
    <3>1. 1 \in 1..Len(t)
      BY <1>2, <1>7
    <3> QED
      BY <1>2, <1>3, <1>7, <3>1
  <2> QED
    BY <1>6, <1>7, <2>1 DEF W
<1>8. CASE k = p[at - 1] /\ ~PendingAllowed(Current)
  <2>1. W[k + 1] = Answer(Current, "ok")
    <3>1. 1 \in 1..Len(t)
      BY <1>2, <1>8
    <3> QED
      BY <1>2, <1>3, <1>8, <3>1
  <2>2. k + 1 = p[at]
    BY <1>2, <1>3, <1>8
  <2> QED
    BY <1>6, <2>1, <2>2 DEF W
<1>9. CASE PendingAllowed(Current) /\ k = p[at - 1] + 1
  <2>1. W[k + 1] = Answer(Current, "ok")
    <3>1. 2 \in 1..Len(t) /\ k + 1 = p[at - 1] + 2
      BY <1>2, <1>4, <1>9
    <3> QED
      BY <1>2, <1>3, <1>9, <3>1
  <2>2. k + 1 = p[at]
    BY <1>2, <1>3, <1>4, <1>9
  <2> QED
    BY <1>6, <2>1, <2>2 DEF W
<1> QED
  BY <1>7, <1>8, <1>9

\* A step of the run that nothing disturbs.
LEMMA RunFake ==
    ASSUME FakeRuns, RunStep, faults = 0, faults' = 0, UNCHANGED <<prog, stage>>
    PROVE  FakeRuns'
<1>f. ~Fault
  <2>1. faults' # faults + 1
    OBVIOUS
  <2> QED
    BY <2>1 DEF Fault
<1>0. phase \in {"send", "wait"}
  BY DEF RunStep, CheckCancel, SendRequest, TakeAnswer, Timeout, DeadlinePasses
<1>b. /\ stage' = "work" /\ cancelled = FALSE /\ at \in 1..PollAt
      /\ \E p, k : /\ EndsAt(p) /\ wire = Left(FakeAnswers, k)
                   /\ \/ k = p[at - 1]
                      \/ phase = "wait" /\ PendingAllowed(Current) /\ k = p[at - 1] + 1
  BY <1>0 DEF FakeRuns, Running
<1>p. PICK p, k : /\ EndsAt(p) /\ wire = Left(FakeAnswers, k)
                  /\ \/ k = p[at - 1]
                     \/ phase = "wait" /\ PendingAllowed(Current) /\ k = p[at - 1] + 1
  BY <1>b
<1>n. /\ wire # <<>> /\ Tail(wire) = Left(FakeAnswers, k + 1)
      /\ \/ Head(wire) = Answer(Current, "ok") /\ k + 1 = p[at]
         \/ /\ Head(wire) = Answer(Current, "pending")
            /\ PendingAllowed(Current) /\ k = p[at - 1]
  BY <1>b, <1>p, FakeNext
<1>e. EndsAt(p)'
  BY <1>p DEF EndsAt, FakeAnswers, Part, Chain
<1>1. CASE CheckCancel
  BY <1>1, <1>b DEF CheckCancel
<1>2. CASE SendRequest
  <2>1. /\ phase = "send" /\ phase' = "wait" /\ UNCHANGED <<at, cancelled, wire>>
    BY <1>2 DEF SendRequest
  <2>2. k = p[at - 1]
    BY <1>p, <2>1
  <2>3. wire' = Left(FakeAnswers, k) /\ k = p[at' - 1] /\ at' \in 1..PollAt /\ cancelled' = FALSE
    BY <1>b, <1>p, <2>1, <2>2
  <2> QED
    BY <1>b, <1>e, <2>1, <2>3 DEF FakeRuns, Running
<1>3. CASE TakeAnswer
  <2>1. phase = "wait" /\ wire' = Left(FakeAnswers, k + 1) /\ UNCHANGED <<inbox, ecu>>
    BY <1>3, <1>n DEF TakeAnswer
  <2>2. CASE Head(wire) = Answer(Current, "ok") /\ k + 1 = p[at]
    <3> DEFINE x == Answer(Current, "ok")
    <3>2. x.code = "ok" /\ Matches(x, Current)
      BY DEF Answer, Matches, Prefix
    <3> HIDE DEF x
    <3>1. Head(wire) = x
      BY <2>2 DEF x
    <3>3. Advanced
      BY <1>3, <3>1, <3>2 DEF TakeAnswer
    <3>4. CASE at = Len(Chain)
      <4>1. phase' = "done"
        BY <3>3, <3>4 DEF Advanced
      <4> QED
        BY <1>b, <4>1 DEF FakeRuns, Running
    <3>5. CASE at # Len(Chain)
      <4>1. phase' = "send" /\ at' = at + 1 /\ cancelled' = FALSE
        BY <1>b, <3>3, <3>5 DEF Advanced
      <4>2. at' \in 1..PollAt /\ at' - 1 = at
        <5>1. Len(Chain) = PollAt
          BY ChainIs
        <5> QED
          BY <1>b, <3>5, <4>1, <5>1, PlacesAre
      <4>3. k + 1 = p[at' - 1]
        BY <2>2, <4>2
      <4> QED
        BY <1>b, <1>e, <2>1, <4>1, <4>2, <4>3 DEF FakeRuns, Running
    <3> QED
      BY <3>4, <3>5
  <2>3. CASE /\ Head(wire) = Answer(Current, "pending")
             /\ PendingAllowed(Current) /\ k = p[at - 1]
    <3> DEFINE x == Answer(Current, "pending")
    <3>1. x.code = "pending"
      BY DEF Answer
    <3> HIDE DEF x
    <3>2. Head(wire) = x
      BY <2>3 DEF x
    <3>3. UNCHANGED runVars
      BY <1>3, <2>3, <3>1, <3>2 DEF TakeAnswer
    <3>4. phase' = "wait" /\ at' = at /\ cancelled' = FALSE /\ at' \in 1..PollAt /\ Current' = Current
      BY <1>b, <2>1, <3>3 DEF runVars, Current
    <3>5. PendingAllowed(Current') /\ k + 1 = p[at' - 1] + 1
      BY <2>3, <3>4
    <3> QED
      BY <1>b, <1>e, <2>1, <3>4, <3>5 DEF FakeRuns, Running
  <2> QED
    BY <1>n, <2>2, <2>3
<1>4. CASE Timeout
  BY <1>4, <1>f, <1>n DEF Timeout, Underway
<1>5. CASE DeadlinePasses
  <2>1. UNCHANGED <<phase, at, cancelled, wire>> /\ Current' = Current
    BY <1>5 DEF DeadlinePasses, Current
  <2>2. \/ k = p[at' - 1]
        \/ phase' = "wait" /\ PendingAllowed(Current') /\ k = p[at' - 1] + 1
    BY <1>p, <2>1
  <2>3. wire' = Left(FakeAnswers, k) /\ phase' \in {"send", "wait"} /\ at' \in 1..PollAt
        /\ cancelled' = FALSE
    BY <1>0, <1>b, <1>p, <2>1
  <2> QED
    BY <1>b, <1>e, <2>2, <2>3 DEF FakeRuns, Running
<1> QED
  BY <1>1, <1>2, <1>3, <1>4, <1>5 DEF RunStep

\* Each step of the fake program.
LEMMA FakeStep ==
    ASSUME FakeInv, faults \in Nat, [Next]_vars
    PROVE  FakeInv'
<1>1. prog' = prog /\ (faults' = 0 => faults = 0)
  BY FaultsCount
<1>2. ASSUME prog = "fake", faults' = 0 PROVE FakeRuns'
  <2>1. FakeRuns /\ faults = 0
    BY <1>1, <1>2 DEF FakeInv
  <2>2. /\ phase \in {"off", "send", "wait", "done"}
        /\ phase # "off" => stage = "work"
    BY <2>1 DEF FakeRuns
  <2>3. ASSUME phase = "off", phase' = "off" PROVE FakeRuns'
    BY <2>3 DEF FakeRuns, Running
  <2>4. CASE Session
    <3>1. SessionStep /\ phase' = phase
      BY <2>4 DEF Session, runVars
    <3> QED
      BY <2>2, <2>3, <3>1, SessionIs
  <2>5. CASE StartFlash
    <3>1. /\ stage' = "work" /\ phase' = "send" /\ at' = 1 /\ cancelled' = FALSE
          /\ wire' = FakeAnswers
      BY <1>2, <2>5 DEF StartFlash, Begin, sessionVars
    <3>2. PICK p : EndsAt(p)
      BY FakeAnswersAre
    <3>3. EndsAt(p)'
      BY <3>2 DEF EndsAt, FakeAnswers, Part, Chain
    <3>4. wire' = Left(FakeAnswers, 0) /\ p[at' - 1] = 0 /\ at' \in 1..PollAt
      <4>1. at' - 1 = 0 /\ 1 \in 1..PollAt
        BY <3>1, PlacesAre
      <4>2. Left(FakeAnswers, 0) = FakeAnswers
        BY FakeAnswersAre, LeftAll
      <4> QED
        BY <3>1, <3>2, <4>1, <4>2 DEF EndsAt
    <3> QED
      BY <3>1, <3>3, <3>4 DEF FakeRuns, Running
  <2>6. CASE FlashNotStarted \/ CancelClicked \/ RunAgain \/ Ecu(EcuStep) \/ OtherWork
    BY <1>2, <2>6 DEF FlashNotStarted, CancelClicked, InWork, RunAgain, Ecu, OtherWork, Flashes
  <2>7. CASE Run
    BY <1>1, <1>2, <2>1, <2>7, RunFake DEF Run, InWork, sessionVars
  <2>8. CASE FlashReturns
    BY <2>8 DEF FlashReturns, FakeRuns, Running
  <2>9. CASE UNCHANGED vars
    BY <2>1, <2>9 DEF vars, sessionVars, flowVars, runVars, FakeRuns, Running, Current
  <2> QED
    BY <2>4, <2>5, <2>6, <2>7, <2>8, <2>9 DEF Next
<1> QED
  BY <1>1, <1>2 DEF FakeInv

\* When nothing is lost, late or restarted, no run fails, whatever program
\* runs, how often it is started and how many blocks the images have: the
\* chain and the ECU go side by side, the fake adapter's list is taken off
\* answer by answer.
THEOREM UndisturbedRunSucceeds == FairSpec => []UndisturbedFlashSucceeds
<1>1. Init => UndisturbedInv /\ FakeInv
  BY UndisturbedStarts, FakeStarts
<1>2. UndisturbedInv /\ FakeInv /\ [Next]_vars => UndisturbedInv' /\ FakeInv'
  BY UndisturbedStep, FakeStep DEF UndisturbedInv
<1>3. UndisturbedInv /\ FakeInv => UndisturbedFlashSucceeds
  BY DEF UndisturbedInv, Undisturbed, SideBySide, FakeInv, FakeRuns, UndisturbedFlashSucceeds
<1>4. Spec => [](UndisturbedInv /\ FakeInv)
  BY <1>1, <1>2, PTL DEF Spec
<1>5. FairSpec => Spec
  BY PTL DEF FairSpec
<1> QED
  BY <1>3, <1>4, <1>5, PTL
===============================================================================
