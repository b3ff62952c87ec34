---------------------------- MODULE DeviceSession ----------------------------
(***************************************************************************)
(* How the command-line tools and the backends get hold of the bus: the    *)
(* calls a program makes to the vendor's library before its work and after *)
(* it, any of which may fail.  TSMaster's calls are a script, gone through *)
(* one by one; what the library is told is recorded in dev.  USB2XXX looks *)
(* through the devices for the one that was selected.                      *)
(***************************************************************************)
EXTENDS Naturals, Sequences, FiniteSets

CONSTANTS
    Programs,   \* the programs of a behaviour, a subset of AllPrograms
    Channels,   \* can_channel_count, the channels mapped before connecting
    Devices     \* how many devices a USB2XXX scan finds

AllPrograms == {"e68", "as5pr", "fake", "sim", "window", "release", "loopback",
                "probe", "scan", "usb release", "usb scan"}

ASSUME SessionAssumption ==
    /\ Programs \subseteq AllPrograms
    /\ Channels \in Nat \ {0} /\ Devices \in Nat \ {0}

VARIABLES
    prog,     \* the program that runs
    stage,    \* "load", "open", "work", "close" or "ended"
    nth,      \* the call of its script, or the device it looks at, next
    dev,      \* what the libraries were told
    opened,   \* the adapter's _opened, or its _handle is set
    skip,     \* close mode "skip"
    held,     \* history: open has returned in this program
    exit      \* "none", "ok" or "error"

sessionVars == <<prog, stage, nth, dev, opened, skip, held, exit>>

-------------------------------------------------------------------------------
(* Scripts.                                                                *)

Down == [lib |-> FALSE, connected |-> FALSE, fifo |-> FALSE, lin |-> FALSE,
         clean |-> FALSE, handles |-> {}]

Initialize == <<"initialize", "current">>

\* TsmasterAdapter.open_lin and open_can.
LinOpen ==
    Initialize \o <<"can count", "lin count", "mapping", "baud", "connect",
                    "function", "start", "fifo", "clear">>
PerChannel(calls, n) == [i \in 1..(n * Len(calls)) |-> calls[1 + ((i - 1) % Len(calls))]]
CanOpen ==
    Initialize \o <<"can count", "lin count">> \o PerChannel(<<"mapping", "baud">>, Channels)
      \o <<"connect", "fifo", "clear">>

\* TsmasterAdapter.probe: the library is given back whatever happens.
Probe == Initialize \o <<"enumerate", "info", "finalize">>
\* probe_can_devices.
Scan == <<"initialize", "scan devices", "detail", "finalize">>

\* TsmasterLinFifoSimAdapter.open and _CanVirtualSession.open.
SimOpen ==
    Initialize \o <<"can count", "lin count", "mapping", "baud", "connect", "fifo", "clear">>
LoopbackOpen ==
    Initialize \o <<"can count", "lin count">> \o PerChannel(<<"mapping", "baud">>, 2)
      \o <<"connect", "fifo">> \o PerChannel(<<"clear">>, 2)

Script ==
    CASE prog \in {"e68", "window"} -> LinOpen
      [] prog = "as5pr" -> CanOpen
      [] prog = "sim" -> SimOpen
      [] prog = "loopback" -> LoopbackOpen
      [] prog = "probe" -> Probe
      [] prog = "scan" -> Scan
      [] prog = "release" -> Probe \o CanOpen
      [] OTHER -> <<>>

OnlyScans == prog \in {"probe", "scan", "usb scan"}
Usb == prog \in {"usb release", "usb scan"}

\* The calls that cannot fail, or whose failure is not looked at.
Fails(call) ==
    /\ call \notin {"fifo", "finalize"}
    /\ ~(call = "clear" /\ prog \in {"e68", "window"})
    /\ ~(call = "initialize" /\ prog = "scan")

\* The calls made before the try block that gives the library back.
Unguarded(call) ==
    \/ call = "initialize"
    \/ call = "current" /\ prog \notin {"sim", "loopback"}

\* The programs that know the adapter, and close it, although open failed.
KnowsAdapter == prog \in {"e68", "as5pr", "sim"}

Told(d, call) ==
    CASE call = "initialize" -> [d EXCEPT !.lib = TRUE]
      [] call = "connect" -> [d EXCEPT !.connected = TRUE, !.clean = FALSE]
      [] call = "start" -> [d EXCEPT !.lin = TRUE]
      [] call = "fifo" -> [d EXCEPT !.fifo = TRUE]
      [] call = "clear" -> [d EXCEPT !.clean = TRUE]
      [] call = "finalize" -> [d EXCEPT !.lib = FALSE]
      [] OTHER -> d

-------------------------------------------------------------------------------
SessionInit ==
    /\ prog \in Programs /\ stage = "load" /\ nth = 1
    /\ dev = Down /\ opened = FALSE /\ held = FALSE /\ exit = "none"
    /\ skip \in BOOLEAN /\ (skip => prog \in {"e68", "as5pr", "window"})

End(code) == stage' = "ended" /\ exit' = code

\* Arguments, profile and images; --dry-run; anything but YES.
NotLoaded ==
    /\ stage = "load" /\ End("error")
    /\ UNCHANGED <<prog, nth, dev, opened, skip, held>>
DryRun ==
    /\ stage = "load" /\ prog \in {"e68", "as5pr"} /\ End("dry run")
    /\ UNCHANGED <<prog, nth, dev, opened, skip, held>>
NotConfirmed ==
    /\ stage = "load" /\ prog \in {"e68", "as5pr"} /\ End("not confirmed")
    /\ UNCHANGED <<prog, nth, dev, opened, skip, held>>
Loaded ==
    /\ stage = "load" /\ stage' = "open"
    /\ UNCHANGED <<prog, nth, dev, opened, skip, held, exit>>

AfterOpen == IF OnlyScans THEN End("ok") ELSE stage' = "work" /\ UNCHANGED exit
\* open raised: main's finally block closes an adapter it knows.
AfterFailure ==
    IF KnowsAdapter THEN stage' = "close" /\ exit' = "error" ELSE End("error")

OpenCall ==
    /\ stage = "open" /\ ~Usb /\ nth <= Len(Script)
    /\ dev' = Told(dev, Script[nth]) /\ nth' = nth + 1
    /\ UNCHANGED <<prog, stage, opened, skip, held, exit>>

\* The device is not among those the probe found, or is another now.
SelectedIsGone ==
    /\ stage = "open" /\ prog = "release" /\ nth = Len(Probe) + 1
    /\ End("error")
    /\ UNCHANGED <<prog, nth, dev, opened, skip, held>>

\* open_can's check of the channel count, made before any call.
ChannelNotCovered ==
    /\ stage = "open" /\ prog \in {"as5pr", "release"}
    /\ nth = 1 + Len(Script) - Len(CanOpen)
    /\ AfterFailure
    /\ UNCHANGED <<prog, nth, dev, opened, skip, held>>

\* close() inside open: _opened is not set yet, so only the library is left.
OpenCallFails ==
    /\ stage = "open" /\ ~Usb /\ nth <= Len(Script) /\ Fails(Script[nth])
    /\ dev' = IF Unguarded(Script[nth]) THEN dev ELSE Told(dev, "finalize")
    /\ AfterFailure
    /\ UNCHANGED <<prog, nth, opened, skip, held>>

OpenReturns ==
    /\ stage = "open" /\ ~Usb /\ nth > Len(Script)
    /\ opened' = ~OnlyScans /\ held' = ~OnlyScans /\ AfterOpen
    /\ UNCHANGED <<prog, nth, dev, skip>>

\* Only an adapter that is open disconnects.
Closed(d) ==
    IF opened THEN [d EXCEPT !.fifo = FALSE, !.lin = FALSE, !.connected = FALSE, !.lib = FALSE]
              ELSE [d EXCEPT !.lib = FALSE]

Close ==
    /\ stage = "close" /\ ~Usb
    /\ IF skip THEN UNCHANGED <<dev, opened>> ELSE dev' = Closed(dev) /\ opened' = FALSE
    /\ stage' = "ended"
    /\ UNCHANGED <<prog, nth, skip, held, exit>>

-------------------------------------------------------------------------------
(* USB2XXX: probe_can_devices and open_can go through the handles that a   *)
(* scan found, the release tool first through the one, then the other; the *)
(* device at hand is open while it is looked at.                           *)

Handle == 1 + ((nth - 1) % Devices)
Probing == OnlyScans \/ nth <= Devices
LastDevice == IF OnlyScans THEN Devices ELSE 2 * Devices
LooksAt == stage = "open" /\ Usb /\ ~opened /\ Handle \in dev.handles

UsbNext(handles) ==
    /\ dev' = [dev EXCEPT !.handles = handles]
    /\ nth' = nth + 1
    /\ UNCHANGED <<prog, stage, opened, skip, held, exit>>

UsbDoesNotOpen ==
    /\ stage = "open" /\ Usb /\ nth <= LastDevice /\ ~LooksAt
    /\ UsbNext(dev.handles)
UsbOpensDevice ==
    /\ stage = "open" /\ Usb /\ nth <= LastDevice /\ ~LooksAt
    /\ dev' = [dev EXCEPT !.handles = @ \cup {Handle}]
    /\ UNCHANGED <<prog, stage, nth, opened, skip, held, exit>>

\* Its data is read, or it has another serial number.  A mutant leaves the
\* other device open.
UsbClosesNot == LooksAt /\ UsbNext(dev.handles)
UsbPasses == LooksAt /\ UsbNext(dev.handles \ {Handle})

\* It cannot be read, has no such channel, or a call of initialize_can
\* fails: it is closed and the error raised.
UsbFails ==
    /\ LooksAt
    /\ dev' = [dev EXCEPT !.handles = @ \ {Handle}]
    /\ End("error")
    /\ UNCHANGED <<prog, nth, opened, skip, held>>

UsbTakes ==
    /\ LooksAt /\ ~Probing
    /\ dev' = [dev EXCEPT !.clean = TRUE]
    /\ opened' = TRUE /\ held' = TRUE /\ stage' = "work"
    /\ UNCHANGED <<prog, nth, skip, exit>>

\* The list ends: what was found, or the selected device is offline.
UsbListEnds ==
    /\ stage = "open" /\ Usb
    /\ nth > LastDevice \/ (prog = "usb release" /\ nth = Devices + 1 /\ ~LooksAt)
    /\ End(IF OnlyScans THEN "ok" ELSE "error")
    /\ UNCHANGED <<prog, nth, dev, opened, skip, held>>

UsbClose ==
    /\ stage = "close" /\ Usb
    /\ dev' = IF opened THEN [dev EXCEPT !.handles = @ \ {Handle}] ELSE dev
    /\ opened' = FALSE /\ stage' = "ended"
    /\ UNCHANGED <<prog, nth, skip, held, exit>>

UsbStep ==
    UsbDoesNotOpen \/ UsbOpensDevice \/ UsbPasses \/ UsbFails \/ UsbTakes \/ UsbListEnds \/ UsbClose
LoadStep == NotLoaded \/ DryRun \/ NotConfirmed \/ Loaded
SessionStep ==
    \/ LoadStep \/ OpenCall \/ SelectedIsGone \/ ChannelNotCovered \/ OpenCallFails
    \/ OpenReturns \/ Close
    \/ UsbStep

SessionTypeOK ==
    /\ prog \in Programs /\ stage \in {"load", "open", "work", "close", "ended"}
    /\ nth \in Nat /\ opened \in BOOLEAN /\ skip \in BOOLEAN /\ held \in BOOLEAN
    /\ dev \in [lib : BOOLEAN, connected : BOOLEAN, fifo : BOOLEAN, lin : BOOLEAN,
                clean : BOOLEAN, handles : SUBSET (1..Devices)]
    /\ exit \in {"none", "ok", "error", "dry run", "not confirmed"}
===============================================================================
