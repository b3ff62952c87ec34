------------------------------- MODULE As5prEcu -------------------------------
(***************************************************************************)
(* The ECU at the other end of the diagnostic bus, as the host tool uses   *)
(* it: which request it accepts in which state, what the request changes,  *)
(* and what it answers.  The ECU's firmware is not part of the repository; *)
(* every operator here is external and is read off the services the OTA    *)
(* state machine sends and the answers it, its tests and the virtual ECU   *)
(* of the adapters expect.  The module has no variables: a specification   *)
(* keeps one record of Ecu and replaces it by After(ecu, request).         *)
(***************************************************************************)
EXTENDS Naturals

CONSTANTS
    DriverBlocks,   \* number of TransferData blocks of the FlashDriver image
    AppBlocks,      \* number of TransferData blocks of the App image
    SeqMod          \* modulus of the block sequence counter (256 in the code)

ASSUME ImageAssumption ==
    /\ DriverBlocks \in Nat \ {0}
    /\ AppBlocks \in Nat \ {0}
    /\ SeqMod \in Nat \ {0}

\* The diagnostic services the tool uses: the four UDS sessions and resets, two
\* levels of security access, the download services and the four routines.
Services ==
    {"ident", "default", "extended", "seed1", "key1", "precheck", "program",
     "seedF", "keyF", "download", "transfer", "exit", "run", "erase", "auth",
     "reset", "version"}

\* Those whose positive answer carries something the tool can find wrong: an
\* identity, a seed, a block length, a CRC or a routine's status byte.
Qualified == {"ident", "seed1", "seedF", "precheck", "download", "exit", "run",
              "erase", "auth"}

Areas == {"none", "driver", "app"}

\* run is a history field: the OTA run that issued the request.
Request == [svc : Services, area : Areas, seq : Nat, run : Nat]

\* What an answer carries beyond its service: an identity, a negative response
\* code, or whether the payload is well formed.
Infos == {"App", "Boot", "Wrong", "ok", "bad", "7F", "other"}

Response == [kind : {"positive", "negative", "pending"},
             svc : Services, seq : Nat, info : Infos]

(***************************************************************************)
(* role is the program that answers; booting says that a reset Boot will   *)
(* start a valid App unless a request keeps it; area and got describe the  *)
(* transfer in progress; app is the content of the App flash and image the *)
(* run that installed it (history, 0 for the image the ECU came with).     *)
(***************************************************************************)
Ecu == [role : {"App", "Boot"}, booting : BOOLEAN,
        session : {"default", "extended", "programming"}, unlocked : BOOLEAN,
        driver : {"none", "loaded", "running"}, area : Areas, got : Nat,
        app : {"valid", "blank", "loaded"}, image : Nat]

FactoryEcu == [role |-> "App", booting |-> FALSE, session |-> "default",
               unlocked |-> FALSE, driver |-> "none", area |-> "none",
               got |-> 0, app |-> "valid", image |-> 0]

\* An ECU delivered without an App stays in Boot.
BlankEcu == [FactoryEcu EXCEPT !.role = "Boot", !.app = "blank"]

BlocksOf(area) == IF area = "driver" THEN DriverBlocks ELSE AppBlocks

Accepts(e, q) ==
    LET inApp == e.role = "App"
        inFbl == e.role = "Boot" /\ e.session = "programming"
    IN CASE q.svc = "ident"    -> TRUE
         [] q.svc \in {"default", "extended", "version"} -> inApp
         [] q.svc \in {"seed1", "key1"} -> inApp /\ e.session = "extended"
         [] q.svc = "precheck" -> inApp /\ e.unlocked
         [] q.svc = "program"  -> inApp => e.unlocked
         [] q.svc \in {"seedF", "keyF"} -> inFbl
         [] q.svc = "download" ->
              /\ inFbl /\ e.unlocked
              /\ q.area = "app" => e.driver = "running" /\ e.app # "valid"
         [] q.svc = "transfer" ->
              /\ e.area # "none" /\ e.got < BlocksOf(e.area)
              /\ q.seq = (e.got + 1) % SeqMod
         \* The host's running CRC covers the blocks it sent, so it agrees with
         \* the ECU's exactly when both counted the same blocks.
         [] q.svc = "exit"     -> e.area # "none" /\ q.seq = e.got
         [] q.svc = "run"      -> inFbl /\ e.unlocked /\ e.driver = "loaded"
         [] q.svc = "erase"    -> inFbl /\ e.driver = "running"
         [] q.svc = "auth"     -> inFbl /\ e.app = "loaded"
         [] q.svc = "reset"    -> TRUE

Restarted(e) ==
    [e EXCEPT !.role = "Boot", !.booting = (e.app = "valid"),
              !.session = "default", !.unlocked = FALSE, !.driver = "none",
              !.area = "none", !.got = 0]

\* Entering the programming session hands the App over to Boot, and keeps a
\* Boot that was about to start the App.
Handover(e) ==
    [e EXCEPT !.role = "Boot", !.booting = FALSE, !.session = "programming",
              !.unlocked = FALSE, !.area = "none", !.got = 0]

TransferDone(e) ==
    IF e.area = "driver"
    THEN [e EXCEPT !.area = "none", !.got = 0, !.driver = "loaded"]
    ELSE [e EXCEPT !.area = "none", !.got = 0,
                   !.app = IF e.got = AppBlocks THEN "loaded" ELSE e.app]

After(e, q) ==
    CASE q.svc \in {"default", "extended"} ->
           [e EXCEPT !.session = q.svc, !.unlocked = FALSE]
      [] q.svc \in {"key1", "keyF"} -> [e EXCEPT !.unlocked = TRUE]
      [] q.svc = "program"  -> Handover(e)
      [] q.svc = "download" -> [e EXCEPT !.area = q.area, !.got = 0]
      [] q.svc = "transfer" -> [e EXCEPT !.got = @ + 1]
      [] q.svc = "exit"     -> TransferDone(e)
      [] q.svc = "run"      -> [e EXCEPT !.driver = "running"]
      [] q.svc = "erase"    -> [e EXCEPT !.app = "blank", !.area = "none", !.got = 0]
      [] q.svc = "auth"     -> [e EXCEPT !.app = "valid", !.image = q.run]
      [] q.svc = "reset"    -> Restarted(e)
      [] OTHER              -> e

Positive(q, info) == [kind |-> "positive", svc |-> q.svc, seq |-> q.seq, info |-> info]
Negative(q, nrc)  == [kind |-> "negative", svc |-> q.svc, seq |-> q.seq, info |-> nrc]
Pending(q)        == [kind |-> "pending",  svc |-> q.svc, seq |-> q.seq, info |-> "other"]

\* Security access outside the programming session answers 7F 27 7F.
Refusal(e, q) ==
    Negative(q, IF q.svc \in {"seedF", "keyF"} /\ e.session # "programming"
                THEN "7F" ELSE "other")
===============================================================================
