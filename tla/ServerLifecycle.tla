-------------------------- MODULE ServerLifecycle ---------------------------
(***************************************************************************)
(* The life of the engine and of the transfer server: init_engine,         *)
(* start_server and stop_server of rust/filedrop-ffi/src/api/mod.rs,       *)
(* pick_server_port of rust/filedrop-core/src/networking/resolve.rs, the   *)
(* shutdown slot of rust/filedrop-ffi/src/runtime.rs, and what             *)
(* flutter/lib/services/filedrop_ffi_service.dart believes of them.        *)
(*                                                                         *)
(* A call is a step between two points where another thread, another       *)
(* process or the server's task can come in between: the port is probed,   *)
(* let go and bound again, the shutdown sender stored, the task spawned,   *)
(* and last Dart's continuation run.  A server is named by the call of     *)
(* start_server that made it, an engine by the call of init_engine.        *)
(***************************************************************************)
EXTENDS Naturals, FiniteSets

CONSTANTS
    Inits,      \* calls of init
    Starts,     \* calls of startServer and ensureServerRunning
    Stops,      \* calls of stopServer
    LastPort,   \* the ports of PORT_SCAN_RANGE are 1..LastPort
    Other,      \* another process of the machine
    None

Ports == 1..LastPort
Calls == Inits \cup Starts \cup Stops

ASSUME LifecycleAssumption ==
    /\ LastPort \in Nat \ {0}
    /\ Inits \cap Starts = {} /\ Inits \cap Stops = {} /\ Starts \cap Stops = {}
    /\ None \notin Calls /\ None \notin Nat
    /\ Other \notin Calls \cup {None}

VARIABLES
    pc,         \* where each call is
    engine,     \* FfiRuntime::engine
    holder,     \* who has each port bound
    at,         \* the port a start scans, picked and bound
    slot,       \* FfiRuntime::server_shutdown: the server whose sender it has
    signal,     \* what became of each server's sender
    serving,    \* the servers whose task runs with its listener open
    running,    \* _serverRunning
    selfPort,   \* _selfDevice: None before init, then its port
    overlapped  \* observer: a call was made while another was under way

dartVars == <<running, selfPort>>
vars == <<pc, engine, holder, at, slot, signal, serving, dartVars, overlapped>>

Init ==
    /\ pc = [c \in Calls |-> "idle"]
    /\ engine = None
    /\ holder = [p \in Ports |-> None]
    /\ at = [s \in Starts |-> 1]
    /\ slot = None
    /\ signal = [s \in Starts |-> "none"]
    /\ serving = {}
    /\ running = FALSE
    /\ selfPort = None
    /\ overlapped = FALSE

GoTo(c, label) == pc' = [pc EXCEPT ![c] = label]

Quiet == \A c \in Calls : pc[c] \in {"idle", "done"}

\* A call is made; whether others are under way is noted.
Begin(c, label) ==
    /\ pc[c] = "idle"
    /\ GoTo(c, label)
    /\ overlapped' = (overlapped \/ ~Quiet)

-----------------------------------------------------------------------------
(* init.                                                                   *)

\* _initialized is set together with _selfDevice.
BeginInit(i) ==
    /\ Begin(i, IF selfPort = None THEN "creating" ELSE "done")
    /\ UNCHANGED <<engine, holder, at, slot, signal, serving, dartVars>>

\* FileDropEngine::init fails, or an engine is there already: Err.
InitFails(i) ==
    /\ pc[i] = "creating"
    /\ GoTo(i, "done")
    /\ UNCHANGED <<engine, holder, at, slot, signal, serving, dartVars, overlapped>>

\* Mutant of SetEngine: the slot is overwritten.
SetEngineAgain(i) ==
    /\ pc[i] = "creating"
    /\ engine' = i
    /\ GoTo(i, "returned")
    /\ UNCHANGED <<holder, at, slot, signal, serving, dartVars, overlapped>>

\* OnceCell::set succeeds once.
SetEngine(i) ==
    /\ pc[i] = "creating"
    /\ engine = None
    /\ engine' = i
    /\ GoTo(i, "returned")
    /\ UNCHANGED <<holder, at, slot, signal, serving, dartVars, overlapped>>

\* Dart goes on: this device is known, its port is not.
InitReturns(i) ==
    /\ pc[i] = "returned"
    /\ GoTo(i, "done")
    /\ selfPort' = 0
    /\ UNCHANGED <<engine, holder, at, slot, signal, serving, running, overlapped>>

-----------------------------------------------------------------------------
(* startServer, ensureServerRunning.                                       *)

\* start_server gets as far as its scan only with an engine.
BeginStart(s) ==
    /\ Begin(s, IF engine = None THEN "done" ELSE "scan")
    /\ UNCHANGED <<engine, holder, at, slot, signal, serving, dartVars>>

\* ensureServerRunning asks Dart's own flag first.
BeginEnsure(s) ==
    /\ Begin(s, IF running \/ engine = None THEN "done" ELSE "scan")
    /\ UNCHANGED <<engine, holder, at, slot, signal, serving, dartVars>>

\* pick_server_port tries the next port; the probing listener lives for a moment.
Probe(s) ==
    /\ pc[s] = "scan"
    /\ IF holder[at[s]] = None
       THEN /\ holder' = [holder EXCEPT ![at[s]] = s]
            /\ GoTo(s, "probed")
            /\ UNCHANGED at
       ELSE /\ GoTo(s, IF at[s] = LastPort THEN "done" ELSE "scan")
            /\ at' = [at EXCEPT ![s] = IF @ = LastPort THEN @ ELSE @ + 1]
            /\ UNCHANGED holder
    /\ UNCHANGED <<engine, slot, signal, serving, dartVars, overlapped>>

\* The probing listener is dropped, the port is anyone's.
LetGo(s) ==
    /\ pc[s] = "probed"
    /\ holder' = [holder EXCEPT ![at[s]] = None]
    /\ GoTo(s, "picked")
    /\ UNCHANGED <<engine, at, slot, signal, serving, dartVars, overlapped>>

\* Mutant of Bind: the picked port is taken to be free still.
BindRegardless(s) ==
    /\ pc[s] = "picked"
    /\ holder' = [holder EXCEPT ![at[s]] = s]
    /\ GoTo(s, "bound")
    /\ UNCHANGED <<engine, at, slot, signal, serving, dartVars, overlapped>>

\* TcpListener::bind on the picked port: Err if it was taken meanwhile.
Bind(s) ==
    /\ pc[s] = "picked"
    /\ IF holder[at[s]] = None
       THEN holder' = [holder EXCEPT ![at[s]] = s] /\ GoTo(s, "bound")
       ELSE GoTo(s, "done") /\ UNCHANGED holder
    /\ UNCHANGED <<engine, at, slot, signal, serving, dartVars, overlapped>>

\* Mutant of Store: the first server's sender is kept elsewhere.
StoreKeepsOld(s) ==
    /\ pc[s] = "bound"
    /\ slot' = s
    /\ GoTo(s, "stored")
    /\ UNCHANGED <<engine, holder, at, signal, serving, dartVars, overlapped>>

\* The sender goes into the slot; one that was there is dropped.
Store(s) ==
    /\ pc[s] = "bound"
    /\ slot' = s
    /\ signal' = IF slot = None THEN signal ELSE [signal EXCEPT ![slot] = "dropped"]
    /\ GoTo(s, "stored")
    /\ UNCHANGED <<engine, holder, at, serving, dartVars, overlapped>>

\* The server's task is spawned and Ok(endpoint) returned.
Spawn(s) ==
    /\ pc[s] = "stored"
    /\ serving' = serving \cup {s}
    /\ GoTo(s, "returned")
    /\ UNCHANGED <<engine, holder, at, slot, signal, dartVars, overlapped>>

\* Dart goes on: the flag is set, and the port if init has completed.
StartReturns(s) ==
    /\ pc[s] = "returned"
    /\ GoTo(s, "done")
    /\ running' = TRUE
    /\ selfPort' = IF selfPort = None THEN None ELSE at[s]
    /\ UNCHANGED <<engine, holder, at, slot, signal, serving, overlapped>>

\* Mutant of Shutdown: only a message stops the server, not a dropped sender.
ShutdownIfSent(s) ==
    /\ s \in serving
    /\ signal[s] = "sent"
    /\ serving' = serving \ {s}
    /\ holder' = [holder EXCEPT ![at[s]] = None]
    /\ UNCHANGED <<pc, engine, at, slot, signal, dartVars, overlapped>>

\* The server's task: shutdown_rx resolves, sent to or dropped, and the
\* listener is closed.  Requests under way are left to finish.
Shutdown(s) ==
    /\ s \in serving
    /\ signal[s] # "none"
    /\ serving' = serving \ {s}
    /\ holder' = [holder EXCEPT ![at[s]] = None]
    /\ UNCHANGED <<pc, engine, at, slot, signal, dartVars, overlapped>>

-----------------------------------------------------------------------------
(* stopServer.                                                             *)

BeginStop(k) ==
    /\ Begin(k, "stopping")
    /\ UNCHANGED <<engine, holder, at, slot, signal, serving, dartVars>>

\* stop_server takes the sender and sends; the server's task sees it later.
Take(k) ==
    /\ pc[k] = "stopping"
    /\ slot' = None
    /\ signal' = IF slot = None THEN signal ELSE [signal EXCEPT ![slot] = "sent"]
    /\ GoTo(k, "returned")
    /\ UNCHANGED <<engine, holder, at, serving, dartVars, overlapped>>

\* Mutant of StopReturns: the flag stays.
StopReturnsForgets(k) ==
    /\ pc[k] = "returned"
    /\ GoTo(k, "done")
    /\ UNCHANGED <<engine, holder, at, slot, signal, serving, dartVars, overlapped>>

StopReturns(k) ==
    /\ pc[k] = "returned"
    /\ GoTo(k, "done")
    /\ running' = FALSE
    /\ UNCHANGED <<engine, holder, at, slot, signal, serving, selfPort, overlapped>>

-----------------------------------------------------------------------------
OtherBinds(p) ==
    /\ holder[p] = None
    /\ holder' = [holder EXCEPT ![p] = Other]
    /\ UNCHANGED <<pc, engine, at, slot, signal, serving, dartVars, overlapped>>

OtherCloses(p) ==
    /\ holder[p] = Other
    /\ holder' = [holder EXCEPT ![p] = None]
    /\ UNCHANGED <<pc, engine, at, slot, signal, serving, dartVars, overlapped>>

InitStep(i) == InitFails(i) \/ SetEngine(i) \/ InitReturns(i)

StartStep(s) == Probe(s) \/ LetGo(s) \/ Bind(s) \/ Store(s) \/ Spawn(s) \/ StartReturns(s)

StopStep(k) == Take(k) \/ StopReturns(k)

Next ==
    \/ \E i \in Inits : BeginInit(i) \/ InitStep(i)
    \/ \E s \in Starts : BeginStart(s) \/ BeginEnsure(s) \/ StartStep(s) \/ Shutdown(s)
    \/ \E k \in Stops : BeginStop(k) \/ StopStep(k)
    \/ \E p \in Ports : OtherBinds(p) \/ OtherCloses(p)

\* A call that was made goes on, and the server's task is polled when its
\* receiver is ready; nobody is obliged to call, or to leave a port alone.
Fairness ==
    /\ \A i \in Inits : WF_vars(InitStep(i))
    /\ \A s \in Starts : WF_vars(StartStep(s)) /\ WF_vars(Shutdown(s))
    /\ \A k \in Stops : WF_vars(StopStep(k))

Spec == Init /\ [][Next]_vars

FairSpec == Spec /\ Fairness

-----------------------------------------------------------------------------
(* Properties.                                                             *)

\* The program's variables have their types (runtime.rs:19-38, api/mod.rs:69-135).
TypeOK ==
    /\ pc \in [Calls -> {"idle", "creating", "scan", "probed", "picked", "bound", "stored",
                         "stopping", "returned", "done"}]
    /\ engine \in Inits \cup {None}
    /\ holder \in [Ports -> Starts \cup {Other, None}]
    /\ at \in [Starts -> Ports]
    /\ slot \in Starts \cup {None}
    /\ signal \in [Starts -> {"none", "sent", "dropped"}]
    /\ serving \subseteq Starts
    /\ running \in BOOLEAN
    /\ selfPort \in Nat \cup {None}
    /\ overlapped \in BOOLEAN

\* A server whose sender is stored and that nothing has told to stop.
Standing(s) == (s \in serving \/ pc[s] = "stored") /\ signal[s] = "none"

\* No server runs that stop_server cannot reach: of any number of overlapping
\* starts at most one is not told to stop, and it is the slot's (api/mod.rs:105-106,
\* 129-135).
NoOrphanServer == \A s \in Starts : Standing(s) => slot = s

\* A server not told to stop listens on the port its start returned, although
\* the port was free for others after it was picked (resolve.rs:29-34,
\* api/mod.rs:97-103).
EndpointIsLive == \A s \in Starts : Standing(s) => holder[at[s]] = s

\* A server told to stop, by stop_server or by a later start, lets go of its
\* port (api/mod.rs:108-115).
StoppedLetsGo == \A s \in Starts : signal[s] # "none" ~> holder[at[s]] # s

\* Dart's view between calls, when its calls never overlapped: the server is
\* running if and only if Rust can stop one, and the port this device announces
\* is the one it listens on (filedrop_ffi_service.dart:87-120).
DartKnows ==
    (Quiet /\ ~overlapped) =>
        /\ running <=> slot # None
        /\ running => selfPort \in Ports /\ holder[selfPort] = slot

\* Whoever was told Ok by init_engine got the engine every later call works on,
\* and Dart knows itself only with an engine there, also when calls of init
\* overlap: each passes Dart's check and builds an engine of its own
\* (api/mod.rs:69-91, filedrop_ffi_service.dart:39-85).
EngineIsTheirs ==
    /\ \A i \in Inits : pc[i] = "returned" => engine = i
    /\ selfPort # None => engine # None
=============================================================================
