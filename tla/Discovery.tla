----------------------------- MODULE Discovery ------------------------------
(***************************************************************************)
(* Starting and stopping discovery: start_discovery and stop_discovery of  *)
(* rust/filedrop-ffi/src/api/mod.rs, the DiscoveryService they hand over   *)
(* in the runtime's slot, and the tasks it leaves behind                   *)
(* (rust/filedrop-core/src/discovery).                                     *)
(*                                                                         *)
(* Dart awaits neither call, so they run in any order on the runtime's     *)
(* threads.  Each call of start_discovery makes a service of its own: it   *)
(* is named by that call.  stop_discovery holds the slot's lock until it   *)
(* returns: the guard is a temporary of its `if let`.                      *)
(*                                                                         *)
(* The UDP port is bound exclusively, and its listener looks at `running`  *)
(* only between two datagrams; it ignores this device's own.  The mDNS     *)
(* task does not: this device's registration is resolved, cached and       *)
(* announced like any other.  A device on its way from a mechanism is      *)
(* held by that mechanism's forwarder: the channels (32 slots) before and  *)
(* after it only move the moment at which a producer waits.                *)
(***************************************************************************)
EXTENDS Naturals

CONSTANTS
    Starts,     \* calls of start_discovery, and the services they make
    Stops,      \* calls of stop_discovery
    Peers,      \* devices other than this one
    Self,       \* this device
    MaxReports, \* bound: how many devices the mechanisms report
    None

ASSUME DiscoveryAssumption ==
    /\ MaxReports \in Nat
    /\ None \notin Starts
    /\ Self \notin Peers
    /\ None \notin Peers \cup {Self}

Mechanisms == {"mdns", "udp"}

\* What a mechanism may report: only the UDP listener compares device ids.
Devices(m) == IF m = "mdns" THEN Peers \cup {Self} ELSE Peers

Idle(at) == [at |-> at, device |-> None]
Holding(at, p) == [at |-> at, device |-> p]

VARIABLES
    start,      \* where each call of start_discovery is
    stop,       \* where each call of stop_discovery is
    target,     \* the service each stop took from the slot
    slot,       \* runtime().discovery
    lock,       \* the stop that holds its lock
    running,    \* UdpBroadcastDiscovery::running, by service
    port,       \* the service whose socket has port 53318
    announcer,  \* the announcer task of each service
    listener,   \* its listener task
    browsing,   \* whether its mDNS daemon still browses
    browser,    \* its mDNS task
    forwarder,  \* its two forwarders, with the device each has
    cache,      \* DiscoveryService::devices
    events,     \* observer: the devices it emitted DeviceDiscovered for
    reports     \* bound: how many devices were reported so far

callVars == <<start, stop, target, slot, lock>>
udpVars == <<running, port, announcer, listener>>
mdnsVars == <<browsing, browser>>
deviceVars == <<forwarder, cache, events, reports>>
vars == <<callVars, udpVars, mdnsVars, deviceVars>>

Init ==
    /\ start = [s \in Starts |-> "idle"]
    /\ stop = [o \in Stops |-> "idle"]
    /\ target = [o \in Stops |-> None]
    /\ slot = None
    /\ lock = None
    /\ running = [s \in Starts |-> FALSE]
    /\ port = None
    /\ announcer = [s \in Starts |-> "none"]
    /\ listener = [s \in Starts |-> "none"]
    /\ browsing = [s \in Starts |-> FALSE]
    /\ browser = [s \in Starts |-> "none"]
    /\ forwarder = [s \in Starts |-> [m \in Mechanisms |-> Idle("none")]]
    /\ cache = [s \in Starts |-> {}]
    /\ events = [s \in Starts |-> {}]
    /\ reports = 0

-----------------------------------------------------------------------------
(* start_discovery.                                                        *)

StartGoes(s, from, to) ==
    /\ start[s] = from
    /\ start' = [start EXCEPT ![s] = to]

\* DiscoveryService::new, then mdns.advertise.
Advertise(s) ==
    /\ StartGoes(s, "idle", "advertised")
    /\ UNCHANGED <<stop, target, slot, lock, udpVars, mdnsVars, deviceVars>>

\* mdns.browse, and the task that forwards what it finds.
Browse(s) ==
    /\ StartGoes(s, "advertised", "browsed")
    /\ browsing' = [browsing EXCEPT ![s] = TRUE]
    /\ browser' = [browser EXCEPT ![s] = "recv"]
    /\ forwarder' = [forwarder EXCEPT ![s]["mdns"] = Idle("recv")]
    /\ UNCHANGED <<stop, target, slot, lock, udpVars, cache, events, reports>>

\* Mutant of CanBind: the port is bound with SO_REUSEADDR.
CanBindReuse(s) == TRUE

\* The port of the listener's socket is nobody else's.
CanBind(s) == port = None

\* udp.start: the flag, the two sockets, the announcer, listener and forwarder.
BindUdp(s) ==
    /\ CanBind(s)
    /\ StartGoes(s, "browsed", "bound")
    /\ running' = [running EXCEPT ![s] = TRUE]
    /\ port' = s
    /\ announcer' = [announcer EXCEPT ![s] = "check"]
    /\ listener' = [listener EXCEPT ![s] = "check"]
    /\ forwarder' = [forwarder EXCEPT ![s]["udp"] = Idle("recv")]
    /\ UNCHANGED <<stop, target, slot, lock, mdnsVars, cache, events, reports>>

\* The service enters the slot, whatever is there, and its events are emitted.
StoreService(s) ==
    /\ lock = None
    /\ StartGoes(s, "bound", "done")
    /\ slot' = s
    /\ UNCHANGED <<stop, target, lock, udpVars, mdnsVars, deviceVars>>

\* Any step of service.start may fail, the bind for one while another service
\* has the port.  The call ends, the mDNS tasks it has spawned do not.
StartFails(s) ==
    /\ start[s] \in {"idle", "advertised", "browsed"}
    /\ start' = [start EXCEPT ![s] = "failed"]
    /\ running' = [running EXCEPT ![s] = start[s] = "browsed"]
    /\ UNCHANGED <<stop, target, slot, lock, port, announcer, listener, mdnsVars, deviceVars>>

-----------------------------------------------------------------------------
(* stop_discovery.                                                         *)

StopGoes(o, from, to) ==
    /\ stop[o] = from
    /\ stop' = [stop EXCEPT ![o] = to]

\* An empty slot makes the call a no-op; its guard lives until it returns.
StopNothing(o) ==
    /\ lock = None
    /\ slot = None
    /\ StopGoes(o, "idle", "done")
    /\ UNCHANGED <<start, target, slot, lock, udpVars, mdnsVars, deviceVars>>

\* mdns.stop ends the browsing, or fails to, which is ignored; the
\* advertisement stays registered.
TakeService(o) ==
    /\ lock = None
    /\ slot # None
    /\ StopGoes(o, "idle", "browse")
    /\ target' = [target EXCEPT ![o] = slot]
    /\ slot' = None
    /\ lock' = o
    /\ \/ browsing' = [browsing EXCEPT ![slot] = FALSE]
       \/ UNCHANGED browsing
    /\ UNCHANGED <<start, udpVars, browser, deviceVars>>

\* udp.stop only clears the flag.
ClearRunning(o) ==
    /\ StopGoes(o, "browse", "flag")
    /\ running' = [running EXCEPT ![target[o]] = FALSE]
    /\ UNCHANGED <<start, target, slot, lock, port, announcer, listener, mdnsVars, deviceVars>>

ClearDevices(o) ==
    /\ StopGoes(o, "flag", "done")
    /\ cache' = [cache EXCEPT ![target[o]] = {}]
    /\ lock' = None
    /\ UNCHANGED <<start, target, slot, udpVars, mdnsVars, forwarder, events, reports>>

-----------------------------------------------------------------------------
(* The announcer and listener tasks.                                       *)

\* At first, and whenever its sleep of five seconds is over.
AnnouncerChecks(s) ==
    /\ announcer[s] = "check"
    /\ announcer' = [announcer EXCEPT ![s] = IF running[s] THEN "send" ELSE "ended"]
    /\ UNCHANGED <<callVars, running, port, listener, mdnsVars, deviceVars>>

\* The datagram is broadcast: it may come back to the listener that has the
\* port, which ignores it and looks at its flag.
Announce(s) ==
    /\ announcer[s] = "send"
    /\ announcer' = [announcer EXCEPT ![s] = "check"]
    /\ \/ UNCHANGED listener
       \/ /\ port # None
          /\ listener[port] = "recv"
          /\ listener' = [listener EXCEPT ![port] = "check"]
    /\ UNCHANGED <<callVars, running, port, mdnsVars, deviceVars>>

\* Mutant of KeepsListening: the listener's loop has no condition.
ListensForever(s) == TRUE

KeepsListening(s) == running[s]

\* The flag is off: the task ends, and its socket is closed.
ListenerChecks(s) ==
    /\ listener[s] = "check"
    /\ IF KeepsListening(s)
       THEN /\ listener' = [listener EXCEPT ![s] = "recv"]
            /\ UNCHANGED port
       ELSE /\ listener' = [listener EXCEPT ![s] = "ended"]
            /\ port' = None
    /\ UNCHANGED <<callVars, running, announcer, mdnsVars, deviceVars>>

\* Mutant of IgnoreDatagram: the device's own announcements are not filtered.
ForwardsOwn(s) ==
    /\ listener[s] = "recv"
    /\ forwarder[s]["udp"] = Idle("recv")
    /\ listener' = [listener EXCEPT ![s] = "check"]
    /\ forwarder' = [forwarder EXCEPT ![s]["udp"] = Holding("insert", Self)]
    /\ UNCHANGED <<callVars, running, port, announcer, mdnsVars, cache, events, reports>>

\* Another device to report: the bound on how many.
Report ==
    /\ reports < MaxReports
    /\ reports' = reports + 1

\* A datagram arrives that is malformed, of another program or this device's own,
\* or recv_from fails.
IgnoreDatagram(s) ==
    /\ listener[s] = "recv"
    /\ listener' = [listener EXCEPT ![s] = "check"]
    /\ UNCHANGED <<callVars, running, port, announcer, mdnsVars, deviceVars>>

ReceiveDatagram(s, d) ==
    /\ Report
    /\ listener[s] = "recv"
    /\ forwarder[s]["udp"] = Idle("recv")
    /\ listener' = [listener EXCEPT ![s] = "check"]
    /\ forwarder' = [forwarder EXCEPT ![s]["udp"] = Holding("insert", d)]
    /\ UNCHANGED <<callVars, running, port, announcer, mdnsVars, cache, events>>

-----------------------------------------------------------------------------
(* The mDNS task, the forwarders and the event task.                       *)

ResolveService(s, d) ==
    /\ Report
    /\ browser[s] = "recv"
    /\ browsing[s]
    /\ forwarder[s]["mdns"] = Idle("recv")
    /\ forwarder' = [forwarder EXCEPT ![s]["mdns"] = Holding("insert", d)]
    /\ UNCHANGED <<callVars, udpVars, mdnsVars, cache, events>>

\* The channel is closed by stop_browse; or the forwarder is gone, which the
\* task notices when it resolves another device.
BrowserEnds(s) ==
    /\ browser[s] = "recv"
    /\ ~browsing[s] \/ forwarder[s]["mdns"] = Idle("ended")
    /\ browser' = [browser EXCEPT ![s] = "ended"]
    /\ UNCHANGED <<callVars, udpVars, browsing, deviceVars>>

\* Mutant of CacheDevice: try_write, and nothing when the lock is taken.
CacheDeviceIfFree(s, m) ==
    /\ forwarder[s][m].at = "insert"
    /\ forwarder' = [forwarder EXCEPT ![s][m].at = "send"]
    /\ \/ cache' = [cache EXCEPT ![s] = @ \cup {forwarder[s][m].device}]
       \/ UNCHANGED cache
    /\ UNCHANGED <<callVars, udpVars, mdnsVars, events, reports>>

\* forward_devices: the device is in the cache before it is sent on.
CacheDevice(s, m) ==
    /\ forwarder[s][m].at = "insert"
    /\ forwarder' = [forwarder EXCEPT ![s][m].at = "send"]
    /\ cache' = [cache EXCEPT ![s] = @ \cup {forwarder[s][m].device}]
    /\ UNCHANGED <<callVars, udpVars, mdnsVars, events, reports>>

\* The events of a service are emitted once its start is over.
EmitDevice(s, m) ==
    /\ start[s] = "done"
    /\ forwarder[s][m].at = "send"
    /\ events' = [events EXCEPT ![s] = @ \cup {forwarder[s][m].device}]
    /\ forwarder' = [forwarder EXCEPT ![s][m] = Idle("recv")]
    /\ UNCHANGED <<callVars, udpVars, mdnsVars, cache, reports>>

\* The producer has ended, or the receiver went with a start that failed.
ForwarderEnds(s, m) ==
    /\ \/ /\ forwarder[s][m].at = "recv"
          /\ IF m = "mdns" THEN browser[s] = "ended" ELSE listener[s] = "ended"
       \/ /\ forwarder[s][m].at = "send"
          /\ start[s] = "failed"
    /\ forwarder' = [forwarder EXCEPT ![s][m] = Idle("ended")]
    /\ UNCHANGED <<callVars, udpVars, mdnsVars, cache, events, reports>>

-----------------------------------------------------------------------------

StartStep(s) ==
    Advertise(s) \/ Browse(s) \/ BindUdp(s) \/ StoreService(s) \/ StartFails(s)

StopStep(o) == StopNothing(o) \/ TakeService(o) \/ ClearRunning(o) \/ ClearDevices(o)

AnnouncerStep(s) == AnnouncerChecks(s) \/ Announce(s)

Datagram(s) == IgnoreDatagram(s) \/ \E d \in Devices("udp") : ReceiveDatagram(s, d)

ForwarderStep(s, m) == CacheDevice(s, m) \/ EmitDevice(s, m) \/ ForwarderEnds(s, m)

Next ==
    \/ \E s \in Starts :
        \/ StartStep(s) \/ AnnouncerStep(s) \/ ListenerChecks(s) \/ Datagram(s) \/ BrowserEnds(s)
        \/ \E m \in Mechanisms : ForwarderStep(s, m)
        \/ \E d \in Devices("mdns") : ResolveService(s, d)
    \/ \E o \in Stops : StopStep(o)

Spec == Init /\ [][Next]_vars

\* The runtime polls every task that can run, and calls that were made go on.
\* Nothing is said of the network, nor of the forwarders, which no stop awaits.
TasksFair ==
    /\ \A s \in Starts :
        /\ WF_vars(start[s] # "idle" /\ StartStep(s))
        /\ WF_vars(AnnouncerStep(s))
        /\ WF_vars(ListenerChecks(s))
        /\ WF_vars(BrowserEnds(s))
    /\ \A o \in Stops : WF_vars(stop[o] # "idle" /\ StopStep(o))

FairSpec == Spec /\ TasksFair

-----------------------------------------------------------------------------
(* Properties.                                                             *)

\* The types.  No datagram brings this device to its own list: its id is
\* compared (udp_broadcast.rs:107); what mDNS resolves is not filtered.
TypeOK ==
    /\ start \in [Starts -> {"idle", "advertised", "browsed", "bound", "done", "failed"}]
    /\ stop \in [Stops -> {"idle", "browse", "flag", "done"}]
    /\ target \in [Stops -> Starts \cup {None}]
    /\ slot \in Starts \cup {None}
    /\ lock \in Stops \cup {None}
    /\ running \in [Starts -> BOOLEAN]
    /\ port \in Starts \cup {None}
    /\ announcer \in [Starts -> {"none", "check", "send", "ended"}]
    /\ listener \in [Starts -> {"none", "check", "recv", "ended"}]
    /\ browsing \in [Starts -> BOOLEAN]
    /\ browser \in [Starts -> {"none", "recv", "ended"}]
    /\ forwarder \in [Starts -> [Mechanisms ->
            [at : {"none", "recv", "ended"}, device : {None}]
                \cup [at : {"insert", "send"}, device : Peers \cup {Self}]]]
    /\ \A s \in Starts : forwarder[s]["udp"].device # Self
    /\ cache \in [Starts -> SUBSET (Peers \cup {Self})]
    /\ events \in [Starts -> SUBSET (Peers \cup {Self})]
    /\ reports \in 0..MaxReports

Listening(s) == listener[s] \in {"check", "recv"}

Stopping(s) == \E o \in Stops : stop[o] = "browse" /\ target[o] = s

\* A service that is announcing and listening can be stopped: it is the one in
\* the slot, or its start has yet to put it there, or a stop is at it.  Nothing
\* keeps a second start from replacing the service in the slot but the port
\* that the first one holds (api/mod.rs:143-171, udp_broadcast.rs:62-64).
NoOrphan ==
    \A s \in Starts : Listening(s) /\ running[s] => slot = s \/ start[s] = "bound" \/ Stopping(s)

\* The port is the socket's whose listener is alive: at most one is.
PortHeld == \A s \in Starts : port = s <=> Listening(s)

\* A service is not stopped before it is in the slot, so its tasks are on.
BoundRuns == \A s \in Starts : start[s] = "bound" => Listening(s) /\ running[s]

\* A service whose start has not bound the port has no listener.
UnboundSilent ==
    \A s \in Starts : start[s] \in {"idle", "advertised", "browsed", "failed"} => listener[s] = "none"

\* What is in the slot, or taken from it, is a service whose start is over.
SlotIsDone ==
    /\ slot # None => start[slot] = "done"
    /\ \A o \in Stops : stop[o] \in {"browse", "flag"} => target[o] # None
    /\ \A o \in Stops : stop[o] = "browse" => start[target[o]] = "done"

\* NoOrphan with what makes it inductive.
IInv == TypeOK /\ NoOrphan /\ PortHeld /\ BoundRuns /\ UnboundSilent /\ SlotIsDone

\* Whoever hears DeviceDiscovered from the running service finds the device in
\* get_nearby_devices (mod.rs:81-92, api/mod.rs:173-186).
AnnouncedIsListed == slot # None => events[slot] \subseteq cache[slot]

\* stop_discovery has returned, and it was this service that it stopped.
Stopped(s) == \E o \in Stops : stop[o] = "done" /\ target[o] = s

\* What a stop does bring about, whatever starts follow it.  The announcer
\* ends by itself and so does the mDNS task, unless stop_browse failed.  The
\* listener ends, and gives up port 53318, once it is out of recv_from: it
\* takes one more datagram to get it there, which nothing guarantees
\* (api/mod.rs:164-171, udp_broadcast.rs:88, 99-101, 127-130).
StopWindsDown ==
    \A s \in Starts :
        /\ Stopped(s) ~> announcer[s] = "ended" /\ (browser[s] = "ended" \/ browsing[s])
        /\ (Stopped(s) /\ listener[s] # "recv") ~> port # s
=============================================================================
