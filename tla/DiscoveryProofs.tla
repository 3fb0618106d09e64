--------------------------- MODULE DiscoveryProofs --------------------------
(***************************************************************************)
(* Proofs about Discovery: for any number of starts, stops and devices, a  *)
(* service that is announcing and listening can be stopped.                *)
(***************************************************************************)
EXTENDS Discovery, TLAPS

LEMMA InitIInv == Init => IInv
  <1> SUFFICES ASSUME Init PROVE IInv
    OBVIOUS
  <1>1. TypeOK
    BY DiscoveryAssumption DEF Init, TypeOK, Idle, Mechanisms
  <1>2. NoOrphan /\ PortHeld /\ BoundRuns /\ UnboundSilent /\ SlotIsDone
    BY DiscoveryAssumption
       DEF Init, NoOrphan, PortHeld, BoundRuns, UnboundSilent, SlotIsDone, Listening
  <1> QED
    BY <1>1, <1>2 DEF IInv

\* A forwarder that lets go of its device.
LEMMA IdleKeeps ==
    ASSUME TypeOK, NEW s \in Starts, NEW m \in Mechanisms, NEW at \in {"recv", "ended"},
           forwarder' = [forwarder EXCEPT ![s][m] = Idle(at)]
    PROVE  /\ forwarder' \in [Starts -> [Mechanisms ->
                  [at : {"none", "recv", "ended"}, device : {None}]
                      \cup [at : {"insert", "send"}, device : Peers \cup {Self}]]]
           /\ \A t \in Starts : forwarder'[t]["udp"].device # Self
  <1>1. \A t \in Starts : forwarder'[t]["udp"] = forwarder[t]["udp"] \/ forwarder'[t]["udp"] = Idle(at)
    BY DEF TypeOK, Mechanisms
  <1>2. Idle(at).device # Self
    BY DiscoveryAssumption DEF Idle
  <1>3. \A t \in Starts : forwarder'[t]["udp"].device # Self
    BY <1>1, <1>2 DEF TypeOK
  <1>4. Idle(at) \in [at : {"none", "recv", "ended"}, device : {None}]
    BY DEF Idle
  <1> QED
    BY <1>3, <1>4 DEF TypeOK

\* Every step keeps the types.
LEMMA TypeStep == TypeOK /\ SlotIsDone /\ [Next]_vars => TypeOK'
  <1> SUFFICES ASSUME TypeOK, SlotIsDone, [Next]_vars PROVE TypeOK'
    OBVIOUS
  <1> USE DEF TypeOK, Mechanisms
  <1>1. ASSUME NEW s \in Starts, StartStep(s) PROVE TypeOK'
    <2>1. CASE Advertise(s)
      BY <2>1 DEF Advertise, StartGoes, udpVars, mdnsVars, deviceVars
    <2>2. CASE Browse(s)
      <3>1. \A t \in Starts : forwarder'[t]["udp"] = forwarder[t]["udp"]
        BY <2>2 DEF Browse
      <3> QED
        BY <2>2, <3>1 DEF Browse, StartGoes, Idle, udpVars
    <2>3. CASE BindUdp(s)
      BY <2>3, DiscoveryAssumption DEF BindUdp, StartGoes, Idle, mdnsVars
    <2>4. CASE StoreService(s)
      BY <2>4 DEF StoreService, StartGoes, udpVars, mdnsVars, deviceVars
    <2>5. CASE StartFails(s)
      BY <2>5 DEF StartFails, mdnsVars, deviceVars
    <2> QED
      BY <1>1, <2>1, <2>2, <2>3, <2>4, <2>5 DEF StartStep
  <1>2. ASSUME NEW o \in Stops, StopStep(o) PROVE TypeOK'
    <2>1. CASE StopNothing(o)
      BY <2>1 DEF StopNothing, StopGoes, udpVars, mdnsVars, deviceVars
    <2>2. CASE TakeService(o)
      BY <2>2 DEF TakeService, StopGoes, udpVars, deviceVars
    <2>3. CASE ClearRunning(o)
      BY <2>3 DEF ClearRunning, StopGoes, mdnsVars, deviceVars
    <2>4. CASE ClearDevices(o)
      BY <2>4 DEF ClearDevices, StopGoes, udpVars, mdnsVars
    <2> QED
      BY <1>2, <2>1, <2>2, <2>3, <2>4 DEF StopStep
  <1>3. ASSUME NEW s \in Starts,
               AnnouncerStep(s) \/ ListenerChecks(s) \/ Datagram(s) \/ BrowserEnds(s)
        PROVE TypeOK'
    <2>1. CASE AnnouncerStep(s)
      BY <2>1 DEF AnnouncerStep, AnnouncerChecks, Announce, callVars, mdnsVars, deviceVars
    <2>2. CASE ListenerChecks(s)
      BY <2>2 DEF ListenerChecks, callVars, mdnsVars, deviceVars
    <2>3. CASE IgnoreDatagram(s)
      BY <2>3 DEF IgnoreDatagram, callVars, mdnsVars, deviceVars
    <2>4. ASSUME NEW d \in Devices("udp"), ReceiveDatagram(s, d) PROVE TypeOK'
      <3>1. d \in Peers /\ d # Self
        BY DiscoveryAssumption DEF Devices
      <3>2. reports' \in 0..MaxReports
        BY <2>4, DiscoveryAssumption DEF ReceiveDatagram, Report
      <3> QED
        BY <2>4, <3>1, <3>2 DEF ReceiveDatagram, Holding, callVars, mdnsVars
    <2>5. CASE BrowserEnds(s)
      BY <2>5 DEF BrowserEnds, callVars, udpVars, deviceVars
    <2> QED
      BY <1>3, <2>1, <2>2, <2>3, <2>4, <2>5 DEF Datagram
  <1>4. ASSUME NEW s \in Starts, NEW m \in Mechanisms, ForwarderStep(s, m) PROVE TypeOK'
    <2>1. CASE CacheDevice(s, m)
      <3>0. forwarder[s][m] \in [at : {"insert"}, device : Peers \cup {Self}]
        <4>1. forwarder[s][m].at = "insert"
          BY <2>1 DEF CacheDevice
        <4>2. \/ forwarder[s][m] \in [at : {"none", "recv", "ended"}, device : {None}]
              \/ forwarder[s][m] \in [at : {"insert", "send"}, device : Peers \cup {Self}]
          OBVIOUS
        <4> QED
          BY <4>1, <4>2
      <3>1. PICK d \in Peers \cup {Self} : forwarder[s][m] = [at |-> "insert", device |-> d]
        BY <3>0
      <3>2. \A t \in Starts : forwarder'[t]["udp"].device = forwarder[t]["udp"].device
        BY <2>1 DEF CacheDevice
      <3>3. forwarder' \in [Starts -> [Mechanisms ->
                [at : {"none", "recv", "ended"}, device : {None}]
                    \cup [at : {"insert", "send"}, device : Peers \cup {Self}]]]
        BY <2>1, <3>1 DEF CacheDevice
      <3> QED
        BY <2>1, <3>1, <3>2, <3>3 DEF CacheDevice, callVars, udpVars, mdnsVars
    <2>2. CASE EmitDevice(s, m)
      <3>1. forwarder[s][m].device \in Peers \cup {Self}
        <4>1. forwarder[s][m].at = "send"
          BY <2>2 DEF EmitDevice
        <4>2. \/ forwarder[s][m] \in [at : {"none", "recv", "ended"}, device : {None}]
              \/ forwarder[s][m] \in [at : {"insert", "send"}, device : Peers \cup {Self}]
          OBVIOUS
        <4> QED
          BY <4>1, <4>2
      <3>2. /\ forwarder' = [forwarder EXCEPT ![s][m] = Idle("recv")]
            /\ events' \in [Starts -> SUBSET (Peers \cup {Self})]
            /\ UNCHANGED <<callVars, udpVars, mdnsVars, cache, reports>>
        BY <2>2, <3>1 DEF EmitDevice
      <3> QED
        BY <1>4, <3>2, IdleKeeps DEF callVars, udpVars, mdnsVars
    <2>3. CASE ForwarderEnds(s, m)
      BY <1>4, <2>3, IdleKeeps DEF ForwarderEnds, callVars, udpVars, mdnsVars
    <2> QED
      BY <1>4, <2>1, <2>2, <2>3 DEF ForwarderStep
  <1>5. ASSUME NEW s \in Starts, NEW d \in Devices("mdns"), ResolveService(s, d) PROVE TypeOK'
    <2>1. d \in Peers \cup {Self}
      BY DEF Devices
    <2>2. reports' \in 0..MaxReports
      BY <1>5, DiscoveryAssumption DEF ResolveService, Report
    <2> QED
      BY <1>5, <2>1, <2>2 DEF ResolveService, Holding, callVars, udpVars, mdnsVars
  <1>6. CASE UNCHANGED vars
    BY <1>6 DEF vars, callVars, udpVars, mdnsVars, deviceVars
  <1> QED
    BY <1>1, <1>2, <1>3, <1>4, <1>5, <1>6 DEF Next
-----------------------------------------------------------------------------
(* A running listener stays within reach of a stop.                        *)

\* The variables the invariant speaks of, when a step leaves them alone.
LEMMA Untouched ==
    ASSUME IInv, TypeOK',
           UNCHANGED <<start, stop, target, slot, running, port, listener>>
    PROVE  IInv'
  BY DEF IInv, NoOrphan, PortHeld, BoundRuns, UnboundSilent, SlotIsDone, Listening, Stopping

\* A step of start_discovery.
LEMMA StartKeeps ==
    ASSUME IInv, TypeOK', NEW s \in Starts, StartStep(s)
    PROVE  IInv'
  <1> USE DiscoveryAssumption DEF IInv, NoOrphan, PortHeld, BoundRuns, UnboundSilent, SlotIsDone,
                                  Listening, Stopping
  <1>0. /\ slot \in Starts \cup {None} /\ port \in Starts \cup {None}
        /\ \A q \in Stops : target[q] \in Starts \cup {None}
    BY DEF TypeOK
  <1>1. CASE Advertise(s) \/ Browse(s)
    <2>1. UNCHANGED <<stop, target, slot, running, port, listener>>
      BY <1>1 DEF Advertise, Browse, udpVars
    <2>2. /\ start[s] \in {"idle", "advertised"}
          /\ start'[s] \in {"advertised", "browsed"}
          /\ \A t \in Starts \ {s} : start'[t] = start[t]
      BY <1>1 DEF Advertise, Browse, StartGoes, TypeOK
    <2> QED
      BY <1>0, <2>1, <2>2
  <1>2. CASE BindUdp(s)
    <2>1. /\ UNCHANGED <<stop, target, slot>>
          /\ port = None /\ port' = s
          /\ start[s] = "browsed" /\ start'[s] = "bound"
          /\ running'[s] /\ listener'[s] = "check"
          /\ \A t \in Starts \ {s} : /\ start'[t] = start[t]
                                     /\ running'[t] = running[t]
                                     /\ listener'[t] = listener[t]
      BY <1>2 DEF BindUdp, CanBind, StartGoes, TypeOK
    <2> QED
      BY <1>0, <2>1
  <1>3. CASE StoreService(s)
    <2>1. /\ UNCHANGED <<stop, target, running, port, listener>>
          /\ slot' = s
          /\ start[s] = "bound" /\ start'[s] = "done"
          /\ \A t \in Starts \ {s} : start'[t] = start[t]
      BY <1>3 DEF StoreService, StartGoes, udpVars, TypeOK
    \* The port is this service's, so the one it replaces is not listening.
    <2>2. \A t \in Starts \ {s} : ~Listening(t)
      BY <2>1
    <2> QED
      BY <1>0, <2>1, <2>2
  <1>4. CASE StartFails(s)
    <2>1. /\ UNCHANGED <<stop, target, slot, port, listener>>
          /\ start[s] \in {"idle", "advertised", "browsed"} /\ start'[s] = "failed"
          /\ \A t \in Starts \ {s} : start'[t] = start[t] /\ running'[t] = running[t]
      BY <1>4 DEF StartFails, TypeOK
    <2> QED
      BY <1>0, <2>1
  <1> QED
    BY <1>1, <1>2, <1>3, <1>4 DEF StartStep

\* A step of stop_discovery.
LEMMA StopKeeps ==
    ASSUME IInv, TypeOK', NEW o \in Stops, StopStep(o)
    PROVE  IInv'
  <1> USE DiscoveryAssumption DEF IInv, NoOrphan, PortHeld, BoundRuns, UnboundSilent, SlotIsDone,
                                  Listening, Stopping
  <1>0. /\ slot \in Starts \cup {None} /\ port \in Starts \cup {None}
        /\ \A q \in Stops : target[q] \in Starts \cup {None}
    BY DEF TypeOK
  <1>1. CASE StopNothing(o)
    <2>1. /\ UNCHANGED <<start, target, slot, running, port, listener>>
          /\ stop[o] = "idle" /\ stop'[o] = "done"
          /\ \A q \in Stops \ {o} : stop'[q] = stop[q]
      BY <1>1 DEF StopNothing, StopGoes, udpVars, TypeOK
    <2> QED
      BY <1>0, <2>1
  <1>2. CASE TakeService(o)
    <2>1. /\ UNCHANGED <<start, running, port, listener>>
          /\ slot \in Starts /\ slot' = None
          /\ stop[o] = "idle" /\ stop'[o] = "browse" /\ target'[o] = slot
          /\ \A q \in Stops \ {o} : stop'[q] = stop[q] /\ target'[q] = target[q]
      BY <1>2 DEF TakeService, StopGoes, udpVars, TypeOK
    <2> QED
      BY <1>0, <2>1
  <1>3. CASE ClearRunning(o)
    <2>1. /\ UNCHANGED <<start, target, slot, port, listener>>
          /\ stop[o] = "browse" /\ stop'[o] = "flag"
          /\ \A q \in Stops \ {o} : stop'[q] = stop[q]
          /\ target[o] \in Starts /\ ~running'[target[o]]
          /\ \A t \in Starts \ {target[o]} : running'[t] = running[t]
      BY <1>3 DEF ClearRunning, StopGoes, TypeOK
    <2> QED
      BY <1>0, <2>1
  <1>4. CASE ClearDevices(o)
    <2>1. /\ UNCHANGED <<start, target, slot, running, port, listener>>
          /\ stop[o] = "flag" /\ stop'[o] = "done"
          /\ \A q \in Stops \ {o} : stop'[q] = stop[q]
      BY <1>4 DEF ClearDevices, StopGoes, udpVars, TypeOK
    <2> QED
      BY <1>0, <2>1
  <1> QED
    BY <1>1, <1>2, <1>3, <1>4 DEF StopStep

\* A step of a listener, or of an announcer whose datagram reaches one.
LEMMA ListenerKeeps ==
    ASSUME IInv, TypeOK', NEW s \in Starts,
           AnnouncerStep(s) \/ ListenerChecks(s) \/ Datagram(s)
    PROVE  IInv'
  <1> USE DiscoveryAssumption DEF IInv, NoOrphan, PortHeld, BoundRuns, UnboundSilent, SlotIsDone,
                                  Listening, Stopping
  <1>0. /\ slot \in Starts \cup {None} /\ port \in Starts \cup {None}
        /\ \A q \in Stops : target[q] \in Starts \cup {None}
    BY DEF TypeOK
  <1>1. CASE ListenerChecks(s) /\ ~running[s]
    <2>1. /\ UNCHANGED <<start, stop, target, slot, running>>
          /\ listener[s] = "check" /\ listener'[s] = "ended" /\ port' = None
          /\ \A t \in Starts \ {s} : listener'[t] = listener[t]
      BY <1>1 DEF ListenerChecks, KeepsListening, callVars, TypeOK
    <2> QED
      BY <1>0, <1>1, <2>1
  <1>2. CASE ~(ListenerChecks(s) /\ ~running[s])
    <2>1. /\ UNCHANGED <<start, stop, target, slot, running, port>>
          /\ \A t \in Starts : Listening(t) <=> Listening(t)'
          /\ \A t \in Starts : listener[t] = "none" => listener'[t] = "none"
      <3>1. CASE AnnouncerStep(s)
        BY <3>1 DEF AnnouncerStep, AnnouncerChecks, Announce, callVars, TypeOK
      <3>2. CASE ListenerChecks(s)
        BY <1>2, <3>2 DEF ListenerChecks, KeepsListening, callVars, TypeOK
      <3>3. CASE Datagram(s)
        BY <3>3 DEF Datagram, IgnoreDatagram, ReceiveDatagram, callVars, TypeOK
      <3> QED
        BY <3>1, <3>2, <3>3
    <2> QED
      BY <1>0, <2>1
  <1> QED
    BY <1>1, <1>2

LEMMA IInvStep == IInv /\ [Next]_vars => IInv'
  <1> SUFFICES ASSUME IInv, [Next]_vars PROVE IInv'
    OBVIOUS
  <1>0. TypeOK'
    BY TypeStep DEF IInv
  <1>1. ASSUME NEW s \in Starts, StartStep(s) PROVE IInv'
    BY <1>0, <1>1, StartKeeps
  <1>2. ASSUME NEW o \in Stops, StopStep(o) PROVE IInv'
    BY <1>0, <1>2, StopKeeps
  <1>3. ASSUME NEW s \in Starts, AnnouncerStep(s) \/ ListenerChecks(s) \/ Datagram(s) PROVE IInv'
    BY <1>0, <1>3, ListenerKeeps
  <1>4. ASSUME NEW s \in Starts, BrowserEnds(s) PROVE IInv'
    BY <1>0, <1>4, Untouched DEF BrowserEnds, callVars, udpVars
  <1>5. ASSUME NEW s \in Starts, NEW m \in Mechanisms, ForwarderStep(s, m) PROVE IInv'
    BY <1>0, <1>5, Untouched DEF ForwarderStep, CacheDevice, EmitDevice, ForwarderEnds, callVars, udpVars
  <1>6. ASSUME NEW s \in Starts, NEW d \in Devices("mdns"), ResolveService(s, d) PROVE IInv'
    BY <1>0, <1>6, Untouched DEF ResolveService, callVars, udpVars
  <1>7. CASE UNCHANGED vars
    BY <1>0, <1>7, Untouched DEF vars, callVars, udpVars
  <1> QED
    BY <1>1, <1>2, <1>3, <1>4, <1>5, <1>6, <1>7 DEF Next

LEMMA Inductive == Spec => []IInv
  <1> QED
    BY InitIInv, IInvStep, PTL DEF Spec

\* The variables keep their types for any number of calls and devices, and no
\* datagram brings this device to its own list; what mDNS resolves may
\* (udp_broadcast.rs:107, mdns.rs:69-98, api/mod.rs:137-186).
THEOREM TypeCorrect == Spec => []TypeOK
  <1>1. IInv => TypeOK
    BY DEF IInv
  <1> QED
    BY <1>1, Inductive, PTL

\* However starts and stops overlap, a service that is announcing and listening
\* is within reach of a stop (api/mod.rs:143-171, udp_broadcast.rs:58-131).
THEOREM RunningCanBeStopped == Spec => []NoOrphan
  <1>1. IInv => NoOrphan
    BY DEF IInv
  <1> QED
    BY <1>1, Inductive, PTL

-----------------------------------------------------------------------------
(* What was announced is listed.                                           *)

\* A service that no stop has taken lists what it announced and what it is
\* about to announce: only its own stop clears its cache.
ListedUntilStopped ==
    \A s \in Starts : (\A o \in Stops : target[o] # s) =>
        /\ events[s] \subseteq cache[s]
        /\ \A m \in Mechanisms : forwarder[s][m].at = "send" => forwarder[s][m].device \in cache[s]

\* What a stop has taken, and it takes once, never comes back to the slot.
TakenIsGone ==
    \A o \in Stops : target[o] # None =>
        stop[o] # "idle" /\ slot # target[o] /\ start[target[o]] = "done"

\* AnnouncedIsListed with what makes it inductive, beside IInv.
ListedInv == ListedUntilStopped /\ TakenIsGone

LEMMA InitListed == Init => ListedInv
  BY DiscoveryAssumption DEF Init, ListedInv, ListedUntilStopped, TakenIsGone, Idle, Mechanisms

\* The variables ListedInv speaks of, when a step leaves them alone.
LEMMA ListedUntouched ==
    ASSUME ListedInv, UNCHANGED <<start, stop, target, slot, forwarder, cache, events>>
    PROVE  ListedInv'
  BY DEF ListedInv, ListedUntilStopped, TakenIsGone

\* A service enters the slot once, at the end of its start, and no stop can
\* have taken it before.
LEMMA ListedStart ==
    ASSUME TypeOK, ListedInv, NEW s \in Starts, StartStep(s)
    PROVE  ListedInv'
  <1> USE DEF ListedInv, Mechanisms
  <1>1. UNCHANGED <<stop, target, cache, events>>
    BY DEF StartStep, Advertise, Browse, BindUdp, StoreService, StartFails, deviceVars
  <1>2. \A t \in Starts, m \in Mechanisms :
            forwarder'[t][m] = forwarder[t][m] \/ forwarder'[t][m].at = "recv"
    <2>1. forwarder \in [Starts -> [Mechanisms ->
              [at : {"none", "recv", "ended"}, device : {None}] \cup [at : {"insert", "send"}, device : Peers \cup {Self}]]]
      BY DEF TypeOK
    <2>2. CASE Browse(s)
      BY <2>1, <2>2 DEF Browse, Idle
    <2>3. CASE BindUdp(s)
      BY <2>1, <2>3 DEF BindUdp, Idle
    <2>4. CASE Advertise(s) \/ StoreService(s) \/ StartFails(s)
      BY <2>4 DEF Advertise, StoreService, StartFails, deviceVars
    <2> QED
      BY <2>2, <2>3, <2>4 DEF StartStep
  <1>3. ListedUntilStopped'
    BY <1>1, <1>2 DEF ListedUntilStopped
  <1>4. /\ start[s] # "done" /\ slot' \in {slot, s}
        /\ \A t \in Starts \ {s} : start'[t] = start[t]
    BY DEF StartStep, Advertise, Browse, BindUdp, StoreService, StartFails, StartGoes, TypeOK
  <1>5. \A o \in Stops : target[o] # None => target[o] \in Starts /\ target[o] # s
    BY <1>4 DEF TakenIsGone, TypeOK
  <1>6. TakenIsGone'
    BY <1>1, <1>4, <1>5 DEF TakenIsGone
  <1> QED
    BY <1>3, <1>6

\* What a stop takes is a service whose start is over, and the only cache it
\* clears is that service's.
LEMMA ListedStop ==
    ASSUME IInv, ListedInv, NEW o \in Stops, StopStep(o)
    PROVE  ListedInv'
  <1> USE DiscoveryAssumption DEF ListedInv, IInv
  <1>0. \E l \in {"browse", "flag", "done"} : stop' = [stop EXCEPT ![o] = l]
    BY DEF StopStep, StopNothing, TakeService, ClearRunning, ClearDevices, StopGoes
  <1>1. \A q \in Stops : stop[q] # "idle" => stop'[q] # "idle"
    BY <1>0 DEF TypeOK
  <1>2. CASE StopNothing(o) \/ ClearRunning(o)
    <2>1. UNCHANGED <<start, target, slot, forwarder, cache, events>>
      BY <1>2 DEF StopNothing, ClearRunning, deviceVars
    <2> QED
      BY <1>1, <2>1 DEF ListedUntilStopped, TakenIsGone
  <1>3. CASE TakeService(o)
    <2>1. /\ UNCHANGED <<start, forwarder, cache, events>>
          /\ stop[o] = "idle" /\ slot # None /\ slot' = None
          /\ target' = [target EXCEPT ![o] = slot]
      BY <1>3 DEF TakeService, StopGoes, deviceVars
    <2>2. target'[o] = slot /\ \A q \in Stops \ {o} : target'[q] = target[q]
      BY <2>1 DEF TypeOK
    <2>3. target[o] = None
      BY <2>1 DEF TakenIsGone
    <2>4. ListedUntilStopped'
      BY <2>1, <2>2, <2>3 DEF ListedUntilStopped
    <2>5. stop'[o] # "idle"
      BY <1>0 DEF TypeOK
    <2>6. TakenIsGone'
      BY <1>1, <2>1, <2>2, <2>5 DEF TakenIsGone, SlotIsDone
    <2> QED
      BY <2>4, <2>6
  <1>4. CASE ClearDevices(o)
    <2>1. /\ UNCHANGED <<start, target, slot, forwarder, events>>
          /\ cache' = [cache EXCEPT ![target[o]] = {}]
      BY <1>4 DEF ClearDevices, StopGoes
    <2>2. \A s \in Starts : target[o] # s => cache'[s] = cache[s]
      BY <2>1 DEF TypeOK
    <2>3. ListedUntilStopped'
      BY <2>1, <2>2 DEF ListedUntilStopped
    <2> QED
      BY <1>1, <2>1, <2>3 DEF TakenIsGone
  <1> QED
    BY <1>2, <1>3, <1>4 DEF StopStep

\* A forwarder puts a device in the cache before it announces it, and a
\* mechanism that hands it the next one waits until it has.
LEMMA ListedForward ==
    ASSUME TypeOK, ListedInv, NEW s \in Starts, NEW m \in Mechanisms, ForwarderStep(s, m)
    PROVE  ListedInv'
  <1> DEFINE Fwd == [Mechanisms -> [at : {"none", "recv", "ended"}, device : {None}]
                                      \cup [at : {"insert", "send"}, device : Peers \cup {Self}]]
  <1>1. /\ forwarder \in [Starts -> Fwd]
        /\ cache \in [Starts -> SUBSET (Peers \cup {Self})]
        /\ events \in [Starts -> SUBSET (Peers \cup {Self})]
    BY DEF TypeOK
  <1>2. UNCHANGED <<start, stop, target, slot>>
    BY DEF ForwarderStep, CacheDevice, EmitDevice, ForwarderEnds, callVars
  <1>3. TakenIsGone'
    BY <1>2 DEF ListedInv, TakenIsGone
  <1>4. CASE CacheDevice(s, m)
    <2>1. /\ forwarder' = [forwarder EXCEPT ![s][m].at = "send"]
          /\ cache' = [cache EXCEPT ![s] = @ \cup {forwarder[s][m].device}]
          /\ UNCHANGED events
      BY <1>4 DEF CacheDevice
    <2>2. /\ cache'[s] = cache[s] \cup {forwarder[s][m].device}
          /\ \A t \in Starts : cache[t] \subseteq cache'[t]
      BY <1>1, <2>1
    <2>3. \A t \in Starts, n \in Mechanisms :
              forwarder'[t][n].device = forwarder[t][n].device
                /\ ((t = s /\ n = m) \/ forwarder'[t][n].at = forwarder[t][n].at)
      BY <1>1, <2>1
    <2>4. ListedUntilStopped'
      BY <1>2, <2>1, <2>2, <2>3 DEF ListedInv, ListedUntilStopped
    <2> QED
      BY <1>3, <2>4 DEF ListedInv
  <1>5. CASE EmitDevice(s, m)
    <2>1. /\ forwarder[s][m].at = "send" /\ forwarder' = [forwarder EXCEPT ![s][m] = Idle("recv")]
          /\ events' = [events EXCEPT ![s] = @ \cup {forwarder[s][m].device}]
          /\ UNCHANGED cache
      BY <1>5 DEF EmitDevice
    <2>2. \A t \in Starts : events'[t] = events[t] \/ (t = s /\ events'[t] = events[t] \cup {forwarder[s][m].device})
      BY <1>1, <2>1
    <2>3. \A t \in Starts, n \in Mechanisms :
              forwarder'[t][n] = forwarder[t][n] \/ forwarder'[t][n].at = "recv"
      BY <1>1, <2>1 DEF Idle
    <2>4. ListedUntilStopped'
      BY <1>2, <2>1, <2>2, <2>3 DEF ListedInv, ListedUntilStopped
    <2> QED
      BY <1>3, <2>4 DEF ListedInv
  <1>6. CASE ForwarderEnds(s, m)
    <2>1. forwarder' = [forwarder EXCEPT ![s][m] = Idle("ended")] /\ UNCHANGED <<cache, events>>
      BY <1>6 DEF ForwarderEnds
    <2>2. \A t \in Starts, n \in Mechanisms :
              forwarder'[t][n] = forwarder[t][n] \/ forwarder'[t][n].at = "ended"
      BY <1>1, <2>1 DEF Idle
    <2>3. ListedUntilStopped'
      BY <1>2, <2>1, <2>2 DEF ListedInv, ListedUntilStopped
    <2> QED
      BY <1>3, <2>3 DEF ListedInv
  <1> QED
    BY <1>4, <1>5, <1>6 DEF ForwarderStep

\* A device that was received or resolved is only handed to a forwarder.
LEMMA ListedArrival ==
    ASSUME TypeOK, ListedInv, NEW s \in Starts, NEW d, NEW m \in Mechanisms,
           forwarder' = [forwarder EXCEPT ![s][m] = Holding("insert", d)],
           UNCHANGED <<start, stop, target, slot, cache, events>>
    PROVE  ListedInv'
  <1>1. \A t \in Starts, n \in Mechanisms :
            forwarder'[t][n] = forwarder[t][n] \/ forwarder'[t][n].at = "insert"
    BY DEF TypeOK, Holding
  <1> QED
    BY <1>1 DEF ListedInv, ListedUntilStopped, TakenIsGone

LEMMA ListedStep == IInv /\ ListedInv /\ [Next]_vars => ListedInv'
  <1> SUFFICES ASSUME IInv, ListedInv, [Next]_vars PROVE ListedInv'
    OBVIOUS
  <1>0. TypeOK
    BY DEF IInv
  <1>1. ASSUME NEW s \in Starts, StartStep(s) PROVE ListedInv'
    BY <1>0, <1>1, ListedStart
  <1>2. ASSUME NEW o \in Stops, StopStep(o) PROVE ListedInv'
    BY <1>2, ListedStop
  <1>3. ASSUME NEW s \in Starts,
               AnnouncerStep(s) \/ ListenerChecks(s) \/ IgnoreDatagram(s) \/ BrowserEnds(s)
        PROVE  ListedInv'
    BY <1>3, ListedUntouched
       DEF AnnouncerStep, AnnouncerChecks, Announce, ListenerChecks, IgnoreDatagram,
           BrowserEnds, callVars, deviceVars
  <1>4. ASSUME NEW s \in Starts, NEW d \in Devices("udp"), ReceiveDatagram(s, d) PROVE ListedInv'
    BY <1>0, <1>4, ListedArrival DEF ReceiveDatagram, callVars, Mechanisms
  <1>5. ASSUME NEW s \in Starts, NEW d \in Devices("mdns"), ResolveService(s, d) PROVE ListedInv'
    BY <1>0, <1>5, ListedArrival DEF ResolveService, callVars, Mechanisms
  <1>6. ASSUME NEW s \in Starts, NEW m \in Mechanisms, ForwarderStep(s, m) PROVE ListedInv'
    BY <1>0, <1>6, ListedForward
  <1>7. CASE UNCHANGED vars
    BY <1>7, ListedUntouched DEF vars, callVars, deviceVars
  <1> QED
    BY <1>1, <1>2, <1>3, <1>4, <1>5, <1>6, <1>7 DEF Next, Datagram

\* Every device announced by the service in the slot is in its list, however
\* starts, stops and the two mechanisms interleave (mod.rs:81-92,
\* api/mod.rs:173-186).
THEOREM AnnouncedAreListed == Spec => []AnnouncedIsListed
  <1>1. IInv /\ ListedInv => AnnouncedIsListed
    BY DiscoveryAssumption
       DEF IInv, TypeOK, ListedInv, ListedUntilStopped, TakenIsGone, AnnouncedIsListed
  <1> QED
    BY InitListed, ListedStep, Inductive, <1>1, PTL DEF Spec
=============================================================================
