------------------------------ MODULE Pairing -------------------------------
(***************************************************************************)
(* The pairing handshake: PairingStateMachine of                           *)
(* rust/filedrop-core/src/pairing/state.rs and the calls pair_device,      *)
(* accept_transfer and reject_transfer of rust/filedrop-ffi/src/api/mod.rs *)
(* that drive it.                                                          *)
(*                                                                         *)
(* present_token, confirm and sweep_expired hold the map's write lock from *)
(* their first read to their last write, so each is one step.  pair_device *)
(* reads the clock twice and waits for the lock in between.  A token is 32 *)
(* random bytes, so it is named by the call of pair_device that made it.   *)
(* The clock is SystemTime, which can be set back as well as run on.       *)
(* Nothing in the repository calls present_token and sweep_expired so far. *)
(***************************************************************************)
EXTENDS Naturals

CONSTANTS
    Peers,      \* peer device ids
    Calls,      \* calls of pair_device, and the tokens they make
    Ttl,        \* ttl_secs, 300 in pair_device
    MaxTime,    \* bound: the latest time the clock shows
    None

ASSUME PairingAssumption ==
    /\ Ttl \in Nat
    /\ MaxTime \in Nat
    /\ None \notin Calls
    /\ None \notin Peers
    /\ None \notin Nat

VARIABLES
    state,      \* the state of the request in the map, by peer
    token,      \* its token
    expires,    \* its expires_at
    now,        \* now_unix()
    pc,         \* where each call of pair_device is
    peer,       \* the peer it is for
    until,      \* the expires_at it computed for its request
    qr,         \* the expires_at of the QR payload it returned
    presented   \* observer: when present_token first said Ok to a token

requestVars == <<state, token, expires>>
callVars == <<pc, peer, until, qr>>
vars == <<requestVars, now, callVars, presented>>

States == {"Absent", "Pending", "AwaitingConfirmation", "Paired", "Rejected"}

Init ==
    /\ state = [p \in Peers |-> "Absent"]
    /\ token = [p \in Peers |-> None]
    /\ expires = [p \in Peers |-> 0]
    /\ now = 0
    /\ pc = [c \in Calls |-> "idle"]
    /\ peer = [c \in Calls |-> None]
    /\ until = [c \in Calls |-> 0]
    /\ qr = [c \in Calls |-> None]
    /\ presented = [c \in Calls |-> None]

SetState(p, s) == state' = [state EXCEPT ![p] = s]

IsExpired(p) == now >= expires[p]

-----------------------------------------------------------------------------
(* pair_device.                                                            *)

\* The token is generated and the request made, stamped with the time of the call.
Generate(c, p) ==
    /\ pc[c] = "idle"
    /\ pc' = [pc EXCEPT ![c] = "made"]
    /\ peer' = [peer EXCEPT ![c] = p]
    /\ until' = [until EXCEPT ![c] = now + Ttl]
    /\ UNCHANGED <<requestVars, now, qr, presented>>

\* Mutant of Store: a request already there is renewed, its state kept.
StoreRenews(c) ==
    /\ pc[c] = "made"
    /\ pc' = [pc EXCEPT ![c] = "stored"]
    /\ state' = [state EXCEPT ![peer[c]] = IF @ = "Absent" THEN "Pending" ELSE @]
    /\ token' = [token EXCEPT ![peer[c]] = c]
    /\ expires' = [expires EXCEPT ![peer[c]] = until[c]]
    /\ UNCHANGED <<now, peer, until, qr, presented>>

\* The lock is held: insert replaces whatever the map has for the peer.
Store(c) ==
    /\ pc[c] = "made"
    /\ pc' = [pc EXCEPT ![c] = "stored"]
    /\ SetState(peer[c], "Pending")
    /\ token' = [token EXCEPT ![peer[c]] = c]
    /\ expires' = [expires EXCEPT ![peer[c]] = until[c]]
    /\ UNCHANGED <<now, peer, until, qr, presented>>

\* PairingRequested is emitted and the payload returned, stamped with the time it is now.
Payload(c) ==
    /\ pc[c] = "stored"
    /\ pc' = [pc EXCEPT ![c] = "returned"]
    /\ qr' = [qr EXCEPT ![c] = now + Ttl]
    /\ UNCHANGED <<requestVars, now, peer, until, presented>>

-----------------------------------------------------------------------------
(* The state machine.                                                      *)

\* A peer presents a token it was once given.  Whatever state the request is
\* in, an expired one is rejected and an unexpired one that matches is opened.
PresentToken(p, k) ==
    /\ pc[k] \in {"stored", "returned"}
    /\ state[p] # "Absent"
    /\ \/ /\ IsExpired(p)
          /\ SetState(p, "Rejected")
          /\ UNCHANGED presented
       \/ /\ ~IsExpired(p)
          /\ k = token[p]
          /\ SetState(p, "AwaitingConfirmation")
          /\ presented' = [presented EXCEPT ![k] = IF @ = None THEN now ELSE @]
    /\ UNCHANGED <<token, expires, now, callVars>>

\* accept_transfer, reject_transfer: the user's decision, from any state.
Confirm(p, accept) ==
    /\ state[p] # "Absent"
    /\ SetState(p, IF accept THEN "Paired" ELSE "Rejected")
    /\ UNCHANGED <<token, expires, now, callVars, presented>>

SweepExpired ==
    /\ state' = [p \in Peers |->
            IF state[p] \notin {"Absent", "Paired"} /\ IsExpired(p) THEN "Rejected" ELSE state[p]]
    /\ UNCHANGED <<token, expires, now, callVars, presented>>

SetClock(t) ==
    /\ now' = t
    /\ UNCHANGED <<requestVars, callVars, presented>>

Next ==
    \/ \E c \in Calls, p \in Peers : Generate(c, p)
    \/ \E c \in Calls : Store(c) \/ Payload(c)
    \/ \E p \in Peers, k \in Calls : PresentToken(p, k)
    \/ \E p \in Peers, accept \in BOOLEAN : Confirm(p, accept)
    \/ SweepExpired
    \/ \E t \in 0..MaxTime : SetClock(t)

Spec == Init /\ [][Next]_vars

-----------------------------------------------------------------------------
(* Properties.                                                             *)

\* The program's variables have their types, and a request in the map has its
\* token (state.rs:26-35, api/mod.rs:188-216).
TypeOK ==
    /\ state \in [Peers -> States]
    /\ token \in [Peers -> Calls \cup {None}]
    /\ expires \in [Peers -> Nat]
    /\ now \in Nat
    /\ pc \in [Calls -> {"idle", "made", "stored", "returned"}]
    /\ peer \in [Calls -> Peers \cup {None}]
    /\ until \in [Calls -> Nat]
    /\ qr \in [Calls -> Nat \cup {None}]
    /\ presented \in [Calls -> Nat \cup {None}]
    /\ \A c \in Calls : pc[c] # "idle" => peer[c] # None
    /\ \A p \in Peers : state[p] # "Absent" <=> token[p] # None

\* What the state machine promises its callers: a request is in
\* AwaitingConfirmation only when its own token, not that of a request it
\* replaced, was presented before it expired, however calls of pair_device
\* overlap and the clock moves (state.rs:57-100).  It says nothing of when the
\* user is asked: the app asks as soon as pair_device has emitted its event
\* (api/mod.rs:195), and no code in the repository calls present_token yet.
\* Nor does it say that a token is used once: it can be presented again.
OpenedByOwnToken ==
    \A p \in Peers : state[p] = "AwaitingConfirmation" =>
        presented[token[p]] # None /\ presented[token[p]] < expires[p]

\* A token belongs to one peer: no two requests in the map have the same, and
\* the one a request has was made for its peer and expires when it says.
TokenOfItsOwn ==
    \A p \in Peers : state[p] # "Absent" =>
        /\ pc[token[p]] \in {"stored", "returned"}
        /\ peer[token[p]] = p
        /\ expires[p] = until[token[p]]

\* What makes OpenedByOwnToken inductive: tokens are only ever presented in time.
PresentedInTime ==
    \A c \in Calls : presented[c] # None => presented[c] < until[c] /\ pc[c] \in {"stored", "returned"}

IInv == TypeOK /\ OpenedByOwnToken /\ TokenOfItsOwn /\ PresentedInTime
=============================================================================
