----------------------------- MODULE EventFeed ------------------------------
(***************************************************************************)
(* The way of an event from Rust to the app: FfiRuntime::emit and the      *)
(* broadcast channel of rust/filedrop-ffi/src/runtime.rs, one receiver of  *)
(* it, and who drains the receiver: subscribe_events of api/mod.rs (the    *)
(* app's), or filedrop_poll_event of c_abi.rs.                             *)
(*                                                                         *)
(* The channel is a ring of Capacity events.  Emitting never waits: on a   *)
(* full ring the oldest unread event is overwritten, and the receiver is   *)
(* told so once, by an error in place of an event.                         *)
(***************************************************************************)
EXTENDS Naturals, Sequences

CONSTANT Capacity   \* EVENT_CHANNEL_CAPACITY

ASSUME FeedAssumption == Capacity \in Nat \ {0}

VARIABLES
    ring,       \* the events the receiver has not read, oldest first
    lagged,     \* it has to be told that events were overwritten
    inbox       \* the events handed to Dart and not handled yet

feedVars == <<ring, lagged, inbox>>

FeedInit == ring = <<>> /\ lagged = FALSE /\ inbox = <<>>

Full == Len(ring) = Capacity

\* emit: fire and forget.
Emit(e) ==
    /\ ring' = Append(IF Full THEN Tail(ring) ELSE ring, e)
    /\ lagged' = (lagged \/ Full)
    /\ UNCHANGED inbox

\* Mutant of Lagged: the subscriber gives up.
LaggedBreaks == FALSE

\* RecvError::Lagged: nothing is delivered, the next recv goes on at the
\* oldest event left (subscribe_events continues, poll_event returns null).
Lagged ==
    /\ lagged
    /\ lagged' = FALSE
    /\ UNCHANGED <<ring, inbox>>

\* Ok(event): into the StreamSink, or the return value of the poll.
Deliver ==
    /\ ~lagged
    /\ ring # <<>>
    /\ inbox' = Append(inbox, Head(ring))
    /\ ring' = Tail(ring)
    /\ UNCHANGED lagged

\* One turn of the loop of subscribe_events.
Forward == Lagged \/ Deliver
=============================================================================
