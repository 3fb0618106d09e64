--------------------------- MODULE TransferBoard ----------------------------
(***************************************************************************)
(* The send queue as the user sees it: SendQueue, the events it emits, the *)
(* EventFeed that brings them to Dart, and the cards of                    *)
(* ActiveTransfersNotifier (flutter/lib/providers/filedrop_providers.dart) *)
(* whose buttons (flutter/lib/widgets/active_transfers_list.dart) call     *)
(* back into the queue.                                                    *)
(***************************************************************************)
EXTENDS SendQueue, EventFeed

CONSTANTS
    MaxInbox,       \* bound: how far Dart may be behind the forwarder
    Tappable        \* bound: the transfers on whose cards the user taps

VARIABLES
    card,       \* activeTransfersProvider: the status on each card
    lost,       \* observer: transfers an event of which was overwritten
    late        \* observer: transfers whose TransferPaused came after their end

boardVars == <<feedVars, card, lost, late>>
allVars == <<vars, boardVars>>

Ended == {"completed", "failed"}
Statuses == {"inProgress", "paused"} \cup Ended

ASSUME BoardAssumption ==
    /\ MaxInbox \in Nat
    /\ Tappable \subseteq Tasks
    /\ None \notin Statuses

BoardInit ==
    /\ Init
    /\ FeedInit
    /\ card = [t \in Tasks |-> None]
    /\ lost = {}
    /\ late = {}

-----------------------------------------------------------------------------
(* What the queue's steps emit.                                            *)

Event(kind, t) == [kind |-> kind, id |-> t]

Overwritten == IF Full THEN {Head(ring).id} ELSE {}

Tell(e) ==
    /\ Emit(e)
    /\ lost' = lost \cup Overwritten
    /\ UNCHANGED card

Quietly(t) ==
    /\ \/ Acquire(t) \/ Pop(t) \/ PushActive(t) \/ SendChunk(t)
       \/ Answered(t) \/ SendFails(t) \/ MarkFinished(t) \/ Release(t)
    /\ UNCHANGED boardVars

\* Mutant of Announces: the event names the entry that was popped.
AnnouncesPopped(t) == Start(t) /\ Tell(Event("started", popped[t])) /\ UNCHANGED late

\* TransferStarted, with the id of the task's own file.
Announces(t) == Start(t) /\ Tell(Event("started", t)) /\ UNCHANGED late

\* TransferCompleted or TransferFailed.
Reports(t) == Settle(t) /\ Tell(Event(shown'[t], t)) /\ UNCHANGED late

\* TransferPaused.
ConfirmsPause(t) ==
    /\ Pause(t)
    /\ Tell(Event("paused", t))
    /\ late' = IF shown[t] \in Ended THEN late \cup {t} ELSE late

-----------------------------------------------------------------------------
(* The app.                                                                *)

\* subscribe_events hands the next event to Dart.
Forwards ==
    /\ Len(inbox) < MaxInbox
    /\ Forward
    /\ UNCHANGED <<vars, card, lost, late>>

Show(t, status) == card' = [card EXCEPT ![t] = status]

\* ActiveTransfersNotifier._handle: TransferStarted makes a card, the others
\* change one that is there, and nothing takes one away.
Handle ==
    /\ inbox # <<>>
    /\ inbox' = Tail(inbox)
    /\ LET e == Head(inbox)
       IN  IF e.kind = "started" THEN Show(e.id, "inProgress")
           ELSE IF card[e.id] # None THEN Show(e.id, e.kind)
           ELSE UNCHANGED card
    /\ UNCHANGED <<vars, ring, lagged, lost, late>>

\* Mutant of Tap: resume_transfer emits TransferStarted, to set the card back.
TapRestarts(t) ==
    /\ t \in Tappable
    /\ \/ /\ \/ card[t] = "inProgress" /\ PauseFinds(t)
             \/ card[t] \in {"inProgress", "paused"} /\ Cancel(t)
          /\ UNCHANGED boardVars
       \/ card[t] = "paused" /\ Resume(t) /\ Tell(Event("started", t)) /\ UNCHANGED late

\* The buttons of a card: Pause or Resume, and Cancel, until it has ended.
Tap(t) ==
    /\ t \in Tappable
    /\ \/ card[t] = "inProgress" /\ PauseFinds(t)
       \/ card[t] = "paused" /\ Resume(t)
       \/ card[t] \in {"inProgress", "paused"} /\ Cancel(t)
    /\ UNCHANGED boardVars

-----------------------------------------------------------------------------
SenderStep(t) == Quietly(t) \/ Announces(t) \/ Reports(t)

BoardNext ==
    \/ \E c \in Calls : CallStep(c) /\ UNCHANGED boardVars
    \/ \E t \in Tasks : SenderStep(t) \/ ConfirmsPause(t) \/ Tap(t)
    \/ Forwards
    \/ Handle

\* The runtime polls every task that is ready, the forwarder among them, and
\* Dart's event loop turns; nobody is obliged to tap.  A request is eventually
\* answered or broken: reqwest sets no timeout, so this is an assumption on
\* the peer, which Receiver!EventuallyAnswered backs.
BoardSpec ==
    /\ BoardInit /\ [][BoardNext]_allVars
    /\ \A t \in Tasks : WF_allVars(SenderStep(t)) /\ WF_allVars(ConfirmsPause(t))
    /\ WF_allVars(Forwards)
    /\ WF_allVars(Handle)

-----------------------------------------------------------------------------
(* Properties.                                                             *)

\* A card is about its own transfer: it is there once that transfer was being
\* sent, and it has ended only as that transfer's own send_file returned, Ok or
\* Err, however the tasks took each other's entries, events were lost and the
\* user tapped.  Ok is any 2xx: a card says completed of a 206 too, of which
\* FFI_INTERFACE.md:67 and PROTOCOL.md:139 say otherwise, and of a transfer
\* that was cancelled (api/mod.rs:277-305, filedrop_providers.dart:381-421).
CardsAreAttributed ==
    \A t \in Tasks :
        /\ card[t] # None => pc[t] \in {"sending", "answered", "settled", "finished", "done"}
        /\ card[t] \in Ended =>
            /\ pc[t] \in {"settled", "finished", "done"}
            /\ card[t] = "failed" <=> reply[t] = "error"

\* A transfer that ended never shows as in progress again, though it may show
\* as paused (filedrop_providers.dart:383-401).
NeverReopened ==
    [][\A t \in Tasks : card[t] \in Ended => card'[t] # "inProgress"]_allVars

\* Every file that was queued ends, and stays, completed or failed on its card;
\* the only ways not to are that one of its events was overwritten in the ring, or that
\* the session pause_transfer found had ended when it emitted TransferPaused
\* (runtime.rs:54-60, api/mod.rs:45-64, 322-332).
CardSettles ==
    \A t \in Tasks : pc[t] = "waiting" ~> [](card[t] \in Ended \/ t \in lost \cup late)
=============================================================================
