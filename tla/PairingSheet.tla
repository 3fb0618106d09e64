---------------------------- MODULE PairingSheet ----------------------------
(***************************************************************************)
(* The pairing handshake with its user: Pairing, the EventFeed that brings *)
(* PairingRequested to the app, the list of PairingRequestsNotifier        *)
(* (flutter/lib/providers/filedrop_providers.dart), the app shell that     *)
(* shows a sheet for it (flutter/lib/main.dart) and the sheet's buttons    *)
(* (flutter/lib/widgets/incoming_transfer_sheet.dart), which decide.       *)
(*                                                                         *)
(* Dart runs one callback at a time: a step is what runs between two       *)
(* awaits.  Setting the list runs the shell's listener within the step.    *)
(***************************************************************************)
EXTENDS Pairing, EventFeed, SequencesExt

CONSTANTS
    Taps,       \* taps on a button of a sheet
    MaxInbox    \* bound: how far Dart may be behind the forwarder

ASSUME SheetAssumption == MaxInbox \in Nat

VARIABLES
    requests,   \* pairingRequestsProvider
    sheets,     \* the sheets on the navigator above the shell, the topmost last
    sheetOpen,  \* _AppShellState._sheetOpen
    closing,    \* the requests whose sheet was popped and whenComplete not run
    shell,      \* the shell's own route is on the navigator
    tap,        \* where the handler of each tap is
    choice,     \* the peer and the decision it is about
    approved    \* observer: the tokens that were current when a peer was accepted

uiVars == <<requests, sheets, sheetOpen, closing, shell, tap, choice>>
sheetVars == <<uiVars, approved>>
allVars == <<vars, feedVars, sheetVars>>

Request(p, k) == [peer |-> p, token |-> k]

SheetInit ==
    /\ Init
    /\ FeedInit
    /\ requests = <<>>
    /\ sheets = <<>>
    /\ sheetOpen = FALSE
    /\ closing = {}
    /\ shell = TRUE
    /\ tap = [b \in Taps |-> "idle"]
    /\ choice = [b \in Taps |-> None]
    /\ approved = {}

-----------------------------------------------------------------------------
(* Rust: pair_device emits PairingRequested, the feed brings it.           *)

Requested(c) ==
    /\ Payload(c)
    /\ Emit(Request(peer[c], c))
    /\ UNCHANGED sheetVars

Forwards ==
    /\ Len(inbox) < MaxInbox
    /\ Forward
    /\ UNCHANGED <<vars, sheetVars>>

Elsewhere ==
    /\ \/ \E c \in Calls, p \in Peers : Generate(c, p)
       \/ \E c \in Calls : Store(c)
       \/ \E p \in Peers, k \in Calls : PresentToken(p, k)
       \/ SweepExpired
       \/ \E t \in 0..MaxTime : SetClock(t)
    /\ UNCHANGED <<feedVars, sheetVars>>

-----------------------------------------------------------------------------
(* Dart: the list, the listener, the sheet.                                *)

\* Mutant of SetRequests: the listener opens a sheet whether or not one is open.
SetRequestsUnguarded(list, open) ==
    LET opens == shell /\ list # <<>>
    IN  /\ requests' = list
        /\ sheetOpen' = (open \/ opens)
        /\ sheets' = IF opens THEN Append(sheets, Head(list)) ELSE sheets

\* The list is set and the shell's listener runs: with no sheet open it opens
\* one for the first request.
SetRequests(list, open) ==
    LET opens == shell /\ ~open /\ list # <<>>
    IN  /\ requests' = list
        /\ sheetOpen' = (open \/ opens)
        /\ sheets' = IF opens THEN Append(sheets, Head(list)) ELSE sheets

\* dismiss(deviceId): every request of the peer goes.
Dismissed(p) == SelectSeq(requests, LAMBDA r : r.peer # p)

HandleRequested ==
    /\ inbox # <<>>
    /\ inbox' = Tail(inbox)
    /\ SetRequests(Append(requests, Head(inbox)), sheetOpen)
    /\ UNCHANGED <<vars, ring, lagged, closing, shell, tap, choice, approved>>

\* Accept or Reject is tapped, perhaps again while the first tap is awaited.
Tap(b, accept) ==
    /\ tap[b] = "idle"
    /\ sheets # <<>>
    /\ tap' = [tap EXCEPT ![b] = "calling"]
    /\ choice' = [choice EXCEPT ![b] = [peer |-> Last(sheets).peer, accept |-> accept]]
    /\ SetRequests(Dismissed(Last(sheets).peer), sheetOpen)
    /\ UNCHANGED <<vars, feedVars, closing, shell, approved>>

\* accept_transfer or reject_transfer: decides on the request the peer has now.
Decide(b) ==
    /\ tap[b] = "calling"
    /\ Confirm(choice[b].peer, choice[b].accept)
    /\ tap' = [tap EXCEPT ![b] = "decided"]
    /\ approved' = IF choice[b].accept THEN approved \cup {token[choice[b].peer]} ELSE approved
    /\ UNCHANGED <<feedVars, requests, sheets, sheetOpen, closing, shell, choice>>

\* The route on top goes: a sheet, whosever it is, or the shell itself.
PopRoute ==
    IF sheets # <<>>
    THEN /\ sheets' = Front(sheets)
         /\ closing' = closing \cup {Last(sheets)}
         /\ UNCHANGED shell
    ELSE /\ shell' = FALSE
         /\ UNCHANGED <<sheets, closing>>

\* The call returned: navigator.pop().
PopAfterDecision(b) ==
    /\ tap[b] = "decided"
    /\ shell
    /\ tap' = [tap EXCEPT ![b] = "done"]
    /\ PopRoute
    /\ UNCHANGED <<vars, feedVars, requests, sheetOpen, choice, approved>>

\* The user swipes the sheet down or taps beside it.
Swipe ==
    /\ sheets # <<>>
    /\ PopRoute
    /\ UNCHANGED <<vars, feedVars, requests, sheetOpen, tap, choice, approved>>

\* Mutant of WhenComplete: the request is dismissed before the flag is reset.
WhenCompleteDismissesFirst(r) ==
    /\ r \in closing
    /\ shell
    /\ closing' = closing \ {r}
    /\ requests' = Dismissed(r.peer)
    /\ sheetOpen' = FALSE
    /\ UNCHANGED <<vars, feedVars, sheets, shell, tap, choice, approved>>

\* whenComplete: the flag is reset, then the request dismissed, and so the
\* listener may open the next sheet.
WhenComplete(r) ==
    /\ r \in closing
    /\ shell
    /\ closing' = closing \ {r}
    /\ SetRequests(Dismissed(r.peer), FALSE)
    /\ UNCHANGED <<vars, feedVars, shell, tap, choice, approved>>

-----------------------------------------------------------------------------
UserStep ==
    \/ \E b \in Taps, accept \in BOOLEAN : Tap(b, accept)
    \/ \E b \in Taps : Decide(b) \/ PopAfterDecision(b)
    \/ Swipe
    \/ \E r \in closing : WhenComplete(r)

SheetNext ==
    \/ \E c \in Calls : Requested(c)
    \/ Forwards
    \/ Elsewhere
    \/ HandleRequested
    \/ UserStep

SheetSpec == SheetInit /\ [][SheetNext]_allVars

-----------------------------------------------------------------------------
(* Properties.                                                             *)

\* While the shell is up a request in the list never waits for a sheet that
\* nothing will open, in whatever order requests come, sheets are swiped away
\* and decisions return (main.dart:132-149).
NothingWaitsUnseen == shell /\ requests # <<>> => sheetOpen

\* _sheetOpen says what the navigator shows: one sheet at most, and none that
\* the flag does not know of (main.dart:112, 133-141).
FlagIsTrue ==
    /\ Len(sheets) + Cardinality(closing) <= 1
    /\ shell => (sheetOpen <=> sheets # <<>> \/ closing # {})

\* A peer is paired by an accept that came after its present request was stored:
\* a new request never inherits an earlier decision (state.rs:75-78, 104-116,
\* api/mod.rs:188-199, 310-320).
PairedByDecision == \A p \in Peers : state[p] = "Paired" => token[p] \in approved
=============================================================================
