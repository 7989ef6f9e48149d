-------------------------------- MODULE Kitchen --------------------------------
(***************************************************************************)
(* A kitchen display: the board of open orders a browser keeps in a query  *)
(* cache and brings up to date from four sources that know nothing of each *)
(* other: events on a socket, which may be lost, late or repeated (see     *)
(* Outbox); snapshots, asked every 30 seconds while the socket is down;    *)
(* the cook's own taps, shown before the server has answered; and their    *)
(* rollback.                                                               *)
(***************************************************************************)
EXTENDS Integers, Sequences, FiniteSetsExt

CONSTANTS
  Tickets,    \* the branch's orders
  Hands,      \* taps that can be in flight at a time
  MaxNews,    \* bound on status changes by others
  MaxTaps,    \* bound on taps
  MaxFaults   \* bound on disconnections, repeats and requests that fail

VARIABLES
  story,      \* per order, the statuses it went through, each published as an event
  wire,       \* events on their way: an order and the place in its story
  connected,  \* the socket
  board,      \* what the display shows of an order
  fetch,      \* the snapshot request under way
  unsure,     \* the last snapshot failed: the page shows an error until the next
  taps,       \* the status mutations under way
  busy,       \* pendingAction: the ticket whose buttons are disabled
  heard,      \* per order, how far into its story the last input reached
  missed,     \* orders with an event skipped since the last snapshot
  spent       \* taps and faults used up

kitchenVars == <<story, wire, connected, board, fetch, unsure, taps, busy, heard, missed, spent>>

KdsStatuses == {"PENDING", "PREPARING"}
NoTicket == "absent"
NoFetch == [state |-> "idle"]
NoTap == [state |-> "none"]

Stage(o) == IF story[o] = <<>> THEN "none" ELSE story[o][Len(story[o])]
Ticket(status) == IF status \in KdsStatuses THEN status ELSE NoTicket

KitchenInit ==
  /\ story = [o \in Tickets |-> <<>>]
  /\ wire = {}
  /\ connected = FALSE
  /\ board = [o \in Tickets |-> NoTicket]
  /\ fetch = [state |-> "asked"]
  /\ unsure = FALSE
  /\ taps = [h \in Hands |-> NoTap]
  /\ busy = "none"
  /\ heard = [o \in Tickets |-> 0]
  /\ missed = {}
  /\ spent = [taps |-> 0, faults |-> 0]

-------------------------------------------------------------------------------
(* The server.                                                             *)

CanTransition(from, to) == \/ from = "PENDING" /\ to \in {"PREPARING", "COMPLETED"}
                           \/ from = "PREPARING" /\ to = "COMPLETED"

News == MapThenSumSet(LAMBDA o : Len(story[o]), Tickets)

Publish(o, status) ==
  /\ story' = [story EXCEPT ![o] = Append(@, status)]
  /\ wire' = wire \union {<<o, Len(story[o]) + 1>>}

\* A till sells; a cake needs no kitchen.
Place(o) ==
  /\ story[o] = <<>> /\ News < MaxNews
  /\ \E status \in {"PENDING", "COMPLETED"} : Publish(o, status)
  /\ UNCHANGED <<connected, board, fetch, unsure, taps, busy, heard, missed, spent>>

\* Another display moves the order on, or a manager voids it.
MoveElsewhere(o) ==
  /\ News < MaxNews
  /\ \E status \in {"PREPARING", "COMPLETED", "CANCELLED"} :
       /\ \/ CanTransition(Stage(o), status)
          \/ status = "CANCELLED" /\ Stage(o) \in KdsStatuses \union {"COMPLETED"}
       /\ Publish(o, status)
  /\ UNCHANGED <<connected, board, fetch, unsure, taps, busy, heard, missed, spent>>

\* updateOrderStatus: the status it already has is no error and no news.
ServeTap(h) ==
  /\ taps[h].state = "sent"
  /\ LET from == Stage(taps[h].order)
         to == taps[h].to
     IN  \/ /\ CanTransition(from, to)
            /\ Publish(taps[h].order, to)
            /\ taps' = [taps EXCEPT ![h].state = "accepted"]
         \/ /\ ~CanTransition(from, to)
            /\ taps' = [taps EXCEPT ![h].state = IF from = to THEN "accepted" ELSE "refused"]
            /\ UNCHANGED <<story, wire>>
  /\ UNCHANGED <<connected, board, fetch, unsure, busy, heard, missed, spent>>

\* getKdsOrders
AnswerFetch ==
  /\ fetch.state = "asked"
  /\ fetch' = [state |-> "answered",
               board |-> [o \in Tickets |-> Ticket(Stage(o))],
               heard |-> [o \in Tickets |-> Len(story[o])]]
  /\ UNCHANGED <<story, wire, connected, board, unsure, taps, busy, heard, missed, spent>>

-------------------------------------------------------------------------------
(* The socket.                                                             *)

Fault == spent.faults < MaxFaults /\ spent' = [spent EXCEPT !.faults = @ + 1]

\* Reconnecting asks for no snapshot; it only ends the polling.
Connect ==
  /\ ~connected /\ connected' = TRUE
  /\ UNCHANGED <<story, wire, board, fetch, unsure, taps, busy, heard, missed, spent>>

Disconnect ==
  /\ connected /\ connected' = FALSE
  /\ Fault
  /\ UNCHANGED <<story, wire, board, fetch, unsure, taps, busy, heard, missed>>

\* handleOrderCreated and handleOrderStatusUpdated: a created order is merged,
\* a status only changes or removes a ticket that is there.
Shown(now, first, status) ==
  IF first THEN IF status \in KdsStatuses THEN status ELSE now
  ELSE IF status \notin KdsStatuses THEN NoTicket
  ELSE IF now = NoTicket THEN NoTicket ELSE status

Hear(event) ==
  LET o == event[1]
      n == event[2]
  IN  /\ connected
      /\ board' = [board EXCEPT ![o] = Shown(@, n = 1, story[o][n])]
      /\ heard' = [heard EXCEPT ![o] = n]
      /\ missed' = IF n > heard[o] + 1 THEN missed \union {o} ELSE missed
      /\ UNCHANGED <<story, connected, fetch, unsure, taps, busy>>

Deliver(event) == Hear(event) /\ wire' = wire \ {event} /\ UNCHANGED spent

\* The outbox delivers at least once, and once more when a claim is outlived.
DeliverAndRepeat(event) == Hear(event) /\ Fault /\ UNCHANGED wire

Lose(event) ==
  /\ ~connected
  /\ wire' = wire \ {event}
  /\ UNCHANGED <<story, connected, board, fetch, unsure, taps, busy, heard, missed, spent>>

-------------------------------------------------------------------------------
(* Snapshots.                                                              *)

Ask == fetch' = [state |-> "asked"]

\* Mutant: the interval the wrong way round.
PollWhileConnected ==
  /\ connected /\ fetch.state = "idle"
  /\ Ask
  /\ UNCHANGED <<story, wire, connected, board, unsure, taps, busy, heard, missed, spent>>

\* refetchInterval: every 30 seconds while the socket is down.
Poll ==
  /\ ~connected /\ fetch.state = "idle"
  /\ Ask
  /\ UNCHANGED <<story, wire, connected, board, unsure, taps, busy, heard, missed, spent>>

\* The window gets the focus, the network comes back, the cook presses retry.
Refocus ==
  /\ connected /\ fetch.state = "idle"
  /\ Ask
  /\ UNCHANGED <<story, wire, connected, board, unsure, taps, busy, heard, missed, spent>>

\* The answer replaces the board, whatever arrived since it was computed.
ReceiveFetch ==
  /\ fetch.state = "answered"
  /\ board' = fetch.board
  /\ heard' = fetch.heard
  /\ fetch' = NoFetch
  /\ unsure' = FALSE
  /\ missed' = {}
  /\ UNCHANGED <<story, wire, connected, taps, busy, spent>>

\* All retries of a snapshot failed.
FailFetch ==
  /\ fetch.state # "idle"
  /\ Fault
  /\ fetch' = NoFetch
  /\ unsure' = TRUE
  /\ UNCHANGED <<story, wire, connected, board, taps, busy, heard, missed>>

-------------------------------------------------------------------------------
(* Taps.                                                                   *)

\* onMutate: a snapshot under way is cancelled, the board remembered and patched.
Tap(h, o, to) ==
  /\ spent.taps < MaxTaps /\ spent' = [spent EXCEPT !.taps = @ + 1]
  /\ fetch' = NoFetch
  /\ board' = [board EXCEPT ![o] = IF @ = NoTicket THEN @ ELSE Ticket(to)]
  /\ taps' = [taps EXCEPT ![h] = [state |-> "sent", order |-> o, to |-> to, previous |-> board]]
  /\ busy' = o
  /\ UNCHANGED <<story, wire, connected, unsure, heard, missed>>

Free(h) == taps[h].state \in {"none", "toast"}

Start(h, o) == Free(h) /\ board[o] = "PENDING" /\ busy # o /\ Tap(h, o, "PREPARING")
ConfirmDone(h, o) == Free(h) /\ board[o] = "PREPARING" /\ busy # o /\ Tap(h, o, "COMPLETED")

\* The toast of a completed order offers to take it back; the server always refuses.
Undo(h) == taps[h].state = "toast" /\ Tap(h, taps[h].order, "PREPARING")

\* The request is lost, or its answer is.
FailTap(h) ==
  /\ taps[h].state \in {"sent", "accepted"}
  /\ Fault
  /\ taps' = [taps EXCEPT ![h].state = "refused"]
  /\ UNCHANGED <<story, wire, connected, board, fetch, unsure, busy, heard, missed>>

\* Mutant: onSettled is missing.
SettleTapQuietly(h) ==
  /\ taps[h].state \in {"accepted", "refused"}
  /\ board' = IF taps[h].state = "refused" THEN taps[h].previous ELSE board
  /\ taps' = [taps EXCEPT ![h] = NoTap]
  /\ busy' = "none"
  /\ UNCHANGED <<story, wire, connected, fetch, unsure, heard, missed, spent>>

\* onError restores the remembered board, onSettled asks for a new snapshot.
SettleTap(h) ==
  /\ taps[h].state \in {"accepted", "refused"}
  /\ board' = IF taps[h].state = "refused" THEN taps[h].previous ELSE board
  /\ taps' = [taps EXCEPT ![h] =
                IF taps[h].state = "accepted" /\ taps[h].to = "COMPLETED"
                THEN [state |-> "toast", order |-> taps[h].order] ELSE NoTap]
  /\ Ask
  /\ busy' = "none"
  /\ UNCHANGED <<story, wire, connected, unsure, heard, missed, spent>>

-------------------------------------------------------------------------------
KitchenNext ==
  \/ \E o \in Tickets : Place(o) \/ MoveElsewhere(o)
  \/ \E h \in Hands, o \in Tickets : Start(h, o) \/ ConfirmDone(h, o)
  \/ \E h \in Hands : Undo(h) \/ ServeTap(h) \/ FailTap(h) \/ SettleTap(h)
  \/ \E event \in wire : Deliver(event) \/ DeliverAndRepeat(event) \/ Lose(event)
  \/ Connect \/ Disconnect
  \/ AnswerFetch \/ Poll \/ Refocus \/ ReceiveFetch \/ FailFetch

-------------------------------------------------------------------------------
BoardRight(o) == board[o] = Ticket(Stage(o))

\* Nothing is on its way any more, and the last snapshot did not fail.
Quiet == /\ wire = {} /\ fetch.state = "idle" /\ ~unsure
         /\ \A h \in Hands : Free(h)

\* When everything has arrived, the display shows every order it was told the
\* whole story of as the server has it: patches, rollbacks and snapshots that
\* crossed each other leave no trace.  An order is exempt when the last that
\* was heard of it is old (lost, late, or a snapshot overtaken by an event) or
\* an event in between was lost.
QuietBoardIsRight == Quiet => \A o \in Tickets : heard[o] = Len(story[o]) /\ o \notin missed
                                                   => BoardRight(o)

\* A display whose socket stays down is right in the end: polling makes up for
\* the lost events and for whatever taps and rollbacks did.
BoardCatchesUp == (<>[]~connected) => <>[](\A o \in Tickets : BoardRight(o))
===============================================================================
