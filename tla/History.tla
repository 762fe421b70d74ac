------------------------------ MODULE History ------------------------------
(***************************************************************************)
(* A reader of single-instance or naive-scale: it joins a room over the    *)
(* websocket and then reads the history of the room page by page, newest   *)
(* first, while messages are stored and relayed (Outbox).                  *)
(*                                                                         *)
(* The reader has joined once what is broadcast reaches it: the hub has    *)
(* registered it and, in naive-scale, Redis has the subscription of its    *)
(* instance.  handleWS answers the upgrade before either.  What the relays *)
(* hand out later is live until the reader gets it: it waits in the hub or *)
(* in the reader's channel, for ever if the hub is stuck before the reader *)
(* or the reader does not read.  In naive-scale it may also get lost on    *)
(* the subscription, without an error anywhere.                            *)
(***************************************************************************)
EXTENDS Outbox

CONSTANT PageSize  \* the limit of the requests

ASSUME HistoryAssumption == PageSize \in 1 .. 200

VARIABLES
  room,    \* the room the reader has joined, in a set; {} when it is away
  cursor,  \* the id the next request gives as before, 0 at first
  seen,    \* the messages it got, in a page or live
  done,    \* a page was not full: there is no older message
  live,    \* messages of the room on their way to it that it has not seen
  lost     \* history: messages it has not seen that the subscription lost

reader == <<room, cursor, seen, done, live, lost>>
allVars == <<vars, reader>>

InitHistory ==
  /\ Init
  /\ room = {}
  /\ cursor = 0
  /\ seen = {}
  /\ done = FALSE
  /\ live = {}
  /\ lost = {}

Join(r) ==
  /\ room = {}
  /\ room' = {r}
  /\ UNCHANGED <<vars, cursor, seen, done, live, lost>>

\* The reader starts over.
Gone ==
  /\ room' = {}
  /\ cursor' = 0
  /\ seen' = {}
  /\ done' = FALSE
  /\ live' = {}
  /\ lost' = {}

\* The connection ends.
Leave == room # {} /\ Gone /\ UNCHANGED vars

\* Mutant: oldest first.
PageAscending(r, before) ==
  LET found == {m \in messages : m.room = r /\ (before = 0 \/ m.id < before)}
  IN  {m \in found : Cardinality({n \in found : n.id < m.id}) < PageSize}

\* Store.History: the newest messages of the room older than before, up to the limit.
Page(r, before) ==
  LET found == {m \in messages : m.room = r /\ (before = 0 \/ m.id < before)}
  IN  {m \in found : Cardinality({n \in found : n.id > m.id}) < PageSize}

\* handleHistory answers the next request; the last id of a page is the cursor of
\* the next one.
handleHistory ==
  /\ ~done
  /\ \E r \in room :
       LET page == Page(r, cursor)
       IN  /\ seen' = seen \cup page
           /\ live' = live \ page
           /\ lost' = lost \ page
           /\ done' = (Cardinality(page) < PageSize)
           /\ cursor' \in IF page = {} THEN {cursor}
                          ELSE {m.id : m \in {n \in page : \A k \in page : n.id <= k.id}}
  /\ UNCHANGED <<vars, room>>

\* What a step of the relays hands out is on its way to the reader if it is of its room.
Receive ==
  LET news == {m \in {log'[i].message : i \in Len(log) + 1 .. Len(log')} : m.room \in room}
  IN  /\ live' = live \cup (news \ seen)
      /\ lost' = lost \ news
      /\ UNCHANGED <<room, cursor, seen, done>>

\* The fan-out and the write pump get a message to the reader.
Deliver(m) ==
  /\ m \in live
  /\ live' = live \ {m}
  /\ seen' = seen \cup {m}
  /\ UNCHANGED <<vars, room, cursor, done, lost>>

\* naive-scale: the connection of the subscription is lost, or go-redis drops a message
\* for which its channel has no room.
Lose(m) ==
  /\ design = "naive"
  /\ m \in live
  /\ live' = live \ {m}
  /\ lost' = lost \cup {m}
  /\ UNCHANGED <<vars, room, cursor, seen, done>>

Read ==
  \/ \E r \in Rooms : Join(r)
  \/ Leave \/ handleHistory
  \/ \E m \in live : Deliver(m) \/ Lose(m)

\* A restart of the process ends the connection.
HistoryNext == (Step /\ Receive) \/ (Restart /\ Gone) \/ Read

HistorySpec == InitHistory /\ [][HistoryNext]_allVars /\ Fairness

-----------------------------------------------------------------------------
HistoryTypeOK ==
  /\ TypeOK
  /\ room \subseteq Rooms
  /\ cursor \in 0 .. MaxInserts
  /\ seen \subseteq messages
  /\ done \in BOOLEAN
  /\ live \subseteq messages
  /\ lost \subseteq messages

Undispatched == {e.message : e \in {f \in outbox : f.id \notin dispatched}}

\* Between the history and the live connection a reader that joined first misses no
\* message of the room, though ids are not committed in their order, so that a
\* message may appear behind the cursor: it is in a page, came live, is on its way or is
\* still to be dispatched.  In single-instance that is all; in naive-scale only a failed
\* PUBLISH and a loss on the subscription take one away.
NothingMissed ==
  done => \A r \in room :
    Cardinality({m \in messages : m.room = r} \ (seen \cup live \cup lost \cup Undispatched))
      <= IF design = "single" THEN 0 ELSE faults
=============================================================================
