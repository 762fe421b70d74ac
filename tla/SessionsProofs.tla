--------------------------- MODULE SessionsProofs ---------------------------
(***************************************************************************)
(* The safety properties of sessions and their presence, for any number of *)
(* clients, connections, instances and rooms, and for any timeouts that    *)
(* fit in a ping period: pings may come later than connTTL allows.         *)
(*                                                                         *)
(* Three facts carry the argument.  Disconnect never changes Redis, since  *)
(* no key it could name is ever written.  The presence of the latest       *)
(* connection of a key that is not overdue lives for as long as its next   *)
(* Ping may take without being overdue.  And the rooms a Ping holds belong *)
(* to a key that exists, or existed when it was read.                      *)
(***************************************************************************)
EXTENDS Sessions, Integers, TLAPS

\* How the place of ServeWS, the socket, runPing and its call belong together.
ConnOK(c) ==
  /\ stage[c] = "none" => c \notin open
  /\ stage[c] \in {"none", "connecting"} => pinger[c] = "off" /\ call[c] = "none"
  /\ c \in open => /\ stage[c] \in {"connecting", "present", "serving"}
                   /\ stage[c] # "connecting" => pinger[c] # "off"
  /\ pinger[c] = "off" => since[c] = 0
  /\ pinger[c] = "writing" => since[c] <= writeTimeout
  /\ pinger[c] = "calling" => since[c] <= writeTimeout + waited[c]
  /\ pinger[c] # "calling" => waited[c] = 0
  /\ call[c] # "none" => pinger[c] \in {"off", "calling"}
  /\ call[c] # "read" => held[c] = {}

ConnInv == \A c \in Conns : ConnOK(c)

\* Only keys of connections are written, and a key that is gone has no rooms.
MembersInv ==
  \A k \in Keys : members[k] # {} => keyTTL[k] > 0 /\ \E c \in Conns : k = KeyOf(c)

\* Connection c is the last one that registered its key, and its socket is open.
Fresh(c) == c \in open /\ latest[KeyOf(c)] = {c}

\* The client key has the rooms of its latest connection while it exists.
LatestInv ==
  \A c \in Conns : Fresh(c) => members[KeyOf(c)] = RoomsOf[c] \/ keyTTL[KeyOf(c)] = 0

\* The latest connection's own Ping has read those rooms, or nothing and is overdue.
HeldInv ==
  \A c \in Conns : (Fresh(c) /\ call[c] = "read") =>
    held[c] = RoomsOf[c] \/ (held[c] = {} /\ c \in overdue)

\* The ticker has fired and its Ping is not executed yet.
Unrenewed(c) == pinger[c] = "writing" \/ call[c] # "none"

\* How long the presence of a connection lives at least, seen from its ticker.
Left(c) == IF Unrenewed(c) THEN connTTL - pingPeriod - since[c] ELSE connTTL - since[c]

\* The key of c and its fields in the rooms of c live for n more.
Alive(c, n) == keyTTL[KeyOf(c)] >= n /\ \A r \in RoomsOf[c] : fieldTTL[r][KeyOf(c)] >= n

TimeInv ==
  \A c \in Conns : (Fresh(c) /\ c \notin overdue) => Left(c) > 0 /\ Alive(c, Left(c))

\* What a Ping holds belongs to a key that exists, or expired while it was held.
RacedInv ==
  \A c \in Conns : \A r \in held[c] : keyTTL[KeyOf(c)] > 0 \/ r \in raced[KeyOf(c)]

IInv ==
  /\ TypeOK /\ ConnInv /\ MembersInv /\ LatestInv /\ HeldInv /\ TimeInv
  /\ RacedInv /\ NoResurrection

-----------------------------------------------------------------------------
\* The constants, as the steps use them.
LEMMA Constants ==
  /\ connTTL \in Nat /\ pingPeriod \in Nat /\ writeTimeout \in Nat /\ pingTimeout \in Nat
  /\ connTTL > 0 /\ pingPeriod < connTTL /\ writeTimeout + pingTimeout <= pingPeriod
  /\ \A c \in Conns : KeyOf(c) \in Keys /\ Unnamed(c) \in Keys /\ RoomsOf[c] \in SUBSET Rooms
<1>1. /\ connTTL \in Nat /\ pingPeriod \in Nat /\ writeTimeout \in Nat /\ pingTimeout \in Nat
      /\ pingPeriod < connTTL /\ writeTimeout + pingTimeout <= pingPeriod
      /\ \A c \in Conns : KeyOf(c) \in Keys /\ Unnamed(c) \in Keys /\ RoomsOf[c] \in SUBSET Rooms
  BY SessionsAssumption, PresenceAssumption, Zenon
<1> QED
  BY <1>1

\* Disconnect names no instance, and no connection has that key.
LEMMA UnnamedKey == ASSUME NEW c \in Conns, NEW d \in Conns PROVE Unnamed(c) # KeyOf(d)
BY SessionsAssumption, Zenon DEF Unnamed, KeyOf

\* What the two transactions that write fields do, field by field.
LEMMA SavedRooms ==
  ASSUME PresenceTypeOK, NEW k \in Keys, NEW rs \in SUBSET Rooms, saveRooms(k, rs)
  PROVE  /\ fieldTTL' \in [Rooms -> [Keys -> 0 .. connTTL]]
         /\ \A r \in Rooms, j \in Keys :
              fieldTTL'[r][j] = IF r \in rs /\ j = k THEN connTTL ELSE fieldTTL[r][j]
BY Constants DEF PresenceTypeOK, saveRooms

\* What time does to TTLs.
LEMMA Elapsed ==
  ASSUME PresenceTypeOK, Elapse
  PROVE  /\ PresenceTypeOK'
         /\ \A k \in Keys : /\ keyTTL'[k] = IF keyTTL[k] = 0 THEN 0 ELSE keyTTL[k] - 1
                            /\ members'[k] = IF keyTTL[k] <= 1 THEN {} ELSE members[k]
         /\ \A r \in Rooms, k \in Keys :
              fieldTTL'[r][k] = IF fieldTTL[r][k] = 0 THEN 0 ELSE fieldTTL[r][k] - 1
BY Constants DEF PresenceTypeOK, Elapse

\* TTLs and times are numbers.
LEMMA Numbers ==
  ASSUME TypeOK
  PROVE  /\ \A k \in Keys : keyTTL[k] \in Nat /\ keyTTL[k] <= connTTL
         /\ \A r \in Rooms, k \in Keys : fieldTTL[r][k] \in Nat /\ fieldTTL[r][k] <= connTTL
         /\ \A c \in Conns : since[c] \in Nat /\ since[c] <= pingPeriod /\ waited[c] \in Nat
         /\ \A c \in Conns : Left(c) \in Int
BY Constants DEF TypeOK, PresenceTypeOK, Left

LEMMA InitInv == Init => IInv
<1> SUFFICES ASSUME Init PROVE IInv
  BY Zenon
<1>1. TypeOK
  BY Constants, SessionsAssumption DEF Init, PresenceInit, TypeOK, PresenceTypeOK
<1>2. ConnInv
  BY Zenon DEF Init, ConnInv, ConnOK
<1> QED
  BY <1>1, <1>2, Constants
  DEF Init, PresenceInit, IInv, MembersInv, NoResurrection, LatestInv, HeldInv, TimeInv,
      RacedInv, Fresh

-----------------------------------------------------------------------------
\* A step that leaves Redis, calls and the history alone.  It may close sockets; the
\* presence of one that stays open has to live as long as before.
LEMMA QuietStep ==
  ASSUME IInv, TypeOK', ConnInv', UNCHANGED <<redis, latest, raced, overdue>>,
         open' \subseteq open,
         \A d \in Conns : held'[d] = held[d] \/ held'[d] = {},
         \A d \in open' : Left(d)' = Left(d) /\ (call'[d] = "read" => call[d] = "read" /\ held'[d] = held[d])
  PROVE  IInv'
<1>1. MembersInv' /\ NoResurrection' /\ RacedInv'
  BY Zenon DEF IInv, MembersInv, NoResurrection, RacedInv, redis
<1>2. \A d \in Conns : Fresh(d)' => Fresh(d) /\ d \in open'
  BY Zenon DEF Fresh
<1>3. LatestInv' /\ HeldInv'
  BY <1>2, Zenon DEF IInv, LatestInv, HeldInv, redis
<1>4. TimeInv'
  BY <1>2, Zenon DEF IInv, TimeInv, Alive, redis
<1> QED
  BY <1>1, <1>3, <1>4, Zenon DEF IInv

\* Redis executes a Connect.  Older connections of the key are not the latest any more.
LEMMA ConnectStep == ASSUME IInv, NEW c \in Conns, Connect(c) PROVE IInv'
<1> DEFINE k == KeyOf(c)
<1>0. k \in Keys /\ RoomsOf[c] \in SUBSET Rooms
  BY Constants, Zenon
<1>1. /\ fieldTTL' \in [Rooms -> [Keys -> 0 .. connTTL]]
      /\ \A r \in Rooms, j \in Keys :
           fieldTTL'[r][j] = IF r \in RoomsOf[c] /\ j = k THEN connTTL ELSE fieldTTL[r][j]
  BY <1>0, SavedRooms DEF IInv, TypeOK, Connect, ConnectTx
<1>2. /\ members' = [members EXCEPT ![k] = RoomsOf[c]]
      /\ keyTTL' = [keyTTL EXCEPT ![k] = connTTL]
      /\ latest' = [latest EXCEPT ![k] = {c}]
      /\ raced' = [raced EXCEPT ![k] = {}]
      /\ stage' = [stage EXCEPT ![c] = "connecting"] /\ open' = open \cup {c}
      /\ UNCHANGED <<hub, pinger, since, waited, call, held, overdue, faults>>
  BY Zenon DEF Connect, ConnectTx, saveClient, ping
<1>3. pinger[c] = "off" /\ call[c] = "none" /\ since[c] = 0
  BY Zenon DEF IInv, ConnInv, ConnOK, Connect
<1>4. /\ \A j \in Keys : keyTTL'[j] = IF j = k THEN connTTL ELSE keyTTL[j]
      /\ \A j \in Keys : members'[j] = IF j = k THEN RoomsOf[c] ELSE members[j]
      /\ \A j \in Keys : latest'[j] = IF j = k THEN {c} ELSE latest[j]
      /\ \A j \in Keys : raced'[j] = IF j = k THEN {} ELSE raced[j]
  BY <1>0, <1>2 DEF IInv, TypeOK, PresenceTypeOK
<1> HIDE DEF k
<1>5. TypeOK'
  BY <1>0, <1>1, <1>2, Constants DEF IInv, TypeOK, PresenceTypeOK
<1>6. ConnInv'
  <2>1. stage \in [Conns -> {"none", "connecting", "present", "serving", "left", "done"}]
    BY Zenon DEF IInv, TypeOK
  <2> QED
    BY <1>2, <1>3, <2>1, Zenon DEF IInv, ConnInv, ConnOK
<1>7. MembersInv'
  BY <1>0, <1>4, Constants DEF IInv, MembersInv, k
<1>8. NoResurrection'
  BY <1>0, <1>1, <1>4, Numbers, Constants DEF IInv, NoResurrection
<1>9. \A d \in Conns : KeyOf(d) \in Keys
  BY Constants, Zenon
<1>10. RacedInv'
  BY <1>2, <1>4, <1>9, Constants DEF IInv, RacedInv
<1>11. \A d \in Conns : Fresh(d)' => d = c \/ (KeyOf(d) # k /\ Fresh(d))
  <2> SUFFICES ASSUME NEW d \in Conns, Fresh(d)', d # c PROVE KeyOf(d) # k /\ Fresh(d)
    BY Zenon
  <2>1. d \in open /\ latest'[KeyOf(d)] = {d}
    BY <1>2, Zenon DEF Fresh
  <2>2. KeyOf(d) # k
    <3>1. {d} # {c}
      BY Zenon
    <3> QED
      BY <1>0, <1>4, <2>1, <3>1, Zenon
  <2>3. latest[KeyOf(d)] = {d}
    BY <1>4, <1>9, <2>1, <2>2, Zenon
  <2> QED
    BY <2>1, <2>2, <2>3, Zenon DEF Fresh
<1>12. LatestInv' /\ HeldInv'
  BY <1>0, <1>2, <1>3, <1>4, <1>9, <1>11, Zenon DEF IInv, LatestInv, HeldInv, k
<1>13. TimeInv'
  <2> SUFFICES ASSUME NEW d \in Conns, Fresh(d)', d \notin overdue'
               PROVE  Left(d)' > 0 /\ Alive(d, Left(d))'
    BY Zenon DEF TimeInv
  <2>1. Left(d)' = Left(d)
    BY <1>2, Zenon DEF Left, Unrenewed
  <2>2. CASE d = c
    <3>1. Left(c) = connTTL
      BY <1>3, Constants DEF Left, Unrenewed
    <3>2. keyTTL'[KeyOf(c)] >= connTTL /\ \A r \in RoomsOf[c] : fieldTTL'[r][KeyOf(c)] >= connTTL
      BY <1>0, <1>1, <1>4, Constants DEF k
    <3>3. Left(c)' = connTTL
      BY <2>1, <2>2, <3>1, Zenon
    <3> QED
      BY <2>2, <3>2, <3>3, Constants DEF Alive
  <2>3. CASE d # c
    <3>1. KeyOf(d) # k /\ Fresh(d) /\ d \notin overdue
      BY <1>2, <1>11, <2>3, Zenon
    <3>2. keyTTL'[KeyOf(d)] = keyTTL[KeyOf(d)]
          /\ \A r \in RoomsOf[d] : fieldTTL'[r][KeyOf(d)] = fieldTTL[r][KeyOf(d)]
      BY <1>1, <1>4, <3>1, Constants, Zenon
    <3> QED
      BY <2>1, <3>1, <3>2, Zenon DEF IInv, TimeInv, Alive
  <2> QED
    BY <2>2, <2>3, Zenon
<1> QED
  BY <1>5, <1>6, <1>7, <1>8, <1>10, <1>12, <1>13, Zenon DEF IInv

\* Ping reads.  The latest connection, unless it is overdue, has a key with its rooms.
LEMMA PingReadStep == ASSUME IInv, NEW c \in Conns, PingRead(c) PROVE IInv'
<1> DEFINE k == KeyOf(c)
<1>0. k \in Keys
  BY Constants, Zenon
<1>1. /\ call[c] = "sent" /\ call' = [call EXCEPT ![c] = "read"]
      /\ UNCHANGED <<members, keyTTL, fieldTTL, stage, open, hub, pinger, since, waited, latest, raced>>
  BY Zenon DEF PingRead, redis, conn
<1>2. \/ held' = [held EXCEPT ![c] = members[k]] /\ overdue' = overdue
      \/ held' = held /\ overdue' = overdue \cup {c}
  BY Zenon DEF PingRead, SMembers
<1>3. held[c] = {} /\ pinger[c] # "writing" /\ pinger[c] # "waiting"
  BY <1>1 DEF IInv, ConnInv, ConnOK
<1>4. /\ held \in [Conns -> SUBSET Rooms] /\ call \in [Conns -> {"none", "sent", "read"}]
      /\ members[k] \in SUBSET Rooms /\ overdue \subseteq Conns
  BY <1>0, Zenon DEF IInv, TypeOK, PresenceTypeOK
<1> HIDE DEF k
<1>5. /\ call'[c] = "read" /\ \A d \in Conns \ {c} : call'[d] = call[d] /\ held'[d] = held[d]
      /\ \/ held'[c] = members[k] /\ overdue' = overdue
         \/ held'[c] = {} /\ overdue' = overdue \cup {c}
  BY <1>1, <1>2, <1>3, <1>4, Zenon
<1>6. TypeOK'
  <2>1. faults' \in 0 .. MaxFaults
    BY SessionsAssumption DEF PingRead, Fault, IInv, TypeOK
  <2>2. held' \in [Conns -> SUBSET Rooms] /\ overdue' \subseteq Conns
        /\ call' \in [Conns -> {"none", "sent", "read"}]
    BY <1>1, <1>2, <1>4, Zenon
  <2> QED
    BY <1>1, <2>1, <2>2, Zenon DEF IInv, TypeOK, PresenceTypeOK
<1>7. ConnInv'
  BY <1>1, <1>5, Zenon DEF IInv, ConnInv, ConnOK
<1>8. MembersInv' /\ NoResurrection' /\ LatestInv'
  BY <1>1, Zenon DEF IInv, MembersInv, NoResurrection, LatestInv, Fresh
<1>9. RacedInv'
  <2>1. \A r \in held'[c] : keyTTL[k] > 0
    BY <1>0, <1>5, Zenon DEF IInv, MembersInv
  <2> QED
    BY <1>1, <1>5, <2>1, Zenon DEF IInv, RacedInv, k
<1>10. \A d \in Conns : Fresh(d)' = Fresh(d) /\ Left(d)' = Left(d)
  <2>1. \A d \in Conns : Unrenewed(d)' = Unrenewed(d)
    BY <1>1, <1>5, Zenon DEF Unrenewed
  <2> QED
    BY <1>1, <2>1, Zenon DEF Fresh, Left
<1>11. TimeInv'
  BY <1>1, <1>5, <1>10, Zenon DEF IInv, TimeInv, Alive
<1>12. HeldInv'
  <2>1. Fresh(c) /\ c \notin overdue => members[k] = RoomsOf[c]
    <3> SUFFICES ASSUME Fresh(c), c \notin overdue PROVE members[k] = RoomsOf[c]
      OBVIOUS
    <3>1. Left(c) > 0 /\ keyTTL[k] >= Left(c) /\ Left(c) \in Int /\ keyTTL[k] \in Nat
      BY <1>0, Numbers DEF IInv, TimeInv, Alive, k
    <3>2. keyTTL[k] # 0
      BY <3>1
    <3> QED
      BY <3>2, Zenon DEF IInv, LatestInv, k
  <2>2. Fresh(c) => members[k] = RoomsOf[c] \/ members[k] = {}
    <3>1. members[k] # {} => keyTTL[k] # 0
      BY <1>0, Numbers DEF IInv, MembersInv
    <3> QED
      BY <3>1, Zenon DEF IInv, LatestInv, k
  <2> QED
    BY <1>5, <1>10, <2>1, <2>2, Zenon DEF IInv, HeldInv
<1> QED
  BY <1>6, <1>7, <1>8, <1>9, <1>11, <1>12, Zenon DEF IInv

\* Redis executes a Ping.  No TTL gets shorter, and those of the latest connection are
\* full if its Ping read its rooms and the key is still there.
LEMMA PingExecStep == ASSUME IInv, NEW c \in Conns, PingExec(c) PROVE IInv'
<1> DEFINE k == KeyOf(c)
<1> DEFINE H == held[c]
<1>0. k \in Keys /\ H \in SUBSET Rooms
  BY Constants, Zenon DEF IInv, TypeOK
<1>1. /\ fieldTTL' \in [Rooms -> [Keys -> 0 .. connTTL]]
      /\ \A r \in Rooms, j \in Keys :
           fieldTTL'[r][j] = IF r \in H /\ j = k THEN connTTL ELSE fieldTTL[r][j]
  BY <1>0, SavedRooms DEF IInv, TypeOK, PingExec, PingTx
<1>2. /\ call[c] = "read" /\ call' = [call EXCEPT ![c] = "none"] /\ held' = [held EXCEPT ![c] = {}]
      /\ overdue' = IF H # {} /\ keyTTL[k] > 0 THEN overdue \ {c} ELSE overdue
      /\ keyTTL' = [keyTTL EXCEPT ![k] = IF @ = 0 THEN 0 ELSE connTTL]
      /\ UNCHANGED <<members, stage, open, hub, pinger, since, waited, latest, raced, faults>>
  BY Zenon DEF PingExec, PingTx, conn
<1>3. \A j \in Keys : keyTTL'[j] = IF j # k THEN keyTTL[j] ELSE IF keyTTL[k] = 0 THEN 0 ELSE connTTL
  BY <1>0, <1>2 DEF IInv, TypeOK, PresenceTypeOK
<1>4. /\ call'[c] = "none" /\ held'[c] = {}
      /\ \A d \in Conns \ {c} : call'[d] = call[d] /\ held'[d] = held[d]
      /\ \A d \in Conns \ {c} : d \in overdue' <=> d \in overdue
  BY <1>2, Zenon DEF IInv, TypeOK
<1>5. \A j \in Keys : keyTTL'[j] >= keyTTL[j] /\ (keyTTL'[j] = 0 <=> keyTTL[j] = 0)
  BY <1>0, <1>3, Numbers, Constants DEF IInv
<1>6. \A r \in Rooms, j \in Keys : fieldTTL'[r][j] >= fieldTTL[r][j]
  BY <1>0, <1>1, Numbers, Constants DEF IInv
<1>7. \A j \in Keys : keyTTL[j] \in Nat /\ keyTTL'[j] \in Nat
  BY <1>0, <1>3, Numbers, Constants DEF IInv
<1>8. \A r \in H : keyTTL[k] > 0 \/ r \in raced[k]
  BY Zenon DEF IInv, RacedInv
<1> HIDE DEF k, H
<1>9. TypeOK'
  BY <1>0, <1>1, <1>2, <1>3, Constants DEF IInv, TypeOK, PresenceTypeOK
<1>10. ConnInv'
  BY <1>2, <1>4, Zenon DEF IInv, ConnInv, ConnOK
<1>11. MembersInv'
  BY <1>2, <1>5, <1>7 DEF IInv, MembersInv
<1>12. NoResurrection'
  <2> SUFFICES ASSUME NEW j \in Keys, NEW r \in Rooms
               PROVE  fieldTTL'[r][j] <= keyTTL'[j] \/ (keyTTL'[j] = 0 /\ r \in raced'[j])
    BY Zenon DEF NoResurrection
  <2>0. fieldTTL[r][j] <= keyTTL[j] \/ (keyTTL[j] = 0 /\ r \in raced[j])
    BY Zenon DEF IInv, NoResurrection
  <2>1. CASE j # k
    BY <1>1, <1>2, <1>3, <2>0, <2>1
  <2>2. CASE j = k /\ keyTTL[k] > 0
    BY <1>0, <1>1, <1>3, <2>2, Numbers, Constants DEF IInv
  <2>3. CASE j = k /\ ~ keyTTL[k] > 0
    <3>1. keyTTL[k] = 0 /\ keyTTL'[k] = 0
      BY <1>0, <1>5, <1>7, <2>3
    <3>2. CASE r \in H
      BY <1>2, <1>8, <2>3, <3>1, <3>2, Zenon
    <3>3. CASE r \notin H
      BY <1>1, <1>2, <2>0, <2>3, <3>1, <3>3
    <3> QED
      BY <3>2, <3>3
  <2> QED
    BY <2>1, <2>2, <2>3
<1>13. \A d \in Conns : Fresh(d)' = Fresh(d) /\ KeyOf(d) \in Keys
  BY <1>2, Constants, Zenon DEF Fresh
<1>14. LatestInv' /\ HeldInv'
  <2>1. LatestInv'
    BY <1>2, <1>5, <1>13, Zenon DEF IInv, LatestInv
  <2>2. HeldInv'
    <3> SUFFICES ASSUME NEW d \in Conns, Fresh(d), call'[d] = "read"
                 PROVE  held'[d] = RoomsOf[d] \/ (held'[d] = {} /\ d \in overdue')
      BY <1>13, Zenon DEF HeldInv
    <3>1. d \in Conns \ {c}
      BY <1>4, Zenon
    <3> QED
      BY <1>4, <3>1, Zenon DEF IInv, HeldInv
  <2> QED
    BY <2>1, <2>2
<1>15. RacedInv'
  <2> SUFFICES ASSUME NEW d \in Conns, NEW r \in held'[d]
               PROVE  keyTTL'[KeyOf(d)] > 0 \/ r \in raced'[KeyOf(d)]
    BY Zenon DEF RacedInv
  <2>1. r \in held[d]
    BY <1>4, Zenon
  <2>2. keyTTL[KeyOf(d)] > 0 \/ r \in raced[KeyOf(d)]
    BY <2>1, Zenon DEF IInv, RacedInv
  <2> QED
    BY <1>2, <1>5, <1>7, <1>13, <2>2
<1>16. TimeInv'
  <2> SUFFICES ASSUME NEW d \in Conns, Fresh(d), d \notin overdue'
               PROVE  Left(d)' > 0 /\ Alive(d, Left(d))'
    BY <1>13, Zenon DEF TimeInv
  <2>0. KeyOf(d) \in Keys /\ RoomsOf[d] \in SUBSET Rooms
    BY Constants, Zenon
  <2>1. CASE d # c
    <3>1. Left(d)' = Left(d) /\ d \notin overdue
      BY <1>2, <1>4, <2>1, Zenon DEF Left, Unrenewed
    <3>2. Left(d) > 0 /\ Alive(d, Left(d)) /\ Left(d) \in Int
      BY <3>1, Numbers DEF IInv, TimeInv
    <3>3. /\ keyTTL'[KeyOf(d)] >= Left(d)
          /\ \A r \in RoomsOf[d] : fieldTTL'[r][KeyOf(d)] >= Left(d)
      BY <1>1, <1>5, <1>6, <1>7, <2>0, <3>2, Numbers, Constants DEF IInv, Alive
    <3> QED
      BY <3>1, <3>2, <3>3, Zenon DEF Alive
  <2>2. CASE d = c
    <3>1. pinger[c] # "writing"
      BY <1>2, Zenon DEF IInv, ConnInv, ConnOK
    <3>2. Left(c)' = connTTL - since[c]
      BY <1>2, <1>4, <3>1, Zenon DEF Left, Unrenewed
    <3>3. since[c] \in Nat /\ since[c] <= pingPeriod
      BY Numbers DEF IInv
    <3>4. H = RoomsOf[c] /\ keyTTL[k] > 0
      <4>1. CASE H # {} /\ keyTTL[k] > 0
        BY <1>2, <2>2, <4>1, Zenon DEF IInv, HeldInv, H
      <4>2. CASE ~(H # {} /\ keyTTL[k] > 0)
        <5>1. c \notin overdue
          BY <1>2, <2>2, <4>2, Zenon
        <5>2. H = RoomsOf[c]
          BY <1>2, <2>2, <5>1, Zenon DEF IInv, HeldInv, H
        <5>3. Left(c) > 0 /\ keyTTL[k] >= Left(c) /\ Left(c) \in Int
          BY <2>2, <5>1, Numbers DEF IInv, TimeInv, Alive, k
        <5> QED
          BY <1>0, <1>7, <5>2, <5>3
      <4> QED
        BY <4>1, <4>2
    <3>5. keyTTL'[k] = connTTL /\ \A r \in RoomsOf[c] : fieldTTL'[r][k] = connTTL
      BY <1>0, <1>1, <1>3, <1>7, <3>4
    <3>6. connTTL - since[c] > 0 /\ connTTL >= connTTL - since[c]
      BY <3>3, Constants
    <3> QED
      BY <2>2, <3>2, <3>5, <3>6, Zenon DEF Alive, k
  <2> QED
    BY <2>1, <2>2
<1> QED
  BY <1>9, <1>10, <1>11, <1>12, <1>14, <1>15, <1>16, Zenon DEF IInv

\* Time passes.  A connection that does not become overdue has time left.
LEMMA TickStep == ASSUME IInv, Tick PROVE IInv'
<1>0. TypeOK /\ ConnInv /\ PresenceTypeOK
  BY Zenon DEF IInv, TypeOK
<1>1. /\ UNCHANGED <<stage, open, hub, pinger, call, held, latest, faults>>
      /\ since' = [c \in Conns |-> IF pinger[c] = "off" THEN 0 ELSE since[c] + 1]
      /\ waited' = [c \in Conns |-> IF pinger[c] = "calling" THEN waited[c] + 1 ELSE 0]
      /\ overdue' = {c \in open : c \in overdue \/ Late(c)}
      /\ raced' = [k \in Keys |-> IF keyTTL[k] = 1
                                  THEN UNION {held[c] : c \in {d \in Conns : KeyOf(d) = k}}
                                  ELSE raced[k]]
  BY Zenon DEF Tick, conn
<1>2. /\ PresenceTypeOK'
      /\ \A k \in Keys : /\ keyTTL'[k] = IF keyTTL[k] = 0 THEN 0 ELSE keyTTL[k] - 1
                         /\ members'[k] = IF keyTTL[k] <= 1 THEN {} ELSE members[k]
      /\ \A r \in Rooms, k \in Keys :
           fieldTTL'[r][k] = IF fieldTTL[r][k] = 0 THEN 0 ELSE fieldTTL[r][k] - 1
  BY <1>0, Elapsed DEF Tick
<1>3. /\ \A k \in Keys : keyTTL[k] \in Nat
      /\ \A r \in Rooms, k \in Keys : fieldTTL[r][k] \in Nat
      /\ \A c \in Conns : since[c] \in Nat /\ since[c] <= pingPeriod /\ waited[c] \in Nat
      /\ \A c \in Conns : Left(c) \in Int /\ KeyOf(c) \in Keys /\ RoomsOf[c] \in SUBSET Rooms
  BY <1>0, Numbers, Constants
<1>4. ASSUME NEW c \in Conns
      PROVE  /\ since'[c] = IF pinger[c] = "off" THEN 0 ELSE since[c] + 1
             /\ waited'[c] = IF pinger[c] = "calling" THEN waited[c] + 1 ELSE 0
             /\ since'[c] \in 0 .. pingPeriod /\ waited'[c] \in 0 .. pingTimeout
             /\ pinger[c] = "writing" => since'[c] <= writeTimeout
             /\ pinger[c] = "calling" => since'[c] <= writeTimeout + waited'[c]
  <2>1. /\ since'[c] = IF pinger[c] = "off" THEN 0 ELSE since[c] + 1
        /\ waited'[c] = IF pinger[c] = "calling" THEN waited[c] + 1 ELSE 0
    BY <1>1
  <2>2. /\ pinger[c] = "waiting" => since[c] < pingPeriod
        /\ pinger[c] = "writing" => since[c] < writeTimeout
        /\ pinger[c] = "calling" => waited[c] < pingTimeout /\ since[c] <= writeTimeout + waited[c]
        /\ pinger[c] \in {"off", "waiting", "writing", "calling"}
    BY <1>0, Zenon DEF Tick, ConnInv, ConnOK, TypeOK
  <2> QED
    BY <1>3, <2>1, <2>2, Constants
<1>5. TypeOK'
  <2>1. /\ since' \in [Conns -> 0 .. pingPeriod] /\ waited' \in [Conns -> 0 .. pingTimeout]
    BY <1>1, <1>4, Zenon
  <2>2. raced' \in [Keys -> SUBSET Rooms]
    <3>1. \A k \in Keys : UNION {held[c] : c \in {d \in Conns : KeyOf(d) = k}} \subseteq Rooms
      <4> SUFFICES ASSUME NEW k \in Keys, NEW c \in Conns, NEW r \in held[c] PROVE r \in Rooms
        BY Zenon
      <4> QED
        BY <1>0, Zenon DEF TypeOK
    <3>2. raced \in [Keys -> SUBSET Rooms]
      BY <1>0, Zenon DEF TypeOK
    <3> QED
      BY <1>1, <3>1, <3>2, Zenon
  <2>3. overdue' \subseteq Conns
    BY <1>0, <1>1, Zenon DEF TypeOK
  <2> QED
    BY <1>0, <1>1, <1>2, <2>1, <2>2, <2>3, Zenon DEF TypeOK
<1>6. ConnInv'
  BY <1>0, <1>1, <1>4, Zenon DEF ConnInv, ConnOK
<1>7. MembersInv'
  BY <1>2, <1>3 DEF IInv, MembersInv
<1>8. LatestInv'
  <2> SUFFICES ASSUME NEW c \in Conns, Fresh(c)
               PROVE  members'[KeyOf(c)] = RoomsOf[c] \/ keyTTL'[KeyOf(c)] = 0
    BY <1>1, Zenon DEF LatestInv, Fresh
  <2>1. members[KeyOf(c)] = RoomsOf[c] \/ keyTTL[KeyOf(c)] = 0
    BY Zenon DEF IInv, LatestInv
  <2> QED
    BY <1>2, <1>3, <2>1
<1>9. HeldInv'
  BY <1>1, Zenon DEF IInv, HeldInv, Fresh
<1>10. RacedInv'
  <2> SUFFICES ASSUME NEW c \in Conns, NEW r \in held[c]
               PROVE  keyTTL'[KeyOf(c)] > 0 \/ r \in raced'[KeyOf(c)]
    BY <1>1, Zenon DEF RacedInv
  <2>0. keyTTL[KeyOf(c)] > 0 \/ r \in raced[KeyOf(c)]
    BY Zenon DEF IInv, RacedInv
  <2>1. CASE keyTTL[KeyOf(c)] = 1
    BY <1>1, <1>3, <2>1, Zenon
  <2>2. CASE keyTTL[KeyOf(c)] # 1
    <3>1. raced'[KeyOf(c)] = raced[KeyOf(c)]
      BY <1>1, <1>3, <2>2, Zenon
    <3> QED
      BY <1>2, <1>3, <2>0, <2>2, <3>1
  <2> QED
    BY <2>1, <2>2
<1>11. NoResurrection'
  <2> SUFFICES ASSUME NEW k \in Keys, NEW r \in Rooms
               PROVE  fieldTTL'[r][k] <= keyTTL'[k] \/ (keyTTL'[k] = 0 /\ r \in raced'[k])
    BY Zenon DEF NoResurrection
  <2>0. fieldTTL[r][k] <= keyTTL[k] \/ (keyTTL[k] = 0 /\ r \in raced[k])
    BY Zenon DEF IInv, NoResurrection
  <2>1. keyTTL[k] # 1 => raced'[k] = raced[k]
    BY <1>1, Zenon
  <2> QED
    BY <1>2, <1>3, <2>0, <2>1
<1>12. TimeInv'
  <2> SUFFICES ASSUME NEW c \in Conns, Fresh(c), c \notin overdue'
               PROVE  Left(c)' > 0 /\ Alive(c, Left(c))'
    BY <1>1, Zenon DEF TimeInv, Fresh
  <2>1. c \in open /\ c \notin overdue /\ ~Late(c)
    BY <1>1, Zenon DEF Fresh
  <2>2. pinger[c] # "off"
    BY <1>0, <2>1, Zenon DEF ConnInv, ConnOK, Late
  <2>3. since'[c] = since[c] + 1 /\ since[c] + 1 <= pingPeriod
    BY <1>3, <1>4, <2>2, Constants
  <2>4. Unrenewed(c)' = Unrenewed(c)
    BY <1>1, Zenon DEF Unrenewed
  <2>5. Unrenewed(c) => ~(since[c] + 1 >= connTTL - pingPeriod)
    BY <2>1, Zenon DEF Unrenewed, Late
  <2>6. Left(c)' = IF Unrenewed(c) THEN connTTL - pingPeriod - (since[c] + 1)
                                   ELSE connTTL - (since[c] + 1)
    BY <2>3, <2>4, Zenon DEF Left
  <2>7. Left(c)' = Left(c) - 1 /\ Left(c)' > 0
    BY <1>3, <2>3, <2>5, <2>6, Constants DEF Left
  <2>8. Left(c) > 0 /\ Alive(c, Left(c))
    BY <2>1, Zenon DEF IInv, TimeInv
  <2>9. /\ keyTTL'[KeyOf(c)] >= Left(c) - 1
        /\ \A r \in RoomsOf[c] : fieldTTL'[r][KeyOf(c)] >= Left(c) - 1
    BY <1>2, <1>3, <2>8 DEF Alive
  <2> QED
    BY <2>7, <2>9, Zenon DEF Alive
<1> QED
  BY <1>5, <1>6, <1>7, <1>8, <1>9, <1>10, <1>11, <1>12, Zenon DEF IInv

\* Disconnect reads no rooms and changes nothing in Redis.
LEMMA DisconnectIdle == ASSUME IInv, NEW c \in Conns, Disconnect(c) PROVE UNCHANGED redis
<1>1. members[Unnamed(c)] = {}
  BY UnnamedKey, Constants, Zenon DEF IInv, MembersInv
<1> QED
  BY <1>1, Zenon DEF Disconnect, SMembers

\* What the end of some pingers leaves.
LEMMA Ended ==
  ASSUME TypeOK, NEW cs \in SUBSET Conns, PingEnds(cs)
  PROVE  /\ pinger' \in [Conns -> {"off", "waiting", "writing", "calling"}]
         /\ since' \in [Conns -> 0 .. pingPeriod] /\ waited' \in [Conns -> 0 .. pingTimeout]
         /\ \A c \in cs : pinger'[c] = "off" /\ since'[c] = 0 /\ waited'[c] = 0
         /\ \A c \in Conns \ cs : /\ pinger'[c] = pinger[c]
                                  /\ since'[c] = since[c] /\ waited'[c] = waited[c]
BY Constants DEF TypeOK, PingEnds

\* A step of connections cs leaves the others as they are.
LEMMA OthersOK ==
  ASSUME ConnInv, NEW cs \in SUBSET Conns, \A c \in cs : ConnOK(c)',
         open' \subseteq open, open \ open' \subseteq cs,
         \A d \in Conns \ cs :
           /\ stage'[d] = stage[d] /\ pinger'[d] = pinger[d] /\ since'[d] = since[d]
           /\ waited'[d] = waited[d] /\ call'[d] = call[d] /\ held'[d] = held[d]
  PROVE  ConnInv'
<1> SUFFICES ASSUME NEW d \in Conns \ cs PROVE ConnOK(d)'
  BY Zenon DEF ConnInv
<1>1. ConnOK(d) /\ (d \in open' <=> d \in open)
  BY Zenon DEF ConnInv
<1>2. /\ stage'[d] = stage[d] /\ pinger'[d] = pinger[d] /\ since'[d] = since[d]
      /\ waited'[d] = waited[d] /\ call'[d] = call[d] /\ held'[d] = held[d]
  BY Zenon
<1> QED
  BY <1>1, <1>2, Zenon DEF ConnOK

-----------------------------------------------------------------------------
\* The invariant survives every step.
LEMMA InvStep == IInv /\ [Next]_vars => IInv'
<1> SUFFICES ASSUME IInv, [Next]_vars PROVE IInv'
  BY Zenon
<1>0. TypeOK /\ ConnInv
  BY Zenon DEF IInv
<1> USE DEF conn, ping, history
<1>1. ASSUME NEW c \in Conns, StartPing(c) PROVE IInv'
  <2>1. TypeOK'
    BY <1>0, <1>1, Zenon DEF StartPing, TypeOK, PresenceTypeOK, redis
  <2>2. ConnInv'
    BY <1>0, <1>1, Zenon DEF StartPing, ConnInv, ConnOK, TypeOK
  <2>3. \A d \in Conns : Unrenewed(d)' = Unrenewed(d)
    BY <1>0, <1>1, Zenon DEF StartPing, ConnInv, ConnOK, TypeOK, Unrenewed
  <2>4. \A d \in Conns : Left(d)' = Left(d)
    BY <1>1, <2>3, Zenon DEF Left, StartPing
  <2> QED
    BY <1>0, <1>1, <2>1, <2>2, <2>4, QuietStep, Zenon DEF StartPing, TypeOK
<1>2. ASSUME NEW c \in Conns, ConnectFails(c) PROVE IInv'
  <2>0. faults' \in 0 .. MaxFaults
    BY <1>0, <1>2, SessionsAssumption DEF ConnectFails, Fault, TypeOK
  <2>1. TypeOK'
    BY <1>0, <1>2, <2>0, Zenon DEF ConnectFails, TypeOK, PresenceTypeOK, redis
  <2>2. ConnInv'
    BY <1>0, <1>2, Zenon DEF ConnectFails, ConnInv, ConnOK, TypeOK
  <2>3. \A d \in Conns : Left(d)' = Left(d)
    BY <1>2, Zenon DEF ConnectFails, Left, Unrenewed
  <2> QED
    BY <1>0, <1>2, <2>1, <2>2, <2>3, QuietStep, Zenon DEF ConnectFails, TypeOK
<1>3. ASSUME NEW c \in Conns, Register(c) PROVE IInv'
  <2>1. TypeOK'
    BY <1>0, <1>3, Zenon DEF Register, TypeOK, PresenceTypeOK, redis
  <2>2. ConnInv'
    BY <1>0, <1>3, Zenon DEF Register, ConnInv, ConnOK, TypeOK
  <2>3. \A d \in Conns : Left(d)' = Left(d)
    BY <1>3, Zenon DEF Register, Left, Unrenewed
  <2> QED
    BY <1>0, <1>3, <2>1, <2>2, <2>3, QuietStep, Zenon DEF Register, TypeOK
<1>4. ASSUME NEW c \in Conns, Unregister(c) PROVE IInv'
  <2>1. TypeOK'
    BY <1>0, <1>4, Zenon DEF Unregister, TypeOK, PresenceTypeOK, redis
  <2>2. ConnInv'
    BY <1>0, <1>4, Zenon DEF Unregister, ConnInv, ConnOK, TypeOK
  <2>3. \A d \in Conns : Left(d)' = Left(d)
    BY <1>4, Zenon DEF Unregister, Left, Unrenewed
  <2> QED
    BY <1>0, <1>4, <2>1, <2>2, <2>3, QuietStep, Zenon DEF Unregister, TypeOK
<1>5. ASSUME NEW c \in Conns, Disconnect(c) PROVE IInv'
  <2>0. UNCHANGED redis /\ c \notin open
    BY <1>0, <1>5, DisconnectIdle, Zenon DEF Disconnect, ConnInv, ConnOK
  <2>1. /\ pinger' \in [Conns -> {"off", "waiting", "writing", "calling"}]
        /\ since' \in [Conns -> 0 .. pingPeriod] /\ waited' \in [Conns -> 0 .. pingTimeout]
        /\ pinger'[c] = "off" /\ since'[c] = 0 /\ waited'[c] = 0
        /\ \A d \in Conns \ {c} : /\ pinger'[d] = pinger[d]
                                  /\ since'[d] = since[d] /\ waited'[d] = waited[d]
    BY <1>0, <1>5, Ended DEF Disconnect
  <2>2. TypeOK'
    BY <1>0, <1>5, <2>0, <2>1, Zenon DEF Disconnect, TypeOK, PresenceTypeOK, redis
  <2>3. ConnInv'
    <3>1. UNCHANGED <<open, call, held>> /\ stage'[c] = "done"
          /\ \A d \in Conns \ {c} : stage'[d] = stage[d]
      BY <1>0, <1>5, Zenon DEF Disconnect, TypeOK
    <3>2. ConnOK(c)'
      BY <1>0, <2>0, <2>1, <3>1, Zenon DEF ConnInv, ConnOK
    <3>3. open' \subseteq open /\ open \ open' \subseteq {c}
      BY <3>1, Zenon
    <3>4. \A d \in Conns \ {c} :
            /\ stage'[d] = stage[d] /\ pinger'[d] = pinger[d] /\ since'[d] = since[d]
            /\ waited'[d] = waited[d] /\ call'[d] = call[d] /\ held'[d] = held[d]
      BY <2>1, <3>1, Zenon
    <3> QED
      BY <1>0, <3>2, <3>3, <3>4, OthersOK, Zenon
  <2>4. \A d \in open : Left(d)' = Left(d)
    BY <1>0, <1>5, <2>0, <2>1, Zenon DEF Disconnect, Left, Unrenewed, TypeOK
  <2> QED
    BY <1>5, <2>0, <2>2, <2>3, <2>4, QuietStep, Zenon DEF Disconnect
<1>6. ASSUME NEW c \in Conns, TickerFires(c) PROVE IInv'
  <2>0. since[c] = pingPeriod /\ since'[c] = 0 /\ call[c] = "none" /\ call' = call
        /\ pinger[c] = "waiting" /\ pinger'[c] = "writing"
        /\ \A d \in Conns \ {c} : pinger'[d] = pinger[d] /\ since'[d] = since[d]
    BY <1>0, <1>6, Zenon DEF TickerFires, TypeOK, ConnInv, ConnOK
  <2>1. TypeOK'
    <3>1. since' \in [Conns -> 0 .. pingPeriod]
      BY <1>0, <1>6, Constants DEF TickerFires, TypeOK
    <3> QED
      BY <1>0, <1>6, <3>1, Zenon DEF TickerFires, TypeOK, PresenceTypeOK, redis
  <2>2. ConnInv'
    <3>1. 0 <= writeTimeout
      BY Constants
    <3>2. UNCHANGED <<stage, open, waited, call, held>>
      BY <1>6, Zenon DEF TickerFires
    <3>3. ConnOK(c) => ConnOK(c)'
      BY <2>0, <3>1, <3>2, Zenon DEF ConnOK
    <3>4. ConnOK(c)'
      BY <1>0, <3>3, Zenon DEF ConnInv
    <3> QED
      BY <1>0, <2>0, <3>2, <3>4, OthersOK, Zenon
  <2>3. Left(c)' = Left(c)
    <3>1. ~Unrenewed(c) /\ Unrenewed(c)'
      BY <2>0, Zenon DEF Unrenewed
    <3> QED
      BY <2>0, <3>1, Constants DEF Left
  <2>4. \A d \in Conns : Left(d)' = Left(d)
    BY <2>0, <2>3, Zenon DEF Left, Unrenewed
  <2> QED
    BY <1>0, <1>6, <2>1, <2>2, <2>4, QuietStep, Zenon DEF TickerFires, TypeOK
<1>7. ASSUME NEW c \in Conns, WritePing(c) PROVE IInv'
  <2>0. faults' \in 0 .. MaxFaults
    BY <1>0, <1>7, SessionsAssumption DEF WritePing, Fault, TypeOK
  <2>1. CASE /\ pinger' = [pinger EXCEPT ![c] = "calling"] /\ call' = [call EXCEPT ![c] = "sent"]
             /\ UNCHANGED <<open, since, waited>>
    <3>0. /\ pinger[c] = "writing" /\ pinger'[c] = "calling" /\ call'[c] = "sent"
          /\ \A d \in Conns \ {c} : pinger'[d] = pinger[d] /\ call'[d] = call[d]
          /\ UNCHANGED <<redis, stage, hub, held, history>>
      BY <1>0, <1>7, <2>1, Zenon DEF WritePing, TypeOK
    <3>1. TypeOK'
      BY <1>0, <2>0, <2>1, <3>0, Zenon DEF TypeOK, PresenceTypeOK, redis
    <3>2. ConnInv'
      <4>1. since[c] <= writeTimeout + waited[c]
        BY <1>0, <3>0, Numbers, Constants DEF ConnInv, ConnOK
      <4>2. stage[c] \notin {"none", "connecting"} /\ call[c] = "none"
        BY <1>0, <3>0, Zenon DEF ConnInv, ConnOK, TypeOK
      <4>3. UNCHANGED <<stage, open, since, waited, held>>
        BY <2>1, <3>0, Zenon
      <4>4. ConnOK(c) => ConnOK(c)'
        BY <3>0, <4>1, <4>2, <4>3, Zenon DEF ConnOK
      <4>5. ConnOK(c)'
        BY <1>0, <4>4, Zenon DEF ConnInv
      <4> QED
        BY <1>0, <3>0, <4>3, <4>5, OthersOK, Zenon
    <3>3. \A d \in Conns : Unrenewed(d)' = Unrenewed(d)
      BY <3>0, Zenon DEF Unrenewed
    <3>4. \A d \in Conns : Left(d)' = Left(d)
      BY <2>1, <3>3, Zenon DEF Left
    <3> QED
      BY <1>0, <2>1, <3>0, <3>1, <3>2, <3>4, QuietStep, Zenon DEF TypeOK
  <2>2. CASE PingEnds({c}) /\ open' = open \ {c} /\ call' = call
    <3>0. /\ UNCHANGED <<redis, stage, hub, held, history>> /\ pinger[c] = "writing"
      BY <1>7, Zenon DEF WritePing
    <3>1. /\ pinger' \in [Conns -> {"off", "waiting", "writing", "calling"}]
          /\ since' \in [Conns -> 0 .. pingPeriod] /\ waited' \in [Conns -> 0 .. pingTimeout]
          /\ pinger'[c] = "off" /\ since'[c] = 0 /\ waited'[c] = 0
          /\ \A d \in Conns \ {c} : /\ pinger'[d] = pinger[d]
                                    /\ since'[d] = since[d] /\ waited'[d] = waited[d]
      BY <1>0, <2>2, Ended
    <3>2. TypeOK'
      BY <1>0, <2>0, <2>2, <3>0, <3>1, Zenon DEF TypeOK, PresenceTypeOK, redis
    <3>3. ConnInv'
      <4>1. ConnOK(c) /\ ConnOK(c)'
        BY <1>0, <2>2, <3>0, <3>1, Zenon DEF ConnInv, ConnOK
      <4> QED
        BY <1>0, <2>2, <3>0, <3>1, <4>1, OthersOK, Zenon
    <3>4. \A d \in open' : Left(d)' = Left(d)
      BY <1>0, <2>2, <3>1, Zenon DEF Left, Unrenewed, TypeOK
    <3> QED
      BY <2>2, <3>0, <3>2, <3>3, <3>4, QuietStep, Zenon
  <2> QED
    BY <1>7, <2>1, <2>2, Zenon DEF WritePing
<1>8. ASSUME NEW c \in Conns, PingReturns(c) PROVE IInv'
  <2>1. TypeOK'
    <3>1. waited' \in [Conns -> 0 .. pingTimeout]
      BY <1>0, <1>8, Constants DEF PingReturns, TypeOK
    <3> QED
      BY <1>0, <1>8, <3>1, Zenon DEF PingReturns, TypeOK, PresenceTypeOK, redis
  <2>2. ConnInv'
    BY <1>0, <1>8, Zenon DEF PingReturns, ConnInv, ConnOK, TypeOK
  <2>3. \A d \in Conns : Unrenewed(d)' = Unrenewed(d)
    BY <1>0, <1>8, Zenon DEF PingReturns, TypeOK, Unrenewed
  <2>4. \A d \in Conns : Left(d)' = Left(d)
    BY <1>8, <2>3, Zenon DEF Left, PingReturns
  <2> QED
    BY <1>0, <1>8, <2>1, <2>2, <2>4, QuietStep, Zenon DEF PingReturns, TypeOK
<1>9. ASSUME NEW c \in Conns, PingFails(c) PROVE IInv'
  <2>0. faults' \in 0 .. MaxFaults
    BY <1>0, <1>9, SessionsAssumption DEF PingFails, Fault, TypeOK
  <2>1. /\ pinger' \in [Conns -> {"off", "waiting", "writing", "calling"}]
        /\ since' \in [Conns -> 0 .. pingPeriod] /\ waited' \in [Conns -> 0 .. pingTimeout]
        /\ pinger'[c] = "off" /\ since'[c] = 0 /\ waited'[c] = 0
        /\ \A d \in Conns \ {c} : /\ pinger'[d] = pinger[d]
                                  /\ since'[d] = since[d] /\ waited'[d] = waited[d]
    BY <1>0, <1>9, Ended DEF PingFails
  <2>2. TypeOK'
    BY <1>0, <1>9, <2>0, <2>1, Zenon DEF PingFails, TypeOK, PresenceTypeOK, redis
  <2>3. ConnInv'
    <3>1. UNCHANGED <<stage, call, held>> /\ open' = open \ {c} /\ pinger[c] = "calling"
      BY <1>9, Zenon DEF PingFails
    <3>2. ConnOK(c)'
      BY <1>0, <2>1, <3>1, Zenon DEF ConnInv, ConnOK
    <3> QED
      BY <1>0, <2>1, <3>1, <3>2, OthersOK, Zenon
  <2>4. \A d \in open' : Left(d)' = Left(d)
    BY <1>0, <1>9, <2>1, Zenon DEF PingFails, Left, Unrenewed, TypeOK
  <2> QED
    BY <1>9, <2>2, <2>3, <2>4, QuietStep, Zenon DEF PingFails
<1>10. ASSUME NEW c \in Conns, PingDropped(c) PROVE IInv'
  <2>0. /\ c \notin open /\ call'[c] = "none" /\ held'[c] = {}
        /\ \A d \in Conns \ {c} : call'[d] = call[d] /\ held'[d] = held[d]
    BY <1>0, <1>10, Zenon DEF PingDropped, ConnInv, ConnOK, TypeOK
  <2>1. TypeOK'
    BY <1>0, <1>10, Zenon DEF PingDropped, TypeOK, PresenceTypeOK, redis
  <2>2. ConnInv'
    BY <1>0, <1>10, <2>0, Zenon DEF PingDropped, ConnInv, ConnOK
  <2>3. \A d \in open : Left(d)' = Left(d)
    BY <1>0, <1>10, <2>0, Zenon DEF PingDropped, Left, Unrenewed, TypeOK
  <2> QED
    BY <1>0, <1>10, <2>0, <2>1, <2>2, <2>3, QuietStep, Zenon DEF PingDropped, TypeOK
<1>11. ASSUME NEW i \in Instances, Crash(i) PROVE IInv'
  <2> DEFINE dead == {c \in Conns : InstanceOf[c] = i /\ stage[c] # "none"}
  <2>0. /\ stage' = [c \in Conns |-> IF c \in dead THEN "done" ELSE stage[c]]
        /\ open' = open \ dead /\ hub' = [r \in Rooms |-> hub[r] \ dead]
        /\ PingEnds(dead) /\ dead \in SUBSET Conns /\ UNCHANGED <<redis, call, held, history>>
    BY <1>11, Zenon DEF Crash
  <2>1. faults' \in 0 .. MaxFaults
    BY <1>0, <1>11, SessionsAssumption DEF Crash, Fault, TypeOK
  <2> HIDE DEF dead
  <2>2. /\ pinger' \in [Conns -> {"off", "waiting", "writing", "calling"}]
        /\ since' \in [Conns -> 0 .. pingPeriod] /\ waited' \in [Conns -> 0 .. pingTimeout]
        /\ \A c \in dead : pinger'[c] = "off" /\ since'[c] = 0 /\ waited'[c] = 0
        /\ \A c \in Conns \ dead : /\ pinger'[c] = pinger[c]
                                   /\ since'[c] = since[c] /\ waited'[c] = waited[c]
    BY <1>0, <2>0, Ended
  <2>3. TypeOK'
    <3>1. stage' \in [Conns -> {"none", "connecting", "present", "serving", "left", "done"}]
          /\ hub' \in [Rooms -> SUBSET Conns]
      BY <1>0, <2>0, Zenon DEF TypeOK
    <3> QED
      BY <1>0, <2>0, <2>1, <2>2, <3>1, Zenon DEF TypeOK, PresenceTypeOK, redis
  <2>4. ConnInv'
    <3>1. \A c \in Conns : stage'[c] = IF c \in dead THEN "done" ELSE stage[c]
      BY <2>0, Zenon
    <3>2. ASSUME NEW c \in dead PROVE ConnOK(c)'
      <4>1. ConnOK(c) /\ stage'[c] = "done" /\ c \notin open'
        BY <1>0, <2>0, <3>1, <3>2, Zenon DEF ConnInv
      <4>2. call[c] # "none" => pinger'[c] \in {"off", "calling"}
        BY <2>2, <3>2, Zenon
      <4> QED
        BY <2>0, <2>2, <3>2, <4>1, <4>2, Zenon DEF ConnOK
    <3> QED
      BY <1>0, <2>0, <2>2, <3>1, <3>2, OthersOK, Zenon
  <2>5. \A d \in open' : Left(d)' = Left(d)
    BY <1>0, <2>0, <2>2, Zenon DEF Left, Unrenewed, TypeOK
  <2> QED
    BY <1>0, <2>0, <2>3, <2>4, <2>5, QuietStep, Zenon
<1>12. CASE UNCHANGED vars
  <2>1. TypeOK'
    BY <1>0, <1>12, Zenon DEF vars, TypeOK, PresenceTypeOK, redis
  <2>2. ConnInv'
    BY <1>0, <1>12, Zenon DEF vars, ConnInv, ConnOK
  <2>3. \A d \in Conns : Left(d)' = Left(d)
    BY <1>12, Zenon DEF vars, Left, Unrenewed
  <2> QED
    BY <1>0, <1>12, <2>1, <2>2, <2>3, QuietStep, Zenon DEF vars, TypeOK
<1> QED
  BY <1>1, <1>2, <1>3, <1>4, <1>5, <1>6, <1>7, <1>8, <1>9, <1>10, <1>11, <1>12,
     ConnectStep, PingReadStep, PingExecStep, TickStep, Zenon DEF Next

LEMMA Invariant == Spec => []IInv
BY InitInv, InvStep, PTL DEF Spec

-----------------------------------------------------------------------------
\* Every variable keeps its type; in particular runPing is never behind its ticker.
THEOREM TypeCorrect == Spec => []TypeOK
<1>1. IInv => TypeOK
  BY Zenon DEF IInv
<1> QED
  BY Invariant, <1>1, PTL

\* A Ping writes the field of a client key that is gone back only into a room it had read
\* when the key expired; every other field goes no later than its key.
THEOREM NeverResurrected == Spec => []NoResurrection
<1>1. IInv => NoResurrection
  BY Zenon DEF IInv
<1> QED
  BY Invariant, <1>1, PTL

\* While a connection is served and not overdue, HGetAll of each of its rooms names its
\* instance, whatever older connections of the client, failures and crashes do.
THEOREM StaysRoutable == Spec => []Routable
<1>1. ASSUME IInv, NEW c \in Conns, Fresh(c), c \notin overdue, NEW r \in RoomsOf[c]
      PROVE  KeyOf(c) \in HGetAll(r)
  <2>1. r \in Rooms /\ KeyOf(c) \in Keys
    BY Constants, Zenon
  <2>2. fieldTTL[r][KeyOf(c)] \in Nat /\ Left(c) \in Int
    BY <1>1, <2>1, Numbers, Zenon DEF IInv
  <2>3. Left(c) > 0 /\ fieldTTL[r][KeyOf(c)] >= Left(c)
    BY <1>1, Zenon DEF IInv, TimeInv, Alive
  <2>4. fieldTTL[r][KeyOf(c)] > 0
    BY <2>2, <2>3
  <2> QED
    BY <2>1, <2>4, Zenon DEF HGetAll
<1>2. IInv => Routable
  BY <1>1, Zenon DEF Routable, Fresh
<1> QED
  BY Invariant, <1>2, PTL

\* The hub sends only to connections that are served, one per client and instance.
THEOREM HubServes == Spec => []HubIsServed
<1>1. Init => HubIsServed
  BY Zenon DEF Init, HubIsServed
<1>2. IInv /\ HubIsServed /\ [Next]_vars => HubIsServed'
  <2> SUFFICES ASSUME IInv, HubIsServed, [Next]_vars PROVE HubIsServed'
    BY Zenon
  <2>0. /\ stage \in [Conns -> {"none", "connecting", "present", "serving", "left", "done"}]
        /\ hub \in [Rooms -> SUBSET Conns]
    BY Zenon DEF IInv, TypeOK
  <2>1. CASE hub' = hub /\ \A d \in Conns : stage[d] = "serving" => stage'[d] = "serving"
    BY <2>0, <2>1, Zenon DEF HubIsServed
  <2>2. ASSUME NEW c \in Conns, Register(c) PROVE HubIsServed'
    BY <2>0, <2>2 DEF HubIsServed, Register, SameEntry
  <2>3. ASSUME NEW c \in Conns, Unregister(c) PROVE HubIsServed'
    BY <2>0, <2>3 DEF HubIsServed, Unregister, SameEntry
  <2>4. ASSUME NEW i \in Instances, Crash(i) PROVE HubIsServed'
    BY <2>0, <2>4 DEF HubIsServed, Crash, SameEntry
  <2>5. ASSUME NEW c \in Conns,
               Connect(c) \/ StartPing(c) \/ ConnectFails(c) \/ Disconnect(c)
        PROVE  HubIsServed'
    BY <2>0, <2>1, <2>5, Zenon DEF Connect, StartPing, ConnectFails, Disconnect
  <2>6. ASSUME NEW c \in Conns,
               \/ TickerFires(c) \/ WritePing(c) \/ PingRead(c) \/ PingExec(c)
               \/ PingReturns(c) \/ PingFails(c) \/ PingDropped(c)
        PROVE  HubIsServed'
    BY <2>1, <2>6, Zenon
    DEF TickerFires, WritePing, PingRead, PingExec, PingReturns, PingFails, PingDropped, conn
  <2>7. CASE Tick
    BY <2>1, <2>7, Zenon DEF Tick, conn
  <2>8. CASE UNCHANGED vars
    BY <2>1, <2>8, Zenon DEF vars, conn
  <2> QED
    BY <2>2, <2>3, <2>4, <2>5, <2>6, <2>7, <2>8, Zenon DEF Next
<1> QED
  BY Invariant, <1>1, <1>2, PTL DEF Spec
=============================================================================
