---------------------------- MODULE HubLoopProofs ----------------------------
(***************************************************************************)
(* The safety properties of the hub goroutine and the pumps, for any       *)
(* number of clients, rooms and messages and any size of the channels.     *)
(*                                                                         *)
(* A channel is closed only by the Unregister of its client, which takes   *)
(* the client out of the hub first; and the stream of a client, what it    *)
(* received and what is queued for it, only grows at its end, by the       *)
(* envelope in the hub's hand.                                             *)
(***************************************************************************)
EXTENDS HubLoop, SequenceTheorems, TLAPS

\* The types that the argument needs; numbers need no bound.
Types ==
  /\ rooms \in [Rooms -> SUBSET Clients]
  /\ todo \subseteq Clients
  /\ taken \in [Rooms -> Nat]
  /\ incoming \in Seq(Rooms)
  /\ send \in [Clients -> Seq(Nat)]
  /\ closed \subseteq Clients
  /\ reader \in [Clients -> {"none", "reading", "leaving", "gone"}]
  /\ writer \in [Clients -> {"none", "running", "exited"}]
  /\ joined \in [Clients -> Nat]
  /\ got \in [Clients -> Seq(Nat)]

\* A client is registered in its own room; its channel is open and its read pump
\* has not been released.
RoomsInv ==
  \A r \in Rooms : \A c \in rooms[r] :
    RoomOf[c] = r /\ c \notin closed /\ reader[c] \in {"reading", "leaving"}

\* The envelope in hand is one of a single room, taken after its clients joined.
TodoInv ==
  /\ \A c \in todo : c \in rooms[RoomOf[c]] /\ joined[c] < taken[RoomOf[c]]
  /\ \A c, d \in todo : RoomOf[c] = RoomOf[d]

\* A connection that has not been registered is as it was made.
FreshInv ==
  \A c \in Clients : reader[c] = "none" =>
    c \notin closed /\ send[c] = <<>> /\ got[c] = <<>>

\* The number of the last envelope of its room that client c was sent.
Last(c) == taken[RoomOf[c]] - (IF c \in todo THEN 1 ELSE 0)

\* s is n + 1, n + 2, ..., m.
Counts(s, n, m) == Len(s) = m - n /\ \A i \in 1 .. Len(s) : s[i] = n + i

\* The stream of a client that is served.
StreamInv ==
  \A r \in Rooms : \A c \in rooms[r] :
    /\ joined[c] <= Last(c)
    /\ writer[c] = "running" => Counts(got[c] \o send[c], joined[c], Last(c))

IInv == Types /\ RoomsInv /\ TodoInv /\ FreshInv /\ StreamInv

-----------------------------------------------------------------------------
\* One more element at the end of a sequence that counts.
LEMMA CountsOneMore ==
  ASSUME NEW q \in Seq(Nat), NEW p \in Seq(Nat), NEW n \in Nat, NEW m \in Nat, n <= m,
         Counts(q, n, m),
         Len(p) = Len(q) + 1,
         \A i \in 1 .. Len(q) : p[i] = q[i],
         p[Len(q) + 1] = m + 1
  PROVE  Counts(p, n, m + 1)
<1>1. Len(q) \in Nat /\ Len(q) = m - n /\ \A i \in 1 .. Len(q) : q[i] = n + i
  BY DEF Counts
<1>2. ASSUME NEW i \in 1 .. Len(p) PROVE p[i] = n + i
  <2>1. CASE i \in 1 .. Len(q)
    BY <2>1, <1>1, Zenon
  <2>2. CASE i = Len(q) + 1
    BY <2>2, <1>1
  <2> QED
    BY <2>1, <2>2, <1>1
<1> QED
  BY <1>1, <1>2 DEF Counts

\* What Append adds to a stream that counts.
LEMMA CountsAppend ==
  ASSUME NEW g \in Seq(Nat), NEW s \in Seq(Nat), NEW n \in Nat, NEW m \in Nat,
         Counts(g \o s, n, m), n <= m
  PROVE  Counts(g \o Append(s, m + 1), n, m + 1)
<1> DEFINE t == Append(s, m + 1)
<1>1. /\ t \in Seq(Nat) /\ Len(t) = Len(s) + 1 /\ t[Len(s) + 1] = m + 1
      /\ \A i \in 1 .. Len(s) : t[i] = s[i]
  BY AppendProperties
<1> HIDE DEF t
<1>2. /\ g \o t \in Seq(Nat) /\ Len(g \o t) = Len(g) + Len(t)
      /\ \A i \in 1 .. Len(g) + Len(t) :
           (g \o t)[i] = IF i <= Len(g) THEN g[i] ELSE t[i - Len(g)]
  BY <1>1, ConcatProperties, Zenon
<1>3. /\ g \o s \in Seq(Nat) /\ Len(g \o s) = Len(g) + Len(s)
      /\ \A i \in 1 .. Len(g) + Len(s) :
           (g \o s)[i] = IF i <= Len(g) THEN g[i] ELSE s[i - Len(g)]
  BY ConcatProperties, Zenon
<1>4. ASSUME NEW j \in 1 .. Len(g) + Len(s) PROVE (g \o t)[j] = (g \o s)[j]
  <2>1. j \in 1 .. Len(g) + Len(t)
    BY <1>1
  <2>2. CASE j <= Len(g)
    BY <2>1, <2>2, <1>2, <1>3, Zenon
  <2>3. CASE ~(j <= Len(g))
    <3>1. j - Len(g) \in 1 .. Len(s)
      BY <2>3
    <3> QED
      BY <2>1, <2>3, <3>1, <1>1, <1>2, <1>3, Zenon
  <2> QED
    BY <2>2, <2>3, Zenon
<1>5. (g \o t)[Len(g) + Len(s) + 1] = m + 1
  <2>1. /\ Len(g) + Len(s) + 1 \in 1 .. Len(g) + Len(t)
        /\ ~(Len(g) + Len(s) + 1 <= Len(g))
        /\ Len(g) + Len(s) + 1 - Len(g) = Len(s) + 1
    BY <1>1
  <2> QED
    BY <2>1, <1>1, <1>2
<1>6. Len(g \o t) = Len(g \o s) + 1
  BY <1>1, <1>2, <1>3
<1>7. Counts(g \o t, n, m + 1)
  BY <1>2, <1>3, <1>4, <1>5, <1>6, CountsOneMore, Zenon
<1> QED
  BY <1>7, Zenon DEF t

\* Moving the head of the queue to what was received leaves the stream as it is.
LEMMA StreamKept ==
  ASSUME NEW g \in Seq(Nat), NEW s \in Seq(Nat), s # <<>>
  PROVE  /\ Append(g, Head(s)) \in Seq(Nat)
         /\ Tail(s) \in Seq(Nat)
         /\ Append(g, Head(s)) \o Tail(s) = g \o s
<1>1. Append(g, Head(s)) \in Seq(Nat) /\ Tail(s) \in Seq(Nat)
  OBVIOUS
<1>2. Len(Append(g, Head(s)) \o Tail(s)) = Len(g \o s)
  BY <1>1
<1>3. \A i \in 1 .. Len(g \o s) : (Append(g, Head(s)) \o Tail(s))[i] = (g \o s)[i]
  BY <1>1
<1>4. g \o s \in Seq(Nat) /\ Append(g, Head(s)) \o Tail(s) \in Seq(Nat)
  BY <1>1
<1> QED
  BY <1>1, <1>2, <1>3, <1>4

\* A stream that counts is the one NeverDropped names.
LEMMA CountsIsStream ==
  ASSUME NEW s \in Seq(Nat), NEW n \in Nat, NEW m \in Nat, n <= m, Counts(s, n, m)
  PROVE  s = [i \in 1 .. m - n |-> n + i]
BY DEF Counts

-----------------------------------------------------------------------------
LEMMA InitInv == Init => IInv
BY HubAssumption
DEF Init, IInv, Types, RoomsInv, TodoInv, FreshInv, StreamInv

\* Everything but the streams survives every step.
LEMMA HubStep == IInv /\ [Next]_vars => (Types /\ RoomsInv /\ TodoInv /\ FreshInv)'
<1> SUFFICES ASSUME IInv, [Next]_vars PROVE (Types /\ RoomsInv /\ TodoInv /\ FreshInv)'
  BY Zenon
<1> USE HubAssumption
<1> USE DEF IInv, Types
<1>1. CASE Take
  <2>1. Types'
    BY <1>1 DEF Take, Idle, queue, pumps
  <2>2. RoomsInv'
    BY <1>1, Zenon DEF RoomsInv, FreshInv, Take, Idle, queue, pumps
  <2>3. TodoInv'
    BY <1>1 DEF TodoInv, Take, Idle, queue, pumps, RoomsInv, StreamInv, Last
  <2>4. FreshInv'
    BY <1>1, Zenon DEF FreshInv, Take, Idle, queue, pumps
  <2> QED
    BY <2>1, <2>2, <2>3, <2>4, Zenon
<1>2. CASE Shutdown
  BY <1>2, Zenon DEF Shutdown, queue, pumps, RoomsInv, TodoInv, FreshInv
<1>3. ASSUME NEW r \in Rooms, Broadcast(r) PROVE (Types /\ RoomsInv /\ TodoInv /\ FreshInv)'
  <2>1. Types'
    <3>1. <<r>> \in Seq(Rooms) /\ Append(incoming, r) \in Seq(Rooms)
      BY AppendProperties
    <3>2. incoming' \in Seq(Rooms)
      BY <1>3, <3>1, Zenon DEF Broadcast
    <3> QED
      BY <1>3, <3>2, Zenon DEF Broadcast, pumps
  <2>2. RoomsInv'
    BY <1>3, Zenon DEF RoomsInv, FreshInv, Broadcast, pumps
  <2>3. TodoInv'
    BY <1>3, Zenon DEF TodoInv, Broadcast, pumps
  <2>4. FreshInv'
    BY <1>3, Zenon DEF FreshInv, Broadcast, pumps
  <2> QED
    BY <2>1, <2>2, <2>3, <2>4, Zenon
<1>4. ASSUME NEW c \in Clients, Register(c) PROVE (Types /\ RoomsInv /\ TodoInv /\ FreshInv)'
  <2>1. Types'
    BY <1>4, Zenon DEF Register, Idle, queue
  <2>2. RoomsInv'
    BY <1>4 DEF RoomsInv, FreshInv, Register, Idle, queue
  <2>3. TodoInv'
    BY <1>4, Zenon DEF TodoInv, Register, Idle, queue
  <2>4. FreshInv'
    BY <1>4, Zenon DEF FreshInv, Register, Idle, queue
  <2> QED
    BY <2>1, <2>2, <2>3, <2>4, Zenon
<1>5. ASSUME NEW c \in Clients, Send(c) PROVE (Types /\ RoomsInv /\ TodoInv /\ FreshInv)'
  <2>1. Types'
    BY <1>5 DEF Send, queue, pumps
  <2>2. RoomsInv'
    BY <1>5, Zenon DEF RoomsInv, FreshInv, Send, queue, pumps
  <2>3. TodoInv'
    BY <1>5, Zenon DEF TodoInv, Send, queue, pumps
  <2>4. FreshInv'
    <3>1. reader[c] # "none"
      BY <1>5, Zenon DEF Send, RoomsInv, TodoInv
    <3>2. \A d \in Clients \ {c} : send'[d] = send[d]
      BY <1>5, Zenon DEF Send
    <3> QED
      BY <1>5, <3>1, <3>2, Zenon DEF FreshInv, Send, pumps
  <2> QED
    BY <2>1, <2>2, <2>3, <2>4, Zenon
<1>6. ASSUME NEW c \in Clients, Unregister(c) PROVE (Types /\ RoomsInv /\ TodoInv /\ FreshInv)'
  <2>1. Types'
    BY <1>6, Zenon DEF Unregister, Idle, queue, Registered
  <2>2. RoomsInv'
    BY <1>6 DEF RoomsInv, FreshInv, Unregister, Idle, queue, Registered
  <2>3. TodoInv'
    BY <1>6, Zenon DEF TodoInv, Unregister, Idle, queue, Registered
  <2>4. FreshInv'
    BY <1>6, Zenon DEF FreshInv, Unregister, Idle, queue, Registered
  <2> QED
    BY <2>1, <2>2, <2>3, <2>4, Zenon
<1>7. ASSUME NEW c \in Clients, Write(c) PROVE (Types /\ RoomsInv /\ TodoInv /\ FreshInv)'
  <2>1. Types'
    BY <1>7, StreamKept, Zenon DEF Write, queue
  <2>2. RoomsInv'
    BY <1>7, Zenon DEF RoomsInv, FreshInv, Write, queue
  <2>3. TodoInv'
    BY <1>7, Zenon DEF TodoInv, Write, queue
  <2>4. FreshInv'
    BY <1>7, Zenon DEF FreshInv, Write, queue
  <2> QED
    BY <2>1, <2>2, <2>3, <2>4, Zenon
<1>8. ASSUME NEW c \in Clients, WriterExits(c) PROVE (Types /\ RoomsInv /\ TodoInv /\ FreshInv)'
  <2>1. Types'
    <3>1. \A d \in Clients : send[d] \in Seq(Nat) /\ (send[d] # <<>> => Tail(send[d]) \in Seq(Nat))
      OBVIOUS
    <3>2. send' \in [Clients -> Seq(Nat)]
      BY <1>8, <3>1, Zenon DEF WriterExits
    <3> QED
      BY <1>8, <3>2, Zenon DEF WriterExits, queue
  <2>2. RoomsInv'
    BY <1>8, Zenon DEF RoomsInv, FreshInv, WriterExits, queue
  <2>3. TodoInv'
    BY <1>8, Zenon DEF TodoInv, WriterExits, queue
  <2>4. FreshInv'
    BY <1>8, Zenon DEF FreshInv, WriterExits, queue
  <2> QED
    BY <2>1, <2>2, <2>3, <2>4, Zenon
<1>9. ASSUME NEW c \in Clients, ReadFails(c) PROVE (Types /\ RoomsInv /\ TodoInv /\ FreshInv)'
  <2>1. Types'
    BY <1>9, Zenon DEF ReadFails, queue
  <2>2. RoomsInv'
    BY <1>9 DEF RoomsInv, FreshInv, ReadFails, queue
  <2>3. TodoInv'
    BY <1>9, Zenon DEF TodoInv, ReadFails, queue
  <2>4. FreshInv'
    BY <1>9, Zenon DEF FreshInv, ReadFails, queue
  <2> QED
    BY <2>1, <2>2, <2>3, <2>4, Zenon
<1>10. CASE UNCHANGED vars
  BY <1>10, Zenon DEF vars, queue, pumps, RoomsInv, TodoInv, FreshInv
<1> QED
  BY <1>1, <1>2, <1>3, <1>4, <1>5, <1>6, <1>7, <1>8, <1>9, <1>10, Zenon DEF Next

\* A stream grows only by the envelope in hand.
LEMMA StreamStep == IInv /\ [Next]_vars => StreamInv'
<1> SUFFICES ASSUME IInv, [Next]_vars,
                    NEW r \in Rooms, NEW d \in rooms'[r]
             PROVE  /\ joined'[d] <= Last(d)'
                    /\ writer'[d] = "running" =>
                         Counts(got'[d] \o send'[d], joined'[d], Last(d)')
  BY Zenon DEF StreamInv
<1> USE HubAssumption
<1> USE DEF IInv, Types, Last
<1>0. Types' /\ RoomsInv'
  BY HubStep, Zenon
<1>a. d \in Clients /\ RoomOf[d] = r
  BY <1>0 DEF RoomsInv
<1> DEFINE Kept == /\ d \in rooms[r] /\ joined'[d] = joined[d] /\ Last(d)' = Last(d)
                   /\ got'[d] = got[d] /\ send'[d] = send[d]
                   /\ writer'[d] = "running" => writer[d] = "running"
<1> DEFINE Goal == /\ joined'[d] <= Last(d)'
                   /\ writer'[d] = "running" =>
                        Counts(got'[d] \o send'[d], joined'[d], Last(d)')
<1>b. Kept => Goal
  BY Zenon DEF StreamInv
<1>1. CASE Take
  <2>1. /\ d \in rooms[r] /\ todo = {} /\ d \notin todo
        /\ UNCHANGED <<joined, got, send, writer>>
    BY <1>1, Zenon DEF Take, Idle, pumps
  <2>2. Last(d)' = Last(d)
    <3>1. CASE Head(incoming) = r
      BY <1>1, <1>a, <2>1, <3>1 DEF Take
    <3>2. CASE Head(incoming) # r
      BY <1>1, <1>a, <2>1, <3>2 DEF Take, RoomsInv
    <3> QED
      BY <3>1, <3>2, Zenon
  <2> QED
    BY <2>1, <2>2, <1>b, Zenon
<1>2. CASE Shutdown
  BY <1>2, <1>b, Zenon DEF Shutdown, queue, pumps
<1>3. ASSUME NEW q \in Rooms, Broadcast(q) PROVE Goal
  BY <1>3, <1>b, Zenon DEF Broadcast, pumps
<1>4. ASSUME NEW c \in Clients, Register(c) PROVE Goal
  <2>1. CASE d # c
    BY <1>4, <1>a, <1>b, <2>1, Zenon DEF Register, queue
  <2>2. CASE d = c
    <3>1. joined'[d] = taken[r] /\ Last(d)' = taken[r] /\ taken[r] \in Nat
      BY <1>4, <1>a, <2>2 DEF Register, Idle, queue
    <3>2. got'[d] = <<>> /\ send'[d] = <<>>
      BY <1>4, <2>2, Zenon DEF Register, FreshInv
    <3> QED
      BY <3>1, <3>2 DEF Counts
  <2> QED
    BY <2>1, <2>2, Zenon
<1>5. ASSUME NEW c \in Clients, Send(c) PROVE Goal
  <2>1. CASE d # c
    BY <1>5, <1>b, <2>1, Zenon DEF Send, queue, pumps
  <2>2. CASE d = c
    <3>1. d \in todo /\ d \in rooms[r] /\ UNCHANGED <<joined, taken, got, writer>>
      BY <1>5, <2>2, Zenon DEF Send, queue, pumps
    <3>2. Last(d)' = Last(d) + 1 /\ Last(d)' = taken[r] /\ Last(d) \in Nat /\ taken[r] \in Nat
      BY <1>5, <1>a, <2>2, <3>1 DEF Send, queue, TodoInv
    <3>3. send'[d] = Append(send[d], Last(d) + 1)
      BY <1>5, <1>a, <2>2, <3>1, <3>2, Zenon DEF Send
    <3>4. joined[d] <= Last(d) /\ (writer[d] = "running" => Counts(got[d] \o send[d], joined[d], Last(d)))
      BY <3>1, Zenon DEF StreamInv
    <3>5. got[d] \in Seq(Nat) /\ send[d] \in Seq(Nat) /\ joined[d] \in Nat
      BY <1>a, Zenon
    <3> HIDE DEF Last
    <3>6. writer[d] = "running" => Counts(got[d] \o Append(send[d], Last(d) + 1), joined[d], Last(d) + 1)
      BY <3>2, <3>4, <3>5, CountsAppend, Zenon
    <3> QED
      BY <3>1, <3>2, <3>3, <3>4, <3>5, <3>6
  <2> QED
    BY <2>1, <2>2, Zenon
<1>6. ASSUME NEW c \in Clients, Unregister(c) PROVE Goal
  BY <1>6, <1>b, Zenon DEF Unregister, queue
<1>7. ASSUME NEW c \in Clients, Write(c) PROVE Goal
  <2>1. /\ d \in rooms[r] /\ joined'[d] = joined[d] /\ Last(d)' = Last(d)
        /\ writer'[d] = writer[d]
    BY <1>7, Zenon DEF Write, queue
  <2>2. got'[d] \o send'[d] = got[d] \o send[d]
    <3>1. CASE d # c
      BY <1>7, <3>1, Zenon DEF Write
    <3>2. CASE d = c
      BY <1>7, <1>a, <3>2, StreamKept, Zenon DEF Write
    <3> QED
      BY <3>1, <3>2, Zenon
  <2> HIDE DEF Last
  <2> QED
    BY <2>1, <2>2, Zenon DEF StreamInv
<1>8. ASSUME NEW c \in Clients, WriterExits(c) PROVE Goal
  <2>1. /\ d \in rooms[r] /\ joined'[d] = joined[d] /\ Last(d)' = Last(d)
    BY <1>8, Zenon DEF WriterExits, queue
  <2>2. CASE d # c
    BY <1>8, <1>b, <2>1, <2>2, Zenon DEF WriterExits
  <2>3. CASE d = c
    BY <1>8, <2>1, <2>3, Zenon DEF WriterExits, StreamInv
  <2> QED
    BY <2>2, <2>3, Zenon
<1>9. ASSUME NEW c \in Clients, ReadFails(c) PROVE Goal
  BY <1>9, <1>b, Zenon DEF ReadFails, queue
<1>10. CASE UNCHANGED vars
  BY <1>10, <1>b, Zenon DEF vars, queue, pumps
<1> QED
  BY <1>1, <1>2, <1>3, <1>4, <1>5, <1>6, <1>7, <1>8, <1>9, <1>10, Zenon DEF Next

\* The invariant is inductive.
LEMMA Invariant == Spec => []IInv
<1>1. IInv /\ [Next]_vars => IInv'
  BY HubStep, StreamStep, Zenon DEF IInv
<1> QED
  BY InitInv, <1>1, PTL DEF Spec

-----------------------------------------------------------------------------
\* Run never sends on a closed channel and never closes one twice.
THEOREM ChannelsSafe == Spec => []NoSendOnClosed
<1>1. IInv => NoSendOnClosed
  BY HubAssumption DEF IInv, Types, RoomsInv, TodoInv, NoSendOnClosed, Registered
<1> QED
  BY Invariant, <1>1, PTL

\* "blocking send: never drop a message": the stream of a served client is exactly
\* the envelopes of its room since it was registered, however many clients there
\* are and whatever the size of the send channel.
THEOREM StreamsComplete == Spec => []NeverDropped
<1>1. ASSUME IInv, NEW c \in Registered, writer[c] = "running"
      PROVE  got[c] \o send[c] = [i \in 1 .. Last(c) - joined[c] |-> joined[c] + i]
  <2>1. PICK r \in Rooms : c \in rooms[r]
    BY Zenon DEF Registered
  <2>2. c \in Clients /\ RoomOf[c] = r
    BY <1>1, <2>1, HubAssumption, Zenon DEF IInv, Types, RoomsInv
  <2>3. joined[c] <= Last(c) /\ Counts(got[c] \o send[c], joined[c], Last(c))
    BY <1>1, <2>1, Zenon DEF IInv, StreamInv
  <2>4. got[c] \o send[c] \in Seq(Nat) /\ joined[c] \in Nat
    BY <1>1, <2>2 DEF IInv, Types
  <2>5. Last(c) \in Nat
    BY <1>1, <2>2, <2>3, <2>4 DEF IInv, Types, Last
  <2> QED
    BY <2>3, <2>4, <2>5, CountsIsStream, Zenon
<1>2. IInv => NeverDropped
  BY <1>1, Zenon DEF NeverDropped, Last
<1> QED
  BY Invariant, <1>2, PTL
\* Once Run waits on the full channel of a client whose write pump has returned it
\* waits for ever: the rooms, the channels and the envelopes taken stay as they are.
THEOREM StuckForGood == Spec => StuckStays
<1>1. ASSUME IInv, [Next]_vars, Stuck
      PROVE  Stuck' /\ UNCHANGED <<rooms, taken, closed, down>>
  <2>1. PICK c \in todo : writer[c] = "exited" /\ Len(send[c]) = SendBuffer
    BY <1>1, Zenon DEF Stuck
  <2>2. /\ c \in Clients /\ todo # {}
        /\ send \in [Clients -> Seq(Nat)]
        /\ writer \in [Clients -> {"none", "running", "exited"}]
    BY <1>1, <2>1, Zenon DEF IInv, Types
  <2> DEFINE Goal == /\ c \in todo' /\ writer'[c] = writer[c] /\ send'[c] = send[c]
                     /\ UNCHANGED <<rooms, taken, closed, down>>
  <2>3. SUFFICES Goal
    BY <2>1, <2>3, Zenon DEF Stuck
  <2>4. ~ Idle
    BY <2>2, Zenon DEF Idle
  <2>5. ASSUME NEW r \in Rooms, Broadcast(r) PROVE Goal
    BY <2>1, <2>5, Zenon DEF Broadcast, pumps
  <2>6. ASSUME NEW d \in Clients, Send(d) PROVE Goal
    <3>1. d # c
      BY <2>1, <2>6, HubAssumption DEF Send
    <3> QED
      BY <2>1, <2>2, <2>6, <3>1, Zenon DEF Send, pumps, queue
  <2>7. ASSUME NEW d \in Clients, Write(d) \/ WriterExits(d) \/ ReadFails(d) PROVE Goal
    <3>1. CASE ReadFails(d)
      BY <2>1, <3>1, Zenon DEF ReadFails, queue
    <3>2. CASE Write(d) \/ WriterExits(d)
      <4>1. d # c
        BY <2>1, <3>2, Zenon DEF Write, WriterExits
      <4>2. CASE Write(d)
        BY <2>1, <2>2, <4>1, <4>2, Zenon DEF Write, queue
      <4>3. CASE WriterExits(d)
        BY <2>1, <2>2, <4>1, <4>3, Zenon DEF WriterExits, queue
      <4> QED
        BY <3>2, <4>2, <4>3, Zenon
    <3> QED
      BY <2>7, <3>1, <3>2, Zenon
  <2>8. CASE UNCHANGED vars
    BY <2>1, <2>8, Zenon DEF vars, queue, pumps
  <2>9. CASE Next
    BY <2>1, <2>4, <2>5, <2>6, <2>7, <2>9, Zenon DEF Next, Take, Shutdown, Register, Unregister
  <2> QED
    BY <1>1, <2>8, <2>9, Zenon
<1> QED
  BY Invariant, <1>1, PTL DEF Spec, StuckStays

=============================================================================
