------------------------- MODULE HubDispatchProofs --------------------------
(***************************************************************************)
(* Proofs about HubDispatch, for any number of connections, events and     *)
(* requests and any capacity of the channels.                              *)
(*                                                                         *)
(* Only two steps add to what a connection has been sent: DispatchTo an    *)
(* event and enqueue an answer; Write moves the oldest frame from Send to  *)
(* the socket.  The events and the answers among the frames are followed   *)
(* separately (EventInv, AckInv), since either may come before the other.  *)
(***************************************************************************)
EXTENDS HubDispatch, FiniteSetTheorems, SequenceTheorems, TLAPS

\* The frames the hub sends, and those that answer requests.
EventFrames == {Event(n) : n \in 1 .. MaxEvents}
AckFrames ==
  {RejectedAck(id, code) : id \in {Blank, "id"}, code \in {"invalid_request", "not_accepted"}}
  \cup {AcceptedAck([Event(1) EXCEPT !.client_message_id = "id"])}
Frames == EventFrames \cup AckFrames

\* What the write pump of a connection was given.
Sent(c) == got[c] \o Send[c]

FramesOK ==
  /\ Send \in [Conns -> Seq(Frames)]
  /\ got \in [Conns -> Seq(Frames)]
  /\ asked \in [Conns -> Seq({Blank, "id"})]
  /\ answer \in [Conns -> {<<>>} \cup {<<f>> : f \in AckFrames}]

\* The events that were taken and those in the channel come in the order in which
\* they were published.
QueueInv ==
  LET q == taken \o backlog
  IN  /\ \A i \in 1 .. Len(q) : q[i] \in i .. arrived
      /\ \A i, j \in 1 .. Len(q) : i < j => q[i] < q[j]
      /\ todo # {} => taken # <<>>

\* Nothing was sent to or asked by a connection before its registration.
FreshInv ==
  \A c \in Conns : reader[c] = "none" =>
    /\ c \notin clients
    /\ writer[c] = "none"
    /\ got[c] = <<>> /\ Send[c] = <<>> /\ answer[c] = <<>> /\ asked[c] = <<>>

EventInv ==
  \A c \in clients :
    writer[c] = "running" => EventsAre(Sent(c), taken, joined[c], Reached(c))

\* Every request is answered but the last one, whose answer may still wait.
AckInv ==
  \A c \in Conns : writer[c] = "running" =>
    /\ AcksAre(Sent(c), asked[c], Len(asked[c]) - Len(answer[c]))
    /\ answer[c] # <<>> => /\ Len(asked[c]) >= 1
                           /\ answer[c][1].client_message_id = asked[c][Len(asked[c])]

TypeInv == TypeOK /\ FramesOK

IInv == TypeInv /\ QueueInv /\ FreshInv /\ EventInv /\ AckInv

-----------------------------------------------------------------------------
\* Counting the places of a sequence of n frames, when one more is added at its end.
LEMMA RankAppend ==
  ASSUME NEW n \in Nat, NEW S \in SUBSET (1 .. n)
  PROVE  /\ IsFiniteSet(S) /\ Cardinality(S) \in Nat
         /\ \A i \in S : Rank(S, i) \in 1 .. Cardinality(S)
         /\ Cardinality(S \cup {n + 1}) = Cardinality(S) + 1
         /\ \A i \in S : Rank(S \cup {n + 1}, i) = Rank(S, i)
         /\ Rank(S \cup {n + 1}, n + 1) = Cardinality(S) + 1
<1>1. IsFiniteSet(1 .. n)
  BY FS_Interval
<1>2. IsFiniteSet(S) /\ Cardinality(S) \in Nat
  BY <1>1, FS_Subset, FS_CardinalityType, Zenon
<1>3. n + 1 \notin S
  OBVIOUS
<1>4. Cardinality(S \cup {n + 1}) = Cardinality(S) + 1
  BY <1>2, <1>3, FS_AddElement, Zenon
<1>5. ASSUME NEW i \in S PROVE Rank(S, i) \in 1 .. Cardinality(S)
  <2> DEFINE T == {j \in S : j <= i}
  <2>1. T \subseteq S /\ i \in T
    OBVIOUS
  <2> HIDE DEF T
  <2>2. IsFiniteSet(T) /\ Cardinality(T) \in Nat /\ Cardinality(T) <= Cardinality(S)
    BY <1>2, <2>1, FS_Subset, FS_CardinalityType, Zenon
  <2>3. Cardinality(T) # 0
    BY <2>1, <2>2, FS_EmptySet, Zenon
  <2>4. Rank(S, i) = Cardinality(T)
    BY Zenon DEF Rank, T
  <2> QED
    BY <1>2, <2>2, <2>3, <2>4
<1>6. ASSUME NEW i \in S PROVE Rank(S \cup {n + 1}, i) = Rank(S, i)
  <2>1. {j \in S \cup {n + 1} : j <= i} = {j \in S : j <= i}
    OBVIOUS
  <2> QED
    BY <2>1, Zenon DEF Rank
<1>7. Rank(S \cup {n + 1}, n + 1) = Cardinality(S) + 1
  <2>1. \A j \in S \cup {n + 1} : j <= n + 1
    OBVIOUS
  <2>2. {j \in S \cup {n + 1} : j <= n + 1} = S \cup {n + 1}
    BY <2>1, Zenon
  <2> QED
    BY <1>4, <2>2, Zenon DEF Rank
<1> QED
  BY <1>2, <1>4, <1>5, <1>6, <1>7, Zenon

\* What the decoder of the client makes of the frames.
LEMMA EventDecoded ==
  ASSUME NEW n \in 1 .. MaxEvents
  PROVE  decodeServerFrame(Event(n)) = "event" /\ Event(n).room_seq = n
<1>1. n \in Nat /\ n >= 1
  BY DispatchAssumption
<1>2. Blank # "accepted" /\ Blank # "rejected" /\ n # Blank /\ Blank # "room" /\ Blank # "now"
      /\ Blank # "json"
  BY <1>1, BlankAssumption, Zenon
<1> QED
  BY <1>1, <1>2, Zenon DEF decodeServerFrame, Event, ValidEvent, Version

LEMMA AckDecoded ==
  ASSUME NEW f \in AckFrames
  PROVE  decodeServerFrame(f) \in {"accepted", "rejected"}
<1>1. /\ Blank # "invalid_request" /\ Blank # "not_accepted" /\ 1 # Blank /\ Blank # "id"
      /\ Blank # "room" /\ Blank # "now"
  BY BlankAssumption
<1>2. ASSUME NEW id \in {Blank, "id"}, NEW code \in {"invalid_request", "not_accepted"}
      PROVE  decodeServerFrame(RejectedAck(id, code)) = "rejected"
  BY <1>1, Zenon DEF decodeServerFrame, RejectedAck, ValidRejectedAck, Version
<1>3. decodeServerFrame(AcceptedAck([Event(1) EXCEPT !.client_message_id = "id"])) = "accepted"
  BY <1>1 DEF decodeServerFrame, AcceptedAck, ValidAcceptedAck, Event, Version
<1>4. CASE f = AcceptedAck([Event(1) EXCEPT !.client_message_id = "id"])
  BY <1>3, <1>4, Zenon
<1>5. CASE \E id \in {Blank, "id"}, code \in {"invalid_request", "not_accepted"} :
             f = RejectedAck(id, code)
  BY <1>2, <1>5, Zenon
<1> QED
  BY <1>4, <1>5 DEF AckFrames

\* handleMessage answers every request, and names it in the answer.
LEMMA RequestAnswered ==
  ASSUME NEW h \in Handled
  PROVE  /\ h.id \in {Blank, "id"}
         /\ \E f \in AckFrames : h.answer = <<f>> /\ f.client_message_id = h.id
<1>1. /\ Blank # "invalid_request" /\ Blank # "not_accepted" /\ 1 # Blank /\ Blank # "id"
      /\ Blank # "room" /\ Blank # "now"
  BY BlankAssumption
<1>2. PICK r \in SendRequests \cup {NotJSON} : \E a \in Answers(r) :
        h = [id |-> r.client_message_id, answer |-> a]
  BY Zenon DEF Handled
<1>3. PICK a \in Answers(r) : h = [id |-> r.client_message_id, answer |-> a]
  BY <1>2, Zenon
<1>4. r.client_message_id \in {Blank, "id"}
  <2>1. CASE r \in SendRequests
    BY <2>1, Zenon DEF SendRequests
  <2>2. CASE r = NotJSON
    BY <2>2, Zenon DEF NotJSON
  <2> QED
    BY <2>1, <2>2, Zenon
<1>5. \A id \in {Blank, "id"}, code \in {"invalid_request", "not_accepted"} :
        /\ enqueueRejected(id, code) = <<RejectedAck(id, code)>>
        /\ RejectedAck(id, code).client_message_id = id
  BY <1>1 DEF enqueueRejected, ValidRejectedAck, RejectedAck, Version
<1>6. \A id \in {Blank, "id"}, code \in {"invalid_request", "not_accepted"} :
        RejectedAck(id, code) \in AckFrames
  BY DEF AckFrames
<1>7. \E f \in AckFrames : a = <<f>> /\ f.client_message_id = r.client_message_id
  <2>1. CASE r = NotJSON
    <3>1. a = enqueueRejected(Blank, "invalid_request") /\ r.client_message_id = Blank
      BY <2>1, Zenon DEF Answers, NotJSON
    <3> QED
      BY <1>5, <1>6, <3>1
  <2>2. CASE r # NotJSON /\ ~ValidSendRequest(r)
    <3>1. a = enqueueRejected(r.client_message_id, "invalid_request")
      BY <2>2, Zenon DEF Answers
    <3> QED
      BY <1>4, <1>5, <1>6, <3>1
  <2>3. CASE r # NotJSON /\ ValidSendRequest(r)
    <3>1. r.client_message_id = "id"
      BY <1>4, <2>3, Zenon DEF ValidSendRequest
    <3> DEFINE e1 == [Event(1) EXCEPT !.client_message_id = "id"]
    <3>2. PICK e \in HandleIncoming(r) :
            a = IF e # <<>> /\ ValidAcceptedAck(AcceptedAck(Head(e))) THEN <<AcceptedAck(Head(e))>>
                ELSE enqueueRejected(r.client_message_id, "not_accepted")
      BY <2>3, Zenon DEF Answers
    <3>3. e = <<>> \/ e = <<e1>>
      BY <3>1, Zenon DEF HandleIncoming
    <3>4. CASE e = <<>>
      <4>1. a = enqueueRejected(r.client_message_id, "not_accepted")
        BY <3>2, <3>4, Zenon
      <4> QED
        BY <1>4, <1>5, <1>6, <4>1
    <3>5. CASE e = <<e1>>
      <4>1. ValidAcceptedAck(AcceptedAck(e1)) /\ AcceptedAck(e1).client_message_id = "id"
        BY <1>1 DEF AcceptedAck, ValidAcceptedAck, Event, Version
      <4> HIDE DEF e1
      <4>2. e # <<>> /\ Head(e) = e1
        BY <3>5
      <4>3. a = <<AcceptedAck(e1)>>
        BY <3>2, <4>1, <4>2, Zenon
      <4>4. AcceptedAck(e1) \in AckFrames
        BY DEF AckFrames, e1
      <4> QED
        BY <3>1, <4>1, <4>3, <4>4, Zenon
    <3> QED
      BY <3>3, <3>4, <3>5, Zenon
  <2> QED
    BY <2>1, <2>2, <2>3, Zenon
<1>8. h.id = r.client_message_id /\ h.answer = a
  BY <1>3, Zenon
<1> QED
  BY <1>4, <1>7, <1>8, Zenon

\* Where the events and the answers are when a frame is added.
LEMMA AppendFrame ==
  ASSUME NEW s \in Seq(Frames), NEW f \in Frames
  PROVE  /\ Len(s) \in Nat /\ Events(s) \subseteq 1 .. Len(s) /\ Acks(s) \subseteq 1 .. Len(s)
         /\ \A i \in 1 .. Len(s) : Append(s, f)[i] = s[i]
         /\ Append(s, f)[Len(s) + 1] = f
         /\ f \in EventFrames => /\ Events(Append(s, f)) = Events(s) \cup {Len(s) + 1}
                                 /\ Acks(Append(s, f)) = Acks(s)
         /\ f \in AckFrames => /\ Events(Append(s, f)) = Events(s)
                               /\ Acks(Append(s, f)) = Acks(s) \cup {Len(s) + 1}
<1> DEFINE u == Append(s, f)
<1>1. /\ Len(s) \in Nat /\ DOMAIN s = 1 .. Len(s) /\ DOMAIN u = 1 .. Len(s) + 1
      /\ u[Len(s) + 1] = f /\ \A i \in 1 .. Len(s) : u[i] = s[i]
  OBVIOUS
<1> HIDE DEF u
<1>2. DOMAIN u = DOMAIN s \cup {Len(s) + 1}
  BY <1>1
<1>3. Events(s) \subseteq 1 .. Len(s) /\ Acks(s) \subseteq 1 .. Len(s)
  BY <1>1, Zenon DEF Events, Acks
<1>4. \A i \in DOMAIN s : u[i] = s[i]
  BY <1>1, Zenon
<1>5. ASSUME f \in EventFrames
      PROVE  Events(u) = Events(s) \cup {Len(s) + 1} /\ Acks(u) = Acks(s)
  <2>1. decodeServerFrame(f) = "event"
    BY <1>5, EventDecoded, Zenon DEF EventFrames
  <2>2. Events(u) = Events(s) \cup {Len(s) + 1}
    BY <1>1, <1>2, <1>4, <2>1, Zenon DEF Events
  <2>3. decodeServerFrame(f) \notin {"accepted", "rejected"}
    BY <2>1, Zenon
  <2>4. Acks(u) = Acks(s)
    BY <1>1, <1>2, <1>4, <2>3, Zenon DEF Acks
  <2> QED
    BY <2>2, <2>4, Zenon
<1>6. ASSUME f \in AckFrames
      PROVE  Events(u) = Events(s) /\ Acks(u) = Acks(s) \cup {Len(s) + 1}
  <2>1. decodeServerFrame(f) \in {"accepted", "rejected"}
    BY <1>6, AckDecoded, Zenon
  <2>2. Acks(u) = Acks(s) \cup {Len(s) + 1}
    BY <1>1, <1>2, <1>4, <2>1, Zenon DEF Acks
  <2>3. decodeServerFrame(f) # "event"
    BY <2>1, Zenon
  <2>4. Events(u) = Events(s)
    BY <1>1, <1>2, <1>4, <2>3 DEF Events
  <2> QED
    BY <2>2, <2>4, Zenon
<1> QED
  BY <1>1, <1>3, <1>5, <1>6, Zenon DEF u

\* The next event is added after the others.
LEMMA EventsGrow ==
  ASSUME NEW s \in Seq(Frames), NEW f \in EventFrames, NEW ms, NEW from \in Nat, NEW to \in Nat,
         EventsAre(s, ms, from, to), f.room_seq = ms[to + 1]
  PROVE  EventsAre(Append(s, f), ms, from, to + 1)
<1> DEFINE u == Append(s, f)
           n == Len(s)
           S == Events(s)
<1>1. /\ n \in Nat /\ S \subseteq 1 .. n /\ u[n + 1] = f /\ \A i \in 1 .. n : u[i] = s[i]
      /\ Events(u) = S \cup {n + 1}
  <2>1. f \in Frames
    BY Zenon DEF Frames
  <2>2. n \in Nat /\ S \subseteq 1 .. n /\ \A i \in 1 .. n : u[i] = s[i]
    BY <2>1, AppendFrame, Zenon
  <2>3. u[n + 1] = f
    BY <2>1, AppendFrame, Zenon
  <2>4. Events(u) = S \cup {n + 1}
    BY <2>1, AppendFrame, Zenon
  <2> QED
    BY <2>2, <2>3, <2>4, Zenon
<1>2. Cardinality(S) = to - from /\ \A i \in S : s[i].room_seq = ms[from + Rank(S, i)]
  BY Zenon DEF EventsAre
<1> HIDE DEF u, n, S
<1>3. /\ Cardinality(S \cup {n + 1}) = Cardinality(S) + 1
      /\ \A i \in S : Rank(S \cup {n + 1}, i) = Rank(S, i)
      /\ Rank(S \cup {n + 1}, n + 1) = Cardinality(S) + 1
  <2>1. S \in SUBSET (1 .. n)
    BY <1>1, Zenon
  <2> QED
    BY <1>1, <2>1, RankAppend, Zenon
<1>4. Cardinality(Events(u)) = (to + 1) - from
  BY <1>1, <1>2, <1>3
<1>5. ASSUME NEW i \in Events(u) PROVE u[i].room_seq = ms[from + Rank(Events(u), i)]
  <2>1. CASE i \in S
    <3>1. u[i] = s[i]
      BY <1>1, <2>1, Zenon
    <3> QED
      BY <1>1, <1>2, <1>3, <2>1, <3>1, Zenon
  <2>2. CASE i = n + 1
    <3>1. Rank(Events(u), i) = to - from + 1
      BY <1>1, <1>2, <1>3, <2>2, Zenon
    <3>2. from + Rank(Events(u), i) = to + 1
      BY <3>1
    <3> QED
      BY <1>1, <2>2, <3>2, Zenon
  <2> QED
    BY <1>1, <2>1, <2>2, Zenon
<1>6. EventsAre(u, ms, from, to + 1)
  BY <1>4, <1>5, Zenon DEF EventsAre
<1> QED
  BY <1>6, Zenon DEF u

\* An answer among the events, and another message taken, change nothing for them.
LEMMA EventsStay ==
  ASSUME NEW s \in Seq(Frames), NEW f \in AckFrames, NEW ms, NEW from, NEW to,
         EventsAre(s, ms, from, to)
  PROVE  EventsAre(Append(s, f), ms, from, to)
<1>1. /\ Events(s) \subseteq 1 .. Len(s) /\ \A i \in 1 .. Len(s) : Append(s, f)[i] = s[i]
      /\ Events(Append(s, f)) = Events(s)
  BY AppendFrame, Zenon DEF Frames
<1> QED
  BY <1>1, Zenon DEF EventsAre

LEMMA EventsTaken ==
  ASSUME NEW s \in Seq(Frames), NEW T, NEW ms \in Seq(T), NEW m \in T, NEW from \in Nat,
         NEW to \in 0 .. Len(ms), EventsAre(s, ms, from, to)
  PROVE  EventsAre(s, Append(ms, m), from, to)
<1> DEFINE S == Events(s)
<1>1. Len(s) \in Nat /\ S \subseteq 1 .. Len(s)
  BY DEF Events
<1>2. Cardinality(S) = to - from /\ \A i \in S : s[i].room_seq = ms[from + Rank(S, i)]
  BY Zenon DEF EventsAre
<1> HIDE DEF S
<1>3. \A i \in S : Rank(S, i) \in 1 .. Cardinality(S)
  BY <1>1, RankAppend, Zenon
<1>4. \A i \in S : from + Rank(S, i) \in 1 .. Len(ms)
  BY <1>2, <1>3
<1>5. \A k \in 1 .. Len(ms) : Append(ms, m)[k] = ms[k]
  OBVIOUS
<1> QED
  BY <1>2, <1>4, <1>5, Zenon DEF EventsAre, S

\* The next answer is added after the others.
LEMMA AcksGrow ==
  ASSUME NEW s \in Seq(Frames), NEW f \in AckFrames, NEW ids, NEW n \in Nat,
         AcksAre(s, ids, n), f.client_message_id = ids[n + 1]
  PROVE  AcksAre(Append(s, f), ids, n + 1)
<1> DEFINE u == Append(s, f)
           l == Len(s)
           S == Acks(s)
<1>1. /\ l \in Nat /\ S \subseteq 1 .. l /\ u[l + 1] = f /\ \A i \in 1 .. l : u[i] = s[i]
      /\ Acks(u) = S \cup {l + 1}
  <2>1. f \in Frames
    BY Zenon DEF Frames
  <2>2. l \in Nat /\ S \subseteq 1 .. l /\ \A i \in 1 .. l : u[i] = s[i]
    BY <2>1, AppendFrame, Zenon
  <2>3. u[l + 1] = f
    BY <2>1, AppendFrame, Zenon
  <2>4. Acks(u) = S \cup {l + 1}
    BY <2>1, AppendFrame, Zenon
  <2> QED
    BY <2>2, <2>3, <2>4, Zenon
<1>2. Cardinality(S) = n /\ \A i \in S : s[i].client_message_id = ids[Rank(S, i)]
  BY Zenon DEF AcksAre
<1> HIDE DEF u, l, S
<1>3. /\ Cardinality(S \cup {l + 1}) = Cardinality(S) + 1
      /\ \A i \in S : Rank(S \cup {l + 1}, i) = Rank(S, i)
      /\ Rank(S \cup {l + 1}, l + 1) = Cardinality(S) + 1
  <2>1. S \in SUBSET (1 .. l)
    BY <1>1, Zenon
  <2> QED
    BY <1>1, <2>1, RankAppend, Zenon
<1>4. Cardinality(Acks(u)) = n + 1
  BY <1>1, <1>2, <1>3, Zenon
<1>5. ASSUME NEW i \in Acks(u) PROVE u[i].client_message_id = ids[Rank(Acks(u), i)]
  <2>1. CASE i \in S
    <3>1. u[i] = s[i]
      BY <1>1, <2>1, Zenon
    <3> QED
      BY <1>1, <1>2, <1>3, <2>1, <3>1, Zenon
  <2>2. CASE i = l + 1
    BY <1>1, <1>2, <1>3, <2>2, Zenon
  <2> QED
    BY <1>1, <2>1, <2>2, Zenon
<1>6. AcksAre(u, ids, n + 1)
  BY <1>4, <1>5, Zenon DEF AcksAre
<1> QED
  BY <1>6, Zenon DEF u

\* An event among the answers, and another request, change nothing for them.
LEMMA AcksStay ==
  ASSUME NEW s \in Seq(Frames), NEW f \in EventFrames, NEW ids, NEW n, AcksAre(s, ids, n)
  PROVE  AcksAre(Append(s, f), ids, n)
<1>1. /\ Acks(s) \subseteq 1 .. Len(s) /\ \A i \in 1 .. Len(s) : Append(s, f)[i] = s[i]
      /\ Acks(Append(s, f)) = Acks(s)
  BY AppendFrame, Zenon DEF Frames
<1> QED
  BY <1>1, Zenon DEF AcksAre

LEMMA AcksAsked ==
  ASSUME NEW s \in Seq(Frames), NEW T, NEW ids \in Seq(T), NEW id \in T,
         NEW n \in 0 .. Len(ids), AcksAre(s, ids, n)
  PROVE  AcksAre(s, Append(ids, id), n)
<1> DEFINE S == Acks(s)
<1>1. Len(s) \in Nat /\ S \subseteq 1 .. Len(s)
  BY DEF Acks
<1>2. Cardinality(S) = n /\ \A i \in S : s[i].client_message_id = ids[Rank(S, i)]
  BY Zenon DEF AcksAre
<1> HIDE DEF S
<1>3. \A i \in S : Rank(S, i) \in 1 .. Cardinality(S)
  BY <1>1, RankAppend, Zenon
<1>4. \A i \in S : Rank(S, i) \in 1 .. Len(ids)
  BY <1>2, <1>3
<1>5. \A k \in 1 .. Len(ids) : Append(ids, id)[k] = ids[k]
  OBVIOUS
<1> QED
  BY <1>2, <1>4, <1>5, Zenon DEF AcksAre, S

\* Nothing is in no frames.
LEMMA NothingSent ==
  ASSUME NEW ms, NEW from \in Nat, NEW ids
  PROVE  EventsAre(<<>>, ms, from, from) /\ AcksAre(<<>>, ids, 0)
<1>1. Events(<<>>) = {} /\ Acks(<<>>) = {}
  BY DEF Events, Acks
<1>2. Cardinality({}) = from - from /\ Cardinality({}) = 0
  BY FS_EmptySet
<1> QED
  BY <1>1, <1>2, Zenon DEF EventsAre, AcksAre

\* The head of a queue moves to the end of what was taken from it; and what is added
\* to the queue is added to both.
LEMMA HeadMoves ==
  ASSUME NEW T, NEW s \in Seq(T), NEW t \in Seq(T), t # <<>>
  PROVE  /\ Append(s, Head(t)) \in Seq(T) /\ Tail(t) \in Seq(T)
         /\ Append(s, Head(t)) \o Tail(t) = s \o t
<1>1. Head(t) \in T /\ Tail(t) \in Seq(T) /\ Append(s, Head(t)) \in Seq(T)
  OBVIOUS
<1> DEFINE a == Append(s, Head(t)) \o Tail(t)
           b == s \o t
<1>2. a \in Seq(T) /\ b \in Seq(T)
  BY <1>1
<1>3. Len(a) = Len(b)
  OBVIOUS
<1>4. \A i \in 1 .. Len(b) : a[i] = b[i]
  OBVIOUS
<1> HIDE DEF a, b
<1>5. a = b
  BY <1>2, <1>3, <1>4, SeqEqual, Zenon
<1> QED
  BY <1>1, <1>5, Zenon DEF a, b

LEMMA TailAdded ==
  ASSUME NEW T, NEW s \in Seq(T), NEW t \in Seq(T), NEW e \in T
  PROVE  s \o Append(t, e) = Append(s \o t, e)
OBVIOUS

-----------------------------------------------------------------------------
\* Steps that leave what was taken, sent, asked and answered as it is.
LEMMA EventsKept ==
  ASSUME EventInv, UNCHANGED <<got, Send, taken, joined, todo>>, clients' \subseteq clients,
         \A c \in clients' : writer'[c] = "running" => writer[c] = "running"
  PROVE  EventInv'
<1> SUFFICES ASSUME NEW c \in clients', writer'[c] = "running"
             PROVE  EventsAre(Sent(c), taken, joined[c], Reached(c))'
  BY Zenon DEF EventInv
<1>1. EventsAre(Sent(c), taken, joined[c], Reached(c))
  BY Zenon DEF EventInv
<1>2. Sent(c)' = Sent(c) /\ taken' = taken /\ joined'[c] = joined[c] /\ Reached(c)' = Reached(c)
  BY Zenon DEF Sent, Reached
<1> QED
  BY <1>1, <1>2, Zenon DEF EventsAre

LEMMA AcksKept ==
  ASSUME AckInv, UNCHANGED <<got, Send, asked, answer>>,
         \A c \in Conns : writer'[c] = "running" => writer[c] = "running"
  PROVE  AckInv'
<1> SUFFICES ASSUME NEW c \in Conns, writer'[c] = "running"
             PROVE  /\ AcksAre(Sent(c), asked[c], Len(asked[c]) - Len(answer[c]))'
                    /\ answer[c] # <<>> =>
                         /\ Len(asked[c]) >= 1
                         /\ answer[c][1].client_message_id = asked[c][Len(asked[c])]
  BY Zenon DEF AckInv
<1>1. AcksAre(Sent(c), asked[c], Len(asked[c]) - Len(answer[c]))
  BY Zenon DEF AckInv
<1>2. Sent(c)' = Sent(c) /\ asked'[c] = asked[c] /\ answer'[c] = answer[c]
  BY Zenon DEF Sent
<1>3. AcksAre(Sent(c), asked[c], Len(asked[c]) - Len(answer[c]))'
  BY <1>1, <1>2, Zenon DEF AcksAre
<1> QED
  BY <1>3, Zenon DEF AckInv

\* What the type invariant says of one connection.
LEMMA ConnTypes ==
  ASSUME TypeInv, NEW c \in Conns
  PROVE  /\ Send[c] \in Seq(Frames) /\ got[c] \in Seq(Frames) /\ Sent(c) \in Seq(Frames)
         /\ asked[c] \in Seq({Blank, "id"}) /\ Len(asked[c]) \in Nat
         /\ Len(taken) \in Nat /\ joined[c] \in Nat
<1>1. /\ Send[c] \in Seq(Frames) /\ got[c] \in Seq(Frames) /\ asked[c] \in Seq({Blank, "id"})
  BY Zenon DEF TypeInv, FramesOK
<1>2. Sent(c) \in Seq(Frames)
  BY <1>1, ConcatProperties, Zenon DEF Sent
<1>3. Len(asked[c]) \in Nat /\ Len(taken) \in Nat
  BY <1>1 DEF TypeInv, TypeOK
<1>4. joined[c] \in Nat
  BY DispatchAssumption DEF TypeInv, TypeOK
<1> QED
  BY <1>1, <1>2, <1>3, <1>4, Zenon

LEMMA QueueKept ==
  ASSUME QueueInv, UNCHANGED <<taken, backlog, arrived>>, todo' \subseteq todo
  PROVE  QueueInv'
BY Zenon DEF QueueInv

\* At the start there is nothing.
LEMMA InitInv == Init => IInv
<1> SUFFICES ASSUME Init PROVE IInv
  BY Zenon
<1>1. TypeOK
  <2>1. /\ arrived \in 0 .. MaxEvents /\ Len(backlog) <= ChanSize
        /\ backlog \in Seq(1 .. arrived) /\ taken \in Seq(1 .. arrived)
    BY DispatchAssumption DEF Init
  <2>2. \A c \in Conns : Len(Send[c]) <= SendBuffer /\ Len(asked[c]) <= MaxRequests
    BY DispatchAssumption DEF Init
  <2>3. joined \in [Conns -> 0 .. MaxEvents]
    BY DispatchAssumption DEF Init
  <2>4. /\ clients \subseteq Conns /\ todo \subseteq clients /\ subscribed \in BOOLEAN
        /\ reader \in [Conns -> {"none", "reading", "acking", "leaving", "gone"}]
        /\ writer \in [Conns -> {"none", "running", "exited"}] /\ open \subseteq Conns
    BY Zenon DEF Init
  <2>5. \A c \in Conns : reader[c] = "acking" <=> answer[c] # <<>>
    BY Zenon DEF Init
  <2> QED
    BY <2>1, <2>2, <2>3, <2>4, <2>5, Zenon DEF TypeOK
<1>2. FramesOK
  BY DEF Init, FramesOK
<1>3. QueueInv
  BY DEF Init, QueueInv
<1>4. FreshInv /\ EventInv
  BY Zenon DEF Init, FreshInv, EventInv
<1>5. AckInv
  BY Zenon DEF Init, AckInv
<1> QED
  BY <1>1, <1>2, <1>3, <1>4, <1>5, Zenon DEF IInv, TypeInv

\* The subscription, a socket that closes and a read loop that leaves.
LEMMA QuietStep ==
  ASSUME IInv, Run \/ \E c \in Conns : Close(c) \/ ReadFails(c)
  PROVE  IInv'
<1> USE DEF IInv
<1>1. UNCHANGED <<clients, todo, arrived, backlog, taken, Send, writer, got, asked, answer, joined>>
  BY Zenon DEF Run, Close, ReadFails, redis, sockets, requests
<1>2. /\ subscribed' \in BOOLEAN /\ open' \subseteq Conns
      /\ reader' \in [Conns -> {"none", "reading", "acking", "leaving", "gone"}]
      /\ \A c \in Conns : /\ reader'[c] = "acking" <=> reader[c] = "acking"
                          /\ reader'[c] = "none" <=> reader[c] = "none"
  <2>1. CASE Run
    BY <2>1, Zenon DEF Run, sockets, TypeInv, TypeOK
  <2>2. ASSUME NEW c \in Conns, Close(c)
        PROVE  /\ open' \subseteq Conns /\ UNCHANGED <<reader, subscribed>>
    BY <2>2, Zenon DEF Close, redis, TypeInv, TypeOK
  <2>3. ASSUME NEW c \in Conns, ReadFails(c)
        PROVE  /\ UNCHANGED <<open, subscribed>>
               /\ reader[c] = "reading" /\ reader' = [reader EXCEPT ![c] = "leaving"]
    BY <2>3, Zenon DEF ReadFails, redis, sockets
  <2> QED
    BY <2>1, <2>2, <2>3 DEF TypeInv, TypeOK
<1>3. TypeOK'
  BY <1>1, <1>2, Zenon DEF TypeInv, TypeOK
<1>4. FramesOK' /\ QueueInv'
  BY <1>1, QueueKept, Zenon DEF TypeInv, FramesOK
<1>5. FreshInv'
  BY <1>1, <1>2, Zenon DEF FreshInv
<1>6. EventInv' /\ AckInv'
  BY <1>1, EventsKept, AcksKept, Zenon
<1> QED
  BY <1>3, <1>4, <1>5, <1>6, Zenon DEF TypeInv

\* An event is published: it comes after the others.
LEMMA ArriveStep ==
  ASSUME IInv, Arrive
  PROVE  IInv'
<1> USE DEF IInv
<1>1. /\ arrived < MaxEvents /\ arrived' = arrived + 1
      /\ UNCHANGED <<clients, todo, subscribed, taken, Send, reader, asked, answer, writer, open,
                     got, joined>>
      /\ \/ backlog' = backlog
         \/ Len(backlog) < ChanSize /\ backlog' = Append(backlog, arrived + 1)
  BY Zenon DEF Arrive, requests, sockets
<1>2. /\ arrived \in Nat /\ arrived' \in 0 .. MaxEvents
      /\ backlog \in Seq(1 .. arrived) /\ taken \in Seq(1 .. arrived)
  BY <1>1, DispatchAssumption DEF TypeInv, TypeOK
<1>3. /\ backlog \in Seq(1 .. arrived') /\ taken \in Seq(1 .. arrived')
      /\ arrived + 1 \in 1 .. arrived'
  BY <1>1, <1>2
<1>4. backlog' \in Seq(1 .. arrived') /\ Len(backlog') <= ChanSize
  <2>1. Len(backlog) \in Nat /\ Len(backlog) <= ChanSize /\ ChanSize \in Nat
    BY <1>2, DispatchAssumption DEF TypeInv, TypeOK
  <2>2. CASE backlog' = backlog
    BY <1>3, <2>1, <2>2, Zenon
  <2>3. CASE Len(backlog) < ChanSize /\ backlog' = Append(backlog, arrived + 1)
    BY <1>3, <2>1, <2>3
  <2> QED
    BY <1>1, <2>2, <2>3, Zenon
<1>5. TypeInv'
  BY <1>1, <1>2, <1>3, <1>4, Zenon DEF TypeInv, TypeOK, FramesOK
<1>6. QueueInv'
  <2> DEFINE q == taken \o backlog
  <2>1. q \in Seq(1 .. arrived') /\ Len(q) \in Nat
    BY <1>3
  <2>2. \A i \in 1 .. Len(q) : q[i] \in i .. arrived
    BY Zenon DEF QueueInv
  <2>3. \A i, j \in 1 .. Len(q) : i < j => q[i] < q[j]
    BY Zenon DEF QueueInv
  <2>4. Len(q) <= arrived
    <3> HIDE DEF q
    <3>1. CASE Len(q) = 0
      BY <1>2, <3>1
    <3>2. CASE Len(q) # 0
      <4>1. Len(q) \in 1 .. Len(q)
        BY <2>1, <3>2
      <4>2. q[Len(q)] \in Len(q) .. arrived
        BY <2>2, <4>1, Zenon
      <4> QED
        BY <1>2, <2>1, <4>2
    <3> QED
      BY <3>1, <3>2, Zenon
  <2>5. todo' # {} => taken' # <<>>
    BY <1>1, Zenon DEF QueueInv
  <2>6. CASE backlog' = backlog
    <3>1. \A i \in 1 .. Len(q) : q[i] \in i .. arrived'
      BY <1>1, <1>2, <2>2
    <3>2. (taken \o backlog)' = q
      BY <1>1, <2>6, Zenon
    <3> QED
      BY <2>3, <2>5, <3>1, <3>2, Zenon DEF QueueInv
  <2>7. CASE backlog' = Append(backlog, arrived + 1)
    <3> DEFINE u == Append(q, arrived + 1)
    <3>1. (taken \o backlog)' = u
      <4>1. taken \o Append(backlog, arrived + 1) = u
        BY <1>3
      <4> QED
        BY <1>1, <2>7, <4>1, Zenon
    <3>2. /\ Len(u) = Len(q) + 1 /\ u[Len(q) + 1] = arrived + 1
          /\ \A i \in 1 .. Len(q) : u[i] = q[i]
      BY <1>3, <2>1
    <3> HIDE DEF q, u
    <3>3. \A i \in 1 .. Len(u) : u[i] \in i .. arrived'
      <4> SUFFICES ASSUME NEW i \in 1 .. Len(u) PROVE u[i] \in i .. arrived'
        BY Zenon
      <4>1. CASE i \in 1 .. Len(q)
        <5>1. u[i] \in i .. arrived
          BY <2>2, <3>2, <4>1, Zenon
        <5> QED
          BY <1>1, <1>2, <5>1
      <4>2. CASE i = Len(q) + 1
        BY <1>1, <1>2, <2>1, <2>4, <3>2, <4>2
      <4> QED
        BY <2>1, <3>2, <4>1, <4>2
    <3>4. \A i, j \in 1 .. Len(u) : i < j => u[i] < u[j]
      <4> SUFFICES ASSUME NEW i \in 1 .. Len(u), NEW j \in 1 .. Len(u), i < j
                   PROVE  u[i] < u[j]
        BY Zenon
      <4>1. i \in 1 .. Len(q) /\ u[i] = q[i]
        BY <2>1, <3>2
      <4>2. CASE j \in 1 .. Len(q)
        BY <2>3, <3>2, <4>1, <4>2
      <4>3. CASE j = Len(q) + 1
        BY <1>2, <2>2, <3>2, <4>1, <4>3
      <4> QED
        BY <2>1, <3>2, <4>2, <4>3
    <3> QED
      BY <2>5, <3>1, <3>3, <3>4, Zenon DEF QueueInv
  <2> QED
    BY <1>1, <2>6, <2>7, Zenon
<1>7. FreshInv' /\ EventInv' /\ AckInv'
  BY <1>1, EventsKept, AcksKept, Zenon DEF FreshInv
<1> QED
  BY <1>5, <1>6, <1>7, Zenon

\* How many messages have reached a connection is a number of those taken.
LEMMA ReachedType ==
  ASSUME TypeInv, QueueInv, NEW c \in clients
  PROVE  Reached(c) \in 0 .. Len(taken)
<1>1. taken \in Seq(1 .. arrived) /\ Len(taken) \in Nat
  BY DEF TypeInv, TypeOK
<1>2. c \in todo => Len(taken) >= 1
  <2>1. c \in todo => taken # <<>>
    BY Zenon DEF QueueInv
  <2> QED
    BY <1>1, <2>1
<1> QED
  BY <1>1, <1>2 DEF Reached

\* Dispatch takes the next event: it has yet to reach every connection.
LEMMA DispatchStep ==
  ASSUME IInv, Dispatch
  PROVE  IInv'
<1> USE DEF IInv
<1>1. /\ todo = {} /\ backlog # <<>> /\ todo' = clients
      /\ taken' = Append(taken, Head(backlog)) /\ backlog' = Tail(backlog)
      /\ UNCHANGED <<clients, subscribed, arrived, Send, reader, asked, answer, writer, open, got,
                     joined>>
  BY Zenon DEF Dispatch, Unlocked, requests, sockets
<1>2. taken \in Seq(1 .. arrived) /\ backlog \in Seq(1 .. arrived) /\ Len(backlog) <= ChanSize
  BY Zenon DEF TypeInv, TypeOK
<1>3. /\ taken' \in Seq(1 .. arrived) /\ backlog' \in Seq(1 .. arrived)
      /\ taken' \o backlog' = taken \o backlog
  <2>1. /\ Append(taken, Head(backlog)) \in Seq(1 .. arrived) /\ Tail(backlog) \in Seq(1 .. arrived)
        /\ Append(taken, Head(backlog)) \o Tail(backlog) = taken \o backlog
    BY <1>1, <1>2, HeadMoves
  <2> QED
    BY <1>1, <2>1, Zenon
<1>4. Head(backlog) \in 1 .. arrived /\ Len(backlog') <= ChanSize
  <2>1. Head(backlog) \in 1 .. arrived /\ Len(Tail(backlog)) = Len(backlog) - 1
    BY <1>1, <1>2, HeadTailProperties, Zenon
  <2>2. Len(backlog) \in Nat /\ ChanSize \in Nat
    BY <1>2, DispatchAssumption
  <2>3. Len(Tail(backlog)) <= ChanSize
    BY <1>2, <2>1, <2>2
  <2> QED
    BY <1>1, <2>1, <2>3, Zenon
<1>5. TypeInv'
  BY <1>1, <1>3, <1>4, Zenon DEF TypeInv, TypeOK, FramesOK
<1>6. QueueInv'
  <2>1. taken' # <<>>
    BY <1>1, <1>2
  <2> QED
    BY <1>1, <1>3, <2>1, Zenon DEF QueueInv
<1>7. FreshInv' /\ AckInv'
  BY <1>1, AcksKept, Zenon DEF FreshInv
<1>8. EventInv'
  <2> SUFFICES ASSUME NEW c \in clients, writer[c] = "running"
               PROVE  EventsAre(Sent(c), taken, joined[c], Reached(c))'
    BY <1>1, Zenon DEF EventInv
  <2>1. EventsAre(Sent(c), taken, joined[c], Reached(c))
    BY Zenon DEF EventInv
  <2>2. c \in Conns
    BY Zenon DEF TypeInv, TypeOK
  <2>3. Sent(c) \in Seq(Frames) /\ joined[c] \in Nat /\ Len(taken) \in Nat
    BY <2>2, ConnTypes, Zenon
  <2>4. Reached(c) \in 0 .. Len(taken)
    BY ReachedType, Zenon
  <2>5. EventsAre(Sent(c), Append(taken, Head(backlog)), joined[c], Reached(c))
    BY <1>2, <1>4, <2>1, <2>3, <2>4, EventsTaken, Zenon
  <2>6. Len(taken') = Len(taken) + 1
    BY <1>1, <1>2
  <2>7. Reached(c)' = Reached(c) /\ Sent(c)' = Sent(c) /\ joined'[c] = joined[c]
    <3>1. Reached(c)' = Reached(c)
      BY <1>1, <2>3, <2>6 DEF Reached
    <3> QED
      BY <1>1, <3>1, Zenon DEF Sent
  <2>8. EventsAre(Sent(c)', taken', joined'[c], Reached(c)')
    BY <1>1, <2>5, <2>7, Zenon
  <2> QED
    BY <2>8, Zenon DEF EventsAre
<1> QED
  BY <1>5, <1>6, <1>7, <1>8, Zenon

\* A connection starts with the events that come after its registration.
LEMMA RegisterStep ==
  ASSUME IInv, NEW c \in Conns, Register(c)
  PROVE  IInv'
<1> USE DEF IInv
<1>1. /\ todo = {} /\ reader[c] = "none" /\ clients' = clients \cup {c}
      /\ joined' = [joined EXCEPT ![c] = Len(taken)]
      /\ reader' = [reader EXCEPT ![c] = "reading"]
      /\ writer' = [writer EXCEPT ![c] = "running"] /\ open' = open \cup {c}
      /\ UNCHANGED <<todo, subscribed, arrived, backlog, taken, Send, asked, answer, got>>
  BY Zenon DEF Register, Unlocked, redis, requests
<1>2. /\ c \notin clients
      /\ got[c] = <<>> /\ Send[c] = <<>> /\ answer[c] = <<>> /\ asked[c] = <<>>
  BY <1>1, Zenon DEF FreshInv
<1>3. Len(taken) \in 0 .. MaxEvents
  <2>1. /\ taken \in Seq(1 .. arrived) /\ backlog \in Seq(1 .. arrived)
        /\ arrived \in 0 .. MaxEvents /\ MaxEvents \in Nat
    BY DispatchAssumption, Zenon DEF TypeInv, TypeOK
  <2> DEFINE q == taken \o backlog
  <2>2. Len(taken) \in Nat /\ Len(taken) <= Len(q) /\ Len(q) \in Nat
    BY <2>1
  <2>3. \A i \in 1 .. Len(q) : q[i] \in i .. arrived
    BY Zenon DEF QueueInv
  <2> HIDE DEF q
  <2>4. CASE Len(q) = 0
    BY <2>1, <2>2, <2>4
  <2>5. CASE Len(q) # 0
    <3>1. q[Len(q)] \in Len(q) .. arrived
      BY <2>2, <2>3, <2>5
    <3> QED
      BY <2>1, <2>2, <3>1
  <2> QED
    BY <2>4, <2>5, Zenon
<1>4. TypeInv'
  <2>1. joined' \in [Conns -> 0 .. MaxEvents]
    BY <1>1, <1>3, Zenon DEF TypeInv, TypeOK
  <2>2. \A d \in Conns : reader'[d] = "acking" <=> answer'[d] # <<>>
    BY <1>1, <1>2, Zenon DEF TypeInv, TypeOK
  <2>3. reader' \in [Conns -> {"none", "reading", "acking", "leaving", "gone"}]
    BY <1>1, Zenon DEF TypeInv, TypeOK
  <2>4. writer' \in [Conns -> {"none", "running", "exited"}]
    BY <1>1, Zenon DEF TypeInv, TypeOK
  <2> QED
    BY <1>1, <2>1, <2>2, <2>3, <2>4, Zenon DEF TypeInv, TypeOK, FramesOK
<1>5. QueueInv'
  BY <1>1, QueueKept, Zenon
<1>6. /\ reader'[c] = "reading" /\ joined'[c] = Len(taken)
      /\ \A d \in Conns \ {c} : /\ reader'[d] = reader[d] /\ writer'[d] = writer[d]
                                /\ joined'[d] = joined[d]
  BY <1>1, Zenon DEF TypeInv, TypeOK
<1>7. FreshInv'
  <2> SUFFICES ASSUME NEW d \in Conns, reader'[d] = "none"
               PROVE  /\ d \notin clients' /\ writer'[d] = "none"
                      /\ got[d] = <<>> /\ Send[d] = <<>> /\ answer[d] = <<>> /\ asked[d] = <<>>
    BY <1>1, Zenon DEF FreshInv
  <2>1. d # c
    BY <1>6, Zenon
  <2> QED
    BY <1>1, <1>6, <2>1, Zenon DEF FreshInv
<1>8. Sent(c)' = <<>>
  BY <1>1, <1>2 DEF Sent
<1>9. \A d \in Conns : Sent(d)' = Sent(d) /\ Reached(d)' = Reached(d)
  BY <1>1, Zenon DEF Sent, Reached
<1>10. EventInv'
  <2> SUFFICES ASSUME NEW d \in clients', writer'[d] = "running"
               PROVE  EventsAre(Sent(d)', taken', joined'[d], Reached(d)')
    BY Zenon DEF EventInv, EventsAre
  <2>1. CASE d = c
    <3>1. Reached(c) = Len(taken)
      BY <1>1, <1>3 DEF Reached
    <3>2. EventsAre(<<>>, taken, Len(taken), Len(taken))
      BY <1>3, NothingSent, DispatchAssumption
    <3> QED
      BY <1>1, <1>6, <1>8, <1>9, <2>1, <3>1, <3>2, Zenon
  <2>2. CASE d # c
    <3>1. d \in clients /\ d \in Conns
      BY <1>1, <2>2, Zenon DEF TypeInv, TypeOK
    <3>2. EventsAre(Sent(d), taken, joined[d], Reached(d))
      BY <1>6, <2>2, <3>1, Zenon DEF EventInv
    <3> QED
      BY <1>1, <1>6, <1>9, <2>2, <3>1, <3>2, Zenon
  <2> QED
    BY <2>1, <2>2, Zenon
<1>11. AckInv'
  <2> SUFFICES ASSUME NEW d \in Conns, writer'[d] = "running"
               PROVE  /\ AcksAre(Sent(d)', asked[d], Len(asked[d]) - Len(answer[d]))
                      /\ answer[d] # <<>> =>
                           /\ Len(asked[d]) >= 1
                           /\ answer[d][1].client_message_id = asked[d][Len(asked[d])]
    BY <1>1, Zenon DEF AckInv, AcksAre
  <2>1. CASE d = c
    <3>1. AcksAre(<<>>, asked[c], 0)
      BY NothingSent, 0 \in Nat, Zenon
    <3>2. Len(asked[c]) - Len(answer[c]) = 0
      BY <1>2
    <3>3. AcksAre(Sent(c)', asked[c], Len(asked[c]) - Len(answer[c]))
      BY <1>8, <3>1, <3>2, Zenon
    <3> QED
      BY <1>2, <2>1, <3>3
  <2>2. CASE d # c
    BY <1>6, <1>9, <2>2, Zenon DEF AckInv
  <2> QED
    BY <2>1, <2>2, Zenon
<1> QED
  BY <1>4, <1>5, <1>7, <1>10, <1>11, Zenon

\* A connection leaves the hub; it does not come back.
LEMMA UnregisterStep ==
  ASSUME IInv, NEW c \in Conns, Unregister(c)
  PROVE  IInv'
<1> USE DEF IInv
<1>1. /\ todo = {} /\ reader[c] = "leaving" /\ clients' = clients \ {c}
      /\ reader' = [reader EXCEPT ![c] = "gone"] /\ open' = open \ {c}
      /\ UNCHANGED <<todo, subscribed, arrived, backlog, taken, Send, writer, asked, answer, joined,
                     got>>
  BY Zenon DEF Unregister, Unlocked, redis, requests
<1>2. TypeInv'
  <2>1. \A d \in Conns : reader'[d] = "acking" <=> answer'[d] # <<>>
    BY <1>1, Zenon DEF TypeInv, TypeOK
  <2>2. reader' \in [Conns -> {"none", "reading", "acking", "leaving", "gone"}]
    BY <1>1, Zenon DEF TypeInv, TypeOK
  <2> QED
    BY <1>1, <2>1, <2>2, Zenon DEF TypeInv, TypeOK, FramesOK
<1>3. QueueInv'
  BY <1>1, QueueKept, Zenon
<1>4. FreshInv'
  <2>1. \A d \in Conns : reader'[d] = "none" => reader[d] = "none"
    BY <1>1, Zenon DEF TypeInv, TypeOK
  <2> QED
    BY <1>1, <2>1, Zenon DEF FreshInv
<1>5. EventInv' /\ AckInv'
  BY <1>1, EventsKept, AcksKept, Zenon
<1> QED
  BY <1>2, <1>3, <1>4, <1>5, Zenon

\* The write pump sends the oldest frame, or ends.
LEMMA WriterStep ==
  ASSUME IInv, NEW c \in Conns, Write(c) \/ WriterExits(c)
  PROVE  IInv'
<1> USE DEF IInv
<1>1. /\ writer[c] = "running"
      /\ UNCHANGED <<clients, todo, subscribed, arrived, backlog, taken, reader, asked, answer, joined>>
  BY Zenon DEF Write, WriterExits, redis, requests
<1>2. Send[c] \in Seq(Frames) /\ got[c] \in Seq(Frames)
  BY ConnTypes, Zenon
<1>3. \A d \in Conns \ {c} : Send'[d] = Send[d] /\ got'[d] = got[d] /\ writer'[d] = writer[d]
  <2>1. CASE Write(c)
    BY <2>1, Zenon DEF Write, TypeInv, TypeOK, FramesOK
  <2>2. CASE WriterExits(c)
    BY <2>2, Zenon DEF WriterExits, TypeInv, TypeOK, FramesOK
  <2> QED
    BY <2>1, <2>2, Zenon
<1>4. \/ /\ writer'[c] = "running"
         /\ got'[c] \o Send'[c] = got[c] \o Send[c]
      \/ writer'[c] = "exited"
  <2>1. CASE Write(c)
    <3>1. /\ Send[c] # <<>> /\ got'[c] = Append(got[c], Head(Send[c]))
          /\ Send'[c] = Tail(Send[c]) /\ writer'[c] = "running"
      BY <2>1, Zenon DEF Write, FramesOK, TypeInv
    <3>2. Append(got[c], Head(Send[c])) \o Tail(Send[c]) = got[c] \o Send[c]
      <4>1. \A s, t \in Seq(Frames) : t # <<>> => Append(s, Head(t)) \o Tail(t) = s \o t
        BY HeadMoves, Zenon
      <4> QED
        BY <1>2, <3>1, <4>1, Zenon
    <3> QED
      BY <3>1, <3>2, Zenon
  <2>2. CASE WriterExits(c)
    BY <2>2, Zenon DEF WriterExits, TypeInv, TypeOK
  <2> QED
    BY <2>1, <2>2, Zenon
<1>5. TypeInv'
  <2>1. Send[c] # <<>> => /\ Head(Send[c]) \in Frames /\ Tail(Send[c]) \in Seq(Frames)
                          /\ Len(Tail(Send[c])) = Len(Send[c]) - 1
    BY <1>2, HeadTailProperties, Zenon
  <2>2. Len(Send[c]) \in Nat /\ SendBuffer \in Nat /\ Len(Send[c]) <= SendBuffer
    BY <1>2, DispatchAssumption DEF TypeInv, TypeOK
  <2>3. Send[c] # <<>> => Len(Tail(Send[c])) <= SendBuffer
    BY <2>1, <2>2
  <2>4. CASE Write(c)
    <3>1. /\ Send[c] # <<>> /\ got' = [got EXCEPT ![c] = Append(@, Head(Send[c]))]
          /\ Send' = [Send EXCEPT ![c] = Tail(@)] /\ UNCHANGED <<writer, open>>
      BY <2>4, Zenon DEF Write
    <3>2. Append(got[c], Head(Send[c])) \in Seq(Frames)
      BY <1>2, <2>1, <3>1, AppendProperties, Zenon
    <3>3. Send' \in [Conns -> Seq(Frames)] /\ got' \in [Conns -> Seq(Frames)]
      BY <2>1, <3>1, <3>2, Zenon DEF TypeInv, FramesOK
    <3>4. \A d \in Conns : Len(Send'[d]) <= SendBuffer
      BY <2>3, <3>1, Zenon DEF TypeInv, TypeOK, FramesOK
    <3> QED
      BY <1>1, <3>1, <3>3, <3>4, Zenon DEF TypeInv, TypeOK, FramesOK
  <2>5. CASE WriterExits(c)
    <3>1. /\ (Send[c] # <<>> /\ Send' = [Send EXCEPT ![c] = Tail(@)]) \/ Send' = Send
          /\ writer' = [writer EXCEPT ![c] = "exited"] /\ open' = open \ {c}
          /\ got' = [got EXCEPT ![c] = <<>>]
      BY <2>5, Zenon DEF WriterExits
    <3>2. Send' \in [Conns -> Seq(Frames)] /\ \A d \in Conns : Len(Send'[d]) <= SendBuffer
      <4>1. Send \in [Conns -> Seq(Frames)] /\ \A d \in Conns : Len(Send[d]) <= SendBuffer
        BY Zenon DEF TypeInv, TypeOK, FramesOK
      <4>2. CASE Send' = Send
        BY <4>1, <4>2, Zenon
      <4>3. CASE Send[c] # <<>> /\ Send' = [Send EXCEPT ![c] = Tail(@)]
        BY <2>1, <2>3, <4>1, <4>3, Zenon
      <4> QED
        BY <3>1, <4>2, <4>3, Zenon
    <3>3. <<>> \in Seq(Frames)
      OBVIOUS
    <3>4. got' \in [Conns -> Seq(Frames)]
      BY <3>1, <3>3, Zenon DEF TypeInv, FramesOK
    <3>5. writer' \in [Conns -> {"none", "running", "exited"}] /\ open' \subseteq Conns
      BY <3>1, Zenon DEF TypeInv, TypeOK
    <3> QED
      BY <1>1, <3>2, <3>4, <3>5, Zenon DEF TypeInv, TypeOK, FramesOK
  <2> QED
    BY <2>4, <2>5, Zenon
<1>6. QueueInv'
  BY <1>1, QueueKept, Zenon
<1>7. FreshInv'
  <2> SUFFICES ASSUME NEW d \in Conns, reader[d] = "none"
               PROVE  /\ d \notin clients /\ writer'[d] = "none"
                      /\ got'[d] = <<>> /\ Send'[d] = <<>> /\ answer[d] = <<>> /\ asked[d] = <<>>
    BY <1>1, Zenon DEF FreshInv
  <2>1. writer[d] = "none"
    BY Zenon DEF FreshInv
  <2>2. d # c
    BY <1>1, <2>1
  <2> QED
    BY <1>3, <2>2, Zenon DEF FreshInv
<1>8. \A d \in Conns : writer'[d] = "running" => /\ writer[d] = "running" /\ Sent(d)' = Sent(d)
                                                /\ Reached(d)' = Reached(d)
  <2> SUFFICES ASSUME NEW d \in Conns, writer'[d] = "running"
               PROVE  writer[d] = "running" /\ Sent(d)' = Sent(d) /\ Reached(d)' = Reached(d)
    BY Zenon
  <2>1. Reached(d)' = Reached(d)
    BY <1>1, Zenon DEF Reached
  <2>2. CASE d = c
    <3>1. writer'[c] # "exited"
      BY <2>2, Zenon
    <3> QED
      BY <1>1, <1>4, <2>1, <2>2, <3>1, Zenon DEF Sent
  <2>3. CASE d # c
    BY <1>3, <2>1, <2>3, Zenon DEF Sent
  <2> QED
    BY <2>2, <2>3, Zenon
<1>9. EventInv'
  <2> SUFFICES ASSUME NEW d \in clients, writer'[d] = "running"
               PROVE  EventsAre(Sent(d)', taken, joined[d], Reached(d)')
    BY <1>1, Zenon DEF EventInv, EventsAre
  <2>1. d \in Conns
    BY Zenon DEF TypeInv, TypeOK
  <2>2. EventsAre(Sent(d), taken, joined[d], Reached(d))
    BY <1>8, <2>1, Zenon DEF EventInv
  <2> QED
    BY <1>8, <2>1, <2>2, Zenon
<1>10. AckInv'
  <2> SUFFICES ASSUME NEW d \in Conns, writer'[d] = "running"
               PROVE  /\ AcksAre(Sent(d)', asked[d], Len(asked[d]) - Len(answer[d]))
                      /\ answer[d] # <<>> =>
                           /\ Len(asked[d]) >= 1
                           /\ answer[d][1].client_message_id = asked[d][Len(asked[d])]
    BY <1>1, Zenon DEF AckInv, AcksAre
  <2> QED
    BY <1>8, Zenon DEF AckInv
<1> QED
  BY <1>5, <1>6, <1>7, <1>9, <1>10, Zenon

\* A frame is put in the channel of a connection.
LEMMA FrameSent ==
  ASSUME TypeInv, NEW c \in Conns, NEW f \in Frames, Len(Send[c]) < SendBuffer,
         Send' = [Send EXCEPT ![c] = Append(Send[c], f)], UNCHANGED got
  PROVE  /\ Send' \in [Conns -> Seq(Frames)] /\ \A d \in Conns : Len(Send'[d]) <= SendBuffer
         /\ Sent(c)' = Append(Sent(c), f)
         /\ \A d \in Conns \ {c} : Sent(d)' = Sent(d) /\ Send'[d] = Send[d]
<1>1. Send[c] \in Seq(Frames) /\ got[c] \in Seq(Frames)
  BY ConnTypes, Zenon
<1>2. Append(Send[c], f) \in Seq(Frames) /\ Len(Append(Send[c], f)) = Len(Send[c]) + 1
  BY <1>1
<1>3. Len(Send[c]) \in Nat /\ SendBuffer \in Nat
  BY <1>1, DispatchAssumption
<1>4. Len(Append(Send[c], f)) <= SendBuffer
  BY <1>2, <1>3
<1>5. Send \in [Conns -> Seq(Frames)]
  BY Zenon DEF TypeInv, FramesOK
<1>6. Send'[c] = Append(Send[c], f) /\ \A d \in Conns \ {c} : Send'[d] = Send[d]
  BY <1>5, Zenon
<1>7. Send' \in [Conns -> Seq(Frames)]
  BY <1>2, <1>5, Zenon
<1>8. \A d \in Conns : Len(Send'[d]) <= SendBuffer
  BY <1>4, <1>6, Zenon DEF TypeInv, TypeOK
<1>9. got[c] \o Append(Send[c], f) = Append(got[c] \o Send[c], f)
  <2>1. \A s, t \in Seq(Frames) : s \o Append(t, f) = Append(s \o t, f)
    BY TailAdded
  <2> QED
    BY <1>1, <2>1, Zenon
<1>10. Sent(c)' = Append(Sent(c), f)
  BY <1>6, <1>9, Zenon DEF Sent
<1>11. \A d \in Conns \ {c} : Sent(d)' = Sent(d)
  BY <1>6, Zenon DEF Sent
<1> QED
  BY <1>6, <1>7, <1>8, <1>10, <1>11, Zenon

\* The event in hand is sent to one more connection.
LEMMA DispatchToStep ==
  ASSUME IInv, NEW c \in Conns, DispatchTo(c)
  PROVE  IInv'
<1> USE DEF IInv
<1> DEFINE f == Event(taken[Len(taken)])
<1>1. /\ c \in todo /\ Len(Send[c]) < SendBuffer /\ todo' = todo \ {c}
      /\ Send' = [Send EXCEPT ![c] = Append(Send[c], f)]
      /\ UNCHANGED <<clients, subscribed, arrived, backlog, taken, reader, writer, open, got, asked,
                     answer, joined>>
  BY Zenon DEF DispatchTo, redis, sockets, requests
<1>2. c \in clients /\ c \in Conns
  BY <1>1, Zenon DEF TypeInv, TypeOK
<1>3. taken[Len(taken)] \in 1 .. MaxEvents /\ Len(taken) \in Nat \ {0}
  <2>1. taken \in Seq(1 .. arrived) /\ taken # <<>> /\ arrived \in 0 .. MaxEvents /\ MaxEvents \in Nat
    BY <1>1, DispatchAssumption, Zenon DEF TypeInv, TypeOK, QueueInv
  <2> QED
    BY <2>1
<1>4. f \in EventFrames /\ f \in Frames /\ f.room_seq = taken[Len(taken)]
  BY <1>3, EventDecoded, Zenon DEF EventFrames, Frames
<1> HIDE DEF f
<1>5. /\ Send' \in [Conns -> Seq(Frames)] /\ \A d \in Conns : Len(Send'[d]) <= SendBuffer
      /\ Sent(c)' = Append(Sent(c), f)
      /\ \A d \in Conns \ {c} : Sent(d)' = Sent(d) /\ Send'[d] = Send[d]
  BY <1>1, <1>2, <1>4, FrameSent, Zenon
<1>6. TypeInv'
  BY <1>1, <1>5, Zenon DEF TypeInv, TypeOK, FramesOK
<1>7. QueueInv'
  BY <1>1, QueueKept, Zenon
<1>8. FreshInv'
  <2>1. \A d \in Conns : reader[d] = "none" => d # c
    BY <1>2, Zenon DEF FreshInv
  <2> QED
    BY <1>1, <1>5, <2>1, Zenon DEF FreshInv
<1>9. EventInv'
  <2> SUFFICES ASSUME NEW d \in clients, writer[d] = "running"
               PROVE  EventsAre(Sent(d)', taken, joined[d], Reached(d)')
    BY <1>1, Zenon DEF EventInv, EventsAre
  <2>1. d \in Conns /\ EventsAre(Sent(d), taken, joined[d], Reached(d))
    BY Zenon DEF EventInv, TypeInv, TypeOK
  <2>2. CASE d = c
    <3>1. Reached(c) = Len(taken) - 1 /\ Reached(c)' = Len(taken)
      BY <1>1, <1>3 DEF Reached
    <3> DEFINE n == Len(taken) - 1
    <3>2. n \in Nat /\ n + 1 = Len(taken)
      BY <1>3
    <3>3. Sent(c) \in Seq(Frames) /\ joined[c] \in Nat
      BY ConnTypes, Zenon
    <3>4. EventsAre(Sent(c), taken, joined[c], n)
      BY <2>1, <2>2, <3>1, Zenon
    <3> HIDE DEF n
    <3>5. f.room_seq = taken[n + 1]
      BY <1>4, <3>2, Zenon
    <3>6. EventsAre(Append(Sent(c), f), taken, joined[c], n + 1)
      BY <1>4, <3>2, <3>3, <3>4, <3>5, EventsGrow, Zenon
    <3>7. EventsAre(Sent(c)', taken, joined[c], Reached(c)')
      BY <1>5, <3>1, <3>2, <3>6, Zenon
    <3> QED
      BY <2>2, <3>7, Zenon
  <2>3. CASE d # c
    <3>1. Reached(d)' = Reached(d)
      BY <1>1, <2>3, Zenon DEF Reached
    <3> QED
      BY <1>5, <2>1, <2>3, <3>1, Zenon
  <2> QED
    BY <2>2, <2>3, Zenon
<1>10. AckInv'
  <2> SUFFICES ASSUME NEW d \in Conns, writer[d] = "running"
               PROVE  /\ AcksAre(Sent(d)', asked[d], Len(asked[d]) - Len(answer[d]))
                      /\ answer[d] # <<>> =>
                           /\ Len(asked[d]) >= 1
                           /\ answer[d][1].client_message_id = asked[d][Len(asked[d])]
    BY <1>1, Zenon DEF AckInv, AcksAre
  <2>1. AcksAre(Sent(d), asked[d], Len(asked[d]) - Len(answer[d]))
    BY Zenon DEF AckInv
  <2>2. AcksAre(Sent(d)', asked[d], Len(asked[d]) - Len(answer[d]))
    <3>1. CASE d = c
      <4>1. Sent(c) \in Seq(Frames)
        BY ConnTypes, Zenon
      <4>2. AcksAre(Sent(c), asked[c], Len(asked[c]) - Len(answer[c]))
        BY <2>1, <3>1, Zenon
      <4>3. AcksAre(Append(Sent(c), f), asked[c], Len(asked[c]) - Len(answer[c]))
        BY <1>4, <4>1, <4>2, AcksStay, Zenon
      <4>4. AcksAre(Sent(c)', asked[c], Len(asked[c]) - Len(answer[c]))
        BY <1>5, <4>3, Zenon
      <4> QED
        BY <3>1, <4>4
    <3>2. CASE d # c
      BY <1>5, <2>1, <3>2, Zenon
    <3> QED
      BY <3>1, <3>2, Zenon
  <2> QED
    BY <2>2, Zenon DEF AckInv
<1> QED
  BY <1>6, <1>7, <1>8, <1>9, <1>10, Zenon

\* A request is read: its answer waits to be enqueued.
LEMMA RequestStep ==
  ASSUME IInv, NEW c \in Conns, handleMessage(c)
  PROVE  IInv'
<1> USE DEF IInv
<1>1. /\ reader[c] = "reading" /\ Len(asked[c]) < MaxRequests
      /\ UNCHANGED <<clients, todo, subscribed, arrived, backlog, taken, Send, writer, open, got,
                     joined>>
  BY Zenon DEF handleMessage, redis, sockets
<1>2. PICK h \in Handled :
        /\ asked' = [asked EXCEPT ![c] = Append(asked[c], h.id)]
        /\ answer' = [answer EXCEPT ![c] = h.answer]
        /\ reader' = [reader EXCEPT ![c] = IF h.answer = <<>> THEN "reading" ELSE "acking"]
  BY Zenon DEF handleMessage
<1>3. PICK f \in AckFrames : h.answer = <<f>> /\ f.client_message_id = h.id
  BY RequestAnswered, Zenon
<1>4. h.id \in {Blank, "id"} /\ h.answer # <<>> /\ Len(h.answer) = 1 /\ h.answer[1] = f
  <2>1. h.id \in {Blank, "id"}
    BY RequestAnswered, Zenon
  <2> QED
    BY <1>3, <2>1
<1>5. answer[c] = <<>>
  <2>1. reader[c] # "acking"
    BY <1>1, Zenon
  <2> QED
    BY <2>1, Zenon DEF TypeInv, TypeOK
<1>6. asked[c] \in Seq({Blank, "id"}) /\ Len(asked[c]) \in Nat
  BY ConnTypes, Zenon
<1> DEFINE ids == Append(asked[c], h.id)
<1>7. /\ ids \in Seq({Blank, "id"}) /\ Len(ids) = Len(asked[c]) + 1 /\ ids[Len(ids)] = h.id
  BY <1>4, <1>6
<1>8. /\ asked'[c] = ids /\ answer'[c] = h.answer /\ reader'[c] = "acking"
      /\ \A d \in Conns \ {c} : /\ asked'[d] = asked[d] /\ answer'[d] = answer[d]
                                /\ reader'[d] = reader[d]
  BY <1>2, <1>4, Zenon DEF TypeInv, TypeOK, FramesOK
<1>9. TypeInv'
  <2>1. /\ asked' \in [Conns -> Seq({Blank, "id"})]
        /\ answer' \in [Conns -> {<<>>} \cup {<<g>> : g \in AckFrames}]
    BY <1>2, <1>3, <1>7, Zenon DEF TypeInv, FramesOK
  <2>2. reader' \in [Conns -> {"none", "reading", "acking", "leaving", "gone"}]
    BY <1>2, Zenon DEF TypeInv, TypeOK
  <2>3. ASSUME NEW d \in Conns PROVE reader'[d] = "acking" <=> answer'[d] # <<>>
    <3>1. CASE d = c
      BY <1>4, <1>8, <3>1, Zenon
    <3>2. CASE d # c
      BY <1>8, <3>2, Zenon DEF TypeInv, TypeOK
    <3> QED
      BY <3>1, <3>2, Zenon
  <2>4. Len(ids) <= MaxRequests
    BY <1>1, <1>6, <1>7, DispatchAssumption
  <2>5. \A d \in Conns : Len(asked'[d]) <= MaxRequests
    BY <1>8, <2>4, Zenon DEF TypeInv, TypeOK
  <2> QED
    BY <1>1, <2>1, <2>2, <2>3, <2>5, Zenon DEF TypeInv, TypeOK, FramesOK
<1>10. QueueInv'
  BY <1>1, QueueKept, Zenon
<1>11. FreshInv'
  <2>1. \A d \in Conns : reader'[d] = "none" => d # c
    BY <1>8
  <2> QED
    BY <1>1, <1>8, <2>1, Zenon DEF FreshInv
<1>12. EventInv'
  BY <1>1, EventsKept, Zenon
<1>13. AckInv'
  <2> SUFFICES ASSUME NEW d \in Conns, writer[d] = "running"
               PROVE  /\ AcksAre(Sent(d)', asked'[d], Len(asked'[d]) - Len(answer'[d]))
                      /\ answer'[d] # <<>> =>
                           /\ Len(asked'[d]) >= 1
                           /\ answer'[d][1].client_message_id = asked'[d][Len(asked'[d])]
    BY <1>1, Zenon DEF AckInv, AcksAre
  <2>0. Sent(d)' = Sent(d)
    BY <1>1, Zenon DEF Sent
  <2>1. /\ AcksAre(Sent(d), asked[d], Len(asked[d]) - Len(answer[d]))
        /\ answer[d] # <<>> => /\ Len(asked[d]) >= 1
                               /\ answer[d][1].client_message_id = asked[d][Len(asked[d])]
    BY Zenon DEF AckInv
  <2>2. CASE d = c
    <3>1. Len(asked[c]) - Len(answer[c]) = Len(asked[c])
      BY <1>5, <1>6
    <3>2. AcksAre(Sent(c), asked[c], Len(asked[c]))
      BY <2>1, <2>2, <3>1, Zenon
    <3>3. Sent(c) \in Seq(Frames) /\ Len(asked[c]) \in 0 .. Len(asked[c])
      <4>1. Sent(c) \in Seq(Frames)
        BY ConnTypes, Zenon
      <4> QED
        BY <1>6, <4>1
    <3>4. AcksAre(Sent(c), ids, Len(asked[c]))
      BY <1>4, <1>6, <3>2, <3>3, AcksAsked, Zenon
    <3>5. Len(ids) - Len(h.answer) = Len(asked[c]) /\ Len(ids) >= 1
      BY <1>4, <1>6, <1>7
    <3>6. h.answer[1].client_message_id = ids[Len(ids)]
      BY <1>3, <1>4, <1>7, Zenon
    <3>7. AcksAre(Sent(d)', asked'[c], Len(asked'[c]) - Len(answer'[c]))
      BY <1>8, <2>0, <2>2, <3>4, <3>5, Zenon
    <3>8. Len(asked'[c]) >= 1 /\ answer'[c][1].client_message_id = asked'[c][Len(asked'[c])]
      BY <1>8, <3>5, <3>6, Zenon
    <3> QED
      BY <2>2, <3>7, <3>8, Zenon
  <2>3. CASE d # c
    BY <1>8, <2>0, <2>1, <2>3, Zenon
  <2> QED
    BY <2>2, <2>3, Zenon
<1> QED
  BY <1>9, <1>10, <1>11, <1>12, <1>13, Zenon

\* The answer is put in the channel.
LEMMA EnqueueStep ==
  ASSUME IInv, NEW c \in Conns, enqueue(c)
  PROVE  IInv'
<1> USE DEF IInv
<1>1. /\ reader[c] = "acking" /\ Len(Send[c]) < SendBuffer
      /\ Send' = [Send EXCEPT ![c] = Send[c] \o answer[c]]
      /\ answer' = [answer EXCEPT ![c] = <<>>] /\ reader' = [reader EXCEPT ![c] = "reading"]
      /\ UNCHANGED <<clients, todo, subscribed, arrived, backlog, taken, writer, open, got, asked,
                     joined>>
  BY Zenon DEF enqueue, redis, sockets
<1>2. PICK f \in AckFrames : answer[c] = <<f>>
  <2>1. answer[c] # <<>>
    BY <1>1, Zenon DEF TypeInv, TypeOK
  <2> QED
    BY <2>1, Zenon DEF TypeInv, FramesOK
<1>3. f \in Frames /\ answer[c] # <<>> /\ Len(answer[c]) = 1 /\ answer[c][1] = f
  BY <1>2 DEF Frames
<1>4. Send[c] \o answer[c] = Append(Send[c], f)
  <2>1. Send[c] \in Seq(Frames)
    BY ConnTypes, Zenon
  <2> QED
    BY <1>2, <1>3, <2>1, AppendIsConcat, Zenon
<1>5. /\ Send' \in [Conns -> Seq(Frames)] /\ \A d \in Conns : Len(Send'[d]) <= SendBuffer
      /\ Sent(c)' = Append(Sent(c), f)
      /\ \A d \in Conns \ {c} : Sent(d)' = Sent(d) /\ Send'[d] = Send[d]
  <2>1. Send' = [Send EXCEPT ![c] = Append(Send[c], f)]
    BY <1>1, <1>4, Zenon
  <2> QED
    BY <1>1, <1>3, <2>1, FrameSent, Zenon
<1>6. /\ answer'[c] = <<>> /\ reader'[c] = "reading"
      /\ \A d \in Conns \ {c} : answer'[d] = answer[d] /\ reader'[d] = reader[d]
  BY <1>1, Zenon DEF TypeInv, TypeOK, FramesOK
<1>7. TypeInv'
  <2>1. /\ answer' \in [Conns -> {<<>>} \cup {<<g>> : g \in AckFrames}]
        /\ reader' \in [Conns -> {"none", "reading", "acking", "leaving", "gone"}]
    BY <1>1, Zenon DEF TypeInv, TypeOK, FramesOK
  <2>2. reader'[c] # "acking"
    BY <1>6, Zenon
  <2>3. \A d \in Conns : reader'[d] = "acking" <=> answer'[d] # <<>>
    BY <1>6, <2>2, Zenon DEF TypeInv, TypeOK
  <2> QED
    BY <1>1, <1>5, <2>1, <2>3, Zenon DEF TypeInv, TypeOK, FramesOK
<1>8. QueueInv'
  BY <1>1, QueueKept, Zenon
<1>9. FreshInv'
  <2>1. \A d \in Conns : reader'[d] = "none" => d # c
    BY <1>6, Zenon
  <2> QED
    BY <1>1, <1>5, <1>6, <2>1, Zenon DEF FreshInv
<1>10. EventInv'
  <2> SUFFICES ASSUME NEW d \in clients, writer[d] = "running"
               PROVE  EventsAre(Sent(d)', taken, joined[d], Reached(d))
    <3>1. \A d \in clients : Reached(d)' = Reached(d)
      BY <1>1, Zenon DEF Reached
    <3> QED
      BY <1>1, <3>1, Zenon DEF EventInv, EventsAre
  <2>1. d \in Conns /\ EventsAre(Sent(d), taken, joined[d], Reached(d))
    BY Zenon DEF EventInv, TypeInv, TypeOK
  <2>2. CASE d = c
    <3>1. Sent(c) \in Seq(Frames)
      BY ConnTypes, Zenon
    <3>2. EventsAre(Sent(c), taken, joined[c], Reached(c))
      BY <2>1, <2>2, Zenon
    <3>3. EventsAre(Append(Sent(c), f), taken, joined[c], Reached(c))
      BY <3>1, <3>2, EventsStay, Zenon
    <3>4. EventsAre(Sent(c)', taken, joined[c], Reached(c))
      BY <1>5, <3>3, Zenon
    <3> QED
      BY <2>2, <3>4, Zenon
  <2>3. CASE d # c
    BY <1>5, <2>1, <2>3, Zenon
  <2> QED
    BY <2>2, <2>3, Zenon
<1>11. AckInv'
  <2> SUFFICES ASSUME NEW d \in Conns, writer[d] = "running"
               PROVE  /\ AcksAre(Sent(d)', asked[d], Len(asked[d]) - Len(answer'[d]))
                      /\ answer'[d] # <<>> =>
                           /\ Len(asked[d]) >= 1
                           /\ answer'[d][1].client_message_id = asked[d][Len(asked[d])]
    BY <1>1, Zenon DEF AckInv, AcksAre
  <2>1. /\ AcksAre(Sent(d), asked[d], Len(asked[d]) - Len(answer[d]))
        /\ answer[d] # <<>> => /\ Len(asked[d]) >= 1
                               /\ answer[d][1].client_message_id = asked[d][Len(asked[d])]
    BY Zenon DEF AckInv
  <2>2. CASE d = c
    <3> DEFINE n == Len(asked[c]) - 1
    <3>1. Sent(c) \in Seq(Frames) /\ Len(asked[c]) \in Nat
      BY ConnTypes, Zenon
    <3>2. Len(asked[c]) >= 1 /\ f.client_message_id = asked[c][Len(asked[c])]
      BY <1>3, <2>1, <2>2, Zenon
    <3>3. n \in Nat /\ n + 1 = Len(asked[c])
      BY <3>1, <3>2
    <3>4. AcksAre(Sent(c), asked[c], n)
      BY <1>3, <2>1, <2>2, Zenon
    <3> HIDE DEF n
    <3>5. f.client_message_id = asked[c][n + 1]
      BY <3>2, <3>3, Zenon
    <3>6. AcksAre(Append(Sent(c), f), asked[c], n + 1)
      BY <3>1, <3>3, <3>4, <3>5, AcksGrow, Zenon
    <3>7. Len(asked[c]) - Len(answer'[c]) = n + 1
      BY <1>6, <3>1, <3>3
    <3>8. AcksAre(Sent(c)', asked[c], Len(asked[c]) - Len(answer'[c]))
      BY <1>5, <3>6, <3>7, Zenon
    <3> QED
      BY <1>6, <2>2, <3>8, Zenon
  <2>3. CASE d # c
    BY <1>5, <1>6, <2>1, <2>3, Zenon
  <2> QED
    BY <2>2, <2>3, Zenon
<1> QED
  BY <1>7, <1>8, <1>9, <1>10, <1>11, Zenon

\* Every step keeps the invariant.
LEMMA InvStep == IInv /\ [Next]_vars => IInv'
<1> SUFFICES ASSUME IInv, [Next]_vars PROVE IInv'
  BY Zenon
<1>1. CASE Run \/ \E c \in Conns : Close(c) \/ ReadFails(c)
  BY <1>1, QuietStep, Zenon
<1>2. CASE Arrive
  BY <1>2, ArriveStep, Zenon
<1>3. CASE Dispatch
  BY <1>3, DispatchStep, Zenon
<1>4. CASE \E c \in Conns : Register(c)
  BY <1>4, RegisterStep, Zenon
<1>5. CASE \E c \in Conns : DispatchTo(c)
  BY <1>5, DispatchToStep, Zenon
<1>6. CASE \E c \in Conns : handleMessage(c)
  BY <1>6, RequestStep, Zenon
<1>7. CASE \E c \in Conns : enqueue(c)
  BY <1>7, EnqueueStep, Zenon
<1>8. CASE \E c \in Conns : Unregister(c)
  BY <1>8, UnregisterStep, Zenon
<1>9. CASE \E c \in Conns : Write(c) \/ WriterExits(c)
  BY <1>9, WriterStep, Zenon
<1>10. CASE UNCHANGED vars
  <2>1. UNCHANGED <<clients, todo, subscribed, arrived, backlog, taken, Send, reader, answer, writer,
                    open, asked, joined, got>>
    BY <1>10, Zenon DEF vars, redis, requests, sockets
  <2>2. TypeInv' /\ QueueInv' /\ FreshInv'
    BY <2>1, Zenon DEF IInv, TypeInv, TypeOK, FramesOK, QueueInv, FreshInv
  <2>3. EventInv'
    BY <2>1, EventsKept, Zenon DEF IInv
  <2>4. AckInv'
    BY <2>1, AcksKept, Zenon DEF IInv
  <2> QED
    BY <2>2, <2>3, <2>4, Zenon DEF IInv
<1> QED
  BY <1>1, <1>2, <1>3, <1>4, <1>5, <1>6, <1>7, <1>8, <1>9, <1>10, Zenon DEF Next

LEMMA InvAlways == Spec => []IInv
BY InitInv, InvStep, PTL DEF Spec

-----------------------------------------------------------------------------
\* No channel holds more than its capacity, Dispatch serves connections of the hub,
\* and a read loop has an answer to enqueue exactly while it is in enqueue.
THEOREM TypeCorrect == Spec => []TypeOK
<1>1. IInv => TypeOK
  BY Zenon DEF IInv, TypeInv
<1> QED
  BY <1>1, InvAlways, PTL

\* Whatever connections come and go, however slowly they are drained, and whatever
\* their clients ask: a connection of the room gets every event that was taken from
\* the subscription since it was registered, in the order of publication.
THEOREM OrderKept == Spec => []EventsInOrder
<1>1. ASSUME IInv PROVE EventsInOrder
  <2> USE <1>1 DEF IInv
  <2>1. ASSUME NEW i \in DOMAIN taken, NEW j \in DOMAIN taken, i < j PROVE taken[i] < taken[j]
    <3> DEFINE q == taken \o backlog
    <3>1. taken \in Seq(1 .. arrived) /\ backlog \in Seq(1 .. arrived)
      BY Zenon DEF TypeInv, TypeOK
    <3>2. /\ \A k \in DOMAIN taken : q[k] = taken[k] /\ k \in 1 .. Len(q)
      BY <3>1
    <3>3. \A k, l \in 1 .. Len(q) : k < l => q[k] < q[l]
      BY Zenon DEF QueueInv
    <3> HIDE DEF q
    <3>4. q[i] < q[j]
      BY <2>1, <3>2, <3>3, Zenon
    <3> QED
      BY <3>2, <3>4, Zenon
  <2>2. ASSUME NEW c \in clients, writer[c] = "running"
        PROVE  EventsAre(Stream(c), taken, joined[c], Reached(c))
    <3>1. c \in Conns /\ EventsAre(Sent(c), taken, joined[c], Reached(c))
      BY <2>2, Zenon DEF EventInv, TypeInv, TypeOK
    <3>2. Sent(c) \in Seq(Frames)
      BY <3>1, ConnTypes, Zenon
    <3>3. CASE answer[c] = <<>>
      <4>1. Stream(c) = Sent(c)
        BY <3>2, <3>3, ConcatEmptySeq, Zenon DEF Stream, Sent
      <4> QED
        BY <3>1, <4>1, Zenon
    <3>4. CASE \E f \in AckFrames : answer[c] = <<f>>
      <4>1. PICK f \in AckFrames : answer[c] = <<f>>
        BY <3>4, Zenon
      <4>2. f \in Frames
        BY Zenon DEF Frames
      <4>3. Stream(c) = Append(Sent(c), f)
        BY <3>2, <4>1, <4>2, AppendIsConcat, Zenon DEF Stream, Sent
      <4>4. EventsAre(Append(Sent(c), f), taken, joined[c], Reached(c))
        BY <3>1, <3>2, EventsStay, Zenon
      <4> QED
        BY <4>3, <4>4, Zenon
    <3> QED
      BY <3>1, <3>3, <3>4, Zenon DEF TypeInv, FramesOK
  <2> QED
    BY <2>1, <2>2, Zenon DEF EventsInOrder
<1> QED
  BY <1>1, InvAlways, PTL

\* Every request read on a connection, also one that is not JSON or not valid, has one
\* answer in the frames sent or about to be sent, in the order of the requests and with
\* the names of those that were decoded, whatever events are dispatched in between.
THEOREM AnswersKept == Spec => []RequestsAnswered
<1>1. ASSUME IInv PROVE RequestsAnswered
  <2> USE <1>1 DEF IInv
  <2> SUFFICES ASSUME NEW c \in Conns, writer[c] = "running"
               PROVE  AcksAre(Stream(c), asked[c], Len(asked[c]))
    BY Zenon DEF RequestsAnswered
  <2>1. /\ AcksAre(Sent(c), asked[c], Len(asked[c]) - Len(answer[c]))
        /\ answer[c] # <<>> => /\ Len(asked[c]) >= 1
                               /\ answer[c][1].client_message_id = asked[c][Len(asked[c])]
    BY Zenon DEF AckInv
  <2>2. Sent(c) \in Seq(Frames) /\ Len(asked[c]) \in Nat
    BY ConnTypes, Zenon
  <2>3. CASE answer[c] = <<>>
    <3>1. Len(asked[c]) - Len(answer[c]) = Len(asked[c])
      BY <2>2, <2>3
    <3>2. Stream(c) = Sent(c)
      BY <2>2, <2>3, ConcatEmptySeq, Zenon DEF Stream, Sent
    <3> QED
      BY <2>1, <3>1, <3>2, Zenon
  <2>4. CASE \E f \in AckFrames : answer[c] = <<f>>
    <3>1. PICK f \in AckFrames : answer[c] = <<f>>
      BY <2>4, Zenon
    <3>2. f \in Frames /\ answer[c] # <<>> /\ Len(answer[c]) = 1 /\ answer[c][1] = f
      BY <3>1 DEF Frames
    <3>3. Stream(c) = Append(Sent(c), f)
      BY <2>2, <3>1, <3>2, AppendIsConcat, Zenon DEF Stream, Sent
    <3> DEFINE n == Len(asked[c]) - 1
    <3>4. Len(asked[c]) >= 1 /\ f.client_message_id = asked[c][Len(asked[c])]
      BY <2>1, <3>2, Zenon
    <3>5. n \in Nat /\ n + 1 = Len(asked[c])
      BY <2>2, <3>4
    <3>6. AcksAre(Sent(c), asked[c], n)
      BY <2>1, <3>2, Zenon
    <3> HIDE DEF n
    <3>7. f.client_message_id = asked[c][n + 1]
      BY <3>4, <3>5, Zenon
    <3>8. AcksAre(Append(Sent(c), f), asked[c], n + 1)
      BY <2>2, <3>5, <3>6, <3>7, AcksGrow, Zenon
    <3> QED
      BY <3>3, <3>5, <3>8, Zenon
  <2> QED
    BY <2>3, <2>4, Zenon DEF TypeInv, FramesOK
<1> QED
  BY <1>1, InvAlways, PTL

\* Once Dispatch waits on the full channel of a write pump that is gone, it holds the
\* mutex of the hub for good; a read loop that waits in enqueue does so for good too.
THEOREM StuckForGood == Spec => StuckStays
<1> DEFINE Kept(c) == Stuck(c)' /\ (c \in todo => c \in todo' /\ UNCHANGED clients)
<1>1. ASSUME TypeInv, [Next]_vars, NEW c \in Conns, Stuck(c) PROVE Kept(c)
  <2>1. /\ reader \in [Conns -> {"none", "reading", "acking", "leaving", "gone"}]
        /\ writer \in [Conns -> {"none", "running", "exited"}]
        /\ Send \in [Conns -> Seq(Frames)] /\ SendBuffer \in Nat
    BY <1>1, DispatchAssumption, Zenon DEF TypeInv, TypeOK, FramesOK
  <2>2. /\ Len(Send[c]) = SendBuffer
        /\ writer[c] = "exited"
        /\ c \in todo \/ reader[c] = "acking"
    BY <1>1, Zenon DEF Stuck
  <2>3. ~(Len(Send[c]) < SendBuffer) /\ writer[c] # "running"
    BY <2>1, <2>2
  <2>4. ASSUME Send'[c] = Send[c], writer'[c] = writer[c],
               \/ c \in todo /\ c \in todo' /\ UNCHANGED clients
               \/ c \notin todo /\ reader'[c] = reader[c]
        PROVE  Kept(c)
    BY <2>2, <2>4, Zenon DEF Stuck
  <2>5. CASE Run \/ Arrive \/ UNCHANGED vars
    <3>1. UNCHANGED <<Send, writer, todo, clients, reader>>
      BY <2>5, Zenon DEF Run, Arrive, vars, sockets
    <3> QED
      BY <2>4, <3>1, Zenon
  <2>6. CASE Dispatch
    <3>1. todo = {} /\ UNCHANGED <<Send, writer, reader>>
      BY <2>6, Zenon DEF Dispatch, Unlocked, sockets
    <3> QED
      BY <2>4, <3>1, Zenon
  <2>7. ASSUME NEW d \in Conns, Register(d) \/ Unregister(d) PROVE Kept(c)
    <3>1. todo = {} /\ UNCHANGED Send
      BY <2>7, Zenon DEF Register, Unregister, Unlocked
    <3>2. d # c
      <4>1. reader[d] = "none" \/ reader[d] = "leaving"
        BY <2>7, Zenon DEF Register, Unregister
      <4> QED
        BY <2>2, <3>1, <4>1
    <3>3. reader'[c] = reader[c] /\ writer'[c] = writer[c]
      BY <2>1, <2>7, <3>2, Zenon DEF Register, Unregister
    <3> QED
      BY <2>4, <3>1, <3>3, Zenon
  <2>8. ASSUME NEW d \in Conns, DispatchTo(d) \/ enqueue(d) PROVE Kept(c)
    <3>1. d # c
      BY <2>3, <2>8, Zenon DEF DispatchTo, enqueue
    <3>2. Send'[c] = Send[c] /\ UNCHANGED <<writer, clients>>
      BY <2>1, <2>8, <3>1, Zenon DEF DispatchTo, enqueue, sockets
    <3>3. (c \in todo => c \in todo') /\ reader'[c] = reader[c]
      BY <2>1, <2>8, <3>1, Zenon DEF DispatchTo, enqueue
    <3> QED
      BY <2>4, <3>2, <3>3, Zenon
  <2>9. ASSUME NEW d \in Conns, handleMessage(d) \/ ReadFails(d) PROVE Kept(c)
    <3>1. UNCHANGED <<Send, writer, todo, clients>>
      BY <2>9, Zenon DEF handleMessage, ReadFails, sockets
    <3>2. c \notin todo => d # c
      <4>1. reader[d] = "reading"
        BY <2>9, Zenon DEF handleMessage, ReadFails
      <4> QED
        BY <2>2, <4>1
    <3>3. c \notin todo => reader'[c] = reader[c]
      BY <2>1, <2>9, <3>2, Zenon DEF handleMessage, ReadFails
    <3> QED
      BY <2>4, <3>1, <3>3, Zenon
  <2>10. ASSUME NEW d \in Conns, Close(d) PROVE Kept(c)
    <3>1. UNCHANGED <<Send, writer, todo, clients, reader>>
      BY <2>10, Zenon DEF Close
    <3> QED
      BY <2>4, <3>1, Zenon
  <2>11. ASSUME NEW d \in Conns, Write(d) \/ WriterExits(d) PROVE Kept(c)
    <3>1. d # c
      BY <2>3, <2>11, Zenon DEF Write, WriterExits
    <3>2. Send'[c] = Send[c] /\ writer'[c] = writer[c] /\ UNCHANGED <<todo, clients, reader>>
      BY <2>1, <2>11, <3>1, Zenon DEF Write, WriterExits
    <3> QED
      BY <2>4, <3>2, Zenon
  <2> QED
    BY <1>1, <2>5, <2>6, <2>7, <2>8, <2>9, <2>10, <2>11, Zenon DEF Next
<1>2. TypeInv /\ [Next]_vars => [\A c \in Conns : Stuck(c) => Kept(c)]_vars
  BY <1>1, Zenon
<1>3. IInv => TypeInv
  BY DEF IInv
<1> QED
  BY <1>2, <1>3, InvAlways, PTL DEF Spec, StuckStays
=============================================================================
