-------------------------- MODULE LogConsumerProofs --------------------------
(***************************************************************************)
(* The safety properties of the log consumers, for any number of processes *)
(* and records, any size of the channels and any number of failures.       *)
(*                                                                         *)
(* Whatever a session has read past is printed, held or lost, and it marks *)
(* nothing that it has not read past.  The order of a level rests on the   *)
(* committed offset: it never goes back, so a session that starts after it *)
(* reads again only records behind which nothing of its level was printed. *)
(***************************************************************************)
EXTENDS LogConsumer, SequenceTheorems, TLAPS

Job == [offset : Nat, id : Nat]

\* The types that the argument needs; numbers need no bound.
Types ==
  /\ topic \in Seq(Kinds)
  /\ committed \in 0 .. Len(topic)
  /\ session \in [Members -> [pc : {"off", "reading", "sending"}, id : Nat,
                              live : BOOLEAN, next : Nat, marked : Nat]]
  /\ queue \in [Members -> [Levels -> Seq(Job)]]
  /\ hand \in [Members -> [Levels -> Seq(Job)]]
  /\ printed \in [Members -> [Levels -> Seq(Nat)]]

\* A session marks only what it has read past, and the one of the owner is not
\* behind the committed offset.
SessionOK(m) ==
  /\ session[m].live => session[m].pc # "off"
  /\ session[m].pc # "off" =>
       /\ session[m].marked < session[m].next /\ session[m].next <= Len(topic) + 1
       /\ owner = {m} => committed <= session[m].marked
  /\ session[m].pc = "sending" =>
       session[m].next <= Len(topic) /\ topic[session[m].next] \in Levels

SessionInv == \A m \in Members : SessionOK(m)

\* Job j is one of member m and level l: its record is, and a session that is not
\* released has read past it.
JobOK(m, l, j) ==
  /\ j.offset \in 1 .. Len(topic) /\ topic[j.offset] = l
  /\ j.id <= session[m].id
  /\ j.id = session[m].id /\ session[m].pc # "off" => j.offset < session[m].next

WorkerOK(m, l) ==
  /\ \A i \in DOMAIN queue[m][l] : JobOK(m, l, queue[m][l][i])
  /\ hand[m][l] # <<>> => Len(hand[m][l]) = 1 /\ JobOK(m, l, hand[m][l][1])
  /\ \A o \in Printed(m, l) : o \in 1 .. Len(topic)

JobInv == \A m \in Members : \A l \in Levels : WorkerOK(m, l)

\* Record o is not lost sight of.
Accounted(o) ==
  topic[o] \in Levels =>
    \/ \E m \in Members : o \in Printed(m, topic[o]) \cup Held(m)
    \/ o \in gone

AccountInv ==
  /\ \A o \in 1 .. committed : Accounted(o)
  /\ \A m \in Members : session[m].pc # "off" =>
       \A o \in 1 .. session[m].next - 1 : Accounted(o)

\* No later record of its level was printed, or is about to be, before record o.
Before(m, l, o) ==
  \A p \in Printed(m, l) \cup Offsets(hand[m][l]) : o < p => o \in Printed(m, l)

\* The jobs in a channel that are of the present session.
Current(m, l) == {i \in DOMAIN queue[m][l] : queue[m][l][i].id = session[m].id}

\* What is not committed, what a worker is about to print and what a live session is
\* still to print has not been overtaken.  A live session has lost nothing.
Order(m, l) ==
  /\ \A o \in 1 .. Len(topic) : topic[o] = l /\ committed < o => Before(m, l, o)
  /\ \A o \in Offsets(hand[m][l]) : Before(m, l, o)
  /\ session[m].live =>
       /\ \A i \in Current(m, l) : Before(m, l, queue[m][l][i].offset)
       /\ \A i, j \in Current(m, l) : i < j => queue[m][l][i].offset < queue[m][l][j].offset
       /\ \A o \in 1 .. Len(topic) : topic[o] = l /\ session[m].next <= o => Before(m, l, o)
       /\ \A o \in 1 .. Len(topic) :
            topic[o] = l /\ committed < o /\ o < session[m].next =>
              \/ o \in Printed(m, l) \cup Offsets(hand[m][l])
              \/ \E i \in Current(m, l) : queue[m][l][i].offset = o

OrderInv == \A m \in Members : \A l \in Levels : Order(m, l)

IInv == Types /\ SessionInv /\ JobInv /\ AccountInv /\ OrderInv

-----------------------------------------------------------------------------
\* What taking a job from a channel and adding one to it does to the offsets there.
LEMMA OffsetsHead ==
  ASSUME NEW s \in Seq(Job), s # <<>>
  PROVE  /\ Head(s) \in Job /\ Head(s) = s[1] /\ Tail(s) \in Seq(Job)
         /\ Len(Tail(s)) = Len(s) - 1
         /\ \A i \in DOMAIN Tail(s) : i + 1 \in DOMAIN s /\ Tail(s)[i] = s[i + 1]
         /\ \A i \in DOMAIN s : i = 1 \/ (i - 1 \in DOMAIN Tail(s) /\ Tail(s)[i - 1] = s[i])
         /\ Offsets(s) = {Head(s).offset} \cup Offsets(Tail(s))
<1>1. /\ Head(s) \in Job /\ Head(s) = s[1] /\ Tail(s) \in Seq(Job)
      /\ Len(Tail(s)) = Len(s) - 1 /\ Len(s) \in Nat /\ Len(s) >= 1
      /\ DOMAIN s = 1 .. Len(s) /\ DOMAIN Tail(s) = 1 .. Len(s) - 1
      /\ \A i \in 1 .. Len(s) - 1 : Tail(s)[i] = s[i + 1]
  BY HeadTailProperties
<1>2. \A i \in DOMAIN Tail(s) : i + 1 \in DOMAIN s /\ Tail(s)[i] = s[i + 1]
  BY <1>1
<1>3. ASSUME NEW i \in DOMAIN s, i # 1 PROVE i - 1 \in DOMAIN Tail(s) /\ Tail(s)[i - 1] = s[i]
  <2>1. i - 1 \in 1 .. Len(s) - 1 /\ (i - 1) + 1 = i
    BY <1>1, <1>3
  <2> QED
    BY <1>1, <2>1, Zenon
<1>4. 1 \in DOMAIN s
  BY <1>1
<1>5. ASSUME NEW o PROVE o \in Offsets(s) <=> o = Head(s).offset \/ o \in Offsets(Tail(s))
  <2>1. o \in Offsets(s) <=> \E i \in DOMAIN s : s[i].offset = o
    BY Zenon DEF Offsets
  <2>2. o \in Offsets(Tail(s)) <=> \E i \in DOMAIN Tail(s) : Tail(s)[i].offset = o
    BY Zenon DEF Offsets
  <2> QED
    BY <1>1, <1>2, <1>3, <1>4, <2>1, <2>2, ZenonT(30)
<1> QED
  BY <1>1, <1>2, <1>3, <1>5, Zenon

LEMMA OffsetsAppend ==
  ASSUME NEW s \in Seq(Job), NEW j \in Job
  PROVE  /\ Append(s, j) \in Seq(Job)
         /\ DOMAIN Append(s, j) = DOMAIN s \cup {Len(s) + 1}
         /\ \A i \in DOMAIN s : Append(s, j)[i] = s[i]
         /\ Append(s, j)[Len(s) + 1] = j /\ Len(s) + 1 \notin DOMAIN s
         /\ Offsets(Append(s, j)) = Offsets(s) \cup {j.offset}
<1>1. /\ Append(s, j) \in Seq(Job) /\ Len(Append(s, j)) = Len(s) + 1
      /\ \A i \in 1 .. Len(s) : Append(s, j)[i] = s[i]
      /\ Append(s, j)[Len(s) + 1] = j
  BY AppendProperties
<1>2. /\ DOMAIN Append(s, j) = DOMAIN s \cup {Len(s) + 1}
      /\ \A i \in DOMAIN s : Append(s, j)[i] = s[i]
      /\ Len(s) + 1 \notin DOMAIN s
  BY <1>1
<1> QED
  BY <1>1, <1>2 DEF Offsets

LEMMA OffsetsOne ==
  /\ Offsets(<<>>) = {}
  /\ \A j \in Job : Offsets(<<j>>) = {j.offset} /\ <<j>> \in Seq(Job) /\ Len(<<j>>) = 1 /\ <<j>>[1] = j
  /\ \A s \in Seq(Job) : Len(s) = 1 => Offsets(s) = {s[1].offset} /\ s # <<>>
BY DEF Offsets

LEMMA HeldBy ==
  ASSUME NEW m, NEW o
  PROVE  o \in Held(m) <=>
           \E l \in Levels : o \in Offsets(queue[m][l]) \/ o \in Offsets(hand[m][l])
BY Zenon DEF Held

\* Printing one more record.
LEMMA PrintedAppend ==
  ASSUME NEW m \in Members, NEW l \in Levels, NEW o \in Nat, Types,
         printed'[m][l] = Append(printed[m][l], o)
  PROVE  Printed(m, l)' = Printed(m, l) \cup {o}
<1>1. printed[m][l] \in Seq(Nat)
  BY Zenon DEF Types
<1>2. /\ Append(printed[m][l], o) \in Seq(Nat)
      /\ Len(Append(printed[m][l], o)) = Len(printed[m][l]) + 1
      /\ \A i \in 1 .. Len(printed[m][l]) : Append(printed[m][l], o)[i] = printed[m][l][i]
      /\ Append(printed[m][l], o)[Len(printed[m][l]) + 1] = o
  BY <1>1, AppendProperties
<1>3. \A s, t \in Seq(Nat) : Len(t) = Len(s) + 1 =>
        DOMAIN t = DOMAIN s \cup {Len(s) + 1} /\ DOMAIN s = 1 .. Len(s)
  OBVIOUS
<1>4. /\ DOMAIN printed'[m][l] = DOMAIN printed[m][l] \cup {Len(printed[m][l]) + 1}
      /\ \A i \in DOMAIN printed[m][l] : printed'[m][l][i] = printed[m][l][i]
      /\ printed'[m][l][Len(printed[m][l]) + 1] = o
  BY <1>1, <1>2, <1>3, Zenon
<1> QED
  BY <1>4 DEF Printed

LEMMA InitInv == Init => IInv
<1> SUFFICES ASSUME Init PROVE IInv
  BY Zenon
<1>1. Types
  BY DEF Init, Types, NoJobs
<1>2. SessionInv
  BY Zenon DEF Init, SessionInv, SessionOK
<1>3. \A m \in Members, l \in Levels :
        queue[m][l] = <<>> /\ hand[m][l] = <<>> /\ printed[m][l] = <<>>
  BY Zenon DEF Init, NoJobs
<1>4. JobInv
  BY <1>3 DEF JobInv, WorkerOK, Printed
<1>5. AccountInv
  BY DEF Init, AccountInv
<1>6. OrderInv
  BY <1>3 DEF Init, OrderInv, Order, Before, Printed, Offsets, Current
<1> QED
  BY <1>1, <1>2, <1>4, <1>5, <1>6, Zenon DEF IInv

-----------------------------------------------------------------------------
\* The topic only grows and the committed offset never goes back.
Advances ==
  /\ Len(topic) <= Len(topic') /\ \A o \in 1 .. Len(topic) : topic'[o] = topic[o]
  /\ committed <= committed'

\* A step of one member leaves the sessions of the others alone.
LEMMA OtherSessions ==
  ASSUME SessionInv, NEW m \in Members, SessionOK(m)', topic' = topic,
         \A d \in Members \ {m} : session'[d] = session[d],
         owner' = {m} \/ (owner' = owner /\ (committed' = committed \/ owner = {m}))
  PROVE  SessionInv'
<1> SUFFICES ASSUME NEW d \in Members \ {m} PROVE SessionOK(d)'
  BY Zenon DEF SessionInv
<1>1. SessionOK(d) /\ session'[d] = session[d]
  BY Zenon DEF SessionInv
<1>2. owner' = {d} => owner = {d} /\ committed' = committed
  BY Zenon
<1> QED
  BY <1>1, <1>2, Zenon DEF SessionOK

\* The part of the invariant about sessions survives every step of a member.
LEMMA SessionStep ==
  ASSUME IInv, NEW m \in Members,
         \/ Consume(m) \/ Read(m) \/ Send(m) \/ Commit(m) \/ Expire(m) \/ Release(m) \/ Crash(m)
         \/ \E l \in Levels : Check(m, l) \/ printJob(m, l)
  PROVE  Types' /\ SessionInv' /\ Advances
<1> DEFINE Goal == Types' /\ SessionInv' /\ Advances
<1> DEFINE Session == [pc : {"off", "reading", "sending"}, id : Nat,
                       live : BOOLEAN, next : Nat, marked : Nat]
<1>0. Types /\ SessionInv /\ JobInv /\ committed \in Nat /\ Len(topic) \in Nat
  BY DEF IInv, Types
<1>a. session[m] \in Session
  BY <1>0, Zenon DEF Types
<1>b. SessionOK(m)
  BY <1>0, Zenon DEF SessionInv
<1>c. ASSUME NEW r \in Session, session' = [session EXCEPT ![m] = r]
      PROVE  /\ session' \in [Members -> Session] /\ session'[m] = r
             /\ \A d \in Members \ {m} : session'[d] = session[d]
  BY <1>0, <1>c, Zenon DEF Types
<1>d. \A n, k \in Nat : [session[m] EXCEPT !.marked = n, !.next = k] \in Session
  BY <1>a, Zenon
<1>e. \A k \in Nat : [session[m] EXCEPT !.pc = "reading", !.next = k] \in Session
  BY <1>a, Zenon
<1>f. \A n \in Nat : [session[m] EXCEPT !.marked = n] \in Session
  BY <1>a, Zenon
<1>g. session[m].next \in Nat /\ session[m].next + 1 \in Nat
  BY <1>a
<1> USE DEF group, workers
<1>1. CASE Consume(m)
  <2>1. topic' = topic /\ committed' = committed /\ UNCHANGED <<queue, hand, printed>>
    BY <1>1, Zenon DEF Consume
  <2>2. session' = [session EXCEPT ![m] =
          [pc |-> "reading", id |-> session[m].id + 1, live |-> TRUE,
           next |-> committed + 1, marked |-> committed]] /\ owner' = {m}
    BY <1>1, Zenon DEF Consume
  <2>3. session' \in [Members -> Session]
    BY <1>0, <1>a, <2>2 DEF Types
  <2>4. Types'
    BY <1>0, <2>1, <2>3, Zenon DEF Types
  <2>5. /\ session'[m].pc = "reading" /\ session'[m].next = committed + 1
        /\ session'[m].marked = committed /\ \A d \in Members \ {m} : session'[d] = session[d]
    BY <1>0, <2>2, Zenon DEF Types
  <2>6. SessionOK(m)'
    BY <1>0, <2>1, <2>5 DEF Types, SessionOK
  <2>7. SessionInv'
    BY <1>0, <2>1, <2>2, <2>5, <2>6, OtherSessions, Zenon
  <2> QED
    BY <1>0, <2>1, <2>4, <2>7 DEF Advances
<1>2. CASE Read(m)
  <2>1. UNCHANGED <<topic, committed, owner, queue, hand, printed>>
    BY <1>2, Zenon DEF Read
  <2>2. session[m].pc = "reading" /\ session[m].next <= Len(topic)
    BY <1>2, Zenon DEF Read
  <2>3. CASE topic[session[m].next] \in Levels /\ session' = [session EXCEPT ![m].pc = "sending"]
    <3>1. session' \in [Members -> Session]
      BY <1>0, <1>a, <2>3, Zenon DEF Types
    <3>2. Types'
      BY <1>0, <2>1, <3>1, Zenon DEF Types
    <3>3. /\ session'[m].next = session[m].next /\ session'[m].marked = session[m].marked
          /\ session'[m].pc = "sending" /\ \A d \in Members \ {m} : session'[d] = session[d]
      BY <1>0, <1>a, <2>3, Zenon DEF Types
    <3>4. SessionOK(m)'
      BY <1>b, <2>1, <2>2, <2>3, <3>3, Zenon DEF SessionOK
    <3>5. SessionInv'
      BY <1>0, <2>1, <3>3, <3>4, OtherSessions, Zenon
    <3> QED
      BY <1>0, <2>1, <3>2, <3>5 DEF Advances
  <2>4. CASE session' = [session EXCEPT ![m] = [Mark(session[m], session[m].next) EXCEPT !.next = @ + 1]]
    <3>0. Larger(session[m].marked, session[m].next) = session[m].next
      BY <1>a, <1>b, <2>2, Zenon DEF SessionOK, Larger
    <3>1. session' = [session EXCEPT ![m] =
                        [session[m] EXCEPT !.marked = session[m].next, !.next = session[m].next + 1]]
      BY <1>0, <1>a, <2>4, <3>0, Zenon DEF Types, Mark
    <3>2. session' \in [Members -> Session] /\ \A d \in Members \ {m} : session'[d] = session[d]
      <4> DEFINE r == [session[m] EXCEPT !.marked = session[m].next, !.next = session[m].next + 1]
      <4>1. r \in Session
        BY <1>d, <1>g, Zenon
      <4>2. session' = [session EXCEPT ![m] = r]
        BY <3>1, Zenon
      <4> HIDE DEF r
      <4> QED
        BY <1>c, <4>1, <4>2, Zenon
    <3>a. /\ session'[m].pc = "reading" /\ session'[m].next = session[m].next + 1
          /\ session'[m].marked = session[m].next /\ session'[m].live = session[m].live
      BY <1>0, <1>a, <2>2, <3>1, Zenon DEF Types
    <3>3. Types'
      BY <1>0, <2>1, <3>2, Zenon DEF Types
    <3>b. SessionOK(m)'
      BY <1>0, <1>a, <1>b, <2>1, <2>2, <3>a DEF SessionOK
    <3>4. SessionInv'
      BY <1>0, <2>1, <3>2, <3>b, OtherSessions, Zenon
    <3> QED
      BY <1>0, <2>1, <3>3, <3>4 DEF Advances
  <2> QED
    BY <1>2, <2>3, <2>4, Zenon DEF Read
<1>3. CASE Send(m)
  <2> DEFINE l == topic[session[m].next]
  <2>1. UNCHANGED <<topic, committed, owner, hand, printed>> /\ session[m].pc = "sending"
    BY <1>3, Zenon DEF Send
  <2>2. l \in Levels /\ session[m].next <= Len(topic)
    BY <1>b, <2>1, Zenon DEF SessionOK
  <2>3. session' = [session EXCEPT ![m] = [session[m] EXCEPT !.pc = "reading", !.next = session[m].next + 1]]
    BY <1>0, <1>a, <1>3, Zenon DEF Send, Types
  <2>4. /\ session' \in [Members -> Session] /\ \A d \in Members \ {m} : session'[d] = session[d]
        /\ session'[m].pc = "reading" /\ session'[m].next = session[m].next + 1
        /\ session'[m].marked = session[m].marked
    <3>1. session' \in [Members -> Session] /\ \A d \in Members \ {m} : session'[d] = session[d]
      BY <1>c, <1>e, <1>g, <2>3, Zenon
    <3>2. session'[m] = [session[m] EXCEPT !.pc = "reading", !.next = session[m].next + 1]
      BY <1>c, <1>e, <1>g, <2>3, Zenon
    <3> QED
      BY <1>a, <3>1, <3>2, Zenon
  <2> HIDE DEF l
  <2>5. Append(queue[m][l], [offset |-> session[m].next, id |-> session[m].id]) \in Seq(Job)
    BY <1>0, <1>a, <2>2, OffsetsAppend DEF Types, Job
  <2>6. queue' \in [Members -> [Levels -> Seq(Job)]]
    <3>1. queue' = [queue EXCEPT ![m][l] =
                      Append(@, [offset |-> session[m].next, id |-> session[m].id])]
      BY <1>3, Zenon DEF Send, l
    <3> QED
      BY <1>0, <2>2, <2>5, <3>1, Zenon DEF Types
  <2>7. Types'
    BY <1>0, <2>1, <2>4, <2>6, Zenon DEF Types
  <2>8. SessionOK(m)'
    BY <1>a, <1>b, <2>1, <2>2, <2>4 DEF SessionOK
  <2>9. SessionInv'
    BY <1>0, <2>1, <2>4, <2>8, OtherSessions, Zenon
  <2> QED
    BY <1>0, <2>1, <2>7, <2>9 DEF Advances
<1>4. CASE Commit(m)
  <2>1. UNCHANGED <<topic, owner, session, queue, hand, printed>> /\ committed' = session[m].marked
    BY <1>4, Zenon DEF Commit
  <2>2. committed <= session[m].marked /\ session[m].marked <= Len(topic)
    BY <1>0, <1>a, <1>b, <1>4 DEF Commit, SessionOK
  <2>3. Types'
    BY <1>0, <1>a, <2>1, <2>2 DEF Types
  <2>4. SessionInv'
    <3>1. SessionOK(m)' /\ owner = {m}
      BY <1>a, <1>b, <1>4, <2>1 DEF Commit, SessionOK
    <3> QED
      BY <1>0, <2>1, <3>1, OtherSessions, Zenon
  <2> QED
    BY <1>0, <2>1, <2>2, <2>3, <2>4 DEF Advances
<1>5. CASE Expire(m)
  <2>1. /\ UNCHANGED <<topic, committed, owner, queue, hand, printed>>
        /\ session' = [session EXCEPT ![m].live = FALSE]
    BY <1>5, Zenon DEF Expire
  <2>2. /\ session' \in [Members -> Session] /\ \A d \in Members \ {m} : session'[d] = session[d]
        /\ session'[m].pc = session[m].pc /\ session'[m].next = session[m].next
        /\ session'[m].marked = session[m].marked /\ session'[m].live = FALSE
    BY <1>0, <1>a, <2>1, Zenon DEF Types
  <2>3. Types'
    BY <1>0, <2>1, <2>2, Zenon DEF Types
  <2>4. SessionInv'
    <3>1. SessionOK(m)'
      BY <1>b, <2>1, <2>2, Zenon DEF SessionOK
    <3> QED
      BY <1>0, <2>1, <2>2, <3>1, OtherSessions, Zenon
  <2> QED
    BY <1>0, <2>1, <2>3, <2>4 DEF Advances
<1>6. CASE Release(m)
  <2>1. /\ UNCHANGED <<topic, owner, queue, hand, printed>>
        /\ session' = [session EXCEPT ![m].pc = "off"]
        /\ session[m].pc = "reading" /\ ~session[m].live
        /\ committed' = committed \/ (owner = {m} /\ committed' = session[m].marked)
    BY <1>6, Zenon DEF Release
  <2>2. committed <= committed' /\ committed' \in 0 .. Len(topic)
    BY <1>0, <1>a, <1>b, <2>1 DEF Types, SessionOK
  <2>3. /\ session' \in [Members -> Session] /\ \A d \in Members \ {m} : session'[d] = session[d]
        /\ session'[m].pc = "off" /\ session'[m].live = session[m].live
    BY <1>0, <1>a, <2>1, Zenon DEF Types
  <2>4. Types'
    BY <1>0, <2>1, <2>2, <2>3, Zenon DEF Types
  <2>5. SessionInv'
    <3>1. SessionOK(m)'
      BY <2>1, <2>3, Zenon DEF SessionOK
    <3> QED
      BY <1>0, <2>1, <2>3, <3>1, OtherSessions, Zenon
  <2> QED
    BY <1>0, <2>1, <2>2, <2>4, <2>5 DEF Advances
<1>7. CASE Crash(m)
  <2>1. /\ UNCHANGED <<topic, committed, owner, printed>>
        /\ session' = [session EXCEPT ![m].pc = "off", ![m].live = FALSE]
        /\ queue' = [queue EXCEPT ![m] = NoJobs] /\ hand' = [hand EXCEPT ![m] = NoJobs]
    BY <1>7, Zenon DEF Crash
  <2>2. /\ session' \in [Members -> Session] /\ \A d \in Members \ {m} : session'[d] = session[d]
        /\ session'[m].pc = "off" /\ session'[m].live = FALSE
    BY <1>0, <1>a, <2>1, Zenon DEF Types
  <2>3. NoJobs \in [Levels -> Seq(Job)]
    BY DEF NoJobs
  <2>4. Types'
    BY <1>0, <2>1, <2>2, <2>3, Zenon DEF Types
  <2>5. SessionInv'
    <3>1. SessionOK(m)'
      BY <2>2, Zenon DEF SessionOK
    <3> QED
      BY <1>0, <2>1, <2>2, <3>1, OtherSessions, Zenon
  <2> QED
    BY <1>0, <2>1, <2>4, <2>5 DEF Advances
<1>8. ASSUME NEW l \in Levels, Check(m, l) PROVE Goal
  <2>1. UNCHANGED <<topic, committed, owner, session, printed>> /\ queue[m][l] # <<>>
    BY <1>8, Zenon DEF Check
  <2>2. /\ queue' = [queue EXCEPT ![m][l] = Tail(@)]
        /\ hand' = hand \/ hand' = [hand EXCEPT ![m][l] = <<Head(queue[m][l])>>]
    BY <1>8, Zenon DEF Check
  <2>3. Tail(queue[m][l]) \in Seq(Job) /\ <<Head(queue[m][l])>> \in Seq(Job)
    BY <1>0, <2>1, OffsetsHead, OffsetsOne DEF Types
  <2>4. Types'
    <3>1. queue' \in [Members -> [Levels -> Seq(Job)]]
      BY <1>0, <2>2, <2>3, Zenon DEF Types
    <3>2. hand' \in [Members -> [Levels -> Seq(Job)]]
      <4> DEFINE taken == <<Head(queue[m][l])>>
      <4>1. taken \in Seq(Job) /\ (hand' = hand \/ hand' = [hand EXCEPT ![m][l] = taken])
        BY <2>2, <2>3, Zenon
      <4> HIDE DEF taken
      <4>2. hand \in [Members -> [Levels -> Seq(Job)]]
        BY <1>0, Zenon DEF Types
      <4>3. CASE hand' = [hand EXCEPT ![m][l] = taken]
        BY <4>1, <4>2, <4>3, Zenon
      <4> QED
        BY <4>1, <4>2, <4>3, Zenon
    <3> QED
      BY <1>0, <2>1, <3>1, <3>2, Zenon DEF Types
  <2>5. SessionInv'
    BY <1>0, <2>1, Zenon DEF SessionInv, SessionOK
  <2> QED
    BY <1>0, <2>1, <2>4, <2>5 DEF Advances
<1>9. ASSUME NEW l \in Levels, printJob(m, l) PROVE Goal
  <2> DEFINE job == Head(hand[m][l])
  <2>1. UNCHANGED <<topic, committed, owner, queue>> /\ hand[m][l] # <<>>
    BY <1>9, Zenon DEF printJob
  <2>2. job \in Job /\ job = hand[m][l][1] /\ JobOK(m, l, job)
    BY <1>0, <2>1, OffsetsHead DEF Types, JobInv, WorkerOK
  <2>3. /\ printed' = [printed EXCEPT ![m][l] = Append(@, job.offset)]
        /\ hand' = [hand EXCEPT ![m][l] = <<>>]
        /\ session' = [session EXCEPT ![m] = IF @.id = job.id /\ @.pc # "off"
                                              THEN Mark(@, job.offset) ELSE @]
    BY <1>9, Zenon DEF printJob
  <2> HIDE DEF job
  <2>4. job.offset \in Nat /\ Append(printed[m][l], job.offset) \in Seq(Nat)
    BY <1>0, <2>2, AppendProperties DEF Types, Job
  <2>5. printed' \in [Members -> [Levels -> Seq(Nat)]] /\ hand' \in [Members -> [Levels -> Seq(Job)]]
    BY <1>0, <2>3, <2>4 DEF Types
  <2>6. \/ session' = session
        \/ /\ session' = [session EXCEPT ![m] =
                            [session[m] EXCEPT !.marked = Larger(session[m].marked, job.offset)]]
           /\ session[m].pc # "off" /\ job.offset < session[m].next
    <3>1. CASE session[m].id = job.id /\ session[m].pc # "off"
      BY <2>2, <2>3, <3>1, Zenon DEF Mark, JobOK
    <3>2. CASE ~(session[m].id = job.id /\ session[m].pc # "off")
      BY <1>0, <2>3, <3>2, Zenon DEF Types
    <3> QED
      BY <3>1, <3>2, Zenon
  <2>a. Larger(session[m].marked, job.offset) \in Nat
    BY <1>a, <2>4, Zenon DEF Larger
  <2>7. session' \in [Members -> Session]
    BY <1>0, <1>c, <1>f, <2>6, <2>a, Zenon DEF Types
  <2>8. Types'
    BY <1>0, <2>1, <2>5, <2>7, Zenon DEF Types
  <2>9. SessionInv'
    <3>1. CASE session' = session
      BY <1>0, <2>1, <3>1, Zenon DEF SessionInv, SessionOK
    <3>2. CASE session' # session
      <4>1. /\ session'[m].pc = session[m].pc /\ session'[m].next = session[m].next
            /\ session'[m].live = session[m].live /\ session[m].pc # "off"
            /\ session'[m].marked = Larger(session[m].marked, job.offset)
            /\ job.offset < session[m].next
            /\ \A d \in Members \ {m} : session'[d] = session[d]
        BY <1>0, <1>a, <2>6, <3>2 DEF Types
      <4>2. SessionOK(m)'
        BY <1>0, <1>a, <1>b, <2>1, <2>4, <4>1 DEF SessionOK, Larger
      <4> QED
        BY <1>0, <2>1, <4>1, <4>2, OtherSessions, Zenon
    <3> QED
      BY <3>1, <3>2, Zenon
  <2> QED
    BY <1>0, <2>1, <2>8, <2>9 DEF Advances
<1> QED
  BY <1>1, <1>2, <1>3, <1>4, <1>5, <1>6, <1>7, <1>8, <1>9, Zenon

-----------------------------------------------------------------------------
\* What worker l of member m held stays held, is dropped or is printed.
Kept(m, l) ==
  /\ Printed(m, l) \subseteq Printed(m, l)'
  /\ \A o \in Offsets(queue[m][l]) \cup Offsets(hand[m][l]) :
       \/ o \in Offsets(queue[m][l])' \cup Offsets(hand[m][l])' \cup gone'
       \/ o \in Printed(m, l)' /\ topic[o] = l

\* A worker that no step of its own level disturbs.  Its session may read past a
\* record of another level, expire or be released.
LEMMA SameWorker ==
  ASSUME IInv, Types', Advances, NEW m \in Members, NEW l \in Levels,
         queue'[m][l] = queue[m][l], hand'[m][l] = hand[m][l], printed'[m][l] = printed[m][l],
         session'[m].id = session[m].id,
         session'[m].live => session[m].live,
         session'[m].pc # "off" => session[m].pc # "off",
         \/ session'[m].next = session[m].next
         \/ /\ session'[m].next = session[m].next + 1
            /\ session[m].next <= Len(topic) /\ topic[session[m].next] # l
  PROVE  WorkerOK(m, l)' /\ Order(m, l)' /\ Kept(m, l)
<1>0. /\ WorkerOK(m, l) /\ Order(m, l) /\ SessionOK(m)
      /\ Len(topic) \in Nat /\ Len(topic') \in Nat /\ Len(topic) <= Len(topic')
      /\ \A o \in 1 .. Len(topic) : topic'[o] = topic[o]
      /\ committed \in Nat /\ committed' \in Nat /\ committed <= committed'
      /\ session[m].next \in Nat /\ session'[m].next \in Nat
      /\ session[m].next <= session'[m].next
  BY DEF IInv, Types, JobInv, OrderInv, SessionInv, Advances
<1>1. /\ Printed(m, l)' = Printed(m, l)
      /\ Offsets(hand[m][l])' = Offsets(hand[m][l])
      /\ Offsets(queue[m][l])' = Offsets(queue[m][l])
      /\ Current(m, l)' = Current(m, l)
  BY DEF Printed, Offsets, Current
<1>2. \A o : Before(m, l, o)' <=> Before(m, l, o)
  BY <1>1, Zenon DEF Before
<1>3. /\ \A i \in DOMAIN queue[m][l] : queue[m][l][i] \in Job
      /\ hand[m][l] # <<>> /\ Len(hand[m][l]) = 1 => hand[m][l][1] \in Job
  BY DEF IInv, Types
<1>4. ASSUME NEW j \in Job, JobOK(m, l, j) PROVE JobOK(m, l, j)'
  <2>1. j.offset \in Nat /\ j.offset <= Len(topic') /\ j.offset >= 1 /\ topic'[j.offset] = l
    BY <1>0, <1>4 DEF JobOK
  <2>2. j.id = session[m].id /\ session[m].pc # "off" => j.offset < session'[m].next
    BY <1>0, <1>4, <2>1 DEF JobOK
  <2> QED
    BY <1>0, <1>4, <2>1, <2>2 DEF JobOK
<1>5. WorkerOK(m, l)'
  BY <1>0, <1>1, <1>3, <1>4 DEF WorkerOK
<1>6. \A p \in Printed(m, l) \cup Offsets(hand[m][l]) : p \in 1 .. Len(topic)
  <2>1. \A p \in Printed(m, l) : p \in 1 .. Len(topic)
    BY <1>0, Zenon DEF WorkerOK
  <2>2. hand[m][l] \in Seq(Job)
    BY Zenon DEF IInv, Types
  <2>3. hand[m][l] = <<>> \/ (Len(hand[m][l]) = 1 /\ JobOK(m, l, hand[m][l][1]))
    BY <1>0, Zenon DEF WorkerOK
  <2>4. Offsets(hand[m][l]) = {} \/ Offsets(hand[m][l]) = {hand[m][l][1].offset}
    BY <2>2, <2>3, OffsetsOne, Zenon
  <2>5. hand[m][l] # <<>> => hand[m][l][1].offset \in 1 .. Len(topic)
    BY <2>3, Zenon DEF JobOK
  <2>6. hand[m][l] = <<>> => Offsets(hand[m][l]) = {}
    BY OffsetsOne, Zenon
  <2> QED
    BY <2>1, <2>4, <2>5, <2>6, Zenon
<1>7. \A o \in 1 .. Len(topic') : o \notin 1 .. Len(topic) => Before(m, l, o)
  BY <1>0, <1>6 DEF Before
<1>8. ASSUME NEW o \in 1 .. Len(topic'), topic'[o] = l, committed' < o PROVE Before(m, l, o)
  BY <1>0, <1>7, <1>8 DEF Order
<1>9. ASSUME session'[m].live,
             NEW o \in 1 .. Len(topic'), topic'[o] = l, session'[m].next <= o
      PROVE  Before(m, l, o)
  BY <1>0, <1>7, <1>9 DEF Order
<1>10. ASSUME session'[m].live,
              NEW o \in 1 .. Len(topic'), topic'[o] = l, committed' < o, o < session'[m].next
       PROVE  \/ o \in Printed(m, l) \cup Offsets(hand[m][l])
              \/ \E i \in Current(m, l) : queue[m][l][i].offset = o
  <2>1. session[m].live /\ session[m].pc # "off"
    BY <1>0, <1>10, Zenon DEF SessionOK
  <2>2. CASE o \in 1 .. Len(topic) /\ o < session[m].next
    BY <1>0, <1>10, <2>1, <2>2 DEF Order
  <2>3. CASE o \in 1 .. Len(topic) /\ ~(o < session[m].next)
    <3>1. o \in Nat /\ session[m].next \in Nat /\ o < session'[m].next /\ ~(o < session[m].next)
      BY <1>0, <1>10, <2>3
    <3>2. session'[m].next = session[m].next + 1 /\ topic[session[m].next] # l
      BY <1>0, <2>3, <3>1, Zenon
    <3>3. o = session[m].next
      BY <3>1, <3>2
    <3> QED
      BY <1>0, <1>10, <2>3, <3>2, <3>3, Zenon
  <2>4. CASE o \notin 1 .. Len(topic)
    <3>1. o > Len(topic) /\ session'[m].next <= Len(topic) + 1
      BY <1>0, <1>10, <2>1, <2>4 DEF SessionOK
    <3> QED
      BY <1>0, <1>10, <3>1
  <2> QED
    BY <2>2, <2>3, <2>4, Zenon
<1>11. Order(m, l)'
  <2>1. \A o \in Offsets(hand[m][l])' : Before(m, l, o)'
    BY <1>0, <1>1, <1>2, Zenon DEF Order
  <2>2. session'[m].live =>
          /\ \A i \in Current(m, l)' : Before(m, l, queue[m][l][i].offset)'
          /\ \A i, j \in Current(m, l)' : i < j => queue'[m][l][i].offset < queue'[m][l][j].offset
    BY <1>0, <1>1, <1>2 DEF Order
  <2>3. session'[m].live =>
          \A o \in 1 .. Len(topic') : topic'[o] = l /\ session'[m].next <= o => Before(m, l, o)'
    BY <1>2, <1>9, Zenon
  <2>4. session'[m].live =>
          \A o \in 1 .. Len(topic') :
            topic'[o] = l /\ committed' < o /\ o < session'[m].next =>
              \/ o \in Printed(m, l)' \cup Offsets(hand[m][l])'
              \/ \E i \in Current(m, l)' : queue'[m][l][i].offset = o
    BY <1>1, <1>10
  <2>5. \A o \in 1 .. Len(topic') : topic'[o] = l /\ committed' < o => Before(m, l, o)'
    BY <1>2, <1>8, Zenon
  <2> QED
    BY <2>1, <2>2, <2>3, <2>4, <2>5, Zenon DEF Order
<1>12. Kept(m, l)
  BY <1>1, Zenon DEF Kept
<1> QED
  BY <1>5, <1>11, <1>12, Zenon

\* A new session starts after the committed offset, and no job is one of its own.
LEMMA ConsumeWorker ==
  ASSUME IInv, NEW m \in Members, NEW l \in Levels, Consume(m)
  PROVE  WorkerOK(m, l)' /\ Order(m, l)' /\ Kept(m, l)
<1>0. /\ WorkerOK(m, l) /\ Order(m, l) /\ Len(topic) \in Nat /\ committed \in Nat
      /\ session[m].id \in Nat
      /\ queue[m][l] \in Seq(Job) /\ hand[m][l] \in Seq(Job)
  BY DEF IInv, Types, JobInv, OrderInv
<1>1. /\ topic' = topic /\ committed' = committed /\ queue' = queue /\ hand' = hand
      /\ printed' = printed /\ gone' = gone
      /\ session'[m].id = session[m].id + 1 /\ session'[m].next = committed + 1
  BY Zenon DEF IInv, Types, Consume, workers
<1>2. /\ Printed(m, l)' = Printed(m, l)
      /\ Offsets(hand[m][l])' = Offsets(hand[m][l])
      /\ Offsets(queue[m][l])' = Offsets(queue[m][l])
  BY <1>1, Zenon DEF Printed, Offsets
<1>3. \A o : Before(m, l, o)' <=> Before(m, l, o)
  BY <1>2, Zenon DEF Before
<1>4. ASSUME NEW j \in Job, JobOK(m, l, j) PROVE JobOK(m, l, j)' /\ j.id # session'[m].id
  BY <1>0, <1>1, <1>4 DEF JobOK, Job
<1>5. WorkerOK(m, l)'
  BY <1>0, <1>1, <1>2, <1>4 DEF WorkerOK
<1>6. Current(m, l)' = {}
  BY <1>0, <1>1, <1>4 DEF WorkerOK, Current
<1>7. Order(m, l)'
  BY <1>0, <1>1, <1>2, <1>3, <1>6 DEF Order
<1>8. Kept(m, l)
  BY <1>1, <1>2, Zenon DEF Kept
<1> QED
  BY <1>5, <1>7, <1>8, Zenon

\* ConsumeClaim sends the record that it has read: nothing overtook it.
LEMMA SendWorker ==
  ASSUME IInv, NEW m \in Members, NEW l \in Levels, Send(m), topic[session[m].next] = l
  PROVE  /\ WorkerOK(m, l)' /\ Order(m, l)' /\ Kept(m, l)
         /\ session[m].next \in Offsets(queue[m][l])'
<1>0. /\ WorkerOK(m, l) /\ Order(m, l) /\ Len(topic) \in Nat /\ committed \in Nat
      /\ session[m].id \in Nat /\ session[m].next \in Nat
      /\ queue[m][l] \in Seq(Job) /\ hand[m][l] \in Seq(Job) /\ SessionOK(m)
  BY DEF IInv, Types, JobInv, OrderInv, SessionInv
<1>1. /\ topic' = topic /\ committed' = committed /\ hand' = hand /\ printed' = printed
      /\ session'[m].id = session[m].id /\ session'[m].next = session[m].next + 1
      /\ session'[m].live = session[m].live /\ session[m].pc = "sending"
  BY DEF IInv, Types, Send, group
<1>2. PICK o1 \in Nat : o1 = session[m].next
  BY <1>0, Zenon
<1>3. PICK job \in Job : /\ job.offset = o1 /\ job.id = session[m].id
                        /\ queue'[m][l] = Append(queue[m][l], job)
  <2>1. [offset |-> session[m].next, id |-> session[m].id] \in Job
    BY <1>0, Zenon DEF Job
  <2>2. queue'[m][l] = Append(queue[m][l], [offset |-> session[m].next, id |-> session[m].id])
    BY Zenon DEF IInv, Types, Send
  <2> QED
    BY <1>2, <2>1, <2>2, Zenon
<1>4. /\ DOMAIN queue'[m][l] = DOMAIN queue[m][l] \cup {Len(queue[m][l]) + 1}
      /\ \A i \in DOMAIN queue[m][l] : queue'[m][l][i] = queue[m][l][i]
      /\ queue'[m][l][Len(queue[m][l]) + 1] = job /\ Len(queue[m][l]) + 1 \notin DOMAIN queue[m][l]
      /\ Offsets(queue[m][l])' = Offsets(queue[m][l]) \cup {o1}
  <2>1. Offsets(queue[m][l])' = Offsets(Append(queue[m][l], job))
    BY <1>3, Zenon DEF Offsets
  <2> QED
    BY <1>0, <1>3, <2>1, OffsetsAppend
<1>5. /\ Printed(m, l)' = Printed(m, l)
      /\ Offsets(hand[m][l])' = Offsets(hand[m][l])
  BY <1>1, Zenon DEF Printed, Offsets
<1>6. \A o : Before(m, l, o)' <=> Before(m, l, o)
  BY <1>5, Zenon DEF Before
<1>7. o1 \in 1 .. Len(topic) /\ topic[o1] = l
  BY <1>0, <1>1, <1>2 DEF SessionOK, IInv, Types
<1>8. ASSUME NEW j \in Job, JobOK(m, l, j) PROVE JobOK(m, l, j)'
  BY <1>0, <1>1, <1>8 DEF JobOK, Job
<1>9. JobOK(m, l, job)'
  BY <1>0, <1>1, <1>2, <1>3, <1>7 DEF JobOK
<1>10. WorkerOK(m, l)'
  <2>1. ASSUME NEW i \in DOMAIN queue'[m][l] PROVE JobOK(m, l, queue[m][l][i])'
    <3>1. PICK j \in Job : queue'[m][l][i] = j /\ JobOK(m, l, j)'
      BY <1>0, <1>4, <1>8, <1>9 DEF WorkerOK
    <3> QED
      BY <3>1, Zenon
  <2>2. hand[m][l] # <<>> => Len(hand[m][l]) = 1 /\ JobOK(m, l, hand[m][l][1])'
    BY <1>0, <1>1, <1>8 DEF WorkerOK
  <2>3. \A o \in Printed(m, l)' : o \in 1 .. Len(topic')
    BY <1>0, <1>1, <1>5, Zenon DEF WorkerOK
  <2> QED
    BY <1>1, <2>1, <2>2, <2>3, Zenon DEF WorkerOK
<1>11. Current(m, l)' = Current(m, l) \cup {Len(queue[m][l]) + 1}
  BY <1>1, <1>3, <1>4 DEF Current
<1>12. \A i \in Current(m, l) : queue[m][l][i].offset < o1 /\ i < Len(queue[m][l]) + 1
  BY <1>0, <1>1, <1>2 DEF Current, WorkerOK, JobOK
<1>13. ASSUME session'[m].live
       PROVE  /\ \A i \in Current(m, l)' : Before(m, l, queue'[m][l][i].offset)
              /\ \A i, j \in Current(m, l)' : i < j => queue'[m][l][i].offset < queue'[m][l][j].offset
              /\ \A o \in 1 .. Len(topic) : topic[o] = l /\ o1 + 1 <= o => Before(m, l, o)
              /\ \A o \in 1 .. Len(topic) :
                   topic[o] = l /\ committed < o /\ o < o1 + 1 =>
                     \/ o \in Printed(m, l) \cup Offsets(hand[m][l])
                     \/ \E i \in Current(m, l)' : queue'[m][l][i].offset = o
  <2>1. session[m].live
    BY <1>1, <1>13, Zenon
  <2>2. Before(m, l, o1)
    BY <1>0, <1>2, <1>7, <2>1 DEF Order
  <2>3. \A i \in Current(m, l) : i \in DOMAIN queue[m][l]
    BY Zenon DEF Current
  <2>4. \A i \in Current(m, l)' : Before(m, l, queue'[m][l][i].offset)
    <3>1. \A i \in Current(m, l) : Before(m, l, queue[m][l][i].offset)
      BY <1>0, <2>1, Zenon DEF Order
    <3> QED
      BY <1>3, <1>4, <1>11, <2>2, <2>3, <3>1, Zenon
  <2>5. \A i, j \in Current(m, l)' : i < j => queue'[m][l][i].offset < queue'[m][l][j].offset
    <3>1. \A i, j \in Current(m, l) : i < j => queue[m][l][i].offset < queue[m][l][j].offset
      BY <1>0, <2>1, Zenon DEF Order
    <3>2. \A i \in Current(m, l) : i \in Nat /\ ~(Len(queue[m][l]) + 1 < i)
      BY <1>0, <1>12, <2>3
    <3>3. \A i \in Current(m, l) :
            ~(Len(queue[m][l]) + 1 < i) /\ queue[m][l][i].offset < o1
      BY <1>12, <3>2, Zenon
    <3>4. ~(Len(queue[m][l]) + 1 < Len(queue[m][l]) + 1)
      BY <1>0
    <3> SUFFICES ASSUME NEW i \in Current(m, l)', NEW j \in Current(m, l)', i < j
                 PROVE  queue'[m][l][i].offset < queue'[m][l][j].offset
      BY Zenon
    <3>5. i \in Current(m, l)
      BY <1>11, <3>3, <3>4, Zenon
    <3>6. CASE j \in Current(m, l)
      BY <1>4, <2>3, <3>1, <3>5, <3>6, Zenon
    <3>7. CASE j = Len(queue[m][l]) + 1
      BY <1>3, <1>4, <2>3, <3>3, <3>5, <3>7, Zenon
    <3> QED
      BY <1>11, <3>6, <3>7, Zenon
  <2>6. \A o \in 1 .. Len(topic) : topic[o] = l /\ o1 + 1 <= o => Before(m, l, o)
    BY <1>0, <1>2, <2>1 DEF Order
  <2>7. ASSUME NEW o \in 1 .. Len(topic), topic[o] = l, committed < o, o < o1 + 1
        PROVE  \/ o \in Printed(m, l) \cup Offsets(hand[m][l])
               \/ \E i \in Current(m, l)' : queue'[m][l][i].offset = o
    <3>1. CASE o = o1
      BY <1>3, <1>4, <1>11, <3>1, Zenon
    <3>2. CASE o < o1
      <4>1. \/ o \in Printed(m, l) \cup Offsets(hand[m][l])
            \/ \E i \in Current(m, l) : queue[m][l][i].offset = o
        BY <1>0, <1>2, <2>1, <2>7, <3>2, Zenon DEF Order
      <4> QED
        BY <1>4, <1>11, <2>3, <4>1, Zenon
    <3> QED
      BY <1>0, <2>7, <3>1, <3>2
  <2> QED
    BY <2>4, <2>5, <2>6, <2>7, Zenon
<1>14. Order(m, l)'
  <2>1. /\ \A o \in 1 .. Len(topic) : topic[o] = l /\ committed < o => Before(m, l, o)'
        /\ \A o \in Offsets(hand[m][l]) : Before(m, l, o)'
    BY <1>0, <1>6, Zenon DEF Order
  <2>2. session'[m].live =>
          /\ \A i \in Current(m, l)' : Before(m, l, queue[m][l][i].offset)'
          /\ \A o \in 1 .. Len(topic) : topic[o] = l /\ session'[m].next <= o => Before(m, l, o)'
    BY <1>1, <1>2, <1>5, <1>6, <1>13 DEF Before
  <2> QED
    BY <1>1, <1>2, <1>5, <1>13, <2>1, <2>2 DEF Order
<1>15. Kept(m, l)
  BY <1>4, <1>5, Zenon DEF Kept
<1> QED
  BY <1>2, <1>4, <1>10, <1>14, <1>15, Zenon

\* A worker takes a job: one of its live session, behind which nothing was printed,
\* or one that it drops.
LEMMA CheckWorker ==
  ASSUME IInv, NEW m \in Members, NEW l \in Levels, Check(m, l)
  PROVE  WorkerOK(m, l)' /\ Order(m, l)' /\ Kept(m, l)
<1>0. /\ WorkerOK(m, l) /\ Order(m, l) /\ Len(topic) \in Nat /\ committed \in Nat
      /\ session[m].id \in Nat /\ session[m].next \in Nat
      /\ queue[m][l] \in Seq(Job) /\ hand[m][l] \in Seq(Job) /\ SessionOK(m)
  BY DEF IInv, Types, JobInv, OrderInv, SessionInv
<1>1. /\ topic' = topic /\ committed' = committed /\ session' = session /\ printed' = printed
      /\ queue[m][l] # <<>> /\ hand[m][l] = <<>> /\ queue'[m][l] = Tail(queue[m][l])
  BY Zenon DEF IInv, Types, Check, group
<1>2. PICK job \in Job : job = Head(queue[m][l]) /\ job = queue[m][l][1]
  BY <1>0, <1>1, OffsetsHead, Zenon
<1>3. /\ \A i \in DOMAIN queue'[m][l] :
           i + 1 \in DOMAIN queue[m][l] /\ queue'[m][l][i] = queue[m][l][i + 1]
      /\ \A i \in DOMAIN queue[m][l] :
           i = 1 \/ (i - 1 \in DOMAIN queue'[m][l] /\ queue'[m][l][i - 1] = queue[m][l][i])
      /\ Offsets(queue[m][l]) = {job.offset} \cup Offsets(queue[m][l])'
      /\ DOMAIN queue[m][l] \subseteq Nat /\ DOMAIN queue'[m][l] \subseteq Nat \ {0}
      /\ 1 \in DOMAIN queue[m][l]
  <2>1. Offsets(queue[m][l])' = Offsets(Tail(queue[m][l]))
    BY <1>1, Zenon DEF Offsets
  <2>2. Tail(queue[m][l]) \in Seq(Job)
    BY <1>0, <1>1, OffsetsHead, Zenon
  <2>3. DOMAIN queue[m][l] \subseteq Nat /\ DOMAIN queue'[m][l] \subseteq Nat \ {0}
    <3>1. \A q \in Seq(Job) : DOMAIN q \subseteq Nat \ {0}
      OBVIOUS
    <3>2. queue'[m][l] \in Seq(Job)
      BY <1>1, <2>2, Zenon
    <3> QED
      BY <1>0, <3>1, <3>2, Zenon
  <2>4. 1 \in DOMAIN queue[m][l]
    BY <1>0, <1>1
  <2>5. /\ \A i \in DOMAIN Tail(queue[m][l]) :
             i + 1 \in DOMAIN queue[m][l] /\ Tail(queue[m][l])[i] = queue[m][l][i + 1]
        /\ \A i \in DOMAIN queue[m][l] :
             \/ i = 1
             \/ /\ i - 1 \in DOMAIN Tail(queue[m][l])
                /\ Tail(queue[m][l])[i - 1] = queue[m][l][i]
        /\ Offsets(queue[m][l]) = {Head(queue[m][l]).offset} \cup Offsets(Tail(queue[m][l]))
    BY <1>0, <1>1, OffsetsHead, Zenon
  <2> QED
    BY <1>1, <1>2, <2>1, <2>3, <2>4, <2>5, Zenon
<1>4. JobOK(m, l, job) /\ \A j \in Job : JobOK(m, l, j)' <=> JobOK(m, l, j)
  BY <1>0, <1>1, <1>2, <1>3 DEF WorkerOK, JobOK
<1>5. \A i \in DOMAIN queue'[m][l] : JobOK(m, l, queue'[m][l][i])
  BY <1>0, <1>3, Zenon DEF WorkerOK
<1>6. /\ Printed(m, l)' = Printed(m, l) /\ \A o \in Printed(m, l) : o \in 1 .. Len(topic)
      /\ Offsets(hand[m][l]) = {}
  BY <1>0, <1>1, OffsetsOne DEF Printed, WorkerOK
<1>7. /\ \A i \in Current(m, l)' : i \in Nat /\ i + 1 \in Current(m, l)
      /\ \A i \in Current(m, l) : i \in Nat /\ (i = 1 \/ i - 1 \in Current(m, l)')
      /\ 1 \in Current(m, l) <=> job.id = session[m].id
      /\ \A i \in Current(m, l)' : queue'[m][l][i] = queue[m][l][i + 1]
      /\ \A i \in Current(m, l) : i = 1 \/ queue'[m][l][i - 1] = queue[m][l][i]
  <2>1. Current(m, l)' = {i \in DOMAIN queue'[m][l] : queue'[m][l][i].id = session[m].id}
    BY <1>1, Zenon DEF Current
  <2> QED
    BY <1>2, <1>3, <2>1, Zenon DEF Current
<1>8. CASE ~(session[m].id = job.id /\ session[m].live)
  <2>1. hand' = hand /\ gone' = gone \cup {job.offset}
    BY <1>2, <1>8, Zenon DEF Check
  <2>2. Offsets(hand[m][l])' = {}
    BY <1>6, <2>1, Zenon
  <2>3. WorkerOK(m, l)'
    BY <1>1, <1>3, <1>4, <1>5, <1>6, <2>1, <1>0, ZenonT(30) DEF WorkerOK, JobOK
  <2>4. \A o : Before(m, l, o)' <=> Before(m, l, o)
    BY <1>6, <2>2, Zenon DEF Before
  <2>5. ASSUME session[m].live
        PROVE  /\ \A i \in Current(m, l)' : Before(m, l, queue'[m][l][i].offset)
               /\ \A i, j \in Current(m, l)' : i < j => queue'[m][l][i].offset < queue'[m][l][j].offset
               /\ \A o \in 1 .. Len(topic) :
                    topic[o] = l /\ committed < o /\ o < session[m].next =>
                      \/ o \in Printed(m, l)
                      \/ \E i \in Current(m, l)' : queue'[m][l][i].offset = o
    <3>1. 1 \notin Current(m, l)
      BY <1>7, <1>8, <2>5, Zenon
    <3>2. \A i \in Current(m, l)' : Before(m, l, queue'[m][l][i].offset)
      BY <1>0, <1>7, <2>5, Zenon DEF Order
    <3>3. ASSUME NEW i \in Current(m, l)', NEW j \in Current(m, l)', i < j
          PROVE  queue'[m][l][i].offset < queue'[m][l][j].offset
      <4>1. i + 1 < j + 1 /\ i + 1 \in Current(m, l) /\ j + 1 \in Current(m, l)
        BY <1>7, <3>3
      <4>2. queue[m][l][i + 1].offset < queue[m][l][j + 1].offset
        BY <1>0, <2>5, <4>1, Zenon DEF Order
      <4> QED
        BY <1>7, <4>2, Zenon
    <3>4. ASSUME NEW o \in 1 .. Len(topic), topic[o] = l, committed < o, o < session[m].next
          PROVE  \/ o \in Printed(m, l)
                 \/ \E i \in Current(m, l)' : queue'[m][l][i].offset = o
      <4>1. o \in Printed(m, l) \/ \E i \in Current(m, l) : queue[m][l][i].offset = o
        BY <1>0, <1>6, <2>5, <3>4, Zenon DEF Order
      <4> QED
        BY <1>7, <3>1, <4>1, Zenon
    <3> QED
      BY <3>2, <3>3, <3>4, Zenon
  <2>6. /\ \A o \in 1 .. Len(topic) : topic[o] = l /\ committed < o => Before(m, l, o)'
        /\ session[m].live =>
             /\ \A i \in Current(m, l)' : Before(m, l, queue[m][l][i].offset)'
             /\ \A o \in 1 .. Len(topic) : topic[o] = l /\ session[m].next <= o => Before(m, l, o)'
    <3>1. \A o \in 1 .. Len(topic) : topic[o] = l /\ committed < o => Before(m, l, o)'
      BY <1>0, <2>4, Zenon DEF Order
    <3>2. session[m].live => \A i \in Current(m, l)' : Before(m, l, queue[m][l][i].offset)'
      BY <1>6, <2>2, <2>5, Zenon DEF Before
    <3>3. session[m].live => \A o \in 1 .. Len(topic) :
            topic[o] = l /\ session[m].next <= o => Before(m, l, o)'
      BY <1>0, <2>4, Zenon DEF Order
    <3> QED
      BY <3>1, <3>2, <3>3, Zenon
  <2>7. Order(m, l)'
    BY <1>1, <1>6, <2>2, <2>5, <2>6, Zenon DEF Order
  <2>8. Kept(m, l)
    BY <1>3, <1>6, <2>1, <2>2, Zenon DEF Kept
  <2> QED
    BY <2>3, <2>7, <2>8, Zenon
<1>9. CASE session[m].id = job.id /\ session[m].live
  <2>1. hand'[m][l] = <<job>> /\ Offsets(hand[m][l])' = {job.offset}
    <3>1. hand'[m][l] = <<job>>
      BY <1>2, <1>9 DEF Check, IInv, Types
    <3>2. Offsets(hand[m][l])' = Offsets(<<job>>)
      BY <3>1, Zenon DEF Offsets
    <3> QED
      BY <3>1, <3>2, OffsetsOne, Zenon
  <2>2. WorkerOK(m, l)'
    <3>1. hand'[m][l][1] = job /\ Len(hand'[m][l]) = 1
      BY <2>1, OffsetsOne, Zenon
    <3>2. JobOK(m, l, hand[m][l][1])'
      BY <1>1, <1>4, <3>1, Zenon DEF JobOK
    <3>3. \A i \in DOMAIN queue'[m][l] : JobOK(m, l, queue[m][l][i])'
      BY <1>1, <1>5, Zenon DEF JobOK
    <3> QED
      BY <1>1, <1>6, <3>1, <3>2, <3>3, Zenon DEF WorkerOK
  <2>3. \A o : Before(m, l, o)' <=> Before(m, l, o) /\ (o < job.offset => o \in Printed(m, l))
    BY <1>6, <2>1, Zenon DEF Before
  <2>4. /\ job.offset \in 1 .. Len(topic) /\ topic[job.offset] = l
        /\ job.offset < session[m].next /\ 1 \in Current(m, l)
    BY <1>0, <1>4, <1>7, <1>9, Zenon DEF JobOK, SessionOK
  <2>5. \A i \in Current(m, l)' : job.offset < queue'[m][l][i].offset
    <3>1. \A i \in Current(m, l)' : 1 < i + 1
      BY <1>3 DEF Current
    <3>2. \A i, j \in Current(m, l) : i < j => queue[m][l][i].offset < queue[m][l][j].offset
      BY <1>0, <1>9, Zenon DEF Order
    <3> QED
      BY <1>2, <1>7, <2>4, <3>1, <3>2, Zenon
  <2>a. \A i \in Current(m, l)' : queue'[m][l][i].offset \in Nat
    <3>1. \A i \in DOMAIN queue[m][l] : queue[m][l][i] \in Job
      BY <1>0
    <3>2. \A i \in DOMAIN queue[m][l] : queue[m][l][i].offset \in Nat
      BY <3>1, Zenon DEF Job
    <3> QED
      BY <1>7, <3>2, Zenon DEF Current
  <2>6. ASSUME NEW o \in 1 .. Len(topic), topic[o] = l, committed < o, o < session[m].next
        PROVE  \/ o \in Printed(m, l) \/ o = job.offset
               \/ \E i \in Current(m, l)' : queue'[m][l][i].offset = o
    <3>1. o \in Printed(m, l) \/ \E i \in Current(m, l) : queue[m][l][i].offset = o
      BY <1>0, <1>6, <1>9, <2>6, Zenon DEF Order
    <3> QED
      BY <1>2, <1>7, <3>1
  <2>7. ASSUME NEW o \in 1 .. Len(topic), topic[o] = l, committed < o PROVE Before(m, l, o)'
    <3>1. o < job.offset => o \in Printed(m, l)
      <4>1. CASE o < job.offset
        <5>1. o < session[m].next /\ o # job.offset
          BY <1>0, <2>4, <4>1
        <5>2. \A i \in Current(m, l)' : queue'[m][l][i].offset # o
          BY <2>4, <2>5, <2>a, <4>1
        <5> QED
          BY <2>6, <2>7, <5>1, <5>2, Zenon
      <4> QED
        BY <4>1, Zenon
    <3> QED
      BY <1>0, <2>3, <2>7, <3>1, Zenon DEF Order
  <2>8. \A i \in Current(m, l)' : Before(m, l, queue[m][l][i].offset)'
    <3> SUFFICES ASSUME NEW i \in Current(m, l)' PROVE Before(m, l, queue[m][l][i].offset)'
      BY Zenon
    <3>1. PICK o \in Nat : o = queue'[m][l][i].offset
      BY <2>a, Zenon
    <3>a. ~(o < job.offset)
      BY <2>4, <2>5, <3>1
    <3>b. i + 1 \in Current(m, l) /\ o = queue[m][l][i + 1].offset
      BY <1>7, <3>1, Zenon
    <3>2. Before(m, l, o) /\ ~(o < job.offset)
      BY <1>0, <1>9, <3>a, <3>b, Zenon DEF Order
    <3>3. Before(m, l, o)'
      BY <2>3, <3>2, Zenon
    <3> QED
      BY <3>1, <3>3, Zenon DEF Before
  <2>9. Before(m, l, job.offset)'
    <3>1. Before(m, l, job.offset) /\ ~(job.offset < job.offset)
      BY <1>0, <1>2, <1>9, <2>4 DEF Order
    <3> QED
      BY <2>3, <3>1, Zenon
  <2>10. ASSUME NEW o \in 1 .. Len(topic), topic[o] = l, session[m].next <= o PROVE Before(m, l, o)'
    <3>1. ~(o < job.offset)
      BY <1>0, <2>4, <2>10
    <3> QED
      BY <1>0, <1>9, <2>3, <2>10, <3>1, Zenon DEF Order
  <2>11. ASSUME NEW i \in Current(m, l)', NEW j \in Current(m, l)', i < j
         PROVE  queue'[m][l][i].offset < queue'[m][l][j].offset
    <3>1. i + 1 < j + 1 /\ i + 1 \in Current(m, l) /\ j + 1 \in Current(m, l)
      BY <1>7, <2>11
    <3>2. queue[m][l][i + 1].offset < queue[m][l][j + 1].offset
      BY <1>0, <1>9, <3>1, Zenon DEF Order
    <3> QED
      BY <1>7, <3>2, Zenon
  <2>12. Order(m, l)'
    BY <1>1, <1>6, <2>1, <2>6, <2>7, <2>8, <2>9, <2>10, <2>11, Zenon DEF Order
  <2>13. Kept(m, l)
    BY <1>3, <1>6, <2>1, Zenon DEF Kept
  <2> QED
    BY <2>2, <2>12, <2>13, Zenon
<1> QED
  BY <1>8, <1>9, Zenon

\* A worker prints the job in its hand.
LEMMA PrintWorker ==
  ASSUME IInv, NEW m \in Members, NEW l \in Levels, printJob(m, l)
  PROVE  WorkerOK(m, l)' /\ Order(m, l)' /\ Kept(m, l)
<1>0. /\ WorkerOK(m, l) /\ Order(m, l) /\ Types
      /\ queue[m][l] \in Seq(Job) /\ hand[m][l] \in Seq(Job)
  BY Zenon DEF IInv, Types, JobInv, OrderInv
<1>1. /\ topic' = topic /\ committed' = committed /\ queue' = queue
      /\ hand[m][l] # <<>> /\ hand'[m][l] = <<>>
      /\ session'[m].id = session[m].id /\ session'[m].pc = session[m].pc
      /\ session'[m].live = session[m].live /\ session'[m].next = session[m].next
  BY <1>0 DEF Types, printJob, group, Mark
<1>2. PICK job \in Job : /\ job = hand[m][l][1] /\ Offsets(hand[m][l]) = {job.offset}
                        /\ printed'[m][l] = Append(printed[m][l], job.offset)
  <2>1. Len(hand[m][l]) = 1
    BY <1>0, <1>1, Zenon DEF WorkerOK
  <2>2. Offsets(hand[m][l]) = {hand[m][l][1].offset}
    BY <1>0, <2>1, OffsetsOne, Zenon
  <2>3. Head(hand[m][l]) \in Job /\ Head(hand[m][l]) = hand[m][l][1]
    BY <1>0, <1>1, OffsetsHead, Zenon
  <2>4. printed'[m][l] = Append(printed[m][l], Head(hand[m][l]).offset)
    BY <1>0, Zenon DEF Types, printJob
  <2> QED
    BY <2>2, <2>3, <2>4, Zenon
<1>3. job.offset \in 1 .. Len(topic) /\ topic[job.offset] = l
  BY <1>0, <1>1, <1>2, Zenon DEF WorkerOK, JobOK
<1>4. Printed(m, l)' = Printed(m, l) \cup {job.offset}
  <2>1. PICK o \in Nat : o = job.offset
    BY Zenon DEF Job
  <2>2. printed'[m][l] = Append(printed[m][l], o)
    BY <1>2, <2>1, Zenon
  <2>3. Printed(m, l)' = Printed(m, l) \cup {o}
    BY <1>0, <2>2, PrintedAppend
  <2> QED
    BY <2>1, <2>3, Zenon
<1>5. /\ Offsets(hand[m][l])' = {} /\ Offsets(queue[m][l])' = Offsets(queue[m][l])
      /\ Current(m, l)' = Current(m, l)
  <2>1. Offsets(hand[m][l])' = {}
    BY <1>1, OffsetsOne, Zenon
  <2>2. Offsets(queue[m][l])' = Offsets(queue[m][l])
    BY <1>1, Zenon
  <2>3. Current(m, l)' = Current(m, l)
    BY <1>1, Zenon DEF Current
  <2> QED
    BY <2>1, <2>2, <2>3, Zenon
<1>6. \A o : Before(m, l, o) => Before(m, l, o)'
  BY <1>2, <1>4, <1>5, Zenon DEF Before
<1>7. WorkerOK(m, l)'
  BY <1>0, <1>1, <1>3, <1>4 DEF WorkerOK, JobOK
<1>8. /\ \A o \in 1 .. Len(topic) : topic[o] = l /\ committed < o => Before(m, l, o)'
      /\ session[m].live =>
           /\ \A i \in Current(m, l) : Before(m, l, queue[m][l][i].offset)'
           /\ \A o \in 1 .. Len(topic) : topic[o] = l /\ session[m].next <= o => Before(m, l, o)'
  <2>1. session[m].live => \A i \in Current(m, l) : Before(m, l, queue[m][l][i].offset)'
    BY <1>0, <1>1, <1>2, <1>4, <1>5, Zenon DEF Order, Before
  <2> QED
    BY <1>0, <1>6, <2>1, Zenon DEF Order
<1>9. Order(m, l)'
  <2>1. session[m].live =>
          \A i, j \in Current(m, l) : i < j => queue[m][l][i].offset < queue[m][l][j].offset
    BY <1>0, Zenon DEF Order
  <2>2. session[m].live =>
          \A o \in 1 .. Len(topic) :
            topic[o] = l /\ committed < o /\ o < session[m].next =>
              \/ o \in Printed(m, l)' \cup Offsets(hand[m][l])'
              \/ \E i \in Current(m, l) : queue[m][l][i].offset = o
    BY <1>0, <1>2, <1>4, <1>5, Zenon DEF Order
  <2> HIDE DEF Before, Current, Printed, Offsets
  <2> QED
    BY <1>1, <1>5, <1>8, <2>1, <2>2 DEF Order
<1>10. Kept(m, l)
  BY <1>2, <1>3, <1>4, <1>5, Zenon DEF Kept
<1> QED
  BY <1>7, <1>9, <1>10, Zenon

\* A process dies with its jobs.
LEMMA CrashWorker ==
  ASSUME IInv, NEW m \in Members, NEW l \in Levels, Crash(m)
  PROVE  WorkerOK(m, l)' /\ Order(m, l)' /\ Kept(m, l)
<1>0. WorkerOK(m, l) /\ Order(m, l) /\ Types
  BY Zenon DEF IInv, JobInv, OrderInv
<1>1. /\ topic' = topic /\ committed' = committed /\ printed' = printed
      /\ queue'[m][l] = <<>> /\ hand'[m][l] = <<>> /\ ~session'[m].live
      /\ gone' = gone \cup Held(m)
  BY <1>0, Zenon DEF Types, Crash, group, NoJobs
<1>2. /\ Printed(m, l)' = Printed(m, l)
      /\ Offsets(hand[m][l])' = {} /\ Offsets(queue[m][l])' = {}
  BY <1>1, OffsetsOne DEF Printed
<1>3. WorkerOK(m, l)'
  BY <1>0, <1>1, <1>2 DEF WorkerOK
<1>4. \A o : Before(m, l, o) => Before(m, l, o)'
  BY <1>2, Zenon DEF Before
<1>5. Order(m, l)'
  BY <1>0, <1>1, <1>2, <1>4, Zenon DEF Order
<1>6. Kept(m, l)
  BY <1>1, <1>2, HeldBy, Zenon DEF Kept
<1> QED
  BY <1>3, <1>5, <1>6, Zenon

\* Nothing that was accounted for is forgotten.
LEMMA AccountStep ==
  ASSUME IInv, Types', Advances, gone \subseteq gone',
         \A m \in Members : \A l \in Levels : Kept(m, l),
         \/ committed' = committed
         \/ \E m \in Members : session[m].pc # "off" /\ committed' < session[m].next,
         \A m \in Members : session'[m].pc # "off" =>
           \A o \in 1 .. session'[m].next - 1 :
             \/ o \in 1 .. committed
             \/ session[m].pc # "off" /\ o < session[m].next
             \/ Accounted(o)'
  PROVE  AccountInv'
<1>0. /\ AccountInv /\ SessionInv /\ Len(topic) \in Nat /\ committed \in 0 .. Len(topic)
      /\ \A m \in Members : session[m].next \in Nat
      /\ committed' \in Nat
  BY DEF IInv, Types
<1>1. ASSUME NEW o \in 1 .. Len(topic), Accounted(o) PROVE Accounted(o)'
  <2>0. topic'[o] = topic[o]
    BY Zenon DEF Advances
  <2> SUFFICES ASSUME NEW k \in Levels, topic[o] = k
               PROVE  (\E m \in Members : o \in Printed(m, k)' \cup Held(m)') \/ o \in gone'
    BY <2>0, Zenon DEF Accounted
  <2>1. CASE o \in gone
    BY <2>1, Zenon
  <2>2. CASE \E m \in Members : o \in Printed(m, k)
    BY <2>2, Zenon DEF Kept
  <2>3. CASE \E m \in Members : o \in Held(m)
    <3>1. PICK m \in Members, l \in Levels : o \in Offsets(queue[m][l]) \cup Offsets(hand[m][l])
      BY <2>3, HeldBy, Zenon
    <3>2. \/ o \in Offsets(queue[m][l])' \cup Offsets(hand[m][l])' \cup gone'
          \/ o \in Printed(m, l)' /\ k = l
      BY <3>1 DEF Kept
    <3>3. o \in Offsets(queue[m][l])' \cup Offsets(hand[m][l])' => o \in Held(m)'
      BY Zenon DEF Held
    <3> QED
      BY <3>2, <3>3, Zenon
  <2> QED
    BY <1>1, <2>1, <2>2, <2>3, Zenon DEF Accounted
<1>2. \A m \in Members : session[m].pc # "off" =>
        \A o \in 1 .. session[m].next - 1 : o \in 1 .. Len(topic) /\ Accounted(o)
  <2>1. \A m \in Members : session[m].pc # "off" => session[m].next <= Len(topic) + 1
    BY <1>0, Zenon DEF SessionInv, SessionOK
  <2> QED
    BY <1>0, <2>1 DEF AccountInv
<1>3. \A o \in 1 .. committed : o \in 1 .. Len(topic) /\ Accounted(o)
  BY <1>0 DEF AccountInv
<1>4. ASSUME NEW o \in 1 .. committed' PROVE Accounted(o)'
  <2>1. CASE committed' = committed
    BY <1>1, <1>3, <2>1, Zenon
  <2>2. ASSUME NEW m \in Members, session[m].pc # "off", committed' < session[m].next
        PROVE  Accounted(o)'
    <3>1. o \in 1 .. session[m].next - 1
      BY <1>0, <2>2
    <3> QED
      BY <1>1, <1>2, <2>2, <3>1, Zenon
  <2> QED
    BY <2>1, <2>2, Zenon
<1>5. ASSUME NEW m \in Members, session'[m].pc # "off", NEW o \in 1 .. session'[m].next - 1
      PROVE  Accounted(o)'
  <2>1. CASE o \in 1 .. committed
    BY <1>1, <1>3, <2>1, Zenon
  <2>2. CASE session[m].pc # "off" /\ o < session[m].next
    <3>1. o \in 1 .. session[m].next - 1
      BY <1>0, <2>2
    <3> QED
      BY <1>1, <1>2, <2>2, <3>1, Zenon
  <2> QED
    BY <1>5, <2>1, <2>2, Zenon
<1> QED
  BY <1>4, <1>5, Zenon DEF AccountInv

\* A step of member m preserves the invariant when it does what it must for the
\* member's own session and workers.
LEMMA MemberStep ==
  ASSUME IInv, Types', SessionInv', Advances, gone \subseteq gone', NEW m \in Members,
         \A n \in Members \ {m} :
           /\ session'[n] = session[n] /\ queue'[n] = queue[n]
           /\ hand'[n] = hand[n] /\ printed'[n] = printed[n],
         \A l \in Levels : WorkerOK(m, l)' /\ Order(m, l)' /\ Kept(m, l),
         committed' = committed \/ (session[m].pc # "off" /\ committed' < session[m].next),
         session'[m].pc # "off" =>
           \A o \in 1 .. session'[m].next - 1 :
             \/ o \in 1 .. committed
             \/ session[m].pc # "off" /\ o < session[m].next
             \/ Accounted(o)'
  PROVE  IInv'
<1>1. ASSUME NEW n \in Members, NEW l \in Levels
      PROVE  WorkerOK(n, l)' /\ Order(n, l)' /\ Kept(n, l)
  <2>1. CASE n = m
    BY <2>1, Zenon
  <2>2. CASE n # m
    <3>1. /\ session'[n] = session[n] /\ queue'[n][l] = queue[n][l]
          /\ hand'[n][l] = hand[n][l] /\ printed'[n][l] = printed[n][l]
      BY <2>2, Zenon
    <3> QED
      BY <3>1, SameWorker, Zenon
  <2> QED
    BY <2>1, <2>2, Zenon
<1>2. ASSUME NEW n \in Members, session'[n].pc # "off", NEW o \in 1 .. session'[n].next - 1
      PROVE  \/ o \in 1 .. committed
             \/ session[n].pc # "off" /\ o < session[n].next
             \/ Accounted(o)'
  <2>1. CASE n = m
    BY <1>2, <2>1, Zenon
  <2>2. CASE n # m
    <3>1. session[n].next \in Nat /\ session'[n] = session[n]
      BY <2>2, Zenon DEF IInv, Types
    <3> QED
      BY <1>2, <3>1
  <2> QED
    BY <2>1, <2>2, Zenon
<1>3. AccountInv'
  BY <1>1, <1>2, AccountStep, Zenon
<1> QED
  BY <1>1, <1>3, Zenon DEF IInv, JobInv, OrderInv

LEMMA PublishStep ==
  ASSUME IInv, NEW k \in Kinds, Publish(k)
  PROVE  IInv'
<1>0. /\ UNCHANGED <<committed, owner, session, queue, hand, printed, gone>>
      /\ topic' = topic \/ topic' = Append(topic, k)
      /\ Types /\ SessionInv /\ Len(topic) \in Nat /\ committed \in 0 .. Len(topic)
      /\ \A m \in Members : session[m].next \in Nat
  BY DEF Publish, workers, IInv, Types
<1>1. /\ topic' \in Seq(Kinds) /\ Len(topic) <= Len(topic') /\ Len(topic') \in Nat
      /\ \A o \in 1 .. Len(topic) : topic'[o] = topic[o]
  <2>0. topic \in Seq(Kinds)
    BY <1>0, Zenon DEF Types
  <2>1. CASE topic' = topic
    BY <1>0, <2>0, <2>1
  <2>2. CASE topic' = Append(topic, k)
    <3>1. /\ Append(topic, k) \in Seq(Kinds) /\ Len(Append(topic, k)) = Len(topic) + 1
          /\ \A o \in 1 .. Len(topic) : Append(topic, k)[o] = topic[o]
      BY <2>0, AppendProperties
    <3> QED
      BY <1>0, <2>2, <3>1
  <2> QED
    BY <1>0, <2>1, <2>2, Zenon
<1>2. Types'
  BY <1>0, <1>1 DEF Types
<1>3. Advances
  BY <1>0, <1>1 DEF Advances
<1>4. ASSUME NEW m \in Members PROVE SessionOK(m)'
  <2>1. SessionOK(m) /\ session[m].next \in Nat /\ session[m].marked \in Nat
    BY <1>0, Zenon DEF SessionInv, Types
  <2>2. session[m].pc = "sending" =>
          session[m].next <= Len(topic') /\ topic'[session[m].next] \in Levels
    BY <1>0, <1>1, <2>1 DEF SessionOK
  <2> QED
    BY <1>0, <1>1, <2>1, <2>2 DEF SessionOK
<1>5. ASSUME NEW m \in Members, NEW l \in Levels
      PROVE  WorkerOK(m, l)' /\ Order(m, l)' /\ Kept(m, l)
  BY <1>0, <1>2, <1>3, SameWorker, Zenon
<1>6. ASSUME NEW m \in Members, session'[m].pc # "off", NEW o \in 1 .. session'[m].next - 1
      PROVE  session[m].pc # "off" /\ o < session[m].next
  BY <1>0, <1>6
<1>7. AccountInv'
  <2>1. gone \subseteq gone' /\ committed' = committed
    BY <1>0, Zenon
  <2> QED
    BY <1>2, <1>3, <1>5, <1>6, <2>1, AccountStep, Zenon
<1> QED
  BY <1>2, <1>4, <1>5, <1>7, Zenon DEF IInv, SessionInv, JobInv, OrderInv

LEMMA InvStep ==
  ASSUME IInv, Next
  PROVE  IInv'
<1>1. ASSUME NEW k \in Kinds, Publish(k) PROVE IInv'
  BY <1>1, PublishStep, Zenon
<1>2. ASSUME NEW m \in Members,
             \/ Consume(m) \/ Read(m) \/ Send(m) \/ Commit(m) \/ Expire(m) \/ Release(m) \/ Crash(m)
             \/ \E l \in Levels : Check(m, l) \/ printJob(m, l)
      PROVE  IInv'
  <2>0. /\ Types' /\ SessionInv' /\ Advances /\ Types /\ SessionOK(m) /\ Len(topic) \in Nat
        /\ committed \in 0 .. Len(topic) /\ session[m].next \in Nat /\ session[m].marked \in Nat
        /\ session[m].id \in Nat
    <3>1. Types' /\ SessionInv' /\ Advances
      BY <1>2, SessionStep, Zenon
    <3>2. Types /\ SessionOK(m)
      BY Zenon DEF IInv, SessionInv
    <3>3. /\ Len(topic) \in Nat /\ committed \in 0 .. Len(topic) /\ session[m].next \in Nat
          /\ session[m].marked \in Nat /\ session[m].id \in Nat
      BY <3>2 DEF Types
    <3> QED
      BY <3>1, <3>2, <3>3, Zenon
  <2> DEFINE Others == \A n \in Members \ {m} :
                         /\ session'[n] = session[n] /\ queue'[n] = queue[n]
                         /\ hand'[n] = hand[n] /\ printed'[n] = printed[n]
             Own == \A l \in Levels : WorkerOK(m, l)' /\ Order(m, l)' /\ Kept(m, l)
             Commits == committed' = committed \/ (session[m].pc # "off" /\ committed' < session[m].next)
             Passes == session'[m].pc # "off" =>
                         \A o \in 1 .. session'[m].next - 1 :
                           \/ o \in 1 .. committed
                           \/ session[m].pc # "off" /\ o < session[m].next
                           \/ Accounted(o)'
  <2>a. ASSUME Others, Own, Commits, Passes, gone \subseteq gone' PROVE IInv'
    BY <2>0, <2>a, MemberStep, Zenon
  <2>b. ASSUME session'[m].next = session[m].next, session'[m].pc # "off" => session[m].pc # "off"
        PROVE  Passes
    BY <2>0, <2>b
  <2> HIDE DEF Others, Own, Commits, Passes
  <2> USE DEF group, workers
  <2>1. CASE Consume(m)
    <3>1. Others
      BY <2>0, <2>1, Zenon DEF Consume, Types, Others
    <3>2. Own
      BY <2>1, ConsumeWorker, Zenon DEF Own
    <3>3. session'[m].next = committed + 1 /\ committed' = committed /\ gone' = gone
      BY <2>0, <2>1, Zenon DEF Consume, Types
    <3>4. Passes /\ Commits
      BY <2>0, <3>3 DEF Passes, Commits
    <3> QED
      BY <2>a, <3>1, <3>2, <3>3, <3>4, Zenon
  <2>2. CASE Read(m)
    <3>1. Others /\ UNCHANGED <<topic, committed, queue, hand, printed, gone>>
      BY <2>0, <2>2, Zenon DEF Read, Types, Others
    <3>2. /\ session'[m].id = session[m].id /\ session'[m].live = session[m].live
          /\ session'[m].pc # "off" /\ session[m].pc # "off" /\ session[m].next <= Len(topic)
          /\ \/ session'[m].next = session[m].next
             \/ session'[m].next = session[m].next + 1 /\ topic[session[m].next] \notin Levels
      <4>0. session[m].pc = "reading" /\ session[m].next <= Len(topic)
        BY <2>2, Zenon DEF Read
      <4>1. CASE session' = [session EXCEPT ![m].pc = "sending"]
        BY <2>0, <4>0, <4>1 DEF Types
      <4>2. CASE /\ topic[session[m].next] \notin Levels
                 /\ session' = [session EXCEPT ![m] =
                                  [Mark(session[m], session[m].next) EXCEPT !.next = @ + 1]]
        BY <2>0, <4>0, <4>2 DEF Types, Mark
      <4> QED
        BY <2>2, <4>1, <4>2, Zenon DEF Read
    <3>3. Own
      BY <2>0, <3>1, <3>2, SameWorker, Zenon DEF Own
    <3>4. ASSUME NEW o \in 1 .. session'[m].next - 1 PROVE o < session[m].next \/ Accounted(o)'
      <4>1. CASE session'[m].next = session[m].next
        BY <2>0, <4>1
      <4>2. CASE session'[m].next = session[m].next + 1 /\ topic[session[m].next] \notin Levels
        BY <2>0, <3>1, <4>2 DEF Accounted
      <4> QED
        BY <3>2, <4>1, <4>2, Zenon
    <3>5. Passes /\ Commits
      BY <3>1, <3>2, <3>4, Zenon DEF Passes, Commits
    <3> QED
      BY <2>a, <3>1, <3>3, <3>5, Zenon
  <2>3. CASE Send(m)
    <3>1. PICK l \in Levels : l = topic[session[m].next]
      BY <2>0, <2>3, Zenon DEF Send, SessionOK
    <3>2. /\ Others /\ UNCHANGED <<topic, committed, hand, printed, gone>>
          /\ \A k \in Levels \ {l} : queue'[m][k] = queue[m][k]
      <4>1. UNCHANGED <<topic, committed, hand, printed, gone>>
        BY <2>3, Zenon DEF Send
      <4>2. \A n \in Members \ {m} : session'[n] = session[n]
        BY <2>0, <2>3, Zenon DEF Send, Types
      <4>3. queue' = [queue EXCEPT ![m][l] =
                        Append(@, [offset |-> session[m].next, id |-> session[m].id])]
        BY <2>3, <3>1, Zenon DEF Send
      <4>4. /\ \A n \in Members \ {m} : queue'[n] = queue[n]
            /\ \A k \in Levels \ {l} : queue'[m][k] = queue[m][k]
        BY <2>0, <4>3, Zenon DEF Types
      <4> QED
        BY <4>1, <4>2, <4>4, Zenon DEF Others
    <3>3. /\ session'[m].id = session[m].id /\ session'[m].live = session[m].live
          /\ session'[m].pc # "off" /\ session[m].pc # "off" /\ session[m].next <= Len(topic)
          /\ session'[m].next = session[m].next + 1
      BY <2>0, <2>3 DEF Send, Types, SessionOK
    <3>4. /\ WorkerOK(m, l)' /\ Order(m, l)' /\ Kept(m, l)
          /\ session[m].next \in Offsets(queue[m][l])'
      BY <2>3, <3>1, SendWorker, Zenon
    <3>5. ASSUME NEW k \in Levels \ {l} PROVE WorkerOK(m, k)' /\ Order(m, k)' /\ Kept(m, k)
      BY <2>0, <3>1, <3>2, <3>3, SameWorker
    <3>6. Own
      BY <3>4, <3>5, Zenon DEF Own
    <3>7. ASSUME NEW o \in 1 .. session'[m].next - 1 PROVE o < session[m].next \/ Accounted(o)'
      <4>1. CASE o = session[m].next
        BY <3>4, <4>1 DEF Accounted, Held
      <4> QED
        BY <2>0, <3>3, <4>1
    <3>8. Passes /\ Commits
      BY <3>2, <3>3, <3>7, Zenon DEF Passes, Commits
    <3> QED
      BY <2>a, <3>2, <3>6, <3>8, Zenon
  <2>4. CASE Commit(m) \/ Expire(m) \/ Release(m)
    <3>1. Others /\ UNCHANGED <<topic, queue, hand, printed, gone>> /\ session[m].pc # "off"
      BY <2>0, <2>4, Zenon DEF Commit, Expire, Release, Types, Others
    <3>2. /\ session'[m].id = session[m].id /\ session'[m].next = session[m].next
          /\ session'[m].live => session[m].live
          /\ committed' = committed \/ committed' = session[m].marked
      <4>1. CASE Commit(m)
        BY <4>1, Zenon DEF Commit
      <4>2. CASE Expire(m)
        BY <2>0, <4>2 DEF Expire, Types
      <4>3. CASE Release(m)
        BY <2>0, <4>3 DEF Release, Types
      <4> QED
        BY <2>4, <4>1, <4>2, <4>3, Zenon
    <3>3. Own
      BY <2>0, <3>1, <3>2, SameWorker, Zenon DEF Own
    <3>4. Passes
      BY <2>b, <3>1, <3>2, Zenon
    <3>5. Commits
      BY <2>0, <3>1, <3>2, Zenon DEF Commits, SessionOK
    <3> QED
      BY <2>a, <3>1, <3>3, <3>4, <3>5, Zenon
  <2>5. CASE Crash(m)
    <3>1. Others /\ committed' = committed /\ gone \subseteq gone'
      BY <2>0, <2>5, Zenon DEF Crash, Types, Others
    <3>2. session'[m].next = session[m].next /\ session'[m].pc = "off"
      BY <2>0, <2>5 DEF Crash, Types
    <3>3. Own
      BY <2>5, CrashWorker, Zenon DEF Own
    <3> QED
      BY <2>a, <2>b, <3>1, <3>2, <3>3, Zenon DEF Commits
  <2>6. ASSUME NEW l \in Levels, Check(m, l) PROVE IInv'
    <3>1. /\ Others /\ UNCHANGED <<session, committed, printed>> /\ gone \subseteq gone'
          /\ \A k \in Levels \ {l} : queue'[m][k] = queue[m][k] /\ hand'[m][k] = hand[m][k]
      BY <2>0, <2>6 DEF Check, Types, Others
    <3>2. ASSUME NEW k \in Levels \ {l} PROVE WorkerOK(m, k)' /\ Order(m, k)' /\ Kept(m, k)
      BY <2>0, <3>1, SameWorker, Zenon
    <3>3. Own
      BY <2>6, <3>2, CheckWorker DEF Own
    <3> QED
      BY <2>a, <2>b, <3>1, <3>3, Zenon DEF Commits
  <2>7. ASSUME NEW l \in Levels, printJob(m, l) PROVE IInv'
    <3>1. /\ Others /\ UNCHANGED <<committed, queue, gone>>
          /\ \A k \in Levels \ {l} : hand'[m][k] = hand[m][k] /\ printed'[m][k] = printed[m][k]
      BY <2>0, <2>7 DEF printJob, Types, Others
    <3>2. /\ session'[m].id = session[m].id /\ session'[m].next = session[m].next
          /\ session'[m].live = session[m].live /\ session'[m].pc = session[m].pc
      BY <2>0, <2>7 DEF printJob, Types, Mark
    <3>3. ASSUME NEW k \in Levels \ {l} PROVE WorkerOK(m, k)' /\ Order(m, k)' /\ Kept(m, k)
      BY <2>0, <3>1, <3>2, SameWorker
    <3>4. Own
      BY <2>7, <3>3, PrintWorker DEF Own
    <3> QED
      BY <2>a, <2>b, <3>1, <3>2, <3>4, Zenon DEF Commits
  <2> QED
    BY <1>2, <2>1, <2>2, <2>3, <2>4, <2>5, <2>6, <2>7, Zenon
<1> QED
  BY <1>1, <1>2, Zenon DEF Next

LEMMA Stutter ==
  ASSUME IInv, UNCHANGED vars
  PROVE  IInv'
<1>1. /\ topic' = topic /\ committed' = committed /\ owner' = owner /\ session' = session
      /\ queue' = queue /\ hand' = hand /\ printed' = printed /\ gone' = gone
  BY Zenon DEF vars, group, workers
<1>2. Types'
  BY <1>1, Zenon DEF IInv, Types
<1>3. SessionInv'
  BY <1>1, Zenon DEF IInv, SessionInv, SessionOK
<1>a. Advances
  BY <1>1 DEF Advances, IInv, Types
<1>4. ASSUME NEW m \in Members, NEW l \in Levels PROVE WorkerOK(m, l)' /\ Order(m, l)'
  BY <1>1, <1>2, <1>a, SameWorker, Zenon
<1>5. \A m \in Members : Held(m)' = Held(m) /\ \A l \in Levels : Printed(m, l)' = Printed(m, l)
  BY <1>1 DEF Held, Offsets, Printed
<1>6. ASSUME NEW o \in Nat, Accounted(o) PROVE Accounted(o)'
  <2>1. CASE topic[o] \notin Levels
    BY <1>1, <2>1, Zenon DEF Accounted
  <2>2. ASSUME NEW k \in Levels, topic[o] = k PROVE Accounted(o)'
    BY <1>1, <1>5, <1>6, <2>2, Zenon DEF Accounted
  <2> QED
    BY <2>1, <2>2, Zenon
<1>7. AccountInv'
  BY <1>1, <1>6 DEF IInv, AccountInv, Types
<1> QED
  BY <1>2, <1>3, <1>4, <1>7, Zenon DEF IInv, JobInv, OrderInv

LEMMA Invariant == Spec => []IInv
<1>1. IInv /\ [Next]_vars => IInv'
  BY InvStep, Stutter, Zenon
<1> QED
  BY <1>1, InitInv, PTL DEF Spec

-----------------------------------------------------------------------------
\* Spec => []PassedIsPrintedOrLost: a record the committed offset has passed is
\* printed, is held by a process or its job was lost, whatever the order in which the
\* workers of the three levels mark it and however sessions expire and processes die.
THEOREM NothingPassedUnseen == Spec => []PassedIsPrintedOrLost
<1>1. IInv => PassedIsPrintedOrLost
  BY Zenon DEF IInv, AccountInv, Accounted, PassedIsPrintedOrLost
<1> QED
  BY <1>1, Invariant, PTL

\* Printing a record of a level keeps the order of the level.
LEMMA PrintedInOrder ==
  ASSUME NEW s \in Seq(Nat), NEW o \in Nat,
         \A j, k \in DOMAIN s : s[k] < s[j] => \E i \in 1 .. j - 1 : s[i] = s[k],
         \A j \in DOMAIN s : o < s[j] => \E i \in DOMAIN s : s[i] = o
  PROVE  LET t == Append(s, o)
         IN  \A j, k \in DOMAIN t : t[k] < t[j] => \E i \in 1 .. j - 1 : t[i] = t[k]
<1> DEFINE t == Append(s, o)
<1> SUFFICES ASSUME NEW j \in DOMAIN t, NEW k \in DOMAIN t, t[k] < t[j]
             PROVE  \E i \in 1 .. j - 1 : t[i] = t[k]
  BY Zenon
<1>1. /\ Len(s) \in Nat /\ DOMAIN s = 1 .. Len(s) /\ DOMAIN t = 1 .. Len(s) + 1
      /\ \A i \in 1 .. Len(s) : t[i] = s[i] /\ s[i] \in Nat
      /\ t[Len(s) + 1] = o
  BY AppendProperties
<1> HIDE DEF t
<1>2. CASE j \in 1 .. Len(s) /\ k \in 1 .. Len(s)
  <2>1. PICK i \in 1 .. j - 1 : s[i] = s[k]
    BY <1>1, <1>2, Zenon
  <2> QED
    BY <1>1, <1>2, <2>1
<1>3. CASE j \in 1 .. Len(s) /\ k = Len(s) + 1
  <2>1. PICK p \in DOMAIN s : s[p] = o
    BY <1>1, <1>3, Zenon
  <2>a. j \in DOMAIN s /\ s[p] < s[j]
    BY <1>1, <1>3, <2>1, Zenon
  <2>2. PICK i \in 1 .. j - 1 : s[i] = s[p]
    BY <2>a, Zenon
  <2> QED
    BY <1>1, <1>3, <2>1, <2>2
<1>4. CASE j = Len(s) + 1 /\ k \in 1 .. Len(s)
  BY <1>1, <1>4
<1>5. CASE j = Len(s) + 1 /\ k = Len(s) + 1
  BY <1>1, <1>5
<1> QED
  BY <1>1, <1>2, <1>3, <1>4, <1>5

\* Spec => []LevelInOrder: a process prints the events of a level in the order of the
\* partition, repeats aside, over all its sessions and whatever jobs of old sessions
\* its channels still hold.
THEOREM LevelsInOrder == Spec => []LevelInOrder
<1> DEFINE InOrder(s) == \A j, k \in DOMAIN s : s[k] < s[j] => \E i \in 1 .. j - 1 : s[i] = s[k]
<1>1. LevelInOrder <=> \A m \in Members : \A l \in Levels : InOrder(printed[m][l])
  BY DEF LevelInOrder, Printed
<1>2. Init => LevelInOrder
  BY DEF Init, NoJobs, LevelInOrder, Printed
<1>3. ASSUME IInv, LevelInOrder, Next PROVE LevelInOrder'
  <2>1. CASE printed' = printed
    BY <1>3, <2>1 DEF LevelInOrder, Printed
  <2>2. ASSUME NEW m \in Members, NEW l \in Levels, printJob(m, l) PROVE LevelInOrder'
    <3>1. /\ Types /\ Order(m, l) /\ WorkerOK(m, l) /\ hand[m][l] \in Seq(Job) /\ hand[m][l] # <<>>
          /\ printed[m][l] \in Seq(Nat)
      BY <1>3, <2>2, Zenon DEF IInv, Types, OrderInv, JobInv, printJob
    <3>2. PICK o \in Nat : o = Head(hand[m][l]).offset
      BY <3>1, OffsetsHead, Zenon DEF Job
    <3>3. Before(m, l, o)
      BY <3>1, <3>2, OffsetsHead, Zenon DEF Order
    <3>4. \A j \in DOMAIN printed[m][l] :
            o < printed[m][l][j] => \E i \in DOMAIN printed[m][l] : printed[m][l][i] = o
      BY <3>3, Zenon DEF Before, Printed
    <3>5. InOrder(printed[m][l])
      BY <1>1, <1>3, Zenon
    <3>6. InOrder(Append(printed[m][l], o))
      BY <3>1, <3>4, <3>5, PrintedInOrder, Zenon
    <3>7. /\ printed'[m][l] = Append(printed[m][l], o)
          /\ \A n \in Members : \A k \in Levels :
               (n = m /\ k = l) \/ printed'[n][k] = printed[n][k]
      BY <2>2, <3>1, <3>2, Zenon DEF printJob, Types
    <3> HIDE DEF InOrder
    <3>8. \A n \in Members : \A k \in Levels : InOrder(printed'[n][k])
      BY <1>1, <1>3, <3>6, <3>7, Zenon
    <3> USE DEF InOrder
    <3> QED
      BY <3>8 DEF LevelInOrder, Printed
  <2>3. printed' = printed \/ \E m \in Members : \E l \in Levels : printJob(m, l)
    BY <1>3, Zenon DEF Next, Publish, Consume, Read, Send, Commit, Expire, Release, Crash, Check, workers
  <2> QED
    BY <2>1, <2>2, <2>3, Zenon
<1>4. ASSUME LevelInOrder, UNCHANGED vars PROVE LevelInOrder'
  BY <1>4 DEF vars, workers, LevelInOrder, Printed
<1>5. IInv /\ LevelInOrder /\ [Next]_vars => LevelInOrder'
  BY <1>3, <1>4, Zenon
<1> QED
  BY <1>2, <1>5, Invariant, PTL DEF Spec
\* The bare handler makes no jobs.
BareInv ==
  build = "bare" =>
    /\ \A m \in Members : \A l \in Levels :
         queue[m][l] = <<>> /\ hand[m][l] = <<>> /\ printed[m][l] = <<>>
    /\ gone = {}

LEMMA BareHeld ==
  ASSUME BareInv, build = "bare", NEW m \in Members
  PROVE  Held(m) = {}
<1>1. \A l \in Levels : queue[m][l] = <<>> /\ hand[m][l] = <<>>
  BY Zenon DEF BareInv
<1>2. Offsets(<<>>) = {}
  BY DEF Offsets
<1>3. \A l \in Levels : Offsets(queue[m][l]) \cup Offsets(hand[m][l]) = {}
  BY <1>1, <1>2, Zenon
<1> QED
  BY <1>3, Zenon DEF Held

LEMMA BareStep == IInv /\ BareInv /\ [Next]_vars => BareInv'
<1> SUFFICES ASSUME IInv, BareInv, [Next]_vars, build' = "bare"
             PROVE  /\ \A m \in Members : \A l \in Levels :
                         queue'[m][l] = <<>> /\ hand'[m][l] = <<>> /\ printed'[m][l] = <<>>
                    /\ gone' = {}
  BY Zenon DEF BareInv
<1>1. build = "bare"
  BY Zenon DEF Next, Publish, Consume, Read, Send, Commit, Expire, Release, Crash, Check, printJob,
               group, vars
<1>2. /\ gone = {}
      /\ \A m \in Members : \A l \in Levels :
           queue[m][l] = <<>> /\ hand[m][l] = <<>> /\ printed[m][l] = <<>>
  BY <1>1, Zenon DEF BareInv
<1>3. CASE UNCHANGED workers
  BY <1>2, <1>3, Zenon DEF workers
<1>4. ASSUME NEW m \in Members, Crash(m)
      PROVE  /\ \A n \in Members : \A l \in Levels :
                  queue'[n][l] = <<>> /\ hand'[n][l] = <<>> /\ printed'[n][l] = <<>>
             /\ gone' = {}
  <2>1. gone' = {}
    BY <1>1, <1>2, <1>4, BareHeld DEF Crash
  <2>2. \A l \in Levels : NoJobs[l] = <<>>
    BY DEF NoJobs
  <2>3. queue \in [Members -> [Levels -> Seq(Job)]] /\ hand \in [Members -> [Levels -> Seq(Job)]]
    BY Zenon DEF IInv, Types
  <2>4. ASSUME NEW n \in Members
        PROVE  /\ queue'[n] = queue[n] \/ queue'[n] = NoJobs
               /\ hand'[n] = hand[n] \/ hand'[n] = NoJobs
    BY <1>4, <2>3, Zenon DEF Crash
  <2>5. printed' = printed
    BY <1>4, Zenon DEF Crash
  <2> QED
    BY <1>2, <2>1, <2>2, <2>4, <2>5, Zenon
<1>5. ASSUME NEW m \in Members, NEW l \in Levels, Check(m, l) \/ printJob(m, l) PROVE FALSE
  BY <1>2, <1>5, Zenon DEF Check, printJob
<1>6. ASSUME NEW m \in Members, Send(m) PROVE FALSE
  BY <1>1, <1>6, Zenon DEF Send
<1>7. CASE UNCHANGED vars
  BY <1>3, <1>7, Zenon DEF vars
<1>8. CASE Next
  BY <1>3, <1>4, <1>5, <1>6, <1>8, Zenon DEF Next, Publish, Consume, Read, Commit, Expire, Release
<1> QED
  BY <1>7, <1>8, Zenon

\* Spec => []BareHandlerStops: with the handler that Start makes nothing is printed, and
\* nothing of a known level is passed by the committed offset.
THEOREM BareNeverPasses == Spec => []BareHandlerStops
<1>1. Init => BareInv
  BY DEF Init, NoJobs, BareInv
<1>2. ASSUME IInv, BareInv PROVE BareHandlerStops
  <2> SUFFICES ASSUME build = "bare", NEW o \in 1 .. committed, topic[o] \in Levels
               PROVE  FALSE
    BY <1>2, Zenon DEF BareHandlerStops, BareInv
  <2>1. Accounted(o)
    BY <1>2, Zenon DEF IInv, AccountInv
  <2>2. \A m \in Members : Held(m) = {} /\ printed[m][topic[o]] = <<>>
    BY <1>2, BareHeld, Zenon DEF BareInv
  <2>3. \A m \in Members : Printed(m, topic[o]) = {}
    <3>1. DOMAIN <<>> = {}
      OBVIOUS
    <3> QED
      BY <2>2, <3>1, Zenon DEF Printed
  <2> QED
    BY <1>2, <2>1, <2>2, <2>3, Zenon DEF Accounted, BareInv
<1> QED
  BY <1>1, <1>2, BareStep, Invariant, PTL DEF Spec

\* Spec => CommitsAdvance: no commit takes the group back, whichever session it
\* comes from and in whatever order the workers marked.
THEOREM OffsetNeverBack == Spec => CommitsAdvance
<1>1. ASSUME IInv, [Next]_vars PROVE committed <= committed'
  <2>1. committed \in Nat
    BY <1>1 DEF IInv, Types
  <2>2. CASE UNCHANGED committed
    BY <2>1, <2>2
  <2>3. ASSUME NEW m \in Members, session[m].pc # "off", owner = {m}, committed' = session[m].marked
        PROVE  committed <= committed'
    BY <1>1, <2>3, Zenon DEF IInv, SessionInv, SessionOK
  <2>4. ASSUME NEW m \in Members, Commit(m) PROVE committed <= committed'
    BY <2>3, <2>4, Zenon DEF Commit
  <2>5. ASSUME NEW m \in Members, Release(m) PROVE committed <= committed'
    <3>1. session[m].pc # "off"
      BY <2>5 DEF Release
    <3> QED
      BY <2>2, <2>3, <2>5, <3>1, Zenon DEF Release
  <2>6. CASE UNCHANGED vars
    BY <2>2, <2>6, Zenon DEF vars, group
  <2>7. CASE Next
    BY <2>2, <2>4, <2>5, <2>7, Zenon
       DEF Next, Publish, Consume, Read, Send, Expire, Crash, Check, printJob, group
  <2> QED
    BY <1>1, <2>6, <2>7, Zenon
<1> QED
  BY <1>1, Invariant, PTL DEF Spec, CommitsAdvance

=============================================================================
