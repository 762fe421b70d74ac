---------------------------- MODULE LogConsumer -----------------------------
(***************************************************************************)
(* log-prop: a publisher appends log events to a topic, and the members of *)
(* a consumer group print them.  ConsumeClaim passes the records of each   *)
(* known level to a channel; one worker per level prints them and marks    *)
(* them in the session they came from.  Marks are committed in the         *)
(* background and when a session is released.                              *)
(*                                                                         *)
(* The handler comes in two builds: "bare" is what Start makes, a struct   *)
(* with a decoder and nil channels; "pooled" is what                       *)
(* newConsumerGroupHandler makes, with channels and workers.  Start does   *)
(* not call newConsumerGroupHandler.                                       *)
(*                                                                         *)
(* One partition; its offsets count from 1.                                *)
(***************************************************************************)
EXTENDS Naturals, Sequences

CONSTANTS
  Members,     \* consumer processes
  Builds,      \* the handlers to look at: "bare", "pooled" or both
  Kinds,       \* kinds of records on the topic
  ChanSize,    \* capacity of infoCh, warnCh and errorCh
  MaxRecords,  \* bound: records
  MaxFaults    \* bound: lost records, ended sessions and crashes

Levels == {"information", "WARN", "ERROR"}

ASSUME LogAssumption ==
  /\ Builds \subseteq {"bare", "pooled"}
  /\ Kinds \subseteq Levels \cup {"other", "undecodable"}
  /\ ChanSize \in Nat \ {0}
  /\ MaxRecords \in Nat
  /\ MaxFaults \in Nat

VARIABLES
  build,      \* how the handler was made
  topic,      \* the kind of each record
  committed,  \* the committed offset of the group
  owner,      \* the members the partition is assigned to: one, or none yet
  session,    \* the session of each member
  queue,      \* the channels of each member: jobs that wait
  hand,       \* the job each worker is about to print: one or none
  printed,    \* the offsets each member printed, per level, in order
  gone,       \* offsets of jobs that were dropped or died with their process
  faults      \* failures so far

group == <<build, topic, committed, owner>>
workers == <<queue, hand, printed, gone>>
vars == <<group, session, workers, faults>>

\* pc: ConsumeClaim has returned, reads the next record or sends a job; live: the
\* context of the session is not cancelled; id tells a member's sessions apart.
Sessions == [pc : {"off", "reading", "sending"}, id : 0 .. MaxFaults + 1,
             live : BOOLEAN, next : Nat, marked : Nat]
Jobs == [offset : 1 .. MaxRecords, id : 0 .. MaxFaults + 1]

Fault == faults < MaxFaults /\ faults' = faults + 1
Larger(a, b) == IF a < b THEN b ELSE a
NoJobs == [l \in Levels |-> <<>>]

\* The offsets of the jobs a process has, in a channel or in the hand of a worker.
Offsets(jobs) == {jobs[i].offset : i \in DOMAIN jobs}
Held(m) == UNION {Offsets(queue[m][l]) \cup Offsets(hand[m][l]) : l \in Levels}

-----------------------------------------------------------------------------
Init ==
  /\ build \in Builds
  /\ topic = <<>>
  /\ committed = 0
  /\ owner = {}
  /\ session = [m \in Members |->
                  [pc |-> "off", id |-> 0, live |-> FALSE, next |-> 0, marked |-> 0]]
  /\ queue = [m \in Members |-> NoJobs]
  /\ hand = [m \in Members |-> NoJobs]
  /\ printed = [m \in Members |-> NoJobs]
  /\ gone = {}
  /\ faults = 0

\* Publish puts an event on the producer's input.  It reaches the topic, or the
\* error is logged and the event is gone.
Publish(k) ==
  /\ Len(topic) < MaxRecords
  /\ \/ topic' = Append(topic, k) /\ UNCHANGED faults
     \/ Fault /\ UNCHANGED topic
  /\ UNCHANGED <<build, committed, owner, session, workers>>

\* Consume joins the group and starts ConsumeClaim after the committed offset, with
\* the oldest record when there is none.  A member that gets the partition while its
\* owner still has a session means that the owner exceeded a timeout unnoticed.
Consume(m) ==
  /\ session[m].pc = "off"
  /\ \/ (\A o \in owner : session[o].pc = "off") /\ UNCHANGED faults
     \/ (\E o \in owner : session[o].pc # "off") /\ Fault
  /\ owner' = {m}
  /\ session' = [session EXCEPT ![m] = [pc |-> "reading", id |-> @.id + 1, live |-> TRUE,
                                        next |-> committed + 1, marked |-> committed]]
  /\ UNCHANGED <<build, topic, committed, workers>>

Mark(s, o) == [s EXCEPT !.marked = Larger(@, o)]

\* ConsumeClaim takes the next record, also one it has buffered when the context is
\* cancelled.  One it cannot decode or whose level it does not know is marked.
Read(m) ==
  LET s == session[m]
  IN  /\ s.pc = "reading"
      /\ s.next <= Len(topic)
      /\ \/ topic[s.next] \in Levels /\ session' = [session EXCEPT ![m].pc = "sending"]
         \/ /\ topic[s.next] \notin Levels
            /\ session' = [session EXCEPT ![m] = [Mark(s, s.next) EXCEPT !.next = @ + 1]]
      /\ UNCHANGED <<group, workers, faults>>

\* Mutant: the record is marked here, also when the channel is full and drops it.
SendOrMark(m) ==
  LET s == session[m]  l == topic[s.next]
  IN  /\ s.pc = "sending"
      /\ build = "pooled"
      /\ queue' = IF Len(queue[m][l]) < ChanSize
                  THEN [queue EXCEPT ![m][l] = Append(@, [offset |-> s.next, id |-> s.id])]
                  ELSE queue
      /\ session' = [session EXCEPT ![m] = [Mark(s, s.next) EXCEPT !.pc = "reading",
                                                                  !.next = @ + 1]]
      /\ UNCHANGED <<group, hand, printed, gone, faults>>

\* Mutant: a goroutine per record sends it, so that a later one can overtake.
SendOvertaking(m) ==
  LET s == session[m]  l == topic[s.next]
  IN  /\ s.pc = "sending"
      /\ build = "pooled"
      /\ Len(queue[m][l]) < ChanSize
      /\ queue' = [queue EXCEPT ![m][l] = <<[offset |-> s.next, id |-> s.id]>> \o @]
      /\ session' = [session EXCEPT ![m].pc = "reading", ![m].next = @ + 1]
      /\ UNCHANGED <<group, hand, printed, gone, faults>>

\* The job is sent to the channel of its level: waits while the channel is full, and
\* for ever when it is nil.
Send(m) ==
  LET s == session[m]  l == topic[s.next]
  IN  /\ s.pc = "sending"
      /\ build = "pooled"
      /\ Len(queue[m][l]) < ChanSize
      /\ queue' = [queue EXCEPT ![m][l] = Append(@, [offset |-> s.next, id |-> s.id])]
      /\ session' = [session EXCEPT ![m].pc = "reading", ![m].next = @ + 1]
      /\ UNCHANGED <<group, hand, printed, gone, faults>>

\* Mutant: a worker returns when it meets a job of an expired session.
CheckReturns(m, l) ==
  /\ queue[m][l] # <<>>
  /\ hand[m][l] = <<>>
  /\ session[m].id = Head(queue[m][l]).id /\ session[m].live
  /\ hand' = [hand EXCEPT ![m][l] = <<Head(queue[m][l])>>]
  /\ queue' = [queue EXCEPT ![m][l] = Tail(@)]
  /\ UNCHANGED <<group, session, printed, gone, faults>>

\* handleInfo, handleWarn and handleError take a job and look at its session: one
\* that has expired "will be redelivered".
Check(m, l) ==
  /\ queue[m][l] # <<>>
  /\ hand[m][l] = <<>>
  /\ LET job == Head(queue[m][l])
     IN  \/ /\ session[m].id = job.id /\ session[m].live
            /\ hand' = [hand EXCEPT ![m][l] = <<job>>]
            /\ UNCHANGED gone
         \/ /\ ~(session[m].id = job.id /\ session[m].live)
            /\ gone' = gone \cup {job.offset}
            /\ UNCHANGED hand
  /\ queue' = [queue EXCEPT ![m][l] = Tail(@)]
  /\ UNCHANGED <<group, session, printed, faults>>

\* Mutant: the job is not marked.
printJobOnly(m, l) ==
  /\ hand[m][l] # <<>>
  /\ printed' = [printed EXCEPT ![m][l] = Append(@, Head(hand[m][l]).offset)]
  /\ hand' = [hand EXCEPT ![m][l] = <<>>]
  /\ UNCHANGED <<group, session, queue, gone, faults>>

\* The worker prints the event and marks it.  A mark in a session that has been
\* released does nothing.
printJob(m, l) ==
  /\ hand[m][l] # <<>>
  /\ LET job == Head(hand[m][l])
     IN  /\ printed' = [printed EXCEPT ![m][l] = Append(@, job.offset)]
         /\ session' = [session EXCEPT ![m] = IF @.id = job.id /\ @.pc # "off"
                                              THEN Mark(@, job.offset) ELSE @]
  /\ hand' = [hand EXCEPT ![m][l] = <<>>]
  /\ UNCHANGED <<group, queue, gone, faults>>

\* The offset manager commits what is marked; the coordinator accepts it from the
\* owner only.
Commit(m) ==
  /\ session[m].pc # "off"
  /\ owner = {m}
  /\ session[m].marked # committed
  /\ committed' = session[m].marked
  /\ UNCHANGED <<build, topic, owner, session, workers, faults>>

\* A rebalance, a lost heartbeat or a signal cancels the context of the session.
Expire(m) ==
  /\ session[m].pc # "off"
  /\ session[m].live
  /\ Fault
  /\ session' = [session EXCEPT ![m].live = FALSE]
  /\ UNCHANGED <<group, workers>>

\* The claim's channel is closed and ConsumeClaim returns: the session is released,
\* with a last commit that may fail.
Release(m) ==
  /\ session[m].pc = "reading"
  /\ ~session[m].live
  /\ session' = [session EXCEPT ![m].pc = "off"]
  /\ \/ owner = {m} /\ committed' = session[m].marked
     \/ UNCHANGED committed
  /\ UNCHANGED <<build, topic, owner, workers, faults>>

\* The process dies, with its jobs; another one takes its place.
Crash(m) ==
  /\ session[m].pc # "off"
  /\ Fault
  /\ session' = [session EXCEPT ![m].pc = "off", ![m].live = FALSE]
  /\ queue' = [queue EXCEPT ![m] = NoJobs]
  /\ hand' = [hand EXCEPT ![m] = NoJobs]
  /\ gone' = gone \cup Held(m)
  /\ UNCHANGED <<group, printed>>

Next ==
  \/ \E k \in Kinds : Publish(k)
  \/ \E m \in Members :
       \/ Consume(m) \/ Read(m) \/ Send(m) \/ Commit(m)
       \/ Expire(m) \/ Release(m) \/ Crash(m)
       \/ \E l \in Levels : Check(m, l) \/ printJob(m, l)

Spec == Init /\ [][Next]_vars

\* The group assigns a partition nobody reads, goroutines that can run do, and marks
\* are committed.
Fairness ==
  /\ WF_vars(\E m \in Members : UNCHANGED faults /\ Consume(m))
  /\ \A m \in Members :
       /\ WF_vars(Read(m))
       /\ WF_vars(Send(m))
       /\ WF_vars(Commit(m))
       /\ WF_vars(Release(m))
       /\ \A l \in Levels : WF_vars(Check(m, l)) /\ WF_vars(printJob(m, l))

FairSpec == Spec /\ Fairness

-----------------------------------------------------------------------------
TypeOK ==
  /\ build \in Builds
  /\ topic \in Seq(Kinds)
  /\ committed \in 0 .. Len(topic)
  /\ owner \subseteq Members
  /\ session \in [Members -> Sessions]
  /\ queue \in [Members -> [Levels -> Seq(Jobs)]]
  /\ hand \in [Members -> [Levels -> Seq(Jobs)]]
  /\ printed \in [Members -> [Levels -> Seq(1 .. MaxRecords)]]
  /\ gone \subseteq 1 .. MaxRecords
  /\ faults \in 0 .. MaxFaults

Printed(m, l) == {printed[m][l][i] : i \in DOMAIN printed[m][l]}

\* Three workers mark one partition in any order, so that the committed offset can
\* pass records that are still queued.  A record it has passed is printed, is held by
\* a process, or its job was lost: dropped as expired, whatever the log says about
\* redelivery, or gone in a crash.  The bare handler holds and loses nothing, so that
\* its commits never pass a record of a known level.
PassedIsPrintedOrLost ==
  \A o \in 1 .. committed : topic[o] \in Levels =>
    \/ \E m \in Members : o \in Printed(m, topic[o]) \cup Held(m)
    \/ o \in gone

\* A process prints the events of a level in the order of the partition, repeats
\* aside, over all its sessions and with jobs of old sessions in its channels: before
\* an event it has printed the earlier ones that it prints at all.
LevelInOrder ==
  \A m \in Members : \A l \in Levels :
    \A j \in DOMAIN printed[m][l] : \A o \in Printed(m, l) :
      o < printed[m][l][j] => \E i \in 1 .. j - 1 : printed[m][l][i] = o

\* With the handler that Start makes no event is ever printed, and the group never
\* commits past the first record of a known level: a handler with channels, once
\* deployed, finds all of them still to be read.
BareHandlerStops ==
  build = "bare" =>
    /\ \A m \in Members : \A l \in Levels : printed[m][l] = <<>>
    /\ \A o \in 1 .. committed : topic[o] \notin Levels

\* The committed offset never goes back, though sessions of two members overlap, jobs
\* of old sessions are marked late and the workers mark in any order.
CommitsAdvance == [][committed <= committed']_vars

\* ConsumeClaim waits on a nil channel: Start made the handler without channels.
BlockedForEver(m) == build = "bare" /\ session[m].pc = "sending"

\* The group always catches up with the topic, whatever sessions expire, unless
\* ConsumeClaim blocks on a nil channel.
CatchesUpUnlessBlocked ==
  []<>(committed = Len(topic) \/ \E m \in Members : BlockedForEver(m))

\* "Consume in background, restarting on rebalance" (Start): an expired session is
\* released though ConsumeClaim may wait on a full channel, because the workers go on
\* emptying it.  Only a nil channel keeps it.
RestartsUnlessBlocked ==
  \A m \in Members :
    (session[m].pc # "off" /\ ~session[m].live)
      ~> (session[m].pc = "off" \/ BlockedForEver(m))
=============================================================================
