---------------------------- MODULE OutboxRelay ----------------------------
(***************************************************************************)
(* The outbox relay of proper-scale: a loop that reads the oldest pending  *)
(* row of every room, publishes each to Kafka with retries and marks it    *)
(* published.  Several relays may run at once (a new container starts      *)
(* before the old one stopped), and nothing in the code excludes that.     *)
(*                                                                         *)
(* An entry <<r, n>> is the outbox row of room r with room_seq n.  Rows    *)
(* appear in the order of room_seq, which is what Store.Accept guarantees  *)
(* (CommitsInOrder and OutboxMatchesHistory of MessageStore).  created_at  *)
(* is the clock of the instance that accepted the message, so it need not  *)
(* grow with room_seq.                                                     *)
(***************************************************************************)
EXTENDS RoomTopic

CONSTANTS
  Relays,         \* relay processes
  BatchSize,      \* BATCH_SIZE
  MaxRetries,     \* MAX_RETRIES
  Stamps,         \* values of created_at
  Sizes,          \* sizes of events: "fits", or "large" for one Kafka refuses
  MaxFaults       \* bound: failures of Kafka, PostgreSQL and the relays

ASSUME ConfigAssumption ==
  /\ BatchSize \in Nat \ {0}
  /\ MaxRetries \in Nat \ {0}
  /\ Stamps \subseteq Nat
  /\ Sizes \subseteq {"fits", "large"}
  /\ MaxFaults \in Nat

VARIABLES
  rows,         \* message_outbox: the committed rows of each room, by room_seq
  published,    \* the entries with published_at set
  inflight,     \* produce requests whose answer the relay did not get and that
                \* the broker may still append
  pc,           \* "poll", "publish" or "mark"
  batch,        \* what is left of the entries the relay read
  attempt,      \* publishWithRetry's attempt
  faults        \* failures so far

relayVars == <<pc, batch, attempt>>
vars == <<rows, published, topic, inflight, relayVars, faults>>

Row == [created : Stamps, size : Sizes]
Entries == Rooms \X (Nat \ {0})

\* The rows of the table, those that no earlier pending row of their room precedes,
\* and those of them with published_at IS NULL.
Stored == UNION {{r} \X (1 .. Len(rows[r])) : r \in Rooms}
Follows(e) == \A n \in 1 .. e[2] - 1 : <<e[1], n>> \in published
\* Mutant: NextPending without NOT EXISTS.
HeadsAll == Stored \ published

Heads == {e \in Stored \ published : Follows(e)}

Created(e) == rows[e[1]][e[2]].created
Large(e) == rows[e[1]][e[2]].size = "large"

Append1(e) == topic' = [topic EXCEPT ![PartitionOf[e[1]]] = Append(@, e)]

-----------------------------------------------------------------------------
Init ==
  /\ rows = [r \in Rooms |-> <<>>]
  /\ published = {}
  /\ TopicInit
  /\ inflight = {}
  /\ pc = [k \in Relays |-> "poll"]
  /\ batch = [k \in Relays |-> <<>>]
  /\ attempt = [k \in Relays |-> 1]
  /\ faults = 0

\* Accept committed a message of room r (the environment of the relay).
Accepted(r) ==
  /\ Len(rows[r]) < MaxSeq
  /\ \E row \in Row : rows' = [rows EXCEPT ![r] = Append(@, row)]
  /\ UNCHANGED <<published, topic, inflight, relayVars, faults>>

\* b is a result of NextPending: heads in the order of created_at, at most
\* BatchSize of them.  ORDER BY breaks ties of created_at by room_id; here any
\* order of a tie is a result.
IsBatch(b) ==
  /\ \A i, j \in DOMAIN b : i < j => b[i] # b[j] /\ Created(b[i]) <= Created(b[j])
  /\ \A e \in Heads : \/ \E i \in DOMAIN b : b[i] = e
                      \/ /\ Len(b) = BatchSize
                         /\ \A i \in DOMAIN b : Created(b[i]) <= Created(e)

\* The next turn of Run: processBatch reads its batch.  When nothing is pending,
\* or the query fails, the relay sleeps and polls again.
Poll(k) ==
  /\ pc[k] = "poll"
  /\ \E size \in 1 .. BatchSize : \E b \in [1 .. size -> Heads] :
       /\ IsBatch(b)
       /\ batch' = [batch EXCEPT ![k] = b]
  /\ pc' = [pc EXCEPT ![k] = "publish"]
  /\ attempt' = [attempt EXCEPT ![k] = 1]
  /\ UNCHANGED <<rows, published, topic, inflight, faults>>

\* The for loop of processBatch goes on with the next entry, or ends.
NextEntry(k) ==
  /\ batch' = [batch EXCEPT ![k] = Tail(@)]
  /\ pc' = [pc EXCEPT ![k] = IF Len(batch[k]) = 1 THEN "poll" ELSE "publish"]
  /\ attempt' = [attempt EXCEPT ![k] = 1]

\* Publish returns no error: all in-sync replicas have the record.
Publish(k) ==
  /\ pc[k] = "publish"
  /\ ~Large(Head(batch[k]))
  /\ Append1(Head(batch[k]))
  /\ pc' = [pc EXCEPT ![k] = "mark"]
  /\ UNCHANGED <<rows, published, inflight, batch, attempt, faults>>

\* Mutant: the error is ignored and the row is marked.
RetryIgnored(k) ==
  /\ pc' = [pc EXCEPT ![k] = "mark"]
  /\ UNCHANGED <<batch, attempt>>

\* Mutant: the relay stays with the entry until it is published.
RetryForever(k) == UNCHANGED relayVars

\* Publish returned an error: after MaxRetries attempts publishWithRetry gives
\* the entry up, which stays pending.
Retry(k) ==
  \/ /\ attempt[k] < MaxRetries
     /\ attempt' = [attempt EXCEPT ![k] = @ + 1]
     /\ UNCHANGED <<pc, batch>>
  \/ /\ attempt[k] = MaxRetries
     /\ NextEntry(k)

\* An event beyond the size limit is refused, every time.
PublishRefused(k) ==
  /\ pc[k] = "publish"
  /\ Large(Head(batch[k]))
  /\ Retry(k)
  /\ UNCHANGED <<rows, published, topic, inflight, faults>>

Fault == faults < MaxFaults /\ faults' = faults + 1

\* The request the relay has sent for its current entry got lost, or it is still
\* on its way to the broker.
LostOrLate(k) ==
  \/ UNCHANGED inflight
  \/ ~Large(Head(batch[k])) /\ inflight' = inflight \cup {Head(batch[k])}

\* The broker cannot be reached, or its answer did not arrive in time.
PublishFails(k) ==
  /\ Fault
  /\ pc[k] = "publish"
  /\ LostOrLate(k)
  /\ Retry(k)
  /\ UNCHANGED <<rows, published, topic>>

\* The broker appends a request whose sender no longer waits for the answer.
LateAppend(e) ==
  /\ e \in inflight
  /\ Append1(e)
  /\ inflight' = inflight \ {e}
  /\ UNCHANGED <<rows, published, relayVars, faults>>

\* MarkPublished.  A row another relay has marked is "no longer pending": an
\* error that is logged, after which the loop goes on just the same.
Mark(k) ==
  /\ pc[k] = "mark"
  /\ published' = published \cup {Head(batch[k])}
  /\ NextEntry(k)
  /\ UNCHANGED <<rows, topic, inflight, faults>>

\* The update fails: the error is logged and the row stays pending.
MarkFails(k) ==
  /\ Fault
  /\ pc[k] = "mark"
  /\ NextEntry(k)
  /\ UNCHANGED <<rows, published, topic, inflight>>

\* The process dies and is started again, or stops on SIGTERM and is replaced.
Crash(k) ==
  /\ Fault
  /\ pc[k] # "poll"
  /\ IF pc[k] = "publish" THEN LostOrLate(k) ELSE UNCHANGED inflight
  /\ pc' = [pc EXCEPT ![k] = "poll"]
  /\ batch' = [batch EXCEPT ![k] = <<>>]
  /\ attempt' = [attempt EXCEPT ![k] = 1]
  /\ UNCHANGED <<rows, published, topic>>

Step(k) == Poll(k) \/ Publish(k) \/ PublishRefused(k) \/ Mark(k)

\* The steps of the relays and of the broker.
Work ==
  \/ \E k \in Relays : Step(k) \/ PublishFails(k) \/ MarkFails(k) \/ Crash(k)
  \/ \E e \in inflight : LateAppend(e)

Next == Work \/ \E r \in Rooms : Accepted(r)

Spec == Init /\ [][Next]_vars

\* A relay that is up goes on with its loop: PollInterval is finite, the retries
\* are bounded and the calls to Kafka and PostgreSQL have timeouts.
Fairness == \A k \in Relays : WF_vars(Step(k))

FairSpec == Spec /\ Fairness

-----------------------------------------------------------------------------
TypeOK ==
  /\ rows \in [Rooms -> Seq(Row)]
  /\ published \subseteq Stored
  /\ topic \in [Partitions -> Seq(Entries)]
  /\ inflight \subseteq Entries
  /\ pc \in [Relays -> {"poll", "publish", "mark"}]
  /\ batch \in [Relays -> Seq(Entries)]
  /\ attempt \in [Relays -> 1 .. MaxRetries]
  /\ faults \in 0 .. MaxFaults

\* A row is marked only once Kafka has it, whichever relay did either
\* (relay_test.go: "outbox row was marked before Kafka acknowledged it").
PublishedInKafka == \A e \in published : Has(e)

\* The topic may repeat a message, also after later ones of its room, but it never
\* has a message before the first copies of all earlier ones of the room: a reader
\* that drops what it has seen reads each room in the order of room_seq and
\* without a gap.  (NextPending returns a row only when all earlier rows of the
\* room are published; this holds with retries, crashes, requests that land late
\* and relays that overlap.)
FirstCopiesInOrder ==
  \A r \in Rooms : \A i \in 1 .. Len(Log(r)) :
    Log(r)[i][1] = r =>
      \A n \in 1 .. Log(r)[i][2] - 1 : \E j \in 1 .. i - 1 : Log(r)[j] = <<r, n>>

\* What is published of a room is a prefix of it: overlapping relays leave no
\* pending row behind a published one.
PublishedPrefix == \A e \in published : Follows(e)

\* What a relay works on, and what the broker may still append, is a stored row
\* all of whose predecessors are published, though it may itself be published by
\* now; and a relay that is about to mark an entry has it in the topic.
WorkInv ==
  /\ \A e \in inflight : e \in Stored /\ Follows(e)
  /\ \A k \in Relays : \A i \in 1 .. Len(batch[k]) :
       batch[k][i] \in Stored /\ Follows(batch[k][i])
  /\ \A k \in Relays : pc[k] # "poll" => Len(batch[k]) > 0
  /\ \A k \in Relays : pc[k] = "mark" => Has(Head(batch[k]))

\* The relays, however many, implement the ordered topic the consumers rely on.
ImplementsRoomTopic == TopicSpec

\* Nothing stops a room but an event of its own that Kafka refuses: once the
\* failures end, every row without a refused one before it in its room is
\* published.  A room that is stuck holds up no other, as long as the batch has
\* room for a row of every room.
EventuallyPublished ==
  []<>(\A r \in Rooms : \A n \in 1 .. Len(rows[r]) :
         (\A m \in 1 .. n : ~Large(<<r, m>>)) => <<r, n>> \in published)
=============================================================================
