-------------------------- MODULE MigrationsProofs --------------------------
(***************************************************************************)
(* Proofs about Migrations, for any number of servers, files and failures. *)
(*                                                                         *)
(* A migration that a server found unrecorded may be recorded by another   *)
(* one before the first applies it.  What keeps the schema right is that a *)
(* transaction that has applied a migration is the only one that has       *)
(* (Exclusive), and that the lock, where there is one, covers the lookup.  *)
(***************************************************************************)
EXTENDS Migrations, TLAPS

Working(s) == pc[s] \in {"begin", "locked", "apply", "record", "commit"}
InTx(s) == pc[s] \in {"record", "commit"}

\* Every server has behind it only recorded migrations of its own directory.
PlacesInv ==
  \A s \in Servers :
    /\ \A f \in 1 .. at[s] - 1 : f \in recorded
    /\ Working(s) => at[s] <= directory[s]
    /\ pc[s] = "serving" => at[s] = directory[s] + 1

\* A transaction that has applied a migration is alone with it, and the migration is
\* not recorded before it commits.
Exclusive ==
  /\ \A s \in Servers : InTx(s) => at[s] \notin recorded
  /\ \A s, t \in Servers : InTx(s) /\ InTx(t) /\ at[s] = at[t] => s = t

\* With the advisory lock this holds from the lookup on.
LockInv ==
  design = "locked" =>
    /\ \A s, t \in Servers : HoldsLock(s) /\ HoldsLock(t) => s = t
    /\ \A s \in Servers : pc[s] = "apply" => at[s] \notin recorded

Prefix == \A f \in recorded : \A g \in 1 .. f : g \in recorded

IInv == TypeOK /\ AppliedOnce /\ NoCollision /\ Prefix /\ PlacesInv /\ Exclusive /\ LockInv

-----------------------------------------------------------------------------
\* The empty database satisfies the invariant.
LEMMA InitInv == Init => IInv
BY MigrationsAssumption DEF Init, IInv, TypeOK, AppliedOnce, NoCollision, Prefix, PlacesInv,
   Exclusive, LockInv, Files, Working, InTx, HoldsLock

\* A server at work is at a file, and what comes after it is a place too.
LEMMA PlaceTypes ==
  ASSUME TypeOK, PlacesInv, NEW s \in Servers, Working(s)
  PROVE  at[s] \in Files /\ directory[s] \in Files /\ at[s] + 1 \in 1 .. Migrations + 1
<1>1. at[s] \in 1 .. Migrations + 1 /\ directory[s] \in Files /\ at[s] <= directory[s]
  BY DEF TypeOK, PlacesInv
<1> QED
  BY <1>1, MigrationsAssumption DEF Files

\* Types are preserved by every step.
LEMMA TypeStep == TypeOK /\ PlacesInv /\ [Next]_vars => TypeOK'
<1> SUFFICES ASSUME TypeOK, PlacesInv, [Next]_vars PROVE TypeOK'
  OBVIOUS
<1> USE MigrationsAssumption
<1>1. CASE UNCHANGED vars
  BY <1>1 DEF vars, TypeOK
<1>2. ASSUME NEW s \in Servers, Lock(s) PROVE TypeOK'
  BY <1>2 DEF Lock, Goto, TypeOK
<1>3. ASSUME NEW s \in Servers, Check(s) PROVE TypeOK'
  <2>1. at[s] + 1 \in 1 .. Migrations + 1
    BY <1>3, PlaceTypes DEF Check, Working
  <2>2. CASE Advance(s)
    BY <1>3, <2>1, <2>2 DEF Check, Advance, Goto, TypeOK
  <2>3. CASE Goto(s, "apply") /\ UNCHANGED at
    BY <1>3, <2>3 DEF Check, Goto, TypeOK
  <2> QED
    BY <1>3, <2>2, <2>3 DEF Check
<1>4. ASSUME NEW s \in Servers, Apply(s) PROVE TypeOK'
  BY <1>4 DEF Apply, Goto, TypeOK
<1>5. ASSUME NEW s \in Servers, Record(s) PROVE TypeOK'
  BY <1>5 DEF Record, Goto, TypeOK
<1>6. ASSUME NEW s \in Servers, pc[s] = "commit", CommitTx(s)
      PROVE recorded' \subseteq Files /\ applied' \in [Files -> Nat]
  <2>1. at[s] \in Files
    BY <1>6, PlaceTypes DEF Working
  <2>2. applied[at[s]] + 1 \in Nat
    BY <2>1 DEF TypeOK
  <2> QED
    BY <1>6, <2>1, <2>2 DEF CommitTx, TypeOK
<1>7. ASSUME NEW s \in Servers, Commit(s) PROVE TypeOK'
  <2>1. at[s] + 1 \in 1 .. Migrations + 1
    BY <1>7, PlaceTypes DEF Commit, Working
  <2>2. recorded' \subseteq Files /\ applied' \in [Files -> Nat]
    BY <1>6, <1>7 DEF Commit
  <2> QED
    BY <1>7, <2>1, <2>2 DEF Commit, Advance, Goto, TypeOK
<1>8. ASSUME NEW s \in Servers, Fail(s) PROVE TypeOK'
  BY <1>6, <1>8 DEF Fail, Fault, Goto, TypeOK
<1>9. ASSUME NEW s \in Servers, Restart(s) PROVE TypeOK'
  BY <1>9 DEF Restart, Goto, TypeOK
<1>10. ASSUME NEW s \in Servers, Deploy(s) PROVE TypeOK'
  BY <1>10 DEF Deploy, Goto, TypeOK, Files
<1> QED
  BY <1>1, <1>2, <1>3, <1>4, <1>5, <1>7, <1>8, <1>9, <1>10 DEF Next, Work, Done

\* What a commit does to the record and the schema: one more migration is in both,
\* which comes right after those that are there.
LEMMA CommitEffect ==
  ASSUME IInv, NEW s \in Servers, pc[s] = "commit", CommitTx(s)
  PROVE  /\ at[s] \in Files /\ at[s] \notin recorded
         /\ recorded' = recorded \cup {at[s]}
         /\ AppliedOnce'
         /\ Prefix'
<1>1. at[s] \in Files /\ at[s] \notin recorded
  BY MigrationsAssumption DEF IInv, TypeOK, PlacesInv, Working, Exclusive, InTx, Files
<1>2. recorded' = recorded \cup {at[s]}
  BY DEF CommitTx
<1>3. AppliedOnce'
  BY <1>1, <1>2 DEF IInv, TypeOK, AppliedOnce, CommitTx
<1>4. Prefix'
  BY <1>1, <1>2 DEF IInv, TypeOK, Prefix, PlacesInv, Files
<1> QED
  BY <1>1, <1>2, <1>3, <1>4

\* A step of one server that commits nothing keeps the invariant.
LEMMA QuietStep ==
  ASSUME IInv, TypeOK', NEW s \in Servers,
         UNCHANGED <<recorded, applied>>,
         \/ Lock(s) \/ Check(s) \/ Apply(s) \/ Record(s) \/ Restart(s) \/ Fail(s) \/ Deploy(s)
  PROVE  IInv'
<1> USE DEF IInv
<1>1. AppliedOnce' /\ Prefix'
  BY DEF AppliedOnce, Prefix
<1>2. CASE Lock(s)
  BY <1>1, <1>2 DEF Lock, Goto, TypeOK, NoCollision, PlacesInv, Exclusive, LockInv, Working, InTx, HoldsLock
<1>3. CASE Check(s)
  <2>1. at[s] \in Files /\ directory[s] \in Files /\ at[s] <= directory[s]
    BY <1>3, PlaceTypes DEF Check, Working, PlacesInv
  <2>2. CASE at[s] \in recorded /\ Advance(s)
    <3>1. PlacesInv'
      BY <1>3, <2>1, <2>2 DEF Check, Advance, Goto, TypeOK, PlacesInv, Working, Files
    <3> QED
      BY <1>1, <1>3, <2>2, <3>1 DEF Check, Advance, Goto, TypeOK, NoCollision, Exclusive, LockInv, InTx, HoldsLock
  <2>3. CASE at[s] \notin recorded /\ Goto(s, "apply") /\ UNCHANGED at
    BY <1>1, <1>3, <2>3 DEF Check, Goto, TypeOK, NoCollision, PlacesInv, Exclusive, LockInv, Working, InTx, HoldsLock
  <2> QED
    BY <1>3, <2>2, <2>3 DEF Check
<1>4. CASE Apply(s)
  <2>1. applied[at[s]] = 0 <=> at[s] \notin recorded
    BY <1>4, MigrationsAssumption DEF Apply, AppliedOnce, TypeOK, PlacesInv, Working, Files
  <2>2. design = "locked" => at[s] \notin recorded
    BY <1>4 DEF Apply, LockInv
  <2> QED
    BY <1>1, <1>4, <2>1, <2>2 DEF Apply, Goto, TypeOK, NoCollision, PlacesInv, Exclusive, LockInv, Working, InTx, HoldsLock
<1>5. CASE Record(s)
  BY <1>1, <1>5 DEF Record, Goto, TypeOK, NoCollision, PlacesInv, Exclusive, LockInv, Working, InTx, HoldsLock
<1>6. CASE Restart(s)
  BY <1>1, <1>6 DEF Restart, Goto, TypeOK, NoCollision, PlacesInv, Exclusive, LockInv, Working, InTx, HoldsLock, Files
<1>7. CASE Fail(s)
  BY <1>1, <1>7 DEF Fail, Goto, TypeOK, NoCollision, PlacesInv, Exclusive, LockInv, Working, InTx, HoldsLock
<1>8. CASE Deploy(s)
  BY <1>1, <1>8 DEF Deploy, Goto, TypeOK, NoCollision, PlacesInv, Exclusive, LockInv, Working, InTx, HoldsLock, Files
<1> QED
  BY <1>2, <1>3, <1>4, <1>5, <1>6, <1>7, <1>8

\* A step of one server that commits a migration keeps the invariant: the server
\* goes on, or the answer is lost and it ends.
LEMMA CommitStep ==
  ASSUME IInv, TypeOK', NEW s \in Servers, pc[s] = "commit", CommitTx(s),
         Commit(s) \/ Fail(s)
  PROVE  IInv'
<1> USE DEF IInv
<1>1. /\ at[s] \in Files /\ at[s] \notin recorded
      /\ recorded' = recorded \cup {at[s]}
      /\ AppliedOnce' /\ Prefix'
  BY CommitEffect
<1>2. \A t \in Servers \ {s} : at'[t] = at[t] /\ pc'[t] = pc[t] /\ directory'[t] = directory[t]
  BY DEF Commit, Advance, Fail, Goto, TypeOK
<1>3. pc'[s] \in {"begin", "serving", "failed"} /\ design' = design /\ directory' = directory
  BY DEF Commit, Advance, Fail, Goto, TypeOK
<1>4. \A t \in Servers \ {s} : InTx(t) => at[t] # at[s]
  BY DEF Exclusive, InTx
<1>5. design = "locked" => \A t \in Servers \ {s} : ~HoldsLock(t)
  BY DEF LockInv, HoldsLock
<1>6. PlacesInv'
  <2>1. ASSUME NEW t \in Servers \ {s}
        PROVE  /\ \A f \in 1 .. at'[t] - 1 : f \in recorded'
               /\ Working(t)' => at'[t] <= directory'[t]
               /\ pc'[t] = "serving" => at'[t] = directory'[t] + 1
    BY <1>1, <1>2, <2>1 DEF PlacesInv, Working
  <2>2. CASE Commit(s)
    <3>1. /\ at'[s] = at[s] + 1
          /\ pc'[s] = IF at[s] = directory[s] THEN "serving" ELSE "begin"
          /\ directory' = directory
      BY <2>2 DEF Commit, Advance, Goto, TypeOK
    <3>2. at[s] \in Nat /\ directory[s] \in Nat /\ at[s] <= directory[s]
      BY <1>1 DEF TypeOK, PlacesInv, Working, Files
    <3>3. \A f \in 1 .. at'[s] - 1 : f \in recorded'
      BY <1>1, <3>1, <3>2 DEF PlacesInv
    <3>4. /\ Working(s)' => at'[s] <= directory'[s]
          /\ pc'[s] = "serving" => at'[s] = directory'[s] + 1
      BY <3>1, <3>2 DEF Working
    <3> QED
      BY <2>1, <3>3, <3>4 DEF PlacesInv
  <2>3. CASE Fail(s)
    BY <1>1, <2>1, <2>3 DEF Fail, Goto, TypeOK, PlacesInv, Working, Files
  <2> QED
    BY <2>2, <2>3
<1>7. Exclusive'
  BY <1>1, <1>2, <1>3, <1>4 DEF Exclusive, InTx
<1>8. LockInv' /\ NoCollision'
  BY <1>2, <1>3, <1>5 DEF LockInv, NoCollision, HoldsLock
<1> QED
  BY <1>1, <1>6, <1>7, <1>8

\* The invariant is inductive.
LEMMA InvStep == IInv /\ [Next]_vars => IInv'
<1> SUFFICES ASSUME IInv, [Next]_vars PROVE IInv'
  OBVIOUS
<1>1. TypeOK'
  BY TypeStep DEF IInv
<1>2. CASE UNCHANGED vars
  BY <1>2 DEF vars, IInv, TypeOK, AppliedOnce, NoCollision, Prefix, PlacesInv, Exclusive, LockInv,
     Working, InTx, HoldsLock
<1>3. ASSUME NEW s \in Servers, Work(s) \/ Fail(s) \/ Deploy(s) PROVE IInv'
  <2>1. CASE Commit(s)
    BY <1>1, <2>1, CommitStep DEF Commit
  <2>2. CASE Fail(s)
    BY <1>1, <2>2, CommitStep, QuietStep DEF Fail
  <2>3. CASE Lock(s) \/ Check(s) \/ Apply(s) \/ Record(s) \/ Restart(s) \/ Deploy(s)
    <3>1. UNCHANGED <<recorded, applied>>
      BY <2>3 DEF Lock, Check, Apply, Record, Restart, Deploy
    <3> QED
      BY <1>1, <2>3, <3>1, QuietStep
  <2> QED
    BY <1>3, <2>1, <2>2, <2>3 DEF Work
<1> QED
  BY <1>2, <1>3 DEF Next, Done

\* The invariant holds in every reachable state.
LEMMA InvAlways == Spec => []IInv
BY InitInv, InvStep, PTL DEF Spec

-----------------------------------------------------------------------------
\* A migration is in the schema once when it is recorded and not at all otherwise
\* (applyMigration records in the transaction that applies), with the lock and
\* without it.
THEOREM SchemaMatchesRecord == Spec => []AppliedOnce
BY InvAlways, PTL DEF IInv

\* With the advisory lock no server meets a table that another one has created since
\* it looked (pg_advisory_xact_lock before the lookup).
THEOREM LockExcludes == Spec => []NoCollision
BY InvAlways, PTL DEF IInv

\* Migrations are applied in order, and a server serves only when the schema has all
\* of its directory (RunMigrations returns before the server listens).
THEOREM ServesComplete == Spec => []InOrder
<1>1. IInv => InOrder
  <2> SUFFICES ASSUME IInv PROVE InOrder
    OBVIOUS
  <2>1. \A f \in recorded : 1 .. f \subseteq recorded
    BY DEF IInv, Prefix
  <2>2. ASSUME NEW s \in Servers, pc[s] = "serving" PROVE 1 .. directory[s] \subseteq recorded
    BY <2>2 DEF IInv, PlacesInv, TypeOK, Files
  <2> QED
    BY <2>1, <2>2 DEF InOrder
<1> QED
  BY <1>1, InvAlways, PTL
=============================================================================
