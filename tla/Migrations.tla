----------------------------- MODULE Migrations -----------------------------
(***************************************************************************)
(* Migrations at the start of a server.  message_service runs the files of *)
(* its directory with RunMigrations, each in a transaction of its own      *)
(* under one advisory lock, and skips those that are recorded.  naive-     *)
(* scale and single-instance call goose, which does the same without the   *)
(* lock: there only the statements themselves keep two servers apart.      *)
(* Servers start together, fail and start again, and are replaced one by   *)
(* one by builds whose directory has more files.                           *)
(*                                                                         *)
(* A migration is its place in the sorted directory.  Its statements       *)
(* create tables, as those of all three programs do: they wait for an open *)
(* transaction that has created the same table, and fail when the table is *)
(* there.                                                                  *)
(***************************************************************************)
EXTENDS Naturals

CONSTANTS
  Servers,        \* instances on one database
  Migrations,     \* number of files in the newest directory
  MaxFaults       \* bound: failed statements, lost answers and crashes

ASSUME MigrationsAssumption == Migrations \in Nat \ {0} /\ MaxFaults \in Nat

VARIABLES
  design,    \* "locked" (message_service) or "goose"
  recorded,  \* message_schema_migrations
  applied,   \* how often the statements of a migration are in the schema
  directory, \* how many of the files each server's build has
  at,        \* the migration each server has come to
  pc,        \* "begin", "locked", "apply", "record", "commit", "serving", "failed" or "collided"
  faults     \* failures so far

vars == <<design, recorded, applied, directory, at, pc, faults>>

Files == 1 .. Migrations
Fault == faults < MaxFaults /\ faults' = faults + 1

\* The transactions between pg_advisory_xact_lock and their end.
HoldsLock(s) == pc[s] \in {"locked", "apply", "record", "commit"}
Goto(s, l) == pc' = [pc EXCEPT ![s] = l]

-----------------------------------------------------------------------------
Init ==
  /\ design \in {"locked", "goose"}
  /\ recorded = {}
  /\ applied = [f \in Files |-> 0]
  /\ directory \in [Servers -> Files]
  /\ at = [s \in Servers |-> 1]
  /\ pc = [s \in Servers |-> "begin"]
  /\ faults = 0

\* Mutant: the lock is not taken.
LockNot(s) ==
  /\ pc[s] = "begin"
  /\ Goto(s, "locked")
  /\ UNCHANGED <<design, recorded, applied, directory, at, faults>>

\* Begin and pg_advisory_xact_lock: waits until no other transaction has it.
Lock(s) ==
  /\ pc[s] = "begin"
  /\ design = "locked" => \A t \in Servers : ~HoldsLock(t)
  /\ Goto(s, "locked")
  /\ UNCHANGED <<design, recorded, applied, directory, at, faults>>

\* The next file, or the end of RunMigrations.
Advance(s) ==
  /\ at' = [at EXCEPT ![s] = @ + 1]
  /\ Goto(s, IF at[s] = directory[s] THEN "serving" ELSE "begin")

\* Mutant: a recorded migration ends the run.
CheckStops(s) ==
  /\ pc[s] = "locked"
  /\ \/ at[s] \in recorded /\ Goto(s, "serving") /\ UNCHANGED at
     \/ at[s] \notin recorded /\ Goto(s, "apply") /\ UNCHANGED at
  /\ UNCHANGED <<design, recorded, applied, directory, faults>>

\* Mutant: after a recorded migration the directory is read again.
CheckLoops(s) ==
  /\ pc[s] = "locked"
  /\ \/ at[s] \in recorded /\ Goto(s, "begin") /\ at' = [at EXCEPT ![s] = 1]
     \/ at[s] \notin recorded /\ Goto(s, "apply") /\ UNCHANGED at
  /\ UNCHANGED <<design, recorded, applied, directory, faults>>

\* The table is there or is created; is the version recorded?  If so the commit
\* releases the lock.
Check(s) ==
  /\ pc[s] = "locked"
  /\ \/ at[s] \in recorded /\ Advance(s)
     \/ at[s] \notin recorded /\ Goto(s, "apply") /\ UNCHANGED at
  /\ UNCHANGED <<design, recorded, applied, directory, faults>>

\* Mutant: the statements run on the pool and not in the transaction.
ApplyOnPool(s) ==
  /\ pc[s] = "apply"
  /\ applied' = [applied EXCEPT ![at[s]] = @ + 1]
  /\ Goto(s, "record")
  /\ UNCHANGED <<design, recorded, directory, at, faults>>

\* The statements of the file.  A server that meets the tables of a migration it
\* found unrecorded ends.
Apply(s) ==
  /\ pc[s] = "apply"
  /\ \A t \in Servers : at[t] = at[s] => pc[t] \notin {"record", "commit"}
  /\ Goto(s, IF applied[at[s]] = 0 THEN "record" ELSE "collided")
  /\ UNCHANGED <<design, recorded, applied, directory, at, faults>>

\* The insert into message_schema_migrations, or goose_db_version.
Record(s) ==
  /\ pc[s] = "record"
  /\ Goto(s, "commit")
  /\ UNCHANGED <<design, recorded, applied, directory, at, faults>>

CommitTx(s) ==
  /\ recorded' = recorded \cup {at[s]}
  /\ applied' = [applied EXCEPT ![at[s]] = @ + 1]

Commit(s) ==
  /\ pc[s] = "commit"
  /\ CommitTx(s)
  /\ Advance(s)
  /\ UNCHANGED <<design, directory, faults>>

\* A statement fails or the server dies: the transaction is rolled back, and the
\* server does not come up.  The answer to a commit may be lost after the commit.
Fail(s) ==
  /\ pc[s] \notin {"failed", "collided", "serving"}
  /\ Fault
  /\ \/ UNCHANGED <<recorded, applied>>
     \/ pc[s] = "commit" /\ CommitTx(s)
  /\ Goto(s, "failed")
  /\ UNCHANGED <<design, directory, at>>

\* The server is started again.
Restart(s) ==
  /\ pc[s] \in {"failed", "collided"}
  /\ at' = [at EXCEPT ![s] = 1]
  /\ Goto(s, "begin")
  /\ UNCHANGED <<design, recorded, applied, directory, faults>>

\* The server is replaced by a build with more migrations.
Deploy(s) ==
  /\ pc[s] \in {"serving", "failed", "collided"}
  /\ \E n \in directory[s] + 1 .. Migrations : directory' = [directory EXCEPT ![s] = n]
  /\ at' = [at EXCEPT ![s] = 1]
  /\ Goto(s, "begin")
  /\ UNCHANGED <<design, recorded, applied, faults>>

Done == (\A s \in Servers : pc[s] = "serving") /\ UNCHANGED vars

Work(s) == Lock(s) \/ Check(s) \/ Apply(s) \/ Record(s) \/ Commit(s) \/ Restart(s)

Next == (\E s \in Servers : Work(s) \/ Fail(s) \/ Deploy(s)) \/ Done

Spec == Init /\ [][Next]_vars

\* Statements end, a failed server is restarted, and PostgreSQL grants the lock in
\* the order it was asked for.
Fairness == \A s \in Servers : SF_vars(Work(s))

FairSpec == Spec /\ Fairness

-----------------------------------------------------------------------------
TypeOK ==
  /\ design \in {"locked", "goose"}
  /\ recorded \subseteq Files
  /\ applied \in [Files -> Nat]
  /\ directory \in [Servers -> Files]
  /\ at \in [Servers -> 1 .. Migrations + 1]
  /\ pc \in [Servers -> {"begin", "locked", "apply", "record", "commit", "serving", "failed", "collided"}]
  /\ faults \in 0 .. MaxFaults

\* The schema and its record agree: a migration is applied once when it is recorded
\* and not at all otherwise, however many servers start at the same time and
\* wherever they fail.
AppliedOnce == \A f \in Files : applied[f] = IF f \in recorded THEN 1 ELSE 0

\* Migrations are applied in order, and a server that accepts connections has every
\* migration of its build, whatever older and newer builds start beside it.
InOrder ==
  /\ \A f \in recorded : 1 .. f \subseteq recorded
  /\ \A s \in Servers : pc[s] = "serving" => 1 .. directory[s] \subseteq recorded

\* With the advisory lock no server fails because another one starts beside it:
\* what applyMigration read of message_schema_migrations holds until its commit.
\* goose has no such promise, and its servers rely on being restarted.
NoCollision == design = "locked" => \A s \in Servers : pc[s] # "collided"

\* Every server comes up: they do not block each other on the lock or on a table,
\* and a server that collided finds the migration recorded when it starts again.
AllServe == \A s \in Servers : <>[](pc[s] = "serving")
=============================================================================
