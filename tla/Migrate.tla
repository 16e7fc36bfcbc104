------------------------------ MODULE Migrate ------------------------------
(***************************************************************************)
(* Schema migrations at start-up (store/migrate.go, Postgres): several     *)
(* coordinators may start against one database at once.  Each walks the    *)
(* sorted migration files; for a file schema_migrations does not list, one *)
(* transaction runs its statements and inserts its version, the primary    *)
(* key of that table.  A process whose Migrate fails exits (main.go).      *)
(***************************************************************************)
EXTENDS Integers, Sequences

CONSTANTS
  Processes,   \* coordinators that share the database
  NFiles       \* migration files, named 1..NFiles in sorted order

ASSUME MigrateAssumption == NFiles \in Nat

VARIABLES
  stage,      \* per process: "down", "check", "apply", "ready"; a user of this module adds more
  file,       \* per process: the file it is at
  applied     \* schema_migrations: the versions in the order they were committed

migrateVars == <<stage, file, applied>>

MigrateInit ==
  /\ stage = [p \in Processes |-> "down"]
  /\ file = [p \in Processes |-> 1]
  /\ applied = <<>>

Recorded(f) == \E i \in DOMAIN applied : applied[i] = f

\* The process starts and has connected: CREATE TABLE IF NOT EXISTS schema_migrations.
MigrateBegin(p) ==
  /\ stage[p] = "down"
  /\ stage' = [stage EXCEPT ![p] = "check"]
  /\ file' = [file EXCEPT ![p] = 1]
  /\ UNCHANGED applied

\* The first file from f on that schema_migrations does not list.
FirstMissing(f) ==
  CHOOSE g \in f..(NFiles + 1) :
    /\ g <= NFiles => ~Recorded(g)
    /\ \A h \in f..(g - 1) : Recorded(h)

\* SELECT EXISTS for one file after the other.  A version once recorded stays, so the files
\* that are skipped are taken in the step that reads the one that is not.
MigrateCheck(p) ==
  /\ stage[p] = "check"
  /\ file' = [file EXCEPT ![p] = FirstMissing(@)]
  /\ stage' = [stage EXCEPT ![p] = IF file'[p] <= NFiles THEN "apply" ELSE "ready"]
  /\ UNCHANGED applied

\* The transaction commits, unless the version was recorded since the check.
MigrateCommit(p) ==
  /\ stage[p] = "apply"
  /\ ~Recorded(file[p])
  /\ applied' = Append(applied, file[p])
  /\ file' = [file EXCEPT ![p] = @ + 1]
  /\ stage' = [stage EXCEPT ![p] = "check"]

\* Mutated: a failed transaction is logged and its file taken for done.
MigrateSkip(p) ==
  /\ stage[p] = "apply"
  /\ file' = [file EXCEPT ![p] = @ + 1]
  /\ stage' = [stage EXCEPT ![p] = "check"]
  /\ UNCHANGED applied

\* A statement of Migrate fails: it is rolled back and the process exits.
MigrateFail(p) ==
  /\ stage[p] \in {"check", "apply"}
  /\ stage' = [stage EXCEPT ![p] = "down"]
  /\ UNCHANGED <<file, applied>>

MigrateStep(p) == MigrateBegin(p) \/ MigrateCheck(p) \/ MigrateCommit(p) \/ MigrateFail(p)

\* The applied files are a prefix of the sorted ones, each run once, whoever ran them.
AppliedInOrder == Len(applied) <= NFiles /\ \A i \in DOMAIN applied : applied[i] = i
=============================================================================
