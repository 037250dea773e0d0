----------------------------- MODULE Migration ------------------------------
(***************************************************************************)
(* init (init.c), which every histx process runs before anything else: open *)
(* the file, create whatever table or index is missing, read the version of *)
(* the schema, and when it is an old one add the cwd column and record the  *)
(* new version.  Each statement commits by itself; several processes may be *)
(* starting at once, while others already use the file, and any of them may *)
(* be killed between two statements.                                        *)
(***************************************************************************)
EXTENDS Naturals, Sqlite

CONSTANT Legacy   \* what earlier programs may have created: sets of statements

VARIABLES
  created,    \* the statements of seq[] whose table or index exists
  cwd,        \* cmdraw has the column of migration 1
  version,    \* the rows of histxversion
  pc,         \* where each process is
  stmt        \* the statement of seq[] it is about to run

vars == <<lock, created, cwd, version, pc, stmt>>

\* The statements of seq[], in order; the last creates histxversion.
Creates == 1 .. 9
VersionTable == 9

THIS_VERSION == 1

ASSUME LegacyAssumption == Legacy \subseteq SUBSET (Creates \ {VersionTable})

WritePC == {"createCommit", "alterCommit", "markCommit"}
InitPC == {"create", "version", "alter", "mark"} \cup WritePC
PC == {"off", "ready"} \cup InitPC

TypeOK ==
  /\ lock \in [Proc -> Level]
  /\ created \subseteq Creates
  /\ cwd \in BOOLEAN
  /\ version \subseteq {THIS_VERSION}
  /\ pc \in [Proc -> PC]
  /\ stmt \in [Proc -> Creates]

\* The file is new, or was left by an earlier program that knew some of the
\* tables and no version, or was migrated before.
Init ==
  /\ LockInit
  /\ pc = [p \in Proc |-> "off"]
  /\ stmt = [p \in Proc |-> 1]
  /\ \/ created \in Legacy /\ cwd = FALSE /\ version = {}
     \/ created = Creates /\ cwd = TRUE /\ version = {THIS_VERSION}

-----------------------------------------------------------------------------
Goto(p, from, to) == pc[p] = from /\ pc' = [pc EXCEPT ![p] = to]

\* A write statement opens its transaction, and commits it.
Begin(p, from, to) == Goto(p, from, to) /\ MayReserve(p) /\ Take(p, "reserved")

Commit(p, from, to) == Goto(p, from, to) /\ MayCommit(p) /\ Release(p)

\* A statement of p could not open its transaction, or could not commit it.
Refused(p, begin, commit, to) ==
  /\ \/ Goto(p, begin, to) /\ ~MayReserve(p)
     \/ Goto(p, commit, to) /\ ~MayCommit(p)
  /\ Release(p)

Start(p) ==
  /\ Goto(p, "off", "create")
  /\ stmt' = [stmt EXCEPT ![p] = 1]
  /\ UNCHANGED <<lock, created, cwd, version>>

\* A bug: the loop over seq[] runs one statement too far.
AdvanceTooFar(p) ==
  IF stmt[p] \in Creates
  THEN pc' = [pc EXCEPT ![p] = "create"] /\ stmt' = [stmt EXCEPT ![p] = @ + 1]
  ELSE pc' = [pc EXCEPT ![p] = "version"] /\ UNCHANGED stmt

\* The loop over seq[] goes on, or is over.
Advance(p) ==
  IF stmt[p] + 1 \in Creates
  THEN pc' = [pc EXCEPT ![p] = "create"] /\ stmt' = [stmt EXCEPT ![p] = @ + 1]
  ELSE pc' = [pc EXCEPT ![p] = "version"] /\ UNCHANGED stmt

CreateExists(p) ==
  /\ pc[p] = "create"
  /\ stmt[p] \in created
  /\ MayRead(p)
  /\ Advance(p)
  /\ UNCHANGED <<lock, created, cwd, version>>

CreateBegin(p) ==
  /\ stmt[p] \notin created
  /\ Begin(p, "create", "createCommit")
  /\ UNCHANGED <<created, cwd, version, stmt>>

CreateCommit(p) ==
  /\ pc[p] = "createCommit"
  /\ MayCommit(p)
  /\ Release(p)
  /\ Advance(p)
  /\ created' = created \cup {stmt[p]}
  /\ UNCHANGED <<cwd, version>>

\* Bugs: the failure is printed and the next statement is tried; or this one is
\* tried again, until the lock is free.
CreateFailsGoOn(p) ==
  /\ pc[p] \in {"create", "createCommit"} /\ ~MayCommit(p)
  /\ Advance(p)
  /\ Release(p)
  /\ UNCHANGED <<created, cwd, version>>

CreateFailsRetries(p) ==
  /\ \/ Goto(p, "create", "create") /\ ~MayRead(p) /\ Release(p)
     \/ stmt[p] \notin created /\ Refused(p, "create", "createCommit", "create")
  /\ UNCHANGED <<created, cwd, version, stmt>>

\* init returns false, and main ends the process.
CreateFails(p) ==
  /\ \/ Goto(p, "create", "off") /\ ~MayRead(p) /\ Release(p)
     \/ stmt[p] \notin created /\ Refused(p, "create", "createCommit", "off")
  /\ UNCHANGED <<created, cwd, version, stmt>>

\* getdbversion: a version that cannot be read counts as 0.
GetVersion(p) ==
  /\ Goto(p, "version",
          IF MayRead(p) /\ THIS_VERSION \in version THEN "ready" ELSE "alter")
  /\ UNCHANGED <<lock, created, cwd, version, stmt>>

-----------------------------------------------------------------------------
(* migrate_1: the result of it, and of mark_version in it, is not looked at. *)

AlterBegin(p) ==
  /\ ~cwd
  /\ Begin(p, "alter", "alterCommit")
  /\ UNCHANGED <<created, cwd, version, stmt>>

\* A bug: a column that is already there is taken for a migration of one's own.
AlterExistsMarks(p) ==
  /\ Goto(p, "alter", "mark")
  /\ cwd
  /\ UNCHANGED <<lock, created, cwd, version, stmt>>

\* "duplicate column name"
AlterExists(p) ==
  /\ Goto(p, "alter", "ready")
  /\ cwd
  /\ UNCHANGED <<lock, created, cwd, version, stmt>>

AlterCommit(p) ==
  /\ Commit(p, "alterCommit", "mark")
  /\ cwd' = TRUE
  /\ UNCHANGED <<created, version, stmt>>

\* A bug: migrate_1 does not return when its statement fails.
AlterFailsMarks(p) ==
  /\ Refused(p, "alter", "alterCommit", "mark")
  /\ UNCHANGED <<created, cwd, version, stmt>>

AlterFails(p) ==
  /\ Refused(p, "alter", "alterCommit", "ready")
  /\ UNCHANGED <<created, cwd, version, stmt>>

\* The insert finds no row with its key: see OneMigrator.
MarkBegin(p) ==
  /\ Begin(p, "mark", "markCommit")
  /\ UNCHANGED <<created, cwd, version, stmt>>

MarkCommit(p) ==
  /\ Commit(p, "markCommit", "ready")
  /\ version' = version \cup {THIS_VERSION}
  /\ UNCHANGED <<created, cwd, stmt>>

MarkFails(p) ==
  /\ Refused(p, "mark", "markCommit", "ready")
  /\ UNCHANGED <<created, cwd, version, stmt>>

-----------------------------------------------------------------------------
(* What a started process then does with the file (module History), as far as *)
(* its locks disturb the others: it reads, it writes, and a purge that cannot *)
(* commit keeps its pending lock.                                             *)

Use(p) ==
  /\ pc[p] = "ready"
  /\ \/ lock[p] = "none" /\ MayRead(p) /\ Take(p, "shared")
     \/ lock[p] = "none" /\ MayReserve(p) /\ Take(p, "reserved")
     \/ lock[p] = "reserved" /\ ~MayCommit(p) /\ Take(p, "pending")
     \/ lock[p] \in {"shared", "pending"} /\ Release(p)
     \/ lock[p] = "reserved" /\ MayCommit(p) /\ Release(p)
  /\ UNCHANGED <<created, cwd, version, pc, stmt>>

\* A process ends, or is killed anywhere; an open transaction is rolled back.
Stop(p) ==
  /\ pc[p] # "off"
  /\ pc' = [pc EXCEPT ![p] = "off"]
  /\ Release(p)
  /\ UNCHANGED <<created, cwd, version, stmt>>

CreateStep(p) ==
  CreateExists(p) \/ CreateBegin(p) \/ CreateCommit(p) \/ CreateFails(p)

MigrateStep(p) ==
  \/ GetVersion(p)
  \/ AlterBegin(p) \/ AlterExists(p) \/ AlterCommit(p) \/ AlterFails(p)
  \/ MarkBegin(p) \/ MarkCommit(p) \/ MarkFails(p)

Next ==
  \E p \in Proc : Start(p) \/ CreateStep(p) \/ MigrateStep(p) \/ Use(p) \/ Stop(p)

Spec == Init /\ [][Next]_vars

\* A process that has begun init is scheduled until it is through.
FairSpec == Spec /\ \A p \in Proc : WF_vars(CreateStep(p) \/ MigrateStep(p))

-----------------------------------------------------------------------------
(* Properties. *)

\* The recorded version never runs ahead of the schema: wherever a process is
\* killed between the statements of migrate_1 (init.c:85, 91), a file that says
\* version 1 has every table and the cwd column that index, find and cat use.
VersionIsTrue ==
  version # {} => cwd /\ created = Creates

\* A process that is past init has all the tables, whoever created them and
\* whatever was refused to it on the way (init.c:119).
ReadyHasTables ==
  \A p \in Proc :
    pc[p] \in {"version", "alter", "alterCommit", "mark", "markCommit", "ready"}
      => created = Creates

\* However many processes find an old version at the same time, one of them
\* migrates: only one comes to record the version, and the row it inserts is
\* not there yet, so "insert into histxversion" cannot fail on its key.
OneMigrator ==
  \A p \in Proc :
    pc[p] \in {"mark", "markCommit"}
      => /\ cwd /\ version = {}
         /\ \A q \in Proc \ {p} : pc[q] \notin {"alterCommit", "mark", "markCommit"}

\* init is never stuck behind another histx: it ends, either way.
InitEnds == \A p \in Proc : pc[p] \in InitPC ~> pc[p] \in {"off", "ready"}

\* What init returning true stands for (main.c:171-172): the process can
\* index, for which cmdraw needs the cwd column.
ReadyCanIndex == \A p \in Proc : pc[p] = "ready" => cwd

=============================================================================
