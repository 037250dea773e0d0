-------------------------- MODULE MigrationProofs ---------------------------
(* Theorems about Migration, for any number of processes starting at once    *)
(* and any file an earlier program may have left.                            *)
EXTENDS Migration, TLAPS

\* Locks follow the place in init, and there is one writer.
LockOK ==
  \A p \in Proc :
    /\ pc[p] \in WritePC => lock[p] = "reserved"
    /\ pc[p] \notin WritePC \cup {"ready"} => lock[p] = "none"
    /\ Writing(p) => MayReserve(p)

\* The loop over seq[] leaves nothing out.
PastCreate == {"version", "alter", "alterCommit", "mark", "markCommit", "ready"}

CreatedOK ==
  \A p \in Proc :
    /\ pc[p] \in {"create", "createCommit"} => \A i \in Creates : i < stmt[p] => i \in created
    /\ pc[p] \in PastCreate => created = Creates

\* What the column and the version row say about each other and the migrator.
MigratedOK ==
  /\ version # {} => cwd
  /\ cwd => created = Creates
  /\ \A p \in Proc :
       /\ pc[p] = "alterCommit" => ~cwd
       /\ pc[p] \in {"mark", "markCommit"} => cwd /\ version = {}
  /\ \A p, q \in Proc : pc[p] \in {"mark", "markCommit"} /\ q # p
                          => pc[q] \notin {"mark", "markCommit"}

Inv == TypeOK /\ LockOK /\ CreatedOK /\ MigratedOK

\* A file of any age, and nobody started yet.
LEMMA InitInv == Init => Inv
<1>. SUFFICES ASSUME Init PROVE Inv
  OBVIOUS
<1>. USE DEF Init, LockInit
<1>1. TypeOK
  <2>1. created \subseteq Creates
    BY LegacyAssumption
  <2>2. cwd \in BOOLEAN /\ version \subseteq {THIS_VERSION}
    OBVIOUS
  <2>3. stmt \in [Proc -> Creates]
    BY DEF Creates
  <2>. QED
    BY <2>1, <2>2, <2>3 DEF TypeOK, Level, PC
<1>2. LockOK
  BY DEF LockOK, Writing, WritePC
<1>3. CreatedOK
  BY DEF CreatedOK, PastCreate
<1>4. MigratedOK
  BY DEF MigratedOK
<1>. QED
  BY <1>1, <1>2, <1>3, <1>4 DEF Inv

\* The loop over seq[].
LEMMA CreateInv ==
  ASSUME Inv, NEW p \in Proc, CreateStep(p)
  PROVE  Inv'
<1>. USE DEF Inv
<1>0. /\ \E from, to \in PC : Goto(p, from, to) /\ from \in {"create", "createCommit"}
                                /\ to \in {"create", "createCommit", "version", "off"}
      /\ UNCHANGED <<cwd, version>>
  BY DEF CreateStep, CreateExists, CreateBegin, CreateCommit, CreateFails, Refused, Begin,
         Advance, Goto, PC, InitPC, WritePC
<1>1. lock' \in [Proc -> Level] /\ stmt' \in [Proc -> Creates] /\ created' \subseteq Creates
  BY DEF CreateStep, CreateExists, CreateBegin, CreateCommit, CreateFails, Refused, Begin,
         Advance, Take, Release, TypeOK, Level
<1>2. TypeOK'
  BY <1>0, <1>1 DEF TypeOK, Goto
<1>3. LockOK'
  BY DEF CreateStep, CreateExists, CreateBegin, CreateCommit, CreateFails, Refused, Begin,
         Advance, Goto, Take, Release, TypeOK, LockOK, WritePC, Writing, MayReserve
<1>4. created \subseteq created'
  BY DEF CreateStep, CreateExists, CreateBegin, CreateCommit, CreateFails
<1>5. CreatedOK'
  <2>. SUFFICES ASSUME NEW q \in Proc
                PROVE  /\ pc'[q] \in {"create", "createCommit"}
                            => \A i \in Creates : i < stmt'[q] => i \in created'
                       /\ pc'[q] \in PastCreate => created' = Creates
    BY DEF CreatedOK
  <2>1. CASE q # p
    <3>1. pc'[q] = pc[q] /\ stmt'[q] = stmt[q]
      BY <2>1, <1>0 DEF CreateStep, CreateExists, CreateBegin, CreateCommit, CreateFails,
                        Advance, Goto, TypeOK
    <3>. QED
      BY <3>1, <1>1, <1>4 DEF CreatedOK
  <2>2. CASE q = p /\ (CreateBegin(p) \/ CreateFails(p))
    BY <2>2 DEF CreateBegin, CreateFails, Refused, Begin, Goto, CreatedOK, PastCreate, TypeOK
  <2>3. CASE q = p /\ (CreateExists(p) \/ CreateCommit(p))
    <3>1. stmt[p] \in created' /\ Advance(p) /\ pc[p] \in {"create", "createCommit"}
      BY <2>3 DEF CreateExists, CreateCommit
    <3>2. \A i \in Creates : i <= stmt[p] => i \in created'
      BY <3>1, <1>4 DEF CreatedOK, TypeOK, Creates
    <3>3. CASE stmt[p] + 1 \in Creates
      BY <2>3, <3>1, <3>2, <3>3 DEF Advance, TypeOK, Creates, PastCreate
    <3>4. CASE stmt[p] + 1 \notin Creates
      <4>0. stmt[p] \in Creates
        BY DEF TypeOK
      <4>1. \A i \in Creates : i <= stmt[p]
        BY <3>4, <4>0 DEF Creates
      <4>2. created' = Creates
        BY <3>2, <4>1, <1>1
      <4>. QED
        BY <2>3, <3>1, <3>4, <4>2 DEF Advance, TypeOK
    <3>. QED
      BY <3>3, <3>4
  <2>. QED
    BY <2>1, <2>2, <2>3 DEF CreateStep
<1>6. MigratedOK'
  BY <1>0, <1>1, <1>4 DEF MigratedOK, Goto, TypeOK
<1>. QED
  BY <1>2, <1>3, <1>5, <1>6 DEF Inv

\* Reading the version, and migrate_1.
LEMMA MigrateInv ==
  ASSUME Inv, NEW p \in Proc, MigrateStep(p)
  PROVE  Inv'
<1>. USE DEF Inv
<1>0. /\ \E from \in PastCreate, to \in PastCreate : Goto(p, from, to)
      /\ UNCHANGED <<created, stmt>>
  BY DEF MigrateStep, GetVersion, AlterBegin, AlterExists, AlterCommit, AlterFails, MarkBegin,
         MarkCommit, MarkFails, Refused, Begin, Commit, Goto, PastCreate
<1>1. PastCreate \subseteq PC
  BY DEF PastCreate, PC, InitPC, WritePC
<1>2. /\ lock' \in [Proc -> Level] /\ cwd' \in BOOLEAN
      /\ version' \subseteq {THIS_VERSION}
  BY DEF MigrateStep, GetVersion, AlterBegin, AlterExists, AlterCommit, AlterFails, MarkBegin,
         MarkCommit, MarkFails, Refused, Begin, Commit, Take, Release, TypeOK, Level
<1>3. TypeOK'
  BY <1>0, <1>1, <1>2 DEF TypeOK, Goto
<1>4. LockOK'
  BY DEF MigrateStep, GetVersion, AlterBegin, AlterExists, AlterCommit, AlterFails, MarkBegin,
         MarkCommit, MarkFails, Refused, Begin, Commit, Goto, Take, Release,
         TypeOK, LockOK, WritePC, Writing, MayReserve
<1>5. CreatedOK'
  <2>1. \A q \in Proc : pc'[q] = pc[q] \/ (pc[q] \in PastCreate /\ pc'[q] \in PastCreate)
    BY <1>0 DEF Goto, TypeOK
  <2>. QED
    BY <2>1, <1>0 DEF CreatedOK, PastCreate
<1>6. created = Creates
  BY <1>0 DEF CreatedOK, Goto
<1>7. MigratedOK'
  <2>1. CASE GetVersion(p)
    BY <2>1 DEF GetVersion, Goto, MigratedOK, TypeOK
  <2>2. CASE AlterBegin(p)
    BY <2>2 DEF AlterBegin, Begin, Goto, MigratedOK, TypeOK
  <2>3. CASE AlterExists(p) \/ AlterFails(p) \/ MarkFails(p)
    BY <2>3 DEF AlterExists, AlterFails, MarkFails, Refused, Goto, MigratedOK, TypeOK
  <2>4. CASE MarkBegin(p)
    BY <2>4 DEF MarkBegin, Begin, Goto, MigratedOK, TypeOK
  <2>5. CASE AlterCommit(p)
    <3>1. ~cwd /\ version = {} /\ \A q \in Proc : pc[q] \notin {"mark", "markCommit"}
      BY <2>5 DEF AlterCommit, Commit, Goto, MigratedOK
    <3>2. \A q \in Proc \ {p} : pc[q] # "alterCommit"
      BY <2>5 DEF AlterCommit, Commit, Goto, LockOK, WritePC, MayCommit
    <3>. QED
      BY <2>5, <1>6, <3>1, <3>2 DEF AlterCommit, Commit, Goto, MigratedOK, TypeOK
  <2>6. CASE MarkCommit(p)
    BY <2>6 DEF MarkCommit, Commit, Goto, MigratedOK, TypeOK
  <2>. QED
    BY <2>1, <2>2, <2>3, <2>4, <2>5, <2>6 DEF MigrateStep
<1>. QED
  BY <1>3, <1>4, <1>5, <1>7 DEF Inv

\* Starting, using the file, and stopping.
LEMMA OtherInv ==
  ASSUME Inv, NEW p \in Proc, Start(p) \/ Use(p) \/ Stop(p)
  PROVE  Inv'
<1>. USE DEF Inv
<1>1. TypeOK'
  <2>1. pc' \in [Proc -> PC]
    BY DEF Start, Use, Stop, Goto, TypeOK, PC, InitPC
  <2>2. lock' \in [Proc -> Level]
    BY DEF Start, Use, Stop, Take, Release, TypeOK, Level
  <2>3. stmt' \in [Proc -> Creates]
    BY DEF Start, Use, Stop, TypeOK, Creates
  <2>. QED
    BY <2>1, <2>2, <2>3 DEF Start, Use, Stop, TypeOK
<1>2. LockOK'
  BY DEF Start, Use, Stop, Goto, Take, Release, TypeOK, LockOK, WritePC, Writing, MayReserve
<1>3. CreatedOK'
  BY DEF Start, Use, Stop, Goto, TypeOK, CreatedOK, PastCreate, Creates
<1>4. MigratedOK'
  BY DEF Start, Use, Stop, Goto, TypeOK, MigratedOK
<1>. QED
  BY <1>1, <1>2, <1>3, <1>4

\* All parts of Next together.
LEMMA NextInv == Inv /\ [Next]_vars => Inv'
<1>. SUFFICES ASSUME Inv, [Next]_vars PROVE Inv'
  OBVIOUS
<1>1. CASE Next
  BY <1>1, CreateInv, MigrateInv, OtherInv DEF Next
<1>2. CASE UNCHANGED vars
  BY <1>2 DEF vars, Inv, TypeOK, LockOK, CreatedOK, MigratedOK, Writing, MayReserve
<1>. QED
  BY <1>1, <1>2

\* The invariant holds for any number of starting processes.
THEOREM AlwaysInv == Spec => []Inv
<1>. QED
  BY InitInv, NextInv, PTL DEF Spec

\* The types of the variables of init hold.
THEOREM TypeCorrect == Spec => []TypeOK
<1>1. Inv => TypeOK
  BY DEF Inv
<1>. QED
  BY <1>1, AlwaysInv, PTL

\* A recorded version is true of the schema, wherever processes were killed.
THEOREM VersionTrue == Spec => []VersionIsTrue
<1>1. Inv => VersionIsTrue
  BY DEF Inv, MigratedOK, VersionIsTrue
<1>. QED
  BY <1>1, AlwaysInv, PTL

\* Past init every table is there.
THEOREM TablesReady == Spec => []ReadyHasTables
<1>1. Inv => ReadyHasTables
  BY DEF Inv, CreatedOK, PastCreate, ReadyHasTables
<1>. QED
  BY <1>1, AlwaysInv, PTL

\* At most one process ever records the version, on a free key.
THEOREM SingleMigrator == Spec => []OneMigrator
<1>1. Inv => OneMigrator
  BY DEF Inv, MigratedOK, OneMigrator
<1>. QED
  BY <1>1, AlwaysInv, PTL

=============================================================================
