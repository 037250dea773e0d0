--------------------------- MODULE HistoryProofs ----------------------------
(* Theorems about History, for any number of terminals, any set of commands *)
(* and any n-grams of them.                                                  *)
EXTENDS History, TLAPS

-----------------------------------------------------------------------------
(* Typing. *)

\* Every edit of the tables yields tables.
LEMMA TablesTyped ==
  ASSUME NEW d \in Tables
  PROVE  /\ \A c \in Cmd : /\ InsertRaw(d, c) \in Tables
                           /\ MarkPrune(d, c) \in Tables
                           /\ UnmarkPrune(d, c) \in Tables
         /\ \A r \in Row : InsertLut(d, r) \in Tables
         /\ PurgeRaw(d) \in Tables
         /\ PurgeLut(d) \in Tables
         /\ PurgeMarks(d) \in Tables
BY DEF Tables, InsertRaw, InsertLut, MarkPrune, UnmarkPrune, PurgeRaw, PurgeLut, PurgeMarks

\* The row of an n-gram of a command is a row.
LEMMA RowTyped ==
  ASSUME NEW c \in Cmd, NEW i \in 1 .. Len(Grams[c])
  PROVE  RowAt(c, i) \in Row
BY GramsAssumption DEF RowAt, Row

\* The n-grams of a command make rows.
LEMMA RowsTyped == \A c \in Cmd : RowsOf(c) \subseteq Row
BY RowTyped DEF RowsOf

\* A process is indexing a command wherever its pc is in index_cmd.
JobOK == \A p \in Proc : pc[p] \in IndexPC => job[p] \in Cmd

Typed == TypeOK /\ JobOK

\* A move from one place to another.
LEMMA MoveTyped ==
  ASSUME Typed, NEW p \in Proc, NEW from, NEW to \in PC, Goto(p, from, to)
  PROVE  pc' \in [Proc -> PC]
BY DEF Typed, TypeOK, Goto

\* Giving up a transaction, and what is owed for it, is well typed.
LEMMA RollbackTyped ==
  ASSUME Typed, NEW p \in Proc, Rollback(p)
  PROVE  lock' \in [Proc -> Level] /\ cache' \in Tables
BY DEF Typed, TypeOK, Rollback, Release, Take, Level, EmptyTables, Tables

\* What an index has still to insert are rows.
LEMMA PendingTyped ==
  ASSUME Typed, NEW p \in Proc
  PROVE  Pending(p) \subseteq Row
<1>. SUFFICES ASSUME pc[p] \in {"lut", "lutCommit"},
                     NEW i \in pos[p] .. Len(Grams[job[p]])
              PROVE  RowAt(job[p], i) \in Row
  BY DEF Pending
<1>1. job[p] \in Cmd
  BY DEF Typed, JobOK, IndexPC
<1>2. i \in 1 .. Len(Grams[job[p]])
  BY <1>1, GramsAssumption DEF Typed, TypeOK
<1>. QED
  BY <1>1, <1>2, RowTyped

\* What it owes when it gives up are rows.
LEMMA AbandonTyped ==
  ASSUME Typed, NEW p \in Proc, Abandon(p)
  PROVE  owed' \subseteq Row
BY PendingTyped DEF Typed, TypeOK, Abandon

\* A process that ends leaves typed variables.
LEMMA LeaveTyped ==
  ASSUME Typed, NEW p \in Proc, Leave(p), UNCHANGED db
  PROVE  Typed'
<1>1. lock' \in [Proc -> Level] /\ cache' \in Tables
  BY RollbackTyped DEF Leave
<1>2. owed' \subseteq Row
  BY AbandonTyped DEF Leave
<1>3. pc' \in [Proc -> PC] /\ pc'[p] = "idle"
  BY DEF Typed, TypeOK, PC, Leave
<1>4. TypeOK'
  <2>1. pos' \in [Proc -> Nat \ {0}]
    BY DEF Typed, TypeOK, Leave
  <2>2. view' \in [Proc -> SUBSET Hit] /\ listed' \in [Proc -> SUBSET Cmd]
    BY DEF Typed, TypeOK, Leave
  <2>. QED
    BY <1>1, <1>2, <1>3, <2>1, <2>2 DEF Typed, TypeOK, Leave
<1>5. JobOK'
  BY <1>3 DEF Typed, TypeOK, JobOK, IndexPC, Leave
<1>. QED
  BY <1>4, <1>5 DEF Typed

\* So does an index_cmd that returns, in either way.
LEMMA IndexReturnsTyped ==
  ASSUME Typed, NEW p \in Proc,
         NEW from \in IndexPC, NEW result \in {"returnTrue", "returnFalse"},
         IndexReturns(p, from, result)
  PROVE  Typed'
<1>1. lock' \in [Proc -> Level] /\ cache' \in Tables
  BY RollbackTyped DEF IndexReturns
<1>2. owed' \subseteq Row
  BY AbandonTyped DEF IndexReturns
<1>3. job[p] \in Cmd
  BY DEF Typed, JobOK, IndexReturns, Goto
<1>4. TypeOK'
  <2>1. pc' \in [Proc -> PC]
    BY DEF Typed, TypeOK, IndexPC, PC, IndexReturns, Goto
  <2>2. pos' \in [Proc -> Nat \ {0}]
    BY DEF Typed, TypeOK, IndexReturns
  <2>. QED
    BY <1>1, <1>2, <2>1, <2>2 DEF Typed, TypeOK, IndexReturns
<1>5. JobOK'
  BY <1>3 DEF Typed, TypeOK, JobOK, IndexReturns, Goto
<1>. QED
  BY <1>4, <1>5 DEF Typed

\* Opening a write transaction, and committing it.
LEMMA WriteTyped ==
  ASSUME Typed, NEW p \in Proc, NEW d \in Tables
  PROVE  /\ BeginWrite(p, d) => lock' \in [Proc -> Level] /\ cache' \in Tables
         /\ Commit(p) => lock' \in [Proc -> Level] /\ cache' \in Tables /\ db' \in Tables
<1>1. BeginWrite(p, d) => lock' \in [Proc -> Level] /\ cache' \in Tables
  BY DEF Typed, TypeOK, BeginWrite, Take, Level
<1>2. Commit(p) => lock' \in [Proc -> Level] /\ cache' \in Tables /\ db' \in Tables
  BY RollbackTyped DEF Commit, Typed, TypeOK
<1>. QED
  BY <1>1, <1>2

\* One lemma for each part of Next.
LEMMA IndexTyped ==
  ASSUME Typed, NEW p \in Proc, IndexStep(p)
  PROVE  Typed'
<1>0. pc[p] \in IndexPC => job[p] \in Cmd
  BY DEF Typed, JobOK
<1>1. CASE InsertHash(p)
  <2>1. job[p] \in Cmd
    BY <1>0, <1>1 DEF InsertHash, Goto, IndexPC
  <2>2. lock' \in [Proc -> Level] /\ cache' \in Tables
    BY <1>1, <2>1, TablesTyped, WriteTyped DEF InsertHash, Typed, TypeOK
  <2>3. TypeOK'
    BY <1>1, <2>2, MoveTyped DEF Typed, TypeOK, InsertHash, PC, IndexPC
  <2>4. JobOK'
    BY <1>1, <2>1 DEF Typed, TypeOK, JobOK, InsertHash, Goto
  <2>. QED
    BY <2>3, <2>4 DEF Typed
<1>2. CASE InsertHashCommit(p)
  <2>1. job[p] \in Cmd
    BY <1>0, <1>2 DEF InsertHashCommit, Goto, IndexPC
  <2>2. lock' \in [Proc -> Level] /\ cache' \in Tables /\ db' \in Tables
    BY <1>2, WriteTyped DEF InsertHashCommit, Typed, TypeOK
  <2>3. TypeOK'
    BY <1>2, <2>2, MoveTyped DEF Typed, TypeOK, InsertHashCommit, PC, IndexPC
  <2>4. JobOK'
    BY <1>2, <2>1 DEF Typed, TypeOK, JobOK, InsertHashCommit, Goto
  <2>. QED
    BY <2>3, <2>4 DEF Typed
<1>3. CASE InsertHashFails(p)
  BY <1>3, IndexReturnsTyped DEF InsertHashFails, IndexPC
<1>4. CASE InsertLutRow(p)
  <2>1. job[p] \in Cmd
    BY <1>0, <1>4 DEF InsertLutRow, Goto, IndexPC
  <2>2. RowAt(job[p], pos[p]) \in Row
    BY <1>4, <2>1, RowTyped, GramsAssumption DEF InsertLutRow, More, Typed, TypeOK
  <2>3. lock' \in [Proc -> Level] /\ cache' \in Tables
    BY <1>4, <2>2, TablesTyped, WriteTyped DEF InsertLutRow, Typed, TypeOK
  <2>4. TypeOK'
    BY <1>4, <2>3, MoveTyped DEF Typed, TypeOK, InsertLutRow, PC, IndexPC
  <2>5. JobOK'
    BY <1>4, <2>1 DEF Typed, TypeOK, JobOK, InsertLutRow, Goto
  <2>. QED
    BY <2>4, <2>5 DEF Typed
<1>5. CASE InsertLutCommit(p)
  <2>1. job[p] \in Cmd
    BY <1>0, <1>5 DEF InsertLutCommit, Goto, IndexPC
  <2>2. lock' \in [Proc -> Level] /\ cache' \in Tables /\ db' \in Tables
    BY <1>5, WriteTyped DEF InsertLutCommit, Typed, TypeOK
  <2>3. pos' \in [Proc -> Nat \ {0}]
    BY <1>5 DEF Typed, TypeOK, InsertLutCommit
  <2>4. TypeOK'
    BY <1>5, <2>2, <2>3, MoveTyped DEF Typed, TypeOK, InsertLutCommit, PC, IndexPC
  <2>5. JobOK'
    BY <1>5, <2>1 DEF Typed, TypeOK, JobOK, InsertLutCommit, Goto
  <2>. QED
    BY <2>4, <2>5 DEF Typed
<1>6. CASE InsertLutFails(p)
  BY <1>6, IndexReturnsTyped DEF InsertLutFails, IndexPC
<1>7. CASE IndexDone(p)
  BY <1>7, IndexReturnsTyped DEF IndexDone, IndexPC
<1>8. CASE IndexExit(p)
  BY <1>8, LeaveTyped DEF IndexExit
<1>. QED
  BY <1>1, <1>2, <1>3, <1>4, <1>5, <1>6, <1>7, <1>8 DEF IndexStep

\* A step of prune that leaves the tables and the owed rows alone, and stays
\* out of index_cmd.
LEMMA QuietTyped ==
  ASSUME Typed, NEW p \in Proc, NEW from, NEW to \in PC \ IndexPC,
         Goto(p, from, to),
         lock' \in [Proc -> Level], cache' \in Tables,
         view' \in [Proc -> SUBSET Hit], listed' \in [Proc -> SUBSET Cmd],
         UNCHANGED <<db, job, pos, owed>>
  PROVE  Typed'
<1>1. TypeOK'
  BY MoveTyped DEF Typed, TypeOK
<1>2. JobOK'
  BY DEF Typed, TypeOK, JobOK, Goto
<1>. QED
  BY <1>1, <1>2 DEF Typed

\* The explore loop of prune.
LEMMA LoopTyped ==
  ASSUME Typed, NEW p \in Proc, LoopStep(p)
  PROVE  Typed'
<1>1. CASE DumpQuery(p)
  BY <1>1, QuietTyped DEF DumpQuery, Take, Typed, TypeOK, Level, PC, IndexPC
<1>2. CASE DumpNothing(p)
  <2>1. view' \in [Proc -> SUBSET Hit]
    BY <1>2 DEF DumpNothing, Typed, TypeOK
  <2>. QED
    BY <1>2, <2>1, QuietTyped DEF DumpNothing, Typed, TypeOK, PC, IndexPC
<1>3. CASE DumpStale(p)
  BY <1>3, QuietTyped DEF DumpStale, Typed, TypeOK, PC, IndexPC
<1>4. CASE QueryEnd(p)
  <2>1. PICK found \in SUBSET db.raw :
          \E kept \in SUBSET {h \in view[p] : h[2] /\ found # {}} :
             view' = [view EXCEPT ![p] = {<<c, c \in db.marked>> : c \in found} \cup kept]
    BY <1>4 DEF QueryEnd
  <2>2. PICK kept \in SUBSET {h \in view[p] : h[2] /\ found # {}} :
          view' = [view EXCEPT ![p] = {<<c, c \in db.marked>> : c \in found} \cup kept]
    BY <2>1
  <2>3. \A c \in found : c \in Cmd
    BY DEF Typed, TypeOK, Tables
  <2>4. {<<c, c \in db.marked>> : c \in found} \in SUBSET Hit
    <3>1. ASSUME NEW c \in found PROVE <<c, c \in db.marked>> \in Hit
      <4>1. (c \in db.marked) \in BOOLEAN
        OBVIOUS
      <4>2. c \in Cmd
        BY <2>3
      <4>. QED
        BY <4>1, <4>2, Zenon DEF Hit
    <3>. QED
      BY <3>1, Zenon
  <2>5. kept \in SUBSET Hit
    BY DEF Typed, TypeOK
  <2>6. view' \in [Proc -> SUBSET Hit]
    BY <2>2, <2>4, <2>5 DEF Typed, TypeOK
  <2>. QED
    BY <1>4, <2>6, QuietTyped DEF QueryEnd, Release, Take, Typed, TypeOK, Level, PC, IndexPC
<1>5. CASE AnnotateCommit(p)
  <2>1. lock' \in [Proc -> Level] /\ cache' \in Tables /\ db' \in Tables
    BY <1>5, WriteTyped DEF AnnotateCommit, Typed, TypeOK
  <2>2. TypeOK'
    BY <1>5, <2>1, MoveTyped DEF Typed, TypeOK, AnnotateCommit, PC
  <2>3. JobOK'
    BY <1>5 DEF Typed, TypeOK, JobOK, AnnotateCommit, Goto, IndexPC
  <2>. QED
    BY <2>2, <2>3 DEF Typed
<1>6. CASE AnnotateFails(p)
  BY <1>6, RollbackTyped, QuietTyped DEF AnnotateFails, Typed, TypeOK, PC, IndexPC
<1>. QED
  BY <1>1, <1>2, <1>3, <1>4, <1>5, <1>6 DEF LoopStep

\* The list, the confirmation and the purge.
LEMMA PurgeTyped ==
  ASSUME Typed, NEW p \in Proc, PurgeStep(p)
  PROVE  Typed'
<1>1. CASE List(p)
  BY <1>1, QuietTyped DEF List, Take, Typed, TypeOK, Level, PC, IndexPC
<1>2. CASE Listed(p)
  <2>1. listed' \in [Proc -> SUBSET Cmd]
    BY <1>2 DEF Listed, Candidates, Typed, TypeOK, Tables
  <2>. QED
    BY <1>2, <2>1, QuietTyped DEF Listed, Release, Take, Typed, TypeOK, Level, PC, IndexPC
<1>3. CASE NothingPruned(p)
  BY <1>3, LeaveTyped DEF NothingPruned
<1>4. CASE DeleteRaw(p)
  <2>1. lock' \in [Proc -> Level] /\ cache' \in Tables
    BY <1>4, TablesTyped, WriteTyped DEF DeleteRaw, Typed, TypeOK
  <2>. QED
    BY <1>4, <2>1, QuietTyped DEF DeleteRaw, Typed, TypeOK, PC, PurgePC, IndexPC
<1>5. CASE DeleteLut(p)
  BY <1>5, TablesTyped, QuietTyped
  DEF DeleteLut, Typed, TypeOK, PC, PurgePC, IndexPC
<1>6. CASE DeleteMarks(p)
  BY <1>6, TablesTyped, QuietTyped
  DEF DeleteMarks, Typed, TypeOK, PC, PurgePC, IndexPC
<1>7. CASE PurgeCommit(p)
  <2>1. lock' \in [Proc -> Level] /\ cache' \in Tables /\ db' \in Tables
    BY <1>7, WriteTyped DEF PurgeCommit, Typed, TypeOK
  <2>2. TypeOK'
    BY <1>7, <2>1, MoveTyped DEF Typed, TypeOK, PurgeCommit, PC, PurgePC
  <2>3. JobOK'
    BY <1>7 DEF Typed, TypeOK, JobOK, PurgeCommit, Goto, IndexPC
  <2>. QED
    BY <2>2, <2>3 DEF Typed
<1>8. CASE PurgeCommitRefused(p)
  BY <1>8, QuietTyped DEF PurgeCommitRefused, Take, Typed, TypeOK, Level, PC, PurgePC, IndexPC
<1>9. CASE PurgeEnd(p)
  BY <1>9, LeaveTyped DEF PurgeEnd
<1>. QED
  BY <1>1, <1>2, <1>3, <1>4, <1>5, <1>6, <1>7, <1>8, <1>9 DEF PurgeStep

\* What a user starts, decides or ends.
LEMMA UserTyped ==
  ASSUME Typed, NEW p \in Proc, UserStep(p)
  PROVE  Typed'
<1>1. ASSUME NEW c \in Cmd, StartIndex(p, c) PROVE Typed'
  <2>1. TypeOK'
    BY <1>1, MoveTyped DEF Typed, TypeOK, StartIndex, PC, IndexPC
  <2>2. JobOK'
    BY <1>1 DEF Typed, TypeOK, JobOK, StartIndex, Goto
  <2>. QED
    BY <2>1, <2>2 DEF Typed
<1>2. CASE StartRead(p)
  BY <1>2, QuietTyped DEF StartRead, Take, Typed, TypeOK, Level, PC, IndexPC
<1>3. CASE EndRead(p)
  BY <1>3, LeaveTyped DEF EndRead
<1>4. CASE StartPrune(p)
  BY <1>4, QuietTyped DEF StartPrune, Typed, TypeOK, PC, IndexPC
<1>5. CASE Key(p)
  BY <1>5, QuietTyped DEF Key, Typed, TypeOK, PC, IndexPC
<1>6. CASE Quit(p)
  <2>1. view' \in [Proc -> SUBSET Hit]
    BY <1>6 DEF Quit, Typed, TypeOK
  <2>. QED
    BY <1>6, <2>1, QuietTyped DEF Quit, Typed, TypeOK, PC, IndexPC
<1>7. ASSUME NEW h \in Hit, Annotate(p, h) PROVE Typed'
  <2>1. (IF h[2] THEN UnmarkPrune(db, h[1]) ELSE MarkPrune(db, h[1])) \in Tables
    BY TablesTyped DEF Hit, Typed, TypeOK
  <2>2. lock' \in [Proc -> Level] /\ cache' \in Tables
    BY <1>7, <2>1, WriteTyped DEF Annotate
  <2>. QED
    BY <1>7, <2>2, QuietTyped DEF Annotate, Typed, TypeOK, PC, IndexPC
<1>8. CASE AnnotateRefused(p)
  BY <1>8, QuietTyped DEF AnnotateRefused, Typed, TypeOK, PC, IndexPC
<1>9. CASE Confirm(p)
  BY <1>9, QuietTyped DEF Confirm, Typed, TypeOK, PC, PurgePC, IndexPC
<1>10. CASE Decline(p)
  BY <1>10, LeaveTyped DEF Decline
<1>. QED
  BY <1>1, <1>2, <1>3, <1>4, <1>5, <1>6, <1>7, <1>8, <1>9, <1>10 DEF UserStep

\* An empty database and idle terminals are well typed.
LEMMA InitTyped == Init => Typed
<1>1. Init => TypeOK
  BY DEF Init, LockInit, TypeOK, Level, Tables, EmptyTables, PC
<1>2. Init => JobOK
  BY DEF Init, JobOK, IndexPC
<1>. QED
  BY <1>1, <1>2 DEF Typed

\* All parts of Next together.
LEMMA NextTyped == Typed /\ [Next]_vars => Typed'
<1>. SUFFICES ASSUME Typed, [Next]_vars PROVE Typed'
  OBVIOUS
<1>1. ASSUME NEW p \in Proc, UserStep(p) PROVE Typed'
  BY <1>1, UserTyped
<1>2. ASSUME NEW p \in Proc, ProcessStep(p) PROVE Typed'
  BY <1>2, IndexTyped, LoopTyped, PurgeTyped DEF ProcessStep
<1>3. ASSUME NEW p \in Proc, Crash(p) PROVE Typed'
  BY <1>3, LeaveTyped DEF Crash
<1>4. CASE UNCHANGED vars
  BY <1>4 DEF vars, Typed, TypeOK, JobOK
<1>. QED
  BY <1>1, <1>2, <1>3, <1>4 DEF Next

\* The variables keep their types, and a process inside index_cmd has a command.
THEOREM Typing == Spec => []Typed
<1>. QED
  BY InitTyped, NextTyped, PTL DEF Spec

\* Every variable of History keeps its type, for any number of terminals and
\* whatever they run: TypeOK of the run two_pruners.
THEOREM TypeCorrect == Spec => []TypeOK
<1>1. Typed => TypeOK
  BY DEF Typed
<1>. QED
  BY <1>1, Typing, PTL

-----------------------------------------------------------------------------
(* Isolation.  A step of p changes nothing of the other processes, touches   *)
(* the tables only when none of them is writing, and leaves p with the lock  *)
(* and the private tables its place calls for.                               *)

Own(p) ==
  /\ lock[p] \in Held(p)
  /\ lock[p] = "reserved" => cache \in Intended(p, db)

OthersKept(p) ==
  \A q \in Proc \ {p} :
    pc'[q] = pc[q] /\ lock'[q] = lock[q] /\ job'[q] = job[q] /\ pos'[q] = pos[q]

Contained(p) ==
  /\ OthersKept(p)
  /\ UNCHANGED <<db, cache>> \/ MayReserve(p)
  /\ Writing(p)' => MayReserve(p)
  /\ Own(p)'

IsolatedNow == Typed /\ Isolation

\* A process that gives up whatever it holds is contained.
LEMMA GiveUp ==
  ASSUME IsolatedNow, NEW p \in Proc, Rollback(p), UNCHANGED db
  PROVE  /\ UNCHANGED <<db, cache>> \/ MayReserve(p)
         /\ lock'[p] = "none"
         /\ \A q \in Proc \ {p} : lock'[q] = lock[q]
BY DEF IsolatedNow, Isolation, Typed, TypeOK, Rollback, Release, Take

\* A process that ends disturbs nobody else.
LEMMA LeaveContained ==
  ASSUME IsolatedNow, NEW p \in Proc, Leave(p), UNCHANGED db
  PROVE  Contained(p)
<1>1. OthersKept(p)
  BY GiveUp DEF OthersKept, Leave, IsolatedNow, Typed, TypeOK
<1>2. lock'[p] = "none" /\ pc'[p] = "idle"
  BY GiveUp DEF Leave, IsolatedNow, Typed, TypeOK
<1>. QED
  BY <1>1, <1>2, GiveUp DEF Contained, Own, Held, Writing, Leave

\* Nor does an index_cmd that returns.
LEMMA IndexReturnsContained ==
  ASSUME IsolatedNow, NEW p \in Proc,
         NEW from, NEW result \in {"returnTrue", "returnFalse"},
         IndexReturns(p, from, result)
  PROVE  Contained(p)
<1>1. OthersKept(p)
  BY GiveUp DEF OthersKept, IndexReturns, Goto, IsolatedNow, Typed, TypeOK
<1>2. lock'[p] = "none" /\ pc'[p] = result
  BY GiveUp DEF IndexReturns, Goto, IsolatedNow, Typed, TypeOK
<1>. QED
  BY <1>1, <1>2, GiveUp DEF Contained, Own, Held, Writing, IndexReturns

\* A step that takes or gives back a shared lock, or no lock, is contained.
LEMMA ReadContained ==
  ASSUME IsolatedNow, NEW p \in Proc, NEW from, NEW to, Goto(p, from, to),
         NEW level \in {"none", "shared"},
         Take(p, level), Held(p)' = {level},
         UNCHANGED <<db, cache, job, pos>>
  PROVE  Contained(p)
<1>1. OthersKept(p) /\ lock'[p] = level
  BY DEF OthersKept, Goto, Take, IsolatedNow, Typed, TypeOK
<1>. QED
  BY <1>1 DEF Contained, Own, Writing

\* A step that moves between two places where no lock is held.
LEMMA IdleContained ==
  ASSUME IsolatedNow, NEW p \in Proc, NEW from, NEW to, Goto(p, from, to),
         Held(p) = {"none"}, Held(p)' = {"none"},
         UNCHANGED <<lock, db, cache, pos>>,
         \A q \in Proc \ {p} : job'[q] = job[q]
  PROVE  Contained(p)
<1>1. lock[p] = "none"
  BY DEF IsolatedNow, Isolation
<1>2. OthersKept(p) /\ lock'[p] = "none"
  BY <1>1 DEF OthersKept, Goto, IsolatedNow, Typed, TypeOK
<1>. QED
  BY <1>2 DEF Contained, Own, Writing

\* Opening a write transaction.
LEMMA BeginContained ==
  ASSUME IsolatedNow, NEW p \in Proc, NEW from, NEW to, Goto(p, from, to), NEW d,
         BeginWrite(p, d), Held(p)' = {"reserved"}, d \in Intended(p, db)',
         UNCHANGED <<db, job, pos>>
  PROVE  Contained(p)
<1>1. OthersKept(p) /\ lock'[p] = "reserved"
  BY DEF OthersKept, Goto, BeginWrite, Take, IsolatedNow, Typed, TypeOK
<1>. QED
  BY <1>1 DEF Contained, Own, BeginWrite

\* Committing it: every other process is out of the file.
LEMMA CommitContained ==
  ASSUME IsolatedNow, NEW p \in Proc, NEW from, NEW to, Goto(p, from, to),
         Commit(p), "none" \in Held(p)',
         UNCHANGED job, \A q \in Proc \ {p} : pos'[q] = pos[q]
  PROVE  Contained(p)
<1>1. OthersKept(p) /\ lock'[p] = "none"
  BY DEF OthersKept, Goto, Commit, Rollback, Release, Take, IsolatedNow, Typed, TypeOK
<1>2. MayReserve(p)
  BY DEF Commit, MayCommit, MayReserve, Writing
<1>. QED
  BY <1>1, <1>2 DEF Contained, Own, Writing

\* The steps of index: each transaction is one statement.
LEMMA IndexContained ==
  ASSUME IsolatedNow, NEW p \in Proc, IndexStep(p)
  PROVE  Contained(p)
<1>. USE DEF IsolatedNow, Typed, TypeOK
<1>1. CASE InsertHash(p)
  BY <1>1, BeginContained DEF InsertHash, Goto, Held, Intended
<1>2. CASE InsertHashCommit(p)
  BY <1>2, CommitContained DEF InsertHashCommit, Goto, Held
<1>3. CASE InsertHashFails(p)
  BY <1>3, IndexReturnsContained DEF InsertHashFails
<1>4. CASE InsertLutRow(p)
  BY <1>4, BeginContained DEF InsertLutRow, Goto, Held, Intended
<1>5. CASE InsertLutCommit(p)
  BY <1>5, CommitContained DEF InsertLutCommit, Goto, Held
<1>6. CASE InsertLutFails(p)
  BY <1>6, IndexReturnsContained DEF InsertLutFails
<1>7. CASE IndexDone(p)
  BY <1>7, IndexReturnsContained DEF IndexDone
<1>8. CASE IndexExit(p)
  BY <1>8, LeaveContained DEF IndexExit
<1>. QED
  BY <1>1, <1>2, <1>3, <1>4, <1>5, <1>6, <1>7, <1>8 DEF IndexStep

\* The steps of the explore loop of prune.
LEMMA LoopContained ==
  ASSUME IsolatedNow, NEW p \in Proc, LoopStep(p)
  PROVE  Contained(p)
<1>. USE DEF IsolatedNow, Typed, TypeOK
<1>1. CASE DumpQuery(p)
  BY <1>1, ReadContained DEF DumpQuery, Goto, Held
<1>2. CASE DumpNothing(p)
  BY <1>2, IdleContained DEF DumpNothing, Goto, Held
<1>3. CASE DumpStale(p)
  BY <1>3, IdleContained DEF DumpStale, Goto, Held
<1>4. CASE QueryEnd(p)
  BY <1>4, ReadContained DEF QueryEnd, Release, Goto, Held
<1>5. CASE AnnotateCommit(p)
  BY <1>5, CommitContained DEF AnnotateCommit, Goto, Held
<1>6. CASE AnnotateFails(p)
  <2>1. OthersKept(p)
    BY <1>6, GiveUp DEF OthersKept, AnnotateFails, Goto
  <2>2. lock'[p] = "none" /\ pc'[p] = "dump"
    BY <1>6, GiveUp DEF AnnotateFails, Goto
  <2>. QED
    BY <1>6, <2>1, <2>2, GiveUp DEF Contained, Own, Held, Writing, AnnotateFails
<1>. QED
  BY <1>1, <1>2, <1>3, <1>4, <1>5, <1>6 DEF LoopStep

\* The steps of the list and of the purge, the one long transaction.
LEMMA PurgeContained ==
  ASSUME IsolatedNow, NEW p \in Proc, PurgeStep(p)
  PROVE  Contained(p)
<1>. USE DEF IsolatedNow, Typed, TypeOK
<1>1. CASE List(p)
  BY <1>1, ReadContained DEF List, Goto, Held
<1>2. CASE Listed(p)
  BY <1>2, ReadContained DEF Listed, Release, Goto, Held
<1>3. CASE NothingPruned(p)
  BY <1>3, LeaveContained DEF NothingPruned
<1>4. CASE DeleteRaw(p)
  BY <1>4, BeginContained DEF DeleteRaw, Goto, Held, Intended
<1>5. CASE DeleteLut(p) \/ DeleteMarks(p)
  <2>1. lock[p] = "reserved" /\ cache \in Intended(p, db) /\ MayReserve(p)
    BY <1>5 DEF DeleteLut, DeleteMarks, Goto, Isolation, Held, Writing
  <2>2. OthersKept(p) /\ lock'[p] = "reserved"
    BY <1>5, <2>1 DEF DeleteLut, DeleteMarks, Goto, OthersKept
  <2>3. Own(p)'
    BY <1>5, <2>1, <2>2 DEF DeleteLut, DeleteMarks, Goto, Own, Held, Intended
  <2>. QED
    BY <2>1, <2>2, <2>3 DEF Contained
<1>6. CASE PurgeCommit(p)
  BY <1>6, CommitContained DEF PurgeCommit, Goto, Held
<1>7. CASE PurgeCommitRefused(p)
  <2>1. MayReserve(p)
    BY <1>7 DEF PurgeCommitRefused, Goto, Isolation, Held, Writing
  <2>2. OthersKept(p) /\ lock'[p] = "pending" /\ pc'[p] = "close"
    BY <1>7 DEF PurgeCommitRefused, Goto, Take, Level, OthersKept
  <2>. QED
    BY <2>1, <2>2 DEF Contained, Own, Held
<1>8. CASE PurgeEnd(p)
  BY <1>8, LeaveContained DEF PurgeEnd
<1>. QED
  BY <1>1, <1>2, <1>3, <1>4, <1>5, <1>6, <1>7, <1>8 DEF PurgeStep

\* The steps that users take; only Annotate opens a transaction.
LEMMA UserContained ==
  ASSUME IsolatedNow, NEW p \in Proc, UserStep(p)
  PROVE  Contained(p)
<1>. USE DEF IsolatedNow, Typed, TypeOK
<1>1. ASSUME NEW c \in Cmd, StartIndex(p, c) PROVE Contained(p)
  BY <1>1, IdleContained DEF StartIndex, Goto, Held
<1>2. CASE StartRead(p)
  BY <1>2, ReadContained DEF StartRead, Goto, Held
<1>3. CASE EndRead(p)
  BY <1>3, LeaveContained DEF EndRead
<1>4. CASE StartPrune(p)
  BY <1>4, IdleContained DEF StartPrune, Goto, Held
<1>5. CASE Key(p)
  BY <1>5, IdleContained DEF Key, Goto, Held
<1>6. CASE Quit(p)
  BY <1>6, IdleContained DEF Quit, Goto, Held
<1>7. ASSUME NEW h \in Hit, Annotate(p, h) PROVE Contained(p)
  <2>. DEFINE d == IF h[2] THEN UnmarkPrune(db, h[1]) ELSE MarkPrune(db, h[1])
  <2>1. d \in Intended(p, db)'
    BY <1>7 DEF Annotate, Goto, Intended, Hit
  <2>2. BeginWrite(p, d)
    BY <1>7 DEF Annotate
  <2>. HIDE DEF d
  <2>. QED
    BY <1>7, <2>1, <2>2, BeginContained DEF Annotate, Goto, Held
<1>8. CASE AnnotateRefused(p)
  BY <1>8, IdleContained DEF AnnotateRefused, Goto, Held
<1>9. CASE Confirm(p)
  BY <1>9, IdleContained DEF Confirm, Goto, Held
<1>10. CASE Decline(p)
  BY <1>10, LeaveContained DEF Decline
<1>. QED
  BY <1>1, <1>2, <1>3, <1>4, <1>5, <1>6, <1>7, <1>8, <1>9, <1>10 DEF UserStep

\* Every step of a process is contained, and containment keeps the others
\* isolated from it.
Step(p) == UserStep(p) \/ ProcessStep(p) \/ Crash(p)

\* Every step of a process is contained in it.
LEMMA StepContained ==
  ASSUME IsolatedNow, NEW p \in Proc, Step(p)
  PROVE  Contained(p)
BY IndexContained, LoopContained, PurgeContained, UserContained, LeaveContained
DEF Step, ProcessStep, Crash

\* A contained step leaves the transactions of the others computed from the
\* committed tables: where it commits, nobody else has one.
LEMMA ContainedIsolates ==
  ASSUME Isolation, NEW p \in Proc, Contained(p)
  PROVE  Isolation'
<1>. SUFFICES ASSUME NEW q \in Proc
              PROVE  Own(q)' /\ (Writing(q)' => MayReserve(q)')
  BY DEF Isolation, Own
<1>1. CASE q = p
  BY <1>1 DEF Contained, OthersKept, MayReserve, Writing
<1>2. CASE q # p
  <2>1. Held(q)' = Held(q) /\ lock'[q] = lock[q]
    BY <1>2 DEF Contained, OthersKept, Held
  <2>2. Writing(q) => UNCHANGED <<db, cache>> /\ ~Writing(p)'
    BY <1>2 DEF Contained, MayReserve
  <2>3. lock[q] = "reserved" => Intended(q, db)' = Intended(q, db)
    BY <1>2, <2>2 DEF Contained, OthersKept, Intended, Writing
  <2>4. Own(q)'
    BY <2>1, <2>2, <2>3 DEF Own, Isolation, Writing
  <2>5. Writing(q)' => MayReserve(q)'
    BY <1>2, <2>1, <2>2 DEF Contained, OthersKept, Isolation, MayReserve, Writing
  <2>. QED
    BY <2>4, <2>5
<1>. QED
  BY <1>1, <1>2

\* Isolation is inductive, together with the types.
LEMMA NextIsolated == IsolatedNow /\ [Next]_vars => IsolatedNow'
<1>. SUFFICES ASSUME IsolatedNow, [Next]_vars PROVE Isolation'
  BY NextTyped DEF IsolatedNow
<1>1. CASE Next
  BY <1>1, StepContained, ContainedIsolates DEF Next, Step, IsolatedNow
<1>2. CASE UNCHANGED vars
  BY <1>2 DEF IsolatedNow, vars, Isolation, Held, Intended, Writing, MayReserve
<1>. QED
  BY <1>1, <1>2

\* At first nobody holds anything.
LEMMA InitIsolated == Init => IsolatedNow
<1>1. Init => Isolation
  BY DEF Init, LockInit, Isolation, Held, Writing
<1>. QED
  BY <1>1, InitTyped DEF IsolatedNow

\* Types and isolation hold for ever, for any terminals and commands.
THEOREM AlwaysIsolated == Spec => []IsolatedNow
<1>. QED
  BY InitIsolated, NextIsolated, PTL DEF Spec

\* No transaction is ever computed from tables that are no longer the committed
\* ones when it commits.
THEOREM Isolated == Spec => []Isolation
<1>1. IsolatedNow => Isolation
  BY DEF IsolatedNow
<1>. QED
  BY <1>1, AlwaysIsolated, PTL

-----------------------------------------------------------------------------
(* Completeness of the search index.  The invariant needs one more fact:     *)
(* index_cmd starts with the first n-gram.                                   *)

Fresh(p) == pc[p] \notin {"lut", "lutCommit"} => pos[p] = 1

CompleteNow == IsolatedNow /\ LutComplete /\ \A p \in Proc : Fresh(p)

\* What a step of p must do about each missing row: account for it itself, or
\* leave it to whoever accounted for it.
Accounts(p) ==
  /\ Fresh(p)'
  /\ \A c \in db'.raw : \A r \in RowsOf(c) \ db'.lut :
       \/ r \in owed' \/ r \in Pending(p)'
       \/ c \in db.raw /\ r \notin db.lut /\ r \notin owed /\ r \notin Pending(p)

\* A step that changes neither the history nor its n-grams.
LEMMA QuietAccounts ==
  ASSUME NEW p \in Proc, Fresh(p)', db'.raw = db.raw, db'.lut = db.lut,
         owed \subseteq owed', Pending(p) \ db.lut \subseteq Pending(p)' \cup owed'
  PROVE  Accounts(p)
BY DEF Accounts

\* A process that ends owes the n-grams it has not inserted.
LEMMA LeaveAccounts ==
  ASSUME CompleteNow, NEW p \in Proc, Leave(p), UNCHANGED db
  PROVE  Accounts(p)
<1>1. Fresh(p)'
  BY DEF Leave, Fresh, CompleteNow, IsolatedNow, Typed, TypeOK
<1>. QED
  BY <1>1, QuietAccounts DEF Leave, Abandon

\* So does an index_cmd that stops at a refused insert.
LEMMA IndexReturnsAccounts ==
  ASSUME CompleteNow, NEW p \in Proc, NEW from, NEW result,
         IndexReturns(p, from, result)
  PROVE  Accounts(p)
<1>1. Fresh(p)'
  BY DEF IndexReturns, Fresh, CompleteNow, IsolatedNow, Typed, TypeOK
<1>. QED
  BY <1>1, QuietAccounts DEF IndexReturns, Abandon

\* A step between two places outside gen_ngrams.
LEMMA OutsideAccounts ==
  ASSUME CompleteNow, NEW p \in Proc, UNCHANGED <<pos, owed>>,
         db'.raw = db.raw, db'.lut = db.lut,
         pc[p] \notin {"lut", "lutCommit"}, pc'[p] \notin {"lut", "lutCommit"}
  PROVE  Accounts(p)
<1>1. Fresh(p)'
  BY DEF Fresh, CompleteNow
<1>2. Pending(p) = {}
  BY DEF Pending
<1>. QED
  BY <1>1, <1>2, QuietAccounts

\* The steps of index: a row is inserted, pending or owed.
LEMMA IndexAccounts ==
  ASSUME CompleteNow, NEW p \in Proc, IndexStep(p)
  PROVE  Accounts(p)
<1>. USE DEF CompleteNow, IsolatedNow, Typed, TypeOK
<1>0. pc[p] \in IndexPC => job[p] \in Cmd
  BY DEF JobOK
<1>1. CASE InsertHash(p)
  BY <1>1, OutsideAccounts DEF InsertHash, Goto
<1>2. CASE InsertHashCommit(p)
  <2>1. job[p] \in Cmd /\ db' = InsertRaw(db, job[p])
    BY <1>0, <1>2 DEF InsertHashCommit, Commit, Goto, Isolation, Held, Intended, IndexPC
  <2>2. db'.raw = db.raw \cup {job[p]} /\ db'.lut = db.lut
    BY <2>1 DEF InsertRaw, Tables
  <2>3. pc'[p] = "lut" /\ pos'[p] = 1 /\ job'[p] = job[p] /\ pc[p] = "hashCommit"
    BY <1>2 DEF InsertHashCommit, Goto, Fresh
  <2>4. Pending(p)' = RowsOf(job[p]) /\ Pending(p) = {}
    BY <2>3 DEF Pending, RowsOf
  <2>5. owed' = owed \ RowsOf(job[p])
    BY <1>2 DEF InsertHashCommit
  <2>6. Fresh(p)'
    BY <2>3 DEF Fresh
  <2>. QED
    BY <2>2, <2>4, <2>5, <2>6 DEF Accounts
<1>3. CASE InsertHashFails(p)
  BY <1>3, IndexReturnsAccounts DEF InsertHashFails
<1>4. CASE InsertLutRow(p)
  <2>1. pc[p] = "lut" /\ pc'[p] = "lutCommit" /\ UNCHANGED <<db, job, pos, owed>>
    BY <1>4 DEF InsertLutRow, Goto
  <2>2. Pending(p)' = Pending(p) /\ Fresh(p)'
    BY <2>1 DEF Pending, Fresh
  <2>. QED
    BY <2>1, <2>2, QuietAccounts
<1>5. CASE InsertLutCommit(p)
  <2>. DEFINE r == RowAt(job[p], pos[p])
  <2>1. db' = InsertLut(db, r)
    BY <1>5 DEF InsertLutCommit, Commit, Goto, Isolation, Held, Intended
  <2>2. db'.raw = db.raw /\ db'.lut = db.lut \cup {r}
    BY <2>1 DEF InsertLut, Tables
  <2>3. /\ pc[p] = "lutCommit" /\ pc'[p] = "lut" /\ job'[p] = job[p]
        /\ pos'[p] = pos[p] + 1 /\ owed' = owed \ {r}
    BY <1>5 DEF InsertLutCommit, Goto
  <2>4. job[p] \in Cmd
    BY <1>0, <2>3 DEF IndexPC
  <2>5. Pending(p) \subseteq Pending(p)' \cup {r}
    <3>. SUFFICES ASSUME NEW i \in pos[p] .. Len(Grams[job[p]]), i # pos[p]
                  PROVE  i \in pos[p] + 1 .. Len(Grams[job[p]])
      BY <2>3 DEF Pending
    <3>. QED
      BY <2>4, GramsAssumption
  <2>6. Fresh(p)'
    BY <2>3 DEF Fresh
  <2>. QED
    BY <2>2, <2>3, <2>5, <2>6 DEF Accounts
<1>6. CASE InsertLutFails(p)
  BY <1>6, IndexReturnsAccounts DEF InsertLutFails
<1>7. CASE IndexDone(p)
  BY <1>7, IndexReturnsAccounts DEF IndexDone
<1>8. CASE IndexExit(p)
  BY <1>8, LeaveAccounts DEF IndexExit
<1>. QED
  BY <1>1, <1>2, <1>3, <1>4, <1>5, <1>6, <1>7, <1>8 DEF IndexStep

\* Marking and unmarking leave the entries and their n-grams alone.
LEMMA AnnotateKeeps ==
  ASSUME IsolatedNow, NEW p \in Proc, AnnotateCommit(p)
  PROVE  db'.raw = db.raw /\ db'.lut = db.lut
<1>1. \E c \in Cmd : db' = MarkPrune(db, c) \/ db' = UnmarkPrune(db, c)
  BY DEF AnnotateCommit, Commit, Goto, IsolatedNow, Isolation, Held, Intended
<1>. QED
  BY <1>1 DEF MarkPrune, UnmarkPrune, IsolatedNow, Typed, TypeOK, Tables

\* The explore loop of prune has no part in the n-grams.
LEMMA LoopAccounts ==
  ASSUME CompleteNow, NEW p \in Proc, LoopStep(p)
  PROVE  Accounts(p)
<1>1. db'.raw = db.raw /\ db'.lut = db.lut
  BY AnnotateKeeps
  DEF LoopStep, DumpQuery, DumpNothing, DumpStale, QueryEnd, AnnotateFails, CompleteNow
<1>2. /\ UNCHANGED <<pos, owed>>
      /\ pc[p] \notin {"lut", "lutCommit"} /\ pc'[p] \notin {"lut", "lutCommit"}
  BY DEF LoopStep, DumpQuery, DumpNothing, DumpStale, QueryEnd, AnnotateCommit,
         AnnotateFails, Goto, CompleteNow, IsolatedNow, Typed, TypeOK
<1>. QED
  BY <1>1, <1>2, OutsideAccounts

\* What a committed purge makes of the tables.
LEMMA PurgeEffect ==
  ASSUME IsolatedNow, NEW p \in Proc, PurgeCommit(p)
  PROVE  /\ db'.raw = db.raw \ db.marked
         /\ db'.lut = {r \in db.lut : r[1] \notin db.marked}
         /\ db'.marked = {}
<1>1. db' = PurgeMarks(PurgeLut(PurgeRaw(db)))
  BY DEF PurgeCommit, Commit, Goto, IsolatedNow, Isolation, Held, Intended
<1>. QED
  BY <1>1 DEF PurgeMarks, PurgeLut, PurgeRaw, IsolatedNow, Typed, TypeOK, Tables

\* The purge takes the n-grams of what it takes, and of nothing else.
LEMMA PurgeAccounts ==
  ASSUME CompleteNow, NEW p \in Proc, PurgeStep(p)
  PROVE  Accounts(p)
<1>. USE DEF CompleteNow, IsolatedNow, Typed, TypeOK
<1>1. CASE PurgeCommit(p)
  <2>1. /\ db'.raw = db.raw \ db.marked
        /\ db'.lut = {r \in db.lut : r[1] \notin db.marked}
    BY <1>1, PurgeEffect
  <2>2. \A c : \A r \in RowsOf(c) : r[1] = c
    BY DEF RowsOf, RowAt
  <2>3. owed' = {r \in owed : r[1] \notin db.marked}
    BY <1>1 DEF PurgeCommit
  <2>4. pc[p] = "purgeCommit" /\ pc'[p] = "close" /\ pos'[p] = pos[p]
    BY <1>1 DEF PurgeCommit, Goto
  <2>5. Pending(p) = {} /\ Fresh(p)'
    BY <2>4 DEF Pending, Fresh
  <2>. QED
    BY <2>1, <2>2, <2>3, <2>5 DEF Accounts
<1>2. CASE NothingPruned(p) \/ PurgeEnd(p)
  BY <1>2, LeaveAccounts DEF NothingPruned, PurgeEnd
<1>3. CASE \/ List(p) \/ Listed(p) \/ DeleteRaw(p) \/ DeleteLut(p)
           \/ DeleteMarks(p) \/ PurgeCommitRefused(p)
  BY <1>3, OutsideAccounts
  DEF List, Listed, DeleteRaw, DeleteLut, DeleteMarks, PurgeCommitRefused, Goto
<1>. QED
  BY <1>1, <1>2, <1>3 DEF PurgeStep

\* Starting an index makes nothing pending before its command is in.
LEMMA UserAccounts ==
  ASSUME CompleteNow, NEW p \in Proc, UserStep(p)
  PROVE  Accounts(p)
<1>. USE DEF CompleteNow, IsolatedNow, Typed, TypeOK
<1>1. ASSUME NEW c \in Cmd, StartIndex(p, c) PROVE Accounts(p)
  BY <1>1, OutsideAccounts DEF StartIndex, Goto
<1>2. CASE EndRead(p) \/ Decline(p)
  BY <1>2, LeaveAccounts DEF EndRead, Decline
<1>3. ASSUME NEW h \in Hit, Annotate(p, h) PROVE Accounts(p)
  BY <1>3, OutsideAccounts DEF Annotate, Goto
<1>4. CASE \/ StartRead(p) \/ StartPrune(p) \/ Key(p) \/ Quit(p) \/ Confirm(p)
           \/ AnnotateRefused(p)
  BY <1>4, OutsideAccounts
  DEF StartRead, StartPrune, Key, Quit, Confirm, AnnotateRefused, Goto
<1>. QED
  BY <1>1, <1>2, <1>3, <1>4 DEF UserStep

\* Every step of a process accounts for the rows that are missing.
LEMMA StepAccounts ==
  ASSUME CompleteNow, NEW p \in Proc, Step(p)
  PROVE  Accounts(p)
BY IndexAccounts, LoopAccounts, PurgeAccounts, UserAccounts, LeaveAccounts
DEF Step, ProcessStep, Crash

\* Completeness is inductive, with isolation.
LEMMA NextComplete == CompleteNow /\ [Next]_vars => CompleteNow'
<1>. SUFFICES ASSUME CompleteNow, [Next]_vars
              PROVE  LutComplete' /\ \A q \in Proc : Fresh(q)'
  BY NextIsolated DEF CompleteNow
<1>1. ASSUME NEW p \in Proc, Step(p)
      PROVE  LutComplete' /\ \A q \in Proc : Fresh(q)'
  <2>1. OthersKept(p)
    BY <1>1, StepContained DEF CompleteNow, Contained
  <2>2. \A q \in Proc \ {p} : Pending(q)' = Pending(q) /\ Fresh(q)' = Fresh(q)
    BY <2>1 DEF OthersKept, Pending, Fresh
  <2>3. Accounts(p)
    BY <1>1, StepAccounts
  <2>4. LutComplete'
    <3>. SUFFICES ASSUME NEW c \in db'.raw, NEW r \in RowsOf(c) \ db'.lut, r \notin owed'
                  PROVE  \E q \in Proc : r \in Pending(q)'
      BY DEF LutComplete
    <3>1. CASE r \in Pending(p)'
      BY <3>1
    <3>2. CASE r \notin Pending(p)'
      <4>1. c \in db.raw /\ r \notin db.lut /\ r \notin owed /\ r \notin Pending(p)
        BY <2>3, <3>2 DEF Accounts
      <4>2. PICK q \in Proc : r \in Pending(q)
        BY <4>1 DEF CompleteNow, LutComplete
      <4>. QED
        BY <2>2, <4>1, <4>2
    <3>. QED
      BY <3>1, <3>2
  <2>. QED
    BY <2>2, <2>3, <2>4 DEF Accounts, CompleteNow
<1>2. CASE UNCHANGED vars
  BY <1>2 DEF CompleteNow, vars, LutComplete, Pending, Fresh
<1>. QED
  BY <1>1, <1>2 DEF Next, Step

\* An empty history lacks nothing.
LEMMA InitComplete == Init => CompleteNow
<1>1. Init => LutComplete /\ \A p \in Proc : Fresh(p)
  BY DEF Init, EmptyTables, LutComplete, Fresh
<1>. QED
  BY <1>1, InitIsolated DEF CompleteNow

\* In every reachable state a missing n-gram is owed or about to be inserted.
THEOREM Complete == Spec => []LutComplete
<1>1. CompleteNow => LutComplete
  BY DEF CompleteNow
<1>. QED
  BY <1>1, InitComplete, NextComplete, PTL DEF Spec

-----------------------------------------------------------------------------
(* What a step makes of the committed tables, and the promise it keeps.      *)

\* What a step can do to the committed tables: one edit, or the whole purge.
LEMMA StepEffect ==
  ASSUME IsolatedNow, NEW p \in Proc, Step(p)
  PROVE  \/ UNCHANGED db
         \/ \E c \in Cmd : db' = InsertRaw(db, c)
         \/ \E c \in Cmd : \E i \in Nat : db' = InsertLut(db, RowAt(c, i))
         \/ \E c \in Cmd : db' = MarkPrune(db, c) \/ db' = UnmarkPrune(db, c)
         \/ PurgeCommit(p)
<1>1. CASE InsertHashCommit(p)
  BY <1>1 DEF InsertHashCommit, Commit, Goto, IsolatedNow, Isolation, Held, Intended,
              Typed, JobOK, IndexPC
<1>2. CASE InsertLutCommit(p)
  BY <1>2 DEF InsertLutCommit, Commit, Goto, IsolatedNow, Isolation, Held, Intended,
              Typed, TypeOK, JobOK, IndexPC
<1>3. CASE AnnotateCommit(p)
  BY <1>3 DEF AnnotateCommit, Commit, Goto, IsolatedNow, Isolation, Held, Intended
<1>4. CASE IndexStep(p) /\ ~InsertHashCommit(p) /\ ~InsertLutCommit(p)
  BY <1>4 DEF IndexStep, InsertHash, InsertHashFails, InsertLutRow, InsertLutFails,
              IndexDone, IndexExit, IndexReturns
<1>5. CASE LoopStep(p) /\ ~AnnotateCommit(p)
  BY <1>5 DEF LoopStep, DumpQuery, DumpNothing, DumpStale, QueryEnd, AnnotateFails
<1>6. CASE PurgeStep(p) /\ ~PurgeCommit(p)
  BY <1>6 DEF PurgeStep, List, Listed, NothingPruned, DeleteRaw, DeleteLut,
              DeleteMarks, PurgeCommitRefused, PurgeEnd
<1>7. CASE UserStep(p)
  BY <1>7 DEF UserStep, StartIndex, StartRead, EndRead, StartPrune, Key, Quit,
              Annotate, AnnotateRefused, Confirm, Decline
<1>8. CASE Crash(p)
  BY <1>8 DEF Crash
<1>. QED
  BY <1>1, <1>2, <1>3, <1>4, <1>5, <1>6, <1>7, <1>8 DEF Step, ProcessStep

\* A purge takes exactly the marked entries, with all that belongs to them.
THEOREM PurgeExact == Spec => PurgeIsExact
<1>. DEFINE Exact == db.raw \ db'.raw # {}
                       => /\ db'.raw = db.raw \ db.marked
                          /\ \A r \in db.lut : r \in db'.lut <=> r[1] \notin db.marked
                          /\ db'.marked = {}
<1>1. ASSUME IsolatedNow, NEW p \in Proc, Step(p) PROVE Exact
  <2>1. CASE PurgeCommit(p)
    BY <1>1, <2>1, PurgeEffect
  <2>2. CASE ~PurgeCommit(p)
    <3>1. db.raw \subseteq db'.raw
      BY <1>1, <2>2, StepEffect
      DEF IsolatedNow, Typed, TypeOK, Tables, InsertRaw, InsertLut, MarkPrune, UnmarkPrune
    <3>. QED
      BY <3>1
  <2>. QED
    BY <2>1, <2>2
<1>2. IsolatedNow /\ [Next]_vars => [Exact]_vars
  BY <1>1 DEF Next, Step
<1>. QED
  BY <1>2, AlwaysIsolated, PTL DEF Spec, PurgeIsExact

\* Every step of a process is a step of CommandIndex, or none.
LEMMA StepRefines ==
  ASSUME IsolatedNow, NEW p \in Proc, Step(p)
  PROVE  [Abstract!ANext]_(Abstract!avars)
<1>. USE DEF IsolatedNow, Typed, TypeOK, Tables
<1>1. CASE UNCHANGED db
  BY <1>1 DEF Abstract!avars, Searchable
<1>2. ASSUME NEW c \in Cmd, db' = InsertRaw(db, c)
      PROVE  Abstract!Record(c)
  <2>1. db'.raw = db.raw \cup {c} /\ db'.lut = db.lut /\ db'.marked = db.marked
    BY <1>2 DEF InsertRaw
  <2>2. CASE RowsOf(c) \subseteq db.lut
    <3>1. Searchable(db)' = Searchable(db) \cup {c}
      BY <2>1, <2>2 DEF Searchable
    <3>. QED
      BY <2>1, <3>1 DEF Abstract!Record
  <2>3. CASE ~(RowsOf(c) \subseteq db.lut)
    <3>1. Searchable(db)' = Searchable(db)
      BY <2>1, <2>3 DEF Searchable
    <3>. QED
      BY <2>1, <3>1 DEF Abstract!Record
  <2>. QED
    BY <2>2, <2>3
<1>3. ASSUME NEW c \in Cmd, NEW i \in Nat, db' = InsertLut(db, RowAt(c, i))
      PROVE  Abstract!Complete(c) \/ UNCHANGED Abstract!avars
  <2>1. /\ db'.raw = db.raw /\ db'.marked = db.marked
        /\ db'.lut = db.lut \cup {RowAt(c, i)}
    BY <1>3 DEF InsertLut
  <2>2. \A x \in Cmd \ {c} : RowsOf(x) \subseteq db'.lut <=> RowsOf(x) \subseteq db.lut
    BY <2>1 DEF RowsOf, RowAt
  <2>3. CASE c \in db.raw /\ RowsOf(c) \subseteq db'.lut
    <3>1. Searchable(db)' = Searchable(db) \cup {c}
      BY <2>1, <2>2, <2>3 DEF Searchable
    <3>. QED
      BY <2>1, <2>3, <3>1 DEF Abstract!Complete
  <2>4. CASE ~(c \in db.raw /\ RowsOf(c) \subseteq db'.lut)
    <3>1. Searchable(db)' = Searchable(db)
      BY <2>1, <2>2, <2>4 DEF Searchable
    <3>. QED
      BY <2>1, <3>1 DEF Abstract!avars
  <2>. QED
    BY <2>3, <2>4
<1>4. ASSUME NEW c \in Cmd, db' = MarkPrune(db, c) \/ db' = UnmarkPrune(db, c)
      PROVE  Abstract!Mark(c) \/ Abstract!Unmark(c)
  <2>1. db'.raw = db.raw /\ db'.lut = db.lut
    BY <1>4 DEF MarkPrune, UnmarkPrune
  <2>2. db'.marked = db.marked \cup {c} \/ db'.marked = db.marked \ {c}
    BY <1>4 DEF MarkPrune, UnmarkPrune
  <2>3. Searchable(db)' = Searchable(db)
    BY <2>1 DEF Searchable
  <2>. QED
    BY <2>1, <2>2, <2>3 DEF Abstract!Mark, Abstract!Unmark
<1>5. CASE PurgeCommit(p)
  <2>1. /\ db'.raw = db.raw \ db.marked
        /\ db'.lut = {r \in db.lut : r[1] \notin db.marked}
        /\ db'.marked = {}
    BY <1>5, PurgeEffect
  <2>2. \A c \in Cmd : \A r \in RowsOf(c) : r[1] = c
    BY DEF RowsOf, RowAt
  <2>3. Searchable(db)' = Searchable(db) \ db.marked
    BY <2>1, <2>2 DEF Searchable
  <2>. QED
    BY <2>1, <2>3 DEF Abstract!ANext, Abstract!Prune
<1>. QED
  BY <1>1, <1>2, <1>3, <1>4, <1>5, StepEffect DEF Abstract!ANext

\* The history implements the promise of CommandIndex.
THEOREM Refinement == Spec => Abstract!ASpec
<1>1. Init => Abstract!AInit
  BY DEF Init, EmptyTables, Abstract!AInit, Searchable
<1>2. IsolatedNow /\ [Next]_vars => [Abstract!ANext]_(Abstract!avars)
  <2>1. ASSUME IsolatedNow, UNCHANGED vars PROVE UNCHANGED Abstract!avars
    BY <2>1 DEF vars, Abstract!avars, Searchable
  <2>. QED
    BY <2>1, StepRefines DEF Next, Step
<1>. QED
  BY <1>1, <1>2, AlwaysIsolated, PTL DEF Spec, Abstract!ASpec

\* The terminals over three tables implement CommandIndex: KeepsPromise of the run
\* two_pruners, for any terminals, commands and n-grams.
THEOREM PromiseKept == Spec => KeepsPromise
BY Refinement DEF KeepsPromise

-----------------------------------------------------------------------------
(***************************************************************************)
(* Prune in one terminal at a time: what a purge removes is what its user   *)
(* confirmed, and no mark outlives its entry.  With two pruners the first   *)
(* fails (run lost_confirmation), and so can the second: a prune may mark   *)
(* an entry that another one has purged meanwhile.                          *)
(***************************************************************************)

OnePruner == \A p, q \in Pruners : p = q

LoopPC == {"explore", "annotate", "dump", "query"}
ListPC == {"prompt", "purgeRaw", "purgeLut", "purgeMarks", "purgeCommit"}
PrunePC == LoopPC \cup ListPC \cup {"list", "listing", "close"}

\* What prune relies on in one process.
Sure(p) ==
  /\ pc[p] \in PrunePC => p \in Pruners
  /\ pc[p] \notin LoopPC => view[p] = {}
  /\ \A h \in view[p] : h[1] \in db.raw
  /\ pc[p] = "annotate" => cache.marked \subseteq db.raw
  /\ pc[p] \in ListPC => listed[p] = Candidates(db)

SureNow == IsolatedNow /\ db.marked \subseteq db.raw /\ \A p \in Proc : Sure(p)

\* The tables change under a process that is in the middle of prune only by an
\* index, which adds entries and n-grams but no marks.
Grown == db.raw \subseteq db'.raw /\ db'.marked = db.marked

\* What a prune has on its screen is its own.
LEMMA OtherViews ==
  ASSUME IsolatedNow, NEW p \in Proc, Step(p), NEW q \in Proc \ {p}
  PROVE  view'[q] = view[q] /\ listed'[q] = listed[q]
<1>. USE DEF IsolatedNow, Typed, TypeOK
<1>1. CASE IndexStep(p)
  BY <1>1 DEF IndexStep, InsertHash, InsertHashCommit, InsertHashFails, InsertLutRow,
              InsertLutCommit, InsertLutFails, IndexDone, IndexExit, IndexReturns, Leave
<1>2. CASE LoopStep(p) /\ ~QueryEnd(p)
  BY <1>2 DEF LoopStep, DumpQuery, DumpNothing, DumpStale, AnnotateCommit, AnnotateFails
<1>3. CASE QueryEnd(p)
  BY <1>3 DEF QueryEnd
<1>4. CASE PurgeStep(p)
  BY <1>4 DEF PurgeStep, List, Listed, NothingPruned, DeleteRaw, DeleteLut, DeleteMarks,
              PurgeCommit, PurgeCommitRefused, PurgeEnd, Leave
<1>5. CASE UserStep(p)
  BY <1>5 DEF UserStep, StartIndex, StartRead, EndRead, StartPrune, Key, Quit,
              Annotate, AnnotateRefused, Confirm, Decline, Leave
<1>6. CASE Crash(p)
  BY <1>6 DEF Crash, Leave
<1>. QED
  BY <1>1, <1>2, <1>3, <1>4, <1>5, <1>6 DEF Step, ProcessStep

\* A process that ends, or is outside prune, has nothing to be sure of.
LEMMA LeaveSure ==
  ASSUME SureNow, NEW p \in Proc, Leave(p)
  PROVE  Sure(p)'
<1>1. pc'[p] = "idle" /\ view'[p] = {}
  BY DEF Leave, SureNow, IsolatedNow, Typed, TypeOK
<1>. QED
  BY <1>1 DEF Sure, PrunePC, LoopPC, ListPC

\* An index only adds entries and n-grams under a prune.
LEMMA IndexSure ==
  ASSUME SureNow, NEW p \in Proc, IndexStep(p)
  PROVE  Grown /\ Sure(p)'
<1>. USE DEF SureNow, IsolatedNow, Typed, TypeOK
<1>1. CASE InsertHashCommit(p) \/ InsertLutCommit(p)
  <2>1. db' = InsertRaw(db, job[p]) \/ db' = InsertLut(db, RowAt(job[p], pos[p]))
    BY <1>1 DEF InsertHashCommit, InsertLutCommit, Commit, Goto, Isolation, Held, Intended
  <2>2. Grown
    BY <2>1 DEF Grown, InsertRaw, InsertLut, Tables
  <2>3. pc[p] \notin LoopPC /\ pc'[p] = "lut" /\ view' = view
    BY <1>1 DEF InsertHashCommit, InsertLutCommit, Goto, LoopPC
  <2>. QED
    BY <2>2, <2>3 DEF Sure, PrunePC, LoopPC, ListPC
<1>2. CASE IndexExit(p)
  BY <1>2, LeaveSure DEF IndexExit, Grown
<1>3. CASE InsertHash(p) \/ InsertLutRow(p)
  BY <1>3 DEF InsertHash, InsertLutRow, Goto, Grown, Sure, PrunePC, LoopPC, ListPC
<1>4. CASE InsertHashFails(p) \/ InsertLutFails(p) \/ IndexDone(p)
  BY <1>4 DEF InsertHashFails, InsertLutFails, IndexDone, IndexReturns, Goto, Grown, Sure,
              PrunePC, LoopPC, ListPC
<1>. QED
  BY <1>1, <1>2, <1>3, <1>4 DEF IndexStep

\* The explore loop marks entries that are there.
LEMMA LoopSure ==
  ASSUME SureNow, NEW p \in Proc, LoopStep(p)
  PROVE  db'.raw = db.raw /\ db'.marked \subseteq db.raw /\ Sure(p)' /\ p \in Pruners
<1>. USE DEF SureNow, IsolatedNow, Typed, TypeOK
<1>0. p \in Pruners /\ pc[p] \in LoopPC
  BY DEF LoopStep, DumpQuery, DumpNothing, DumpStale, QueryEnd, AnnotateCommit,
         AnnotateFails, Goto, Sure, PrunePC, LoopPC
<1>1. CASE DumpQuery(p) \/ DumpNothing(p) \/ DumpStale(p) \/ AnnotateFails(p)
  BY <1>0, <1>1 DEF DumpQuery, DumpNothing, DumpStale, AnnotateFails, Goto, Sure,
                    PrunePC, LoopPC, ListPC
<1>2. CASE QueryEnd(p)
  <2>1. PICK found \in SUBSET db.raw :
          \E kept \in SUBSET {h \in view[p] : h[2] /\ found # {}} :
             view' = [view EXCEPT ![p] = {<<c, c \in db.marked>> : c \in found} \cup kept]
    BY <1>2 DEF QueryEnd
  <2>2. PICK kept \in SUBSET {h \in view[p] : h[2] /\ found # {}} :
          view'[p] = {<<c, c \in db.marked>> : c \in found} \cup kept
    BY <2>1
  <2>3. \A h \in kept : h[1] \in db.raw
    BY DEF Sure
  <2>4. \A h \in {<<c, c \in db.marked>> : c \in found} : h[1] \in db.raw
    OBVIOUS
  <2>5. \A h \in view'[p] : h[1] \in db.raw
    BY <2>2, <2>3, <2>4
  <2>6. pc'[p] = "explore" /\ db' = db
    BY <1>2 DEF QueryEnd, Goto
  <2>. QED
    BY <1>0, <2>5, <2>6 DEF Sure, PrunePC, LoopPC, ListPC
<1>3. CASE AnnotateCommit(p)
  <2>1. db' = cache /\ db'.raw = db.raw
    BY <1>3, AnnotateKeeps DEF AnnotateCommit, Commit
  <2>2. db'.marked \subseteq db.raw
    BY <1>3, <2>1 DEF AnnotateCommit, Goto, Sure
  <2>. QED
    BY <1>0, <1>3, <2>1, <2>2 DEF AnnotateCommit, Goto, Sure, PrunePC, LoopPC, ListPC
<1>. QED
  BY <1>1, <1>2, <1>3 DEF LoopStep

\* A purge leaves no marks, and takes what is listed.
LEMMA PurgeSure ==
  ASSUME SureNow, NEW p \in Proc, PurgeStep(p)
  PROVE  /\ Sure(p)'
         /\ \/ db' = db
            \/ /\ p \in Pruners /\ db'.marked = {}
               /\ db.raw \ db'.raw = listed[p]
<1>. USE DEF SureNow, IsolatedNow, Typed, TypeOK
<1>1. CASE NothingPruned(p) \/ PurgeEnd(p)
  BY <1>1, LeaveSure DEF NothingPruned, PurgeEnd
<1>2. CASE PurgeCommit(p)
  <2>1. pc[p] = "purgeCommit" /\ pc'[p] = "close" /\ view' = view
    BY <1>2 DEF PurgeCommit, Goto
  <2>2. p \in Pruners /\ listed[p] = Candidates(db) /\ view[p] = {}
    BY <2>1 DEF Sure, PrunePC, ListPC, LoopPC
  <2>3. db'.raw = db.raw \ db.marked /\ db'.marked = {}
    BY <1>2, PurgeEffect
  <2>4. Sure(p)'
    BY <2>1, <2>2 DEF Sure, PrunePC, ListPC, LoopPC
  <2>5. db.raw \ db'.raw = listed[p]
    BY <2>2, <2>3 DEF Candidates
  <2>. QED
    BY <2>2, <2>3, <2>4, <2>5
<1>3. CASE Listed(p)
  BY <1>3 DEF Listed, Goto, Sure, Candidates, PrunePC, ListPC, LoopPC
<1>4. CASE List(p) \/ DeleteRaw(p) \/ DeleteLut(p) \/ DeleteMarks(p) \/ PurgeCommitRefused(p)
  BY <1>4 DEF List, DeleteRaw, DeleteLut, DeleteMarks, PurgeCommitRefused, Goto, Sure,
              Candidates, PrunePC, ListPC, LoopPC
<1>. QED
  BY <1>1, <1>2, <1>3, <1>4 DEF PurgeStep

\* What users start and decide leaves the committed tables alone.
LEMMA UserSure ==
  ASSUME SureNow, NEW p \in Proc, UserStep(p)
  PROVE  db' = db /\ Sure(p)'
<1>. USE DEF SureNow, IsolatedNow, Typed, TypeOK
<1>1. ASSUME NEW c \in Cmd, StartIndex(p, c) PROVE db' = db /\ Sure(p)'
  BY <1>1 DEF StartIndex, Goto, Sure, PrunePC, ListPC, LoopPC
<1>2. CASE EndRead(p) \/ Decline(p)
  BY <1>2, LeaveSure DEF EndRead, Decline
<1>3. ASSUME NEW h \in Hit, Annotate(p, h) PROVE db' = db /\ Sure(p)'
  <2>1. cache' = IF h[2] THEN UnmarkPrune(db, h[1]) ELSE MarkPrune(db, h[1])
    BY <1>3 DEF Annotate, BeginWrite
  <2>2. h[1] \in db.raw
    BY <1>3 DEF Annotate, Sure
  <2>3. cache'.marked \subseteq db.raw
    BY <2>1, <2>2 DEF UnmarkPrune, MarkPrune, Tables
  <2>. QED
    BY <1>3, <2>3 DEF Annotate, Goto, Sure, PrunePC, ListPC, LoopPC
<1>4. CASE StartRead(p) \/ StartPrune(p) \/ Key(p) \/ Confirm(p) \/ AnnotateRefused(p)
  BY <1>4 DEF StartRead, StartPrune, Key, Confirm, AnnotateRefused, Goto, Sure, Candidates,
              PrunePC, ListPC, LoopPC
<1>5. CASE Quit(p)
  BY <1>5 DEF Quit, Goto, Sure, PrunePC, ListPC, LoopPC
<1>. QED
  BY <1>1, <1>2, <1>3, <1>4, <1>5 DEF UserStep

\* All steps together.
LEMMA StepSure ==
  ASSUME SureNow, NEW p \in Proc, Step(p)
  PROVE  /\ Sure(p)'
         /\ \/ Grown
            \/ p \in Pruners /\ db'.raw = db.raw /\ db'.marked \subseteq db.raw
            \/ p \in Pruners /\ db'.marked = {} /\ db.raw \ db'.raw = listed[p]
<1>1. CASE Crash(p)
  BY <1>1, LeaveSure DEF Crash, Grown
<1>2. CASE UserStep(p)
  BY <1>2, UserSure DEF Grown
<1>3. CASE ProcessStep(p)
  BY <1>3, IndexSure, LoopSure, PurgeSure DEF ProcessStep, Grown
<1>. QED
  BY <1>1, <1>2, <1>3 DEF Step

\* With one pruner, marks stay on entries and the list stays true.
LEMMA NextSure == OnePruner /\ SureNow /\ [Next]_vars => SureNow'
<1>. SUFFICES ASSUME OnePruner, SureNow, [Next]_vars
              PROVE  db'.marked \subseteq db'.raw /\ \A q \in Proc : Sure(q)'
  BY NextIsolated DEF SureNow
<1>1. ASSUME NEW p \in Proc, Step(p)
      PROVE  db'.marked \subseteq db'.raw /\ \A q \in Proc : Sure(q)'
  <2>1. db'.marked \subseteq db'.raw
    BY <1>1, StepSure DEF SureNow, Grown
  <2>2. ASSUME NEW q \in Proc \ {p} PROVE Sure(q)'
    <3>1. /\ pc'[q] = pc[q] /\ lock'[q] = lock[q]
          /\ view'[q] = view[q] /\ listed'[q] = listed[q]
      BY <1>1, OtherViews, StepContained DEF SureNow, Contained, OthersKept
    <3>2. pc[q] = "annotate" => cache' = cache
      BY <1>1, StepContained
      DEF SureNow, IsolatedNow, Isolation, Held, Contained, MayReserve, Writing
    <3>3. CASE Grown
      <4>1. Candidates(db)' = Candidates(db)
        BY <3>3 DEF Grown, Candidates, SureNow
      <4>. QED
        BY <3>1, <3>2, <3>3, <4>1 DEF Grown, Sure, SureNow
    <3>4. CASE p \in Pruners
      <4>1. q \notin Pruners
        BY <3>4 DEF OnePruner
      <4>2. pc[q] \notin PrunePC /\ view[q] = {}
        BY <4>1 DEF SureNow, Sure, PrunePC
      <4>. QED
        BY <3>1, <4>2 DEF Sure, PrunePC, LoopPC, ListPC
    <3>. QED
      BY <1>1, <3>3, <3>4, StepSure
  <2>. QED
    BY <1>1, <2>1, <2>2, StepSure
<1>2. CASE UNCHANGED vars
  BY <1>2 DEF vars, SureNow, Sure, Candidates
<1>. QED
  BY <1>1, <1>2 DEF Next, Step

\* Nothing is marked at first.
LEMMA InitSure == Init => SureNow
<1>1. Init => db.marked \subseteq db.raw /\ \A p \in Proc : Sure(p)
  BY DEF Init, EmptyTables, Sure, PrunePC, LoopPC, ListPC
<1>. QED
  BY <1>1, InitIsolated DEF SureNow

\* With one pruner at most, what it holds stays true of the database until its
\* purge commits.
THEOREM AlwaysSure == OnePruner => (Spec => []SureNow)
<1>. SUFFICES ASSUME OnePruner PROVE Spec => []SureNow
  OBVIOUS
<1>1. SureNow /\ [Next]_vars => SureNow'
  BY NextSure
<1>. QED
  BY <1>1, InitSure, PTL DEF Spec

\* With one pruner an entry is new in the history only without a mark.
THEOREM FreshIsUnmarked == OnePruner => (Spec => FreshUnmarked)
<1>. DEFINE Unmarked == \A c \in db'.raw \ db.raw : c \notin db'.marked
<1>1. SureNow /\ [Next]_vars => [Unmarked]_vars
  <2>1. ASSUME SureNow, NEW p \in Proc, Step(p) PROVE Unmarked
    BY <2>1, StepSure DEF SureNow, Grown
  <2>. QED
    BY <2>1 DEF Next, Step
<1>. QED
  BY <1>1, AlwaysSure, PTL DEF Spec, FreshUnmarked

\* With one pruner a purge removes exactly what its user confirmed.
THEOREM PurgeConfirmed == OnePruner => (Spec => PurgeIsConfirmed)
<1>. DEFINE Confirmed == \A p \in Proc :
                           pc[p] = "purgeCommit" /\ db'.raw # db.raw
                             => db.raw \ db'.raw = listed[p]
<1>1. ASSUME SureNow, NEW p \in Proc, Step(p) PROVE Confirmed
  <2>. SUFFICES ASSUME NEW q \in Proc, pc[q] = "purgeCommit", db'.raw # db.raw
                PROVE  db.raw \ db'.raw = listed[q]
    OBVIOUS
  <2>1. Writing(q)
    BY <1>1 DEF SureNow, IsolatedNow, Isolation, Held, Writing
  <2>2. p = q
    BY <1>1, <2>1, StepContained DEF SureNow, Contained, MayReserve
  <2>3. CASE PurgeStep(p)
    BY <1>1, <2>2, <2>3, PurgeSure
  <2>4. CASE Crash(p)
    BY <2>4 DEF Crash
  <2>5. CASE UserStep(p)
    BY <1>1, <2>5, UserSure
  <2>6. ~IndexStep(p) /\ ~LoopStep(p)
    BY <2>2 DEF IndexStep, InsertHash, InsertHashCommit, InsertHashFails, InsertLutRow,
                InsertLutCommit, InsertLutFails, IndexDone, IndexExit, IndexReturns,
                LoopStep, DumpQuery, DumpNothing, DumpStale, QueryEnd, AnnotateCommit,
                AnnotateFails, Goto
  <2>. QED
    BY <1>1, <2>2, <2>3, <2>4, <2>5, <2>6 DEF Step, ProcessStep
<1>2. SureNow /\ [Next]_vars => [Confirmed]_vars
  BY <1>1 DEF Next, Step
<1>. QED
  BY <1>2, AlwaysSure, PTL DEF Spec, PurgeIsConfirmed

=============================================================================
