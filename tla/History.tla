------------------------------ MODULE History -------------------------------
(***************************************************************************)
(* The command history shared by every terminal: the tables cmdraw, cmdlut  *)
(* and cmdan of one database file, and the histx processes that work on it  *)
(* at the same time.  A process of Proc is a terminal; when idle it starts  *)
(* one of the subcommands of main.c:                                        *)
(*    index  insert_hash, then one insert_lut for each n-gram, each of them *)
(*           an autocommit statement of its own                             *)
(*    find, cat   one select, stepped row by row                            *)
(*    prune  the explore loop that marks and unmarks entries, then the      *)
(*           confirmation and the purge transaction                         *)
(* A command is identified with its SHA-256 hash; its n-grams are an        *)
(* arbitrary sequence, in the order gen_ngrams produces them.               *)
(***************************************************************************)
EXTENDS Naturals, Sequences, Sqlite

CONSTANTS
  Cmd,        \* the commands a user may run
  Gram,       \* the n-gram values
  Grams,      \* the n-grams of each command, in gen_ngrams' order
  Pruners,    \* the terminals in which prune is ever started
  None        \* no command

ASSUME GramsAssumption == Grams \in [Cmd -> Seq(Gram)]
ASSUME PrunersAssumption == Pruners \subseteq Proc
ASSUME NoneAssumption == None \notin Cmd

VARIABLES
  db,         \* the committed tables
  cache,      \* the tables as the open write transaction sees them
  pc,         \* where each process is
  job,        \* index: the command being indexed
  pos,        \* index: the next n-gram to insert
  view,       \* prune: the hits held, each with the annotation seen with it
  listed,     \* prune: the entries shown under "TO BE PRUNED"
  owed        \* history variable: n-gram rows an aborted index never inserted

vars == <<lock, db, cache, pc, job, pos, view, listed, owed>>

-----------------------------------------------------------------------------
(* The tables.  cmdraw is a set of commands (unique on hash), cmdlut a set  *)
(* of pairs (unique on ngram, hash), cmdan the commands annotated "prune".  *)

Row == Cmd \X Gram

Tables == [raw : SUBSET Cmd, lut : SUBSET Row, marked : SUBSET Cmd]

InsertRaw(d, c)    == [d EXCEPT !.raw = @ \cup {c}]
InsertLut(d, r)    == [d EXCEPT !.lut = @ \cup {r}]
\* A bug the properties must see: a mark on what is no command.
MarkNothing(d, c)  == [d EXCEPT !.marked = @ \cup {None}]

MarkPrune(d, c)    == [d EXCEPT !.marked = @ \cup {c}]
UnmarkPrune(d, c)  == [d EXCEPT !.marked = @ \ {c}]

\* Bugs the properties must see: a purge that takes everything, that goes by
\* n-gram, that clears the marks too early or never.
PurgeRawAll(d)     == [d EXCEPT !.raw = {}]
PurgeRawMarks(d)   == [d EXCEPT !.raw = @ \ d.marked, !.marked = {}]
PurgeLutByGram(d)  == [d EXCEPT !.lut = {r \in @ : ~\E s \in @ : s[1] \in d.marked /\ s[2] = r[2]}]
PurgeNoMarks(d)    == d

PurgeRaw(d)   == [d EXCEPT !.raw = @ \ d.marked]
PurgeLut(d)   == [d EXCEPT !.lut = {r \in @ : r[1] \notin d.marked}]
PurgeMarks(d) == [d EXCEPT !.marked = {}]

\* The entries confirm_prune lists: cmdraw joined with the annotations.
Candidates(d) == d.raw \cap d.marked

\* The row that the n-gram at position i of command c needs.
RowAt(c, i) == <<c, Grams[c][i]>>

RowsOf(c) == {RowAt(c, i) : i \in 1 .. Len(Grams[c])}

-----------------------------------------------------------------------------
IndexPC == {"hash", "hashCommit", "lut", "lutCommit", "returnTrue", "returnFalse"}
PurgePC == {"purgeRaw", "purgeLut", "purgeMarks", "purgeCommit", "close"}
PC == {"idle", "reading"} \cup IndexPC \cup PurgePC
        \cup {"explore", "annotate", "dump", "query", "list", "listing", "prompt"}

\* A hit in the explore arrays: the command, and whether it was fetched as
\* annotated (hitsannotations[i] == 1).
Hit == Cmd \X BOOLEAN

\* The index_cmd of p has an n-gram left to insert.
More(p) == pos[p] <= Len(Grams[job[p]])

\* The rows the running index_cmd of p has still to insert.
Pending(p) ==
  IF pc[p] \in {"lut", "lutCommit"}
  THEN {RowAt(job[p], i) : i \in pos[p] .. Len(Grams[job[p]])}
  ELSE {}

TypeOK ==
  /\ lock \in [Proc -> Level]
  /\ db \in Tables
  /\ cache \in Tables
  /\ pc \in [Proc -> PC]
  /\ job \in [Proc -> Cmd \cup {None}]
  /\ pos \in [Proc -> Nat \ {0}]
  /\ view \in [Proc -> SUBSET Hit]
  /\ listed \in [Proc -> SUBSET Cmd]
  /\ owed \in SUBSET Row

EmptyTables == [raw |-> {}, lut |-> {}, marked |-> {}]

Init ==
  /\ LockInit
  /\ db = EmptyTables
  /\ cache = EmptyTables
  /\ pc = [p \in Proc |-> "idle"]
  /\ job = [p \in Proc |-> None]
  /\ pos = [p \in Proc |-> 1]
  /\ view = [p \in Proc |-> {}]
  /\ listed = [p \in Proc |-> {}]
  /\ owed = {}

-----------------------------------------------------------------------------
(* Steps shared by the subcommands. *)

Goto(p, from, to) == pc[p] = from /\ pc' = [pc EXCEPT ![p] = to]

\* The lock of p is given up, and with it what an open transaction has written.
Rollback(p) ==
  /\ Release(p)
  /\ cache' = IF Writing(p) THEN EmptyTables ELSE cache

\* p stops inserting n-grams: those it has not inserted are now owed.
Abandon(p) == owed' = owed \cup (Pending(p) \ db.lut)

\* The process ends, and its connection is closed.
Leave(p) ==
  /\ pc' = [pc EXCEPT ![p] = "idle"]
  /\ Rollback(p)
  /\ Abandon(p)
  /\ job' = [job EXCEPT ![p] = None]
  /\ pos' = [pos EXCEPT ![p] = 1]
  /\ view' = [view EXCEPT ![p] = {}]
  /\ listed' = [listed EXCEPT ![p] = {}]

\* A write statement opens a transaction with tables d in its cache.
BeginWrite(p, d) == MayReserve(p) /\ Take(p, "reserved") /\ cache' = d

\* The transaction of p becomes the committed state.
Commit(p) == MayCommit(p) /\ db' = cache /\ Rollback(p)

-----------------------------------------------------------------------------
(* histx index.  Every statement of it commits by itself, and one that is   *)
(* refused is not retried: insert_hash gives the command up, while a failed  *)
(* insert_lut stops gen_ngrams, whose result index_cmd does not look at.     *)

\* A bug: the error path of insert_lut or insert_hash without sqlite3_finalize.
IndexReturnsHolding(p, from, result) ==
  /\ Goto(p, from, result)
  /\ Abandon(p)
  /\ pos' = [pos EXCEPT ![p] = 1]
  /\ UNCHANGED <<lock, cache, db, job, view, listed>>

IndexReturns(p, from, result) ==
  /\ Goto(p, from, result)
  /\ Rollback(p)
  /\ Abandon(p)
  /\ pos' = [pos EXCEPT ![p] = 1]
  /\ UNCHANGED <<db, job, view, listed>>

\* A process that init cannot open the database for has no effect.
StartIndex(p, c) ==
  /\ MayRead(p)
  /\ Goto(p, "idle", "hash")
  /\ job' = [job EXCEPT ![p] = c]
  /\ UNCHANGED <<lock, db, cache, pos, view, listed, owed>>

InsertHash(p) ==
  /\ Goto(p, "hash", "hashCommit")
  /\ BeginWrite(p, InsertRaw(db, job[p]))
  /\ UNCHANGED <<db, job, pos, view, listed, owed>>

InsertHashCommit(p) ==
  /\ Goto(p, "hashCommit", "lut")
  /\ Commit(p)
  /\ owed' = owed \ RowsOf(job[p])
  /\ UNCHANGED <<job, pos, view, listed>>

\* A bug: with a busy handler that never gives up, nothing is ever refused.
InsertHashWaits(p) == FALSE

InsertHashFails(p) ==
  \/ ~MayReserve(p) /\ IndexReturns(p, "hash", "returnFalse")
  \/ ~MayCommit(p) /\ IndexReturns(p, "hashCommit", "returnFalse")

InsertLutRow(p) ==
  /\ Goto(p, "lut", "lutCommit")
  /\ More(p)
  /\ BeginWrite(p, InsertLut(db, RowAt(job[p], pos[p])))
  /\ UNCHANGED <<db, job, pos, view, listed, owed>>

InsertLutCommit(p) ==
  /\ Goto(p, "lutCommit", "lut")
  /\ Commit(p)
  /\ pos' = [pos EXCEPT ![p] = @ + 1]
  /\ owed' = owed \ {RowAt(job[p], pos[p])}
  /\ UNCHANGED <<job, view, listed>>

InsertLutFails(p) ==
  \/ IndexReturns(p, "lut", "returnTrue") /\ More(p) /\ ~MayReserve(p)
  \/ ~MayCommit(p) /\ IndexReturns(p, "lutCommit", "returnTrue")

IndexDone(p) ==
  /\ IndexReturns(p, "lut", "returnTrue")
  /\ ~More(p)

\* main looks at no result of index_cmd.
IndexExit(p) ==
  /\ pc[p] \in {"returnTrue", "returnFalse"}
  /\ Leave(p)
  /\ UNCHANGED db

IndexStep(p) ==
  \/ InsertHash(p) \/ InsertHashCommit(p) \/ InsertHashFails(p)
  \/ InsertLutRow(p) \/ InsertLutCommit(p) \/ InsertLutFails(p)
  \/ IndexDone(p) \/ IndexExit(p)

-----------------------------------------------------------------------------
(* histx find and histx cat: the shared lock is held for as long as the     *)
(* rows are printed, which a pager may stretch without end.                  *)

StartRead(p) ==
  /\ Goto(p, "idle", "reading")
  /\ MayRead(p)
  /\ Take(p, "shared")
  /\ UNCHANGED <<db, cache, job, pos, view, listed, owed>>

EndRead(p) ==
  /\ pc[p] = "reading"
  /\ Leave(p)
  /\ UNCHANGED db

-----------------------------------------------------------------------------
(* histx prune, the explore loop. *)

\* The first dump_state has an empty line and asks the database nothing.
StartPrune(p) ==
  /\ p \in Pruners
  /\ MayRead(p)
  /\ Goto(p, "idle", "explore")
  /\ UNCHANGED <<lock, db, cache, job, pos, view, listed, owed>>

\* A key that edits the line or moves the selection leads to dump_state.
Key(p) ==
  /\ Goto(p, "explore", "dump")
  /\ UNCHANGED <<lock, db, cache, job, pos, view, listed, owed>>

DumpQuery(p) ==
  /\ Goto(p, "dump", "query")
  /\ MayRead(p)
  /\ Take(p, "shared")
  /\ UNCHANGED <<db, cache, job, pos, view, listed, owed>>

\* No keyword, or find_cmd refused: every hit is freed.
DumpNothing(p) ==
  /\ Goto(p, "dump", "explore")
  /\ view' = [view EXCEPT ![p] = {}]
  /\ UNCHANGED <<lock, db, cache, job, pos, listed, owed>>

\* The line has an open quote: nothing is searched, the hits stay.
DumpStale(p) ==
  /\ Goto(p, "dump", "explore")
  /\ UNCHANGED <<lock, db, cache, job, pos, view, listed, owed>>

\* The hits found replace those held, except that a row after the last new
\* hit is not freed when the annotation seen with it was "prune".
QueryEnd(p) ==
  /\ Goto(p, "query", "explore")
  /\ Release(p)
  /\ \E found \in SUBSET db.raw :
       \E kept \in SUBSET {h \in view[p] : h[2] /\ found # {}} :
          view' = [view EXCEPT ![p] = {<<c, c \in db.marked>> : c \in found} \cup kept]
  /\ UNCHANGED <<db, cache, job, pos, listed, owed>>

\* prune_current: what is done depends on the annotation seen with the hit,
\* not on the one the database has now.
Annotate(p, h) ==
  /\ Goto(p, "explore", "annotate")
  /\ h \in view[p]
  /\ BeginWrite(p, IF h[2] THEN UnmarkPrune(db, h[1]) ELSE MarkPrune(db, h[1]))
  /\ UNCHANGED <<db, job, pos, view, listed, owed>>

AnnotateCommit(p) ==
  /\ Goto(p, "annotate", "dump")
  /\ Commit(p)
  /\ UNCHANGED <<job, pos, view, listed, owed>>

\* The failure is printed and the loop goes on.
AnnotateRefused(p) ==
  /\ Goto(p, "explore", "dump")
  /\ view[p] # {}
  /\ ~MayReserve(p)
  /\ UNCHANGED <<lock, db, cache, job, pos, view, listed, owed>>

AnnotateFails(p) ==
  /\ Goto(p, "annotate", "dump")
  /\ ~MayCommit(p)
  /\ Rollback(p)
  /\ UNCHANGED <<db, job, pos, view, listed, owed>>

\* Enter, escape, SIGINT or SIGTERM: in prune mode all lead to confirm_prune,
\* which has no use for the hits.
Quit(p) ==
  /\ Goto(p, "explore", "list")
  /\ view' = [view EXCEPT ![p] = {}]
  /\ UNCHANGED <<lock, db, cache, job, pos, listed, owed>>

LoopStep(p) ==
  \/ DumpQuery(p) \/ DumpNothing(p) \/ DumpStale(p) \/ QueryEnd(p)
  \/ AnnotateCommit(p) \/ AnnotateFails(p)

-----------------------------------------------------------------------------
(* histx prune, the confirmation and the purge. *)

List(p) ==
  /\ Goto(p, "list", "listing")
  /\ MayRead(p)
  /\ Take(p, "shared")
  /\ UNCHANGED <<db, cache, job, pos, view, listed, owed>>

Listed(p) ==
  /\ Goto(p, "listing", "prompt")
  /\ Candidates(db) # {}
  /\ Release(p)
  /\ listed' = [listed EXCEPT ![p] = Candidates(db)]
  /\ UNCHANGED <<db, cache, job, pos, view, owed>>

\* "Unable to fetch prune candidates", "Nothing to prune".
NothingPruned(p) ==
  /\ \/ pc[p] = "list" /\ ~MayRead(p)
     \/ pc[p] = "listing" /\ Candidates(db) = {}
  /\ Leave(p)
  /\ UNCHANGED db

\* "Aborting prune": the marks stay.
Decline(p) ==
  /\ pc[p] = "prompt"
  /\ Leave(p)
  /\ UNCHANGED db

Confirm(p) ==
  /\ Goto(p, "prompt", "purgeRaw")
  /\ UNCHANGED <<lock, db, cache, job, pos, view, listed, owed>>

\* A bug: a purge without "begin", whose first delete commits by itself.
DeleteRawAlone(p) ==
  /\ Goto(p, "purgeRaw", "close")
  /\ MayReserve(p) /\ MayCommit(p)
  /\ db' = PurgeRaw(db)
  /\ UNCHANGED <<lock, cache, job, pos, view, listed, owed>>

DeleteRaw(p) ==
  /\ Goto(p, "purgeRaw", "purgeLut")
  /\ BeginWrite(p, PurgeRaw(db))
  /\ UNCHANGED <<db, job, pos, view, listed, owed>>

DeleteLut(p) ==
  /\ Goto(p, "purgeLut", "purgeMarks")
  /\ cache' = PurgeLut(cache)
  /\ UNCHANGED <<lock, db, job, pos, view, listed, owed>>

DeleteMarks(p) ==
  /\ Goto(p, "purgeMarks", "purgeCommit")
  /\ cache' = PurgeMarks(cache)
  /\ UNCHANGED <<lock, db, job, pos, view, listed, owed>>

PurgeCommit(p) ==
  /\ Goto(p, "purgeCommit", "close")
  /\ Commit(p)
  /\ owed' = {r \in owed : r[1] \notin db.marked}
  /\ UNCHANGED <<job, pos, view, listed>>

\* An explicit commit that is refused leaves the transaction open, with the
\* pending lock, until the connection is closed at the end of main.
PurgeCommitRefused(p) ==
  /\ Goto(p, "purgeCommit", "close")
  /\ ~MayCommit(p)
  /\ Take(p, "pending")
  /\ UNCHANGED <<db, cache, job, pos, view, listed, owed>>

\* The purge could not start, or is over.
PurgeEnd(p) ==
  /\ \/ pc[p] = "purgeRaw" /\ ~MayReserve(p)
     \/ pc[p] = "close"
  /\ Leave(p)
  /\ UNCHANGED db

PurgeStep(p) ==
  \/ List(p) \/ Listed(p) \/ NothingPruned(p)
  \/ DeleteRaw(p) \/ DeleteLut(p) \/ DeleteMarks(p)
  \/ PurgeCommit(p) \/ PurgeCommitRefused(p) \/ PurgeEnd(p)

-----------------------------------------------------------------------------
\* The process is killed or the machine stops; SQLite rolls back what was open.
Crash(p) ==
  /\ pc[p] # "idle"
  /\ Leave(p)
  /\ UNCHANGED db

\* What the user decides.
UserStep(p) ==
  \/ \E c \in Cmd : StartIndex(p, c)
  \/ StartRead(p) \/ EndRead(p)
  \/ StartPrune(p) \/ Key(p) \/ Quit(p)
  \/ AnnotateRefused(p) \/ \E h \in Hit : Annotate(p, h)
  \/ Confirm(p) \/ Decline(p)

\* What the process then does by itself.
ProcessStep(p) == IndexStep(p) \/ LoopStep(p) \/ PurgeStep(p)

Next == \E p \in Proc : UserStep(p) \/ ProcessStep(p) \/ Crash(p)

Spec == Init /\ [][Next]_vars

\* A running process is scheduled.  Nobody has to press a key, answer a prompt
\* or let a pager go on.
FairSpec == Spec /\ \A p \in Proc : WF_vars(ProcessStep(p))

-----------------------------------------------------------------------------
(* Properties. *)

\* The tables as their user sees them.
Searchable(d) == {c \in d.raw : RowsOf(c) \subseteq d.lut}

Abstract == INSTANCE CommandIndex WITH
  entries <- db.raw, marks <- db.marked, searchable <- Searchable(db)

\* The tables and the processes implement the promise of CommandIndex: in
\* particular an entry every n-gram of which was inserted is found by each of
\* them until a purge takes it, whatever is refused or killed meanwhile.
KeepsPromise == Abstract!ASpec

\* Locks are held where the code is inside a statement or a transaction, and
\* nowhere else.
Held(p) ==
  CASE pc[p] \in {"reading", "query", "listing"} -> {"shared"}
    [] pc[p] \in {"hashCommit", "lutCommit", "annotate", "purgeLut",
                  "purgeMarks", "purgeCommit"}    -> {"reserved"}
    [] pc[p] = "close"                            -> {"none", "pending"}
    [] OTHER                                      -> {"none"}

\* What an open transaction of p must have made of the committed tables.
Intended(p, d) ==
  CASE pc[p] = "hashCommit"  -> {InsertRaw(d, job[p])}
    [] pc[p] = "lutCommit"   -> {InsertLut(d, RowAt(job[p], pos[p]))}
    [] pc[p] = "annotate"    -> {MarkPrune(d, c) : c \in Cmd}
                                  \cup {UnmarkPrune(d, c) : c \in Cmd}
    [] pc[p] = "purgeLut"    -> {PurgeRaw(d)}
    [] pc[p] = "purgeMarks"  -> {PurgeLut(PurgeRaw(d))}
    [] pc[p] = "purgeCommit" -> {PurgeMarks(PurgeLut(PurgeRaw(d)))}

\* Every transaction that may still commit was computed from the tables as they
\* are committed now: no process overwrites what another one wrote in between,
\* although index, prune and purge take no lock of their own (index.c,
\* explore.c rely on one autocommit statement, or one transaction, at a time).
Isolation ==
  \A p \in Proc :
    /\ lock[p] \in Held(p)
    /\ lock[p] = "reserved" => cache \in Intended(p, db)
    /\ Writing(p) => MayReserve(p)

\* A command in the history lacks an n-gram only while some index_cmd is still
\* inserting it, or because an index_cmd was refused or killed before that row
\* (index.c:113): neither a purge nor a concurrent index of the same command
\* costs an entry its place in the search index.
LutComplete ==
  \A c \in db.raw : \A r \in RowsOf(c) \ db.lut :
    r \in owed \/ \E p \in Proc : r \in Pending(p)

\* Rows of cmdraw go only in a purge, which takes exactly the annotated ones,
\* with every n-gram and every annotation of theirs, in one committed step
\* (PURGE_PRUNES, explore.c:74).
PurgeIsExact ==
  [][db.raw \ db'.raw # {}
       => /\ db'.raw = db.raw \ db.marked
          /\ \A r \in db.lut : r \in db'.lut <=> r[1] \notin db.marked
          /\ db'.marked = {}]_vars

\* A purge removes just what the user was shown under "### TO BE PRUNED" and
\* confirmed, so that the count printed afterwards is right (explore.c:235, 293).
PurgeIsConfirmed ==
  [][\A p \in Proc :
       pc[p] = "purgeCommit" /\ db'.raw # db.raw
          => db.raw \ db'.raw = listed[p]]_vars

\* Half of it: nothing is removed that was not on the list.
OnlyListedPruned ==
  [][\A p \in Proc :
       pc[p] = "purgeCommit" /\ db'.raw # db.raw
          => db.raw \ db'.raw \subseteq listed[p]]_vars

\* A command run for the first time, or again after a purge, enters the history
\* unmarked: no annotation outlives the entry it was made for (cmdan has no
\* link to cmdraw, init.c:27).
FreshUnmarked ==
  [][\A c \in db'.raw \ db.raw : c \notin db'.marked]_vars

\* index_cmd returns true only when the command can be found by each of its
\* n-grams (test.c:123 takes the result that way).
TrueMeansComplete ==
  [][\A p \in Proc :
       pc[p] # "returnTrue" /\ pc'[p] = "returnTrue" /\ job[p] \in db.raw
          => RowsOf(job[p]) \subseteq db'.lut]_vars

\* No histx ever waits for another one: whatever the others hold, and for as
\* long as they hold it, a process comes back to its user (index.c, explore.c:
\* no busy handler, a refused statement is an error and not a wait).
AtUser == {"idle", "reading", "explore", "prompt"}

AlwaysAnswers == \A p \in Proc : pc[p] \notin AtUser ~> pc[p] \in AtUser

=============================================================================
