-------------------------------- MODULE Main ---------------------------------
(***************************************************************************)
(* The processes that the shell starts one after the other (main.c): each   *)
(* reads its options and its settings, works on the database and ends.      *)
(* Modules History and Migration have what happens when several run at      *)
(* once; here a query may fail, but nobody else writes.                     *)
(***************************************************************************)
EXTENDS Config, Find, Line

CONSTANTS
  Jobs,          \* the processes: the subcommand, its arguments, the file of
                 \* settings, the lines on the standard input, the keys typed
  Databases,     \* what is in the database at first: functions to time stamps
  MaxRuns,       \* bound of the model: the number of processes
  SearchKey,     \* "search-limit"
  Number,        \* strtonum: the strings that are numbers, and their values
  Lowest, Highest, Default,  \* the bounds of the limit, 5 and 20, and the limit without them
  Dash,          \* "-"
  None           \* no process

Commands == {"index", "find", "cat", "explore", "prune"}

ASSUME JobsAssumption ==
  \A p \in Jobs :
    /\ p.args \in Seq(Seq(Char)) /\ p.file \in Seq(Word) \cup {NoFile}
    /\ p.input \in IF p.command \in {"explore", "prune"} THEN Seq(Char) ELSE Seq(Seq(Char))
ASSUME DatabasesAssumption ==
  \A d \in Databases :
    /\ DOMAIN d \subseteq Seq(Char) /\ IsFiniteSet(DOMAIN d)
    /\ \A c \in DOMAIN d : d[c] \in Nat
ASSUME LimitAssumption == {Lowest, Highest, MaxRuns} \subseteq Nat /\ Default \in Lowest .. Highest
ASSUME NumberAssumption ==
  /\ SearchKey \in Word /\ Null \notin DOMAIN Number /\ \A v \in DOMAIN Number : Number[v] \in Int
  /\ \A w \in DOMAIN Spellings :
       SearchKey \notin {w} \cup Spellings[w] /\ ({w} \cup Spellings[w]) \cap DOMAIN Number = {}

VARIABLES
  main,          \* where main is: "shell" when no process runs
  job,           \* the process
  rest,          \* lines of the input, or keys, that are still to come
  line,          \* current_line, in explore
  status,        \* how the last process ended
  runs           \* how many there were

process == <<job, runs, status>>
typing == <<rest, line>>
database == <<raw, lut>>
search == <<keywords, found, machine>>
memory == <<SEARCH_LIMIT, settings, config, search, typing>>
vars == <<main, process, database, memory>>

Dated(d) == [c \in DOMAIN d |-> [ts |-> d[c], text |-> Encode(c)]]

GramRows(c) == Ngrams(c) \X {c}

MemoryInit ==
  /\ SEARCH_LIMIT = Default /\ rest = <<>> /\ line = <<>>
  /\ SettingsInit /\ ConfigInit /\ SearchInit

Init ==
  /\ main = "shell" /\ job = None /\ runs = 0 /\ status = "ok"
  /\ \E d \in Databases : raw = Dated(d) /\ lut = UNION {GramRows(c) : c \in DOMAIN d}
  /\ MemoryInit

\* The process ends: what it had in memory is gone.
Ends(st) ==
  /\ main' = "shell" /\ status' = st /\ job' = None
  /\ SEARCH_LIMIT' = Default /\ rest' = <<>> /\ line' = <<>>
  /\ DestroyConfig /\ ForgetConfig /\ ForgetSearch
  /\ UNCHANGED <<runs, database>>

Goes(from, to) == main = from /\ main' = to /\ UNCHANGED process

-----------------------------------------------------------------------------
(* Options and settings *)

Start(p) ==
  /\ main = "shell" /\ runs < MaxRuns
  /\ runs' = runs + 1
  /\ IF p.command \in Commands
     THEN /\ main' = "config" /\ job' = p /\ LoadConfig(p.file)
          /\ UNCHANGED <<status, SEARCH_LIMIT, search, typing>>
     ELSE main' = "shell" /\ status' = "usage" /\ UNCHANGED <<job, memory>>
  /\ UNCHANGED database

ReadConfig ==
  /\ main = "config" /\ Parse
  /\ UNCHANGED <<main, process, database, SEARCH_LIMIT, search, typing>>

BadConfig == main = "config" /\ loaded = "false" /\ Ends("failed")

\* The database is there, or it is not.
InitFails == main = "config" /\ loaded = "true" /\ Ends("failed")

Initialized ==
  /\ loaded = "true"
  /\ Goes("config", "limit")
  /\ GetSetting(SearchKey)
  /\ UNCHANGED <<database, SEARCH_LIMIT, config, search, typing>>

GetLimit ==
  /\ main = "limit" /\ Walk
  /\ UNCHANGED <<main, process, database, SEARCH_LIMIT, config, search, typing>>

\* A bug: the number is taken as it is.
AnyLimit(v) == IF v \in DOMAIN Number THEN Number[v] ELSE Default

\* strtonum fails on what is no number and on numbers out of bounds.
Limit(v) ==
  IF v \in DOMAIN Number THEN IF Number[v] \in Lowest .. Highest THEN Number[v] ELSE Default
  ELSE Default

SetLimit ==
  /\ main = "limit" /\ call = "none"
  /\ SEARCH_LIMIT' = Limit(answer[2])
  /\ Goes("limit", job.command)
  /\ UNCHANGED <<database, settings, config, search, typing>>

-----------------------------------------------------------------------------
(* index *)

Newline == 10

\* cmd[strcspn(cmd, "\n")] = 0
Cut(str) ==
  LET breaks == {i \in DOMAIN str : str[i] = Newline}
  IN IF breaks = {} THEN str
     ELSE SubSeq(str, 1, (CHOOSE i \in breaks : \A k \in breaks : i <= k) - 1)

\* reduce_cmd: the arguments with blanks between them, up to a line break.
Reduce(args) ==
  LET joined[i \in 1 .. Len(args)] ==
        IF i = 1 THEN args[1] ELSE joined[i - 1] \o <<32>> \o args[i]
  IN Cut(joined[Len(args)])

\* index_cmd.  Two commands of one millisecond have the same time stamp.
Record(cmd) ==
  /\ \E tick \in 0 .. 1 :
       LET times == {0} \cup {raw[c].ts : c \in DOMAIN raw}
           now == (CHOOSE t \in times : \A u \in times : u <= t) + tick
       IN raw' = With(raw, cmd, [ts |-> now, text |-> Encode(cmd)])
  /\ lut' = lut \cup GramRows(cmd)

\* strcmp(*iter, "-") without an argument.
IndexNothing == main = "index" /\ job.args = <<>> /\ Ends("crashed")

IndexArguments ==
  /\ main = "index" /\ job.args # <<>> /\ job.args[1] # Dash
  /\ Record(Reduce(job.args))
  /\ Goes("index", "leave")
  /\ UNCHANGED memory

IndexInput ==
  /\ main = "index" /\ job.args # <<>> /\ job.args[1] = Dash
  /\ rest' = job.input
  /\ Goes("index", "input")
  /\ UNCHANGED <<database, SEARCH_LIMIT, settings, config, search, line>>

\* get_cmd_from_stdin
IndexLine ==
  /\ main = "input" /\ rest # <<>>
  /\ IF Cut(Head(rest)) = <<>> THEN UNCHANGED database ELSE Record(Cut(Head(rest)))
  /\ rest' = Tail(rest)
  /\ UNCHANGED <<main, process, SEARCH_LIMIT, settings, config, search, line>>

InputEnds ==
  /\ rest = <<>>
  /\ Goes("input", "leave")
  /\ UNCHANGED <<database, memory>>

-----------------------------------------------------------------------------
(* find, and the searches of explore *)

others == <<SEARCH_LIMIT, settings, config>>

Find ==
  /\ Goes("find", "finding")
  /\ FindCmd(job.args)
  /\ UNCHANGED <<database, others, typing>>

\* dump_state: an open quote is no search.
Search(l) ==
  /\ line' = l
  /\ IF Split(l) = Unbalanced
     THEN main' = "type" /\ UNCHANGED search
     ELSE main' = "searching" /\ FindCmd(Split(l))
  /\ UNCHANGED <<process, database, others>>

Explore ==
  /\ main \in {"explore", "prune"}
  /\ rest' = job.input
  /\ Search(<<>>)

Type ==
  /\ main = "type" /\ rest # <<>>
  /\ rest' = Tail(rest)
  /\ Search(Manipulate(line, Head(rest)))

Searching ==
  /\ main \in {"finding", "searching"} /\ FindStep
  /\ UNCHANGED <<main, process, settings, config, typing>>

Searched ==
  /\ \/ Goes("finding", "leave")
     \/ Goes("searching", "type")
  /\ FindReturns
  /\ UNCHANGED <<database, others, typing>>

Crash == find \in {"crashed", "undefined"} /\ Ends(find)

\* cat only reads.  What Enter and a prune do is in Explore and History.
Leave ==
  /\ \/ main \in {"leave", "cat"}
     \/ main = "type" /\ rest = <<>>
  /\ Ends("ok")

-----------------------------------------------------------------------------
Step ==
  \/ ReadConfig \/ BadConfig \/ InitFails \/ Initialized \/ GetLimit \/ SetLimit
  \/ IndexNothing \/ IndexArguments \/ IndexInput \/ IndexLine \/ InputEnds
  \/ Find \/ Explore \/ Type \/ Searching \/ Searched \/ Crash \/ Leave

\* The shell stops at MaxRuns.
Stop == main = "shell" /\ runs = MaxRuns /\ UNCHANGED vars

Next == Step \/ Stop \/ \E p \in Jobs : Start(p)

Spec == Init /\ [][Next]_vars

FairSpec == Spec /\ WF_vars(Step)

-----------------------------------------------------------------------------
(* Properties *)

Places == {"shell", "config", "limit", "input", "finding", "searching", "type", "leave"}

\* The limit stays within bounds (main.c:181), every row has an encoded text and
\* all its n-grams (index.c:99), and the tables of the matcher hold what their
\* types allow (acs.c:110-117).
TypeOK ==
  /\ main \in Places \cup Commands /\ job \in Jobs \cup {None} /\ runs \in 0 .. MaxRuns
  /\ status \in {"ok", "usage", "failed", "crashed", "undefined"}
  /\ SEARCH_LIMIT \in Lowest .. Highest
  /\ \A c \in DOMAIN raw : raw[c].ts \in Nat /\ raw[c].text \in Seq(0 .. Pad)
  /\ lut = UNION {GramRows(c) : c \in DOMAIN raw}
  /\ child \in [DOMAIN child -> 1 .. nodes - 1] /\ value \in [DOMAIN value -> Word]
  /\ j \in 1 .. max_states /\ max_states \in Nat
  /\ g \in [DOMAIN g -> Trie] /\ DOMAIN g \subseteq Trie \X Column
  /\ fail \in [DOMAIN fail -> -MaxFail - 1 .. MaxFail]
  /\ out \in [DOMAIN out -> SUBSET (0 .. OutBits - 1)]

\* The rows of a file: what is before the first syntax error, in threes.
CompleteRows(file) ==
  {n \in 0 .. Len(file) \div 3 - 1 :
     \A i \in 1 .. 3 * (n + 1) : file[i] = Equals <=> i % 3 = 2}

\* Once main has read its settings, SEARCH_LIMIT is the number in the last row
\* for search-limit, or the default (main.c:178-189, config.l, config.y).
LimitConfigured ==
  main \notin {"shell", "config", "limit"} =>
    LET given == {n \in IF job.file = NoFile THEN {} ELSE CompleteRows(job.file) :
                    job.file[3 * n + 1] = SearchKey}
        last == CHOOSE n \in given : \A m \in given : m <= n
        limit == job.file[3 * last + 3]
    IN SEARCH_LIMIT =
         IF given # {} /\ limit \in DOMAIN Number /\ Number[limit] \in Lowest .. Highest
         THEN Number[limit] ELSE Default

Ink(str, i) == i \in DOMAIN str /\ str[i] \notin Blank

\* Only vertical tabs and form feeds stand between the last blank and the character.
Starts(str, i) ==
  /\ str[i] \notin Space
  /\ \A k \in 1 .. i - 1 : (\A m \in k .. i - 1 : Ink(str, m)) => str[k] \in Space

\* Where the words of a line begin and end.
Spans(str) ==
  {w \in (DOMAIN str) \X (DOMAIN str) :
     /\ w[1] <= w[2] /\ Starts(str, w[1])
     /\ (\A i \in w[1] .. w[2] : Ink(str, i)) /\ ~Ink(str, w[2] + 1)}

\* A line without quotes is searched for by its words, none lost, joined or split,
\* but for the vertical tabs and form feeds before them (sds.c:959, explore.c:213).
LineIsWords ==
  LET words == Spans(line)
  IN main = "searching" /\ (\A i \in DOMAIN line : line[i] \notin {Double, Single}) =>
       /\ Len(keywords) = Cardinality(words)
       /\ \A w \in words :
            keywords[Cardinality({v \in words : v[1] <= w[1]})] = SubSeq(line, w[1], w[2])

\* Every process comes to its end, as settings are read, rows matched and lines
\* indexed one after the other, or goes round failure links for ever in a machine
\* with more states than a link can name (acs.c:165, acs.c:193).
ProcessEnds ==
  []<>(main = "shell") \/ <>[](acs \in {"follow", "match"} /\ ~Narrow)

=============================================================================
