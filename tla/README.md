# A verification of histx

histx keeps the commands of every terminal in one SQLite file and finds them
again. This directory holds TLA+ modules translated from its source (`src/` of
the repository, referred to below by file and line), the TLC configurations that
check them on small instances, and proofs that TLAPS checks for every instance.

## The system

| Component | State it keeps | Operations | Modelled in |
|---|---|---|---|
| index (`index.c`) | tables `cmdraw`, `cmdlut` | `index_cmd`: `insert_hash`, then `insert_lut` for each n-gram | `History` |
| prune, purge (`explore.c`) | table `cmdan` | `prune_current`, `confirm_prune`, `PURGE_PRUNES` | `History` |
| explore loop (`explore.c`) | the arrays `hits*`, `current_selection`, the modes | one handler for each key, `dump_state`, signals | `Explore` |
| init (`init.c`) | the schema, `histxversion` | nine creates, `getdbversion`, `migrate_1` | `Migration` |
| find (`find.c`) | none | `find_cmd`: one select, `find_handler` for each row | `Find`; its locks in `History` |
| cat (`cat.c`) | none | one select | its locks in `History` |
| n-grams (`ngram.c`) | none | `gen_ngrams` | the values in `Ngram`, the order of its calls in `History` |
| Aho-Corasick (`acs.c`) | goto, fail and out tables | `build_goto`, `string_matches` | `AhoCorasick` |
| configuration (`config/`) | a trie of settings | `load_config`, `add_setting`, `get_setting` | `Config`, `Settings` |
| main (`main.c`) | `SEARCH_LIMIT` | settings, dispatch, `index -` | `Main` |
| base64 (`base64/`) | none | `base64_encode`, `base64_decode` | `Base64` |
| sds (`sds/`, vendored) | none | `sdssplitargs`, `sdsrange` and the line of explore | `Line` |
| util, tests | none | | not modelled |

How they interact: every histx process opens its own connection to the one file
(`init`), runs one subcommand and closes it. The shell runs `index` after every
command, in every terminal; `find`, `cat`, `explore` and `prune` run beside it.
There is no lock in histx itself and no busy handler, so the processes meet only
in SQLite's locks, where everything that cannot be had at once is an error.
Within a process everything is sequential, except for the signal handler, which
sets `explore_done`.

What is hard, and what each component has to get right:

- *index* commits once for the command and once for each n-gram. It may be
  refused or killed between any two; the search index must not silently lose
  what was in it, and a partial entry must be known to be one.
- *prune* decides from what is on the screen, asks, and deletes from three tables
  later. Other terminals go on meanwhile. What is deleted should be what was
  confirmed, all of it, and in one piece.
- *init* upgrades the file while others use it, and others may upgrade too. The
  version row must never claim a schema that is not there.
- *explore* moves a selection over arrays that every key rewrites, from answers of
  a database that others change. The selection, the arrays and the screen have
  to agree whenever a key acts on them.

- *find* has two searches. With a keyword of three characters it counts n-grams in
  SQL; with shorter ones only, it runs a matcher of its own over every command,
  whose tables have narrow types. Both have to stop at the limit, because explore
  sized its arrays by it, and neither may leave out what it should show.
- *the matcher* builds its failure links in breadth-first order and reads entries
  that are -1 until then: the order decides whether a read is inside the tables.
- *configuration* goes through one global token, a grammar that stores rows before
  it sees an error, and a trie in which keys share their prefixes.

`PROJECT.json` lists the hazards one by one, at their lines, with the properties
that look at them.

## The modules

`Sqlite` is the part of SQLite that histx relies on, the lock of each connection
between two of its steps. It is external code: SHARED while a select is being
stepped, RESERVED while a write transaction is open, PENDING after a refused
commit. `MayRead`, `MayReserve` and `MayCommit` say when a lock is given.

`History` is the database with the processes over it. `db` is the committed
state of `cmdraw` (`raw`), `cmdlut` (`lut`) and `cmdan` (`marked`), `cache` what
the one open write transaction has made of it; `pc`, `job`, `pos`, `view` and
`listed` are a process's place, the command and n-gram it is indexing, the hits
it holds with the annotation each was fetched with, and the list it asked its
user to confirm. Commands stand for their SHA-256. A write is two steps, because
readers may come in between: the statement (`InsertHash`, `InsertLutRow`,
`Annotate`, `DeleteRaw`, ...) takes the reserved lock and computes the cache, the
commit makes it the committed state. Each step has its refused counterpart
(`InsertLutFails`, `AnnotateFails`, `PurgeCommitRefused`, ...), which does what the
code does with the error. `Crash` kills a process anywhere. `owed` is a history
variable, not a program one: the n-gram rows that an index gave up.

`CommandIndex` is what the command history promises, without processes, locks or
tables: entries, marks, and which entries every n-gram of theirs finds. `History`
implements it under `entries <- db.raw`, `marks <- db.marked`,
`searchable <- Searchable(db)`.

`Migration` is `init` in several processes at once, statement by statement, over
a new file, a file of an earlier program or a current one. `Use` is what the
started processes do to the locks.

`Explore` is one process's interactive loop. `test` and `poll` are the head of the
loop, `esc` the 50 ms wait after an escape, the reads are blocking. `Key` has one
action for each branch of `explore_cmd`, in the code's order, and each of them
includes the redraw the code does (`Dump`, from `dump_state`). `Found` is whatever
`find_cmd` may answer. Memory from `malloc` is `Junk` (or, for the annotations, any
value); reading outside the arrays gives anything or a crash. `shown` and `lit`
are what the last complete redraw put on the terminal. `asked` is the call of
`prune_current` made in the last step.

`Settings` is the trie of `config.c`, one character of a key at a time: `nodes`,
`child` and `value` are its memory, `call`, `key`, `node` and `at` the walk that
`add_setting` or `get_setting` is in. `path` is a history variable, the string that
leads to a node. `Dictionary` is what it promises: `Put`, `Get` and `Clear`; `Settings`
implements it under `dict <- Stored`. `Config` is `load_config` on top of it, lexeme by
lexeme: `want` and `left` are the state of the parser, `Row` reduces a row and calls
`add_setting`, `SyntaxError` leaves the rows before it where they are.

`AhoCorasick` is `acs.c`. `acs` is the place in `build_goto` or `string_matches`; `g`, `out`
and `fail` are the tables, where an entry -1 of the goto table is one outside the
domain of `g`; `todo` is what the loop over the columns has still to do, `queue` the
states of the breadth-first search, `f` the link that is being followed. Each turn
of each loop is an action: `InsertNew` and `InsertOld` for a character of a keyword,
`RootColumn`, `Follow` and `Link` for the columns, `MatchChar` and `MatchFail` for a
character of the string. `Int8` and `Bits` are the conversions to the narrow types.
`Outside` is a read or a write of an entry of a state that is none, of one that
was not set, or of the column of a character above 0x7f, which is negative (`Column`
are the characters that have one); what comes of it is undefined, and the model
stops there. `spell` is a
history variable, the string that leads to a state. `Tables` has the two operators
that it shares with the trie.

`Ngram`, `Base64` and `Line` are pure: the n-grams of a text with sign extension,
encoding and decoding, and what keys make of the line in explore and
`sdssplitargs` of the line (`Split`, a fold of `Scan` over its characters). `Find` is `find_cmd` over them: `StartBuild` to `Query` until
the rows come, `LutRow` for a row of the one search, `UniverseRow`, the steps of the
matcher and `MatchDone` for a row of the other, `Full` when the rows or the limit
end. Rows of equal rank and time come in either order (`NextRows`).

`Main` composes `Config`, `Find` and `Line` into processes that the shell starts one
after the other. `main` is the place in `main.c`; `Start` is the command line,
`ReadConfig`, `GetLimit` and `SetLimit` the settings, then one subcommand runs over the
tables `raw` and `lut`: `Record` is `index_cmd` when nobody interferes, `Search` is what
explore does after a key. `Ends` is the end of the process, which forgets its
memory. What happens when processes overlap is the business of `History`,
`Migration` and `Explore`.

`MCHistory`, `MCMigration`, `MCExplore` and `MCMain` give the constants small values.
`HistoryProofs`, `MigrationProofs`, `ExploreProofs`, `SettingsProofs` (the trie and the
parser), `AhoCorasickProofs` and `MainProofs` hold the theorems; `FindProofs` has the
invariant of `find_cmd` on which those of `MainProofs` rest, and `Facts` what several of
them share about sequences, finite sets and recursion. Definitions introduced by "A bug" are wrong variants of the definition
that follows them; nothing uses them, and each makes a property fail when put in
its place.

## The runs

| Run | Instance | Shows |
|---|---|---|
| `one_pruner` | three terminals, prune in one, two commands, one of them with an n-gram | `PurgeIsConfirmed`, `FreshUnmarked` |
| `two_pruners` | two terminals that do everything, two commands with up to two n-grams | `TypeOK`, `Isolation`, `LutComplete`, `PurgeIsExact`, `KeepsPromise` |
| `answers` | three terminals, one command, fairness | `AlwaysAnswers` |
| `migration` | three processes, files of four ages, fairness | `TypeOK`, `VersionIsTrue`, `ReadyHasTables`, `OneMigrator`, `InitEnds` |
| `main` | two processes of any kind over four databases; the matcher alone; fairness | `TypeOK`, `StaysInside`, `LinksAreLongest`, `MatcherExact`, `HitsSound`, `UniverseExact`, `FewAreExact`, `NothingLeftOut`, `OnlyEmptyCrashes`, `LimitConfigured`, `LineIsWords`, `TrieIsDictionary`, `ProcessEnds` |
| `explore` | two rows, two commands, every mode, key, typing and signal, fairness | `TypeOK`, `PointersOK`, `HighlightOK`, `EnterTakesShown`, `MarksHighlighted`, `DoneLeaves` |

Six runs end in a violation, each a disagreement between the code and what the
repository says of it:

- `index_true`: `index_cmd` returns true without the last n-grams when a reader
  makes an insert fail (`index.c:113`); `TrueMeansComplete`.
- `lost_confirmation`: between the list and the answer another prune marks an
  entry, and the purge takes it too (`explore.c:288`); `OnlyListedPruned`.
- `half_migrated`: `alter table` is refused while somebody reads, and `init`
  returns true all the same (`init.c:132`); `ReadyCanIndex`.
- `stray_selection`: on a line without hits the clamp is skipped (`explore.c:326`), so
  that Down moves the selection past the arrays, and Enter hands over what lies there
  (`explore.c:473`), although no row is selected; `SelectionIfAny`.
- `stale_rows`: a row after the last hit is printed when its old annotation says
  "prune" (`explore.c:333`); `RowsAreHits`.
- `unfindable`: an n-gram that ends in a byte above 0x7f is stored as a negative
  number and searched for as a large one (`find.c:34`), so that a command in UTF-8
  may not be found by its own text; `FindsItself`.

What reading the code for these modules turned up beyond that, where no text of
the repository says what was meant: a backspace takes two characters off a line of
three or more (`explore.c:220`); `index ""` stores a command whose text decodes to a
null pointer, on which every later search with short keywords fails
(`OnlyEmptyCrashes` has it as the one exception); `index` without arguments compares
a null pointer (`main.c:202`); in a search like `find "" bb` the empty keyword has its
bit at the root only and matches an entry or not by the state that the entry leads
to (`acs.c:152`), which is why `Tested` leaves empty keywords out; an empty `~/.histx`
is a syntax error and ends every command. With an open quote in the line no row is
redrawn (`explore.c:317`) and yet Down and Up move the selection, so that Enter hands
over a row of the screen that is not the highlighted one; `EnterTakesShown` allows
that and no more.

`string_matches` may go round for ever. Beyond 255 states a failure link wraps to a
state that exists (`acs.c:165`), which may be the very state it belongs to; at a
character that state has no edge for, the loop of `acs.c:193` then follows that link
without end. It takes a `find` with well over a hundred keywords of one or two characters.
`Circular` in `MCMain` is such a list in the model's widths: without its second half
`ProcessEnds` is violated, by a process that stays in `"match"`.

### Bounds, and why they are enough

Conflicts over SQLite's locks involve a writer and one other connection, or a
pending commit and two: two terminals meet every one of the first kind and
three those of the second. Two commands with a common n-gram are what it takes
for a purge to take too much, two n-grams for an index to stop in the middle.
`search-limit` is between 5 and 20 in the program (`main.c:182`) and 2 in `explore`:
a row that is hit, one that lingers and one that is free need a search with one
hit after one with two. `SelBound` (3) caps how far the selection strays when
nothing clamps it, one more than the end of the arrays.

In `main`, two processes are one that indexes and one that searches what it
indexed, or two searches. The widths are scaled down so that keywords of a few
characters overflow them: `OutBits` 2 for 8, `IntBits` 8 for 32, `MaxFail` 5 for 127,
`MaxStates` 26 for 32767, `MaxWords` 14 for 255; lists of keywords lie on both sides of
each. `MaxStates` is more than twice the twelve values of a link, so that a state's
number may wrap to a negative one and to that of another state, as 128 and 256 do in
the program; five characters have a column, which is what fourteen different short
keywords need. The limit is between 2 and 3 instead of 5 and 20, below and above the
number of entries. `find_cmd` gives the matcher keywords of two characters at most,
for which a failure link of depth one and no `Follow` is all that happens; so the
matcher also runs alone (`MatcherAlone`), as any caller of `acs.h` may, with keywords of
up to four characters, or of thirteen to overflow `MaxStates`, and every string of up to
four over two letters.

Characters without a column come as an indexed command and a keyword in UTF-8.

The theorems have none of
these bounds, except that `SelBound` and `MaxRuns` remain parameters.

### Fairness

`History`: weak fairness of each process's own steps (`ProcessStep`), which is that
the operating system schedules a running process. Users are under no fairness:
they may leave a pager, a prompt or a key for ever, and `AlwaysAnswers` says that
nobody else suffers. `Migration`: the same for a process inside `init`. `Explore`:
the loop polls without blocking, so its head, an empty poll and the 50 ms
timeout happen; a byte or a signal need not come. `Main`: weak fairness of the
process's own steps; the lines of `index -` and the keys of explore are given and
run out, and a read outside of the matcher's tables is taken to end the process.
`ProcessEnds` then says that a process comes back to the shell, whatever it was asked,
unless it stays among the failure links of a machine with more states than a link can
name. For `Explore`, `DoneLeaves` says that the loop ends, *or waits in a blocking read*:
`has_input` takes an interrupted select for input, so a signal that arrives there needs
a further key.

## The proofs

TLAPS proves what follows for any terminals, commands, n-grams, starting processes,
array lengths, schema ages, command lines, files of settings, lines, keys and
databases. The assumptions are named in the modules, and TLC evaluates them in
every run: most give types (`GramsAssumption`, `JobsAssumption`, `DatabasesAssumption`
and the like); `FewAssumption` has links for the states of as many keywords of two
characters as `out` has bits, which are 8 and 127 in `acs.c`; `LimitAssumption` has the default limit within its bounds, which is
`main.c:182` and `find.c:30`; `NumberAssumption` says that no spelling of "true" or "false" is
a number or the key `search-limit`, which `config.l:15` and `strtonum` make so;
`InvalidAssumption` and `UnbalancedAssumption` say that a null pointer is no string.

- `TypeCorrect`, `Isolated`, `Complete`, `PurgeExact`, `PromiseKept` (`HistoryProofs`).
  The argument is in layers. `Typed` adds to `TypeOK` that a process inside
  `index_cmd` has a command. `IsolatedNow` adds `Isolation`; it is inductive
  because every step of `p` is `Contained`: it leaves the others' places and locks
  alone, it changes tables only when nobody else is writing, and its own
  transaction, if open, is the intended edit of the committed tables.
  `CompleteNow` adds `LutComplete` and that `pos` is 1 outside the n-gram loop; a
  step `Accounts` for each missing row, which is inserted, pending, owed or somebody
  else's. `StepEffect` lists the five things a step can do to the tables, and from
  it follow `PurgeExact` and the refinement, step by step.
- `PurgeConfirmed` and `FreshIsUnmarked` (`HistoryProofs`), under `OnePruner`: prune
  runs in one terminal at most. The invariant `SureNow` says that hits, marks and
  the confirmed list are true of the committed tables; an index of somebody else
  only makes the tables grow. Without the assumption the first is false
  (`lost_confirmation`), and so can be the second.
- `VersionTrue`, `TablesReady`, `SingleMigrator` (`MigrationProofs`), from an invariant
  with the locks (`LockOK`), the progress of the create loop (`CreatedOK`) and what
  column, version row and migrator say of each other (`MigratedOK`).
- `PointersSafe`, `SelectionShown`, `MarksShown`, `EnterShown` (`ExploreProofs`). `TypeOK`,
  `PointersOK` and `HighlightOK` are inductive together; everything rests on
  `DrawRows`, that a redraw establishes them from any answer of `find_cmd`. `ScreenOK`
  adds that a row of the arrays that holds a command is on the screen with it, for
  which `EnterTakesShown` needs no hits.
- `TypeCorrect` in `MigrationProofs` and `ExploreProofs`: the invariants above contain
  `TypeOK`.
- `TrieImplements` (`SettingsProofs`): the trie implements `Dictionary`, from
  `WordAssumption` alone. The invariant says that different nodes have different
  strings, that a child's string is its parent's and one character (`ChildOK`), that
  whatever begins the string of a node leads to a node (`PrefixesOK`), and that the
  walk is at the node of the characters behind it (`WalkOK`). `PrefixesOK` is what a
  missing child needs: there is then no node for any longer beginning of the key,
  so that a new node's string is new (`Missing`).
- `MatcherStaysInside` (`AhoCorasickProofs`): `build_goto` and `string_matches` never read
  outside their tables nor follow a link that is not set, for any keywords, strings
  and widths, as long as int8_t can name every state and every character has a
  column. `SpellOK`, `EdgeOK` and `ClosedOK`
  say of the goto table what the last invariant says of the trie; `InsertOK` bounds
  the states by the characters counted. The heart is the queue: it is in the order
  of depth and holds two depths at most (`Ordered`), and a state without a link lies
  behind one that is queued or a column that is still to come (`Waiting`). So every
  state as near to the root as the one in hand has its link (`NearLinked`), which is
  where links are followed, and each leads nearer to the root, which has an edge
  for every column (`RootOK`).
- `LinksLongest` and `MatchesExactly` (`AhoCorasickProofs`), over the same invariant and
  `BitsAssumption` (an entry of `out` is no wider than an int). Building a link and
  matching a string are one walk: `Best(t, p)` says that state `p` has the longest
  string that ends `t`, `Near(t, c, p)` that the links from `p` on lead to the longest
  end of `t` with `c`; `NearBegins`, `NearFails` and `NearTakes` are its start, a link
  and an edge. `OutOK` says where the bits of a state come from, and `Complete` that a
  state with a link has the bits of all keywords that end its string.

- `HitsAreStored`, `OnlyEmptyCrash`, `UniverseFound`, `FindMatches` (`MainProofs`): what
  every search of every process hands over. `SearchOK` (`FindProofs`) is the invariant of
  `find_cmd`: the rows are what `index_cmd` wrote (`RowsOK`); the matcher is in the phase
  that `find_cmd` expects (`PhaseOK`), above all with fresh tables when a search begins;
  hits, rows still to come and the row in hand are different stored commands, and the
  limit has room for one more while a row is matched (`HitsOK`); the rows behind have
  been hit or not as they should, and none is older than one to come (`SeenOK`); and
  the matcher's own invariant `Exact`. Two lemmas carry it: `RoundTrip`, that `Decode`
  gives back every command that has a character, by the arithmetic of base64 and the
  signs of chars; and `ExactAnswers`. `UniverseFound` and `FindMatches` keep the premises
  of their properties: a machine whose states a link can name (128 in the program),
  and for what must not be missed a keyword that has a bit and a character. `MainOK` adds where the process is and that
  arguments, lines and keywords are strings: `Reduce`, `Cut`, `Manipulate` and `Split` are
  recursions over what was typed, and the lemmas `ReduceIs` and `SplitIs` show by
  induction (`Recurs` in `Facts`) that strings come out.
- `FewFound` (`MainProofs`) has none of these premises, but few keywords: at most
  `OutBits` of them (8), none empty, and no character without a column in them or in
  the commands. By induction along the keywords the states that `build_goto` counts are
  between one and two for each (`FewCounted`), so that links can name them and every
  bit is looked at (`FewAreNarrow`).
- `LimitIsConfigured` and `SettingsHold` (`MainProofs`). `Parsed` says that after `n` rows and
  `m` lexemes of the next the dictionary has for a key the token of the last of its
  rows so far (`Follows`), the row that `add_setting` is walking included (`Dict`); a
  step of the parser keeps it because the walk ends in `Promise!Put`. `ConfiguredOK` goes
  on to `get_setting` and the conversion, and every step of a process is one of
  the trie's or none, so that the refinement carries over to the whole program.
- `TypesHold` (`MainProofs`): `Fit` bounds the states by the characters counted, also
  beyond the widths where `Sound` ends, and types the tables of the matcher;
  `TrieTables` does that for the trie.
- `NothingIsLeftOut` (`MainProofs`). That a command with a keyword in it has all n-grams
  of the keyword is `NgramsAre`: the n-grams of a text are `GramOf` of its windows of
  three characters, by induction along the text, and `GramOf` takes different windows
  of ASCII to numbers of their own (`TwoBytes`, `OrIs`: the shifts and ORs of `ngram.c`
  are then arithmetic). So the n-grams that a search asks for are `Wanted`, the rank of a
  row is how many of them it has (`RankIs`), and a command with every long keyword in
  it has the highest rank there is. `SortedOK` is the invariant of the search: whatever
  has an n-gram was handed over or is still to come, and nothing still to come goes
  before what was handed over.
- `LinesAreWords` (`MainProofs`). `ScanPlain` is what `Scan` does while there are no quotes.
  Along the line, either every word so far has ended and the scanner is in a gap
  (`InGap`), or one more has begun (`InWord`); `GapStep` and `WordStep` are one character
  more, and `OneMoreWord` and `NoMoreWords` count. `LineOK` is that the keywords of
  explore are those of the line. The first attempt failed: with a vertical tab or a
  form feed in the line (Ctrl-K, Ctrl-L) the words were not the runs between blanks,
  because `sdssplitargs` skips these two before a word (`isspace`, `sds.c:967`) but does
  not end a word at them (`sds.c:1028`). `Starts` now says so, and TLC has such a line.

Only model-checked: the liveness properties (`AlwaysAnswers`, `InitEnds`,
`DoneLeaves`, `ProcessEnds`), since TLAPS reasons neither about fairness nor about
ENABLED.

## Not modelled

- Layout and colours, the truncation of a row to the terminal's width, writing the
  selection to the terminal or the file, time stamps and their text (`util.c`),
  working directories, the output of `cat`, usage text, `getopt`.
- The settings `vi-mode` and `explore-basic` after they are looked up: `Explore` has
  the mode as a parameter.
- Characters above 0x7f in the trie, where the array index is negative, and
  whatever follows an access outside of an array: undefined in C, and dependent on
  the memory around. n-grams and base64 have such characters, and the matcher up
  to the access.
- `\x00` between double quotes, which ends a keyword for `find_cmd`; `Split` has it as
  one more character.
- The confirmation prompt at the end of the input, where `scanf` loops for ever.
- base64 of texts that `base64_encode` did not make (foreign characters, breaks).
- The rest of sds: allocation, growth and concatenation of strings, which no
  property depends on. `dump_goto` and `dump_fails`, which nothing calls.
- Failures of the disk and of `malloc`, and memory that is not freed.

## Plan

What could come next: `Find` in place of `Found` in `Explore`, for which the present state
spaces are too large.
