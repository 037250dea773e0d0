------------------------------ MODULE Explore -------------------------------
(***************************************************************************)
(* The interactive loop of explore and prune (explore_cmd, explore.c): the  *)
(* bytes of the terminal, the arrays of hits that each redraw rewrites, the *)
(* selection that moves over them, and the signals that end the loop.       *)
(*                                                                          *)
(* The database answers a search with any hits: other terminals change it   *)
(* at any time (module History).  The line is known by what dump_state      *)
(* makes of it: no keyword, an open quote, or keywords to search for.       *)
(***************************************************************************)
EXTENDS Integers, Sequences

CONSTANTS
  Limit,      \* SEARCH_LIMIT, the length of the arrays
  Cmd,        \* commands
  None,       \* a null pointer, or nothing
  Junk,       \* what memory holds that was never written
  Modes,      \* a subset of {"explore", "prune"}: the subcommands started
  Typed,      \* a subset of Line: what the user's typing makes of the line
  SelBound    \* bound of the model: how far the selection strays from the rows

Line == {"blank", "quote", "word"}
Slots == 0 .. Limit - 1

ASSUME LimitAssumption == Limit \in Nat \ {0}
ASSUME CmdAssumption == None \notin Cmd /\ Junk \notin Cmd /\ None # Junk
ASSUME ModesAssumption == Modes \subseteq {"explore", "prune"}
ASSUME TypedAssumption == Typed \subseteq Line
ASSUME SelBoundAssumption == SelBound \in Nat

VARIABLES
  mode, vimode, command_mode,
  pc,               \* where the loop is
  explore_done,
  line,             \* what current_line is
  explore_total,
  hits,             \* the text of each row
  hitsraw,          \* the command of each row, and with it the row of hitscwd
  hitsannotations,  \* whether the row was fetched as marked
  current_selection,
  shown,            \* the rows of the last complete redraw: <<text, marked>> or <<>>
  lit,              \* the row it showed as selected, -1 when there was none
  selection,        \* what Enter copied
  asked             \* the call of prune_current made in the last step, if any

\* What a redraw leaves alone, and what it rewrites.
rows == <<explore_total, hits, hitsraw, hitsannotations, current_selection, shown, lit>>
user == <<mode, vimode>>
vars == <<mode, vimode, command_mode, pc, explore_done, line, rows, selection, asked>>

\* The bytes that mean something; "char" is any other, backspace included.
Byte == {"esc", "enter", "[", "A", "B", "C", "D", "^P", "j", "k", "x", "i", "char"}

\* "test" is the head of the loop and "poll" the select without a timeout; "esc"
\* is the select of 50 ms after an escape; the Reads block until a byte comes.
Reads == {"read", "escRead", "arrowRead"}
PC == {"test", "poll", "esc", "prompt", "ended", "crashed"} \cup Reads

Rows == [Slots -> {<<>>} \cup ((Cmd \cup {None}) \X BOOLEAN)]

Request == [cmd : Cmd \cup {Junk}, unmark : BOOLEAN]

TypeOK ==
  /\ mode \in Modes /\ vimode \in BOOLEAN /\ command_mode \in BOOLEAN
  /\ pc \in PC /\ explore_done \in BOOLEAN /\ line \in Line
  /\ explore_total \in 0 .. Limit
  /\ hits \in [Slots -> Cmd \cup {None}]
  /\ hitsraw \in [Slots -> Cmd \cup {None, Junk}]
  /\ hitsannotations \in [Slots -> BOOLEAN]
  /\ current_selection \in Int
  /\ shown \in Rows
  /\ lit \in Slots \cup {-1}
  /\ selection \in Cmd \cup {None, Junk}
  /\ asked \in Request \cup {None}

\* Only hits is cleared after malloc, so that the first redraw, of an empty
\* line, finds any annotations.
Init ==
  /\ mode \in Modes
  /\ vimode \in BOOLEAN
  /\ command_mode = vimode
  /\ pc = "test" /\ explore_done = FALSE
  /\ line = "blank"
  /\ explore_total = 0
  /\ hits = [f \in Slots |-> None]
  /\ hitsraw = [f \in Slots |-> Junk]
  /\ hitsannotations \in [Slots -> BOOLEAN]
  /\ current_selection = 0
  /\ shown = [f \in Slots |-> <<>>]
  /\ lit = -1
  /\ selection = None
  /\ asked = None

-----------------------------------------------------------------------------
(* dump_state *)

\* What find_cmd may hand to explore_handler: different commands, each with its
\* annotation, none when there is no keyword or when the database is busy.
Found(l) ==
  {s \in UNION {[1 .. n -> Cmd \X BOOLEAN] : n \in 0 .. IF l = "word" THEN Limit ELSE 0} :
     \A i, j \in DOMAIN s : s[i][1] = s[j][1] => i = j}

\* A bug: the clamp of "*current_selection > explore_total".
ClampLate(sel, n) ==
  IF n > 0 /\ sel > n THEN n - 1 ELSE IF sel < 0 THEN 0 ELSE sel

\* The selection is brought back to the rows there are.
Clamp(sel, n) ==
  IF n > 0 /\ sel >= n THEN n - 1 ELSE IF sel < 0 THEN 0 ELSE sel

\* A row after the last hit is printed and kept, not freed, when its annotation
\* of an earlier search says it is marked.
Lingers(f, found) == Len(found) > 0 /\ f >= Len(found) /\ hitsannotations[f]

\* Bugs: explore_total goes on from the last search; a freed row is not cleared.
TotalKept(found) == explore_total + Len(found)

TextKept(f, found) == IF f < Len(found) THEN found[f + 1][1] ELSE hits[f]

\* What a redraw makes of the number of hits and of the text of a row.
Total(found) == Len(found)

Text(f, found) ==
  IF f < Len(found) THEN found[f + 1][1]
  ELSE IF Lingers(f, found) THEN hits[f] ELSE None

\* The arrays and the screen after a redraw that found these hits.
Draw(sel, found) ==
  /\ explore_total' = Total(found)
  /\ current_selection' = Clamp(sel, Len(found))
  /\ lit' = IF found = <<>> THEN -1 ELSE current_selection'
  /\ hits' = [f \in Slots |-> Text(f, found)]
  /\ hitsraw' = [f \in Slots |->
       IF f < Len(found) THEN found[f + 1][1]
       ELSE IF hits[f] # None /\ ~Lingers(f, found) THEN None ELSE hitsraw[f]]
  /\ hitsannotations' = [f \in Slots |->
       IF f < Len(found) THEN found[f + 1][2] ELSE hitsannotations[f]]
  /\ shown' = [f \in Slots |->
       IF f < Len(found) \/ Lingers(f, found)
       THEN <<Text(f, found), hitsannotations'[f]>>
       ELSE <<>>]

\* Printing a row that never held a hit reads the unwritten pointer of its cwd.
MayCrash(found) == \E f \in Slots : Lingers(f, found) /\ hitsraw[f] = Junk

\* dump_state for line l and selection sel.  On an open quote it forgets the
\* number of hits, prints the line and leaves everything else as it was.
Dump(l, sel) ==
  \/ /\ l = "quote"
     /\ explore_total' = 0
     /\ current_selection' = sel
     /\ pc' = "test"
     /\ UNCHANGED <<hits, hitsraw, hitsannotations, shown, lit>>
  \/ /\ l # "quote"
     /\ \E found \in Found(l) :
          /\ Draw(sel, found)
          /\ pc' \in {"test"} \cup IF MayCrash(found) THEN {"crashed"} ELSE {}

-----------------------------------------------------------------------------
(* A key.  The guards follow the order of the tests in explore_cmd: c is the  *)
(* byte and arrow says that it came after an escape and a bracket.            *)

\* What lies at the selection.  Past the arrays it is whatever memory holds.
At(array, outside) ==
  IF current_selection \in Slots THEN {array[current_selection]} ELSE outside

\* Redraws after which mode, line and selection are these.
Redraw(cm, l, sel) ==
  /\ command_mode' = cm
  /\ line' = l
  /\ Dump(l, sel)

Stays == UNCHANGED <<command_mode, line, rows>>

\* Escape leaves the program, or the insert mode of vi.
Escape(c, arrow) ==
  /\ c = "esc"
  /\ \/ vimode /\ ~command_mode /\ Redraw(TRUE, line, current_selection)
        /\ UNCHANGED explore_done
     \/ vimode /\ command_mode /\ Stays /\ pc' = "test" /\ UNCHANGED explore_done
     \/ ~vimode /\ Stays /\ pc' = "test" /\ explore_done' = TRUE
  /\ asked' = None
  /\ UNCHANGED selection

\* Enter copies the command of the selected row, when the row holds one.
Enter(c, arrow) ==
  /\ c = "enter"
  /\ explore_done' = TRUE
  /\ \E h \in At(hits, {None, Junk}), r \in At(hitsraw, {None, Junk}) :
       \/ h = None /\ pc' = "test" /\ UNCHANGED selection
       \/ h # None /\ r \in Cmd /\ pc' = "test" /\ selection' = r
       \/ h # None /\ r \notin Cmd /\ pc' \in {"test", "crashed"} /\ selection' = Junk
  /\ asked' = None
  /\ Stays

IsDown(c, arrow) == (arrow /\ c = "B") \/ (command_mode /\ c = "j")
IsUp(c, arrow) == (arrow /\ c = "A") \/ (command_mode /\ c = "k")

\* A bug: down and up wait for the next redraw.
MoveSilently(c, arrow) ==
  /\ IsDown(c, arrow) \/ IsUp(c, arrow)
  /\ current_selection' = current_selection + (IF IsDown(c, arrow) THEN 1 ELSE -1)
  /\ current_selection' \in -SelBound .. SelBound
  /\ pc' = "test" /\ asked' = None
  /\ UNCHANGED <<command_mode, line, explore_total, hits, hitsraw, hitsannotations,
                 shown, lit, explore_done, selection>>

\* Up and down move the selection, and the redraw brings it back.
Move(c, arrow) ==
  /\ \/ IsDown(c, arrow) /\ current_selection < SelBound
        /\ Redraw(command_mode, line, current_selection + 1)
     \/ IsUp(c, arrow) /\ current_selection > -SelBound
        /\ Redraw(command_mode, line, current_selection - 1)
  /\ asked' = None
  /\ UNCHANGED <<explore_done, selection>>

\* The hash of a null pointer or of junk cannot be counted on.
PruneCurrent(r, unmark) ==
  \/ r \in {None, Junk} /\ pc' = "crashed" /\ asked' = None /\ Stays
  \/ /\ r # None
     /\ asked' = [cmd |-> r, unmark |-> unmark]
     /\ Redraw(command_mode, line, current_selection)

IsMove(c, arrow) == c \in {"esc", "enter"} \/ IsDown(c, arrow) \/ IsUp(c, arrow)

\* In prune, left takes the mark of the selected row and right gives it one.
PruneArrow(c, arrow) ==
  /\ mode = "prune" /\ arrow /\ ~IsMove(c, arrow)
  /\ \E unmark \in At(hitsannotations, BOOLEAN) :
       IF c = (IF unmark THEN "D" ELSE "C")
       THEN \E r \in At(hitsraw, {None, Junk}) : PruneCurrent(r, unmark)
       ELSE pc' = "test" /\ asked' = None /\ Stays
  /\ UNCHANGED <<explore_done, selection>>

\* In prune, ^P and the x of vi turn the mark of the selected row over.
IsPrune(c, arrow) ==
  mode = "prune" /\ ~arrow /\ (c = "^P" \/ (command_mode /\ c = "x"))

\* A bug: it only gives marks.
PruneKeyMarks(c, arrow) ==
  /\ IsPrune(c, arrow)
  /\ \E r \in At(hitsraw, {None, Junk}) : PruneCurrent(r, FALSE)
  /\ UNCHANGED <<explore_done, selection>>

PruneKey(c, arrow) ==
  /\ IsPrune(c, arrow)
  /\ \E unmark \in At(hitsannotations, BOOLEAN), r \in At(hitsraw, {None, Junk}) :
       PruneCurrent(r, unmark)
  /\ UNCHANGED <<explore_done, selection>>

\* Any other key: the i of vi, a byte of the line, or nothing in command mode.
Other(c, arrow) ==
  /\ ~IsMove(c, arrow) /\ ~(mode = "prune" /\ arrow) /\ ~IsPrune(c, arrow)
  /\ \/ command_mode /\ c = "i" /\ Redraw(FALSE, line, current_selection)
     \/ command_mode /\ c # "i" /\ pc' = "test" /\ Stays
     \/ ~command_mode /\ \E l \in Typed : Redraw(FALSE, l, current_selection)
  /\ asked' = None
  /\ UNCHANGED <<explore_done, selection>>

Key(c, arrow) ==
  /\ \/ Escape(c, arrow) \/ Enter(c, arrow) \/ Move(c, arrow)
     \/ PruneArrow(c, arrow) \/ PruneKey(c, arrow) \/ Other(c, arrow)
  /\ UNCHANGED user

-----------------------------------------------------------------------------
(* The loop. *)

Goto(from, to) ==
  /\ pc = from /\ pc' = to
  /\ asked' = None
  /\ UNCHANGED <<user, command_mode, explore_done, line, rows, selection>>

\* A bug: explore_done without volatile, kept in a register by the compiler.
TestCached == Goto("test", "poll")

Test ==
  Goto("test", CASE ~explore_done -> "poll" [] mode = "prune" -> "prompt" [] OTHER -> "ended")

NoInput == Goto("poll", "test")

\* The first byte of a key, polled for or waited for.
Byte1(c) ==
  /\ pc \in {"poll", "read"}
  /\ IF c = "esc" THEN Goto(pc, "esc") ELSE Key(c, FALSE)

\* No byte within 50 ms: the escape was the key.
EscTimeout == pc = "esc" /\ Key("esc", FALSE)

\* The byte after an escape; unless it is the bracket the escape is forgotten.
Byte2(c) ==
  /\ pc \in {"esc", "escRead"}
  /\ IF c = "[" THEN Goto(pc, "arrowRead") ELSE Key(c, FALSE)

Byte3(c) == pc = "arrowRead" /\ Key(c, TRUE)

\* SIGINT or SIGTERM.  One that interrupts a select makes has_input say that
\* there is input, and the loop goes to wait for a byte.
Signal ==
  /\ pc \notin {"ended", "crashed"}
  /\ explore_done' = TRUE
  /\ \/ UNCHANGED pc
     \/ pc = "poll" /\ pc' = "read"
     \/ pc = "esc" /\ pc' = "escRead"
  /\ asked' = None
  /\ UNCHANGED <<user, command_mode, line, rows, selection>>

\* confirm_prune gets its answer (module History says what it does then).
Answer == Goto("prompt", "ended")

Next ==
  \/ Test \/ NoInput \/ EscTimeout \/ Signal \/ Answer
  \/ \E c \in Byte : Byte1(c) \/ Byte2(c) \/ Byte3(c)

Spec == Init /\ [][Next]_vars

\* The loop runs on by itself, except where it waits for a byte.
FairSpec == Spec /\ WF_vars(Test \/ NoInput \/ EscTimeout)

-----------------------------------------------------------------------------
(* Properties. *)

\* A row that holds a text holds the command it was cut from, so that neither
\* Enter (explore.c:474) nor the frees of the next search and of the end
\* (explore.c:172, 538) meet a pointer that is null, stale or was never written.
PointersOK ==
  \A f \in Slots : hits[f] # None => hitsraw[f] = hits[f]

\* Whenever there are hits, however the keys, the searches and the other
\* terminals changed their number, one of them is selected, and it is the row
\* shown as selected, as it is in the arrays (explore.c:326-331).
HighlightOK ==
  explore_total > 0 =>
    /\ current_selection \in 0 .. explore_total - 1
    /\ lit = current_selection
    /\ shown[lit] = <<hitsraw[lit], hitsannotations[lit]>>

\* Inside the arrays, Enter hands over the command of a row that is on the screen
\* (explore.c:473), also when an open quote has left an earlier search there; and with
\* hits it is the row shown as selected.
EnterTakesShown ==
  [][selection' # selection =>
       /\ current_selection \in Slots =>
            shown[current_selection] # <<>> /\ selection' = shown[current_selection][1]
       /\ explore_total > 0 => current_selection = lit]_vars

\* With hits on the screen, a prune key marks the command shown as selected
\* when it is shown unmarked, and unmarks it when it is shown marked
\* (explore.c:486-494), whatever keys and searches came before.
MarksHighlighted ==
  [][asked' # None /\ explore_total > 0
       => shown[lit] = <<asked'.cmd, asked'.unmark>>]_vars

\* Enter, escape or a signal gets the user out of the loop, unless the program
\* waits for a byte: a signal that interrupts a select leaves it waiting.
DoneLeaves ==
  explore_done ~> pc \in {"prompt", "ended", "crashed"} \cup Reads

\* "will write the selection (if any) to the tmp file" (README.md:81): there is one
\* only when a row is shown as selected, and it is that row.
SelectionIfAny ==
  [][selection' # selection => lit # -1 /\ selection' = shown[lit][1]]_vars

\* "interactive searching of the index" (README.md:80): the rows of the screen are
\* the hits of the search, and nothing follows the last hit.
RowsAreHits ==
  \A f \in Slots : explore_total > 0 /\ f >= explore_total => shown[f] = <<>>

=============================================================================
