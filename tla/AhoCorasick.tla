----------------------------- MODULE AhoCorasick -----------------------------
(***************************************************************************)
(* The matcher for keywords that are too short for an n-gram (acs.c):       *)
(* build_goto makes the tables of an Aho-Corasick machine out of them, and  *)
(* string_matches runs a string through it.                                 *)
(*                                                                          *)
(* A table entry of -1 is one outside the domain of g.  The widths of the   *)
(* tables are parameters: an entry of out holds the first OutBits keywords  *)
(* only, and a failure link beyond MaxFail wraps around.  A char is signed: *)
(* one above 0x7f is a negative index, which has no column.  What a read or *)
(* a write outside a row of the tables leads to is not followed.            *)
(***************************************************************************)
EXTENDS Integers, Sequences, Tables

CONSTANTS
  Column,      \* the characters that have a column, of MAX_COLS
  MaxStates,   \* INT16_MAX
  MaxWords,    \* UINT8_MAX
  OutBits,     \* the width of uint8_t
  IntBits,     \* the width of int
  MaxFail,     \* INT8_MAX
  Lists, Texts \* keywords and strings of a program that only matches

ASSUME ColumnAssumption == Column \subseteq Nat
ASSUME WidthAssumption == {MaxStates, MaxWords, OutBits, IntBits, MaxFail} \subseteq Nat
ASSUME BitsAssumption == OutBits <= IntBits
ASSUME TextAssumption == Texts \subseteq Seq(Int) /\ Lists \subseteq Seq(Seq(Int))

VARIABLES
  keywords,    \* the strings looked for
  acs,         \* where build_goto or string_matches is
  upto,        \* what max_states was after each keyword that was counted
  g, out, fail,
  spell,       \* history variable: the string that leads to a state
  j,           \* the next state
  word, s,     \* the keyword, and how many characters of the string are done
  state,
  todo,        \* the columns still to come
  f,           \* the failure link that is being followed
  queue,
  text         \* the string to match

counters == <<upto, j, word>>
tables == <<g, out, fail, spell>>
cursors == <<s, state, todo, f, queue, text>>
machine == <<acs, counters, tables, cursors>>

MachineInit ==
  /\ acs = "none"
  /\ upto = <<1>> /\ j = 1 /\ word = 1
  /\ g = Empty /\ out = Empty /\ fail = Empty /\ spell = Empty
  /\ s = 0 /\ state = 0 /\ todo = {} /\ f = 0 /\ queue = <<>> /\ text = <<>>

FreeGoto ==
  /\ acs' = "none"
  /\ upto' = <<1>> /\ j' = 1 /\ word' = 1
  /\ g' = Empty /\ out' = Empty /\ fail' = Empty /\ spell' = Empty
  /\ s' = 0 /\ state' = 0 /\ todo' = {} /\ f' = 0 /\ queue' = <<>> /\ text' = <<>>

max_states == upto[Len(upto)]
State == 0 .. max_states - 1
Trie == 0 .. j - 1

\* The first column still to come.
column == CHOOSE c \in todo : \A d \in todo : c <= d

-----------------------------------------------------------------------------
(* build_goto *)

Turn(from, to) == acs = from /\ acs' = to /\ UNCHANGED <<counters, tables, cursors>>

BuildGoto == Turn("none", "count")

CountWord ==
  /\ acs = "count" /\ Len(upto) <= Len(keywords)
  /\ upto' = Append(upto, max_states + Len(keywords[Len(upto)]))
  /\ UNCHANGED <<acs, j, word, tables, cursors>>

CountDone ==
  /\ acs = "count" /\ Len(upto) > Len(keywords)
  /\ IF max_states > MaxStates \/ Len(keywords) > MaxWords
     THEN acs' = "refused" /\ UNCHANGED tables
     ELSE /\ acs' = "insert"
          /\ g' = Empty
          /\ out' = [n \in State |-> {}]
          /\ fail' = [n \in State |-> -1]
          /\ spell' = With(Empty, 0, <<>>)
  /\ UNCHANGED <<counters, cursors>>

Inserting == acs = "insert" /\ word <= Len(keywords)

Next_s == keywords[word][s + 1]

InsertNew ==
  /\ Inserting /\ s < Len(keywords[word]) /\ Next_s \in Column
  /\ <<state, Next_s>> \notin DOMAIN g
  /\ g' = With(g, <<state, Next_s>>, j)
  /\ spell' = With(spell, j, Append(spell[state], Next_s))
  /\ state' = j /\ j' = j + 1 /\ s' = s + 1
  /\ UNCHANGED <<acs, upto, word, out, fail, todo, f, queue, text>>

InsertOld ==
  /\ Inserting /\ s < Len(keywords[word]) /\ Next_s \in Column
  /\ <<state, Next_s>> \in DOMAIN g
  /\ state' = g[<<state, Next_s>>] /\ s' = s + 1
  /\ UNCHANGED <<acs, counters, tables, todo, f, queue, text>>

\* A bug: the first keyword is counted before its bit is set.
BitsFromOne(w) == {{w} \cap 0 .. OutBits - 1}

\* What 1 << word leaves in an entry of out.  A shift by the width of int or more
\* is undefined: the machine's, which takes the count modulo the width, or nothing.
Bits(w) ==
  {b \cap 0 .. OutBits - 1 :
     b \in IF w <= IntBits THEN {{w - 1}} ELSE {{}, {(w - 1) % IntBits}}}

InsertWord ==
  /\ Inserting /\ s = Len(keywords[word])
  /\ \E bits \in Bits(word) : out' = [out EXCEPT ![state] = @ \cup bits]
  /\ word' = word + 1 /\ state' = 0 /\ s' = 0
  /\ UNCHANGED <<acs, upto, j, g, fail, spell, todo, f, queue, text>>

InsertDone ==
  /\ acs = "insert" /\ word > Len(keywords)
  /\ acs' = "root" /\ todo' = Column
  /\ UNCHANGED <<counters, tables, s, state, f, queue, text>>

\* A bug: the children of the root are left without a failure link.
RootColumnUnlinked ==
  /\ acs = "root" /\ todo # {}
  /\ IF <<0, column>> \in DOMAIN g
     THEN queue' = Append(queue, g[<<0, column>>]) /\ UNCHANGED g
     ELSE g' = With(g, <<0, column>>, 0) /\ UNCHANGED queue
  /\ todo' = todo \ {column}
  /\ UNCHANGED <<acs, counters, out, fail, spell, s, state, f, text>>

\* The root has an edge for every character; its children fail to it.
RootColumn ==
  /\ acs = "root" /\ todo # {}
  /\ IF <<0, column>> \in DOMAIN g
     THEN /\ fail' = [fail EXCEPT ![g[<<0, column>>]] = 0]
          /\ queue' = Append(queue, g[<<0, column>>])
          /\ UNCHANGED g
     ELSE g' = With(g, <<0, column>>, 0) /\ UNCHANGED <<fail, queue>>
  /\ todo' = todo \ {column}
  /\ UNCHANGED <<acs, counters, out, spell, s, state, f, text>>

RootDone == todo = {} /\ Turn("root", "queue")

Dequeue ==
  /\ acs = "queue" /\ queue # <<>>
  /\ acs' = "columns"
  /\ state' = Head(queue) /\ queue' = Tail(queue)
  /\ todo' = {c \in Column : <<Head(queue), c>> \in DOMAIN g}
  /\ UNCHANGED <<counters, tables, s, f, text>>

NextColumn ==
  /\ acs = "columns" /\ todo # {}
  /\ acs' = "follow" /\ f' = fail[state]
  /\ UNCHANGED <<counters, tables, s, state, todo, queue, text>>

\* A bug: after one link that does not fit, the root is taken.
FollowToRoot ==
  /\ acs = "follow" /\ f \in State
  /\ <<f, column>> \notin DOMAIN g
  /\ f' = 0
  /\ UNCHANGED <<acs, counters, tables, s, state, todo, queue, text>>

Follow ==
  /\ acs = "follow" /\ f \in State
  /\ <<f, column>> \notin DOMAIN g
  /\ f' = fail[f]
  /\ UNCHANGED <<acs, counters, tables, s, state, todo, queue, text>>

\* The conversion to int8_t.
Int8(n) ==
  IF n <= MaxFail THEN n
  ELSE ((n + MaxFail + 1) % (2 * (MaxFail + 1))) - (MaxFail + 1)

\* A bug: the outputs of the link are not taken over.
LinkSilently ==
  /\ acs = "follow" /\ f \in State
  /\ <<f, column>> \in DOMAIN g
  /\ Int8(g[<<f, column>>]) \in State
  /\ fail' = [fail EXCEPT ![g[<<state, column>>]] = Int8(g[<<f, column>>])]
  /\ queue' = Append(queue, g[<<state, column>>])
  /\ acs' = "columns" /\ todo' = todo \ {column}
  /\ UNCHANGED <<counters, g, out, spell, s, state, f, text>>

Link ==
  /\ acs = "follow" /\ f \in State
  /\ <<f, column>> \in DOMAIN g
  /\ LET n == g[<<state, column>>]
         link == Int8(g[<<f, column>>])
     IN /\ link \in State
        /\ fail' = [fail EXCEPT ![n] = link]
        /\ out' = [out EXCEPT ![n] = @ \cup out[link]]
        /\ queue' = Append(queue, n)
  /\ acs' = "columns" /\ todo' = todo \ {column}
  /\ UNCHANGED <<counters, g, spell, s, state, f, text>>

ColumnsDone == todo = {} /\ Turn("columns", "queue")

Built == queue = <<>> /\ Turn("queue", "built")

-----------------------------------------------------------------------------
(* string_matches *)

StringMatches(t) ==
  /\ acs = "built"
  /\ acs' = "match" /\ text' = t /\ s' = 0 /\ state' = 0
  /\ UNCHANGED <<counters, tables, todo, f, queue>>

Scanning ==
  acs = "match" /\ s < Len(text) /\ state \in State /\ text[s + 1] \in Column

\* A bug: the failure link is looked up and not taken.
MatchFailStays ==
  /\ Scanning
  /\ <<state, text[s + 1]>> \notin DOMAIN g
  /\ f' = fail[state]
  /\ UNCHANGED <<acs, counters, tables, s, state, todo, queue, text>>

MatchFail ==
  /\ Scanning
  /\ <<state, text[s + 1]>> \notin DOMAIN g
  /\ state' = fail[state]
  /\ UNCHANGED <<acs, counters, tables, s, todo, f, queue, text>>

\* The bits of out are looked at from 0 to max_states.
MatchChar ==
  /\ Scanning
  /\ <<state, text[s + 1]>> \in DOMAIN g
  /\ state' = g[<<state, text[s + 1]>>] /\ s' = s + 1
  /\ acs' = IF \E b \in out[state'] : b < max_states THEN "hit" ELSE "match"
  /\ UNCHANGED <<counters, tables, todo, f, queue, text>>

MatchEnd == s = Len(text) /\ Turn("match", "miss")

\* The result is used, and the machine ready for the next string.
MatchReturns == Turn("hit", "built") \/ Turn("miss", "built")

\* An entry of a state that is none, or of a character without a column, is about
\* to be used.
Outside ==
  /\ \/ Inserting /\ s < Len(keywords[word]) /\ Next_s \notin Column
     \/ acs = "follow" /\ f \notin State
     \/ /\ acs = "follow" /\ f \in State /\ <<f, column>> \in DOMAIN g
        /\ Int8(g[<<f, column>>]) \notin State
     \/ acs = "match" /\ s < Len(text) /\ ~Scanning
  /\ acs' = "outside"
  /\ UNCHANGED <<counters, tables, cursors>>

Build ==
  \/ CountWord \/ CountDone \/ InsertNew \/ InsertOld \/ InsertWord \/ InsertDone
  \/ RootColumn \/ RootDone \/ Dequeue \/ NextColumn \/ Follow \/ Link \/ ColumnsDone \/ Built

Match == MatchFail \/ MatchChar \/ MatchEnd

MachineStep == Build \/ Match \/ Outside

Freed == acs \in {"built", "refused"} /\ FreeGoto

\* The machine alone, in a program that has other keywords than find_cmd.
MachineNext ==
  /\ \/ BuildGoto \/ MachineStep \/ MatchReturns \/ Freed
     \/ \E t \in Texts : StringMatches(t)
  /\ UNCHANGED keywords

MachineSpec ==
  keywords \in Lists /\ MachineInit /\ [][MachineNext]_<<keywords, machine>>

-----------------------------------------------------------------------------
(* Properties *)

EndsWith(t, x) == Len(x) <= Len(t) /\ SubSeq(t, Len(t) - Len(x) + 1, Len(t)) = x

\* Every state that was made is a failure link that int8_t can hold.
Narrow == j <= MaxFail + 1

Foreign(str) == \E i \in DOMAIN str : str[i] \notin Column

Strange == Foreign(text) \/ \E w \in DOMAIN keywords : Foreign(keywords[w])

\* A read outside of the tables takes a machine with more states than a failure
\* link can name (acs.c:165), or a character without a column (acs.c:129):
\* otherwise build_goto and string_matches stay inside, and never follow a link
\* that is not set yet.
StaysInside == acs = "outside" => ~Narrow \/ Strange

\* The failure link of a state is the state with the longest string that is a
\* proper end of its own (acs.c:152-173).
LinksAreLongest ==
  acs = "built" /\ Narrow =>
    \A n \in Trie \ {0} :
      /\ fail[n] \in Trie \ {n} /\ EndsWith(spell[n], spell[fail[n]])
      /\ \A m \in Trie \ {n} :
           EndsWith(spell[n], spell[m]) => Len(spell[m]) <= Len(spell[fail[n]])

\* The keywords that have a bit in out which string_matches looks at.  The bit of an
\* empty keyword is at the root only, and not at the states that fail to it.
Tested == {w \in DOMAIN keywords : w <= OutBits /\ w <= max_states /\ keywords[w] # <<>>}

\* string_matches says yes at the end of a keyword, and no only when none of the
\* keywords that have a bit ends anywhere.
MatcherExact ==
  Narrow =>
    /\ acs = "hit" =>
         \E w \in DOMAIN keywords : EndsWith(SubSeq(text, 1, s), keywords[w])
    /\ acs = "miss" =>
         \A w \in Tested, i \in DOMAIN text : ~EndsWith(SubSeq(text, 1, i), keywords[w])

=============================================================================
