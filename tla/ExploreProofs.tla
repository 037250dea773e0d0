--------------------------- MODULE ExploreProofs ----------------------------
(* Theorems about Explore, for arrays of any length, any commands, and any    *)
(* keys, searches and signals in any order.                                   *)
EXTENDS Explore, SequenceTheorems, TLAPS

RowsTyped ==
  /\ explore_total \in 0 .. Limit
  /\ hits \in [Slots -> Cmd \cup {None}]
  /\ hitsraw \in [Slots -> Cmd \cup {None, Junk}]
  /\ hitsannotations \in [Slots -> BOOLEAN]
  /\ current_selection \in Int
  /\ shown \in Rows
  /\ lit \in Slots \cup {-1}

\* A row that holds a text is on the screen with that text.
ScreenOK ==
  \A f \in Slots : hits[f] # None => shown[f] # <<>> /\ shown[f][1] = hits[f]

\* What every redraw establishes and every other step leaves alone.
RowsOK == RowsTyped /\ PointersOK /\ HighlightOK /\ ScreenOK

Inv == TypeOK /\ PointersOK /\ HighlightOK /\ ScreenOK

\* The memory that explore_cmd starts with is safe, unwritten as it is.
LEMMA InitInv == Init => Inv
BY LimitAssumption, CmdAssumption, ModesAssumption
   DEF Init, Inv, TypeOK, PointersOK, HighlightOK, ScreenOK, PC, Reads, Line, Rows, Slots

\* The part of the invariant that speaks of the rows.
LEMMA InvRows == Inv => RowsOK
BY DEF Inv, RowsOK, RowsTyped, TypeOK

\* The answer to a search: no more hits than there are rows.
LEMMA FoundHits ==
  ASSUME NEW l, NEW found \in Found(l)
  PROVE  /\ Len(found) \in 0 .. Limit
         /\ found = <<>> <=> Len(found) = 0
         /\ \A f \in Slots : f < Len(found) => found[f + 1] \in Cmd \X BOOLEAN
<1>1. PICK n \in 0 .. (IF l = "word" THEN Limit ELSE 0) : found \in [1 .. n -> Cmd \X BOOLEAN]
  BY DEF Found
<1>2. n \in Nat /\ n <= Limit
  BY LimitAssumption
<1>3. found \in Seq(Cmd \X BOOLEAN) /\ Len(found) = n
  BY <1>1, <1>2, SeqDef, LenProperties
<1>. QED
  BY <1>1, <1>2, <1>3, LimitAssumption, EmptySeq DEF Slots

\* A complete redraw: each row is a hit, a lingering row or cleared.
LEMMA DrawRows ==
  ASSUME RowsOK, NEW l, NEW found \in Found(l), NEW sel \in Int, Draw(sel, found)
  PROVE  RowsOK'
<1>. USE FoundHits, LimitAssumption, CmdAssumption
<1>1. Len(found) \in Nat /\ Len(found) <= Limit
  OBVIOUS
<1>2. Clamp(sel, Len(found)) \in Int
      /\ (Len(found) > 0 => Clamp(sel, Len(found)) \in 0 .. Len(found) - 1)
  BY <1>1 DEF Clamp
<1>3. ASSUME NEW f \in Slots
      PROVE  /\ hits'[f] = Text(f, found)
             /\ f < Len(found) => /\ hitsraw'[f] = found[f + 1][1]
                                  /\ shown'[f] = <<Text(f, found), hitsannotations'[f]>>
             /\ shown'[f] \in {<<>>, <<Text(f, found), hitsannotations'[f]>>}
  <2>1. hits'[f] = Text(f, found)
    BY DEF Draw
  <2>2. f < Len(found) => hitsraw'[f] = found[f + 1][1]
    BY Zenon DEF Draw
  <2>3. shown'[f] = IF f < Len(found) \/ Lingers(f, found)
                    THEN <<Text(f, found), hitsannotations'[f]>> ELSE <<>>
    BY Zenon DEF Draw
  <2>. QED
    BY <2>1, <2>2, <2>3, Zenon
<1>4. \A f \in Slots : Text(f, found) \in Cmd \cup {None}
  BY DEF Text, RowsOK, RowsTyped
<1>5. hits' \in [Slots -> Cmd \cup {None}]
  BY <1>4 DEF Draw
<1>6. hitsraw' \in [Slots -> Cmd \cup {None, Junk}]
  BY DEF Draw, RowsOK, RowsTyped
<1>7. hitsannotations' \in [Slots -> BOOLEAN]
  BY DEF Draw, RowsOK, RowsTyped
<1>8. shown' \in Rows
  <2>1. \A f \in Slots : shown'[f] \in {<<>>} \cup ((Cmd \cup {None}) \X BOOLEAN)
    BY <1>3, <1>4, <1>7
  <2>. QED
    BY <2>1 DEF Draw, Rows
<1>9. explore_total' \in 0 .. Limit /\ current_selection' \in Int /\ lit' \in Slots \cup {-1}
  BY <1>1, <1>2 DEF Draw, Total, Slots
<1>10. PointersOK'
  <2>. SUFFICES ASSUME NEW f \in Slots, hits'[f] # None
                PROVE  hitsraw'[f] = hits'[f]
    BY DEF PointersOK
  <2>1. hitsraw'[f] = IF f < Len(found) THEN found[f + 1][1]
                      ELSE IF hits[f] # None /\ ~Lingers(f, found) THEN None ELSE hitsraw[f]
    BY Zenon DEF Draw
  <2>2. Text(f, found) # None
    BY <1>3, Zenon
  <2>3. CASE f < Len(found)
    BY <1>3, <2>1, <2>3, Zenon DEF Text
  <2>4. CASE ~(f < Len(found))
    BY <1>3, <2>1, <2>2, <2>4, Zenon DEF Text, RowsOK, PointersOK
  <2>. QED
    BY <2>3, <2>4
<1>11. HighlightOK'
  <2>. SUFFICES ASSUME explore_total' > 0
                PROVE  /\ current_selection' \in 0 .. explore_total' - 1
                       /\ lit' = current_selection'
                       /\ shown'[lit'] = <<hitsraw'[lit'], hitsannotations'[lit']>>
    BY DEF HighlightOK
  <2>1. Len(found) > 0 /\ explore_total' = Len(found)
    BY DEF Draw, Total
  <2>2. lit' = current_selection' /\ current_selection' \in 0 .. Len(found) - 1
    BY <1>2, <2>1 DEF Draw
  <2>3. lit' \in Slots /\ lit' < Len(found)
    BY <2>2, <1>1 DEF Slots
  <2>4. Text(lit', found) = hitsraw'[lit']
    BY <1>3, <2>3, Zenon DEF Text
  <2>. QED
    BY <1>3, <2>1, <2>2, <2>3, <2>4
<1>12. ScreenOK'
  <2>. SUFFICES ASSUME NEW f \in Slots, hits'[f] # None
                PROVE  shown'[f] # <<>> /\ shown'[f][1] = hits'[f]
    BY DEF ScreenOK
  <2>1. f < Len(found) \/ Lingers(f, found)
    BY <1>3, Zenon DEF Text
  <2>2. shown'[f] = <<Text(f, found), hitsannotations'[f]>>
    BY <2>1, Zenon DEF Draw
  <2>. QED
    BY <1>3, <2>2
<1>. QED
  BY <1>5, <1>6, <1>7, <1>8, <1>9, <1>10, <1>11, <1>12 DEF RowsOK, RowsTyped

\* dump_state, on an open quote or not.
LEMMA DumpRows ==
  ASSUME RowsOK, NEW l, NEW sel \in Int, Dump(l, sel)
  PROVE  RowsOK' /\ pc' \in PC
<1>1. CASE l = "quote" /\ explore_total' = 0 /\ current_selection' = sel /\ pc' = "test"
           /\ UNCHANGED <<hits, hitsraw, hitsannotations, shown, lit>>
  BY <1>1, LimitAssumption DEF RowsOK, RowsTyped, PointersOK, HighlightOK, ScreenOK, PC
<1>2. CASE \E found \in Found(l) :
             Draw(sel, found) /\ pc' \in {"test"} \cup IF MayCrash(found) THEN {"crashed"} ELSE {}
  BY <1>2, DrawRows DEF PC
<1>. QED
  BY <1>1, <1>2 DEF Dump

\* The variables that a key changes besides the rows.
KeyTyped ==
  /\ mode' \in Modes /\ vimode' \in BOOLEAN
  /\ command_mode' \in BOOLEAN /\ line' \in Line /\ explore_done' \in BOOLEAN
  /\ selection' \in Cmd \cup {None, Junk} /\ asked' \in Request \cup {None}
  /\ pc' \in PC

\* Every key, by the tests of explore_cmd in their order.
LEMMA KeyRows ==
  ASSUME Inv, NEW c, NEW arrow \in BOOLEAN, Key(c, arrow)
  PROVE  RowsOK' /\ KeyTyped
<1>. USE InvRows, CmdAssumption, TypedAssumption DEF Inv, TypeOK
<1>0. mode' \in Modes /\ vimode' \in BOOLEAN
  BY DEF Key, user
<1>1. \A cm \in BOOLEAN, l \in Line, sel \in Int :
        Redraw(cm, l, sel) => /\ RowsOK' /\ pc' \in PC
                              /\ command_mode' \in BOOLEAN /\ line' \in Line
  BY DumpRows DEF Redraw
<1>2. Stays => RowsOK' /\ command_mode' \in BOOLEAN /\ line' \in Line
  BY DEF Stays, rows, RowsOK, RowsTyped, PointersOK, HighlightOK, ScreenOK
<1>3. {"test", "crashed"} \subseteq PC
  BY DEF PC
<1>4. CASE Escape(c, arrow)
  BY <1>0, <1>1, <1>2, <1>3, <1>4 DEF Escape, KeyTyped
<1>5. CASE Enter(c, arrow)
  BY <1>0, <1>2, <1>3, <1>5 DEF Enter, KeyTyped
<1>6. CASE Move(c, arrow)
  BY <1>0, <1>1, <1>6 DEF Move, KeyTyped
<1>7. \A r \in Cmd \cup {None, Junk}, unmark \in BOOLEAN :
        PruneCurrent(r, unmark)
          => /\ RowsOK' /\ command_mode' \in BOOLEAN /\ line' \in Line
             /\ pc' \in PC /\ asked' \in Request \cup {None}
  BY <1>1, <1>2, <1>3 DEF PruneCurrent, Request
<1>8. /\ At(hitsannotations, BOOLEAN) \subseteq BOOLEAN
      /\ At(hitsraw, {None, Junk}) \subseteq Cmd \cup {None, Junk}
  BY DEF At
<1>9. CASE PruneArrow(c, arrow)
  BY <1>0, <1>2, <1>3, <1>7, <1>8, <1>9 DEF PruneArrow, KeyTyped
<1>10. CASE PruneKey(c, arrow)
  BY <1>0, <1>7, <1>8, <1>10 DEF PruneKey, KeyTyped
<1>11. CASE Other(c, arrow)
  BY <1>0, <1>1, <1>2, <1>3, <1>11 DEF Other, KeyTyped
<1>. QED
  BY <1>4, <1>5, <1>6, <1>9, <1>10, <1>11 DEF Key

\* No step breaks the invariant: most of them touch no row.
LEMMA NextInv == Inv /\ [Next]_vars => Inv'
<1>. SUFFICES ASSUME Inv, [Next]_vars PROVE Inv'
  OBVIOUS
<1>1. CASE UNCHANGED vars
  BY <1>1 DEF vars, rows, Inv, TypeOK, PointersOK, HighlightOK, ScreenOK
<1>2. CASE Next
  <2>1. RowsOK' /\ KeyTyped
    <3>1. ASSUME NEW from, NEW to \in PC, Goto(from, to) PROVE RowsOK' /\ KeyTyped
      BY <3>1, InvRows DEF Goto, rows, user, Inv, TypeOK, KeyTyped, RowsOK, RowsTyped,
                           PointersOK, HighlightOK, ScreenOK
    <3>2. {"poll", "prompt", "ended", "test", "esc", "arrowRead"} \subseteq PC
      BY DEF PC, Reads
    <3>3. CASE Test
      BY <3>1, <3>2, <3>3 DEF Test
    <3>4. CASE NoInput
      BY <3>1, <3>2, <3>4 DEF NoInput
    <3>5. CASE Answer
      BY <3>1, <3>2, <3>5 DEF Answer
    <3>6. CASE EscTimeout
      BY <3>6, KeyRows DEF EscTimeout
    <3>7. CASE Signal
      BY <3>7, InvRows DEF Signal, rows, user, Inv, TypeOK, KeyTyped, RowsOK, RowsTyped,
                           PointersOK, HighlightOK, ScreenOK, PC, Reads
    <3>8. ASSUME NEW c \in Byte, Byte1(c) \/ Byte2(c) \/ Byte3(c) PROVE RowsOK' /\ KeyTyped
      BY <3>8, <3>1, <3>2, KeyRows DEF Byte1, Byte2, Byte3
    <3>. QED
      BY <1>2, <3>3, <3>4, <3>5, <3>6, <3>7, <3>8 DEF Next
  <2>. QED
    BY <2>1 DEF Inv, TypeOK, RowsOK, RowsTyped, KeyTyped
<1>. QED
  BY <1>1, <1>2

\* Every redraw leaves typed arrays, safe pointers and a highlighted selection, and
\* no key, signal or step of the loop in between disturbs them.
THEOREM AlwaysInv == Spec => []Inv
BY InitInv, NextInv, PTL DEF Spec

\* The types of the variables of the loop hold, whatever find_cmd answers.
THEOREM TypeCorrect == Spec => []TypeOK
<1>1. Inv => TypeOK
  BY DEF Inv
<1>. QED
  BY <1>1, AlwaysInv, PTL

\* The arrays of hits never hold a text without the command it was cut from:
\* the frees and the copies of explore.c never meet a pointer that is not theirs.
THEOREM PointersSafe == Spec => []PointersOK
<1>1. Inv => PointersOK
  BY DEF Inv
<1>. QED
  BY AlwaysInv, <1>1, PTL

\* Whenever there are hits, the selected row is one of them and is highlighted.
THEOREM SelectionShown == Spec => []HighlightOK
<1>1. Inv => HighlightOK
  BY DEF Inv
<1>. QED
  BY AlwaysInv, <1>1, PTL

\* With hits, the arrays are read inside their bounds and at the row shown.
LEMMA AtSelection ==
  ASSUME Inv, explore_total > 0
  PROVE  /\ At(hits, {None, Junk}) = {hits[lit]}
         /\ At(hitsraw, {None, Junk}) = {hitsraw[lit]}
         /\ At(hitsannotations, BOOLEAN) = {hitsannotations[lit]}
         /\ shown[lit] = <<hitsraw[lit], hitsannotations[lit]>>
         /\ hits[lit] # None => hitsraw[lit] \in Cmd
<1>1. current_selection \in Slots /\ lit = current_selection
      /\ shown[lit] = <<hitsraw[lit], hitsannotations[lit]>>
  BY LimitAssumption DEF Inv, TypeOK, HighlightOK, Slots
<1>2. hits[lit] # None => hitsraw[lit] = hits[lit] /\ hits[lit] \in Cmd
  BY <1>1 DEF Inv, TypeOK, PointersOK
<1>. QED
  BY <1>1, <1>2 DEF At

\* Only a prune key calls prune_current, and only Enter copies a command.
LEMMA WhoAsks ==
  ASSUME Inv, Next
  PROVE  /\ asked' # None => \E c \in Byte, arrow \in BOOLEAN :
                               PruneArrow(c, arrow) \/ PruneKey(c, arrow)
         /\ selection' # selection => \E c \in Byte, arrow \in BOOLEAN : Enter(c, arrow)
<1>1. ASSUME NEW c \in Byte, NEW arrow \in BOOLEAN, Key(c, arrow)
      PROVE  /\ asked' # None => PruneArrow(c, arrow) \/ PruneKey(c, arrow)
             /\ selection' # selection => Enter(c, arrow)
  BY <1>1 DEF Key, Escape, Move, PruneArrow, PruneKey, Enter, Other
<1>2. ASSUME NEW from, NEW to, Goto(from, to)
      PROVE  asked' = None /\ selection' = selection
  BY <1>2 DEF Goto
<1>3. CASE Test \/ NoInput \/ Answer
  BY <1>2, <1>3 DEF Test, NoInput, Answer
<1>4. CASE EscTimeout
  BY <1>1, <1>4 DEF EscTimeout, Byte
<1>5. CASE Signal
  BY <1>5 DEF Signal
<1>6. CASE \E c \in Byte : Byte1(c) \/ Byte2(c) \/ Byte3(c)
  BY <1>1, <1>2, <1>6 DEF Byte1, Byte2, Byte3
<1>. QED
  BY <1>3, <1>4, <1>5, <1>6 DEF Next

\* A prune key acts on the row shown as selected, and on the mark it is shown
\* with, whatever keys, searches and changes by others came before.
THEOREM MarksShown == Spec => MarksHighlighted
<1>1. ASSUME Inv, [Next]_vars, explore_total > 0, ~UNCHANGED vars, asked' # None
      PROVE  shown[lit] = <<asked'.cmd, asked'.unmark>>
  <2>1. PICK c \in Byte, arrow \in BOOLEAN : PruneArrow(c, arrow) \/ PruneKey(c, arrow)
    BY <1>1, WhoAsks
  <2>2. ASSUME NEW r \in {hitsraw[lit]}, NEW unmark \in {hitsannotations[lit]},
               PruneCurrent(r, unmark)
        PROVE  asked' = [cmd |-> hitsraw[lit], unmark |-> hitsannotations[lit]]
    BY <1>1, <2>2 DEF PruneCurrent
  <2>3. asked' = [cmd |-> hitsraw[lit], unmark |-> hitsannotations[lit]]
    BY <1>1, <2>1, <2>2, AtSelection DEF PruneArrow, PruneKey
  <2>. QED
    BY <1>1, <2>3, AtSelection
<1>2. Inv /\ [Next]_vars
        => [asked' # None /\ explore_total > 0
              => shown[lit] = <<asked'.cmd, asked'.unmark>>]_vars
  BY <1>1
<1>. QED
  BY AlwaysInv, <1>2, PTL DEF Spec, MarksHighlighted

\* Enter hands over a row that is on the screen, and with hits the one shown as
\* selected (explore.c:473), whatever was typed and found before.
THEOREM EnterShown == Spec => EnterTakesShown
<1>1. ASSUME Inv, Next, selection' # selection, current_selection \in Slots
      PROVE  /\ shown[current_selection] # <<>>
             /\ selection' = shown[current_selection][1]
  <2>1. PICK c \in Byte, arrow \in BOOLEAN : Enter(c, arrow)
    BY <1>1, WhoAsks
  <2>2. LET h == hits[current_selection]
            r == hitsraw[current_selection]
        IN h # None /\ (r \in Cmd => selection' = r)
    BY <1>1, <2>1 DEF Enter, At
  <2>. QED
    BY <1>1, <2>2 DEF Inv, TypeOK, PointersOK, ScreenOK
<1>2. ASSUME Inv, explore_total > 0
      PROVE  current_selection = lit
  BY <1>2 DEF Inv, HighlightOK
<1>3. Inv /\ [Next]_vars
        => [selection' # selection =>
              /\ current_selection \in Slots =>
                   shown[current_selection] # <<>> /\ selection' = shown[current_selection][1]
              /\ explore_total > 0 => current_selection = lit]_vars
  BY <1>1, <1>2
<1>. QED
  BY AlwaysInv, <1>3, PTL DEF Spec, EnterTakesShown

=============================================================================
