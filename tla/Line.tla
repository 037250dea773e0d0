-------------------------------- MODULE Line ---------------------------------
(***************************************************************************)
(* The line that is typed in explore, and the keywords it is made of:       *)
(* explore_manipulate (explore.c), with the two functions of sds.c that it  *)
(* and dump_state call.  Characters are their ASCII codes.                  *)
(***************************************************************************)
EXTENDS Integers, Sequences

CONSTANT Unbalanced     \* what sdssplitargs returns for an open quote: NULL

ASSUME UnbalancedAssumption == Unbalanced \notin Seq(Seq(Int))

Back == 127
Blank == {9, 10, 13, 32}
Space == Blank \cup {11, 12}
Double == 34
Single == 39
Backslash == 92

\* sdsrange: from start to end, counted from 0 or, when negative, from the end.
Slice(str, start, end) ==
  LET len == Len(str)
      from(i) == IF i >= 0 THEN i ELSE IF len + i < 0 THEN 0 ELSE len + i
      last == IF from(end) >= len THEN len - 1 ELSE from(end)
  IN SubSeq(str, from(start) + 1, last + 1)

\* A backspace leaves out two characters where there are three.  "%c" of 0 is no
\* character.
Manipulate(line, c) ==
  IF c = 0 THEN line
  ELSE IF c # Back THEN Append(line, c)
  ELSE IF Len(line) = 1 THEN <<>>
  ELSE Slice(line, 0, -3)

\* The value of a hexadecimal digit, -1 for other characters.
Hex(c) ==
  CASE c \in 48 .. 57 -> c - 48 [] c \in 65 .. 70 -> c - 55 [] c \in 97 .. 102 -> c - 87
    [] OTHER -> -1

\* The byte of two digits, which is a signed char.
HexByte(x, y) == LET b == x * 16 + y IN IF b > 127 THEN b - 256 ELSE b

\* What a backslash between double quotes makes of the next character.
Escaped(c) ==
  CASE c = 97 -> 7 [] c = 98 -> 8 [] c = 110 -> 10 [] c = 114 -> 13 [] c = 116 -> 9
    [] OTHER -> c

\* A bug: a word that ends with the line is not among the words.
FinishEarly(r) ==
  CASE r.mode \in {"gap", "word"} -> r.words
    [] r.mode = "closed" -> Append(r.words, r.cur)
    [] OTHER -> Unbalanced

\* The end of the line ends a word, unless a quote is open or was not followed by
\* a blank.
Finish(r) ==
  CASE r.mode = "gap" -> r.words
    [] r.mode \in {"word", "closed"} -> Append(r.words, r.cur)
    [] OTHER -> Unbalanced

\* Where sdssplitargs is: the words that are done, the one it is in, and whether
\* that is quoted.
Scanned(mode, cur, words) == [mode |-> mode, cur |-> cur, words |-> words]

\* What it makes of the i-th character of the line.
Scan(line, i, r) ==
  LET len == Len(line)
      c == line[i]
      mode == r.mode
      next == IF i < len THEN line[i + 1] ELSE 0
      \* \x and two digits, at the x
      byte == c = 120 /\ i + 1 < len /\ Hex(line[i + 1]) >= 0 /\ Hex(line[i + 2]) >= 0
      to(m) == Scanned(m, r.cur, r.words)
      add(x, m) == Scanned(m, Append(r.cur, x), r.words)
      push == Scanned("gap", <<>>, Append(r.words, r.cur))
  IN CASE mode = "gap" /\ c \in Space -> r
       [] mode = "word" /\ c \in Blank -> push
       [] mode \in {"gap", "word"} /\ c = Double -> to("double")
       [] mode \in {"gap", "word"} /\ c = Single -> to("single")
       [] mode = "gap" /\ c \notin Space \cup {Double, Single} -> add(c, "word")
       [] <<mode, c>> \in {<<"double", Double>>, <<"single", Single>>} -> to("closed")
       [] mode = "double" /\ c = Backslash /\ i < len -> to("escape")
       [] mode = "single" /\ c = Backslash /\ next = Single -> to("quote")
       [] mode = "escape" /\ byte -> add(HexByte(Hex(line[i + 1]), Hex(line[i + 2])), "digit")
       [] mode = "escape" /\ ~byte -> add(Escaped(c), "double")
       [] mode = "digit" -> to("digits")
       [] mode = "digits" -> to("double")
       [] mode = "quote" -> add(c, "single")
       [] mode = "closed" /\ c \in Space -> push
       [] mode \in {"closed", "null"} /\ ~(mode = "closed" /\ c \in Space) -> to("null")
       [] OTHER -> add(c, mode)

\* sdssplitargs: words between blanks, quoted in part or whole.  A word may have
\* no character: "".  scan[i] is what the first i characters come to.
Split(line) ==
  LET scan[i \in 0 .. Len(line)] ==
        IF i = 0 THEN Scanned("gap", <<>>, <<>>)
        ELSE Scan(line, i, scan[i - 1])
  IN Finish(scan[Len(line)])

=============================================================================
