----------------------------- MODULE MainProofs ------------------------------
(***************************************************************************)
(* The processes, for any arguments, settings, lines, keys and databases.   *)
(***************************************************************************)
EXTENDS Main, FindProofs, SettingsProofs

-----------------------------------------------------------------------------
(* Strings *)

\* A part of a string is a string.
LEMMA PartIs ==
  ASSUME NEW S, NEW t \in Seq(S), NEW a \in Nat \ {0}, NEW b \in Int, b <= Len(t)
  PROVE  SubSeq(t, a, b) \in Seq(S)
OBVIOUS

\* What is before a line break.
LEMMA CutIs ==
  ASSUME NEW t \in Seq(Char)
  PROVE  Cut(t) \in Seq(Char)
<1>. DEFINE breaks == {i \in DOMAIN t : t[i] = Newline}
<1>1. CASE breaks = {}
  BY <1>1 DEF Cut
<1>2. CASE breaks # {}
  <2>1. breaks \subseteq Nat /\ breaks \subseteq 1 .. Len(t)
    OBVIOUS
  <2>. DEFINE i == CHOOSE i \in breaks : \A k \in breaks : i <= k
  <2>2. Cut(t) = SubSeq(t, 1, i - 1)
    BY <1>2 DEF Cut
  <2>. HIDE DEF breaks
  <2>3. i \in breaks
    BY <2>1, <1>2, Smallest
  <2>. HIDE DEF i
  <2>4. i - 1 \in Int /\ i - 1 <= Len(t)
    BY <2>1, <2>3
  <2>. QED
    BY <2>2, <2>4, PartIs
<1>. QED
  BY <1>1, <1>2

\* The arguments in one string.
LEMMA ReduceIs ==
  ASSUME NEW args \in Seq(Seq(Char)), args # <<>>
  PROVE  Reduce(args) \in Seq(Char)
<1>. DEFINE n == Len(args)
            Is(h) == h = [i \in 1 .. n |-> IF i = 1 THEN args[1] ELSE h[i - 1] \o <<32>> \o args[i]]
            joined == CHOOSE h : Is(h)
            R == Seq(Char)
            More == [p \in R \X (1 .. n - 1) |-> p[1] \o <<32>> \o args[p[2] + 1]]
<1>1. n \in Nat \ {0} /\ n - 1 \in Nat /\ \A i \in 1 .. n : args[i] \in R
  OBVIOUS
<1>2. 32 \in Char
  BY DEF Char
<1>3. \A t \in R, i \in 1 .. n : t \o <<32>> \o args[i] \in R
  BY <1>1, <1>2
<1>4. More \in [R \X (1 .. n - 1) -> R]
  <2>1. \A i \in 1 .. n - 1 : i + 1 \in 1 .. n
    BY <1>1
  <2>. QED
    BY <2>1, <1>3
<1>5. \E h : Is(h)
  <2>. HIDE DEF More, R
  <2>1. PICK h : Recurs(h, R, n - 1, args[1], More)
    <3>1. 1 \in 1 .. n
      BY <1>1
    <3>2. args[1] \in R
      BY <3>1, <1>1
    <3>. HIDE DEF n
    <3>. QED
      BY <3>2, <1>1, <1>4, Recursion
  <2>. DEFINE k == [i \in 1 .. n |-> h[i - 1]]
  <2>2. k[1] = args[1]
    BY <1>1, <2>1 DEF Recurs
  <2>3. ASSUME NEW i \in 1 .. n, i # 1 PROVE k[i] = k[i - 1] \o <<32>> \o args[i]
    <3>1. i - 1 \in 1 .. n - 1 /\ i - 1 \in 1 .. n /\ (i - 1) - 1 \in 0 .. n - 1 /\ (i - 1) + 1 = i
      BY <1>1, <2>3
    <3>2. k[i] = More[<<h[(i - 1) - 1], i - 1>>] /\ h[(i - 1) - 1] \in R /\ k[i - 1] = h[(i - 1) - 1]
      BY <3>1, <2>1 DEF Recurs
    <3>. QED
      BY <3>1, <3>2 DEF More
  <2>4. Is(k)
    BY <2>2, <2>3
  <2>. QED
    BY <2>4
<1>6. Is(joined)
  BY <1>5
<1>. HIDE DEF joined
<1>7. 0 .. n - 1 \subseteq {i \in 0 .. n - 1 : joined[i + 1] \in R}
  <2>. DEFINE T == {i \in 0 .. n - 1 : joined[i + 1] \in R}
  <2>1. 0 \in T
    BY <1>1, <1>6
  <2>2. ASSUME NEW i \in 0 .. (n - 1) - 1, i \in T PROVE i + 1 \in T
    <3>1. i + 1 \in 0 .. n - 1 /\ (i + 1) + 1 \in 1 .. n /\ (i + 1) + 1 # 1 /\ ((i + 1) + 1) - 1 = i + 1
      BY <1>1
    <3>2. joined[(i + 1) + 1] = joined[i + 1] \o <<32>> \o args[(i + 1) + 1]
      BY <3>1, <1>6
    <3>. QED
      BY <3>1, <3>2, <2>2, <1>3
  <2>. HIDE DEF T
  <2>3. 0 .. n - 1 \subseteq T
    BY <2>1, <2>2, <1>1, Steps
  <2>. QED
    BY <2>3 DEF T
<1>8. joined[n] \in Seq(Char)
  <2>1. n - 1 \in 0 .. n - 1 /\ (n - 1) + 1 = n
    BY <1>1
  <2>. QED
    BY <2>1, <1>7
<1>9. Reduce(args) = Cut(joined[n])
  BY DEF Reduce, joined
<1>. QED
  BY <1>8, <1>9, CutIs

\* The line after a key.
LEMMA ManipulateIs ==
  ASSUME NEW t \in Seq(Char), NEW c \in Char
  PROVE  Manipulate(t, c) \in Seq(Char)
<1>1. Slice(t, 0, -3) \in Seq(Char)
  BY DEF Slice
<1>2. Append(t, c) \in Seq(Char)
  OBVIOUS
<1>. QED
  BY <1>1, <1>2 DEF Manipulate

\* What sdssplitargs keeps while it goes through a line.
Modes == {"gap", "word", "double", "single", "closed", "escape", "quote", "digit", "digits", "null"}

Words == [mode : Modes, cur : Seq(Char), words : Seq(Seq(Char))]

LEMMA ScannedIs ==
  ASSUME NEW m \in Modes, NEW cur \in Seq(Char), NEW words \in Seq(Seq(Char))
  PROVE  Scanned(m, cur, words) \in Words
<1>. DEFINE R == Seq(Char)
            T == Seq(Seq(Char))
<1>1. cur \in R /\ words \in T /\ Words = [mode : Modes, cur : R, words : T]
  BY DEF Words
<1>. HIDE DEF R, T
<1>. QED
  BY <1>1 DEF Scanned

\* The byte that two hexadecimal digits make is a char.
LEMMA HexByteIs ==
  ASSUME NEW x \in -1 .. 15, NEW y \in -1 .. 15, x >= 0, y >= 0
  PROVE  HexByte(x, y) \in Char
BY DEF HexByte, Char

\* The value of a digit.
LEMMA HexIs ==
  ASSUME NEW c \in Int
  PROVE  Hex(c) \in -1 .. 15
<1>1. CASE c \in 48 .. 57
  <2>1. Hex(c) = c - 48
    BY <1>1 DEF Hex
  <2>. QED
    BY <1>1, <2>1
<1>2. CASE c \in 65 .. 70
  <2>1. Hex(c) = c - 55
    BY <1>2 DEF Hex
  <2>. QED
    BY <1>2, <2>1
<1>3. CASE c \in 97 .. 102
  <2>1. Hex(c) = c - 87
    BY <1>3 DEF Hex
  <2>. QED
    BY <1>3, <2>1
<1>4. CASE ~(c \in 48 .. 57) /\ ~(c \in 65 .. 70) /\ ~(c \in 97 .. 102)
  <2>1. Hex(c) = -1
    BY <1>4 DEF Hex
  <2>. QED
    BY <2>1
<1>. QED
  BY <1>1, <1>2, <1>3, <1>4

LEMMA ScanIs ==
  ASSUME NEW l \in Seq(Char), NEW i \in 1 .. Len(l), NEW r \in Words
  PROVE  Scan(l, i, r) \in Words
<1>1. l[i] \in Char
  OBVIOUS
<1>2. \A c \in Char : c \in Int /\ Hex(c) \in -1 .. 15 /\ Escaped(c) \in Char
  <2>1. \A c \in Char : c \in Int /\ Hex(c) \in -1 .. 15
    BY HexIs DEF Char
  <2>2. \A c \in Char : Escaped(c) \in Char
    BY DEF Escaped, Char
  <2>. QED
    BY <2>1, <2>2
<1>. DEFINE byte == l[i] = 120 /\ i + 1 < Len(l) /\ Hex(l[i + 1]) >= 0 /\ Hex(l[i + 2]) >= 0
            ch == HexByte(Hex(l[i + 1]), Hex(l[i + 2]))
            to(m) == Scanned(m, r.cur, r.words)
            add(x, m) == Scanned(m, Append(r.cur, x), r.words)
            push == Scanned("gap", <<>>, Append(r.words, r.cur))
<1>3. byte => ch \in Char
  <2>1. byte => i + 1 \in 1 .. Len(l) /\ i + 2 \in 1 .. Len(l)
    OBVIOUS
  <2>2. byte => l[i + 1] \in Char /\ l[i + 2] \in Char
    BY <2>1
  <2>. QED
    BY <2>2, <1>2, HexByteIs, ZenonT(40)
<1>4. /\ \A m \in Modes : to(m) \in Words
      /\ \A m \in Modes, x \in Char : add(x, m) \in Words
      /\ push \in Words /\ r.mode \in Modes
  <2>1. r.mode \in Modes /\ r.cur \in Seq(Char) /\ r.words \in Seq(Seq(Char))
    BY DEF Words
  <2>2. /\ <<>> \in Seq(Char) /\ Append(r.words, r.cur) \in Seq(Seq(Char))
        /\ \A x \in Char : Append(r.cur, x) \in Seq(Char)
    BY <2>1
  <2>3. "gap" \in Modes
    BY DEF Modes
  <2>. QED
    BY <2>1, <2>2, <2>3, ScannedIs
<1>. QED
  BY <1>1, <1>2, <1>3, <1>4 DEF Scan, Modes

\* What sdssplitargs is after every character, one after the other.
Scans(l, scan) ==
  /\ scan[0] = Scanned("gap", <<>>, <<>>) /\ Split(l) = Finish(scan[Len(l)])
  /\ \A i \in 1 .. Len(l) : scan[i] = Scan(l, i, scan[i - 1])
  /\ \A i \in 0 .. Len(l) : scan[i] \in Words

LEMMA SplitScans ==
  ASSUME NEW l \in Seq(Char)
  PROVE  \E scan : Scans(l, scan)
<1>. DEFINE n == Len(l)
            init == Scanned("gap", <<>>, <<>>)
            Is(h) == h = [i \in 0 .. n |-> IF i = 0 THEN init ELSE Scan(l, i, h[i - 1])]
            scan == CHOOSE h : Is(h)
            More == [p \in Words \X (1 .. n) |-> Scan(l, p[2], p[1])]
<1>1. n \in Nat /\ init \in Words
  <2>1. n \in Nat /\ <<>> \in Seq(Char) /\ <<>> \in Seq(Seq(Char))
    OBVIOUS
  <2>2. "gap" \in Modes
    BY DEF Modes
  <2>. QED
    BY <2>1, <2>2, ScannedIs
<1>2. More \in [Words \X (1 .. n) -> Words]
  BY ScanIs
<1>3. \E h : Is(h)
  <2>. HIDE DEF More, init
  <2>1. PICK h : Recurs(h, Words, n, init, More)
    <3>. HIDE DEF n
    <3>. QED
      BY <1>1, <1>2, Recursion
  <2>2. /\ h = [i \in 0 .. n |-> h[i]] /\ h[0] = init
        /\ \A i \in 1 .. n : i - 1 \in 0 .. n /\ h[i - 1] \in Words /\ h[i] = More[<<h[i - 1], i>>]
    BY <1>1, <2>1 DEF Recurs
  <2>3. \A i \in 1 .. n : h[i] = Scan(l, i, h[i - 1])
    BY <2>2 DEF More
  <2>4. Is(h)
    BY <1>1, <2>2, <2>3
  <2>. QED
    BY <2>4
<1>4. Is(scan)
  BY <1>3
<1>. HIDE DEF scan
<1>5. scan[0] = init /\ \A i \in 1 .. n : scan[i] = Scan(l, i, scan[i - 1])
  BY <1>1, <1>4
<1>. HIDE DEF init
<1>6. \A i \in 0 .. n : scan[i] \in Words
  <2>. DEFINE T == {i \in 0 .. n : scan[i] \in Words}
  <2>1. 0 \in T
    BY <1>1, <1>5
  <2>2. ASSUME NEW i \in 0 .. n - 1, i \in T PROVE i + 1 \in T
    <3>1. i + 1 \in 1 .. n /\ (i + 1) - 1 = i
      BY <1>1
    <3>2. scan[i + 1] = Scan(l, i + 1, scan[i])
      BY <3>1, <1>5
    <3>. QED
      BY <3>1, <3>2, <2>2, ScanIs
  <2>. HIDE DEF T
  <2>3. 0 .. n \subseteq T
    BY <2>1, <2>2, <1>1, Steps
  <2>. QED
    BY <2>3 DEF T
<1>7. Split(l) = Finish(scan[n])
  BY DEF Split, scan, init
<1>. QED
  BY <1>5, <1>6, <1>7 DEF Scans, init

LEMMA SplitIs ==
  ASSUME NEW l \in Seq(Char), Split(l) # Unbalanced
  PROVE  Split(l) \in Seq(Seq(Char))
<1>1. PICK scan : Scans(l, scan)
  BY SplitScans
<1>2. scan[Len(l)] \in Words /\ Split(l) = Finish(scan[Len(l)])
  BY <1>1 DEF Scans
<1>. QED
  BY <1>2 DEF Finish, Words

-----------------------------------------------------------------------------
(* The words of a line *)

\* What sdssplitargs makes of a character that is no quote, between the words and in one.
LEMMA ScanPlain ==
  ASSUME NEW l, NEW i, NEW cur, NEW words, l[i] \notin {Double, Single}
  PROVE  /\ l[i] \in Space => Scan(l, i, Scanned("gap", cur, words)) = Scanned("gap", cur, words)
         /\ l[i] \notin Space =>
              Scan(l, i, Scanned("gap", cur, words)) = Scanned("word", Append(cur, l[i]), words)
         /\ l[i] \in Blank =>
              Scan(l, i, Scanned("word", cur, words)) = Scanned("gap", <<>>, Append(words, cur))
         /\ l[i] \notin Blank =>
              Scan(l, i, Scanned("word", cur, words)) = Scanned("word", Append(cur, l[i]), words)
<1>1. ASSUME l[i] \in Space
      PROVE  Scan(l, i, Scanned("gap", cur, words)) = Scanned("gap", cur, words)
  BY <1>1 DEF Scan, Scanned
<1>2. ASSUME l[i] \notin Space
      PROVE  Scan(l, i, Scanned("gap", cur, words)) = Scanned("word", Append(cur, l[i]), words)
  BY <1>2 DEF Scan, Scanned
<1>3. ASSUME l[i] \in Blank
      PROVE  Scan(l, i, Scanned("word", cur, words)) = Scanned("gap", <<>>, Append(words, cur))
  BY <1>3 DEF Scan, Scanned
<1>4. ASSUME l[i] \notin Blank
      PROVE  Scan(l, i, Scanned("word", cur, words)) = Scanned("word", Append(cur, l[i]), words)
  BY <1>4 DEF Scan, Scanned
<1>. QED
  BY <1>1, <1>2, <1>3, <1>4

\* Two words are the same, or one ends before the other begins.
LEMMA SpansApart ==
  ASSUME NEW l \in Seq(Char), NEW v \in Spans(l), NEW w \in Spans(l), v[1] <= w[1]
  PROVE  v = w \/ v[2] < w[1]
<1>1. /\ v[1] \in 1 .. Len(l) /\ v[2] \in 1 .. Len(l) /\ v = <<v[1], v[2]>> /\ v[1] <= v[2]
      /\ w[1] \in 1 .. Len(l) /\ w[2] \in 1 .. Len(l) /\ w = <<w[1], w[2]>> /\ w[1] <= w[2]
  BY DEF Spans
<1>2. /\ \A i \in v[1] .. v[2] : Ink(l, i)
      /\ \A i \in w[1] .. w[2] : Ink(l, i)
      /\ ~Ink(l, v[2] + 1) /\ ~Ink(l, w[2] + 1) /\ Starts(l, v[1]) /\ Starts(l, w[1])
  BY DEF Spans
<1>. SUFFICES ASSUME w[1] <= v[2] PROVE v = w
  BY <1>1
<1>3. v[1] = w[1]
  <2>. SUFFICES ASSUME v[1] < w[1] PROVE FALSE
    BY <1>1
  <2>1. v[1] \in 1 .. w[1] - 1 /\ \A m \in v[1] .. w[1] - 1 : m \in v[1] .. v[2]
    BY <1>1
  <2>2. l[v[1]] \in Space
    BY <1>2, <2>1 DEF Starts
  <2>. QED
    BY <1>2, <2>2 DEF Starts
<1>4. v[2] = w[2]
  <2>1. ~(v[2] < w[2])
    <3>1. v[2] < w[2] => v[2] + 1 \in w[1] .. w[2]
      BY <1>1, <1>3
    <3>. QED
      BY <1>2, <3>1
  <2>2. ~(w[2] < v[2])
    <3>1. w[2] < v[2] => w[2] + 1 \in v[1] .. v[2]
      BY <1>1, <1>3
    <3>. QED
      BY <1>2, <3>1
  <2>. QED
    BY <1>1, <2>1, <2>2
<1>. QED
  BY <1>1, <1>3, <1>4

\* The words that end before a character.
Ended(l, i) == {w \in Spans(l) : w[2] < i}

\* The number of a word.
Place(l, w) == Cardinality({v \in Spans(l) : v[1] <= w[1]})

\* The words so far are those.
AreWords(l, i, words) ==
  /\ words \in Seq(Seq(Char)) /\ Len(words) = Cardinality(Ended(l, i))
  /\ \A w \in Ended(l, i) : Place(l, w) \in 1 .. Len(words) /\ words[Place(l, w)] = SubSeq(l, w[1], w[2])

LEMMA SpansFinite ==
  ASSUME NEW l \in Seq(Char), NEW T \in SUBSET Spans(l)
  PROVE  IsFiniteSet(T)
<1>1. IsFiniteSet(1 .. Len(l))
  <2>1. 1 \in Int /\ Len(l) \in Int
    OBVIOUS
  <2>. QED
    BY <2>1, FS_Interval
<1>2. IsFiniteSet((1 .. Len(l)) \X (1 .. Len(l)))
  BY <1>1, FS_Product
<1>3. DOMAIN l = 1 .. Len(l)
  OBVIOUS
<1>4. T \subseteq (1 .. Len(l)) \X (1 .. Len(l))
  BY <1>3 DEF Spans
<1>. QED
  BY <1>2, <1>4, FS_Subset

\* A word that begins and ends so is one more.
LEMMA OneMoreWord ==
  ASSUME NEW l \in Seq(Char), NEW words, NEW i \in 1 .. Len(l), NEW a \in 1 .. i,
         AreWords(l, i, words),
         Starts(l, a), \A m \in a .. i : Ink(l, m), ~Ink(l, i + 1)
  PROVE  AreWords(l, i + 1, Append(words, SubSeq(l, a, i)))
<1>. DEFINE u == <<a, i>>
            old == Ended(l, i)
            new == Ended(l, i + 1)
            k == Append(words, SubSeq(l, a, i))
<1>1. u \in Spans(l) /\ u[1] = a /\ u[2] = i
  BY DEF Spans
<1>2. \A w \in Spans(l) : w[1] \in Nat /\ w[2] \in Nat /\ w[1] <= w[2]
  BY DEF Spans
<1>. HIDE DEF u
<1>3. new = old \cup {u} /\ u \notin old
  <2>1. ASSUME NEW w \in Spans(l), w[2] = i PROVE w = u
    <3>1. w[1] <= u[1] \/ u[1] <= w[1]
      BY <1>1, <1>2
    <3>2. ~(w[2] < u[1]) /\ ~(u[2] < w[1])
      BY <1>1, <1>2, <2>1
    <3>. QED
      BY <1>1, <3>1, <3>2, SpansApart
  <2>. QED
    BY <1>1, <1>2, <2>1 DEF Ended
<1>4. Len(words) \in Nat /\ Len(words) = Cardinality(old) /\ words \in Seq(Seq(Char))
  BY DEF AreWords
<1>5. Cardinality(new) = Len(words) + 1
  <2>1. IsFiniteSet(old)
    BY SpansFinite DEF Ended
  <2>. QED
    BY <1>3, <1>4, <2>1, FS_AddElement
<1>6. Place(l, u) = Len(words) + 1
  <2>1. {v \in Spans(l) : v[1] <= u[1]} = new
    <3>1. ASSUME NEW v \in Spans(l), v[1] <= u[1] PROVE v \in new
      BY <1>1, <1>2, <3>1, SpansApart DEF Ended
    <3>2. ASSUME NEW v \in new PROVE v \in Spans(l) /\ v[1] <= u[1]
      <4>1. v \in Spans(l) /\ v[2] < i + 1
        BY DEF Ended
      <4>2. u[1] <= v[1] => u = v \/ u[2] < v[1]
        BY <1>1, <4>1, SpansApart
      <4>. QED
        BY <1>1, <1>2, <4>1, <4>2
    <3>. QED
      BY <3>1, <3>2
  <2>. QED
    BY <1>5, <2>1, Zenon DEF Place
<1>7. k \in Seq(Seq(Char)) /\ Len(k) = Len(words) + 1 /\ k[Len(words) + 1] = SubSeq(l, a, i)
      /\ \A n \in 1 .. Len(words) : k[n] = words[n]
  <2>1. SubSeq(l, a, i) \in Seq(Char)
    OBVIOUS
  <2>. QED
    BY <1>4, <2>1
<1>. HIDE DEF k, new
<1>8. ASSUME NEW w \in new
      PROVE  Place(l, w) \in 1 .. Len(k) /\ k[Place(l, w)] = SubSeq(l, w[1], w[2])
  <2>1. CASE w \in old
    <3>1. Place(l, w) \in 1 .. Len(words) /\ words[Place(l, w)] = SubSeq(l, w[1], w[2])
      BY <2>1 DEF AreWords
    <3>2. Place(l, w) \in 1 .. Len(k)
      BY <3>1, <1>4, <1>7
    <3>3. k[Place(l, w)] = words[Place(l, w)]
      BY <3>1, <1>7
    <3>. QED
      BY <3>1, <3>2, <3>3
  <2>2. CASE w = u
    BY <2>2, <1>1, <1>4, <1>6, <1>7
  <2>. QED
    BY <1>3, <2>1, <2>2
<1>. QED
  BY <1>5, <1>7, <1>8 DEF AreWords, new, k

\* If no word ends at a character, the words so far are the same after it.
LEMMA NoMoreWords ==
  ASSUME NEW l \in Seq(Char), NEW words, NEW i \in Nat, AreWords(l, i, words),
         \A w \in Spans(l) : w[2] # i
  PROVE  AreWords(l, i + 1, words)
<1>1. \A w \in Spans(l) : w[2] \in Nat
  BY DEF Spans
<1>2. Ended(l, i + 1) = Ended(l, i)
  BY <1>1 DEF Ended
<1>. QED
  BY <1>2, Zenon DEF AreWords

\* Since the last blank there were only vertical tabs and form feeds.
Fresh(l, i) == \A k \in 1 .. i : (\A m \in k .. i : Ink(l, m)) => l[k] \in Space

\* Where sdssplitargs is after i characters, none of them a quote.
InGap(l, i, r) == \E words :
  r = Scanned("gap", <<>>, words) /\ AreWords(l, i, words) /\ Fresh(l, i)

InWord(l, i, r) == \E words : \E a \in 1 .. i :
  /\ r = Scanned("word", SubSeq(l, a, i), words) /\ AreWords(l, i, words)
  /\ Starts(l, a) /\ \A m \in a .. i : Ink(l, m)

\* No word ends behind vertical tabs and form feeds.
LEMMA FreshEndsNone ==
  ASSUME NEW l \in Seq(Char), NEW i \in Nat, Fresh(l, i), NEW w \in Spans(l)
  PROVE  w[2] # i
<1>1. w[1] \in 1 .. w[2] /\ w[2] \in Nat /\ Starts(l, w[1]) /\ \A m \in w[1] .. w[2] : Ink(l, m)
  BY DEF Spans
<1>2. ASSUME w[2] = i PROVE FALSE
  <2>1. l[w[1]] \in Space
    BY <1>1, <1>2 DEF Fresh
  <2>. QED
    BY <1>1, <2>1 DEF Starts
<1>. QED
  BY <1>2

\* A character more, between words.
LEMMA GapStep ==
  ASSUME NEW l \in Seq(Char), NEW i \in 0 .. Len(l) - 1, NEW r, InGap(l, i, r),
         l[i + 1] \notin {Double, Single}
  PROVE  LET n == Scan(l, i + 1, r) IN InGap(l, i + 1, n) \/ InWord(l, i + 1, n)
<1>1. PICK words : r = Scanned("gap", <<>>, words) /\ AreWords(l, i, words) /\ Fresh(l, i)
  BY DEF InGap
<1>2. AreWords(l, i + 1, words)
  <2>1. i \in Nat
    OBVIOUS
  <2>. QED
    BY <1>1, <2>1, FreshEndsNone, NoMoreWords
<1>3. i + 1 \in DOMAIN l /\ i + 1 \in 1 .. i + 1 /\ l[i + 1] \in Char
  OBVIOUS
<1>4. CASE l[i + 1] \in Space
  <2>1. Scan(l, i + 1, r) = Scanned("gap", <<>>, words)
    BY <1>1, <1>4, ScanPlain
  <2>2. Fresh(l, i + 1)
    <3>. SUFFICES ASSUME NEW k \in 1 .. i + 1, \A m \in k .. i + 1 : Ink(l, m)
                  PROVE  l[k] \in Space
      BY DEF Fresh
    <3>1. CASE k = i + 1
      BY <3>1, <1>4
    <3>2. CASE k # i + 1
      <4>1. k \in 1 .. i /\ \A m \in k .. i : m \in k .. i + 1
        BY <3>2
      <4>. QED
        BY <4>1, <1>1 DEF Fresh
    <3>. QED
      BY <3>1, <3>2
  <2>. QED
    BY <1>2, <2>1, <2>2 DEF InGap
<1>5. CASE l[i + 1] \notin Space
  <2>1. Scan(l, i + 1, r) = Scanned("word", Append(<<>>, l[i + 1]), words)
    <3>1. PICK cur : cur = <<>>
      OBVIOUS
    <3>2. r = Scanned("gap", cur, words)
      BY <1>1, <3>1, Zenon
    <3>3. Scan(l, i + 1, r) = Scanned("word", Append(cur, l[i + 1]), words)
      BY <1>5, <3>2, ScanPlain
    <3>. QED
      BY <3>1, <3>3
  <2>2. Append(<<>>, l[i + 1]) = SubSeq(l, i + 1, i + 1)
    BY <1>3
  <2>3. Starts(l, i + 1)
    <3>1. (i + 1) - 1 = i
      OBVIOUS
    <3>. QED
      BY <1>1, <1>5, <3>1 DEF Starts, Fresh
  <2>4. \A m \in i + 1 .. i + 1 : Ink(l, m)
    BY <1>3, <1>5 DEF Ink, Space
  <2>5. PICK n, b : n = Scan(l, i + 1, r) /\ b = i + 1
    OBVIOUS
  <2>6. /\ b \in 1 .. b /\ n = Scanned("word", SubSeq(l, b, b), words) /\ AreWords(l, b, words)
        /\ Starts(l, b) /\ \A m \in b .. b : Ink(l, m)
    BY <1>2, <1>3, <2>1, <2>2, <2>3, <2>4, <2>5, Zenon
  <2>7. InWord(l, b, n)
    BY <2>6, Zenon DEF InWord
  <2>. QED
    BY <2>5, <2>7, Zenon
<1>. QED
  BY <1>4, <1>5

\* A character more, in a word.
LEMMA WordStep ==
  ASSUME NEW l \in Seq(Char), NEW i \in 0 .. Len(l) - 1, NEW r, InWord(l, i, r),
         l[i + 1] \notin {Double, Single}
  PROVE  LET n == Scan(l, i + 1, r) IN InGap(l, i + 1, n) \/ InWord(l, i + 1, n)
<1>0. PICK words :
        \E a \in 1 .. i :
          /\ r = Scanned("word", SubSeq(l, a, i), words) /\ AreWords(l, i, words)
          /\ Starts(l, a) /\ \A m \in a .. i : Ink(l, m)
  BY DEF InWord
<1>1. PICK a \in 1 .. i :
        /\ r = Scanned("word", SubSeq(l, a, i), words) /\ AreWords(l, i, words)
        /\ Starts(l, a) /\ \A m \in a .. i : Ink(l, m)
  BY <1>0
<1>2. /\ i + 1 \in DOMAIN l /\ i \in 1 .. Len(l) /\ a \in 1 .. i + 1 /\ l[i + 1] \in Char
      /\ i \in Nat
  BY <1>1
<1>3. CASE l[i + 1] \in Blank
  <2>1. Scan(l, i + 1, r) = Scanned("gap", <<>>, Append(words, SubSeq(l, a, i)))
    BY <1>1, <1>3, ScanPlain
  <2>2. ~Ink(l, i + 1)
    BY <1>3 DEF Ink
  <2>3. AreWords(l, i + 1, Append(words, SubSeq(l, a, i)))
    BY <1>1, <1>2, <2>2, OneMoreWord
  <2>4. Fresh(l, i + 1)
    <3>1. \A k \in 1 .. i + 1 : i + 1 \in k .. i + 1
      BY <1>2
    <3>. QED
      BY <2>2, <3>1 DEF Fresh
  <2>. QED
    BY <2>1, <2>3, <2>4 DEF InGap
<1>4. CASE l[i + 1] \notin Blank
  <2>1. Scan(l, i + 1, r) = Scanned("word", Append(SubSeq(l, a, i), l[i + 1]), words)
    BY <1>1, <1>4, ScanPlain
  <2>2. Append(SubSeq(l, a, i), l[i + 1]) = SubSeq(l, a, i + 1)
    BY <1>2
  <2>3. Ink(l, i + 1)
    BY <1>2, <1>4 DEF Ink
  <2>4. \A m \in a .. i + 1 : Ink(l, m)
    <3>1. \A m \in a .. i + 1 : m = i + 1 \/ m \in a .. i
      BY <1>2
    <3>. QED
      BY <1>1, <2>3, <3>1
  <2>5. AreWords(l, i + 1, words)
    <3>1. \A w \in Spans(l) : ~Ink(l, w[2] + 1)
      BY DEF Spans
    <3>2. \A w \in Spans(l) : w[2] # i
      BY <2>3, <3>1
    <3>. QED
      BY <1>1, <1>2, <3>2, NoMoreWords
  <2>. QED
    BY <1>1, <1>2, <2>1, <2>2, <2>4, <2>5 DEF InWord
<1>. QED
  BY <1>3, <1>4

\* What Finish makes of the last word, or of none.
LEMMA FinishPlain ==
  ASSUME NEW cur, NEW words
  PROVE  /\ Finish(Scanned("gap", cur, words)) = words
         /\ Finish(Scanned("word", cur, words)) = Append(words, cur)
<1>1. Finish(Scanned("gap", cur, words)) = words
  BY DEF Finish, Scanned
<1>2. Finish(Scanned("word", cur, words)) = Append(words, cur)
  BY DEF Finish, Scanned
<1>. QED
  BY <1>1, <1>2

\* sdssplitargs finds the words of a line without quotes.
LEMMA SplitWords ==
  ASSUME NEW l \in Seq(Char), \A i \in DOMAIN l : l[i] \notin {Double, Single}
  PROVE  AreWords(l, Len(l) + 1, Split(l)) /\ Ended(l, Len(l) + 1) = Spans(l)
<1>. DEFINE n == Len(l)
<1>1. PICK scan : Scans(l, scan)
  BY SplitScans
<1>2. n \in Nat /\ DOMAIN l = 1 .. n
  OBVIOUS
<1>3. \A w \in Spans(l) : w[2] \in 1 .. n
  BY DEF Spans
<1>4. InGap(l, 0, scan[0])
  <2>1. Ended(l, 0) = {}
    BY <1>3 DEF Ended
  <2>2. Fresh(l, 0)
    BY DEF Fresh
  <2>3. Cardinality({}) = 0
    BY FS_EmptySet
  <2>4. <<>> \in Seq(Seq(Char)) /\ Len(<<>>) = 0
    OBVIOUS
  <2>5. Cardinality(Ended(l, 0)) = 0
    BY <2>1, <2>3, Zenon
  <2>6. AreWords(l, 0, <<>>)
    BY <2>1, <2>4, <2>5 DEF AreWords
  <2>7. scan[0] = Scanned("gap", <<>>, <<>>)
    BY <1>1 DEF Scans
  <2>. QED
    BY <2>2, <2>6, <2>7 DEF InGap
<1>. HIDE DEF n
<1>5. InGap(l, n, scan[n]) \/ InWord(l, n, scan[n])
  <2>. DEFINE T == {i \in 0 .. n : InGap(l, i, scan[i]) \/ InWord(l, i, scan[i])}
  <2>1. 0 \in T
    BY <1>2, <1>4
  <2>2. ASSUME NEW i \in 0 .. n - 1, i \in T PROVE i + 1 \in T
    <3>1. i + 1 \in 1 .. n /\ (i + 1) - 1 = i /\ i \in 0 .. Len(l) - 1 /\ i + 1 \in 0 .. n
      BY <1>2 DEF n
    <3>2. scan[i + 1] = Scan(l, i + 1, scan[i])
      BY <1>1, <3>1 DEF Scans, n
    <3>3. l[i + 1] \notin {Double, Single}
      BY <1>2, <3>1
    <3>4. InGap(l, i + 1, scan[i + 1]) \/ InWord(l, i + 1, scan[i + 1])
      BY <2>2, <3>1, <3>2, <3>3, GapStep, WordStep
    <3>. QED
      BY <3>1, <3>4
  <2>. HIDE DEF T
  <2>3. 0 .. n \subseteq T
    BY <2>1, <2>2, <1>2, Steps
  <2>4. n \in 0 .. n
    BY <1>2
  <2>. QED
    BY <2>3, <2>4 DEF T
<1>6. Ended(l, n + 1) = Spans(l)
  BY <1>2, <1>3 DEF Ended
<1>7. Split(l) = Finish(scan[n])
  BY <1>1 DEF Scans, n
<1>8. CASE InGap(l, n, scan[n])
  <2>1. PICK words : scan[n] = Scanned("gap", <<>>, words) /\ AreWords(l, n, words) /\ Fresh(l, n)
    BY <1>8 DEF InGap
  <2>2. AreWords(l, n + 1, words)
    BY <1>2, <2>1, FreshEndsNone, NoMoreWords
  <2>3. Split(l) = words
    BY <1>7, <2>1, FinishPlain
  <2>. QED
    BY <1>6, <2>2, <2>3 DEF n
<1>9. CASE InWord(l, n, scan[n])
  <2>1. PICK words : \E a \in 1 .. n :
          /\ scan[n] = Scanned("word", SubSeq(l, a, n), words) /\ AreWords(l, n, words)
          /\ Starts(l, a) /\ \A m \in a .. n : Ink(l, m)
    BY <1>9 DEF InWord
  <2>2. PICK a \in 1 .. n :
          /\ scan[n] = Scanned("word", SubSeq(l, a, n), words) /\ AreWords(l, n, words)
          /\ Starts(l, a) /\ \A m \in a .. n : Ink(l, m)
    BY <2>1
  <2>3. ~Ink(l, n + 1) /\ n \in 1 .. Len(l)
    BY <1>2, <2>2 DEF Ink, n
  <2>4. AreWords(l, n + 1, Append(words, SubSeq(l, a, n)))
    BY <2>2, <2>3, OneMoreWord
  <2>5. Split(l) = Append(words, SubSeq(l, a, n))
    BY <1>7, <2>2, FinishPlain
  <2>. QED
    BY <1>6, <2>4, <2>5 DEF n
<1>. QED
  BY <1>5, <1>8, <1>9

-----------------------------------------------------------------------------
(* The invariant *)

\* Where main is, and for which process; find_cmd runs only for those that search.
PlacesOK ==
  /\ main \in Places \cup Commands /\ runs \in 0 .. MaxRuns
  /\ status \in {"ok", "usage", "failed", "crashed", "undefined"}
  /\ main = "shell" => job = None
  /\ main # "shell" => job \in Jobs /\ job.command \in Commands
  /\ main \in Commands => main = job.command
  /\ main = "input" => job.command = "index"
  /\ main \in {"searching", "type"} => job.command \in {"explore", "prune"}
  /\ find # "none" => main \in {"finding", "searching"}

\* The lines and the keys that are still to come are strings, and so is the line.
TypingOK ==
  /\ line \in Seq(Char)
  /\ main = "input" => rest \in Seq(Seq(Char))
  /\ main \in {"searching", "type"} => rest \in Seq(Char)

StoreOK == IsFiniteSet(DOMAIN raw) /\ SEARCH_LIMIT \in Lowest .. Highest

MainOK == PlacesOK /\ TypingOK /\ StoreOK /\ SearchOK

-----------------------------------------------------------------------------
(* The database *)

\* What a job has on its command line and its standard input.
LEMMA JobIs ==
  ASSUME NEW p \in Jobs
  PROVE  /\ p.args \in Seq(Seq(Char)) /\ p.file \in Seq(Word) \cup {NoFile}
         /\ p.command \in {"explore", "prune"} => p.input \in Seq(Char)
         /\ p.command = "index" => p.input \in Seq(Seq(Char))
BY JobsAssumption

\* The limits are numbers of hits.
LEMMA LimitIs ==
  /\ \A v : Limit(v) \in Lowest .. Highest
  /\ Default \in Lowest .. Highest /\ Lowest .. Highest \subseteq Nat
BY LimitAssumption DEF Limit

\* index_cmd adds a row, or dates one again.
LEMMA RecordOK ==
  ASSUME RowsOK, IsFiniteSet(DOMAIN raw), NEW cmd \in Seq(Char), Record(cmd)
  PROVE  RowsOK' /\ IsFiniteSet(DOMAIN raw)'
<1>. DEFINE times == {0} \cup {raw[c].ts : c \in DOMAIN raw}
            latest == CHOOSE t \in times : \A u \in times : u <= t
<1>1. PICK tick \in 0 .. 1 : raw' = With(raw, cmd, [ts |-> latest + tick, text |-> Encode(cmd)])
  BY DEF Record
<1>2. latest \in Nat
  <2>1. times \in SUBSET Nat /\ times # {}
    BY DEF RowsOK
  <2>2. IsFiniteSet(times)
    <3>. DEFINE dates == {raw[c].ts : c \in DOMAIN raw}
    <3>1. IsFiniteSet(dates)
      <4>. DEFINE S == DOMAIN raw
                  d == [c \in S |-> raw[c].ts]
      <4>1. dates = {d[c] : c \in S}
        OBVIOUS
      <4>2. IsFiniteSet({d[c] : c \in S})
        <5>1. d \in Surjection(S, {d[c] : c \in S})
          BY DEF Surjection
        <5>. HIDE DEF d
        <5>. QED
          BY <5>1, FS_Surjection DEF dates
      <4>. QED
        BY <4>1, <4>2
    <3>2. times = dates \cup {0}
      OBVIOUS
    <3>. HIDE DEF dates
    <3>. QED
      BY <3>1, <3>2, FS_AddElement
  <2>. HIDE DEF times
  <2>. QED
    BY <2>1, <2>2, Greatest
<1>. DEFINE new == [ts |-> latest + tick, text |-> Encode(cmd)]
<1>3. new.ts \in Nat /\ new.text = Encode(cmd)
  BY <1>2
<1>. HIDE DEF new, latest
<1>4. /\ DOMAIN raw' = DOMAIN raw \cup {cmd} /\ raw'[cmd] = new
      /\ \A c \in DOMAIN raw : c # cmd => raw'[c] = raw[c]
  BY <1>1 DEF With, new
<1>5. IsFiniteSet(DOMAIN raw)'
  BY <1>4, FS_AddElement
<1>6. \A c \in DOMAIN raw' : c \in Seq(Char) /\ raw'[c].ts \in Nat /\ raw'[c].text = Encode(c)
  BY <1>3, <1>4 DEF RowsOK
<1>7. lut' = UNION {Ngrams(c) \X {c} : c \in DOMAIN raw'}
  <2>1. lut' = lut \cup (Ngrams(cmd) \X {cmd})
    BY DEF Record, GramRows
  <2>. QED
    BY <2>1, <1>4 DEF RowsOK
<1>. QED
  BY <1>5, <1>6, <1>7 DEF RowsOK

\* Nothing that concerns the search has changed.
LEMMA UnsearchedOK ==
  ASSUME SearchOK, UNCHANGED <<database, search, SEARCH_LIMIT>>
  PROVE  SearchOK'
<1>1. UNCHANGED <<raw, lut, keywords, find, unseen, hits, machine, acs, text, s, upto, j>>
  BY DEF database, search, found, machine, cursors, counters
<1>2. Exact'
  BY <1>1, StepExact DEF SearchOK
<1>3. RowsOK' /\ universe' = universe /\ \A c : Rank(c)' = Rank(c)
  BY <1>1, RowsKept DEF SearchOK
<1>4. /\ MachineInit' = MachineInit /\ Narrow' = Narrow /\ Tested' = Tested /\ Hits' = Hits
      /\ \A c : Finds(c)' = Finds(c) /\ Has(c)' = Has(c)
  BY <1>1 DEF MachineInit, machine, counters, tables, cursors, Narrow, Tested, max_states, Hits, Finds, Has, Holds
<1>5. HitsOK' /\ PhaseOK' /\ SeenOK'
  BY <1>1, <1>3, <1>4 DEF SearchOK, HitsOK, PhaseOK, SeenOK
<1>. QED
  BY <1>2, <1>3, <1>5 DEF SearchOK

-----------------------------------------------------------------------------
(* The steps of a process *)

\* The process ends.
LEMMA EndsOK ==
  ASSUME MainOK, NEW st \in {"ok", "failed", "crashed", "undefined"}, Ends(st)
  PROVE  MainOK'
<1>1. /\ main' = "shell" /\ status' = st /\ job' = None /\ SEARCH_LIMIT' = Default /\ line' = <<>>
      /\ find' = "none" /\ runs' = runs /\ UNCHANGED <<raw, lut>> /\ ForgetSearch
  BY DEF Ends, database, ForgetSearch
<1>2. SearchOK'
  BY <1>1, LimitIs, ForgetOK DEF MainOK
<1>3. PlacesOK'
  BY <1>1 DEF MainOK, PlacesOK, Places, Commands
<1>4. TypingOK' /\ StoreOK'
  BY <1>1, LimitIs DEF MainOK, TypingOK, StoreOK
<1>. QED
  BY <1>2, <1>3, <1>4 DEF MainOK

\* A process starts.
LEMMA LaunchOK ==
  ASSUME MainOK, NEW p \in Jobs, Start(p)
  PROVE  MainOK'
<1>1. /\ UNCHANGED <<database, search, SEARCH_LIMIT, line, rest, raw, find>>
      /\ main = "shell" /\ runs' = runs + 1 /\ runs < MaxRuns
      /\ \/ main' = "config" /\ job' = p /\ p.command \in Commands /\ status' = status
         \/ main' = "shell" /\ job' = job /\ status' = "usage"
  BY DEF Start, database, memory, typing, search, found
<1>2. SearchOK'
  BY <1>1, UnsearchedOK DEF MainOK
<1>3. runs' \in 0 .. MaxRuns
  BY <1>1, LimitAssumption DEF MainOK, PlacesOK
<1>. QED
  BY <1>1, <1>2, <1>3 DEF MainOK, PlacesOK, TypingOK, StoreOK, Places, Commands

\* It reads its settings, and asks for the limit.
LEMMA SettingsOK ==
  ASSUME MainOK, ReadConfig \/ Initialized \/ GetLimit
  PROVE  MainOK'
<1>1. UNCHANGED <<database, search, SEARCH_LIMIT, line, rest, raw, find, job, runs, status>>
  BY DEF ReadConfig, Initialized, GetLimit, Goes, database, memory, typing, search, found, process
<1>2. main \in {"config", "limit"} /\ main' \in {main, "limit"}
  BY DEF ReadConfig, Initialized, GetLimit, Goes
<1>3. SearchOK'
  BY <1>1, UnsearchedOK DEF MainOK
<1>. QED
  BY <1>1, <1>2, <1>3 DEF MainOK, PlacesOK, TypingOK, StoreOK, Places, Commands

\* The limit is set.
LEMMA LimitOK ==
  ASSUME MainOK, SetLimit
  PROVE  MainOK'
<1>1. /\ main = "limit" /\ main' = job.command /\ UNCHANGED <<job, runs, status, rest, line>>
      /\ UNCHANGED <<raw, lut, keywords, found, machine, find>>
      /\ SEARCH_LIMIT' = Limit(answer[2])
  BY DEF SetLimit, Goes, process, database, search, typing, found
<1>2. job \in Jobs /\ job.command \in Commands /\ find = "none"
  BY <1>1 DEF MainOK, PlacesOK
<1>3. SEARCH_LIMIT' \in Lowest .. Highest /\ SEARCH_LIMIT' \in Nat
  BY <1>1, LimitIs
<1>4. SearchOK'
  <2>1. RowsOK'
    BY <1>1 DEF MainOK, SearchOK, RowsOK
  <2>. QED
    BY <1>1, <1>2, <1>3, <2>1, BetweenOK DEF MainOK
<1>5. PlacesOK' /\ TypingOK'
  BY <1>1, <1>2 DEF MainOK, PlacesOK, TypingOK, Places, Commands
<1>6. StoreOK'
  BY <1>1, <1>3 DEF MainOK, StoreOK
<1>. QED
  BY <1>4, <1>5, <1>6 DEF MainOK

\* Commands are indexed.
LEMMA IndexOK ==
  ASSUME MainOK, IndexArguments \/ IndexInput \/ IndexLine \/ InputEnds
  PROVE  MainOK'
<1>1. UNCHANGED <<SEARCH_LIMIT, line, keywords, found, machine, find, job, runs, status>>
  BY DEF IndexArguments, IndexInput, IndexLine, InputEnds, Goes, process, memory, search, typing, found
<1>0. main \in {"index", "input"} /\ main' \in {"input", "leave"} /\ job \in Jobs /\ job.command = "index"
  BY DEF IndexArguments, IndexInput, IndexLine, InputEnds, Goes, MainOK, PlacesOK, Commands
<1>2. find = "none"
  BY <1>0 DEF MainOK, PlacesOK
<1>3. RowsOK' /\ IsFiniteSet(DOMAIN raw)'
  <2>0. RowsOK /\ IsFiniteSet(DOMAIN raw)
    BY DEF MainOK, SearchOK, StoreOK
  <2>1. CASE IndexArguments
    <3>1. main = "index" /\ job.args # <<>> /\ Record(Reduce(job.args))
      BY <2>1 DEF IndexArguments
    <3>2. job.args \in Seq(Seq(Char))
      BY <1>0, JobIs
    <3>. QED
      BY <2>0, <3>1, <3>2, ReduceIs, RecordOK
  <2>2. CASE IndexLine
    <3>1. /\ main = "input" /\ rest # <<>>
          /\ (Record(Cut(Head(rest))) \/ UNCHANGED <<raw, lut>>)
      BY <2>2 DEF IndexLine, database
    <3>2. Head(rest) \in Seq(Char)
      BY <3>1 DEF MainOK, TypingOK
    <3>3. Cut(Head(rest)) \in Seq(Char)
      BY <3>2, CutIs
    <3>4. CASE Record(Cut(Head(rest)))
      BY <2>0, <3>3, <3>4, RecordOK
    <3>5. CASE UNCHANGED <<raw, lut>>
      BY <2>0, <3>5 DEF RowsOK
    <3>. QED
      BY <3>1, <3>4, <3>5
  <2>3. CASE IndexInput \/ InputEnds
    <3>1. UNCHANGED <<raw, lut>>
      BY <2>3 DEF IndexInput, InputEnds, database
    <3>. QED
      BY <2>0, <3>1 DEF RowsOK
  <2>. QED
    BY <2>1, <2>2, <2>3
<1>4. SearchOK' /\ StoreOK'
  <2>1. SEARCH_LIMIT' \in Nat
    BY <1>1, LimitIs DEF MainOK, StoreOK
  <2>. QED
    BY <1>1, <1>2, <1>3, <2>1, BetweenOK DEF MainOK, StoreOK
<1>5. main' = "input" => rest' \in Seq(Seq(Char))
  <2>1. CASE IndexInput
    <3>1. rest' = job.input
      BY <2>1 DEF IndexInput
    <3>. QED
      BY <3>1, <1>0, JobIs
  <2>2. CASE IndexLine
    <3>1. main = "input" /\ rest # <<>> /\ rest' = Tail(rest)
      BY <2>2 DEF IndexLine
    <3>2. rest \in Seq(Seq(Char))
      BY <3>1 DEF MainOK, TypingOK
    <3>. QED
      BY <3>1, <3>2
  <2>3. CASE IndexArguments \/ InputEnds
    BY <2>3 DEF IndexArguments, InputEnds, Goes
  <2>. QED
    BY <2>1, <2>2, <2>3
<1>6. PlacesOK' /\ TypingOK'
  BY <1>0, <1>1, <1>2, <1>5 DEF MainOK, PlacesOK, TypingOK, Places, Commands
<1>. QED
  BY <1>4, <1>6 DEF MainOK

\* A search begins, from the command line or for the line.
LEMMA BeginOK ==
  ASSUME MainOK, Find \/ Explore \/ Type
  PROVE  MainOK'
<1>1. UNCHANGED <<database, raw, lut, SEARCH_LIMIT, job, runs, status>>
  BY DEF Find, Explore, Type, Search, Goes, process, others, database
<1>2. StoreOK'
  BY <1>1 DEF MainOK, StoreOK
<1>3. CASE Find
  <2>1. main = "find" /\ main' = "finding" /\ FindCmd(job.args) /\ UNCHANGED <<rest, line>>
    BY <1>3 DEF Find, Goes, typing
  <2>2. job.args \in Seq(Seq(Char))
    BY <2>1, JobIs DEF MainOK, PlacesOK
  <2>3. SearchOK'
    BY <1>1, <2>1, <2>2, FindCmdOK DEF MainOK
  <2>. QED
    BY <1>1, <1>2, <2>1, <2>3 DEF MainOK, PlacesOK, TypingOK, Places, Commands
<1>4. ASSUME NEW l \in Seq(Char), Search(l), main \in {"explore", "prune", "type"}, rest' \in Seq(Char)
      PROVE  MainOK'
  <2>1. job \in Jobs /\ job.command \in {"explore", "prune"} /\ find = "none"
    BY <1>4 DEF MainOK, PlacesOK, Commands
  <2>2. line' = l /\ main' \in {"type", "searching"}
    BY <1>4 DEF Search
  <2>3. SearchOK' /\ (find' # "none" => main' = "searching")
    <3>1. CASE Split(l) = Unbalanced
      <4>1. UNCHANGED <<search, find>>
        BY <1>4, <3>1 DEF Search, search, found
      <4>. QED
        BY <1>1, <2>1, <4>1, UnsearchedOK DEF MainOK
    <3>2. CASE Split(l) # Unbalanced
      <4>1. main' = "searching" /\ FindCmd(Split(l))
        BY <1>4, <3>2 DEF Search
      <4>. QED
        BY <1>1, <1>4, <3>2, <4>1, SplitIs, FindCmdOK DEF MainOK
    <3>. QED
      BY <3>1, <3>2
  <2>. QED
    BY <1>1, <1>2, <1>4, <2>1, <2>2, <2>3 DEF MainOK, PlacesOK, TypingOK, Places, Commands
<1>5. CASE Explore
  <2>1. main \in {"explore", "prune"} /\ rest' = job.input /\ Search(<<>>) /\ <<>> \in Seq(Char)
    BY <1>5 DEF Explore
  <2>2. rest' \in Seq(Char)
    BY <2>1, JobIs DEF MainOK, PlacesOK, Commands
  <2>. QED
    BY <2>1, <2>2, <1>4
<1>6. CASE Type
  <2>1. main = "type" /\ rest # <<>> /\ rest' = Tail(rest) /\ Search(Manipulate(line, Head(rest)))
    BY <1>6 DEF Type
  <2>2. rest \in Seq(Char) /\ line \in Seq(Char)
    BY <2>1 DEF MainOK, TypingOK
  <2>3. Head(rest) \in Char /\ Tail(rest) \in Seq(Char)
    BY <2>1, <2>2
  <2>4. Manipulate(line, Head(rest)) \in Seq(Char)
    BY <2>2, <2>3, ManipulateIs
  <2>. QED
    BY <2>1, <2>3, <2>4, <1>4
<1>. QED
  BY <1>3, <1>5, <1>6

\* The search goes on, and comes to its end.
LEMMA SearchingOK ==
  ASSUME MainOK, Searching \/ Searched
  PROVE  MainOK'
<1>1. CASE Searching
  <2>1. /\ FindStep /\ main \in {"finding", "searching"}
        /\ UNCHANGED <<main, job, runs, status, rest, line, raw, SEARCH_LIMIT>>
    BY <1>1 DEF Searching, process, typing, FindStep
  <2>2. SearchOK'
    BY <2>1, FindStepOK DEF MainOK
  <2>. QED
    BY <2>1, <2>2 DEF MainOK, PlacesOK, TypingOK, StoreOK
<1>2. CASE Searched
  <2>1. /\ \/ main = "finding" /\ main' = "leave"
           \/ main = "searching" /\ main' = "type"
        /\ UNCHANGED <<job, runs, status, rest, line, raw, lut, SEARCH_LIMIT>>
        /\ ForgetSearch /\ find' = "none"
    BY <1>2 DEF Searched, Goes, process, database, others, typing, FindReturns, ForgetSearch
  <2>2. SearchOK'
    BY <2>1, LimitIs, ForgetOK DEF MainOK, StoreOK
  <2>. QED
    BY <2>1, <2>2 DEF MainOK, PlacesOK, TypingOK, StoreOK, Places, Commands
<1>. QED
  BY <1>1, <1>2

\* Every step keeps the invariant.
LEMMA MainStepOK == MainOK /\ [Next]_vars => MainOK'
<1>. SUFFICES ASSUME MainOK, [Next]_vars PROVE MainOK'
  OBVIOUS
<1>1. CASE BadConfig \/ InitFails \/ IndexNothing \/ Leave
  <2>1. Ends("failed") \/ Ends("crashed") \/ Ends("ok")
    BY <1>1 DEF BadConfig, InitFails, IndexNothing, Leave
  <2>. QED
    BY <2>1, EndsOK
<1>2. CASE Crash
  <2>1. find \in {"crashed", "undefined"} /\ Ends(find)
    BY <1>2 DEF Crash
  <2>. QED
    BY <2>1, EndsOK
<1>3. CASE UNCHANGED vars
  <2>1. UNCHANGED <<main, job, runs, status, rest, line, raw, database, search, SEARCH_LIMIT, find>>
    BY <1>3 DEF vars, process, database, memory, typing, search, found
  <2>2. SearchOK'
    BY <2>1, UnsearchedOK DEF MainOK
  <2>. QED
    BY <2>1, <2>2 DEF MainOK, PlacesOK, TypingOK, StoreOK
<1>4. CASE \E p \in Jobs : Start(p)
  BY <1>4, LaunchOK
<1>. QED
  BY <1>1, <1>2, <1>3, <1>4, SettingsOK, LimitOK, IndexOK, BeginOK, SearchingOK DEF Next, Step, Stop

LEMMA MainInitOK == Init => MainOK
<1>. SUFFICES ASSUME Init PROVE MainOK
  OBVIOUS
<1>1. PICK d \in Databases : raw = Dated(d) /\ lut = UNION {GramRows(c) : c \in DOMAIN d}
  BY DEF Init
<1>2. DOMAIN d \subseteq Seq(Char) /\ IsFiniteSet(DOMAIN d) /\ \A c \in DOMAIN d : d[c] \in Nat
  BY DatabasesAssumption
<1>3. DOMAIN raw = DOMAIN d /\ \A c \in DOMAIN d : raw[c].ts = d[c] /\ raw[c].text = Encode(c)
  BY <1>1 DEF Dated
<1>4. RowsOK
  BY <1>1, <1>2, <1>3 DEF RowsOK, GramRows
<1>5. /\ main = "shell" /\ job = None /\ runs = 0 /\ status = "ok" /\ SEARCH_LIMIT = Default
      /\ line = <<>> /\ keywords = <<>> /\ find = "none" /\ unseen = {} /\ hits = <<>> /\ MachineInit
      /\ acs = "none"
  BY DEF Init, MemoryInit, SearchInit, MachineInit
<1>6. <<>> \in Seq(Seq(Symbol)) /\ <<>> \in Seq(Seq(Char)) /\ <<>> \in Seq(Char)
  OBVIOUS
<1>7. Exact
  BY <1>5, <1>6, StartExact
<1>8. PhaseOK /\ HitsOK /\ SeenOK
  <2>1. text = <<>>
    BY <1>5 DEF MachineInit
  <2>. QED
    BY <1>5, <1>6, <2>1, LimitIs DEF PhaseOK, HitsOK, SeenOK
<1>9. PlacesOK
  BY <1>5, LimitAssumption DEF PlacesOK, Places, Commands
<1>10. TypingOK /\ StoreOK
  BY <1>2, <1>3, <1>5, <1>6, LimitIs DEF TypingOK, StoreOK
<1>. QED
  BY <1>4, <1>7, <1>8, <1>9, <1>10 DEF MainOK, SearchOK

LEMMA MainInvariant == Spec => []MainOK
BY MainInitOK, MainStepOK, PTL DEF Spec

-----------------------------------------------------------------------------
(* The settings *)

\* The lexemes of ~/.histx, none without the file.
File == IF job.file = NoFile THEN <<>> ELSE job.file

\* The value of the last row for search-limit, or none.
Asked == IF SearchKey \in DOMAIN Stored THEN Stored[SearchKey] ELSE Null

ConfiguredOK ==
  /\ TrieInv
  /\ main = "shell" => SettingsInit /\ ConfigInit
  /\ main \in {"config", "limit"} => Parsed(File, SearchKey)
  /\ main = "config" => call \in {"none", "add"}
  /\ main = "limit" => loaded = "true" /\ call \in {"none", "get"}
  /\ main = "limit" /\ call = "get" => key = SearchKey
  /\ main = "limit" /\ call = "none" => answer[2] = Asked
  /\ LimitConfigured

LEMMA FileIs ==
  ASSUME PlacesOK, main # "shell"
  PROVE  File \in Seq(Word)
<1>1. job.file \in Seq(Word) \cup {NoFile}
  BY JobIs DEF PlacesOK
<1>. QED
  BY <1>1 DEF File

LEMMA KeyIs == SearchKey \in Word /\ Unspelled(SearchKey)
BY NumberAssumption DEF Unspelled

\* No spelling of "true" or "false" is a number.
LEMMA TokensLimit ==
  ASSUME NEW x \in Word
  PROVE  Limit(Token(x)) = IF x \in DOMAIN Number /\ Number[x] \in Lowest .. Highest
                           THEN Number[x] ELSE Default
<1>1. CASE Token(x) = x
  BY <1>1 DEF Limit
<1>2. CASE \E w \in DOMAIN Spellings : x \in Spellings[w] /\ Token(x) = w
  <2>1. x \notin DOMAIN Number /\ Token(x) \notin DOMAIN Number
    BY <1>2, NumberAssumption
  <2>. QED
    BY <2>1 DEF Limit
<1>. QED
  BY <1>1, <1>2, TokenIs

\* The limit is what the file says.
LEMMA LimitFollows ==
  ASSUME PlacesOK, ConfiguredOK, main = "limit", call = "none", UNCHANGED job,
         SEARCH_LIMIT' = Limit(answer[2])
  PROVE  LimitConfigured'
<1>. DEFINE lexemes == File
            complete == IF job.file = NoFile THEN {} ELSE CompleteRows(job.file)
            given == {n \in complete : job.file[3 * n + 1] = SearchKey}
            last == CHOOSE n \in given : \A m \in given : m <= n
            limit == job.file[3 * last + 3]
<1>1. PICK n \in Nat, m \in 0 .. 2 : ReadTo(lexemes, SearchKey, n, m) /\ Follows(Dict, lexemes, SearchKey, n)
  BY DEF ConfiguredOK, Parsed
<1>2. /\ 3 * n = Len(lexemes) /\ Dict = Stored /\ answer[2] = Asked
      /\ \A i \in 1 .. 3 * n : lexemes[i] = Equals <=> i % 3 = 2
  BY <1>1 DEF ReadTo, ConfiguredOK, Dict
<1>3. lexemes \in Seq(Word)
  BY FileIs
<1>4. complete = 0 .. n - 1
  <2>1. CASE job.file = NoFile
    <3>1. n = 0
      BY <1>2, <2>1 DEF File
    <3>. QED
      BY <2>1, <3>1
  <2>2. CASE job.file # NoFile
    <3>0. lexemes = job.file
      BY <2>2 DEF File
    <3>1. lexemes = job.file /\ Len(lexemes) \div 3 = n
      <4>1. (3 * n) \div 3 = n
        OBVIOUS
      <4>. HIDE DEF lexemes
      <4>. QED
        BY <1>2, <3>0, <4>1, Zenon
    <3>2. \A k \in 0 .. n - 1 : \A i \in 1 .. 3 * (k + 1) : i \in 1 .. 3 * n
      OBVIOUS
    <3>. HIDE DEF lexemes
    <3>3. CompleteRows(job.file) = 0 .. n - 1
      BY <1>2, <3>1, <3>2, Zenon DEF CompleteRows
    <3>. QED
      BY <2>2, <3>3
  <2>. QED
    BY <2>1, <2>2
<1>5. given = Given(lexemes, SearchKey, n)
  <2>1. CASE n = 0
    BY <1>4, <2>1 DEF Given
  <2>2. CASE n # 0
    <3>1. job.file = lexemes
      BY <1>2, <2>2 DEF File
    <3>. QED
      BY <1>4, <3>1 DEF Given
  <2>. QED
    BY <2>1, <2>2
<1>6. LimitConfigured' <=>
        (main' \notin {"shell", "config", "limit"} =>
           SEARCH_LIMIT' = IF given # {} /\ limit \in DOMAIN Number /\ Number[limit] \in Lowest .. Highest
                           THEN Number[limit] ELSE Default)
  BY DEF LimitConfigured, CompleteRows
<1>7. CASE given = {}
  <2>1. Asked = Null
    BY <1>1, <1>2, <1>5, <1>7 DEF Follows, Asked
  <2>2. SEARCH_LIMIT' = Default
    BY <1>2, <2>1, NumberAssumption DEF Limit
  <2>. QED
    BY <1>6, <1>7, <2>2
<1>8. CASE given # {}
  <2>1. given \in SUBSET Nat /\ IsFiniteSet(given) /\ given \subseteq 0 .. n - 1
    <3>1. IsFiniteSet(0 .. n - 1) /\ 0 .. n - 1 \subseteq Nat
      <4>1. 0 \in Int /\ n - 1 \in Int
        OBVIOUS
      <4>. QED
        BY <4>1, FS_Interval
    <3>2. given \subseteq 0 .. n - 1
      BY <1>4
    <3>. HIDE DEF given
    <3>. QED
      BY <3>1, <3>2, FS_Subset
  <2>2. last \in given /\ \A k \in given : k <= last
    <3>. HIDE DEF given
    <3>. QED
      BY <2>1, <1>8, Greatest
  <2>. HIDE DEF last
  <2>3. Asked = Token(lexemes[3 * last + 3])
    BY <1>1, <1>2, <1>5, <1>8, <2>2 DEF Follows, Asked
  <2>4. lexemes[3 * last + 3] = limit /\ limit \in Word
    <3>1. last \in 0 .. n - 1
      BY <2>1, <2>2
    <3>2. n # 0 /\ 3 * last + 3 \in 1 .. Len(lexemes)
      BY <3>1, <1>2
    <3>3. lexemes = job.file
      BY <1>2, <3>2 DEF File
    <3>. HIDE DEF lexemes
    <3>. QED
      BY <3>2, <3>3, <1>3
  <2>. QED
    BY <1>2, <1>6, <1>8, <2>3, <2>4, TokensLimit
<1>. QED
  BY <1>7, <1>8

\* The process ends, and its settings are gone.
LEMMA EndsConfigured ==
  ASSUME NEW st, Ends(st)
  PROVE  ConfiguredOK' /\ [SettingsNext]_settings
<1>1. main' = "shell" /\ SettingsInit' /\ ConfigInit' /\ SettingsNext
  BY DEF Ends, DestroyConfig, ForgetConfig, SettingsInit, ConfigInit, SettingsNext
<1>2. (SettingsInit => TrieInv)'
  BY InitTrie, PTL
<1>. QED
  BY <1>1, <1>2 DEF ConfiguredOK, LimitConfigured

\* The settings are read.
LEMMA ReadConfigured ==
  ASSUME PlacesOK, ConfiguredOK, (\E p \in Jobs : Start(p)) \/ ReadConfig
  PROVE  ConfiguredOK' /\ [SettingsNext]_settings
<1>1. CASE \E p \in Jobs : Start(p)
  <2>1. PICK p \in Jobs : Start(p)
    BY <1>1
  <2>2. CASE p.command \in Commands
    <3>1. /\ main = "shell" /\ main' = "config" /\ job' = p /\ LoadConfig(p.file)
          /\ UNCHANGED settings /\ SettingsInit /\ ConfigInit
      BY <2>1, <2>2 DEF Start, LoadConfig, ConfiguredOK
    <3>2. Parsed(IF p.file = NoFile THEN <<>> ELSE p.file, SearchKey)'
      BY <3>1, LoadParsed, JobIs
    <3>3. Parsed(File, SearchKey)'
      <4>1. PICK q : q = IF p.file = NoFile THEN <<>> ELSE p.file
        OBVIOUS
      <4>2. File' = q /\ Parsed(q, SearchKey)'
        BY <3>1, <3>2, <4>1 DEF File
      <4>. QED
        BY <4>2
    <3>4. TrieInv' /\ call' = "none"
      BY <3>1, StepTrie DEF ConfiguredOK, SettingsInit, settings, walk
    <3>. QED
      BY <3>1, <3>3, <3>4 DEF ConfiguredOK, LimitConfigured
  <2>3. CASE p.command \notin Commands
    <3>1. main = "shell" /\ main' = "shell" /\ UNCHANGED <<settings, config>>
      BY <2>1, <2>3 DEF Start, memory
    <3>2. TrieInv'
      BY <3>1, StepTrie DEF ConfiguredOK
    <3>3. (SettingsInit /\ ConfigInit)'
      BY <3>1 DEF ConfiguredOK, SettingsInit, ConfigInit, settings, trie, walk, config
    <3>. QED
      BY <3>1, <3>2, <3>3 DEF ConfiguredOK, LimitConfigured
  <2>. QED
    BY <2>2, <2>3
<1>2. CASE ReadConfig
  <2>1. main = "config" /\ main' = "config" /\ Parse /\ job' = job
    BY <1>2 DEF ReadConfig, process
  <2>2. Parsed(File, SearchKey)' /\ call' \in {"none", "add"} /\ [SettingsNext]_settings
    <3>. DEFINE lexemes == File
    <3>1. lexemes \in Seq(Word) /\ lexemes' = lexemes
      BY <2>1, FileIs DEF File
    <3>. HIDE DEF lexemes
    <3>2. TrieInv /\ Parsed(lexemes, SearchKey) /\ call \in {"none", "add"}
      BY <2>1 DEF ConfiguredOK, lexemes
    <3>3. PICK q \in Seq(Word) : q = lexemes
      BY <3>1
    <3>4. Parsed(q, SearchKey)' /\ call' \in {"none", "add"} /\ [SettingsNext]_settings
      BY <2>1, <3>2, <3>3, KeyIs, ParseParsed
    <3>5. File' = q
      BY <3>1, <3>3 DEF lexemes
    <3>. QED
      BY <3>4, <3>5
  <2>3. TrieInv'
    BY <2>2, StepTrie DEF ConfiguredOK
  <2>. QED
    BY <2>1, <2>2, <2>3 DEF ConfiguredOK, LimitConfigured
<1>. QED
  BY <1>1, <1>2

\* The limit is asked for.
LEMMA AskConfigured ==
  ASSUME PlacesOK, ConfiguredOK, Initialized \/ GetLimit
  PROVE  ConfiguredOK' /\ [SettingsNext]_settings
<1>1. /\ main \in {"config", "limit"} /\ main' = "limit" /\ UNCHANGED <<job, config, SEARCH_LIMIT>>
      /\ loaded = "true" /\ loaded' = "true" /\ UNCHANGED <<input, want, left>> /\ File' = File
  BY DEF Initialized, GetLimit, Goes, process, ConfiguredOK, config, File
<1>2. PICK n \in Nat, m \in 0 .. 2 : ReadTo(File, SearchKey, n, m) /\ Follows(Dict, File, SearchKey, n)
  BY <1>1 DEF ConfiguredOK, Parsed
<1>3. call # "add" /\ Dict = Stored
  BY <1>1, <1>2 DEF ReadTo, Dict
<1>4. ASSUME Stored' = Stored, call' \in {"none", "get"} PROVE Parsed(File, SearchKey)'
  <2>1. ReadTo(File, SearchKey, n, m)'
    BY <1>1, <1>2, <1>4 DEF ReadTo
  <2>2. Dict' = Stored
    BY <1>4 DEF Dict
  <2>3. Follows(Dict, File, SearchKey, n)'
    BY <1>1, <1>2, <1>3, <2>2 DEF Follows, Given
  <2>. QED
    BY <1>1, <2>1, <2>3 DEF Parsed
<1>5. CASE Initialized
  <2>1. GetSetting(SearchKey)
    BY <1>5 DEF Initialized
  <2>2. SettingsNext /\ TrieInv'
    <3>1. SettingsNext
      BY <2>1, KeyIs DEF SettingsNext
    <3>. QED
      BY <3>1, StepTrie DEF ConfiguredOK
  <2>3. Stored' = Stored
    BY <2>1 DEF GetSetting, trie, Stored
  <2>4. CASE nodes = 0
    <3>1. DOMAIN Stored = {}
      BY <2>4 DEF ConfiguredOK, TrieInv, ValueOK, Node, Stored
    <3>2. call' = "none" /\ answer' = <<SearchKey, Null>>
      BY <2>1, <2>4 DEF GetSetting, walk
    <3>3. answer'[2] = Asked'
      BY <2>3, <3>1, <3>2 DEF Asked
    <3>. QED
      BY <1>1, <1>4, <2>2, <2>3, <3>2, <3>3 DEF ConfiguredOK, LimitConfigured
  <2>5. CASE nodes # 0
    <3>1. call' = "get" /\ key' = SearchKey
      BY <2>1, <2>5 DEF GetSetting, Calls
    <3>. QED
      BY <1>1, <1>4, <2>2, <2>3, <3>1 DEF ConfiguredOK, LimitConfigured
  <2>. QED
    BY <2>4, <2>5
<1>6. CASE GetLimit
  <2>1. /\ main = "limit" /\ call = "get" /\ key = SearchKey
        /\ (GetFollow \/ GetMissing \/ GetValue)
    <3>1. main = "limit" /\ Walk
      BY <1>6 DEF GetLimit
    <3>2. AddMissing \/ AddFollow \/ AddValue => call = "add"
      BY DEF AddMissing, AddFollow, AddValue, Reading, Done
    <3>3. GetFollow \/ GetMissing \/ GetValue => call = "get"
      BY DEF GetFollow, GetMissing, GetValue, Reading, Done
    <3>. QED
      BY <1>3, <3>1, <3>2, <3>3 DEF Walk, ConfiguredOK
  <2>2. SettingsNext /\ TrieInv'
    <3>1. SettingsNext
      BY <2>1 DEF SettingsNext, Walk
    <3>. QED
      BY <3>1, StepTrie DEF ConfiguredOK
  <2>3. CASE GetFollow
    <3>1. Stored' = Stored
      BY <2>3, OthersStutter DEF ConfiguredOK
    <3>2. call' = "get" /\ key' = SearchKey
      BY <2>1, <2>3 DEF GetFollow, Go
    <3>. QED
      BY <1>1, <1>4, <2>2, <3>1, <3>2 DEF ConfiguredOK, LimitConfigured
  <2>4. CASE GetMissing \/ GetValue
    <3>1. Promise!Get(key) /\ call' = "none"
      BY <2>4, GetMissingGets, GetValueGets DEF ConfiguredOK, GetMissing, GetValue, Returns
    <3>2. Stored' = Stored /\ answer'[2] = Asked
      BY <2>1, <3>1 DEF Promise!Get, Asked
    <3>3. answer'[2] = Asked'
      BY <3>2 DEF Asked
    <3>. QED
      BY <1>1, <1>4, <2>2, <3>1, <3>2, <3>3 DEF ConfiguredOK, LimitConfigured
  <2>. QED
    BY <2>1, <2>3, <2>4
<1>. QED
  BY <1>5, <1>6

\* The limit is set, and stays.
LEMMA SetConfigured ==
  ASSUME PlacesOK, ConfiguredOK, SetLimit
  PROVE  ConfiguredOK' /\ [SettingsNext]_settings
<1>1. /\ main = "limit" /\ main' = job.command /\ job' = job /\ call = "none" /\ UNCHANGED settings
      /\ SEARCH_LIMIT' = Limit(answer[2])
  BY DEF SetLimit, Goes, process
<1>2. main' \notin {"shell", "config", "limit"}
  BY <1>1 DEF PlacesOK, Commands
<1>3. LimitConfigured'
  BY <1>1, LimitFollows
<1>4. TrieInv'
  BY <1>1, StepTrie DEF ConfiguredOK
<1>. QED
  BY <1>1, <1>2, <1>3, <1>4 DEF ConfiguredOK

LEMMA RestConfigured ==
  ASSUME PlacesOK, ConfiguredOK,
         \/ IndexArguments \/ IndexInput \/ IndexLine \/ InputEnds
         \/ Find \/ Explore \/ Type \/ Searching \/ Searched
  PROVE  ConfiguredOK' /\ [SettingsNext]_settings
<1>1. /\ main \notin {"shell", "config", "limit"} /\ main' \notin {"shell", "config", "limit"}
      /\ UNCHANGED <<job, SEARCH_LIMIT, settings>>
  BY DEF IndexArguments, IndexInput, IndexLine, InputEnds, Find, Explore, Type, Search, Searching, Searched,
         Goes, process, memory, others, FindStep
<1>2. TrieInv'
  BY <1>1, StepTrie DEF ConfiguredOK
<1>. QED
  BY <1>1, <1>2 DEF ConfiguredOK, LimitConfigured

\* Every step keeps what the settings are, and is a step of theirs or none.
LEMMA StepConfigured ==
  ASSUME PlacesOK, ConfiguredOK, [Next]_vars
  PROVE  ConfiguredOK' /\ [SettingsNext]_settings
<1>1. CASE BadConfig \/ InitFails \/ IndexNothing \/ Crash \/ Leave
  <2>1. \E st : Ends(st)
    BY <1>1 DEF BadConfig, InitFails, IndexNothing, Crash, Leave
  <2>. QED
    BY <2>1, EndsConfigured
<1>2. CASE UNCHANGED vars
  <2>1. UNCHANGED <<main, job, SEARCH_LIMIT, settings, config>>
    BY <1>2 DEF vars, process, memory
  <2>2. UNCHANGED <<call, key, answer, loaded, input, want, left, Stored, Dict, Asked, File>>
    BY <2>1 DEF settings, trie, walk, config, Stored, Dict, Asked, File
  <2>3. (SettingsInit /\ ConfigInit)' = (SettingsInit /\ ConfigInit)
    BY <2>1 DEF SettingsInit, ConfigInit, settings, trie, walk, config
  <2>4. Parsed(File, SearchKey)' = Parsed(File, SearchKey)
    BY <2>2 DEF Parsed, ReadTo, Follows, Given
  <2>5. TrieInv'
    BY <2>1, StepTrie DEF ConfiguredOK
  <2>. QED
    BY <2>1, <2>2, <2>3, <2>4, <2>5 DEF ConfiguredOK, LimitConfigured
<1>. QED
  BY <1>1, <1>2, ReadConfigured, AskConfigured, SetConfigured, RestConfigured DEF Next, Step, Stop

LEMMA InitConfigured == Init => ConfiguredOK
<1>. SUFFICES ASSUME Init PROVE ConfiguredOK
  OBVIOUS
<1>1. main = "shell" /\ SettingsInit /\ ConfigInit
  BY DEF Init, MemoryInit
<1>. QED
  BY <1>1, InitTrie DEF ConfiguredOK, LimitConfigured

-----------------------------------------------------------------------------
(* What the variables hold *)

\* A search in explore is for the words of the line.
LineOK == main = "searching" => keywords = Split(line)

\* What TypeOK needs beyond the other parts.
HoldsOK == Fit /\ TrieTables /\ SortedOK /\ LineOK

\* Where the matcher is not there, nothing of it is left.
LEMMA NoMachineFit ==
  ASSUME Fit, acs = "none", UNCHANGED machine
  PROVE  Fit'
<1>1. UNCHANGED <<acs, upto, j, word, g, out, fail, s, state, todo>>
  BY DEF machine, counters, tables, cursors
<1>. QED
  BY <1>1 DEF Fit, RoomOK, TablesFit, After, Trie, State, max_states

LEMMA FindStepFit ==
  ASSUME SearchOK, Fit, FindStep
  PROVE  Fit'
<1>1. SearchOK' /\ CountOK /\ CountOK'
  BY FindStepOK DEF SearchOK, Exact, Inv
<1>2. CASE StartBuild \/ BuildStep
  <2>1. keywords' = keywords /\ (BuildGoto \/ Build \/ Outside)
    BY <1>2 DEF StartBuild, BuildStep
  <2>. QED
    BY <1>1, <2>1, CountFit, InsertNewFit, InsertFit, QueueFit, MatchFit DEF Build
<1>3. CASE TooLarge \/ Full
  BY <1>3, FreedFit DEF TooLarge, Full
<1>4. CASE Query \/ QueryFails \/ LutRow \/ Lost
  <2>1. keywords' = keywords /\ UNCHANGED machine
    BY <1>4 DEF Query, QueryFails, LutRow, Lost
  <2>. QED
    BY <2>1, MatchFit
<1>5. CASE UniverseRow \/ MatchStep \/ MatchDone
  <2>1. keywords' = keywords /\ (UNCHANGED machine \/ (\E t : StringMatches(t)) \/ Match \/ Outside \/ MatchReturns)
    BY <1>5 DEF UniverseRow, MatchStep, MatchDone
  <2>. QED
    BY <2>1, MatchFit
<1>. QED
  BY <1>2, <1>3, <1>4, <1>5 DEF FindStep

LEMMA StepFit ==
  ASSUME MainOK, Fit, [Next]_vars
  PROVE  Fit'
<1>1. CASE BadConfig \/ InitFails \/ IndexNothing \/ Crash \/ Leave \/ Searched
  <2>1. FreeGoto
    BY <1>1 DEF BadConfig, InitFails, IndexNothing, Crash, Leave, Searched, Ends, FindReturns, ForgetSearch
  <2>. QED
    BY <2>1, FreedFit
<1>2. CASE Searching
  BY <1>2, FindStepFit DEF Searching, MainOK
<1>3. CASE Find \/ Explore \/ Type
  <2>1. UNCHANGED search \/ \E kws : FindCmd(kws)
    BY <1>3 DEF Find, Explore, Type, Search
  <2>2. CASE UNCHANGED search
    <3>1. keywords' = keywords /\ UNCHANGED machine
      BY <2>2 DEF search
    <3>. QED
      BY <3>1, MatchFit
  <2>3. CASE \E kws : FindCmd(kws)
    <3>1. acs = "none" /\ UNCHANGED machine
      BY <2>3 DEF FindCmd, MainOK, SearchOK, PhaseOK
    <3>. QED
      BY <3>1, NoMachineFit
  <2>. QED
    BY <2>1, <2>2, <2>3
<1>4. CASE \/ ReadConfig \/ Initialized \/ GetLimit \/ SetLimit \/ UNCHANGED vars
           \/ IndexArguments \/ IndexInput \/ IndexLine \/ InputEnds \/ \E p \in Jobs : Start(p)
  <2>1. UNCHANGED search
    BY <1>4 DEF ReadConfig, Initialized, GetLimit, SetLimit, vars, memory, Start,
                IndexArguments, IndexInput, IndexLine, InputEnds
  <2>2. keywords' = keywords /\ UNCHANGED machine
    BY <2>1 DEF search
  <2>. QED
    BY <2>2, MatchFit
<1>. QED
  BY <1>1, <1>2, <1>3, <1>4 DEF Next, Step, Stop

\* The rows of cmdraw change only while nothing is searched for.
LEMMA StepSorted ==
  ASSUME MainOK, SortedOK, [Next]_vars
  PROVE  SortedOK'
<1>1. CASE BadConfig \/ InitFails \/ IndexNothing \/ Crash \/ Leave \/ Searched
  <2>1. find' = "none"
    BY <1>1 DEF BadConfig, InitFails, IndexNothing, Crash, Leave, Searched, Ends, FindReturns, ForgetSearch
  <2>. QED
    BY <2>1 DEF SortedOK
<1>2. CASE Searching
  BY <1>2, FindStepSorted DEF Searching, MainOK
<1>3. CASE Find \/ Explore \/ Type
  <2>1. \/ UNCHANGED search /\ main \notin {"finding", "searching"}
        \/ \E kws : FindCmd(kws)
    BY <1>3 DEF Find, Explore, Type, Search
  <2>2. find' \in {"none", "false", "start"}
    BY <2>1 DEF search, found, FindCmd, MainOK, PlacesOK
  <2>. QED
    BY <2>2 DEF SortedOK
<1>4. CASE \/ ReadConfig \/ Initialized \/ GetLimit \/ SetLimit
           \/ IndexArguments \/ IndexInput \/ IndexLine \/ InputEnds \/ \E p \in Jobs : Start(p)
  <2>1. main \notin {"finding", "searching"}
    BY <1>4 DEF ReadConfig, Initialized, GetLimit, SetLimit, Start, IndexArguments, IndexInput,
                IndexLine, InputEnds, Goes, MainOK, PlacesOK, Commands
  <2>2. UNCHANGED search
    BY <1>4 DEF ReadConfig, Initialized, GetLimit, SetLimit, memory, Start,
                IndexArguments, IndexInput, IndexLine, InputEnds
  <2>3. find' = "none"
    BY <2>1, <2>2 DEF search, found, MainOK, PlacesOK
  <2>. QED
    BY <2>3 DEF SortedOK
<1>5. CASE UNCHANGED vars
  <2>1. UNCHANGED <<raw, lut, keywords, find, unseen, hits, SEARCH_LIMIT>>
    BY <1>5 DEF vars, database, memory, search, found
  <2>2. RowsOK /\ universe' = universe /\ \A c : Rank(c)' = Rank(c)
    BY <2>1, RowsKept DEF MainOK, SearchOK
  <2>. QED
    BY <2>1, <2>2 DEF SortedOK, Before, Hits
<1>. QED
  BY <1>1, <1>2, <1>3, <1>4, <1>5 DEF Next, Step, Stop

\* The line and the keywords change together.
LEMMA StepLine ==
  ASSUME MainOK, LineOK, [Next]_vars
  PROVE  LineOK'
<1>1. CASE Searching
  <2>1. UNCHANGED <<main, keywords, line>>
    BY <1>1 DEF Searching, FindStep, StartBuild, BuildStep, TooLarge, Query, QueryFails, LutRow,
                UniverseRow, MatchStep, MatchDone, Full, Lost, typing
  <2>. QED
    BY <2>1 DEF LineOK
<1>2. CASE Explore \/ Type
  <2>1. \E l : Search(l)
    BY <1>2 DEF Explore, Type
  <2>2. main' = "type" \/ (main' = "searching" /\ keywords' = Split(line'))
    BY <2>1 DEF Search, FindCmd
  <2>. QED
    BY <2>2 DEF LineOK
<1>3. CASE \/ BadConfig \/ InitFails \/ IndexNothing \/ Crash \/ Leave \/ Searched \/ Find
           \/ ReadConfig \/ Initialized \/ GetLimit \/ SetLimit
           \/ IndexArguments \/ IndexInput \/ IndexLine \/ InputEnds \/ \E p \in Jobs : Start(p)
  <2>1. main' # "searching"
    BY <1>3 DEF BadConfig, InitFails, IndexNothing, Crash, Leave, Searched, Find, Ends, ReadConfig,
                Initialized, GetLimit, SetLimit, Start, IndexArguments, IndexInput, IndexLine,
                InputEnds, Goes, MainOK, PlacesOK, Commands
  <2>. QED
    BY <2>1 DEF LineOK
<1>4. CASE UNCHANGED vars
  BY <1>4 DEF vars, memory, search, typing, LineOK
<1>. QED
  BY <1>1, <1>2, <1>3, <1>4 DEF Next, Step, Stop

\* What sdssplitargs makes of the line are its words.
LEMMA LineSplits ==
  ASSUME MainOK, LineOK
  PROVE  LineIsWords
<1>. SUFFICES ASSUME main = "searching", \A i \in DOMAIN line : line[i] \notin {Double, Single}
              PROVE  /\ Len(keywords) = Cardinality(Spans(line))
                     /\ \A w \in Spans(line) : keywords[Place(line, w)] = SubSeq(line, w[1], w[2])
  BY DEF LineIsWords, Place
<1>1. AreWords(line, Len(line) + 1, keywords) /\ Ended(line, Len(line) + 1) = Spans(line)
  BY SplitWords DEF MainOK, TypingOK, LineOK
<1>. QED
  BY <1>1, Zenon DEF AreWords

\* All that holds in every state.
AllOK == MainOK /\ ConfiguredOK /\ HoldsOK

LEMMA AllInit == Init => AllOK
<1>. SUFFICES ASSUME Init PROVE AllOK
  OBVIOUS
<1>1. SettingsInit /\ MachineInit
  BY DEF Init, MemoryInit, SearchInit
<1>2. SortedOK /\ LineOK
  BY DEF Init, MemoryInit, SearchInit, SortedOK, LineOK
<1>. QED
  BY <1>1, <1>2, MainInitOK, InitConfigured, InitTables, StartFit DEF AllOK, HoldsOK

LEMMA AllStep == AllOK /\ [Next]_vars => AllOK' /\ [SettingsNext]_settings
<1>. SUFFICES ASSUME AllOK, [Next]_vars PROVE AllOK' /\ [SettingsNext]_settings
  OBVIOUS
<1>1. ConfiguredOK' /\ [SettingsNext]_settings
  BY StepConfigured DEF AllOK, MainOK
<1>2. MainOK' /\ Fit' /\ SortedOK' /\ LineOK'
  BY MainStepOK, StepFit, StepSorted, StepLine DEF AllOK, HoldsOK
<1>3. TrieTables'
  BY <1>1, StepTables DEF AllOK, HoldsOK, ConfiguredOK
<1>. QED
  BY <1>1, <1>2, <1>3 DEF AllOK, HoldsOK

LEMMA AlwaysOK == Spec => []AllOK /\ [][SettingsNext]_settings
BY AllInit, AllStep, PTL DEF Spec

LEMMA TypesAre == AllOK => TypeOK
<1>. SUFFICES ASSUME AllOK PROVE TypeOK
  OBVIOUS
<1>1. /\ main \in Places \cup Commands /\ job \in Jobs \cup {None} /\ runs \in 0 .. MaxRuns
      /\ status \in {"ok", "usage", "failed", "crashed", "undefined"}
      /\ SEARCH_LIMIT \in Lowest .. Highest
  BY DEF AllOK, MainOK, PlacesOK, StoreOK
<1>2. ASSUME NEW c \in DOMAIN raw PROVE raw[c].ts \in Nat /\ raw[c].text \in Seq(0 .. Pad)
  <2>1. c \in Seq(Char) /\ raw[c].ts \in Nat /\ raw[c].text = Encode(c)
    BY DEF AllOK, MainOK, SearchOK, RowsOK
  <2>. QED
    BY <2>1, EncodeIs
<1>3. lut = UNION {GramRows(c) : c \in DOMAIN raw}
  BY DEF AllOK, MainOK, SearchOK, RowsOK, GramRows
<1>4. child \in [DOMAIN child -> 1 .. nodes - 1] /\ value \in [DOMAIN value -> Word]
  BY DEF AllOK, HoldsOK, TrieTables
<1>5. j \in 1 .. max_states /\ max_states \in Nat
  BY Room DEF AllOK, MainOK, SearchOK, Exact, Inv, HoldsOK, Fit
<1>6. /\ g \in [DOMAIN g -> Trie] /\ DOMAIN g \subseteq Trie \X Column
      /\ fail \in [DOMAIN fail -> -MaxFail - 1 .. MaxFail]
      /\ out \in [DOMAIN out -> SUBSET (0 .. OutBits - 1)]
  BY DEF AllOK, HoldsOK, Fit, TablesFit, Links, OutSets
<1>. QED
  BY <1>1, <1>2, <1>3, <1>4, <1>5, <1>6 DEF TypeOK

-----------------------------------------------------------------------------
(* Few keywords *)

\* What is counted for keywords of one or two characters.
LEMMA FewCounted ==
  ASSUME CountOK, \A w \in DOMAIN keywords : Len(keywords[w]) \in 1 .. 2
  PROVE  \A i \in 0 .. Len(upto) - 1 : upto[i + 1] \in i + 1 .. 2 * i + 1
<1>. DEFINE n == Len(upto) - 1
            T == {i \in 0 .. n : upto[i + 1] \in i + 1 .. 2 * i + 1}
<1>1. /\ upto \in Seq(Nat) /\ n \in 0 .. Len(keywords) /\ upto[1] = 1
      /\ \A w \in 1 .. n : upto[w + 1] = upto[w] + Len(keywords[w])
      /\ DOMAIN keywords = 1 .. Len(keywords) /\ Len(keywords) \in Nat
  BY DEF CountOK
<1>2. 0 \in T
  BY <1>1
<1>3. ASSUME NEW i \in 0 .. n - 1, i \in T PROVE i + 1 \in T
  <2>1. /\ i + 1 \in 0 .. n /\ i + 1 \in DOMAIN keywords /\ upto[i + 1] \in i + 1 .. 2 * i + 1
        /\ upto[(i + 1) + 1] = upto[i + 1] + Len(keywords[i + 1])
    BY <1>1, <1>3
  <2>2. Len(keywords[i + 1]) \in 1 .. 2
    BY <2>1
  <2>3. upto[(i + 1) + 1] \in (i + 1) + 1 .. 2 * (i + 1) + 1
    <3>1. \A x, y \in Int : x \in i + 1 .. 2 * i + 1 /\ y \in 1 .. 2 => x + y \in (i + 1) + 1 .. 2 * (i + 1) + 1
      BY <1>1
    <3>2. upto[i + 1] \in Int /\ Len(keywords[i + 1]) \in Int
      BY <2>1, <2>2, <1>1
    <3>. QED
      BY <2>1, <2>2, <3>1, <3>2, Zenon
  <2>. QED
    BY <2>1, <2>3
<1>4. n \in Nat
  BY <1>1
<1>5. 0 .. n \subseteq T
  <2>. HIDE DEF T, n
  <2>. QED
    BY <1>2, <1>3, <1>4, Steps
<1>. QED
  BY <1>5

\* As many of them as out has bits make a machine that the links can name.
LEMMA FewAreNarrow ==
  ASSUME AllOK, \A w \in DOMAIN keywords : Len(keywords[w]) \in 1 .. 2, Len(keywords) <= OutBits
  PROVE  Narrow /\ (acs \in After => \A w \in DOMAIN keywords : w <= max_states)
<1>1. CountOK /\ Fit
  BY DEF AllOK, MainOK, SearchOK, Exact, Inv, HoldsOK
<1>2. /\ Len(upto) \in 1 .. Len(keywords) + 1 /\ Len(keywords) \in Nat
      /\ DOMAIN keywords = 1 .. Len(keywords)
  BY <1>1 DEF CountOK
<1>3. max_states \in Len(upto) .. 2 * (Len(upto) - 1) + 1
  <2>1. Len(upto) - 1 \in 0 .. Len(upto) - 1 /\ (Len(upto) - 1) + 1 = Len(upto)
    BY <1>2
  <2>2. upto[(Len(upto) - 1) + 1] \in (Len(upto) - 1) + 1 .. 2 * (Len(upto) - 1) + 1
    BY <1>1, <2>1, FewCounted
  <2>. QED
    BY <2>1, <2>2 DEF max_states
<1>4. j \in 1 .. max_states
  BY <1>1 DEF Fit
<1>5. Narrow
  <2>1. OutBits \in Nat /\ MaxFail \in Nat /\ 2 * OutBits <= MaxFail
    BY WidthAssumption, FewAssumption
  <2>. QED
    BY <1>2, <1>3, <1>4, <2>1 DEF Narrow
<1>6. ASSUME acs \in After PROVE \A w \in DOMAIN keywords : w <= max_states
  <2>1. Len(upto) = Len(keywords) + 1
    BY <1>1, <1>6 DEF Fit
  <2>. QED
    BY <1>2, <1>3, <2>1
<1>. QED
  BY <1>5, <1>6

LEMMA FewFoundExactly == AllOK => FewAreExact
<1>. SUFFICES ASSUME AllOK, Len(keywords) <= OutBits, <<>> \notin Strings,
                     \A t \in Strings \cup DOMAIN raw : ~Foreign(t)
              PROVE  /\ find # "undefined"
                     /\ find = "rows" /\ universe =>
                          \A c \in DOMAIN raw \ unseen :
                            c \in Hits <=> \E w \in DOMAIN keywords : Holds(c, w)
  BY DEF FewAreExact
<1>1. PhaseOK /\ UniverseExact /\ Exact
  BY SeenIsExact DEF AllOK, MainOK, SearchOK
<1>2. ASSUME universe PROVE \A w \in DOMAIN keywords : keywords[w] # <<>> /\ Len(keywords[w]) \in 1 .. 2
  <2>. SUFFICES ASSUME NEW w \in DOMAIN keywords PROVE keywords[w] # <<>> /\ Len(keywords[w]) \in 1 .. 2
    OBVIOUS
  <2>1. keywords[w] \in Strings /\ keywords[w] # <<>> /\ Len(keywords[w]) <= 2
    BY <1>2 DEF Strings, universe
  <2>2. keywords[w] \in Seq(Char)
    BY <1>1 DEF PhaseOK
  <2>3. Len(keywords[w]) \in Nat \ {0}
    BY <2>1, <2>2
  <2>4. \A n \in Nat \ {0} : n <= 2 => n \in 1 .. 2
    OBVIOUS
  <2>. QED
    BY <2>1, <2>3, <2>4, Zenon
<1>3. find # "undefined"
  <2>. SUFFICES ASSUME find = "undefined" PROVE FALSE
    OBVIOUS
  <2>1. universe /\ acs = "outside" /\ text \in DOMAIN raw \cup {<<>>}
    BY <1>1 DEF PhaseOK
  <2>2. Narrow
    BY <1>2, <2>1, FewAreNarrow
  <2>3. Strange
    BY <1>1, <2>1, <2>2 DEF Exact, Inv, Sound
  <2>4. ~Foreign(text)
    BY <2>1 DEF Foreign
  <2>5. \A w \in DOMAIN keywords : ~Foreign(keywords[w])
    BY DEF Strings
  <2>. QED
    BY <2>3, <2>4, <2>5 DEF Strange
<1>4. ASSUME find = "rows", universe, NEW c \in DOMAIN raw \ unseen
      PROVE  c \in Hits <=> \E w \in DOMAIN keywords : Holds(c, w)
  <2>1. acs \in After
    BY <1>1, <1>4 DEF PhaseOK, After
  <2>2. Narrow /\ \A w \in DOMAIN keywords : w <= max_states
    BY <1>2, <1>4, <2>1, FewAreNarrow
  <2>3. Tested = DOMAIN keywords
    <3>1. \A w \in DOMAIN keywords : w <= OutBits
      <4>1. Len(keywords) \in Nat /\ DOMAIN keywords = 1 .. Len(keywords) /\ OutBits \in Nat
        BY <1>1, WidthAssumption DEF PhaseOK
      <4>. QED
        BY <4>1
    <3>. QED
      BY <1>2, <1>4, <2>2, <3>1 DEF Tested
  <2>. QED
    BY <1>1, <1>4, <2>2, <2>3 DEF UniverseExact
<1>. QED
  BY <1>3, <1>4

-----------------------------------------------------------------------------
(* The theorems *)

\* Whatever the arguments, the settings, the lines, the keys and the database: the
\* limit stays within bounds (main.c:181), every row has an encoded text and all its
\* n-grams (index.c:99), and the tables of the matcher hold what their types allow
\* (acs.c:110-117).
THEOREM TypesHold == Spec => []TypeOK
BY AlwaysOK, TypesAre, PTL

\* find_cmd hands over stored commands, as they were indexed, each once and no more
\* than SEARCH_LIMIT of them (find.c:78, find.c:19), in every process that searches.
THEOREM HitsAreStored == Spec => []HitsSound
<1>1. AllOK => HitsSound
  BY HitsAreSound DEF AllOK, MainOK, SearchOK
<1>. QED
  BY <1>1, AlwaysOK, PTL

\* What is in cmdraw decodes, except for a command without a character (find.c:82):
\* only then does find_cmd crash.
THEOREM OnlyEmptyCrash == Spec => []OnlyEmptyCrashes
<1>1. AllOK => OnlyEmptyCrashes
  BY CrashIsEmpty DEF AllOK, MainOK
<1>. QED
  BY <1>1, AlwaysOK, PTL

\* Between two rows of a search of the universe whose machine has no more states than
\* the links can name, a row with a keyword that has a bit was never missed, every hit
\* has a keyword in it, and the rows come newest first (find.c:77-87).
THEOREM UniverseFound == Spec => []UniverseExact
<1>1. AllOK => UniverseExact
  BY SeenIsExact DEF AllOK, MainOK
<1>. QED
  BY <1>1, AlwaysOK, PTL

\* As many short keywords as out has bits, none of them empty, are found exactly in the
\* rows that have one, and never lead outside of the tables (acs.c:110-136), whatever
\* the keywords and the commands are, if all of their characters have a column.
THEOREM FewFound == Spec => []FewAreExact
BY FewFoundExactly, AlwaysOK, PTL

\* A search by n-grams leaves out an entry with every long keyword in it only for as
\* many others as the limit allows, with the same n-grams and none of them older
\* (find.c:13-21, 116), whatever the keywords, the rows and the limit.
THEOREM NothingIsLeftOut == Spec => []NothingLeftOut
<1>1. AllOK => NothingLeftOut
  BY SortedLeavesNothing DEF AllOK, MainOK, HoldsOK
<1>. QED
  BY <1>1, AlwaysOK, PTL

\* A line without quotes is searched for by its words, none lost, joined or split, but
\* for the vertical tabs and form feeds before them (sds.c:959, explore.c:213), whatever
\* keys were typed and corrected before.
THEOREM LinesAreWords == Spec => []LineIsWords
<1>1. AllOK => LineIsWords
  BY LineSplits DEF AllOK, HoldsOK
<1>. QED
  BY <1>1, AlwaysOK, PTL

\* SEARCH_LIMIT is the number in the last row for search-limit, if it is one and
\* within bounds, and the default otherwise (main.c:178-189, config.y), whatever file
\* of settings there is.
THEOREM LimitIsConfigured == Spec => []LimitConfigured
<1>1. AllOK => LimitConfigured
  BY DEF AllOK, ConfiguredOK
<1>. QED
  BY <1>1, AlwaysOK, PTL

\* In every process the trie is the dictionary that config.c promises.
THEOREM SettingsHold == Spec => TrieIsDictionary
<1>1. Init => Promise!DInit
  <2>1. Init => SettingsInit
    BY DEF Init, MemoryInit
  <2>. QED
    BY <2>1, InitIsEmpty
<1>2. AllOK /\ [SettingsNext]_settings => [Promise!DNext]_(Promise!dvars)
  BY StepIsPromised DEF AllOK, ConfiguredOK
<1>. QED
  BY <1>1, <1>2, AlwaysOK, PTL DEF Spec, TrieIsDictionary, Promise!DSpec

\* In find_cmd, for the words of any line and the commands of any database: the matcher
\* leaves its tables only for a machine with more states than the links can name or a
\* character without a column (acs.c:129, acs.c:165); in a smaller machine the links are
\* longest (acs.c:152-173), a match has a keyword, and a keyword that has a bit is never
\* missed (acs.c:182-207).
THEOREM FindMatches == Spec => [](StaysInside /\ LinksAreLongest /\ MatcherExact)
<1>1. AllOK => Exact
  BY DEF AllOK, MainOK, SearchOK
<1>2. Exact => StaysInside /\ LinksAreLongest /\ MatcherExact
  BY ExactLinks, ExactAnswers DEF Exact, Inv, Sound, StaysInside
<1>. QED
  BY <1>1, <1>2, AlwaysOK, PTL

=============================================================================
