-------------------------- MODULE AhoCorasickProofs --------------------------
(***************************************************************************)
(* The matcher, for any keywords, strings and widths, while the failure     *)
(* links can name every state: it stays inside its tables, its failure links *)
(* are the longest ones, and string_matches answers as the keywords that    *)
(* have a bit demand.                                                       *)
(***************************************************************************)
EXTENDS AhoCorasick, Facts

\* Characters, with and without a column.
Symbol == Int

LEMMA Symbols ==
  /\ Column \subseteq Symbol /\ Texts \subseteq Seq(Symbol)
  /\ \A k \in Lists : k \in Seq(Seq(Symbol))
BY ColumnAssumption, TextAssumption DEF Symbol

Depth(n) == Len(spell[n])

\* The failure link of a state leads to one nearer to the root.
Linked(n) == fail[n] \in Trie /\ Depth(fail[n]) < Depth(n)

\* What is known of max_states at every keyword.
CountOK ==
  /\ keywords \in Seq(Seq(Symbol))
  /\ upto \in Seq(Nat) /\ Len(upto) \in 1 .. Len(keywords) + 1 /\ upto[1] = 1
  /\ \A w \in 1 .. Len(upto) - 1 : upto[w + 1] = upto[w] + Len(keywords[w])
  /\ \A a, b \in 1 .. Len(upto) : a <= b => upto[a] <= upto[b]
  /\ j \in Nat

StartOK ==
  acs \in {"none", "count"} => j = 1 /\ word = 1 /\ s = 0 /\ state = 0 /\ queue = <<>>

\* Every state has a string of its own.
SpellOK ==
  /\ Len(upto) = Len(keywords) + 1 /\ j \in 1 .. max_states
  /\ fail \in [State -> Int]
  /\ spell \in [Trie -> Seq(Symbol)] /\ spell[0] = <<>>
  /\ \A m, n \in Trie : spell[m] = spell[n] => m = n

\* An edge adds a character, or goes back to the root from the root.
EdgeOK ==
  /\ DOMAIN g \subseteq Trie \X Column
  /\ \A n \in Trie, c \in Column :
       <<n, c>> \in DOMAIN g =>
         /\ g[<<n, c>>] \in Trie
         /\ g[<<n, c>>] = 0 => n = 0
         /\ g[<<n, c>>] # 0 => spell[g[<<n, c>>]] = Append(spell[n], c)

\* Whatever begins the string of a state leads to a state.
ClosedOK ==
  \A n \in Trie : \A i \in 1 .. Len(spell[n]) :
    \E p \in Trie :
      /\ spell[p] = SubSeq(spell[n], 1, i - 1)
      /\ <<p, spell[n][i]>> \in DOMAIN g /\ g[<<p, spell[n][i]>>] # 0

InsertOK ==
  acs = "insert" =>
    /\ word \in 1 .. Len(keywords) + 1 /\ state \in Trie /\ queue = <<>>
    /\ s \in Nat /\ j <= upto[word] + s
    /\ word <= Len(keywords) =>
         s <= Len(keywords[word]) /\ spell[state] = SubSeq(keywords[word], 1, s)
    /\ word > Len(keywords) => s = 0 /\ state = 0
    /\ \A n \in Trie, c \in Column : <<n, c>> \in DOMAIN g => g[<<n, c>>] # 0

Looping == acs \in {"root", "columns", "follow"}

\* The state p is queued, or its column c is still to come.
Pending(p, c) ==
  \/ \E a \in 1 .. Len(queue) : queue[a] = p
  \/ Looping /\ p = state /\ c \in todo

\* A state without a link lies behind one that is pending.
Waiting ==
  \A m \in Trie \ {0} :
    \/ Linked(m)
    \/ \E i \in 1 .. Len(spell[m]), p \in Trie :
         spell[p] = SubSeq(spell[m], 1, i - 1) /\ Pending(p, spell[m][i])

\* The queue is in the order of depth, and holds two depths at most.
Ordered ==
  /\ queue \in Seq(Trie \ {0})
  /\ \A a, b \in 1 .. Len(queue) :
       Depth(queue[b]) <= Depth(queue[a]) + 1 /\ (a <= b => Depth(queue[a]) <= Depth(queue[b]))
  /\ Looping =>
       /\ state \in Trie /\ todo \subseteq Column
       /\ \A a \in 1 .. Len(queue) :
            Depth(state) <= Depth(queue[a]) /\ Depth(queue[a]) <= Depth(state) + 1

\* The root has an edge for every column that is done, and no loop for the others.
RootOK ==
  \A c \in Column :
    IF acs = "root" /\ c \in todo
    THEN <<0, c>> \in DOMAIN g => g[<<0, c>>] # 0
    ELSE <<0, c>> \in DOMAIN g

QueueOK ==
  acs \in {"root", "queue", "columns", "follow"} =>
    /\ Waiting /\ Ordered /\ RootOK
    /\ acs = "root" => state = 0
    /\ acs \in {"columns", "follow"} =>
         state # 0 /\ \A c \in todo : <<state, c>> \in DOMAIN g
    /\ acs = "follow" => todo # {} /\ f \in Trie /\ Depth(f) < Depth(state)

BuiltOK ==
  acs \in {"built", "match", "hit", "miss"} =>
    /\ \A m \in Trie \ {0} : Linked(m)
    /\ \A c \in Column : <<0, c>> \in DOMAIN g
    /\ acs = "match" => text \in Seq(Symbol) /\ s \in 0 .. Len(text) /\ state \in Trie

After == {"insert", "root", "queue", "columns", "follow", "built", "match", "hit", "miss"}

Sound ==
  /\ StartOK
  /\ acs \in After => SpellOK /\ EdgeOK /\ ClosedOK
  /\ InsertOK /\ QueueOK /\ BuiltOK
  /\ acs = "outside" => Strange

Inv == CountOK /\ (Narrow => Sound)

-----------------------------------------------------------------------------
(* Preliminaries *)

\* The next column is one of those to come.
LEMMA ColumnToCome ==
  ASSUME todo \subseteq Column, todo # {}
  PROVE  column \in todo
BY Smallest, ColumnAssumption DEF column

\* A failure link that int8_t can hold is not changed by the conversion.
LEMMA NoWrap ==
  ASSUME Narrow, j \in Nat, NEW n \in Trie
  PROVE  Int8(n) = n
BY WidthAssumption DEF Narrow, Trie, Int8

\* The depth of a state.
LEMMA DepthIs ==
  ASSUME SpellOK, EdgeOK
  PROVE  /\ \A n \in Trie : Depth(n) \in Nat
         /\ Depth(0) = 0
         /\ \A n \in Trie, c \in Column :
              <<n, c>> \in DOMAIN g /\ g[<<n, c>>] # 0 => Depth(g[<<n, c>>]) = Depth(n) + 1
<1>1. \A n \in Trie : Depth(n) \in Nat
  BY DEF SpellOK, Depth
<1>2. Depth(0) = 0
  BY DEF SpellOK, Depth
<1>3. ASSUME NEW n \in Trie, NEW c \in Column, <<n, c>> \in DOMAIN g, g[<<n, c>>] # 0
      PROVE  Depth(g[<<n, c>>]) = Depth(n) + 1
  <2>1. spell[n] \in Seq(Symbol) /\ spell[g[<<n, c>>]] = Append(spell[n], c)
    BY <1>3 DEF SpellOK, EdgeOK
  <2>. QED
    BY <2>1, BeginsLast DEF Depth
<1>. QED
  BY <1>1, <1>2, <1>3

\* The states that were made are states.
LEMMA TrieInState ==
  ASSUME CountOK, SpellOK
  PROVE  0 \in Trie /\ Trie \subseteq State /\ State \subseteq Int
BY DEF CountOK, SpellOK, Trie, State, max_states

\* While a state is looked at, every state of its depth has its link: the queue is
\* in the order of depth.
LEMMA NearLinked ==
  ASSUME CountOK, SpellOK, EdgeOK, Waiting, Ordered, Looping,
         NEW m \in Trie \ {0}, Depth(m) <= Depth(state)
  PROVE  Linked(m)
<1>. SUFFICES ASSUME ~Linked(m) PROVE FALSE
  OBVIOUS
<1>1. PICK i \in 1 .. Len(spell[m]), p \in Trie :
        spell[p] = SubSeq(spell[m], 1, i - 1) /\ Pending(p, spell[m][i])
  BY DEF Waiting
<1>2. Depth(p) < Depth(m)
  <2>1. spell[m] \in Seq(Symbol) /\ i - 1 \in 0 .. Len(spell[m])
    BY <1>1 DEF SpellOK
  <2>2. Len(SubSeq(spell[m], 1, i - 1)) = i - 1
    BY <2>1
  <2>. QED
    BY <1>1, <2>1, <2>2 DEF Depth
<1>3. Depth(state) <= Depth(p)
  BY <1>1, DepthIs DEF Pending, Ordered
<1>. QED
  BY <1>2, <1>3, DepthIs DEF Ordered

-----------------------------------------------------------------------------
(* Counting the keywords *)

\* MachineInit, and free_goto, leave a machine that build_goto can begin with.
LEMMA StartInv == keywords \in Seq(Seq(Symbol)) /\ MachineInit => Inv
<1>. SUFFICES ASSUME keywords \in Seq(Seq(Symbol)), MachineInit PROVE Inv
  OBVIOUS
<1>1. CountOK
  BY DEF MachineInit, CountOK
<1>2. Sound
  BY DEF MachineInit, Sound, StartOK, After, InsertOK, QueueOK, BuiltOK
<1>. QED
  BY <1>1, <1>2 DEF Inv

\* free_goto leaves nothing behind.
LEMMA FreeInv ==
  ASSUME CountOK, FreeGoto, keywords' = keywords
  PROVE  CountOK' /\ Sound'
<1>1. CountOK'
  BY DEF FreeGoto, CountOK
<1>2. Sound'
  BY DEF FreeGoto, Sound, StartOK, After, InsertOK, QueueOK, BuiltOK
<1>. QED
  BY <1>1, <1>2

\* build_goto begins.
LEMMA BuildGotoInv ==
  ASSUME Sound, BuildGoto, keywords' = keywords
  PROVE  Sound'
<1>1. acs = "none" /\ acs' = "count" /\ UNCHANGED <<j, word, s, state, queue>>
  BY DEF BuildGoto, Turn, counters, tables, cursors
<1>. QED
  BY <1>1 DEF Sound, StartOK, After, InsertOK, QueueOK, BuiltOK

\* The sum of the lengths grows with every keyword.
LEMMA CountWordInv ==
  ASSUME CountOK, CountWord, keywords' = keywords
  PROVE  CountOK' /\ (Sound => Sound')
<1>. DEFINE k == Len(upto)
            more == max_states + Len(keywords[k])
<1>1. /\ acs = "count" /\ k <= Len(keywords) /\ upto' = Append(upto, more)
      /\ UNCHANGED <<acs, j, word, s, state, queue, keywords>>
  BY DEF CountWord, tables, cursors
<1>2. /\ k \in Nat \ {0} /\ upto \in Seq(Nat) /\ k \in 1 .. Len(keywords)
      /\ upto[k] \in Nat /\ keywords \in Seq(Seq(Symbol)) /\ max_states = upto[k]
  BY <1>1 DEF CountOK, max_states
<1>3. Len(keywords[k]) \in Nat /\ more \in Nat /\ upto[k] <= more
  <2>1. keywords[k] \in Seq(Symbol)
    BY <1>2
  <2>. QED
    BY <1>2, <2>1
<1>4. /\ Len(upto') = k + 1 /\ upto' \in Seq(Nat) /\ upto'[k + 1] = more
      /\ \A w \in 1 .. k : upto'[w] = upto[w]
  <2>. HIDE DEF k, more
  <2>1. Len(upto) = k
    BY DEF k
  <2>. QED
    BY <1>1, <1>2, <1>3, <2>1
<1>5. /\ more = upto[k] + Len(keywords[k]) /\ upto[1] = 1
      /\ \A w \in 1 .. k - 1 : upto[w + 1] = upto[w] + Len(keywords[w])
      /\ \A a, b \in 1 .. k : a <= b => upto[a] <= upto[b]
      /\ \A a \in 1 .. k : upto[a] \in Nat
  BY <1>2 DEF CountOK
<1>6. k + 1 \in 1 .. Len(keywords) + 1
  BY <1>2
<1>7. CountOK'
  <2>. HIDE DEF k, more
  <2>1. ASSUME NEW w \in 1 .. k PROVE upto'[w + 1] = upto'[w] + Len(keywords[w])
    <3>1. CASE w = k
      BY <3>1, <1>2, <1>4, <1>5
    <3>2. CASE w # k
      <4>1. w \in 1 .. k - 1 /\ w + 1 \in 1 .. k
        BY <3>2, <1>2
      <4>. QED
        BY <4>1, <1>4, <1>5
    <3>. QED
      BY <3>1, <3>2
  <2>2. ASSUME NEW a \in 1 .. k + 1, NEW b \in 1 .. k + 1, a <= b PROVE upto'[a] <= upto'[b]
    <3>1. CASE b = k + 1
      <4>1. CASE a = k + 1
        BY <4>1, <3>1, <1>3, <1>4
      <4>2. CASE a \in 1 .. k
        <5>1. upto[a] \in Nat /\ upto[k] \in Nat /\ upto[a] <= upto[k]
          BY <4>2, <1>2, <1>5, SMTT(30)
        <5>. QED
          BY <5>1, <4>2, <3>1, <1>3, <1>4
      <4>. QED
        BY <4>1, <4>2, <1>2
    <3>2. CASE b # k + 1
      <4>1. a \in 1 .. k /\ b \in 1 .. k
        BY <2>2, <3>2, <1>2
      <4>. QED
        BY <4>1, <2>2, <1>4, <1>5
    <3>. QED
      BY <3>1, <3>2
  <2>3. upto'[1] = 1
    BY <1>2, <1>4, <1>5
  <2>4. (k + 1) - 1 = k
    BY <1>2
  <2>5. j' \in Nat /\ keywords' \in Seq(Seq(Symbol)) /\ Len(keywords') = Len(keywords)
    BY <1>1 DEF CountOK
  <2>. QED
    BY <1>1, <1>4, <1>6, <2>1, <2>2, <2>3, <2>4, <2>5 DEF CountOK
<1>8. Sound => Sound'
  BY <1>1 DEF Sound, StartOK, After, InsertOK, QueueOK, BuiltOK
<1>. QED
  BY <1>7, <1>8

\* The tables are as large as the keywords are long.
LEMMA CountDoneInv ==
  ASSUME CountOK, Sound, CountDone, keywords' = keywords
  PROVE  Sound'
<1>1. /\ acs = "count" /\ Len(upto) > Len(keywords)
      /\ UNCHANGED <<upto, j, word, s, state, todo, f, queue, text>>
  BY DEF CountDone, counters, cursors
<1>2. j = 1 /\ word = 1 /\ s = 0 /\ state = 0 /\ queue = <<>>
  BY <1>1 DEF Sound, StartOK
<1>3. CASE acs' = "refused"
  BY <1>3 DEF Sound, StartOK, After, InsertOK, QueueOK, BuiltOK
<1>4. CASE acs' # "refused"
  <2>1. /\ acs' = "insert" /\ g' = Empty /\ fail' = [n \in State |-> -1]
        /\ spell' = With(Empty, 0, <<>>)
    BY <1>4 DEF CountDone
  <2>2. Trie' = {0} /\ spell' \in [{0} -> Seq(Symbol)] /\ spell'[0] = <<>> /\ DOMAIN g' = {}
    BY <1>1, <1>2, <2>1 DEF Trie, With, Empty
  <2>3. /\ Len(upto) = Len(keywords) + 1 /\ Len(upto) \in Nat /\ Len(keywords) \in Nat
        /\ upto \in Seq(Nat) /\ upto[Len(upto)] \in Nat /\ 1 <= upto[Len(upto)]
    BY <1>1 DEF CountOK
  <2>4. SpellOK'
    <3>1. j' \in 1 .. max_states'
      BY <1>1, <1>2, <2>3 DEF max_states
    <3>2. fail' \in [State' -> Int]
      BY <1>1, <2>1 DEF State, max_states
    <3>. QED
      BY <1>1, <2>2, <2>3, <3>1, <3>2 DEF SpellOK
  <2>5. EdgeOK' /\ ClosedOK'
    BY <2>2 DEF EdgeOK, ClosedOK
  <2>6. InsertOK'
    <3>1. word <= Len(keywords) =>
            s <= Len(keywords[word]) /\ <<>> = SubSeq(keywords[word], 1, s)
      <4>. SUFFICES ASSUME word <= Len(keywords)
                    PROVE  s <= Len(keywords[word]) /\ <<>> = SubSeq(keywords[word], 1, s)
        OBVIOUS
      <4>1. keywords[word] \in Seq(Symbol)
        BY <1>2, <2>3 DEF CountOK
      <4>. QED
        BY <1>2, <4>1, Whole
    <3>2. j <= upto[word] + s
      BY <1>2 DEF CountOK
    <3>. QED
      BY <1>1, <1>2, <2>2, <2>3, <3>1, <3>2 DEF InsertOK
  <2>. QED
    BY <2>1, <2>4, <2>5, <2>6 DEF Sound, StartOK, After, QueueOK, BuiltOK
<1>. QED
  BY <1>3, <1>4

-----------------------------------------------------------------------------
(* Inserting the keywords *)

\* Where an insertion is.
LEMMA InsertAt ==
  ASSUME CountOK, Sound, Inserting
  PROVE  /\ SpellOK /\ EdgeOK /\ ClosedOK /\ InsertOK
         /\ word \in 1 .. Len(keywords) /\ keywords[word] \in Seq(Symbol)
         /\ s \in 0 .. Len(keywords[word]) /\ state \in Trie /\ queue = <<>>
         /\ spell[state] = SubSeq(keywords[word], 1, s)
         /\ upto[word] \in Nat /\ j \in Nat /\ j <= upto[word] + s
         /\ upto[word + 1] = upto[word] + Len(keywords[word])
         /\ upto[word + 1] <= max_states /\ max_states \in Nat
         /\ \A n \in Trie, c \in Column : <<n, c>> \in DOMAIN g => g[<<n, c>>] # 0
<1>1. SpellOK /\ EdgeOK /\ ClosedOK /\ InsertOK
  BY DEF Sound, Inserting, After
<1>2. /\ word \in 1 .. Len(keywords) /\ s \in Nat /\ s <= Len(keywords[word])
      /\ state \in Trie /\ queue = <<>> /\ spell[state] = SubSeq(keywords[word], 1, s)
      /\ j <= upto[word] + s
      /\ \A n \in Trie, c \in Column : <<n, c>> \in DOMAIN g => g[<<n, c>>] # 0
  <2>1. Len(keywords) \in Nat
    BY DEF CountOK
  <2>2. acs = "insert" /\ word <= Len(keywords)
    BY DEF Inserting
  <2>. QED
    BY <1>1, <2>1, <2>2 DEF InsertOK
<1>3. keywords[word] \in Seq(Symbol)
  BY <1>2 DEF CountOK
<1>4. /\ Len(upto) = Len(keywords) + 1 /\ Len(keywords) \in Nat
      /\ word \in 1 .. Len(upto) - 1 /\ word + 1 \in 1 .. Len(upto) /\ Len(upto) \in 1 .. Len(upto)
  <2>1. Len(upto) = Len(keywords) + 1 /\ Len(keywords) \in Nat
    BY <1>1 DEF SpellOK, CountOK
  <2>. QED
    BY <1>2, <2>1
<1>5. /\ upto[word + 1] = upto[word] + Len(keywords[word])
      /\ upto[word + 1] <= upto[Len(upto)] /\ upto[word] \in Nat /\ upto[Len(upto)] \in Nat
  <2>1. upto[word + 1] = upto[word] + Len(keywords[word])
    BY <1>4 DEF CountOK
  <2>2. upto[word + 1] <= upto[Len(upto)]
    <3>1. word + 1 <= Len(upto)
      BY <1>4
    <3>. QED
      BY <1>4, <3>1 DEF CountOK
  <2>3. \A a \in 1 .. Len(upto) : upto[a] \in Nat
    BY DEF CountOK
  <2>4. word \in 1 .. Len(upto)
    BY <1>4
  <2>. QED
    BY <1>4, <2>1, <2>2, <2>3, <2>4
<1>6. j \in Nat
  BY DEF CountOK
<1>. QED
  BY <1>1, <1>2, <1>3, <1>5, <1>6 DEF max_states

\* A string that goes on where there is no edge belongs to no state.
LEMMA NoSuchState ==
  ASSUME CountOK, Sound, Inserting, s < Len(keywords[word]),
         <<state, Next_s>> \notin DOMAIN g, NEW n \in Trie
  PROVE  spell[n] # SubSeq(keywords[word], 1, s + 1)
<1>. SUFFICES ASSUME spell[n] = SubSeq(keywords[word], 1, s + 1) PROVE FALSE
  OBVIOUS
<1>1. /\ keywords[word] \in Seq(Symbol) /\ s \in Nat /\ state \in Trie
      /\ spell[state] = SubSeq(keywords[word], 1, s)
  BY InsertAt
<1>2. /\ s + 1 \in 1 .. Len(spell[n])
      /\ SubSeq(spell[n], 1, (s + 1) - 1) = SubSeq(keywords[word], 1, s)
      /\ spell[n][s + 1] = keywords[word][s + 1]
  BY <1>1, BeginsBeginning
<1>3. PICK p \in Trie :
        spell[p] = SubSeq(keywords[word], 1, s) /\ <<p, keywords[word][s + 1]>> \in DOMAIN g
  BY <1>2, InsertAt DEF ClosedOK
<1>4. p = state
  BY <1>1, <1>3, InsertAt DEF SpellOK
<1>. QED
  BY <1>3, <1>4 DEF Next_s

\* A new state has a string that no other state has.
LEMMA InsertNewInv ==
  ASSUME CountOK, Sound, InsertNew, keywords' = keywords
  PROVE  CountOK' /\ Sound'
<1>. DEFINE kw == keywords[word]
            c == kw[s + 1]
            p == spell[state]
            q == Append(p, c)
<1>1. /\ Inserting /\ acs' = "insert" /\ s < Len(kw) /\ <<state, c>> \notin DOMAIN g
      /\ c \in Column
      /\ g' = [e \in DOMAIN g \cup {<<state, c>>} |-> IF e = <<state, c>> THEN j ELSE g[e]]
      /\ spell' = [n \in DOMAIN spell \cup {j} |-> IF n = j THEN q ELSE spell[n]]
      /\ state' = j /\ j' = j + 1 /\ s' = s + 1
      /\ UNCHANGED <<upto, word, fail, queue, keywords>>
  BY DEF InsertNew, Inserting, Next_s, With
<1>2. /\ SpellOK /\ EdgeOK /\ ClosedOK
      /\ word \in 1 .. Len(keywords) /\ kw \in Seq(Symbol) /\ Len(kw) \in Nat
      /\ s \in 0 .. Len(kw) - 1 /\ state \in Trie /\ queue = <<>>
      /\ p = SubSeq(kw, 1, s) /\ j \in Nat
      /\ \A n \in Trie, b \in Column : <<n, b>> \in DOMAIN g => g[<<n, b>>] # 0
  <2>1. /\ word \in 1 .. Len(keywords) /\ kw \in Seq(Symbol) /\ s \in 0 .. Len(kw)
        /\ p = SubSeq(kw, 1, s)
    BY <1>1, InsertAt
  <2>2. Len(kw) \in Nat
    BY <2>1
  <2>3. s \in 0 .. Len(kw) - 1
    BY <1>1, <2>1, <2>2
  <2>. QED
    BY <1>1, <2>1, <2>2, <2>3, InsertAt
<1>. HIDE DEF kw, c, p, q
<1>3. /\ j + 1 <= upto[word] + (s + 1) /\ j + 1 <= max_states /\ max_states \in Nat
  <2>1. /\ j <= upto[word] + s /\ upto[word] \in Nat /\ max_states \in Nat
        /\ upto[word] + Len(kw) <= max_states
    BY <1>1, InsertAt DEF kw
  <2>. QED
    BY <1>2, <2>1
<1>4. spell \in [Trie -> Seq(Symbol)] /\ j \in 1 .. max_states
  BY <1>2 DEF SpellOK
<1>5. c \in Symbol /\ p \in Seq(Symbol) /\ q = SubSeq(kw, 1, s + 1)
  BY <1>1, <1>2, Symbols, OneMore DEF c, q
<1>6. q \in Seq(Symbol) /\ Len(p) \in Nat /\ Len(q) = Len(p) + 1
  <2>1. Len(p) \in Nat
    BY <1>5
  <2>. QED
    BY <1>5, <2>1, BeginsLast DEF q
<1>7. Trie' = Trie \cup {j} /\ j \notin Trie /\ 0 \in Trie
  BY <1>1, <1>4 DEF Trie
<1>8. spell' \in [Trie' -> Seq(Symbol)] /\ spell'[j] = q /\ \A n \in Trie : spell'[n] = spell[n]
  BY <1>1, <1>4, <1>6, <1>7
<1>9. \A n \in Trie : spell[n] # q
  BY <1>1, <1>5, NoSuchState DEF Next_s, c, kw
<1>10. SpellOK'
  <2>1. \A m, n \in Trie' : spell'[m] = spell'[n] => m = n
    BY <1>2, <1>7, <1>8, <1>9 DEF SpellOK
  <2>2. spell'[0] = <<>>
    BY <1>2, <1>7, <1>8 DEF SpellOK
  <2>3. max_states' = max_states /\ State' = State
    BY <1>1 DEF max_states, State
  <2>4. j' \in 1 .. max_states' /\ fail' \in [State' -> Int] /\ Len(upto') = Len(keywords') + 1
    BY <1>1, <1>2, <1>3, <2>3 DEF SpellOK
  <2>. QED
    BY <1>8, <2>1, <2>2, <2>4 DEF SpellOK
<1>11. /\ DOMAIN g' = DOMAIN g \cup {<<state, c>>} /\ g'[<<state, c>>] = j
       /\ \A e \in DOMAIN g : g'[e] = g[e]
  BY <1>1
<1>12. EdgeOK' /\ \A n \in Trie', b \in Column : <<n, b>> \in DOMAIN g' => g'[<<n, b>>] # 0
  <2>1. DOMAIN g' \subseteq Trie' \X Column
    BY <1>1, <1>2, <1>7, <1>11 DEF EdgeOK
  <2>2. ASSUME NEW n \in Trie', NEW b \in Column, <<n, b>> \in DOMAIN g'
        PROVE  /\ g'[<<n, b>>] \in Trie' /\ g'[<<n, b>>] # 0
               /\ spell'[g'[<<n, b>>]] = Append(spell'[n], b)
    <3>1. CASE <<n, b>> = <<state, c>>
      BY <3>1, <1>2, <1>4, <1>7, <1>8, <1>11 DEF p, q
    <3>2. CASE <<n, b>> # <<state, c>>
      <4>1. <<n, b>> \in DOMAIN g /\ g'[<<n, b>>] = g[<<n, b>>] /\ n \in Trie
        BY <3>2, <2>2, <1>2, <1>11 DEF EdgeOK
      <4>2. g[<<n, b>>] \in Trie /\ g[<<n, b>>] # 0 /\ spell[g[<<n, b>>]] = Append(spell[n], b)
        BY <4>1, <1>2 DEF EdgeOK
      <4>3. spell'[n] = spell[n] /\ spell'[g[<<n, b>>]] = spell[g[<<n, b>>]]
        BY <4>1, <4>2, <1>8
      <4>. QED
        BY <4>1, <4>2, <4>3, <1>7
    <3>. QED
      BY <3>1, <3>2
  <2>. QED
    BY <2>1, <2>2 DEF EdgeOK
<1>13. ClosedOK'
  <2>1. ASSUME NEW n \in Trie, NEW i \in 1 .. Len(spell[n])
        PROVE  \E m \in Trie' : /\ spell'[m] = SubSeq(spell[n], 1, i - 1)
                                /\ <<m, spell[n][i]>> \in DOMAIN g' /\ g'[<<m, spell[n][i]>>] # 0
    <3>1. PICK m \in Trie : /\ spell[m] = SubSeq(spell[n], 1, i - 1)
                            /\ <<m, spell[n][i]>> \in DOMAIN g /\ g[<<m, spell[n][i]>>] # 0
      BY <1>2 DEF ClosedOK
    <3>. QED
      BY <3>1, <1>7, <1>8, <1>11
  <2>2. ASSUME NEW i \in 1 .. Len(q)
        PROVE  \E m \in Trie' : /\ spell'[m] = SubSeq(q, 1, i - 1)
                                /\ <<m, q[i]>> \in DOMAIN g' /\ g'[<<m, q[i]>>] # 0
    <3>1. CASE i <= Len(p)
      <4>1. i \in 1 .. Len(p)
        BY <3>1, <1>6
      <4>2. SubSeq(q, 1, i - 1) = SubSeq(p, 1, i - 1) /\ q[i] = p[i]
        BY <4>1, <1>5, Begins DEF q
      <4>. QED
        BY <4>1, <4>2, <2>1, <1>2 DEF p
    <3>2. CASE i = Len(p) + 1
      <4>1. SubSeq(q, 1, i - 1) = p /\ q[i] = c
        BY <3>2, <1>5, <1>6, BeginsLast DEF q
      <4>2. state \in Trie' /\ spell'[state] = p /\ j # 0
        BY <1>2, <1>4, <1>7, <1>8 DEF p
      <4>. QED
        BY <4>1, <4>2, <1>11
    <3>3. i <= Len(p) \/ i = Len(p) + 1
      BY <1>6
    <3>. QED
      BY <3>1, <3>2, <3>3
  <2>3. ASSUME NEW n \in Trie', NEW i \in 1 .. Len(spell'[n])
        PROVE  \E m \in Trie' : /\ spell'[m] = SubSeq(spell'[n], 1, i - 1)
                                /\ <<m, spell'[n][i]>> \in DOMAIN g' /\ g'[<<m, spell'[n][i]>>] # 0
    <3>1. CASE n = j
      BY <3>1, <2>2, <1>8
    <3>2. CASE n \in Trie
      BY <3>2, <2>1, <1>8, ZenonT(40)
    <3>. QED
      BY <3>1, <3>2, <1>7
  <2>. QED
    BY <2>3 DEF ClosedOK
<1>14. InsertOK'
  <2>1. s' <= Len(keywords'[word']) /\ spell'[state'] = SubSeq(keywords'[word'], 1, s')
    BY <1>1, <1>2, <1>5, <1>8 DEF kw
  <2>2. word' \in 1 .. Len(keywords') + 1 /\ ~(word' > Len(keywords')) /\ s' \in Nat
    BY <1>1, <1>2
  <2>. QED
    BY <1>1, <1>2, <1>3, <1>7, <1>12, <2>1, <2>2 DEF InsertOK
<1>15. CountOK'
  BY <1>1, <1>2 DEF CountOK
<1>. QED
  BY <1>1, <1>10, <1>12, <1>13, <1>14, <1>15 DEF Sound, StartOK, After, QueueOK, BuiltOK

\* Facts about the tables that are left as they are.
LEMMA TablesKept ==
  ASSUME SpellOK, EdgeOK, ClosedOK, UNCHANGED <<keywords, upto, j, g, spell>>,
         fail' \in [State -> Int]
  PROVE  SpellOK' /\ EdgeOK' /\ ClosedOK' /\ Trie' = Trie
<1>1. Trie' = Trie /\ State' = State /\ max_states' = max_states
  BY DEF Trie, State, max_states
<1>2. SpellOK'
  BY <1>1 DEF SpellOK
<1>3. EdgeOK'
  BY <1>1 DEF EdgeOK
<1>4. ClosedOK'
  BY <1>1 DEF ClosedOK
<1>. QED
  BY <1>1, <1>2, <1>3, <1>4

\* The insertion follows an edge.
LEMMA InsertOldInv ==
  ASSUME CountOK, Sound, InsertOld, keywords' = keywords
  PROVE  Sound'
<1>. DEFINE kw == keywords[word]
            c == kw[s + 1]
<1>1. /\ Inserting /\ acs' = "insert" /\ s < Len(kw) /\ <<state, c>> \in DOMAIN g
      /\ c \in Column
      /\ state' = g[<<state, c>>] /\ s' = s + 1
      /\ UNCHANGED <<keywords, upto, j, word, g, fail, spell, queue>>
  BY DEF InsertOld, Inserting, Next_s, counters, tables
<1>2. /\ SpellOK /\ EdgeOK /\ ClosedOK /\ state \in Trie /\ queue = <<>>
      /\ word \in 1 .. Len(keywords) /\ kw \in Seq(Symbol) /\ s \in 0 .. Len(kw)
      /\ spell[state] = SubSeq(kw, 1, s)
      /\ \A n \in Trie, b \in Column : <<n, b>> \in DOMAIN g => g[<<n, b>>] # 0
  BY <1>1, InsertAt
<1>. HIDE DEF kw
<1>3. Len(kw) \in Nat /\ s \in 0 .. Len(kw) - 1
  <2>1. Len(kw) \in Nat
    BY <1>2
  <2>. QED
    BY <1>1, <1>2, <2>1
<1>4. c \in Column /\ SubSeq(kw, 1, s + 1) = Append(SubSeq(kw, 1, s), c)
  BY <1>1, <1>2, <1>3, OneMore
<1>5. state' \in Trie /\ spell[state'] = SubSeq(kw, 1, s + 1)
  BY <1>1, <1>2, <1>4 DEF EdgeOK
<1>6. SpellOK' /\ EdgeOK' /\ ClosedOK' /\ Trie' = Trie
  BY <1>1, <1>2, TablesKept DEF SpellOK
<1>7. j <= upto[word] + (s + 1)
  <2>1. j \in Nat /\ upto[word] \in Nat /\ j <= upto[word] + s
    BY <1>1, InsertAt
  <2>. QED
    BY <1>2, <2>1
<1>8. InsertOK'
  <2>1. s' <= Len(keywords'[word']) /\ spell'[state'] = SubSeq(keywords'[word'], 1, s')
    BY <1>1, <1>3, <1>5 DEF kw
  <2>2. word' \in 1 .. Len(keywords') + 1 /\ ~(word' > Len(keywords')) /\ s' \in Nat
    BY <1>1, <1>2
  <2>. QED
    BY <1>1, <1>2, <1>5, <1>6, <1>7, <2>1, <2>2 DEF InsertOK
<1>. QED
  BY <1>1, <1>6, <1>8 DEF Sound, StartOK, After, QueueOK, BuiltOK

\* The next keyword begins at the root.
LEMMA InsertWordInv ==
  ASSUME CountOK, Sound, InsertWord, keywords' = keywords
  PROVE  Sound'
<1>1. /\ Inserting /\ acs' = "insert" /\ s = Len(keywords[word])
      /\ word' = word + 1 /\ state' = 0 /\ s' = 0
      /\ UNCHANGED <<keywords, upto, j, g, fail, spell, queue>>
  BY DEF InsertWord, Inserting
<1>2. /\ SpellOK /\ EdgeOK /\ ClosedOK /\ queue = <<>> /\ word \in 1 .. Len(keywords)
      /\ j <= upto[word + 1] /\ j \in Nat /\ upto[word + 1] \in Nat
      /\ \A n \in Trie, b \in Column : <<n, b>> \in DOMAIN g => g[<<n, b>>] # 0
  <2>1. upto[word] + Len(keywords[word]) \in Nat
    BY <1>1, InsertAt
  <2>. QED
    BY <1>1, <2>1, InsertAt
<1>3. SpellOK' /\ EdgeOK' /\ ClosedOK' /\ Trie' = Trie
  BY <1>1, <1>2, TablesKept DEF SpellOK
<1>4. InsertOK'
  <2>1. 0 \in Trie' /\ spell'[0] = <<>>
    BY <1>1, <1>2, <1>3 DEF SpellOK, Trie
  <2>2. Len(keywords) \in Nat /\ word + 1 \in 1 .. Len(keywords) + 1
    BY <1>2
  <2>3. word + 1 <= Len(keywords) => 0 <= Len(keywords[word + 1]) /\ <<>> = SubSeq(keywords[word + 1], 1, 0)
    <3>. SUFFICES ASSUME word + 1 <= Len(keywords)
                  PROVE  0 <= Len(keywords[word + 1]) /\ <<>> = SubSeq(keywords[word + 1], 1, 0)
      OBVIOUS
    <3>1. keywords[word + 1] \in Seq(Symbol)
      BY <2>2 DEF CountOK
    <3>. QED
      BY <3>1, Whole
  <2>4. j <= upto[word + 1] + 0
    BY <1>2
  <2>. QED
    BY <1>1, <1>2, <1>3, <2>1, <2>2, <2>3, <2>4 DEF InsertOK
<1>. QED
  BY <1>1, <1>3, <1>4 DEF Sound, StartOK, After, QueueOK, BuiltOK

\* All keywords are in; every state lies behind the root.
LEMMA InsertDoneInv ==
  ASSUME CountOK, Sound, InsertDone, keywords' = keywords
  PROVE  Sound'
<1>1. /\ acs = "insert" /\ word > Len(keywords) /\ acs' = "root" /\ todo' = Column
      /\ UNCHANGED <<keywords, upto, j, g, fail, spell, state, queue>>
  BY DEF InsertDone, counters, tables
<1>2. /\ SpellOK /\ EdgeOK /\ ClosedOK /\ queue = <<>> /\ state = 0
      /\ \A n \in Trie, b \in Column : <<n, b>> \in DOMAIN g => g[<<n, b>>] # 0
  BY <1>1 DEF Sound, InsertOK, After
<1>3. SpellOK' /\ EdgeOK' /\ ClosedOK' /\ Trie' = Trie
  BY <1>1, <1>2, TablesKept DEF SpellOK
<1>4. 0 \in Trie /\ spell[0] = <<>>
  BY <1>2 DEF SpellOK, Trie
<1>5. Waiting'
  <2>1. ASSUME NEW m \in Trie' \ {0}
        PROVE  \E i \in 1 .. Len(spell'[m]), p \in Trie' :
                 spell'[p] = SubSeq(spell'[m], 1, i - 1) /\ Pending(p, spell[m][i])'
    <3>1. spell[m] \in Seq(Symbol) /\ spell[m] # <<>>
      BY <1>2, <1>3, <1>4 DEF SpellOK
    <3>2. 1 \in 1 .. Len(spell[m]) /\ SubSeq(spell[m], 1, 1 - 1) = <<>>
      BY <3>1
    <3>3. spell[m][1] \in Column
      <4>1. \E p \in Trie : <<p, spell[m][1]>> \in DOMAIN g
        BY <1>2, <1>3, <3>2 DEF ClosedOK
      <4>. QED
        BY <1>2, <4>1 DEF EdgeOK
    <3>4. Pending(0, spell[m][1])'
      BY <1>1, <1>2, <3>3 DEF Pending, Looping
    <3>. QED
      BY <1>1, <1>3, <1>4, <3>2, <3>4
  <2>. QED
    BY <2>1 DEF Waiting
<1>6. Ordered'
  BY <1>1, <1>2, <1>3, <1>4 DEF Ordered
<1>7. RootOK'
  BY <1>1, <1>2, <1>4 DEF RootOK
<1>. QED
  BY <1>1, <1>2, <1>3, <1>5, <1>6, <1>7 DEF Sound, StartOK, After, InsertOK, QueueOK, BuiltOK

-----------------------------------------------------------------------------
(* The queue *)

\* A state that gets its link takes the place of the column that it was found in:
\* what lies behind it still waits for something pending, and it is last in order.
LEMMA EnqueueInv ==
  ASSUME CountOK, SpellOK, EdgeOK, ClosedOK, Waiting, Ordered, Looping, Looping', todo # {},
         <<state, column>> \in DOMAIN g, g[<<state, column>>] # 0,
         NEW l \in Trie, Depth(l) <= Depth(state),
         fail' = [fail EXCEPT ![g[<<state, column>>]] = l],
         queue' = Append(queue, g[<<state, column>>]),
         todo' = todo \ {column},
         UNCHANGED <<keywords, upto, j, g, spell, state>>
  PROVE  SpellOK' /\ EdgeOK' /\ ClosedOK' /\ Trie' = Trie /\ Waiting' /\ Ordered'
<1>a. state \in Trie /\ column \in Column /\ column \in todo
  BY ColumnToCome DEF Ordered
<1>b. PICK n \in Trie \ {0} : n = g[<<state, column>>]
  BY <1>a DEF EdgeOK
<1>1. /\ spell[n] = Append(spell[state], column)
      /\ Depth(n) = Depth(state) + 1 /\ \A m \in Trie : Depth(m) \in Nat
  BY <1>a, <1>b, DepthIs DEF EdgeOK
<1>2. /\ fail' \in [State -> Int] /\ fail'[n] = l
      /\ \A m \in Trie \ {n} : fail'[m] = fail[m]
  BY <1>b, TrieInState DEF SpellOK
<1>3. SpellOK' /\ EdgeOK' /\ ClosedOK' /\ Trie' = Trie
  BY <1>2, TablesKept
<1>4. \A m \in Trie : Depth(m)' = Depth(m)
  BY DEF Depth
<1>5. Linked(n)'
  <2>1. fail'[n] \in Trie' /\ Depth(l)' < Depth(n)'
    BY <1>a, <1>b, <1>1, <1>2, <1>3, <1>4
  <2>. QED
    BY <2>1, <1>2 DEF Linked, Depth
<1>6. ASSUME NEW m \in Trie \ {n}, Linked(m) PROVE Linked(m)'
  BY <1>2, <1>3, <1>6 DEF Linked, Depth
<1>7. /\ queue \in Seq(Trie \ {0}) /\ Len(queue) \in Nat /\ Len(queue') = Len(queue) + 1
      /\ queue' \in Seq(Trie \ {0}) /\ queue'[Len(queue) + 1] = n
      /\ \A a \in 1 .. Len(queue) : queue'[a] = queue[a]
  <2>1. queue \in Seq(Trie \ {0}) /\ queue' = Append(queue, n)
    BY <1>b DEF Ordered
  <2>. QED
    BY <2>1, <1>a, <1>b, <1>1
<1>8. ASSUME NEW m \in Trie \ {0}, ~Linked(m)'
      PROVE  \E i \in 1 .. Len(spell[m]), p \in Trie :
               spell[p] = SubSeq(spell[m], 1, i - 1) /\ Pending(p, spell[m][i])'
  <2>1. m # n /\ ~Linked(m)
    BY <1>5, <1>6, <1>8
  <2>2. PICK i \in 1 .. Len(spell[m]), p \in Trie :
          spell[p] = SubSeq(spell[m], 1, i - 1) /\ Pending(p, spell[m][i])
    BY <2>1 DEF Waiting
  <2>3. CASE p = state /\ spell[m][i] = column
    <3>1. spell[m] \in Seq(Symbol) /\ Len(spell[m]) \in Nat /\ i - 1 \in 0 .. Len(spell[m]) - 1
      BY <2>2 DEF SpellOK
    <3>2. SubSeq(spell[m], 1, i) = spell[n]
      <4>1. SubSeq(spell[m], 1, (i - 1) + 1) = Append(SubSeq(spell[m], 1, i - 1), spell[m][(i - 1) + 1])
        BY <3>1, OneMore
      <4>2. (i - 1) + 1 = i
        BY <2>2
      <4>. QED
        BY <4>1, <4>2, <2>2, <2>3, <1>a, <1>b, <1>1
    <3>3. i # Len(spell[m])
      BY <3>1, <3>2, <2>1, Whole DEF SpellOK
    <3>4. i + 1 \in 1 .. Len(spell[m]) /\ (i + 1) - 1 = i
      BY <3>1, <3>3, <2>2
    <3>5. Pending(n, spell[m][i + 1])'
      BY <1>7 DEF Pending
    <3>. QED
      BY <3>2, <3>4, <3>5, <1>b, <1>1
  <2>4. CASE ~(p = state /\ spell[m][i] = column)
    <3>1. Pending(p, spell[m][i])'
      <4>1. CASE \E a \in 1 .. Len(queue) : queue[a] = p
        BY <4>1, <1>7 DEF Pending
      <4>2. CASE p = state /\ spell[m][i] \in todo
        BY <4>2, <2>4 DEF Pending
      <4>. QED
        BY <4>1, <4>2, <2>2, <1>a DEF Pending
    <3>. QED
      BY <3>1, <2>2
  <2>. QED
    BY <2>3, <2>4
<1>9. Waiting'
  <2>1. ASSUME NEW m \in Trie' \ {0}
        PROVE  Linked(m)' \/ \E i \in 1 .. Len(spell'[m]), p \in Trie' :
                 spell'[p] = SubSeq(spell'[m], 1, i - 1) /\ Pending(p, spell[m][i])'
    BY <1>3, <1>8
  <2>. QED
    BY <2>1 DEF Waiting
<1>10. Ordered'
  <2>1. ASSUME NEW a \in 1 .. Len(queue')
        PROVE  /\ queue'[a] \in Trie
               /\ Depth(state) <= Depth(queue'[a]) /\ Depth(queue'[a]) <= Depth(state) + 1
    BY <1>a, <1>b, <1>1, <1>7, SMTT(30) DEF Ordered
  <2>2. ASSUME NEW a \in 1 .. Len(queue'), NEW b \in 1 .. Len(queue')
        PROVE  /\ Depth(queue'[b]) <= Depth(queue'[a]) + 1
               /\ a <= b => Depth(queue'[a]) <= Depth(queue'[b])
    <3>1. Depth(queue'[b]) <= Depth(queue'[a]) + 1
      BY <2>1, <1>a, <1>b, <1>1, SMTT(30)
    <3>2. CASE b = Len(queue) + 1
      BY <3>1, <3>2, <2>1, <1>a, <1>b, <1>1, <1>7
    <3>3. CASE b # Len(queue) + 1 /\ a <= b
      <4>1. a \in 1 .. Len(queue) /\ b \in 1 .. Len(queue)
        BY <3>3, <1>7
      <4>. QED
        BY <3>1, <3>3, <4>1, <1>7 DEF Ordered
    <3>. QED
      BY <3>1, <3>2, <3>3
  <2>3. state' \in Trie' /\ todo' \subseteq Column
    BY <1>a, <1>b, <1>1, <1>3 DEF Ordered
  <2>. QED
    BY <2>1, <2>2, <2>3, <1>3, <1>7 DEF Ordered, Depth
<1>. QED
  BY <1>3, <1>9, <1>10

\* What is pending stays pending, and linked linked, when only the phase changes.
LEMMA WaitingKept ==
  ASSUME SpellOK, Waiting, UNCHANGED <<j, spell, fail>>,
         \A m, p \in Trie : \A i \in 1 .. Len(spell[m]) :
           spell[p] = SubSeq(spell[m], 1, i - 1) /\ Pending(p, spell[m][i])
             => Pending(p, spell[m][i])'
  PROVE  Waiting'
<1>1. Trie' = Trie /\ \A m \in Trie : Linked(m) <=> Linked(m)'
  BY DEF Trie, Linked, Depth
<1>2. ASSUME NEW m \in Trie' \ {0}
      PROVE  Linked(m)' \/ \E i \in 1 .. Len(spell'[m]), p \in Trie' :
               spell'[p] = SubSeq(spell'[m], 1, i - 1) /\ Pending(p, spell[m][i])'
  <2>1. CASE Linked(m)
    BY <2>1, <1>1
  <2>2. CASE ~Linked(m)
    <3>1. PICK i \in 1 .. Len(spell[m]), p \in Trie :
            spell[p] = SubSeq(spell[m], 1, i - 1) /\ Pending(p, spell[m][i])
      BY <2>2, <1>1 DEF Waiting
    <3>2. Pending(p, spell[m][i])'
      BY <3>1, <1>1
    <3>. QED
      BY <3>1, <3>2, <1>1
  <2>. QED
    BY <2>1, <2>2
<1>. QED
  BY <1>2 DEF Waiting

\* The root gets an edge for one more column.
LEMMA RootColumnInv ==
  ASSUME CountOK, Sound, RootColumn, keywords' = keywords
  PROVE  Sound'
<1>1. /\ acs = "root" /\ acs' = "root" /\ todo # {} /\ todo' = todo \ {column}
      /\ UNCHANGED <<keywords, upto, j, spell, state>>
  BY DEF RootColumn, counters
<1>2. /\ SpellOK /\ EdgeOK /\ ClosedOK /\ Waiting /\ Ordered /\ RootOK /\ state = 0
      /\ Looping /\ Looping' /\ 0 \in Trie /\ todo \subseteq Column
      /\ column \in todo /\ Depth(0) \in Nat
  <2>1. /\ SpellOK /\ EdgeOK /\ ClosedOK /\ Waiting /\ Ordered /\ RootOK /\ state = 0
        /\ Looping /\ Looping'
    BY <1>1 DEF Sound, QueueOK, After, Looping
  <2>2. 0 \in Trie /\ todo \subseteq Column /\ column \in todo /\ Depth(0) \in Nat
    BY <1>1, <2>1, TrieInState, ColumnToCome, DepthIs DEF Ordered
  <2>. QED
    BY <2>1, <2>2
<1>3. CASE <<0, column>> \in DOMAIN g
  <2>1. /\ fail' = [fail EXCEPT ![g[<<0, column>>]] = 0]
        /\ queue' = Append(queue, g[<<0, column>>]) /\ g' = g
    BY <1>3 DEF RootColumn
  <2>2. g[<<0, column>>] # 0
    BY <1>1, <1>2, <1>3 DEF RootOK
  <2>3. SpellOK' /\ EdgeOK' /\ ClosedOK' /\ Trie' = Trie /\ Waiting' /\ Ordered'
    <3>1. /\ <<state, column>> \in DOMAIN g /\ g[<<state, column>>] # 0
          /\ fail' = [fail EXCEPT ![g[<<state, column>>]] = 0]
          /\ queue' = Append(queue, g[<<state, column>>])
          /\ Depth(0) <= Depth(state)
      BY <1>2, <1>3, <2>1, <2>2
    <3>. QED
      BY <1>1, <1>2, <2>1, <3>1, EnqueueInv
  <2>4. RootOK'
    BY <1>1, <1>2, <1>3, <2>1 DEF RootOK
  <2>. QED
    BY <1>1, <1>2, <2>3, <2>4 DEF Sound, StartOK, After, InsertOK, QueueOK, BuiltOK
<1>4. CASE <<0, column>> \notin DOMAIN g
  <2>1. /\ g' = [e \in DOMAIN g \cup {<<0, column>>} |-> IF e = <<0, column>> THEN 0 ELSE g[e]]
        /\ UNCHANGED <<fail, queue>>
    BY <1>4 DEF RootColumn, With
  <2>2. /\ DOMAIN g' = DOMAIN g \cup {<<0, column>>} /\ g'[<<0, column>>] = 0
        /\ \A e \in DOMAIN g : g'[e] = g[e]
    BY <2>1, <1>4
  <2>3. Trie' = Trie /\ State' = State /\ max_states' = max_states
    BY <1>1 DEF Trie, State, max_states
  <2>4. SpellOK'
    BY <1>1, <1>2, <2>1, <2>3 DEF SpellOK
  <2>5. EdgeOK'
    <3>1. DOMAIN g' \subseteq Trie' \X Column
      BY <1>2, <2>2, <2>3 DEF EdgeOK
    <3>2. ASSUME NEW n \in Trie', NEW c \in Column, <<n, c>> \in DOMAIN g'
          PROVE  /\ g'[<<n, c>>] \in Trie' /\ (g'[<<n, c>>] = 0 => n = 0)
                 /\ g'[<<n, c>>] # 0 => spell'[g'[<<n, c>>]] = Append(spell'[n], c)
      <4>1. CASE <<n, c>> = <<0, column>>
        BY <4>1, <1>2, <2>2, <2>3
      <4>2. CASE <<n, c>> \in DOMAIN g
        <5>1. n \in Trie /\ g'[<<n, c>>] = g[<<n, c>>]
          BY <4>2, <2>2, <2>3
        <5>2. /\ g[<<n, c>>] \in Trie /\ (g[<<n, c>>] = 0 => n = 0)
              /\ g[<<n, c>>] # 0 => spell[g[<<n, c>>]] = Append(spell[n], c)
          BY <4>2, <5>1, <1>2 DEF EdgeOK
        <5>. QED
          BY <5>1, <5>2, <1>1, <2>3
      <4>. QED
        BY <4>1, <4>2, <3>2, <2>2
    <3>. QED
      BY <3>1, <3>2 DEF EdgeOK
  <2>6. ClosedOK'
    <3>1. ASSUME NEW n \in Trie', NEW i \in 1 .. Len(spell'[n])
          PROVE  \E p \in Trie' :
                   /\ spell'[p] = SubSeq(spell'[n], 1, i - 1)
                   /\ <<p, spell'[n][i]>> \in DOMAIN g' /\ g'[<<p, spell'[n][i]>>] # 0
      <4>1. PICK p \in Trie :
              /\ spell[p] = SubSeq(spell[n], 1, i - 1)
              /\ <<p, spell[n][i]>> \in DOMAIN g /\ g[<<p, spell[n][i]>>] # 0
        BY <1>1, <1>2, <2>3 DEF ClosedOK
      <4>. QED
        BY <4>1, <1>1, <2>2, <2>3
    <3>. QED
      BY <3>1 DEF ClosedOK
  <2>7. Waiting'
    <3>1. ASSUME NEW m \in Trie, NEW i \in 1 .. Len(spell[m]), NEW p \in Trie,
                 spell[p] = SubSeq(spell[m], 1, i - 1)
          PROVE  ~(p = state /\ spell[m][i] = column)
      <4>1. PICK q \in Trie :
              spell[q] = SubSeq(spell[m], 1, i - 1) /\ <<q, spell[m][i]>> \in DOMAIN g
        BY <1>2 DEF ClosedOK
      <4>2. q = p
        BY <4>1, <3>1, <1>2 DEF SpellOK
      <4>. QED
        BY <4>1, <4>2, <1>2, <1>4
    <3>2. ASSUME NEW m \in Trie' \ {0}
          PROVE  Linked(m)' \/ \E i \in 1 .. Len(spell'[m]), p \in Trie' :
                   spell'[p] = SubSeq(spell'[m], 1, i - 1) /\ Pending(p, spell[m][i])'
      <4>1. CASE Linked(m)
        BY <4>1, <1>1, <2>1, <2>3 DEF Linked, Depth
      <4>2. CASE ~Linked(m)
        <5>1. PICK i \in 1 .. Len(spell[m]), p \in Trie :
                spell[p] = SubSeq(spell[m], 1, i - 1) /\ Pending(p, spell[m][i])
          BY <4>2, <1>2, <2>3 DEF Waiting
        <5>2. m \in Trie /\ ~(p = state /\ spell[m][i] = column)
          BY <5>1, <3>1, <2>3
        <5>3. Pending(p, spell[m][i])'
          BY <5>1, <5>2, <1>1, <1>2, <2>1 DEF Pending
        <5>. QED
          BY <5>1, <5>3, <1>1, <2>3
      <4>. QED
        BY <4>1, <4>2
    <3>. QED
      BY <3>2 DEF Waiting
  <2>8. Ordered'
    BY <1>1, <1>2, <2>1, <2>3 DEF Ordered, Depth
  <2>9. RootOK'
    BY <1>1, <1>2, <2>2 DEF RootOK
  <2>. QED
    BY <1>1, <1>2, <2>4, <2>5, <2>6, <2>7, <2>8, <2>9
       DEF Sound, StartOK, After, InsertOK, QueueOK, BuiltOK
<1>. QED
  BY <1>3, <1>4

\* The tables are not changed when a state is done with, or begun.
LEMMA TurnInv ==
  ASSUME CountOK, Sound, RootDone \/ ColumnsDone \/ NextColumn, keywords' = keywords
  PROVE  Sound'
<1>1. /\ \/ acs \in {"root", "columns"} /\ todo = {} /\ acs' = "queue"
         \/ acs = "columns" /\ todo # {} /\ acs' = "follow" /\ f' = fail[state]
      /\ UNCHANGED <<keywords, upto, j, g, fail, spell, state, todo, queue>>
  BY DEF RootDone, ColumnsDone, NextColumn, Turn, counters, tables, cursors
<1>2. SpellOK /\ EdgeOK /\ ClosedOK /\ Waiting /\ Ordered /\ RootOK /\ Looping
  BY <1>1 DEF Sound, QueueOK, After, Looping
<1>3. SpellOK' /\ EdgeOK' /\ ClosedOK' /\ Trie' = Trie
  BY <1>1, <1>2, TablesKept DEF SpellOK
<1>4. Waiting'
  <2>1. \A m, p \in Trie : \A i \in 1 .. Len(spell[m]) :
          Pending(p, spell[m][i]) => Pending(p, spell[m][i])'
    BY <1>1 DEF Pending, Looping
  <2>. QED
    BY <1>1, <1>2, <2>1, WaitingKept
<1>5. Ordered' /\ RootOK'
  <2>1. Ordered'
    BY <1>1, <1>2, <1>3 DEF Ordered, Depth, Looping
  <2>2. RootOK'
    BY <1>1, <1>2 DEF RootOK
  <2>. QED
    BY <2>1, <2>2
<1>6. acs' = "follow" => f' \in Trie /\ Depth(f') < Depth(state) /\ state # 0
  <2>. SUFFICES ASSUME acs' = "follow" PROVE f' \in Trie /\ Depth(f') < Depth(state) /\ state # 0
    OBVIOUS
  <2>1. acs = "columns" /\ f' = fail[state] /\ state # 0 /\ state \in Trie /\ Depth(state) \in Nat
    BY <1>1, <1>2, DepthIs DEF Sound, QueueOK, Ordered
  <2>2. Linked(state)
    BY <1>2, <2>1, NearLinked
  <2>. QED
    BY <2>1, <2>2 DEF Linked
<1>7. acs' = "follow" => todo' # {} /\ f' \in Trie' /\ Depth(f)' < Depth(state)' /\ state' # 0
  BY <1>1, <1>3, <1>6 DEF Depth
<1>8. acs' = "follow" => \A c \in todo' : <<state', c>> \in DOMAIN g'
  BY <1>1 DEF Sound, QueueOK
<1>. QED
  BY <1>1, <1>3, <1>4, <1>5, <1>7, <1>8 DEF Sound, StartOK, After, InsertOK, QueueOK, BuiltOK

\* The next state is the nearest to the root; what waited for it waits for the
\* columns that it has.
LEMMA DequeueInv ==
  ASSUME CountOK, Sound, Dequeue, keywords' = keywords
  PROVE  Sound'
<1>1. /\ acs = "queue" /\ acs' = "columns" /\ queue # <<>>
      /\ state' = Head(queue) /\ queue' = Tail(queue)
      /\ todo' = {c \in Column : <<Head(queue), c>> \in DOMAIN g}
      /\ UNCHANGED <<keywords, upto, j, g, fail, spell>>
  BY DEF Dequeue, counters, tables
<1>2. SpellOK /\ EdgeOK /\ ClosedOK /\ Waiting /\ Ordered /\ RootOK
  BY <1>1 DEF Sound, QueueOK, After
<1>3. SpellOK' /\ EdgeOK' /\ ClosedOK' /\ Trie' = Trie
  BY <1>1, <1>2, TablesKept DEF SpellOK
<1>4. /\ Len(queue) \in Nat \ {0} /\ state' = queue[1] /\ state' \in Trie \ {0}
      /\ queue' \in Seq(Trie \ {0}) /\ Len(queue') = Len(queue) - 1
      /\ \A a \in 1 .. Len(queue') : a + 1 \in 1 .. Len(queue) /\ queue'[a] = queue[a + 1]
  BY <1>1, <1>2 DEF Ordered
<1>5. Waiting'
  <2>1. ASSUME NEW m \in Trie, NEW p \in Trie, NEW i \in 1 .. Len(spell[m]),
               spell[p] = SubSeq(spell[m], 1, i - 1), Pending(p, spell[m][i])
        PROVE  Pending(p, spell[m][i])'
    <3>1. PICK a \in 1 .. Len(queue) : queue[a] = p
      BY <2>1, <1>1 DEF Pending, Looping
    <3>2. CASE a = 1
      <4>1. PICK q \in Trie :
              spell[q] = SubSeq(spell[m], 1, i - 1) /\ <<q, spell[m][i]>> \in DOMAIN g
        BY <1>2 DEF ClosedOK
      <4>2. q = p
        BY <4>1, <2>1, <1>2 DEF SpellOK
      <4>3. p = state' /\ p = Head(queue)
        BY <3>1, <3>2, <1>1, <1>4
      <4>4. spell[m][i] \in todo'
        BY <4>1, <4>2, <4>3, <1>1, <1>2 DEF EdgeOK
      <4>. QED
        BY <4>3, <4>4, <1>1 DEF Pending, Looping
    <3>3. CASE a # 1
      <4>1. a - 1 \in 1 .. Len(queue') /\ (a - 1) + 1 = a
        BY <3>1, <3>3, <1>4
      <4>2. queue'[a - 1] = p
        BY <3>1, <4>1, <1>4
      <4>. QED
        BY <4>1, <4>2 DEF Pending
    <3>. QED
      BY <3>2, <3>3
  <2>. QED
    BY <1>1, <1>2, <2>1, WaitingKept
<1>6. Ordered'
  <2>1. ASSUME NEW a \in 1 .. Len(queue'), NEW b \in 1 .. Len(queue')
        PROVE  /\ Depth(queue'[b]) <= Depth(queue'[a]) + 1
               /\ a <= b => Depth(queue'[a]) <= Depth(queue'[b])
    <3>1. /\ a + 1 \in 1 .. Len(queue) /\ b + 1 \in 1 .. Len(queue)
          /\ queue'[a] = queue[a + 1] /\ queue'[b] = queue[b + 1]
          /\ a <= b => a + 1 <= b + 1
      BY <1>4
    <3>. QED
      BY <3>1, <1>2 DEF Ordered
  <2>2. ASSUME NEW a \in 1 .. Len(queue')
        PROVE  Depth(state') <= Depth(queue'[a]) /\ Depth(queue'[a]) <= Depth(state') + 1
    <3>1. /\ 1 \in 1 .. Len(queue) /\ a + 1 \in 1 .. Len(queue) /\ 1 <= a + 1
          /\ queue'[a] = queue[a + 1] /\ state' = queue[1]
      BY <1>4
    <3>. QED
      BY <3>1, <1>2 DEF Ordered
  <2>. QED
    BY <1>1, <1>3, <1>4, <2>1, <2>2 DEF Ordered, Depth
<1>7. RootOK'
  BY <1>1, <1>2 DEF RootOK
<1>. QED
  BY <1>1, <1>3, <1>4, <1>5, <1>6, <1>7 DEF Sound, StartOK, After, InsertOK, QueueOK, BuiltOK

\* Where a failure link is followed.
LEMMA FollowAt ==
  ASSUME CountOK, Sound, acs = "follow"
  PROVE  /\ SpellOK /\ EdgeOK /\ ClosedOK /\ Waiting /\ Ordered /\ RootOK /\ Looping
         /\ state \in Trie \ {0} /\ todo # {} /\ column \in todo /\ column \in Column
         /\ todo \subseteq Column
         /\ f \in Trie /\ Depth(f) < Depth(state) /\ Depth(f) \in Nat /\ Depth(state) \in Nat
         /\ \A c \in todo : <<state, c>> \in DOMAIN g
         /\ \A c \in Column : <<0, c>> \in DOMAIN g
<1>1. /\ SpellOK /\ EdgeOK /\ ClosedOK /\ Waiting /\ Ordered /\ RootOK /\ Looping
      /\ state # 0 /\ todo # {} /\ f \in Trie /\ Depth(f) < Depth(state)
      /\ \A c \in todo : <<state, c>> \in DOMAIN g
  BY DEF Sound, QueueOK, After, Looping
<1>2. state \in Trie /\ todo \subseteq Column
  BY <1>1 DEF Ordered
<1>3. column \in todo
  BY <1>1, <1>2, ColumnToCome
<1>4. \A c \in Column : <<0, c>> \in DOMAIN g
  BY <1>1 DEF RootOK
<1>. QED
  BY <1>1, <1>2, <1>3, <1>4, DepthIs

\* Where there is no edge the link is followed, which is nearer to the root.
LEMMA FollowInv ==
  ASSUME CountOK, Sound, Follow, keywords' = keywords
  PROVE  Sound'
<1>1. /\ acs = "follow" /\ acs' = "follow" /\ <<f, column>> \notin DOMAIN g /\ f' = fail[f]
      /\ UNCHANGED <<keywords, upto, j, g, fail, spell, state, todo, queue>>
  BY DEF Follow, counters, tables
<1>2. /\ SpellOK /\ EdgeOK /\ ClosedOK /\ Waiting /\ Ordered /\ RootOK /\ Looping
      /\ f \in Trie \ {0} /\ Depth(f) < Depth(state) /\ Depth(f) \in Nat /\ Depth(state) \in Nat
  BY <1>1, FollowAt
<1>3. f' \in Trie /\ Depth(f') < Depth(state)
  <2>1. Linked(f)
    BY <1>2, NearLinked
  <2>2. f' \in Trie /\ Depth(f') < Depth(f) /\ Depth(f') \in Nat
    BY <1>1, <1>2, <2>1, DepthIs DEF Linked
  <2>. QED
    BY <1>2, <2>2
<1>4. SpellOK' /\ EdgeOK' /\ ClosedOK' /\ Trie' = Trie
  BY <1>1, <1>2, TablesKept DEF SpellOK
<1>5. Waiting'
  <2>1. \A m, p \in Trie : \A i \in 1 .. Len(spell[m]) :
          Pending(p, spell[m][i]) => Pending(p, spell[m][i])'
    BY <1>1 DEF Pending, Looping
  <2>. QED
    BY <1>1, <1>2, <2>1, WaitingKept
<1>6. Ordered' /\ RootOK'
  BY <1>1, <1>2, <1>4 DEF Ordered, RootOK, Depth, Looping
<1>7. f' \in Trie' /\ Depth(f)' < Depth(state)'
  BY <1>1, <1>3, <1>4 DEF Depth
<1>. QED
  BY <1>1, <1>4, <1>5, <1>6, <1>7 DEF Sound, StartOK, After, InsertOK, QueueOK, BuiltOK

\* An edge is found: the link of the child is nearer to the root than the child.
LEMMA LinkInv ==
  ASSUME CountOK, Narrow, Sound, Link, keywords' = keywords
  PROVE  Sound'
<1>. DEFINE link == Int8(g[<<f, column>>])
<1>1. /\ acs = "follow" /\ acs' = "columns" /\ <<f, column>> \in DOMAIN g
      /\ fail' = [fail EXCEPT ![g[<<state, column>>]] = link]
      /\ queue' = Append(queue, g[<<state, column>>]) /\ todo' = todo \ {column}
      /\ UNCHANGED <<keywords, upto, j, g, spell, state>>
  BY DEF Link, counters
<1>2. /\ SpellOK /\ EdgeOK /\ ClosedOK /\ Waiting /\ Ordered /\ RootOK /\ Looping
      /\ state \in Trie \ {0} /\ todo # {} /\ column \in Column /\ column \in todo
      /\ f \in Trie /\ Depth(f) < Depth(state) /\ Depth(f) \in Nat /\ Depth(state) \in Nat
      /\ \A c \in todo : <<state, c>> \in DOMAIN g
      /\ \A c \in Column : <<0, c>> \in DOMAIN g
  BY <1>1, FollowAt
<1>3. link \in Trie /\ Depth(link) <= Depth(state)
  <2>1. g[<<f, column>>] \in Trie
    BY <1>1, <1>2 DEF EdgeOK
  <2>2. link = g[<<f, column>>]
    BY <2>1, NoWrap DEF CountOK
  <2>3. CASE g[<<f, column>>] = 0
    BY <2>1, <2>2, <2>3, <1>2, DepthIs
  <2>4. CASE g[<<f, column>>] # 0
    <3>1. Depth(g[<<f, column>>]) = Depth(f) + 1
      BY <2>4, <1>1, <1>2, DepthIs
    <3>. QED
      BY <2>1, <2>2, <3>1, <1>2
  <2>. QED
    BY <2>3, <2>4
<1>4. <<state, column>> \in DOMAIN g /\ g[<<state, column>>] # 0
  BY <1>2 DEF EdgeOK
<1>5. Looping'
  BY <1>1 DEF Looping
<1>6. SpellOK' /\ EdgeOK' /\ ClosedOK' /\ Trie' = Trie /\ Waiting' /\ Ordered'
  <2>. HIDE DEF link
  <2>. QED
    BY <1>1, <1>2, <1>3, <1>4, <1>5, EnqueueInv
<1>7. RootOK' /\ \A c \in todo' : <<state', c>> \in DOMAIN g'
  BY <1>1, <1>2 DEF RootOK
<1>. QED
  BY <1>1, <1>2, <1>6, <1>7 DEF Sound, StartOK, After, InsertOK, QueueOK, BuiltOK

\* Nothing is pending any more: every state has its link.
LEMMA BuiltInv ==
  ASSUME CountOK, Sound, Built, keywords' = keywords
  PROVE  Sound'
<1>1. /\ acs = "queue" /\ acs' = "built" /\ queue = <<>>
      /\ UNCHANGED <<keywords, upto, j, g, fail, spell>>
  BY DEF Built, Turn, counters, tables
<1>2. SpellOK /\ EdgeOK /\ ClosedOK /\ Waiting /\ RootOK
  BY <1>1 DEF Sound, QueueOK, After
<1>3. SpellOK' /\ EdgeOK' /\ ClosedOK' /\ Trie' = Trie
  BY <1>1, <1>2, TablesKept DEF SpellOK
<1>4. \A m \in Trie \ {0} : Linked(m)
  BY <1>1, <1>2 DEF Waiting, Pending, Looping
<1>5. \A m \in Trie' \ {0} : Linked(m)'
  BY <1>1, <1>3, <1>4 DEF Linked, Depth
<1>6. \A c \in Column : <<0, c>> \in DOMAIN g'
  BY <1>1, <1>2 DEF RootOK
<1>. QED
  BY <1>1, <1>3, <1>5, <1>6 DEF Sound, StartOK, After, InsertOK, QueueOK, BuiltOK

-----------------------------------------------------------------------------
(* Matching *)

\* A string is begun at the root, or ends.
LEMMA BetweenInv ==
  ASSUME CountOK, Sound, keywords' = keywords,
         MatchEnd \/ MatchReturns \/ \E t \in Seq(Symbol) : StringMatches(t)
  PROVE  Sound'
<1>1. /\ acs \in {"built", "match", "hit", "miss"} /\ acs' \in {"built", "match", "miss"}
      /\ acs' = "match" => text' \in Seq(Symbol) /\ s' = 0 /\ state' = 0
      /\ UNCHANGED <<keywords, upto, j, g, fail, spell>>
  BY DEF MatchEnd, MatchReturns, StringMatches, Turn, counters, tables
<1>2. /\ SpellOK /\ EdgeOK /\ ClosedOK
      /\ \A m \in Trie \ {0} : Linked(m)
      /\ \A c \in Column : <<0, c>> \in DOMAIN g
  BY <1>1 DEF Sound, BuiltOK, After
<1>3. SpellOK' /\ EdgeOK' /\ ClosedOK' /\ Trie' = Trie
  BY <1>1, <1>2, TablesKept DEF SpellOK
<1>4. \A m \in Trie' \ {0} : Linked(m)'
  BY <1>1, <1>2, <1>3 DEF Linked, Depth
<1>5. acs' = "match" => text' \in Seq(Symbol) /\ s' \in 0 .. Len(text') /\ state' \in Trie'
  <2>. SUFFICES ASSUME acs' = "match"
                PROVE  text' \in Seq(Symbol) /\ s' \in 0 .. Len(text') /\ state' \in Trie'
    OBVIOUS
  <2>1. text' \in Seq(Symbol) /\ s' = 0 /\ state' = 0
    BY <1>1
  <2>. QED
    BY <2>1, <1>2, <1>3, TrieInState
<1>. QED
  BY <1>1, <1>2, <1>3, <1>4, <1>5 DEF Sound, StartOK, After, InsertOK, QueueOK, BuiltOK

\* A character is matched, or a failure link taken.
LEMMA ScanInv ==
  ASSUME CountOK, Sound, keywords' = keywords, MatchFail \/ MatchChar
  PROVE  Sound'
<1>1. /\ acs = "match" /\ acs' \in {"match", "hit"} /\ s < Len(text) /\ text[s + 1] \in Column
      /\ \/ <<state, text[s + 1]>> \notin DOMAIN g /\ state' = fail[state] /\ s' = s
         \/ <<state, text[s + 1]>> \in DOMAIN g /\ state' = g[<<state, text[s + 1]>>] /\ s' = s + 1
      /\ UNCHANGED <<keywords, upto, j, g, fail, spell, text>>
  BY DEF MatchFail, MatchChar, Scanning, counters, tables
<1>2. /\ SpellOK /\ EdgeOK /\ ClosedOK
      /\ \A m \in Trie \ {0} : Linked(m)
      /\ \A c \in Column : <<0, c>> \in DOMAIN g
      /\ text \in Seq(Symbol) /\ s \in 0 .. Len(text) /\ state \in Trie
  BY <1>1 DEF Sound, BuiltOK, After
<1>3. SpellOK' /\ EdgeOK' /\ ClosedOK' /\ Trie' = Trie
  BY <1>1, <1>2, TablesKept DEF SpellOK
<1>4. \A m \in Trie' \ {0} : Linked(m)'
  BY <1>1, <1>2, <1>3 DEF Linked, Depth
<1>5. Len(text) \in Nat /\ s + 1 \in 1 .. Len(text) /\ text[s + 1] \in Column
  <2>1. Len(text) \in Nat /\ s + 1 \in 1 .. Len(text)
    BY <1>1, <1>2
  <2>. QED
    BY <1>1, <2>1
<1>6. state' \in Trie
  <2>1. CASE <<state, text[s + 1]>> \notin DOMAIN g
    BY <2>1, <1>1, <1>2, <1>5 DEF Linked
  <2>2. CASE <<state, text[s + 1]>> \in DOMAIN g
    BY <2>2, <1>1, <1>2, <1>5 DEF EdgeOK
  <2>. QED
    BY <2>1, <2>2
<1>7. s' \in 0 .. Len(text')
  BY <1>1, <1>2, <1>5
<1>. QED
  BY <1>1, <1>2, <1>3, <1>4, <1>6, <1>7 DEF Sound, StartOK, After, InsertOK, QueueOK, BuiltOK

\* Nothing outside of the tables is used but for a character without a column.
LEMMA SeldomOutside ==
  ASSUME CountOK, Narrow, Sound, Outside
  PROVE  Strange
<1>1. CASE acs = "follow"
  <2>1. f \in State
    BY <1>1, FollowAt, TrieInState
  <2>2. <<f, column>> \in DOMAIN g => Int8(g[<<f, column>>]) \in State
    <3>. SUFFICES ASSUME <<f, column>> \in DOMAIN g PROVE Int8(g[<<f, column>>]) \in State
      OBVIOUS
    <3>1. g[<<f, column>>] \in Trie
      BY <1>1, FollowAt DEF EdgeOK
    <3>. QED
      BY <1>1, <3>1, NoWrap, FollowAt, TrieInState DEF CountOK
  <2>. QED
    BY <1>1, <2>1, <2>2 DEF Outside, Inserting
<1>2. CASE acs = "match"
  <2>1. state \in State /\ text \in Seq(Symbol) /\ s \in 0 .. Len(text)
    BY <1>2, TrieInState DEF Sound, BuiltOK, After
  <2>2. s < Len(text) /\ text[s + 1] \notin Column
    BY <1>2, <2>1 DEF Outside, Scanning, Inserting
  <2>3. s + 1 \in DOMAIN text
    BY <2>1, <2>2
  <2>. QED
    BY <2>2, <2>3 DEF Strange, Foreign
<1>3. CASE Inserting /\ s < Len(keywords[word]) /\ Next_s \notin Column
  <2>1. /\ keywords \in Seq(Seq(Symbol)) /\ word \in 1 .. Len(keywords)
        /\ keywords[word] \in Seq(Symbol) /\ s \in 0 .. Len(keywords[word])
    <3>1. keywords \in Seq(Seq(Symbol))
      BY DEF CountOK
    <3>. QED
      BY <1>3, <3>1, InsertAt
  <2>2. word \in DOMAIN keywords
    BY <2>1
  <2>3. s + 1 \in DOMAIN keywords[word]
    BY <1>3, <2>1
  <2>. QED
    BY <1>3, <2>1, <2>2, <2>3 DEF Strange, Foreign, Next_s
<1>. QED
  BY <1>1, <1>2, <1>3 DEF Outside

-----------------------------------------------------------------------------
(* The theorem *)

\* The counters, which no action but those of counting and inserting changes.
LEMMA CountKept ==
  ASSUME CountOK, UNCHANGED <<keywords, upto, j>>
  PROVE  CountOK' /\ Narrow' = Narrow
BY DEF CountOK, Narrow

\* The steps of a program that goes on with the same keywords, over any string.
AnyNext ==
  /\ \/ BuildGoto \/ MachineStep \/ MatchReturns \/ Freed
     \/ \E t \in Seq(Symbol) : StringMatches(t)
  /\ UNCHANGED keywords

LEMMA NextIsAny == [MachineNext]_<<keywords, machine>> => AnyNext \/ UNCHANGED <<keywords, machine>>
BY Symbols DEF MachineNext, AnyNext

\* Every step keeps the invariant.
LEMMA StepInv ==
  ASSUME Inv, AnyNext \/ UNCHANGED <<keywords, machine>>
  PROVE  Inv'
<1>1. CASE UNCHANGED <<keywords, machine>>
  <2>1. /\ UNCHANGED <<keywords, acs, upto, j, word, g, fail, spell>>
        /\ UNCHANGED <<s, state, todo, f, queue, text>>
    BY <1>1 DEF machine, counters, tables, cursors
  <2>2. Trie' = Trie /\ State' = State /\ max_states' = max_states
    BY <2>1 DEF Trie, State, max_states
  <2>3. CountOK' /\ Narrow' = Narrow
    BY <2>1, CountKept DEF Inv
  <2>4. SpellOK' = SpellOK /\ EdgeOK' = EdgeOK /\ ClosedOK' = ClosedOK
    BY <2>1, <2>2 DEF SpellOK, EdgeOK, ClosedOK
  <2>5. InsertOK' = InsertOK /\ StartOK' = StartOK
    BY <2>1, <2>2 DEF InsertOK, StartOK
  <2>6. \A m \in Trie : Linked(m)' = Linked(m)
    BY <2>1, <2>2 DEF Linked, Depth
  <2>7. Ordered' = Ordered /\ RootOK' = RootOK
    BY <2>1, <2>2 DEF Ordered, RootOK, Depth, Looping
  <2>8. Waiting => Waiting'
    BY <2>1, <2>2, <2>6 DEF Waiting, Pending, Looping
  <2>9. QueueOK => QueueOK'
    BY <2>1, <2>2, <2>7, <2>8 DEF QueueOK, Depth
  <2>10. BuiltOK => BuiltOK'
    BY <2>1, <2>2, <2>6 DEF BuiltOK
  <2>11. Strange' = Strange
    BY <2>1 DEF Strange
  <2>. QED
    BY <2>1, <2>3, <2>4, <2>5, <2>9, <2>10, <2>11 DEF Inv, Sound, After
<1>2. CASE Freed /\ keywords' = keywords
  BY <1>2, FreeInv DEF Inv, Freed
<1>3. CASE CountWord /\ keywords' = keywords
  BY <1>3, CountWordInv DEF Inv, CountWord, Narrow
<1>4. CASE InsertNew /\ keywords' = keywords
  <2>1. j \in Nat /\ j' = j + 1 /\ upto' = upto
    BY <1>4 DEF Inv, CountOK, InsertNew
  <2>2. CountOK'
    BY <1>4, <2>1 DEF Inv, CountOK
  <2>3. Narrow' => Narrow
    BY <2>1, WidthAssumption DEF Narrow
  <2>. QED
    BY <1>4, <2>2, <2>3, InsertNewInv DEF Inv
<1>5. CASE Outside /\ keywords' = keywords
  <2>1. CountOK' /\ Narrow' = Narrow
    BY <1>5, CountKept DEF Inv, Outside, counters
  <2>2. Narrow => Strange'
    BY <1>5, SeldomOutside DEF Inv, Outside, cursors, Strange
  <2>. QED
    BY <1>5, <2>1, <2>2 DEF Inv, Outside, Sound, StartOK, After, InsertOK, QueueOK, BuiltOK
<1>6. CASE /\ keywords' = keywords
           /\ \/ BuildGoto \/ CountDone \/ InsertOld \/ InsertWord \/ InsertDone \/ RootColumn
              \/ RootDone \/ Dequeue \/ NextColumn \/ Follow \/ Link \/ ColumnsDone \/ Built
              \/ Match \/ MatchReturns \/ \E t \in Seq(Symbol) : StringMatches(t)
  <2>1. UNCHANGED <<keywords, upto, j>>
    BY <1>6 DEF BuildGoto, CountDone, InsertOld, InsertWord, InsertDone, RootColumn, RootDone,
                Dequeue, NextColumn, Follow, Link, ColumnsDone, Built, Match, MatchFail, MatchChar,
                MatchEnd, MatchReturns, StringMatches, Turn, counters
  <2>2. CountOK' /\ Narrow' = Narrow
    BY <2>1, CountKept DEF Inv
  <2>3. ASSUME Narrow PROVE Sound'
    BY <1>6, <2>3, BuildGotoInv, CountDoneInv, InsertOldInv, InsertWordInv, InsertDoneInv,
       RootColumnInv, TurnInv, DequeueInv, FollowInv, LinkInv, BuiltInv, BetweenInv, ScanInv
       DEF Inv, Match
  <2>. QED
    BY <2>2, <2>3 DEF Inv
<1>. QED
  BY <1>1, <1>2, <1>3, <1>4, <1>5, <1>6 DEF AnyNext, MachineStep, Build

\* build_goto and string_matches read nothing outside of their tables, and follow no
\* link that is not set, unless there are more states than int8_t can name
\* (acs.c:149-173, 188-197) or a character has no column: for any keywords and strings.
THEOREM MatcherStaysInside == MachineSpec => []StaysInside
<1>1. keywords \in Lists /\ MachineInit => Inv
  BY StartInv, Symbols
<1>2. Inv /\ [MachineNext]_<<keywords, machine>> => Inv'
  BY NextIsAny, StepInv
<1>3. Inv => StaysInside
  BY DEF Inv, Sound, StaysInside
<1>. QED
  BY <1>1, <1>2, <1>3, PTL DEF MachineSpec

-----------------------------------------------------------------------------
(* What the machine finds: the invariant *)

\* The state p has the longest string of any state that ends t.
Best(t, p) ==
  EndsWith(t, spell[p]) /\ \A m \in Trie : EndsWith(t, spell[m]) => Depth(m) <= Depth(p)

\* From p on, the links lead to the state with the longest string that ends t with c.
Near(t, c, p) ==
  /\ EndsWith(t, spell[p])
  /\ \A m \in Trie : EndsWith(Append(t, c), spell[m]) => Depth(m) <= Depth(p) + 1

\* Every keyword that ends the string of a state and has a bit has it in that state.
Complete(n) ==
  \A w \in DOMAIN keywords :
    w <= OutBits /\ keywords[w] # <<>> /\ EndsWith(spell[n], keywords[w]) => w - 1 \in out[n]

\* A bit of a state comes from a keyword that ends its string; a keyword that was
\* inserted has a state, and its bit there.
OutOK ==
  /\ out \in [State -> SUBSET Nat]
  /\ \A n \in State \ Trie : out[n] = {}
  /\ \A n \in Trie : \A b \in out[n] : \E w \in DOMAIN keywords : EndsWith(spell[n], keywords[w])
  /\ \A w \in 1 .. word - 1 :
       w <= OutBits => \E n \in Trie : spell[n] = keywords[w] /\ w - 1 \in out[n]

\* A link that is set is the longest.
LinksOK ==
  /\ word = Len(keywords) + 1
  /\ \A n \in Trie \ {0} : Linked(n) => Best(Tail(spell[n]), fail[n]) /\ Complete(n)

NoneEnds(i) == \A w \in Tested : ~EndsWith(SubSeq(text, 1, i), keywords[w])

MatchOK ==
  /\ acs = "match" /\ s < Len(text) /\ text[s + 1] \in Column =>
       Near(SubSeq(text, 1, s), text[s + 1], state)
  /\ acs \in {"match", "miss"} => \A i \in 1 .. s : NoneEnds(i)
  /\ acs = "miss" => s = Len(text) /\ text \in Seq(Symbol)
  /\ acs = "hit" => \E w \in DOMAIN keywords : EndsWith(SubSeq(text, 1, s), keywords[w])

Deep ==
  /\ acs \in After => OutOK
  /\ acs = "insert" => \A n \in State : fail[n] = -1
  /\ acs \in After \ {"insert"} => LinksOK
  /\ acs = "follow" => Near(Tail(spell[state]), column, f)
  /\ MatchOK

Exact == Inv /\ (Narrow => Deep)

-----------------------------------------------------------------------------
(* What ends a string *)

\* Character by character.
LEMMA EndsAt ==
  ASSUME NEW S, NEW t \in Seq(S), NEW x \in Seq(S)
  PROVE  EndsWith(t, x) <=>
           Len(x) <= Len(t) /\ \A i \in 1 .. Len(x) : x[i] = t[Len(t) - Len(x) + i]
<1>. DEFINE k == Len(t) - Len(x)
            y == SubSeq(t, k + 1, Len(t))
<1>. SUFFICES ASSUME Len(x) <= Len(t)
              PROVE  y = x <=> \A i \in 1 .. Len(x) : x[i] = t[k + i]
  BY DEF EndsWith
<1>1. k \in Nat /\ Len(t) \in Nat /\ Len(x) \in Nat /\ k + Len(x) = Len(t)
  OBVIOUS
<1>2. y \in Seq(S) /\ Len(y) = Len(x) /\ \A i \in 1 .. Len(x) : y[i] = t[k + i]
  <2>. HIDE DEF k
  <2>1. k + 1 \in 1 .. Len(t) + 1 /\ Len(t) - (k + 1) + 1 = Len(x)
    BY <1>1
  <2>2. y \in Seq(S)
    BY <2>1, <1>1
  <2>3. Len(y) = Len(x)
    BY <1>1
  <2>4. ASSUME NEW i \in 1 .. Len(x)
        PROVE  y[i] = t[k + i]
    BY <1>1
  <2>. QED
    BY <2>2, <2>3, <2>4
<1>. HIDE DEF y, k
<1>3. y = x => \A i \in 1 .. Len(x) : x[i] = t[k + i]
  BY <1>2
<1>4. (\A i \in 1 .. Len(x) : x[i] = t[k + i]) => y = x
  BY <1>1, <1>2
<1>. QED
  BY <1>3, <1>4

\* The empty string ends every string.
LEMMA EndsEmpty ==
  ASSUME NEW S, NEW t \in Seq(S), NEW x \in Seq(S), x = <<>>
  PROVE  EndsWith(t, x)
<1>1. Len(x) = 0 /\ Len(t) \in Nat
  OBVIOUS
<1>2. Len(x) <= Len(t) /\ \A i \in 1 .. Len(x) : x[i] = t[Len(t) - Len(x) + i]
  BY <1>1
<1>. QED
  BY <1>2, EndsAt

\* A string ends itself.
LEMMA EndsSelf ==
  ASSUME NEW S, NEW t \in Seq(S)
  PROVE  EndsWith(t, t)
<1>1. Len(t) \in Nat /\ \A i \in 1 .. Len(t) : Len(t) - Len(t) + i = i
  OBVIOUS
<1>. QED
  BY <1>1, EndsAt

\* What ends an end, ends the string.
LEMMA EndsTrans ==
  ASSUME NEW S, NEW t \in Seq(S), NEW x \in Seq(S), NEW y \in Seq(S),
         EndsWith(t, x), EndsWith(x, y)
  PROVE  EndsWith(t, y)
<1>1. /\ Len(x) <= Len(t) /\ \A i \in 1 .. Len(x) : x[i] = t[Len(t) - Len(x) + i]
      /\ Len(y) <= Len(x) /\ \A i \in 1 .. Len(y) : y[i] = x[Len(x) - Len(y) + i]
      /\ Len(x) \in Nat /\ Len(y) \in Nat /\ Len(t) \in Nat
  BY EndsAt
<1>2. ASSUME NEW i \in 1 .. Len(y) PROVE y[i] = t[Len(t) - Len(y) + i]
  <2>1. Len(x) - Len(y) + i \in 1 .. Len(x)
    BY <1>1
  <2>2. Len(t) - Len(x) + (Len(x) - Len(y) + i) = Len(t) - Len(y) + i
    BY <1>1
  <2>. QED
    BY <1>1, <2>1, <2>2
<1>. QED
  BY <1>1, <1>2, EndsAt

\* Of two ends of a string, the one that is no longer ends the other.
LEMMA EndsBoth ==
  ASSUME NEW S, NEW t \in Seq(S), NEW x \in Seq(S), NEW y \in Seq(S),
         EndsWith(t, x), EndsWith(t, y), Len(y) <= Len(x)
  PROVE  EndsWith(x, y)
<1>1. /\ Len(x) <= Len(t) /\ \A i \in 1 .. Len(x) : x[i] = t[Len(t) - Len(x) + i]
      /\ \A i \in 1 .. Len(y) : y[i] = t[Len(t) - Len(y) + i]
      /\ Len(x) \in Nat /\ Len(y) \in Nat /\ Len(t) \in Nat
  BY EndsAt
<1>2. ASSUME NEW i \in 1 .. Len(y) PROVE y[i] = x[Len(x) - Len(y) + i]
  <2>1. Len(x) - Len(y) + i \in 1 .. Len(x)
    BY <1>1
  <2>2. Len(t) - Len(x) + (Len(x) - Len(y) + i) = Len(t) - Len(y) + i
    BY <1>1
  <2>. QED
    BY <1>1, <2>1, <2>2
<1>. QED
  BY <1>1, <1>2, EndsAt

\* Only one string of each length ends a string.
LEMMA EndsSame ==
  ASSUME NEW S, NEW t \in Seq(S), NEW x \in Seq(S), NEW y \in Seq(S),
         EndsWith(t, x), EndsWith(t, y), Len(y) = Len(x)
  PROVE  x = y
<1>1. /\ \A i \in 1 .. Len(x) : x[i] = t[Len(t) - Len(x) + i]
      /\ \A i \in 1 .. Len(y) : y[i] = t[Len(t) - Len(y) + i]
  BY EndsAt
<1>2. \A i \in 1 .. Len(x) : x[i] = y[i]
  BY <1>1
<1>. QED
  BY <1>2

\* One more character.
LEMMA EndsMore ==
  ASSUME NEW S, NEW t \in Seq(S), NEW x \in Seq(S), NEW c \in S, NEW d \in S
  PROVE  EndsWith(Append(t, c), Append(x, d)) <=> c = d /\ EndsWith(t, x)
<1>. DEFINE u == Append(t, c)
            y == Append(x, d)
<1>1. /\ u \in Seq(S) /\ Len(u) = Len(t) + 1 /\ u[Len(t) + 1] = c
      /\ \A i \in 1 .. Len(t) : u[i] = t[i]
      /\ y \in Seq(S) /\ Len(y) = Len(x) + 1 /\ y[Len(x) + 1] = d
      /\ \A i \in 1 .. Len(x) : y[i] = x[i]
      /\ Len(t) \in Nat /\ Len(x) \in Nat
  OBVIOUS
<1>. HIDE DEF u, y
<1>2. EndsWith(u, y) <=> Len(y) <= Len(u) /\ \A i \in 1 .. Len(y) : y[i] = u[Len(u) - Len(y) + i]
  <2>1. u \in Seq(S) /\ y \in Seq(S)
    BY <1>1
  <2>. QED
    BY <2>1, EndsAt
<1>3. EndsWith(t, x) <=> Len(x) <= Len(t) /\ \A i \in 1 .. Len(x) : x[i] = t[Len(t) - Len(x) + i]
  BY EndsAt
<1>4. ASSUME Len(x) <= Len(t)
      PROVE  (\A i \in 1 .. Len(y) : y[i] = u[Len(u) - Len(y) + i]) <=>
               c = d /\ \A i \in 1 .. Len(x) : x[i] = t[Len(t) - Len(x) + i]
  <2>1. /\ Len(u) - Len(y) + (Len(x) + 1) = Len(t) + 1 /\ Len(x) + 1 \in 1 .. Len(y)
        /\ \A i \in 1 .. Len(y) : i \in 1 .. Len(x) \/ i = Len(x) + 1
    BY <1>1, <1>4
  <2>2. ASSUME NEW i \in 1 .. Len(x)
        PROVE  /\ i \in 1 .. Len(y)
               /\ y[i] = u[Len(u) - Len(y) + i] <=> x[i] = t[Len(t) - Len(x) + i]
    <3>1. /\ i \in 1 .. Len(y) /\ Len(u) - Len(y) + i = Len(t) - Len(x) + i
          /\ Len(t) - Len(x) + i \in 1 .. Len(t)
      BY <1>1, <1>4
    <3>. QED
      BY <1>1, <3>1
  <2>3. y[Len(x) + 1] = u[Len(u) - Len(y) + (Len(x) + 1)] <=> c = d
    BY <1>1, <2>1
  <2>. QED
    BY <2>1, <2>2, <2>3
<1>5. Len(y) <= Len(u) <=> Len(x) <= Len(t)
  BY <1>1
<1>6. EndsWith(u, y) <=> c = d /\ EndsWith(t, x)
  BY <1>2, <1>3, <1>4, <1>5
<1>. QED
  BY <1>6 DEF u, y

\* What ends a string and is shorter ends the rest of it, and the other way round.
LEMMA EndsTail ==
  ASSUME NEW S, NEW t \in Seq(S), NEW x \in Seq(S), t # <<>>
  PROVE  /\ Tail(t) \in Seq(S) /\ Len(Tail(t)) = Len(t) - 1
         /\ EndsWith(Tail(t), x) <=> EndsWith(t, x) /\ Len(x) < Len(t)
<1>. DEFINE y == Tail(t)
<1>1. /\ y \in Seq(S) /\ Len(y) = Len(t) - 1 /\ Len(t) \in Nat \ {0} /\ Len(x) \in Nat
      /\ \A i \in 1 .. Len(y) : y[i] = t[i + 1]
  OBVIOUS
<1>. HIDE DEF y
<1>2. EndsWith(y, x) <=> Len(x) <= Len(y) /\ \A i \in 1 .. Len(x) : x[i] = y[Len(y) - Len(x) + i]
  BY <1>1, EndsAt, SMTT(30)
<1>3. EndsWith(t, x) <=> Len(x) <= Len(t) /\ \A i \in 1 .. Len(x) : x[i] = t[Len(t) - Len(x) + i]
  BY EndsAt
<1>4. ASSUME Len(x) <= Len(y), NEW i \in 1 .. Len(x)
      PROVE  y[Len(y) - Len(x) + i] = t[Len(t) - Len(x) + i]
  <2>1. Len(y) - Len(x) + i \in 1 .. Len(y) /\ (Len(y) - Len(x) + i) + 1 = Len(t) - Len(x) + i
    BY <1>1, <1>4
  <2>. QED
    BY <1>1, <2>1
<1>5. (Len(x) <= Len(y) <=> Len(x) < Len(t)) /\ (Len(x) < Len(t) => Len(x) <= Len(t))
  BY <1>1
<1>6. EndsWith(y, x) <=> EndsWith(t, x) /\ Len(x) < Len(t)
  BY <1>2, <1>3, <1>4, <1>5
<1>. QED
  BY <1>1, <1>6 DEF y

\* The rest of a string with one more character.
LEMMA TailMore ==
  ASSUME NEW S, NEW t \in Seq(S), NEW c \in S, t # <<>>
  PROVE  Tail(Append(t, c)) = Append(Tail(t), c)
OBVIOUS

-----------------------------------------------------------------------------
(* The longest end of a string that is in the tree *)

\* What is known of the tables.
TreeOK == SpellOK /\ EdgeOK /\ ClosedOK /\ \A n \in Trie : Depth(n) \in Nat

\* Only the root has the empty string.
LEMMA Behind ==
  ASSUME SpellOK
  PROVE  0 \in Trie /\ \A n \in Trie \ {0} : spell[n] # <<>>
<1>1. 0 \in Trie
  BY DEF SpellOK, Trie
<1>. QED
  BY <1>1 DEF SpellOK

\* A state behind the root is a child of the state that it extends.
LEMMA Parent ==
  ASSUME TreeOK, NEW t \in Seq(Symbol), NEW c \in Column,
         NEW m \in Trie \ {0}, EndsWith(Append(t, c), spell[m])
  PROVE  \E q \in Trie : /\ <<q, c>> \in DOMAIN g /\ g[<<q, c>>] = m
                         /\ EndsWith(t, spell[q]) /\ Depth(m) = Depth(q) + 1
<1>. DEFINE x == spell[m]
            i == Len(x)
<1>1. x \in Seq(Symbol) /\ x # <<>> /\ i \in Nat \ {0}
  <2>1. x \in Seq(Symbol) /\ x # <<>>
    BY Behind DEF TreeOK, SpellOK
  <2>. QED
    BY <2>1
<1>2. PICK q \in Trie :
        spell[q] = SubSeq(x, 1, i - 1) /\ <<q, x[i]>> \in DOMAIN g /\ g[<<q, x[i]>>] # 0
  <2>1. m \in Trie /\ i \in 1 .. Len(spell[m])
    BY <1>1
  <2>. HIDE DEF i
  <2>. QED
    BY <2>1 DEF TreeOK, ClosedOK
<1>3. x[i] \in Column /\ spell[q] \in Seq(Symbol) /\ x = Append(spell[q], x[i])
  <2>. HIDE DEF x
  <2>1. i - 1 \in 0 .. Len(x) - 1 /\ (i - 1) + 1 = i
    BY <1>1
  <2>2. /\ SubSeq(x, 1, i) = Append(SubSeq(x, 1, i - 1), x[i])
        /\ SubSeq(x, 1, i - 1) \in Seq(Symbol)
    BY <1>1, <2>1, OneMore
  <2>3. x[i] \in Column
    BY <1>2 DEF TreeOK, EdgeOK
  <2>. QED
    BY <1>1, <1>2, <2>2, <2>3, Whole
<1>4. x[i] = c /\ EndsWith(t, spell[q])
  <2>1. EndsWith(Append(t, c), Append(spell[q], x[i]))
    BY <1>3
  <2>2. x[i] \in Symbol /\ c \in Symbol
    BY <1>3, Symbols
  <2>. QED
    BY <2>1, <2>2, <1>3, EndsMore
<1>5. g[<<q, x[i]>>] \in Trie /\ spell[g[<<q, x[i]>>]] = Append(spell[q], x[i])
  BY <1>2, <1>3 DEF TreeOK, EdgeOK
<1>6. g[<<q, x[i]>>] = m
  BY <1>3, <1>5 DEF TreeOK, SpellOK
<1>7. Depth(m) = Depth(q) + 1
  BY <1>3, BeginsLast DEF Depth
<1>. QED
  BY <1>2, <1>4, <1>6, <1>7

\* The longest end of a string is where to look for one with a character more.
LEMMA NearBegins ==
  ASSUME TreeOK, NEW t \in Seq(Symbol), NEW c \in Column, NEW p \in Trie, Best(t, p)
  PROVE  Near(t, c, p)
<1>1. ASSUME NEW m \in Trie, EndsWith(Append(t, c), spell[m]) PROVE Depth(m) <= Depth(p) + 1
  <2>1. CASE m = 0
    BY <2>1 DEF TreeOK, SpellOK, Depth
  <2>2. CASE m # 0
    <3>. m \in Trie \ {0}
      BY <2>2
    <3>1. PICK q \in Trie :
            /\ <<q, c>> \in DOMAIN g /\ g[<<q, c>>] = m
            /\ EndsWith(t, spell[q]) /\ Depth(m) = Depth(q) + 1
      BY <1>1, Parent, ZenonT(40)
    <3>. QED
      BY <3>1 DEF Best, TreeOK
  <2>. QED
    BY <2>1, <2>2
<1>. QED
  BY <1>1 DEF Best, Near

\* Where there is no edge, the failure link leads to the next longest.
LEMMA NearFails ==
  ASSUME TreeOK, NEW t \in Seq(Symbol), NEW c \in Column, NEW p \in Trie \ {0},
         Near(t, c, p), <<p, c>> \notin DOMAIN g,
         fail[p] \in Trie, Best(Tail(spell[p]), fail[p])
  PROVE  Near(t, c, fail[p])
<1>1. /\ spell[p] \in Seq(Symbol) /\ spell[p] # <<>> /\ spell[fail[p]] \in Seq(Symbol)
      /\ \A m \in Trie : spell[m] \in Seq(Symbol)
  BY Behind DEF TreeOK, SpellOK
<1>2. EndsWith(spell[p], spell[fail[p]])
  BY <1>1, EndsTail DEF Best
<1>3. EndsWith(t, spell[fail[p]])
  BY <1>1, <1>2, EndsTrans DEF Near
<1>4. ASSUME NEW m \in Trie, EndsWith(Append(t, c), spell[m]) PROVE Depth(m) <= Depth(fail[p]) + 1
  <2>1. CASE m = 0
    BY <2>1 DEF TreeOK, SpellOK, Depth
  <2>2. CASE m # 0
    <3>. m \in Trie \ {0}
      BY <2>2
    <3>1. PICK q \in Trie :
            <<q, c>> \in DOMAIN g /\ EndsWith(t, spell[q]) /\ Depth(m) = Depth(q) + 1
      BY <1>4, Parent
    <3>2. Depth(q) <= Depth(p)
      BY <1>4, <3>1 DEF Near, TreeOK
    <3>3. Depth(q) # Depth(p)
      <4>. SUFFICES ASSUME Depth(q) = Depth(p) PROVE FALSE
        OBVIOUS
      <4>1. spell[q] = spell[p]
        BY <1>1, <3>1, EndsSame DEF Near, Depth
      <4>. QED
        BY <3>1, <4>1 DEF TreeOK, SpellOK
    <3>4. EndsWith(spell[p], spell[q])
      BY <1>1, <3>1, <3>2, EndsBoth DEF Near, Depth
    <3>5. Len(spell[q]) < Len(spell[p])
      BY <3>2, <3>3 DEF Depth, TreeOK
    <3>6. EndsWith(Tail(spell[p]), spell[q])
      BY <1>1, <3>4, <3>5, EndsTail
    <3>. QED
      BY <3>1, <3>6 DEF Best, TreeOK
  <2>. QED
    BY <2>1, <2>2
<1>. QED
  BY <1>3, <1>4 DEF Near

\* Where there is an edge, it leads to the longest.
LEMMA NearTakes ==
  ASSUME TreeOK, NEW t \in Seq(Symbol), NEW c \in Column, NEW p \in Trie,
         Near(t, c, p), <<p, c>> \in DOMAIN g
  PROVE  g[<<p, c>>] \in Trie /\ Best(Append(t, c), g[<<p, c>>])
<1>. DEFINE n == g[<<p, c>>]
<1>1. /\ n \in Trie /\ (n = 0 => p = 0) /\ (n # 0 => spell[n] = Append(spell[p], c))
      /\ spell[p] \in Seq(Symbol) /\ Append(t, c) \in Seq(Symbol) /\ spell[0] = <<>>
  BY Symbols DEF TreeOK, EdgeOK, SpellOK
<1>. HIDE DEF n
<1>2. CASE n # 0
  <2>1. EndsWith(Append(t, c), Append(spell[p], c))
    BY <1>1, EndsMore DEF Near
  <2>2. Depth(n) = Depth(p) + 1
    BY <1>1, <1>2, BeginsLast DEF Depth
  <2>. QED
    BY <1>1, <1>2, <2>1, <2>2 DEF Near, Best, n
<1>3. CASE n = 0
  <2>1. EndsWith(Append(t, c), spell[n])
    <3>1. spell[n] \in Seq(Symbol) /\ spell[n] = <<>>
      BY <1>1, <1>3 DEF TreeOK, SpellOK
    <3>. QED
      BY <1>1, <3>1, EndsEmpty
  <2>2. ASSUME NEW m \in Trie, EndsWith(Append(t, c), spell[m]) PROVE m = 0
    <3>. SUFFICES ASSUME m # 0 PROVE FALSE
      OBVIOUS
    <3>. m \in Trie \ {0}
      OBVIOUS
    <3>1. PICK q \in Trie :
            /\ <<q, c>> \in DOMAIN g /\ g[<<q, c>>] = m
            /\ EndsWith(t, spell[q]) /\ Depth(m) = Depth(q) + 1
      BY <2>2, Parent, ZenonT(40)
    <3>2. Depth(0) = 0 /\ Depth(m) <= Depth(0) + 1
      BY <1>1, <1>3, <2>2 DEF Near, Depth
    <3>3. Depth(q) = 0
      BY <3>1, <3>2 DEF TreeOK
    <3>4. spell[q] = <<>>
      <4>1. spell[q] \in Seq(Symbol) /\ Len(spell[q]) = 0
        BY <3>3 DEF TreeOK, SpellOK, Depth
      <4>. QED
        BY <4>1
    <3>5. q = 0
      BY <1>1, <1>3, <3>4 DEF TreeOK, SpellOK
    <3>. QED
      BY <1>1, <1>3, <3>1, <3>5 DEF n
  <2>3. ASSUME NEW m \in Trie, EndsWith(Append(t, c), spell[m]) PROVE Depth(m) <= Depth(n)
    <3>1. m = n
      BY <1>3, <2>2, <2>3
    <3>2. Depth(n) \in Nat
      BY <1>1 DEF TreeOK
    <3>. QED
      BY <3>1, <3>2
  <2>4. Best(Append(t, c), n)
    BY <2>1, <2>3 DEF Best
  <2>. QED
    BY <1>1, <2>4 DEF n
<1>. QED
  BY <1>2, <1>3

-----------------------------------------------------------------------------
(* Counting and inserting *)

\* The tables, in every phase that has them.
LEMMA TreeIs ==
  ASSUME Sound, acs \in After
  PROVE  TreeOK
BY DepthIs DEF Sound, TreeOK

\* Nothing is claimed of a machine that has no tables.
LEMMA NoTables ==
  ASSUME acs' \notin After
  PROVE  Deep'
BY DEF Deep, MatchOK, After

\* What is known of out stays true while it is left alone.
LEMMA OutKept ==
  ASSUME OutOK, UNCHANGED <<keywords, upto, j, word, out, spell>>
  PROVE  OutOK'
BY DEF OutOK, State, Trie, max_states

\* The tables begin without bits and links.
LEMMA CountDoneDeep ==
  ASSUME CountOK, Sound, Sound', CountDone, acs' = "insert", keywords' = keywords
  PROVE  Deep'
<1>1. /\ out' = [n \in State |-> {}] /\ fail' = [n \in State |-> -1]
      /\ word' = 1 /\ State' = State
  BY DEF CountDone, counters, Sound, StartOK, State, max_states
<1>2. 0 \in Trie' /\ Trie' = {0}
  BY DEF CountDone, counters, Sound, StartOK, Trie
<1>3. OutOK'
  <2>1. out' \in [State' -> SUBSET Nat]
    BY <1>1
  <2>2. 1 .. word' - 1 = {}
    BY <1>1
  <2>3. \A n \in State' : out'[n] = {}
    BY <1>1
  <2>4. 0 \in State'
    <3>1. j' \in 1 .. max_states' /\ max_states' = max_states
      BY DEF Sound, After, SpellOK, CountDone, counters, max_states
    <3>2. max_states \in Nat
      BY DEF CountOK, max_states
    <3>. QED
      BY <3>1, <3>2 DEF State
  <2>. QED
    BY <1>2, <2>1, <2>2, <2>3, <2>4 DEF OutOK
<1>. QED
  BY <1>1, <1>3 DEF Deep, MatchOK

\* A new state has no bits yet.
LEMMA InsertNewDeep ==
  ASSUME CountOK, Sound, Sound', InsertNew, Deep, keywords' = keywords
  PROVE  Deep'
<1>1. /\ acs = "insert" /\ acs' = "insert" /\ j' = j + 1
      /\ spell' = With(spell, j, Append(spell[state], Next_s))
      /\ UNCHANGED <<keywords, upto, word, out, fail>>
  BY DEF InsertNew, Inserting
<1>2. OutOK /\ SpellOK /\ SpellOK' /\ j \in Nat
  BY <1>1 DEF Deep, Sound, After, CountOK
<1>3. /\ State' = State /\ Trie' = Trie \cup {j} /\ j \notin Trie /\ j \in State
      /\ \A n \in Trie : spell'[n] = spell[n]
  <2>1. max_states' = max_states /\ State' = State
    BY <1>1 DEF State, max_states
  <2>2. j + 1 \in 1 .. max_states /\ j \in 1 .. max_states /\ max_states \in Nat
    BY <1>1, <1>2, <2>1, InsertAt DEF SpellOK, InsertNew
  <2>3. j \in State /\ Trie' = Trie \cup {j} /\ j \notin Trie
    BY <1>1, <1>2, <2>2 DEF State, Trie
  <2>4. \A n \in Trie : spell'[n] = spell[n]
    BY <1>1, <1>2, <2>3 DEF SpellOK, With
  <2>. QED
    BY <2>1, <2>3, <2>4
<1>4. OutOK'
  <2>1. out[j] = {}
    BY <1>2, <1>3 DEF OutOK
  <2>2. ASSUME NEW n \in Trie', NEW b \in out'[n]
        PROVE  \E w \in DOMAIN keywords' : EndsWith(spell'[n], keywords'[w])
    <3>1. n \in Trie /\ b \in out[n]
      BY <2>1, <2>2, <1>1, <1>3
    <3>. QED
      BY <3>1, <1>1, <1>2, <1>3 DEF OutOK
  <2>3. ASSUME NEW w \in 1 .. word' - 1, w <= OutBits
        PROVE  \E n \in Trie' : spell'[n] = keywords'[w] /\ w - 1 \in out'[n]
    BY <2>3, <1>1, <1>2, <1>3 DEF OutOK
  <2>4. out' \in [State' -> SUBSET Nat] /\ \A n \in State' \ Trie' : out'[n] = {}
    BY <1>1, <1>2, <1>3 DEF OutOK
  <2>. QED
    BY <2>2, <2>3, <2>4 DEF OutOK
<1>. QED
  BY <1>1, <1>3, <1>4 DEF Deep, MatchOK

\* At the end of a keyword its bit is set.
LEMMA InsertWordDeep ==
  ASSUME CountOK, Sound, InsertWord, Deep, keywords' = keywords
  PROVE  Deep'
<1>1. /\ Inserting /\ acs = "insert" /\ acs' = "insert"
      /\ word' = word + 1 /\ s = Len(keywords[word])
      /\ UNCHANGED <<keywords, upto, j, fail, spell>>
  BY DEF InsertWord, Inserting
<1>2. PICK bits \in Bits(word) : out' = [out EXCEPT ![state] = @ \cup bits]
  BY DEF InsertWord
<1>3. /\ OutOK /\ SpellOK /\ word \in 1 .. Len(keywords) /\ state \in Trie /\ state \in State
      /\ keywords[word] \in Seq(Symbol) /\ spell[state] = keywords[word]
      /\ Trie' = Trie /\ State' = State /\ Trie \subseteq State
  <2>1. /\ word \in 1 .. Len(keywords) /\ state \in Trie /\ SpellOK
        /\ keywords[word] \in Seq(Symbol) /\ spell[state] = SubSeq(keywords[word], 1, s)
    BY <1>1, InsertAt
  <2>2. spell[state] = keywords[word]
    BY <1>1, <2>1, Whole
  <2>. QED
    BY <1>1, <2>1, <2>2, TrieInState DEF Deep, After, Trie, State, max_states
<1>4. bits \subseteq Nat /\ (word <= OutBits => word - 1 \in bits)
  <2>1. \A b \in 0 .. OutBits - 1 : b \in Nat
    BY WidthAssumption
  <2>2. bits \subseteq 0 .. OutBits - 1
    BY <1>2 DEF Bits
  <2>3. ASSUME word <= OutBits PROVE word - 1 \in bits
    <3>1. word <= IntBits /\ word - 1 \in 0 .. OutBits - 1
      BY <1>3, <2>3, WidthAssumption, BitsAssumption
    <3>2. bits = {word - 1} \cap 0 .. OutBits - 1
      BY <1>2, <3>1 DEF Bits
    <3>. QED
      BY <3>1, <3>2
  <2>. QED
    BY <2>1, <2>2, <2>3
<1>5. /\ out' \in [State -> SUBSET Nat] /\ out'[state] = out[state] \cup bits
      /\ \A n \in State \ {state} : out'[n] = out[n]
  <2>1. out \in [State -> SUBSET Nat] /\ out[state] \cup bits \in SUBSET Nat
    BY <1>3, <1>4 DEF OutOK
  <2>. QED
    BY <1>2, <1>3, <2>1
<1>6. OutOK'
  <2>1. ASSUME NEW n \in Trie, NEW b \in out'[n]
        PROVE  \E w \in DOMAIN keywords : EndsWith(spell[n], keywords[w])
    <3>1. CASE b \in out[n]
      BY <3>1, <1>3 DEF OutOK
    <3>2. CASE b \notin out[n]
      <4>1. n = state
        BY <3>2, <1>3, <1>5, <2>1
      <4>2. EndsWith(spell[n], keywords[word])
        BY <4>1, <1>3, EndsSelf
      <4>. QED
        BY <4>2, <1>3 DEF CountOK
    <3>. QED
      BY <3>1, <3>2
  <2>2. ASSUME NEW w \in 1 .. word' - 1, w <= OutBits
        PROVE  \E n \in Trie : spell[n] = keywords[w] /\ w - 1 \in out'[n]
    <3>1. CASE w = word
      BY <3>1, <2>2, <1>3, <1>4, <1>5
    <3>2. CASE w # word
      <4>1. w \in 1 .. word - 1
        BY <3>2, <1>1, <1>3
      <4>2. PICK n \in Trie : spell[n] = keywords[w] /\ w - 1 \in out[n]
        BY <4>1, <2>2, <1>3 DEF OutOK
      <4>3. w - 1 \in out'[n]
        BY <4>2, <1>3, <1>5
      <4>. QED
        BY <4>2, <4>3
    <3>. QED
      BY <3>1, <3>2
  <2>3. \A n \in State \ Trie : out'[n] = {}
    BY <1>3, <1>5 DEF OutOK
  <2>. QED
    BY <1>1, <1>3, <1>5, <2>1, <2>2, <2>3 DEF OutOK
<1>. QED
  BY <1>1, <1>3, <1>6 DEF Deep, MatchOK

\* An insertion goes on, or is the last: no state has a link yet.
LEMMA InsertedDeep ==
  ASSUME CountOK, Sound, InsertOld \/ InsertDone, Deep, keywords' = keywords
  PROVE  Deep'
<1>1. /\ acs = "insert"
      /\ \/ acs' = "insert"
         \/ acs' = "root" /\ word > Len(keywords)
      /\ UNCHANGED <<keywords, upto, j, word, fail, out, spell>>
  BY DEF InsertOld, Inserting, InsertDone, counters, tables
<1>2. OutOK /\ SpellOK /\ InsertOK /\ \A n \in State : fail[n] = -1
  BY <1>1 DEF Deep, Sound, After
<1>3. OutOK' /\ State' = State /\ Trie' = Trie
  BY <1>1, <1>2, OutKept DEF State, Trie, max_states
<1>4. acs' = "root" => LinksOK'
  <2>1. Trie \subseteq State
    BY <1>2, TrieInState
  <2>2. \A n \in Trie : ~Linked(n)'
    BY <1>1, <1>2, <1>3, <2>1 DEF Linked, Trie
  <2>3. acs' = "root" => word' = Len(keywords') + 1
    BY <1>1, <1>2 DEF InsertOK, CountOK
  <2>. QED
    BY <1>3, <2>2, <2>3 DEF LinksOK
<1>. QED
  BY <1>1, <1>2, <1>3, <1>4 DEF Deep, MatchOK

-----------------------------------------------------------------------------
(* The links *)

\* What is known of the links stays true while the tables are left alone.
LEMMA LinksKept ==
  ASSUME LinksOK, UNCHANGED <<keywords, j, word, fail, out, spell>>
  PROVE  LinksOK'
<1>1. Trie' = Trie
  BY DEF Trie
<1>2. ASSUME NEW n \in Trie' \ {0}, Linked(n)'
      PROVE  Best(Tail(spell[n]), fail[n])' /\ Complete(n)'
  <2>1. Linked(n)
    BY <1>1, <1>2 DEF Linked, Depth
  <2>2. Best(Tail(spell[n]), fail[n]) /\ Complete(n)
    BY <1>1, <2>1 DEF LinksOK
  <2>. QED
    BY <1>1, <2>2 DEF Best, Complete, Depth
<1>. QED
  BY <1>2 DEF LinksOK

\* A state gets its link, and the bits of the state that it leads to.
LEMMA LinkingDeep ==
  ASSUME CountOK, TreeOK, OutOK, LinksOK,
         NEW n \in Trie \ {0}, NEW l \in Trie, Best(Tail(spell[n]), l),
         NEW B \in SUBSET out[l], l = 0 \/ (Linked(l) /\ B = out[l]), l # n,
         fail' = [fail EXCEPT ![n] = l], out' = [out EXCEPT ![n] = @ \cup B],
         UNCHANGED <<keywords, upto, j, word, spell>>
  PROVE  OutOK' /\ LinksOK'
<1>1. /\ Trie' = Trie /\ State' = State /\ 0 \in Trie /\ n \in State /\ l \in State
      /\ Trie \subseteq State /\ word = Len(keywords) + 1 /\ Len(keywords) \in Nat
  BY TrieInState, SMTT(30) DEF Trie, State, max_states, LinksOK, TreeOK, CountOK
<1>2. /\ out' \in [State -> SUBSET Nat] /\ out'[n] = out[n] \cup B
      /\ \A m \in State \ {n} : out'[m] = out[m]
  <2>1. out \in [State -> SUBSET Nat] /\ out[n] \cup B \in SUBSET Nat
    BY <1>1 DEF OutOK
  <2>. QED
    BY <1>1, <2>1
<1>3. fail'[n] = l /\ \A m \in Trie \ {n} : fail'[m] = fail[m]
  BY <1>1 DEF TreeOK, SpellOK
<1>4. /\ \A m \in Trie : spell[m] \in Seq(Symbol)
      /\ \A w \in DOMAIN keywords : keywords[w] \in Seq(Symbol) /\ w \in 1 .. word - 1
  <2>1. \A m \in Trie : spell[m] \in Seq(Symbol)
    BY DEF TreeOK, SpellOK
  <2>2. keywords \in Seq(Seq(Symbol)) /\ word - 1 = Len(keywords)
    BY <1>1 DEF CountOK
  <2>. QED
    BY <2>1, <2>2
<1>5. /\ spell[n] # <<>> /\ spell[n] \in Seq(Symbol) /\ spell[l] \in Seq(Symbol)
      /\ Tail(spell[n]) \in Seq(Symbol)
      /\ EndsWith(Tail(spell[n]), spell[l]) /\ EndsWith(spell[n], spell[l])
  <2>1. spell[n] # <<>> /\ spell[n] \in Seq(Symbol) /\ spell[l] \in Seq(Symbol)
    BY <1>4, Behind DEF TreeOK
  <2>2. EndsWith(Tail(spell[n]), spell[l])
    BY DEF Best
  <2>. QED
    BY <2>1, <2>2, EndsTail
<1>6. OutOK'
  <2>1. ASSUME NEW m \in Trie, NEW b \in out'[m]
        PROVE  \E w \in DOMAIN keywords : EndsWith(spell[m], keywords[w])
    <3>1. CASE b \in out[m]
      BY <3>1 DEF OutOK
    <3>2. CASE b \notin out[m]
      <4>1. m = n /\ b \in out[l]
        BY <3>2, <2>1, <1>1, <1>2
      <4>2. PICK w \in DOMAIN keywords : EndsWith(spell[l], keywords[w])
        BY <4>1 DEF OutOK
      <4>3. EndsWith(spell[m], keywords[w])
        BY <4>1, <4>2, <1>4, <1>5, EndsTrans
      <4>. QED
        BY <4>3
    <3>. QED
      BY <3>1, <3>2
  <2>2. ASSUME NEW w \in 1 .. word - 1, w <= OutBits
        PROVE  \E m \in Trie : spell[m] = keywords[w] /\ w - 1 \in out'[m]
    <3>1. PICK m \in Trie : spell[m] = keywords[w] /\ w - 1 \in out[m]
      BY <2>2 DEF OutOK
    <3>2. w - 1 \in out'[m]
      BY <3>1, <1>1, <1>2
    <3>. QED
      BY <3>1, <3>2
  <2>3. \A m \in State \ Trie : out'[m] = {}
    BY <1>1, <1>2 DEF OutOK
  <2>. QED
    BY <1>1, <1>2, <2>1, <2>2, <2>3 DEF OutOK
<1>7. ASSUME NEW w \in DOMAIN keywords, w <= OutBits, keywords[w] # <<>>,
             EndsWith(spell[n], keywords[w])
      PROVE  w - 1 \in out'[n]
  <2>1. PICK m \in Trie : spell[m] = keywords[w] /\ w - 1 \in out[m]
    BY <1>4, <1>7 DEF OutOK
  <2>2. CASE m = n
    BY <2>1, <2>2, <1>2
  <2>3. CASE m # n
    <3>1. spell[m] # spell[n]
      BY <2>3 DEF TreeOK, SpellOK
    <3>2. spell[m] \in Seq(Symbol) /\ EndsWith(spell[n], spell[m])
      BY <2>1, <1>4, <1>7
    <3>3. Len(spell[m]) # Len(spell[n])
      BY <3>1, <3>2, <1>5, EndsSelf, EndsSame
    <3>4. Len(spell[m]) < Len(spell[n])
      BY <3>2, <3>3, <1>5, EndsAt
    <3>5. EndsWith(Tail(spell[n]), spell[m])
      BY <3>2, <3>4, <1>5, EndsTail
    <3>6. Depth(m) <= Depth(l)
      BY <3>5 DEF Best
    <3>7. l # 0
      <4>1. Depth(m) # 0
        BY <2>1, <3>2, <1>7 DEF Depth
      <4>2. Depth(0) = 0 /\ Depth(m) \in Nat
        BY <1>1 DEF TreeOK, SpellOK, Depth
      <4>. QED
        BY <3>6, <4>1, <4>2
    <3>8. EndsWith(spell[l], keywords[w])
      <4>1. EndsWith(spell[l], spell[m])
        BY <3>2, <3>5, <3>6, <1>5, EndsBoth DEF Depth
      <4>. QED
        BY <4>1, <2>1
    <3>9. w - 1 \in out[l] /\ B = out[l]
      BY <3>7, <3>8, <1>7 DEF LinksOK, Complete
    <3>. QED
      BY <3>9, <1>2
  <2>. QED
    BY <2>2, <2>3
<1>8. ASSUME NEW m \in Trie' \ {0}, Linked(m)'
      PROVE  Best(Tail(spell[m]), fail[m])' /\ Complete(m)'
  <2>1. CASE m = n
    <3>1. Best(Tail(spell[m]), fail[m])'
      BY <2>1, <1>1, <1>3 DEF Best, Depth
    <3>2. Complete(m)'
      BY <2>1, <1>7 DEF Complete
    <3>. QED
      BY <3>1, <3>2
  <2>2. CASE m # n
    <3>1. Linked(m)
      BY <2>2, <1>1, <1>3, <1>8 DEF Linked, Depth
    <3>2. Best(Tail(spell[m]), fail[m]) /\ Complete(m)
      BY <1>1, <3>1 DEF LinksOK
    <3>3. Best(Tail(spell[m]), fail[m])'
      BY <2>2, <3>2, <1>1, <1>3 DEF Best, Depth
    <3>4. Complete(m)'
      BY <2>2, <3>2, <1>1, <1>2 DEF Complete
    <3>. QED
      BY <3>3, <3>4
  <2>. QED
    BY <2>1, <2>2
<1>. QED
  BY <1>1, <1>6, <1>8 DEF LinksOK

\* The children of the root have the root for their link.
LEMMA RootColumnDeep ==
  ASSUME CountOK, Sound, RootColumn, Deep, keywords' = keywords
  PROVE  Deep'
<1>1. /\ acs = "root" /\ acs' = "root" /\ todo # {}
      /\ UNCHANGED <<keywords, upto, j, word, out, spell>>
  BY DEF RootColumn, counters
<1>2. TreeOK /\ OutOK /\ LinksOK /\ RootOK /\ 0 \in Trie /\ column \in todo /\ column \in Column
  <2>1. TreeOK /\ OutOK /\ LinksOK /\ RootOK /\ todo \subseteq Column
    BY <1>1, TreeIs DEF Deep, After, Sound, QueueOK, Ordered, Looping
  <2>. QED
    BY <1>1, <2>1, ColumnToCome, Behind DEF TreeOK
<1>3. CASE <<0, column>> \in DOMAIN g
  <2>. DEFINE n == g[<<0, column>>]
  <2>1. /\ n \in Trie \ {0} /\ spell[n] = Append(spell[0], column) /\ spell[0] = <<>>
        /\ n \in State
    <3>1. n # 0
      BY <1>1, <1>2, <1>3 DEF RootOK
    <3>. QED
      BY <3>1, <1>2, <1>3, TrieInState DEF TreeOK, EdgeOK, SpellOK
  <2>2. PICK B \in SUBSET out[0] : B = {}
    OBVIOUS
  <2>3. fail' = [fail EXCEPT ![n] = 0] /\ out' = [out EXCEPT ![n] = @ \cup B]
    <3>1. out = [out EXCEPT ![n] = @ \cup B]
      BY <1>2, <2>1, <2>2 DEF OutOK
    <3>. QED
      BY <3>1, <1>1, <1>3 DEF RootColumn
  <2>. HIDE DEF n
  <2>4. Best(Tail(spell[n]), 0)
    <3>1. Tail(spell[n]) = <<>>
      BY <2>1, <1>2
    <3>2. EndsWith(<<>>, <<>>)
      BY DEF EndsWith
    <3>3. ASSUME NEW m \in Trie, EndsWith(<<>>, spell[m]) PROVE Depth(m) <= Depth(0)
      <4>1. Depth(m) <= 0
        BY <3>3 DEF EndsWith, Depth
      <4>2. Depth(0) = 0
        BY <2>1 DEF Depth
      <4>. QED
        BY <4>1, <4>2
    <3>. QED
      BY <3>1, <3>2, <3>3, <2>1 DEF Best
  <2>5. OutOK' /\ LinksOK'
    BY <1>1, <1>2, <2>1, <2>3, <2>4, LinkingDeep
  <2>. QED
    BY <1>1, <2>5 DEF Deep, MatchOK
<1>4. CASE <<0, column>> \notin DOMAIN g
  <2>1. OutOK' /\ LinksOK'
    BY <1>1, <1>2, <1>4, OutKept, LinksKept DEF RootColumn
  <2>. QED
    BY <1>1, <2>1 DEF Deep, MatchOK
<1>. QED
  BY <1>3, <1>4

\* A state is begun, or done with; the first link to follow is its own.
LEMMA ColumnDeep ==
  ASSUME CountOK, Sound, Deep, keywords' = keywords,
         RootDone \/ Dequeue \/ NextColumn \/ ColumnsDone \/ Built
  PROVE  Deep'
<1>1. /\ acs \in {"root", "queue", "columns"} /\ acs' \in {"queue", "columns", "follow", "built"}
      /\ UNCHANGED <<keywords, upto, j, word, fail, out, spell>>
  BY DEF RootDone, Dequeue, NextColumn, ColumnsDone, Built, Turn, counters, tables
<1>2. TreeOK /\ OutOK /\ LinksOK
  BY <1>1, TreeIs DEF Deep, After
<1>3. OutOK' /\ LinksOK'
  BY <1>1, <1>2, OutKept, LinksKept
<1>4. ASSUME acs' = "follow" PROVE Near(Tail(spell[state]), column, f)'
  <2>1. acs = "columns" /\ todo # {} /\ f' = fail[state] /\ UNCHANGED <<j, spell, state, todo>>
    BY <1>4 DEF RootDone, Dequeue, NextColumn, ColumnsDone, Built, Turn, counters, tables
  <2>2. /\ Waiting /\ Ordered /\ Looping /\ state \in Trie \ {0} /\ column \in Column
        /\ SpellOK /\ EdgeOK
    <3>1. Waiting /\ Ordered /\ Looping /\ state \in Trie \ {0} /\ todo \subseteq Column
      BY <2>1 DEF Sound, QueueOK, Ordered, Looping
    <3>. QED
      BY <2>1, <3>1, <1>2, ColumnToCome DEF TreeOK
  <2>3. Linked(state)
    BY <2>2, <1>2, NearLinked DEF TreeOK
  <2>4. /\ Best(Tail(spell[state]), fail[state]) /\ fail[state] \in Trie
        /\ Tail(spell[state]) \in Seq(Symbol)
    <3>1. spell[state] \in Seq(Symbol) /\ spell[state] # <<>>
      BY <2>2, Behind DEF SpellOK
    <3>. QED
      BY <2>2, <2>3, <3>1, <1>2, EndsTail DEF LinksOK, Linked
  <2>5. Near(Tail(spell[state]), column, fail[state])
    BY <2>2, <2>4, <1>2, NearBegins
  <2>6. column' = column /\ Trie' = Trie
    BY <2>1 DEF column, Trie
  <2>. QED
    BY <2>1, <2>5, <2>6 DEF Near, Depth
<1>. QED
  BY <1>1, <1>3, <1>4 DEF Deep, MatchOK, After

\* The link is followed.
LEMMA FollowDeep ==
  ASSUME CountOK, Sound, Deep, Follow, keywords' = keywords
  PROVE  Deep'
<1>1. /\ acs = "follow" /\ acs' = "follow" /\ <<f, column>> \notin DOMAIN g /\ f' = fail[f]
      /\ UNCHANGED <<keywords, upto, j, word, fail, out, spell, state, todo>>
  BY DEF Follow, counters, tables
<1>2. /\ TreeOK /\ OutOK /\ LinksOK /\ Near(Tail(spell[state]), column, f)
  BY <1>1, TreeIs DEF Deep, After
<1>3. /\ Waiting /\ Ordered /\ Looping /\ SpellOK /\ EdgeOK
      /\ state \in Trie \ {0} /\ column \in Column
      /\ f \in Trie \ {0} /\ Depth(f) <= Depth(state)
  BY <1>1, FollowAt
<1>4. Linked(f)
  BY <1>3, NearLinked
<1>5. fail[f] \in Trie /\ Best(Tail(spell[f]), fail[f])
  BY <1>2, <1>3, <1>4 DEF LinksOK, Linked
<1>6. Tail(spell[state]) \in Seq(Symbol)
  <2>1. spell[state] \in Seq(Symbol) /\ spell[state] # <<>>
    BY <1>3, Behind DEF SpellOK
  <2>. QED
    BY <2>1, EndsTail
<1>7. Near(Tail(spell[state]), column, fail[f])
  BY <1>1, <1>2, <1>3, <1>5, <1>6, NearFails
<1>8. Near(Tail(spell[state]), column, f)'
  <2>1. column' = column /\ Trie' = Trie
    BY <1>1 DEF column, Trie
  <2>. QED
    BY <1>1, <1>7, <2>1 DEF Near, Depth
<1>9. OutOK' /\ LinksOK'
  BY <1>1, <1>2, OutKept, LinksKept
<1>. QED
  BY <1>1, <1>8, <1>9 DEF Deep, MatchOK

\* The link is found.
LEMMA LinkDeep ==
  ASSUME CountOK, Narrow, Sound, Deep, Link, keywords' = keywords
  PROVE  Deep'
<1>. DEFINE n == g[<<state, column>>]
            l == g[<<f, column>>]
<1>1. /\ acs = "follow" /\ acs' = "columns" /\ <<f, column>> \in DOMAIN g
      /\ UNCHANGED <<keywords, upto, j, word, spell>>
  BY DEF Link, counters
<1>2. TreeOK /\ OutOK /\ LinksOK /\ Near(Tail(spell[state]), column, f)
  BY <1>1, TreeIs DEF Deep, After
<1>3. /\ Waiting /\ Ordered /\ Looping /\ SpellOK /\ EdgeOK
      /\ state \in Trie \ {0} /\ column \in Column
      /\ f \in Trie /\ Depth(f) < Depth(state) /\ Depth(state) \in Nat /\ Depth(f) \in Nat
      /\ <<state, column>> \in DOMAIN g
  BY <1>1, FollowAt
<1>4. /\ n \in Trie \ {0} /\ spell[n] = Append(spell[state], column)
      /\ spell[state] \in Seq(Symbol) /\ spell[state] # <<>>
      /\ Tail(spell[state]) \in Seq(Symbol)
  <2>1. spell[state] \in Seq(Symbol) /\ spell[state] # <<>>
    BY <1>3, Behind DEF SpellOK
  <2>. QED
    BY <1>3, <2>1, EndsTail DEF EdgeOK
<1>5. l \in Trie /\ Best(Append(Tail(spell[state]), column), l)
  BY <1>1, <1>2, <1>3, <1>4, NearTakes
<1>6. Best(Tail(spell[n]), l)
  <2>1. Tail(spell[n]) = Append(Tail(spell[state]), column)
    BY <1>3, <1>4, TailMore, Symbols
  <2>. QED
    BY <1>5, <2>1
<1>7. Depth(n) = Depth(state) + 1 /\ Depth(l) <= Depth(state)
  <2>1. Depth(n) = Depth(state) + 1
    BY <1>3, <1>4, DepthIs
  <2>2. CASE l = 0
    BY <2>1, <2>2, <1>3, DepthIs
  <2>3. CASE l # 0
    <3>1. Depth(l) = Depth(f) + 1
      BY <2>3, <1>1, <1>3, DepthIs
    <3>. QED
      BY <2>1, <3>1, <1>3
  <2>. QED
    BY <2>1, <2>2, <2>3
<1>8. l # n /\ (l = 0 \/ Linked(l))
  <2>1. l # n
    BY <1>3, <1>7
  <2>2. ASSUME l # 0 PROVE Linked(l)
    <3>1. l \in Trie \ {0} /\ Depth(l) <= Depth(state)
      BY <2>2, <1>5, <1>7
    <3>. HIDE DEF l
    <3>. QED
      BY <3>1, <1>3, NearLinked
  <2>. QED
    BY <2>1, <2>2
<1>9. fail' = [fail EXCEPT ![n] = l] /\ out' = [out EXCEPT ![n] = @ \cup out[l]]
  <2>1. Int8(l) = l
    BY <1>5, NoWrap DEF CountOK
  <2>. QED
    BY <2>1 DEF Link
<1>10. OutOK' /\ LinksOK'
  <2>. HIDE DEF n, l
  <2>. QED
    BY <1>1, <1>2, <1>4, <1>5, <1>6, <1>8, <1>9, LinkingDeep
<1>. QED
  BY <1>1, <1>10 DEF Deep, MatchOK

-----------------------------------------------------------------------------
(* Matching *)

\* A string is begun, or its result used.
LEMMA BetweenDeep ==
  ASSUME CountOK, Sound, Deep, keywords' = keywords,
         MatchEnd \/ MatchReturns \/ \E t \in Seq(Symbol) : StringMatches(t)
  PROVE  Deep'
<1>1. /\ \/ acs = "match" /\ acs' = "miss" /\ s = Len(text) /\ UNCHANGED <<s, text>>
         \/ acs \in {"hit", "miss"} /\ acs' = "built"
         \/ acs = "built" /\ acs' = "match" /\ text' \in Seq(Symbol) /\ s' = 0 /\ state' = 0
      /\ UNCHANGED <<keywords, upto, j, word, fail, out, spell>>
  BY DEF MatchEnd, MatchReturns, StringMatches, Turn, counters, tables, cursors
<1>2. TreeOK /\ OutOK /\ LinksOK
  BY <1>1, TreeIs DEF Deep, After
<1>3. OutOK' /\ LinksOK'
  BY <1>1, <1>2, OutKept, LinksKept
<1>4. CASE acs' = "miss"
  <2>1. Tested' = Tested /\ text' \in Seq(Symbol)
    BY <1>1, <1>4 DEF Tested, max_states, Sound, BuiltOK
  <2>2. \A i \in 1 .. s' : NoneEnds(i)'
    BY <1>1, <1>4, <2>1 DEF Deep, MatchOK, NoneEnds
  <2>. QED
    BY <1>1, <1>3, <1>4, <2>1, <2>2 DEF Deep, MatchOK
<1>5. CASE acs' = "built"
  BY <1>1, <1>3, <1>5 DEF Deep, MatchOK
<1>6. CASE acs' = "match"
  <2>1. text' \in Seq(Symbol) /\ s' = 0 /\ state' = 0
    BY <1>1, <1>6
  <2>2. ASSUME (s < Len(text) /\ text[s + 1] \in Column)'
        PROVE  Near(SubSeq(text, 1, s), text[s + 1], state)'
    <3>1. PICK t \in Seq(Symbol) : t = text'
      BY <2>1
    <3>2. /\ SubSeq(t, 1, 0) = <<>> /\ t[1] \in Column /\ <<>> \in Seq(Symbol)
      BY <2>1, <2>2, <3>1
    <3>3. Best(<<>>, 0)
      <4>1. spell[0] = <<>> /\ Depth(0) = 0
        BY <1>2 DEF TreeOK, SpellOK, Depth
      <4>2. EndsWith(<<>>, <<>>)
        BY DEF EndsWith
      <4>3. ASSUME NEW m \in Trie, EndsWith(<<>>, spell[m]) PROVE Depth(m) <= 0
        BY <4>3 DEF EndsWith, Depth
      <4>. QED
        BY <4>1, <4>2, <4>3 DEF Best
    <3>4. Near(<<>>, t[1], 0)
      BY <3>2, <3>3, <1>2, NearBegins, Behind DEF TreeOK
    <3>5. SubSeq(text, 1, s)' = <<>> /\ text'[s' + 1] = t[1] /\ Trie' = Trie
      BY <1>1, <2>1, <3>1, <3>2 DEF Trie
    <3>. QED
      BY <1>1, <2>1, <3>4, <3>5 DEF Near, Depth
  <2>3. 1 .. s' = {}
    BY <2>1
  <2>. QED
    BY <1>1, <1>3, <1>6, <2>2, <2>3 DEF Deep, MatchOK
<1>. QED
  BY <1>1, <1>4, <1>5, <1>6

\* Where a character is matched.
LEMMA MatchAt ==
  ASSUME CountOK, Sound, Deep, Scanning
  PROVE  /\ acs = "match" /\ TreeOK /\ OutOK /\ LinksOK /\ SpellOK
         /\ text \in Seq(Symbol) /\ Len(text) \in Nat /\ s \in 0 .. Len(text) - 1
         /\ SubSeq(text, 1, s) \in Seq(Symbol) /\ text[s + 1] \in Column
         /\ SubSeq(text, 1, s + 1) = Append(SubSeq(text, 1, s), text[s + 1])
         /\ state \in Trie /\ Near(SubSeq(text, 1, s), text[s + 1], state)
         /\ \A m \in Trie \ {0} : Linked(m)
         /\ \A c \in Column : <<0, c>> \in DOMAIN g
         /\ \A i \in 1 .. s : NoneEnds(i)
<1>1. /\ acs = "match" /\ TreeOK /\ OutOK /\ LinksOK /\ SpellOK
      /\ text \in Seq(Symbol) /\ s \in 0 .. Len(text) /\ s < Len(text) /\ state \in Trie
      /\ \A m \in Trie \ {0} : Linked(m)
      /\ \A c \in Column : <<0, c>> \in DOMAIN g
      /\ \A i \in 1 .. s : NoneEnds(i)
  <2>1. acs = "match" /\ s < Len(text)
    BY DEF Scanning
  <2>2. TreeOK
    BY <2>1, TreeIs DEF After
  <2>. QED
    BY <2>1, <2>2 DEF Deep, MatchOK, Sound, BuiltOK, After, TreeOK
<1>2. Len(text) \in Nat /\ s \in 0 .. Len(text) - 1
  <2>1. Len(text) \in Nat
    BY <1>1
  <2>. QED
    BY <1>1, <2>1
<1>3. /\ SubSeq(text, 1, s + 1) = Append(SubSeq(text, 1, s), text[s + 1])
      /\ SubSeq(text, 1, s) \in Seq(Symbol)
  BY <1>1, <1>2, OneMore
<1>4. text[s + 1] \in Column /\ Near(SubSeq(text, 1, s), text[s + 1], state)
  BY <1>1 DEF Deep, MatchOK, Scanning
<1>. QED
  BY <1>1, <1>2, <1>3, <1>4

\* A failure link is taken.
LEMMA MatchFailDeep ==
  ASSUME CountOK, Sound, Deep, MatchFail, keywords' = keywords
  PROVE  Deep'
<1>1. /\ Scanning /\ acs' = acs /\ <<state, text[s + 1]>> \notin DOMAIN g /\ state' = fail[state]
      /\ UNCHANGED <<keywords, upto, j, word, fail, out, spell, s, text>>
  BY DEF MatchFail, counters, tables
<1>2. OutOK' /\ LinksOK'
  BY <1>1, MatchAt, OutKept, LinksKept
<1>3. state \in Trie \ {0}
  BY <1>1, MatchAt
<1>4. fail[state] \in Trie /\ Best(Tail(spell[state]), fail[state])
  BY <1>1, <1>3, MatchAt DEF LinksOK, Linked
<1>5. Near(SubSeq(text, 1, s), text[s + 1], fail[state])
  BY <1>1, <1>3, <1>4, MatchAt, NearFails
<1>6. Near(SubSeq(text, 1, s), text[s + 1], state)'
  <2>1. Trie' = Trie
    BY <1>1 DEF Trie
  <2>. QED
    BY <1>1, <1>5, <2>1 DEF Near, Depth
<1>7. \A i \in 1 .. s' : NoneEnds(i)'
  <2>1. Tested' = Tested
    BY <1>1 DEF Tested, max_states
  <2>. QED
    BY <1>1, <2>1, MatchAt DEF NoneEnds
<1>. QED
  BY <1>1, <1>2, <1>6, <1>7, MatchAt DEF Deep, MatchOK

\* A character is matched: a bit shows a keyword that ends here, and no bit that none
\* of those that have one does.
LEMMA MatchCharDeep ==
  ASSUME CountOK, Sound, Deep, MatchChar, keywords' = keywords
  PROVE  Deep'
<1>1. /\ Scanning /\ <<state, text[s + 1]>> \in DOMAIN g
      /\ s' = s + 1
      /\ UNCHANGED <<keywords, upto, j, word, fail, out, spell, text>>
  BY DEF MatchChar, counters, tables
<1>2. PICK n \in Trie : /\ n = g[<<state, text[s + 1]>>] /\ n = state'
                        /\ Best(SubSeq(text, 1, s + 1), n)
  <2>1. /\ g[<<state, text[s + 1]>>] \in Trie
        /\ Best(Append(SubSeq(text, 1, s), text[s + 1]), g[<<state, text[s + 1]>>])
    BY <1>1, MatchAt, NearTakes
  <2>. QED
    BY <1>1, <2>1, MatchAt DEF MatchChar
<1>3. acs' = IF \E b \in out[n] : b < max_states THEN "hit" ELSE "match"
  BY <1>2 DEF MatchChar, tables
<1>4. OutOK' /\ LinksOK' /\ Tested' = Tested /\ Trie' = Trie
  BY <1>1, MatchAt, OutKept, LinksKept DEF Tested, max_states, Trie
<1>5. /\ SubSeq(text, 1, s + 1) \in Seq(Symbol) /\ spell[n] \in Seq(Symbol)
      /\ EndsWith(SubSeq(text, 1, s + 1), spell[n]) /\ s + 1 \in 1 .. Len(text)
      /\ \A w \in DOMAIN keywords : keywords[w] \in Seq(Symbol) /\ w \in Nat
  <2>1. s + 1 \in 1 .. Len(text) /\ text \in Seq(Symbol) /\ Len(text) \in Nat
    BY <1>1, MatchAt
  <2>2. SubSeq(text, 1, s + 1) \in Seq(Symbol)
    BY <2>1
  <2>3. spell[n] \in Seq(Symbol) /\ EndsWith(SubSeq(text, 1, s + 1), spell[n])
    BY <1>1, <1>2, MatchAt DEF SpellOK, Best
  <2>. QED
    BY <2>1, <2>2, <2>3, SMTT(30) DEF CountOK
<1>6. CASE acs' = "hit"
  <2>1. PICK b \in out[n] : b < max_states
    BY <1>3, <1>6
  <2>2. PICK w \in DOMAIN keywords : EndsWith(spell[n], keywords[w])
    BY <1>1, <2>1, MatchAt DEF OutOK
  <2>3. EndsWith(SubSeq(text, 1, s + 1), keywords[w])
    BY <1>5, <2>2, EndsTrans
  <2>. QED
    BY <1>1, <1>4, <1>6, <2>3 DEF Deep, MatchOK
<1>7. CASE acs' = "match"
  <2>1. ASSUME (s < Len(text) /\ text[s + 1] \in Column)'
        PROVE  Near(SubSeq(text, 1, s), text[s + 1], state)'
    <3>1. text[s + 2] \in Column
      <4>1. (s + 1) + 1 = s + 2
        BY <1>1, MatchAt
      <4>. QED
        BY <1>1, <2>1, <4>1
    <3>2. Near(SubSeq(text, 1, s + 1), text[s + 2], n)
      BY <1>1, <1>2, <1>5, <3>1, MatchAt, NearBegins
    <3>3. (s + 1) + 1 = s + 2
      BY <1>1, MatchAt
    <3>. QED
      BY <1>1, <1>2, <1>4, <3>2, <3>3 DEF Near, Depth
  <2>2. NoneEnds(s + 1)
    <3>. SUFFICES ASSUME NEW w \in Tested, EndsWith(SubSeq(text, 1, s + 1), keywords[w])
                  PROVE  FALSE
      BY DEF NoneEnds
    <3>1. /\ w \in DOMAIN keywords /\ w <= OutBits /\ w <= max_states /\ keywords[w] # <<>>
          /\ w \in 1 .. word - 1 /\ max_states \in Nat /\ keywords[w] \in Seq(Symbol)
      <4>1. /\ w \in DOMAIN keywords /\ w <= OutBits /\ w <= max_states /\ keywords[w] # <<>>
        BY DEF Tested
      <4>2. keywords \in Seq(Seq(Symbol)) /\ max_states \in Nat
        BY DEF CountOK, max_states
      <4>3. word - 1 = Len(keywords)
        BY <1>1, <4>2, MatchAt DEF LinksOK
      <4>. QED
        BY <4>1, <4>2, <4>3
    <3>2. PICK m \in Trie : spell[m] = keywords[w]
      BY <1>1, <3>1, MatchAt DEF OutOK
    <3>3. Depth(m) <= Depth(n)
      BY <1>2, <3>2 DEF Best
    <3>4. EndsWith(spell[n], keywords[w])
      <4>1. Len(keywords[w]) <= Len(spell[n])
        BY <3>2, <3>3 DEF Depth
      <4>. QED
        BY <1>5, <3>1, <4>1, EndsBoth
    <3>5. n # 0
      <4>. SUFFICES ASSUME n = 0 PROVE FALSE
        OBVIOUS
      <4>1. spell[n] = <<>>
        BY <1>1, MatchAt DEF SpellOK
      <4>2. Len(keywords[w]) <= 0 /\ Len(keywords[w]) \in Nat
        BY <3>1, <3>4, <4>1 DEF EndsWith
      <4>. QED
        BY <3>1, <4>2
    <3>6. w - 1 \in out[n]
      BY <1>1, <3>1, <3>4, <3>5, MatchAt DEF LinksOK, Complete
    <3>. QED
      BY <1>3, <1>7, <3>1, <3>6
  <2>3. \A i \in 1 .. s' : NoneEnds(i)'
    <3>1. \A i \in 1 .. s + 1 : i \in 1 .. s \/ i = s + 1
      BY <1>1, MatchAt
    <3>2. \A i \in 1 .. s + 1 : NoneEnds(i)
      BY <1>1, <2>2, <3>1, MatchAt
    <3>. QED
      BY <1>1, <1>4, <3>2 DEF NoneEnds
  <2>. QED
    BY <1>1, <1>4, <1>7, <2>1, <2>3 DEF Deep, MatchOK
<1>. QED
  BY <1>3, <1>6, <1>7

-----------------------------------------------------------------------------
(* The theorems *)

\* The machine begins without tables.
LEMMA StartExact == keywords \in Seq(Seq(Symbol)) /\ MachineInit => Exact
<1>1. MachineInit => Deep
  BY DEF MachineInit, Deep, MatchOK, After
<1>. QED
  BY <1>1, StartInv DEF Exact

\* Every step keeps the invariant.
LEMMA StepExact ==
  ASSUME Exact, AnyNext \/ UNCHANGED <<keywords, machine>>
  PROVE  Exact'
<1>1. Inv /\ Inv'
  BY StepInv DEF Exact
<1>. SUFFICES ASSUME Narrow' PROVE Deep'
  BY <1>1 DEF Exact
<1>2. j \in Nat /\ CountOK /\ CountOK'
  BY <1>1 DEF Inv, CountOK
<1>3. CASE UNCHANGED <<keywords, machine>>
  <2>1. /\ UNCHANGED <<keywords, acs, upto, j, word, g, out, fail, spell>>
        /\ UNCHANGED <<s, state, todo, f, text>>
    BY <1>3 DEF machine, counters, tables, cursors
  <2>2. Deep
    BY <2>1 DEF Exact, Narrow
  <2>3. Trie' = Trie /\ State' = State /\ Tested' = Tested /\ column' = column
    BY <2>1 DEF Trie, State, Tested, max_states, column
  <2>4. (OutOK => OutOK') /\ (LinksOK => LinksOK')
    BY <2>1, OutKept, LinksKept
  <2>5. (acs = "follow" => Near(Tail(spell[state]), column, f))'
    BY <2>1, <2>2, <2>3 DEF Deep, Near, Depth
  <2>6. MatchOK'
    <3>1. (acs = "match" /\ s < Len(text) /\ text[s + 1] \in Column =>
             Near(SubSeq(text, 1, s), text[s + 1], state))'
      BY <2>1, <2>2, <2>3 DEF Deep, MatchOK, Near, Depth
    <3>2. (acs \in {"match", "miss"} => \A i \in 1 .. s : NoneEnds(i))'
      BY <2>1, <2>2, <2>3 DEF Deep, MatchOK, NoneEnds
    <3>. QED
      BY <2>1, <2>2, <3>1, <3>2 DEF Deep, MatchOK
  <2>. QED
    BY <2>1, <2>2, <2>3, <2>4, <2>5, <2>6 DEF Deep
<1>4. CASE acs' \notin After
  BY <1>4, NoTables
<1>5. CASE InsertNew /\ keywords' = keywords
  <2>1. Narrow
    BY <1>2, <1>5, WidthAssumption DEF Narrow, InsertNew
  <2>. QED
    BY <1>1, <1>2, <1>5, <2>1, InsertNewDeep DEF Exact, Inv
<1>6. CASE /\ keywords' = keywords /\ acs' \in After
           /\ \/ CountDone \/ InsertOld \/ InsertWord \/ InsertDone \/ RootColumn
              \/ RootDone \/ Dequeue \/ NextColumn \/ Follow \/ Link \/ ColumnsDone \/ Built
              \/ Match \/ MatchReturns \/ \E t \in Seq(Symbol) : StringMatches(t)
  <2>1. j' = j
    BY <1>6 DEF CountDone, InsertOld, InsertWord, InsertDone, RootColumn, RootDone,
                Dequeue, NextColumn, Follow, Link, ColumnsDone, Built, Match, MatchFail, MatchChar,
                MatchEnd, MatchReturns, StringMatches, Turn, counters
  <2>2. Narrow /\ Sound /\ Sound' /\ Deep
    BY <1>1, <2>1 DEF Narrow, Exact, Inv
  <2>3. CASE CountDone
    <3>1. acs' = "insert"
      BY <1>6, <2>3 DEF CountDone, After
    <3>. QED
      BY <1>2, <1>6, <2>2, <2>3, <3>1, CountDoneDeep
  <2>. QED
    BY <1>2, <1>6, <2>2, <2>3, InsertedDeep, InsertWordDeep, RootColumnDeep, ColumnDeep,
       FollowDeep, LinkDeep, BetweenDeep, MatchFailDeep, MatchCharDeep DEF Match
<1>7. CASE keywords' = keywords /\ (BuildGoto \/ CountWord \/ Outside \/ Freed)
  <2>1. acs' \in {"none", "count", "outside"}
    BY <1>7 DEF BuildGoto, CountWord, Outside, Freed, FreeGoto, Turn
  <2>. QED
    BY <2>1, <1>4 DEF After
<1>. QED
  BY <1>3, <1>4, <1>5, <1>6, <1>7 DEF AnyNext, MachineStep, Build

\* What the invariant says of the links and of the answers.
LEMMA ExactLinks == Exact => LinksAreLongest
<1>. SUFFICES ASSUME Exact, acs = "built", Narrow, NEW n \in Trie \ {0}
              PROVE  /\ fail[n] \in Trie \ {n} /\ EndsWith(spell[n], spell[fail[n]])
                     /\ \A m \in Trie \ {n} :
                          EndsWith(spell[n], spell[m]) => Len(spell[m]) <= Len(spell[fail[n]])
  BY DEF LinksAreLongest
<1>1. TreeOK /\ LinksOK /\ Linked(n)
  BY TreeIs DEF Exact, Inv, Sound, Deep, BuiltOK, After
<1>2. fail[n] \in Trie \ {n} /\ Best(Tail(spell[n]), fail[n])
  BY <1>1 DEF LinksOK, Linked, TreeOK
<1>3. /\ \A m \in Trie : spell[m] \in Seq(Symbol)
      /\ spell[n] # <<>> /\ spell[n] \in Seq(Symbol)
  BY <1>1, Behind DEF TreeOK, SpellOK
<1>4. EndsWith(spell[n], spell[fail[n]])
  BY <1>2, <1>3, EndsTail DEF Best
<1>5. ASSUME NEW m \in Trie \ {n}, EndsWith(spell[n], spell[m])
      PROVE  Len(spell[m]) <= Len(spell[fail[n]])
  <2>1. spell[m] # spell[n]
    BY <1>1 DEF TreeOK, SpellOK
  <2>2. Len(spell[m]) # Len(spell[n])
    BY <1>3, <1>5, <2>1, EndsSelf, EndsSame
  <2>3. Len(spell[m]) < Len(spell[n])
    BY <1>3, <1>5, <2>2, EndsAt
  <2>4. EndsWith(Tail(spell[n]), spell[m])
    BY <1>3, <1>5, <2>3, EndsTail
  <2>. QED
    BY <1>2, <2>4 DEF Best, Depth
<1>. QED
  BY <1>2, <1>4, <1>5

LEMMA ExactAnswers == Exact => MatcherExact
<1>. SUFFICES ASSUME Exact, Narrow PROVE MatcherExact
  BY DEF MatcherExact
<1>1. ASSUME acs = "miss", NEW w \in Tested, NEW i \in DOMAIN text
      PROVE  ~EndsWith(SubSeq(text, 1, i), keywords[w])
  <2>1. text \in Seq(Symbol) /\ s = Len(text) /\ \A k \in 1 .. s : NoneEnds(k)
    BY <1>1 DEF Exact, Deep, MatchOK
  <2>2. NoneEnds(i)
    BY <2>1
  <2>. QED
    BY <2>2 DEF NoneEnds
<1>2. acs = "hit" => \E w \in DOMAIN keywords : EndsWith(SubSeq(text, 1, s), keywords[w])
  BY DEF Exact, Deep, MatchOK
<1>. QED
  BY <1>1, <1>2 DEF MatcherExact

LEMMA AlwaysExact == MachineSpec => []Exact
<1>1. keywords \in Lists /\ MachineInit => Exact
  BY StartExact, Symbols
<1>2. Exact /\ [MachineNext]_<<keywords, machine>> => Exact'
  BY NextIsAny, StepExact
<1>. QED
  BY <1>1, <1>2, PTL DEF MachineSpec

\* The failure link of a state is the state with the longest string that is a proper
\* end of its own (acs.c:152-173), for any keywords and widths.
THEOREM LinksLongest == MachineSpec => []LinksAreLongest
BY AlwaysExact, ExactLinks, PTL

\* string_matches says yes at the end of a keyword, and no only when none of the
\* keywords that have a bit ends anywhere (acs.c:182-207), for any keywords, strings
\* and widths.
THEOREM MatchesExactly == MachineSpec => []MatcherExact
BY AlwaysExact, ExactAnswers, PTL

-----------------------------------------------------------------------------
(* What the tables hold, however many states there are *)

Links == -MaxFail - 1 .. MaxFail

OutSets == SUBSET (0 .. OutBits - 1)

\* The entries of the tables are of their types.
TablesFit ==
  /\ g \in [DOMAIN g -> Trie] /\ DOMAIN g \subseteq Trie \X Column
  /\ fail \in [DOMAIN fail -> Links] /\ out \in [DOMAIN out -> OutSets]

\* There is room for the states of the keyword that is being inserted.
RoomOK ==
  acs = "insert" =>
    /\ word \in 1 .. Len(keywords) + 1 /\ s \in Nat /\ state \in Trie /\ j <= upto[word] + s
    /\ IF word > Len(keywords) THEN s = 0 ELSE s <= Len(keywords[word])

Fit ==
  /\ acs \in {"none", "count"} => j = 1 /\ word = 1 /\ s = 0 /\ state = 0
  /\ TablesFit /\ j \in 1 .. max_states
  /\ acs \in After => Len(upto) = Len(keywords) + 1 /\ DOMAIN out = State
  /\ acs = "root" => todo \subseteq Column
  /\ RoomOK

\* What is counted, and what it comes to.
LEMMA Counted ==
  ASSUME CountOK
  PROVE  /\ max_states \in Nat /\ 1 <= max_states /\ Len(upto) \in DOMAIN upto
         /\ \A w \in DOMAIN upto : upto[w] \in Nat /\ upto[w] <= max_states
<1>1. /\ upto \in Seq(Nat) /\ Len(upto) \in 1 .. Len(keywords) + 1 /\ upto[1] = 1
      /\ \A a, b \in 1 .. Len(upto) : a <= b => upto[a] <= upto[b]
  BY DEF CountOK
<1>2. Len(upto) \in Nat /\ Len(upto) >= 1 /\ DOMAIN upto = 1 .. Len(upto)
  BY <1>1 DEF CountOK
<1>3. \A w \in DOMAIN upto : upto[w] \in Nat /\ upto[w] <= upto[Len(upto)]
  BY <1>1, <1>2
<1>. QED
  BY <1>1, <1>2, <1>3 DEF max_states

LEMMA Room == CountOK => 1 <= max_states /\ max_states \in Nat
BY Counted

\* What int8_t makes of a number.
LEMMA Int8Is ==
  ASSUME NEW n \in Nat
  PROVE  Int8(n) \in Links
<1>1. MaxFail \in Nat
  BY WidthAssumption
<1>. DEFINE q == 2 * (MaxFail + 1)
            r == (n + MaxFail + 1) % q
<1>2. CASE n <= MaxFail
  BY <1>1, <1>2 DEF Int8, Links
<1>3. CASE ~(n <= MaxFail)
  <2>1. q \in Nat /\ q > 0 /\ n + MaxFail + 1 \in Nat
    BY <1>1
  <2>2. r \in 0 .. q - 1
    <3>1. \A a \in Nat, b \in Nat : b > 0 => a % b \in 0 .. b - 1
      OBVIOUS
    <3>. HIDE DEF q
    <3>. QED
      BY <2>1, <3>1
  <2>. HIDE DEF r
  <2>3. r - (MaxFail + 1) \in Links
    BY <1>1, <2>2 DEF Links
  <2>4. Int8(n) = r - (MaxFail + 1)
    BY <1>3 DEF Int8, r
  <2>. QED
    BY <2>3, <2>4
<1>. QED
  BY <1>2, <1>3

\* Every step keeps to the types of the tables.
LEMMA InsertNewFit ==
  ASSUME CountOK, Fit, InsertNew, keywords' = keywords
  PROVE  Fit'
<1>1. /\ acs = "insert" /\ acs' = "insert" /\ word <= Len(keywords) /\ s < Len(keywords[word]) /\ Next_s \in Column
      /\ g' = With(g, <<state, Next_s>>, j) /\ state' = j /\ j' = j + 1 /\ s' = s + 1
      /\ UNCHANGED <<upto, word, out, fail, todo>>
  BY DEF InsertNew, Inserting
<1>2. /\ word \in 1 .. Len(keywords) /\ s \in Nat /\ state \in Trie /\ j <= upto[word] + s /\ j \in Nat \ {0}
      /\ Len(upto) = Len(keywords) + 1 /\ DOMAIN out = State /\ Len(keywords) \in Nat
      /\ keywords[word] \in Seq(Symbol)
  <2>1. keywords \in Seq(Seq(Symbol)) /\ Len(keywords) \in Nat /\ j \in Nat
    BY DEF CountOK
  <2>2. /\ word \in 1 .. Len(keywords) + 1 /\ s \in Nat /\ state \in Trie /\ j <= upto[word] + s
        /\ Len(upto) = Len(keywords) + 1 /\ DOMAIN out = State /\ j \in 1 .. max_states
    BY <1>1 DEF Fit, RoomOK, After
  <2>3. word \in 1 .. Len(keywords)
    BY <1>1, <2>1, <2>2
  <2>. QED
    BY <2>1, <2>2, <2>3
<1>3. j + 1 <= max_states /\ max_states \in Nat /\ j + 1 <= upto[word] + (s + 1) /\ s + 1 <= Len(keywords[word])
  <2>1. /\ upto[word] \in Nat /\ upto[word + 1] <= max_states /\ max_states \in Nat
        /\ upto[word + 1] = upto[word] + Len(keywords[word])
    <3>1. word \in DOMAIN upto /\ word + 1 \in DOMAIN upto /\ word \in 1 .. Len(upto) - 1
      BY <1>2, Counted DEF CountOK
    <3>. QED
      BY <3>1, Counted DEF CountOK
  <2>2. Len(keywords[word]) \in Nat
    BY <1>2
  <2>. QED
    BY <1>1, <1>2, <2>1, <2>2, SMTT(30)
<1>4. Trie' = Trie \cup {j} /\ j \in Trie' /\ max_states' = max_states /\ State' = State
  BY <1>1, <1>2 DEF Trie, max_states, State
<1>5. g' \in [DOMAIN g' -> Trie'] /\ DOMAIN g' \subseteq Trie' \X Column
  <2>1. g \in [DOMAIN g -> Trie] /\ DOMAIN g \subseteq Trie \X Column
    BY DEF Fit, TablesFit
  <2>. QED
    BY <1>1, <1>2, <1>4, <2>1 DEF With
<1>6. TablesFit'
  BY <1>1, <1>5 DEF Fit, TablesFit
<1>7. RoomOK'
  BY <1>1, <1>2, <1>3, <1>4 DEF RoomOK
<1>. QED
  BY <1>1, <1>2, <1>3, <1>4, <1>6, <1>7 DEF Fit

LEMMA InsertFit ==
  ASSUME CountOK, Fit, InsertOld \/ InsertWord \/ InsertDone, keywords' = keywords
  PROVE  Fit'
<1>1. /\ acs = "insert" /\ UNCHANGED <<upto, j, g, fail>> /\ Trie' = Trie /\ max_states' = max_states
      /\ State' = State
  BY DEF InsertOld, InsertWord, InsertDone, Inserting, counters, tables, Trie, max_states, State
<1>2. /\ word \in 1 .. Len(keywords) + 1 /\ s \in Nat /\ state \in Trie /\ j <= upto[word] + s
      /\ IF word > Len(keywords) THEN s = 0 ELSE s <= Len(keywords[word])
      /\ Len(upto) = Len(keywords) + 1 /\ DOMAIN out = State /\ j \in 1 .. max_states
  BY <1>1 DEF Fit, RoomOK, After
<1>3. keywords \in Seq(Seq(Symbol)) /\ Len(keywords) \in Nat /\ j \in Nat /\ 0 \in Trie
  BY <1>2 DEF CountOK, Trie
<1>4. CASE InsertOld
  <2>1. /\ acs' = acs /\ UNCHANGED <<word, todo, out>> /\ state' = g[<<state, Next_s>>] /\ s' = s + 1
        /\ word <= Len(keywords) /\ s < Len(keywords[word]) /\ <<state, Next_s>> \in DOMAIN g
    BY <1>4 DEF InsertOld, Inserting, counters, tables
  <2>2. state' \in Trie
    BY <2>1 DEF Fit, TablesFit
  <2>3. upto[word] \in Nat /\ Len(keywords[word]) \in Nat
    <3>1. word \in DOMAIN upto /\ word \in 1 .. Len(keywords)
      BY <1>2, <1>3, <2>1 DEF CountOK
    <3>. QED
      BY <3>1, <1>3, Counted
  <2>4. j <= upto[word] + (s + 1) /\ s + 1 <= Len(keywords[word])
    BY <1>2, <1>3, <2>1, <2>3, SMTT(30)
  <2>. QED
    BY <1>1, <1>2, <1>3, <2>1, <2>2, <2>4 DEF Fit, RoomOK, TablesFit
<1>5. CASE InsertWord
  <2>1. /\ acs' = acs /\ UNCHANGED todo /\ state' = 0 /\ s' = 0 /\ word' = word + 1
        /\ word <= Len(keywords) /\ s = Len(keywords[word])
        /\ \E bits \in Bits(word) : out' = [out EXCEPT ![state] = @ \cup bits]
    BY <1>5 DEF InsertWord, Inserting
  <2>2. out' \in [DOMAIN out -> OutSets]
    <3>1. PICK bits \in Bits(word) : out' = [out EXCEPT ![state] = @ \cup bits]
      BY <2>1
    <3>2. bits \in OutSets
      BY DEF Bits, OutSets
    <3>3. \A x, y \in OutSets : x \cup y \in OutSets
      BY DEF OutSets
    <3>. HIDE DEF OutSets
    <3>. QED
      BY <3>1, <3>2, <3>3 DEF Fit, TablesFit
  <2>3. j <= upto[word + 1] + 0 /\ word + 1 \in 1 .. Len(keywords) + 1
    <3>1. /\ word \in DOMAIN upto /\ word + 1 \in DOMAIN upto /\ word \in 1 .. Len(upto) - 1
          /\ word \in 1 .. Len(keywords)
      BY <1>2, <1>3, <2>1 DEF CountOK
    <3>2. upto[word + 1] = upto[word] + Len(keywords[word])
      BY <3>1 DEF CountOK
    <3>3. upto[word] \in Nat
      BY <3>1, Counted
    <3>4. Len(keywords[word]) \in Nat
      BY <1>3, <3>1
    <3>. QED
      BY <1>2, <1>3, <2>1, <3>1, <3>2, <3>3, <3>4
  <2>4. IF word + 1 > Len(keywords) THEN 0 = 0 ELSE 0 <= Len(keywords[word + 1])
    <3>1. word + 1 <= Len(keywords) => word + 1 \in 1 .. Len(keywords)
      BY <2>3
    <3>. QED
      BY <1>3, <2>3, <3>1
  <2>5. TablesFit' /\ DOMAIN out' = DOMAIN out
    BY <1>1, <2>2 DEF Fit, TablesFit
  <2>. QED
    BY <1>1, <1>2, <1>3, <2>1, <2>3, <2>4, <2>5 DEF Fit, RoomOK
<1>6. CASE InsertDone
  <2>1. acs' = "root" /\ todo' = Column /\ out' = out
    BY <1>6 DEF InsertDone, tables
  <2>. QED
    BY <1>1, <1>2, <2>1 DEF Fit, RoomOK, TablesFit, After
<1>. QED
  BY <1>4, <1>5, <1>6

LEMMA CountFit ==
  ASSUME CountOK, CountOK', Fit, BuildGoto \/ CountWord \/ CountDone, keywords' = keywords
  PROVE  Fit'
<1>1. /\ j = 1 /\ word = 1 /\ s = 0 /\ state = 0 /\ UNCHANGED <<j, word, s, state>>
      /\ acs' \in {"count", "refused", "insert"} /\ acs \in {"none", "count"}
      /\ Trie' = Trie
  BY DEF BuildGoto, CountWord, CountDone, Turn, counters, cursors, tables, Fit, Trie
<1>2. (1 <= max_states /\ max_states \in Nat)'
  BY Room, PTL
<1>3. CASE acs' # "insert"
  <2>1. TablesFit'
    BY <1>1, <1>3 DEF BuildGoto, CountWord, CountDone, Turn, tables, Fit, TablesFit
  <2>. QED
    BY <1>1, <1>2, <1>3, <2>1 DEF Fit, After, RoomOK
<1>4. CASE acs' = "insert"
  <2>1. /\ g' = Empty /\ out' = [n \in State |-> {}] /\ fail' = [n \in State |-> -1] /\ upto' = upto
        /\ Len(upto) > Len(keywords)
    BY <1>1, <1>4 DEF BuildGoto, CountWord, CountDone, Turn, counters
  <2>2. TablesFit'
    <3>1. -1 \in Links /\ {} \in OutSets
      BY WidthAssumption DEF Links, OutSets
    <3>2. DOMAIN Empty = {} /\ Empty \in [DOMAIN Empty -> Trie']
      BY DEF Empty
    <3>. QED
      BY <2>1, <3>1, <3>2 DEF TablesFit
  <2>3. Len(upto) = Len(keywords) + 1 /\ State' = State /\ DOMAIN out' = State
    BY <2>1 DEF CountOK, State, max_states
  <2>4. /\ 1 \in 1 .. Len(keywords) + 1 /\ 0 \in Trie' /\ 1 <= upto[1] + 0
        /\ IF 1 > Len(keywords) THEN 0 = 0 ELSE 0 <= Len(keywords[1])
    <3>1. keywords \in Seq(Seq(Symbol)) /\ upto[1] = 1 /\ Len(keywords) \in Nat
      BY DEF CountOK
    <3>2. ~(1 > Len(keywords)) => keywords[1] \in Seq(Symbol)
      BY <3>1
    <3>. QED
      BY <1>1, <3>1, <3>2 DEF Trie
  <2>. QED
    BY <1>1, <1>2, <1>4, <2>1, <2>2, <2>3, <2>4 DEF Fit, RoomOK
<1>. QED
  BY <1>3, <1>4

LEMMA QueueFit ==
  ASSUME Fit, RootColumn \/ RootDone \/ Dequeue \/ NextColumn \/ Follow \/ Link \/ ColumnsDone \/ Built,
         keywords' = keywords
  PROVE  Fit'
<1>1. /\ acs \in {"root", "queue", "columns", "follow"} /\ acs' \in {"root", "queue", "columns", "follow", "built"}
      /\ UNCHANGED <<upto, j>> /\ (acs' = "root" => acs = "root")
  BY DEF RootColumn, RootDone, Dequeue, NextColumn, Follow, Link, ColumnsDone, Built, Turn, counters
<1>2. Trie' = Trie /\ max_states' = max_states /\ State' = State /\ 0 \in Trie
  BY <1>1 DEF Trie, max_states, State, Fit
<1>3. acs' = "root" => todo' \subseteq todo
  BY <1>1 DEF RootColumn, RootDone, Dequeue, NextColumn, Follow, Link, ColumnsDone, Built, Turn
<1>4. TablesFit' /\ DOMAIN out' = DOMAIN out
  <2>0. TablesFit
    BY DEF Fit
  <2>1. CASE RootColumn
    <3>1. /\ \/ g' = With(g, <<0, column>>, 0) /\ fail' = fail
             \/ g' = g /\ fail' = [fail EXCEPT ![g[<<0, column>>]] = 0]
          /\ out' = out
      BY <2>1 DEF RootColumn
    <3>2. column \in Column
      <4>1. todo \subseteq Column /\ todo # {}
        BY <2>1 DEF RootColumn, Fit
      <4>. QED
        BY <4>1, ColumnToCome
    <3>3. 0 \in Links
      BY WidthAssumption DEF Links
    <3>4. CASE g' = With(g, <<0, column>>, 0) /\ fail' = fail
      BY <1>2, <2>0, <3>1, <3>2, <3>4 DEF TablesFit, With
    <3>5. CASE g' = g /\ fail' = [fail EXCEPT ![g[<<0, column>>]] = 0]
      BY <1>2, <2>0, <3>1, <3>3, <3>5 DEF TablesFit
    <3>. QED
      BY <3>1, <3>4, <3>5
  <2>2. CASE Link
    <3>1. PICK n, l : /\ n = g[<<state, column>>] /\ l = Int8(g[<<f, column>>]) /\ l \in State
                      /\ fail' = [fail EXCEPT ![n] = l]
                      /\ out' = [out EXCEPT ![n] = @ \cup out[l]]
                      /\ g' = g /\ <<f, column>> \in DOMAIN g
      BY <2>2 DEF Link
    <3>2. l \in Links
      <4>1. g[<<f, column>>] \in Nat
        BY <2>0, <3>1 DEF TablesFit, Trie
      <4>. QED
        BY <3>1, <4>1, Int8Is
    <3>3. out[l] \in OutSets
      BY <1>1, <2>0, <3>1 DEF TablesFit, Fit, After
    <3>4. \A x, y \in OutSets : x \cup y \in OutSets
      BY DEF OutSets
    <3>5. out' \in [DOMAIN out -> OutSets]
      <4>. HIDE DEF OutSets
      <4>. QED
        BY <2>0, <3>1, <3>3, <3>4 DEF TablesFit
    <3>. QED
      BY <1>2, <2>0, <3>1, <3>2, <3>5 DEF TablesFit
  <2>3. CASE RootDone \/ Dequeue \/ NextColumn \/ Follow \/ ColumnsDone \/ Built
    <3>1. UNCHANGED <<g, out, fail>>
      BY <2>3 DEF RootDone, Dequeue, NextColumn, Follow, ColumnsDone, Built, Turn, tables
    <3>. QED
      BY <1>2, <2>0, <3>1 DEF TablesFit
  <2>. QED
    BY <2>1, <2>2, <2>3
<1>. QED
  BY <1>1, <1>2, <1>3, <1>4 DEF Fit, RoomOK, After

LEMMA MatchFit ==
  ASSUME Fit, keywords' = keywords,
         Match \/ MatchReturns \/ Outside \/ (\E t : StringMatches(t)) \/ UNCHANGED machine
  PROVE  Fit'
<1>1. UNCHANGED <<upto, j, g, fail, out>>
  BY DEF Match, MatchFail, MatchChar, MatchEnd, MatchReturns, Outside, StringMatches, Turn, counters, tables,
         machine
<1>2. TablesFit' /\ max_states' = max_states /\ State' = State /\ Trie' = Trie
  BY <1>1 DEF Fit, TablesFit, max_states, State, Trie
<1>3. CASE UNCHANGED machine
  BY <1>1, <1>2, <1>3 DEF Fit, RoomOK, machine, counters, cursors
<1>4. CASE Match \/ MatchReturns \/ Outside \/ \E t : StringMatches(t)
  <2>1. /\ acs' \in {"match", "hit", "miss", "built", "outside"}
        /\ acs' \in After => acs \in {"match", "hit", "miss", "built"}
    BY <1>4 DEF Match, MatchFail, MatchChar, MatchEnd, MatchReturns, Outside, StringMatches, Turn, Scanning, After
  <2>. QED
    BY <1>1, <1>2, <2>1 DEF Fit, RoomOK, After
<1>. QED
  BY <1>3, <1>4

LEMMA FreedFit == FreeGoto => Fit'
<1>. SUFFICES ASSUME FreeGoto PROVE Fit'
  OBVIOUS
<1>1. acs' = "none" /\ upto' = <<1>> /\ j' = 1 /\ word' = 1 /\ g' = Empty /\ out' = Empty /\ fail' = Empty
      /\ s' = 0 /\ state' = 0
  BY DEF FreeGoto
<1>2. DOMAIN Empty = {} /\ \A S : Empty \in [DOMAIN Empty -> S]
  BY DEF Empty
<1>3. max_states' = 1
  BY <1>1 DEF max_states
<1>. QED
  BY <1>1, <1>2, <1>3 DEF Fit, TablesFit, RoomOK, After

LEMMA StartFit == MachineInit => Fit
<1>. SUFFICES ASSUME MachineInit PROVE Fit
  OBVIOUS
<1>1. acs = "none" /\ upto = <<1>> /\ j = 1 /\ word = 1 /\ g = Empty /\ out = Empty /\ fail = Empty
      /\ s = 0 /\ state = 0
  BY DEF MachineInit
<1>2. DOMAIN Empty = {} /\ \A S : Empty \in [DOMAIN Empty -> S]
  BY DEF Empty
<1>3. max_states = 1
  BY <1>1 DEF max_states
<1>. QED
  BY <1>1, <1>2, <1>3 DEF Fit, TablesFit, RoomOK, After

=============================================================================
