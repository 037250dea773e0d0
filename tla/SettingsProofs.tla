--------------------------- MODULE SettingsProofs ----------------------------
(***************************************************************************)
(* The trie of settings implements a dictionary, for any keys and values.   *)
(***************************************************************************)
EXTENDS Config, Facts

Node == 0 .. nodes - 1

\* Every node has a string of its own; a child's is its parent's and a character.
PathOK ==
  /\ nodes \in Nat /\ path \in [Node -> Seq(Byte)]
  /\ \A m, n \in Node : path[m] = path[n] => m = n
  /\ nodes > 0 => path[0] = <<>>

ChildOK ==
  /\ DOMAIN child \subseteq Node \X Byte
  /\ \A n \in Node, c \in Byte :
       <<n, c>> \in DOMAIN child =>
         child[<<n, c>>] \in Node /\ path[child[<<n, c>>]] = Append(path[n], c)

\* Whatever begins a node's string leads to a node.
PrefixesOK ==
  \A n \in Node : \A i \in 1 .. Len(path[n]) :
    \E m \in Node :
      path[m] = SubSeq(path[n], 1, i - 1) /\ <<m, path[n][i]>> \in DOMAIN child

ValueOK == DOMAIN value \subseteq Node

\* The walk is at the node that the characters behind it lead to.
WalkOK ==
  call \in {"add", "get"} =>
    /\ key \in Word /\ key \in Seq(Byte) /\ node \in Node /\ at \in 0 .. Len(key)
    /\ call = "add" => val \in Word
    /\ path[node] = SubSeq(key, 1, at)

TrieInv == PathOK /\ ChildOK /\ PrefixesOK /\ ValueOK /\ WalkOK

-----------------------------------------------------------------------------
(* The invariant *)

\* A string that goes on where the walk finds no child leads to no node.
LEMMA Missing ==
  ASSUME TrieInv, call \in {"add", "get"}, at < Len(key), Here \notin DOMAIN child,
         NEW n \in Node, NEW i \in at + 1 .. Len(key)
  PROVE  path[n] # SubSeq(key, 1, i)
<1>. SUFFICES ASSUME path[n] = SubSeq(key, 1, i) PROVE FALSE
  OBVIOUS
<1>1. key \in Seq(Byte) /\ at \in Nat /\ node \in Node /\ path[node] = SubSeq(key, 1, at)
  BY DEF TrieInv, WalkOK
<1>2. /\ at + 1 \in 1 .. Len(path[n])
      /\ SubSeq(path[n], 1, (at + 1) - 1) = SubSeq(key, 1, at) /\ path[n][at + 1] = key[at + 1]
  BY <1>1, BeginsBeginning
<1>3. PICK m \in Node : path[m] = SubSeq(key, 1, at) /\ <<m, key[at + 1]>> \in DOMAIN child
  BY <1>2 DEF TrieInv, PrefixesOK
<1>4. m = node
  BY <1>1, <1>3 DEF TrieInv, PathOK
<1>. QED
  BY <1>3, <1>4 DEF Here

\* Before anything is set.
LEMMA InitTrie == SettingsInit => TrieInv
BY DEF SettingsInit, TrieInv, PathOK, ChildOK, PrefixesOK, ValueOK, WalkOK, Node, Empty

\* add_setting begins at the root, which it may have to make.
LEMMA AddSettingTrie ==
  ASSUME TrieInv, NEW k \in Word, NEW v \in Word, AddSetting(k, v)
  PROVE  TrieInv'
<1>1. CASE nodes = 0
  <2>1. nodes' = 1 /\ path' = [n \in {0} |-> <<>>] /\ DOMAIN child = {} /\ child' = child
    BY <1>1 DEF AddSetting, With, TrieInv, PathOK, ChildOK, Node
  <2>2. Node' = {0} /\ path'[0] = <<>>
    BY <2>1 DEF Node
  <2>3. WalkOK'
    BY <2>2, Whole, WordAssumption DEF AddSetting, Calls, WalkOK
  <2>. QED
    BY <2>1, <2>2, <2>3, <1>1
       DEF AddSetting, TrieInv, PathOK, ChildOK, PrefixesOK, ValueOK, Node
<1>2. CASE nodes # 0
  <2>1. UNCHANGED <<nodes, path, child, value>>
    BY <1>2 DEF AddSetting
  <2>2. 0 \in Node /\ path[0] = <<>>
    BY <1>2 DEF TrieInv, PathOK, Node
  <2>3. WalkOK'
    BY <2>1, <2>2, Whole, WordAssumption DEF AddSetting, Calls, WalkOK, Node
  <2>. QED
    BY <2>1, <2>3 DEF TrieInv, PathOK, ChildOK, PrefixesOK, ValueOK, Node
<1>. QED
  BY <1>1, <1>2

\* get_setting begins at the root, if there is one.
LEMMA GetSettingTrie ==
  ASSUME TrieInv, NEW k \in Word, GetSetting(k)
  PROVE  TrieInv'
<1>1. UNCHANGED <<nodes, path, child, value>>
  BY DEF GetSetting, trie
<1>2. WalkOK'
  <2>1. CASE nodes = 0
    BY <1>1, <2>1 DEF GetSetting, walk, TrieInv, WalkOK, Node
  <2>2. CASE nodes # 0
    <3>1. 0 \in Node' /\ path'[0] = <<>>
      BY <2>2, <1>1 DEF TrieInv, PathOK, Node
    <3>2. call' = "get" /\ key' = k /\ node' = 0 /\ at' = 0
      BY <2>2 DEF GetSetting, Calls
    <3>3. k \in Seq(Byte) /\ SubSeq(k, 1, 0) = <<>> /\ 0 \in 0 .. Len(k)
      BY Whole, WordAssumption
    <3>. QED
      BY <3>1, <3>2, <3>3 DEF WalkOK
  <2>. QED
    BY <2>1, <2>2
<1>. QED
  BY <1>1, <1>2 DEF TrieInv, PathOK, ChildOK, PrefixesOK, ValueOK, Node

\* The walk follows an edge.
LEMMA FollowTrie ==
  ASSUME TrieInv, AddFollow \/ GetFollow
  PROVE  TrieInv'
<1>1. /\ call \in {"add", "get"} /\ at < Len(key) /\ Here \in DOMAIN child
      /\ node' = child[Here] /\ at' = at + 1
      /\ UNCHANGED <<call, key, val, nodes, path, child, value>>
  BY DEF AddFollow, GetFollow, Reading, Go, trie
<1>2. key \in Seq(Byte) /\ at \in 0 .. Len(key) - 1 /\ node \in Node /\ path[node] = SubSeq(key, 1, at)
  BY <1>1 DEF TrieInv, WalkOK
<1>3. child[Here] \in Node /\ path[child[Here]] = SubSeq(key, 1, at + 1)
  <2>1. key[at + 1] \in Byte /\ SubSeq(key, 1, at + 1) = Append(SubSeq(key, 1, at), key[at + 1])
    BY <1>2, OneMore
  <2>. QED
    BY <1>1, <1>2, <2>1 DEF TrieInv, ChildOK, Here
<1>4. WalkOK'
  BY <1>1, <1>2, <1>3 DEF TrieInv, WalkOK, Node
<1>. QED
  BY <1>1, <1>4 DEF TrieInv, PathOK, ChildOK, PrefixesOK, ValueOK, Node

\* A new node has a string that no other node has.
LEMMA AddMissingTrie ==
  ASSUME TrieInv, AddMissing
  PROVE  TrieInv'
<1>. DEFINE c == key[at + 1]
            p == path[node]
            q == Append(p, c)
<1>1. /\ call = "add" /\ at < Len(key) /\ Here \notin DOMAIN child
      /\ child' = [e \in DOMAIN child \cup {<<node, c>>} |-> IF e = <<node, c>> THEN nodes ELSE child[e]]
      /\ path' = [n \in DOMAIN path \cup {nodes} |-> IF n = nodes THEN q ELSE path[n]]
      /\ nodes' = nodes + 1 /\ node' = nodes /\ at' = at + 1
      /\ UNCHANGED <<call, key, val, value>>
  BY DEF AddMissing, Reading, Go, Here, With
<1>2. /\ key \in Seq(Byte) /\ at \in 0 .. Len(key) - 1 /\ node \in Node
      /\ p = SubSeq(key, 1, at) /\ nodes \in Nat /\ path \in [Node -> Seq(Byte)]
  BY <1>1 DEF TrieInv, WalkOK, PathOK
<1>3. /\ c \in Byte /\ p \in Seq(Byte) /\ q = SubSeq(key, 1, at + 1)
      /\ q \in Seq(Byte) /\ Len(p) \in Nat /\ Len(q) = Len(p) + 1
  <2>1. c \in Byte /\ p \in Seq(Byte)
    BY <1>2, OneMore
  <2>2. q = SubSeq(key, 1, at + 1)
    BY <1>2, OneMore
  <2>3. Len(p) \in Nat
    BY <2>1
  <2>4. q \in Seq(Byte) /\ Len(q) = Len(p) + 1
    <3>. HIDE DEF c, p
    <3>. QED
      BY <2>1, BeginsLast
  <2>. QED
    BY <2>1, <2>2, <2>3, <2>4
<1>4. Node' = Node \cup {nodes} /\ nodes \notin Node
  BY <1>1, <1>2 DEF Node
<1>5. path' \in [Node' -> Seq(Byte)] /\ path'[nodes] = q /\ \A n \in Node : path'[n] = path[n]
  BY <1>1, <1>2, <1>3, <1>4
<1>6. \A n \in Node : path[n] # q
  <2>1. at + 1 \in at + 1 .. Len(key)
    BY <1>2
  <2>. QED
    BY <2>1, <1>1, <1>3, Missing
<1>7. PathOK'
  <2>1. \A m, n \in Node' : path'[m] = path'[n] => m = n
    BY <1>4, <1>5, <1>6, SMTT(30) DEF TrieInv, PathOK
  <2>2. path'[0] = <<>>
    <3>1. 0 \in Node /\ path[0] = <<>>
      BY <1>2 DEF TrieInv, PathOK, Node
    <3>. QED
      BY <3>1, <1>5
  <2>3. nodes' \in Nat
    BY <1>1, <1>2
  <2>. QED
    BY <1>5, <2>1, <2>2, <2>3 DEF PathOK
<1>8. ChildOK'
  <2>1. DOMAIN child' = DOMAIN child \cup {<<node, c>>} /\ DOMAIN child' \subseteq Node' \X Byte
    BY <1>1, <1>2, <1>3, <1>4 DEF TrieInv, ChildOK
  <2>2. ASSUME NEW n \in Node', NEW b \in Byte, <<n, b>> \in DOMAIN child'
        PROVE  child'[<<n, b>>] \in Node' /\ path'[child'[<<n, b>>]] = Append(path'[n], b)
    <3>1. CASE <<n, b>> = <<node, c>>
      BY <3>1, <1>1, <1>2, <1>4, <1>5
    <3>2. CASE <<n, b>> # <<node, c>>
      <4>1. <<n, b>> \in DOMAIN child /\ child'[<<n, b>>] = child[<<n, b>>] /\ n \in Node
        BY <3>2, <2>1, <2>2, <1>1 DEF TrieInv, ChildOK
      <4>. QED
        BY <4>1, <1>4, <1>5, ZenonT(40) DEF TrieInv, ChildOK
    <3>. QED
      BY <3>1, <3>2
  <2>. QED
    BY <2>1, <2>2 DEF ChildOK
<1>9. PrefixesOK'
  <2>1. \A m \in Node : m \in Node' /\ path'[m] = path[m]
    BY <1>4, <1>5
  <2>2. DOMAIN child \subseteq DOMAIN child' /\ <<node, c>> \in DOMAIN child'
    BY <1>1
  <2>3. ASSUME NEW n \in Node, NEW i \in 1 .. Len(path[n])
        PROVE  \E m \in Node' : path'[m] = SubSeq(path[n], 1, i - 1) /\ <<m, path[n][i]>> \in DOMAIN child'
    BY <2>1, <2>2 DEF TrieInv, PrefixesOK
  <2>4. ASSUME NEW i \in 1 .. Len(q)
        PROVE  \E m \in Node' : path'[m] = SubSeq(q, 1, i - 1) /\ <<m, q[i]>> \in DOMAIN child'
    <3>1. CASE i <= Len(p)
      <4>1. i \in 1 .. Len(p)
        BY <3>1, <1>3
      <4>2. SubSeq(q, 1, i - 1) = SubSeq(p, 1, i - 1) /\ q[i] = p[i]
        BY <4>1, <1>3, Begins
      <4>. QED
        BY <4>1, <4>2, <2>3, <1>2
    <3>2. CASE i = Len(p) + 1
      <4>1. SubSeq(q, 1, i - 1) = p /\ q[i] = c
        BY <3>2, <1>3, BeginsLast
      <4>. QED
        BY <4>1, <2>1, <2>2, <1>2
    <3>3. i <= Len(p) \/ i = Len(p) + 1
      BY <1>3
    <3>. QED
      BY <3>1, <3>2, <3>3
  <2>5. ASSUME NEW n \in Node', NEW i \in 1 .. Len(path'[n])
        PROVE  \E m \in Node' : path'[m] = SubSeq(path'[n], 1, i - 1) /\ <<m, path'[n][i]>> \in DOMAIN child'
    <3>1. CASE n \in Node
      <4>1. path'[n] = path[n]
        BY <3>1, <2>1
      <4>. QED
        BY <4>1, <3>1, <2>3, Zenon
    <3>2. CASE n = nodes
      <4>1. path'[n] = q
        BY <3>2, <1>5
      <4>. QED
        BY <4>1, <2>4, Zenon
    <3>. QED
      BY <3>1, <3>2, <1>4
  <2>. QED
    BY <2>5, Zenon DEF PrefixesOK
<1>10. ValueOK'
  BY <1>1, <1>4 DEF TrieInv, ValueOK
<1>11. WalkOK'
  BY <1>1, <1>2, <1>3, <1>4, <1>5 DEF TrieInv, WalkOK
<1>. QED
  BY <1>7, <1>8, <1>9, <1>10, <1>11 DEF TrieInv

\* The node that the whole key leads to gets the value.
LEMMA AddValueTrie ==
  ASSUME TrieInv, AddValue
  PROVE  TrieInv'
<1>1. /\ node \in Node /\ DOMAIN value' = DOMAIN value \cup {node} /\ call' = "none"
      /\ UNCHANGED <<nodes, child, path>>
  BY DEF AddValue, Done, Returns, With, TrieInv, WalkOK
<1>. QED
  BY <1>1 DEF TrieInv, PathOK, ChildOK, PrefixesOK, ValueOK, WalkOK, Node

\* get_setting returns.
LEMMA GetEndsTrie ==
  ASSUME TrieInv, GetMissing \/ GetValue
  PROVE  TrieInv'
<1>1. UNCHANGED <<nodes, child, value, path>> /\ call' = "none"
  BY DEF GetMissing, GetValue, Returns, trie
<1>. QED
  BY <1>1 DEF TrieInv, PathOK, ChildOK, PrefixesOK, ValueOK, WalkOK, Node

\* Nothing is left after destroy_config.
LEMMA DestroyTrie == DestroyConfig => TrieInv'
BY DEF DestroyConfig, TrieInv, PathOK, ChildOK, PrefixesOK, ValueOK, WalkOK, Node, Empty

\* Every step of the trie keeps the invariant.
LEMMA StepTrie == TrieInv /\ [SettingsNext]_settings => TrieInv'
<1>. SUFFICES ASSUME TrieInv, [SettingsNext]_settings PROVE TrieInv'
  OBVIOUS
<1>1. ASSUME NEW k \in Word, NEW v \in Word, AddSetting(k, v) PROVE TrieInv'
  BY <1>1, AddSettingTrie
<1>2. ASSUME NEW k \in Word, GetSetting(k) PROVE TrieInv'
  BY <1>2, GetSettingTrie
<1>3. CASE Walk
  BY <1>3, FollowTrie, AddMissingTrie, AddValueTrie, GetEndsTrie DEF Walk
<1>4. CASE DestroyConfig
  BY <1>4, DestroyTrie
<1>5. CASE UNCHANGED settings
  BY <1>5 DEF settings, trie, walk, TrieInv, PathOK, ChildOK, PrefixesOK, ValueOK, WalkOK, Node
<1>. QED
  BY <1>1, <1>2, <1>3, <1>4, <1>5 DEF SettingsNext

\* The children are nodes other than the root, and the values are strings.
TrieTables == child \in [DOMAIN child -> 1 .. nodes - 1] /\ value \in [DOMAIN value -> Word]

LEMMA InitTables == SettingsInit => TrieTables
BY DEF SettingsInit, TrieTables, Empty

LEMMA StepTables == TrieInv /\ TrieTables /\ [SettingsNext]_settings => TrieTables'
<1>. SUFFICES ASSUME TrieInv, TrieTables, [SettingsNext]_settings PROVE TrieTables'
  OBVIOUS
<1>1. nodes \in Nat /\ (nodes = 0 => DOMAIN child = {})
  <2>1. nodes \in Nat /\ DOMAIN child \subseteq Node \X Byte
    BY DEF TrieInv, PathOK, ChildOK
  <2>2. nodes = 0 => Node = {}
    BY DEF Node
  <2>. QED
    BY <2>1, <2>2
<1>2. ASSUME UNCHANGED <<child, value>>, nodes' = nodes \/ nodes = 0 PROVE TrieTables'
  <2>1. CASE nodes' = nodes
    BY <1>2, <2>1 DEF TrieTables
  <2>2. CASE nodes = 0
    BY <1>1, <1>2, <2>2 DEF TrieTables
  <2>. QED
    BY <1>2, <2>1, <2>2
<1>3. ASSUME NEW k \in Word, NEW v \in Word, AddSetting(k, v) PROVE TrieTables'
  <2>1. UNCHANGED <<child, value>> /\ (nodes' = nodes \/ nodes = 0)
    BY <1>3 DEF AddSetting
  <2>. QED
    BY <1>2, <2>1
<1>4. ASSUME NEW k \in Word, GetSetting(k) PROVE TrieTables'
  BY <1>2, <1>4 DEF GetSetting, trie
<1>5. CASE AddMissing
  <2>1. child' = With(child, Here, nodes) /\ nodes' = nodes + 1 /\ value' = value /\ node \in Node
    BY <1>5 DEF AddMissing, Reading, TrieInv, WalkOK
  <2>2. nodes \in 1 .. nodes' - 1
    BY <1>1, <2>1 DEF Node
  <2>3. \A x \in DOMAIN child : child[x] \in 1 .. nodes' - 1
    BY <1>1, <2>1 DEF TrieTables
  <2>. QED
    BY <2>1, <2>2, <2>3 DEF TrieTables, With
<1>6. CASE AddValue
  <2>1. value' = With(value, node, val) /\ UNCHANGED <<nodes, child>> /\ val \in Word
    BY <1>6 DEF AddValue, Done, TrieInv, WalkOK
  <2>. QED
    BY <2>1 DEF TrieTables, With
<1>7. CASE AddFollow \/ GetFollow \/ GetMissing \/ GetValue
  BY <1>2, <1>7 DEF AddFollow, GetFollow, GetMissing, GetValue, trie
<1>8. CASE DestroyConfig
  BY <1>8 DEF DestroyConfig, TrieTables, Empty
<1>9. CASE UNCHANGED settings
  BY <1>2, <1>9 DEF settings, trie
<1>. QED
  BY <1>3, <1>4, <1>5, <1>6, <1>7, <1>8, <1>9 DEF SettingsNext, Walk

-----------------------------------------------------------------------------
(* The refinement *)

\* The dictionary of a table of values v, under the strings p.
Under(p, v) ==
  [k \in {p[n] : n \in DOMAIN v} |-> v[CHOOSE n \in DOMAIN v : p[n] = k]]

\* A value is stored under the string of its node.
LEMMA UnderAt ==
  ASSUME NEW p, NEW v, \A m, n \in DOMAIN v : p[m] = p[n] => m = n
  PROVE  /\ DOMAIN Under(p, v) = {p[n] : n \in DOMAIN v}
         /\ \A n \in DOMAIN v : Under(p, v)[p[n]] = v[n]
<1>1. ASSUME NEW n \in DOMAIN v PROVE Under(p, v)[p[n]] = v[n]
  <2>. DEFINE m == CHOOSE x \in DOMAIN v : p[x] = p[n]
  <2>1. m \in DOMAIN v /\ p[m] = p[n]
    OBVIOUS
  <2>2. m = n
    BY <2>1
  <2>. QED
    BY <1>1, <2>2 DEF Under
<1>. QED
  BY <1>1 DEF Under

\* Functions with the same arguments and values are the same.
LEMMA SameUnder ==
  ASSUME NEW p, NEW v, NEW q, NEW w,
         DOMAIN Under(p, v) = DOMAIN Under(q, w),
         \A k \in DOMAIN Under(p, v) : Under(p, v)[k] = Under(q, w)[k]
  PROVE  Under(p, v) = Under(q, w)
BY ZenonT(40) DEF Under

\* The strings of nodes with values are different.
LEMMA Different == TrieInv => \A m, n \in DOMAIN value : path[m] = path[n] => m = n
BY DEF TrieInv, PathOK, ValueOK

\* The value of a node is what is stored under its string.
LEMMA StoredAt ==
  ASSUME TrieInv
  PROVE  /\ DOMAIN Stored = {path[n] : n \in DOMAIN value}
         /\ \A n \in DOMAIN value : Stored[path[n]] = value[n]
<1>1. Stored = Under(path, value)
  BY DEF Stored, Under
<1>2. /\ DOMAIN Under(path, value) = {path[n] : n \in DOMAIN value}
      /\ \A n \in DOMAIN value : Under(path, value)[path[n]] = value[n]
  BY Different, UnderAt, ZenonT(40)
<1>. QED
  BY <1>1, <1>2

\* Nothing is stored, or lost, by a step that leaves values and their strings alone.
LEMMA StoredSame ==
  ASSUME TrieInv, value' = value, \A n \in DOMAIN value : path'[n] = path[n]
  PROVE  Stored' = Stored
<1>1. \A m, n \in DOMAIN value : path'[m] = path'[n] => m = n
  BY Different
<1>2. Under(path, value) = Under(path', value)
  <2>1. /\ DOMAIN Under(path, value) = {path[n] : n \in DOMAIN value}
        /\ \A n \in DOMAIN value : Under(path, value)[path[n]] = value[n]
    BY Different, UnderAt, ZenonT(40)
  <2>2. /\ DOMAIN Under(path', value) = {path'[n] : n \in DOMAIN value}
        /\ \A n \in DOMAIN value : Under(path', value)[path'[n]] = value[n]
    BY <1>1, UnderAt, ZenonT(40)
  <2>3. DOMAIN Under(path, value) = DOMAIN Under(path', value)
    BY <2>1, <2>2
  <2>4. \A k \in DOMAIN Under(path, value) : Under(path, value)[k] = Under(path', value)[k]
    BY <2>1, <2>2
  <2>. QED
    BY <2>3, <2>4, SameUnder
<1>3. Stored = Under(path, value) /\ Stored' = Under(path', value')
  BY DEF Stored, Under
<1>. QED
  BY <1>2, <1>3

\* AddValue puts its value under its key.
LEMMA AddValuePuts ==
  ASSUME TrieInv, AddValue
  PROVE  key \in Word /\ val \in Word /\ Promise!Put(key, val)
<1>1. /\ call = "add" /\ at = Len(key) /\ value' = With(value, node, val)
      /\ UNCHANGED <<path, answer>>
  BY DEF AddValue, Done
<1>2. key \in Word /\ val \in Word /\ node \in Node /\ path[node] = key
  <2>1. /\ key \in Word /\ key \in Seq(Byte) /\ node \in Node
        /\ val \in Word /\ path[node] = SubSeq(key, 1, at)
    BY <1>1 DEF TrieInv, WalkOK
  <2>. QED
    BY <2>1, <1>1, Whole
<1>3. /\ DOMAIN value' = DOMAIN value \cup {node} /\ value'[node] = val
      /\ \A n \in DOMAIN value \ {node} : value'[n] = value[n]
  BY <1>1 DEF With
<1>4. \A m, n \in DOMAIN value' : path[m] = path[n] => m = n
  BY <1>2, <1>3 DEF TrieInv, PathOK, ValueOK
<1>5. /\ DOMAIN Stored' = {path[n] : n \in DOMAIN value'}
      /\ \A n \in DOMAIN value' : Stored'[path[n]] = value'[n]
  <2>1. Stored' = Under(path, value')
    BY <1>1 DEF Stored, Under
  <2>2. /\ DOMAIN Under(path, value') = {path[n] : n \in DOMAIN value'}
        /\ \A n \in DOMAIN value' : Under(path, value')[path[n]] = value'[n]
    BY <1>4, UnderAt, ZenonT(40)
  <2>. QED
    BY <2>1, <2>2
<1>6. /\ DOMAIN Stored = {path[n] : n \in DOMAIN value}
      /\ \A n \in DOMAIN value : Stored[path[n]] = value[n]
  BY StoredAt
<1>7. DOMAIN Stored' = DOMAIN Stored \cup {key}
  BY <1>2, <1>3, <1>5, <1>6
<1>8. Stored'[key] = val
  BY <1>2, <1>3, <1>5
<1>9. ASSUME NEW k \in DOMAIN Stored, k # key PROVE Stored'[k] = Stored[k]
  <2>1. PICK n \in DOMAIN value : k = path[n]
    BY <1>6
  <2>2. n # node
    BY <1>2, <1>9, <2>1
  <2>. QED
    BY <2>1, <2>2, <1>3, <1>5, <1>6
<1>10. Stored' = [x \in DOMAIN Stored' |-> Stored'[x]]
  BY DEF Stored
<1>11. Stored' = [x \in DOMAIN Stored \cup {key} |-> IF x = key THEN val ELSE Stored[x]]
  BY <1>7, <1>8, <1>9, <1>10
<1>. QED
  BY <1>1, <1>2, <1>11 DEF Promise!Put

\* A key that leads nowhere has no value.
LEMMA GetMissingGets ==
  ASSUME TrieInv, GetMissing
  PROVE  key \in Word /\ Promise!Get(key)
<1>1. /\ call = "get" /\ at < Len(key) /\ Here \notin DOMAIN child
      /\ answer' = <<key, Null>> /\ UNCHANGED <<path, value>>
  BY DEF GetMissing, Reading, trie
<1>2. key \in Word /\ key \in Seq(Byte) /\ at \in Nat
  BY <1>1 DEF TrieInv, WalkOK
<1>3. key \notin DOMAIN Stored
  <2>1. Len(key) \in at + 1 .. Len(key) /\ SubSeq(key, 1, Len(key)) = key
    BY <1>1, <1>2, Whole
  <2>2. \A n \in Node : path[n] # key
    BY <2>1, <1>1, Missing
  <2>. QED
    BY <2>2 DEF Stored, TrieInv, ValueOK
<1>4. Stored' = Stored
  BY <1>1, StoredSame
<1>. QED
  BY <1>1, <1>2, <1>3, <1>4 DEF Promise!Get

\* A key that leads to a node has the node's value, or none.
LEMMA GetValueGets ==
  ASSUME TrieInv, GetValue
  PROVE  key \in Word /\ Promise!Get(key)
<1>1. /\ call = "get" /\ at = Len(key) /\ UNCHANGED <<path, value>>
      /\ answer' = <<key, IF node \in DOMAIN value THEN value[node] ELSE Null>>
  BY DEF GetValue, Done, trie
<1>2. key \in Word /\ node \in Node /\ path[node] = key
  <2>1. key \in Word /\ key \in Seq(Byte) /\ node \in Node /\ path[node] = SubSeq(key, 1, at)
    BY <1>1 DEF TrieInv, WalkOK
  <2>. QED
    BY <2>1, <1>1, Whole
<1>3. /\ DOMAIN Stored = {path[n] : n \in DOMAIN value}
      /\ \A n \in DOMAIN value : Stored[path[n]] = value[n]
  BY StoredAt
<1>4. key \in DOMAIN Stored <=> node \in DOMAIN value
  BY <1>2, <1>3 DEF TrieInv, PathOK, ValueOK
<1>5. Stored' = Stored
  BY <1>1, StoredSame
<1>. QED
  BY <1>1, <1>2, <1>3, <1>4, <1>5 DEF Promise!Get

\* The steps before the last one of a call change nothing that is promised;
\* get_setting without a root has nothing to find.
LEMMA OthersStutter ==
  ASSUME TrieInv, AddMissing \/ AddFollow \/ GetFollow
  PROVE  UNCHANGED <<Stored, answer>>
<1>1. value' = value /\ answer' = answer
  BY DEF AddMissing, AddFollow, GetFollow, trie
<1>2. \A n \in DOMAIN value : path'[n] = path[n]
  <2>1. CASE AddMissing
    <3>1. path' = With(path, nodes, Append(path[node], key[at + 1]))
      BY <2>1 DEF AddMissing
    <3>2. nodes \notin Node /\ DOMAIN path = Node /\ DOMAIN value \subseteq Node
      BY DEF TrieInv, PathOK, ValueOK, Node
    <3>. QED
      BY <3>1, <3>2 DEF With
  <2>2. CASE AddFollow \/ GetFollow
    BY <2>2 DEF AddFollow, GetFollow, trie
  <2>. QED
    BY <2>1, <2>2
<1>. QED
  BY <1>1, <1>2, StoredSame

\* add_setting does not put before it has walked the key.
LEMMA AddSettingStutters ==
  ASSUME TrieInv, NEW k \in Word, NEW v \in Word, AddSetting(k, v)
  PROVE  UNCHANGED <<Stored, answer>>
<1>1. value' = value /\ answer' = answer
  BY DEF AddSetting
<1>2. \A n \in DOMAIN value : path'[n] = path[n]
  BY DEF AddSetting, With, TrieInv, PathOK, ValueOK, Node
<1>. QED
  BY <1>1, <1>2, StoredSame

\* get_setting gets nothing at once when there is no root.
LEMMA GetSettingGets ==
  ASSUME TrieInv, NEW k \in Word, GetSetting(k)
  PROVE  Promise!Get(k) \/ UNCHANGED <<Stored, answer>>
<1>1. Stored' = Stored
  BY StoredSame DEF GetSetting, trie
<1>2. CASE nodes = 0
  <2>1. k \notin DOMAIN Stored
    BY <1>2 DEF Stored, TrieInv, ValueOK, Node
  <2>. QED
    BY <1>1, <1>2, <2>1 DEF GetSetting, Promise!Get
<1>3. CASE nodes # 0
  BY <1>1, <1>3 DEF GetSetting
<1>. QED
  BY <1>2, <1>3

\* Without nodes, nothing is stored.
LEMMA NothingStored ==
  ASSUME NEW p, NEW v, v = Empty
  PROVE  Under(p, v) = Promise!NoSettings
BY DEF Under, Empty, Promise!NoSettings

\* destroy_config clears the dictionary.
LEMMA DestroyClears == DestroyConfig => Promise!Clear
<1>. SUFFICES ASSUME DestroyConfig PROVE Promise!Clear
  OBVIOUS
<1>1. Stored' = Under(path', value') /\ value' = Empty
  BY DEF DestroyConfig, Stored, Under
<1>. QED
  BY <1>1, NothingStored DEF DestroyConfig, Promise!Clear, Promise!NoAnswer

\* The first state has an empty dictionary.
LEMMA InitIsEmpty == SettingsInit => Promise!DInit
<1>. SUFFICES ASSUME SettingsInit PROVE Promise!DInit
  OBVIOUS
<1>1. Stored = Under(path, value) /\ value = Empty
  BY DEF SettingsInit, Stored, Under
<1>. QED
  BY <1>1, NothingStored DEF SettingsInit, Promise!DInit, Promise!NoAnswer

\* Every step of the trie is one of the dictionary, or none.
LEMMA StepIsPromised ==
  TrieInv /\ [SettingsNext]_settings => [Promise!DNext]_(Promise!dvars)
<1>. SUFFICES ASSUME TrieInv, [SettingsNext]_settings PROVE [Promise!DNext]_(Promise!dvars)
  OBVIOUS
<1>. USE DEF Promise!DNext, Promise!dvars
<1>1. ASSUME NEW k \in Word, NEW v \in Word, AddSetting(k, v)
      PROVE  [Promise!DNext]_(Promise!dvars)
  BY <1>1, AddSettingStutters
<1>2. ASSUME NEW k \in Word, GetSetting(k) PROVE [Promise!DNext]_(Promise!dvars)
  BY <1>2, GetSettingGets
<1>3. CASE Walk
  BY <1>3, OthersStutter, AddValuePuts, GetMissingGets, GetValueGets DEF Walk
<1>4. CASE DestroyConfig
  BY <1>4, DestroyClears
<1>5. CASE UNCHANGED settings
  <2>1. UNCHANGED <<path, value, answer>>
    BY <1>5 DEF settings, trie
  <2>. QED
    BY <2>1, StoredSame
<1>. QED
  BY <1>1, <1>2, <1>3, <1>4, <1>5 DEF SettingsNext

\* The trie of settings is a dictionary: what is got under a key is what was last
\* put under it (config.c:33-71), whatever the keys and however they overlap.
THEOREM TrieImplements == SettingsSpec => TrieIsDictionary
<1>1. SettingsInit => TrieInv /\ Promise!DInit
  BY InitTrie, InitIsEmpty
<1>. QED
  BY <1>1, StepTrie, StepIsPromised, PTL DEF SettingsSpec, TrieIsDictionary, Promise!DSpec

-----------------------------------------------------------------------------
(* The parser *)

\* A key that no spelling of "true" or "false" is read as.
Unspelled(k) == \A w \in DOMAIN Spellings : k \notin {w} \cup Spellings[w]

\* The rows for the key, among the first n.
Given(f, k, n) == {r \in 0 .. n - 1 : f[3 * r + 1] = k}

\* The dictionary D has the value of the last of them.
Follows(D, f, k, n) ==
  /\ k \in DOMAIN D <=> Given(f, k, n) # {}
  /\ \A r \in Given(f, k, n) :
       (\A m \in Given(f, k, n) : m <= r) => D[k] = Token(f[3 * r + 3])

\* The dictionary, when the row that is being added is there.
Dict == IF call = "add" THEN With(Stored, key, val) ELSE Stored

\* n rows of the file f were read, and m lexemes of another, each in its place.
ReadTo(f, k, n, m) ==
  /\ 3 * n + m <= Len(f) /\ input = SubSeq(f, 3 * n + m + 1, Len(f))
  /\ \A i \in 1 .. 3 * n + m : f[i] = Equals <=> i % 3 = 2
  /\ <<want, m>> \in {<<"key", 0>>, <<"equals", 1>>, <<"value", 2>>}
  /\ m > 0 => left = Token(f[3 * n + 1])
  /\ loaded = "true" => m = 0 /\ 3 * n = Len(f) /\ call # "add"

\* What was read of the file says what is in the trie.
Parsed(f, k) ==
  /\ loaded \in {"parsing", "true", "false"}
  /\ \E n \in Nat, m \in 0 .. 2 : ReadTo(f, k, n, m) /\ Follows(Dict, f, k, n)

\* A token is a word, and those of "true" and "false" are no others' tokens.
LEMMA TokenIs ==
  ASSUME NEW x \in Word
  PROVE  /\ Token(x) \in Word
         /\ \/ Token(x) = x
            \/ \E w \in DOMAIN Spellings : x \in Spellings[w] /\ Token(x) = w
<1>1. CASE \E w \in DOMAIN Spellings : x \in Spellings[w]
  <2>1. \E w \in DOMAIN Spellings : x \in Spellings[w] /\ Token(x) = w
    BY <1>1 DEF Token
  <2>. QED
    BY <2>1, SpellingsAssumption
<1>2. CASE ~\E w \in DOMAIN Spellings : x \in Spellings[w]
  BY <1>2 DEF Token
<1>. QED
  BY <1>1, <1>2

\* One row more.
LEMMA FollowsMore ==
  ASSUME NEW D, NEW k \in Word, Unspelled(k), NEW n \in Nat, NEW f, f[3 * n + 1] \in Word,
         Follows(D, f, k, n)
  PROVE  Follows(With(D, Token(f[3 * n + 1]), Token(f[3 * n + 3])), f, k, n + 1)
<1>. DEFINE x == f[3 * n + 1]
            y == Token(f[3 * n + 3])
            E == With(D, Token(x), y)
            R == Given(f, k, n)
            Q == Given(f, k, n + 1)
<1>1. Token(x) = k <=> x = k
  BY TokenIs DEF Unspelled
<1>2. Q = R \cup (IF x = k THEN {n} ELSE {}) /\ R \subseteq 0 .. n - 1
  <2>1. 0 .. (n + 1) - 1 = (0 .. n - 1) \cup {n}
    OBVIOUS
  <2>. QED
    BY <2>1 DEF Given
<1>3. DOMAIN E = DOMAIN D \cup {Token(x)} /\ E[Token(x)] = y /\ (Token(x) # k /\ k \in DOMAIN D => E[k] = D[k])
  BY DEF With
<1>4. /\ k \in DOMAIN D <=> R # {}
      /\ \A r \in R : (\A m \in R : m <= r) => D[k] = Token(f[3 * r + 3])
  BY DEF Follows
<1>. HIDE DEF x, E, R, Q
<1>5. CASE x = k
  <2>1. Q = R \cup {n} /\ Q # {} /\ k \in DOMAIN E /\ E[k] = y
    BY <1>1, <1>2, <1>3, <1>5
  <2>2. \A r \in Q : (\A m \in Q : m <= r) => r = n
    BY <2>1, <1>2
  <2>3. \A r \in Q : (\A m \in Q : m <= r) => E[k] = Token(f[3 * r + 3])
    BY <2>1, <2>2
  <2>. QED
    BY <2>1, <2>3 DEF Follows, Q, E, x
<1>6. CASE x # k
  <2>1. Q = R /\ (k \in DOMAIN E <=> k \in DOMAIN D) /\ (k \in DOMAIN D => E[k] = D[k])
    BY <1>1, <1>2, <1>3, <1>6
  <2>2. /\ k \in DOMAIN E <=> Q # {}
        /\ \A r \in Q : (\A m \in Q : m <= r) => E[k] = Token(f[3 * r + 3])
    BY <1>4, <2>1
  <2>. QED
    BY <2>2 DEF Follows, Q, E, x
<1>. QED
  BY <1>5, <1>6

\* load_config begins, with a file or without one.
LEMMA LoadParsed ==
  ASSUME NEW file \in Seq(Word) \cup {NoFile}, NEW k, SettingsInit, ConfigInit, LoadConfig(file)
  PROVE  Parsed(IF file = NoFile THEN <<>> ELSE file, k)'
<1>. DEFINE f == IF file = NoFile THEN <<>> ELSE file
<1>1. f \in Seq(Word)
  OBVIOUS
<1>2. /\ call' = "none" /\ want' = "key" /\ input' = f /\ value' = Empty
      /\ loaded' \in {"parsing", "true"} /\ (loaded' = "true" => f = <<>>)
  BY DEF LoadConfig, ConfigInit, SettingsInit, settings, trie, walk
<1>3. DOMAIN Dict' = {}
  BY <1>2 DEF Dict, Stored, Empty
<1>4. input' = SubSeq(f, 3 * 0 + 0 + 1, Len(f)) /\ Len(f) \in Nat /\ (f = <<>> => Len(f) = 0)
  BY <1>1, <1>2
<1>5. Follows(Dict', f, k, 0)
  BY <1>3 DEF Follows, Given
<1>. HIDE DEF f
<1>6. ReadTo(f, k, 0, 0)'
  BY <1>2, <1>4 DEF ReadTo
<1>7. Parsed(f, k)'
  BY <1>2, <1>5, <1>6 DEF Parsed
<1>. QED
  BY <1>7 DEF f

\* Every step of the parser keeps it.
LEMMA ParseParsed ==
  ASSUME NEW f \in Seq(Word), NEW k \in Word, Unspelled(k), TrieInv, Parsed(f, k), call \in {"none", "add"}, Parse
  PROVE  Parsed(f, k)' /\ call' \in {"none", "add"} /\ [SettingsNext]_settings
<1>1. PICK n \in Nat, m \in 0 .. 2 : ReadTo(f, k, n, m) /\ Follows(Dict, f, k, n)
  BY DEF Parsed
<1>2. /\ 3 * n + m \in Nat /\ 3 * n + m <= Len(f) /\ Len(f) \in Nat /\ input = SubSeq(f, 3 * n + m + 1, Len(f))
      /\ \A i \in 1 .. 3 * n + m : f[i] = Equals <=> i % 3 = 2
      /\ <<want, m>> \in {<<"key", 0>>, <<"equals", 1>>, <<"value", 2>>}
      /\ m > 0 => left = Token(f[3 * n + 1])
      /\ loaded = "true" => m = 0 /\ 3 * n = Len(f) /\ call # "add"
  BY <1>1 DEF ReadTo
<1>. DEFINE p == 3 * n + m
<1>0. p \in 0 .. Len(f) /\ input = SubSeq(f, p + 1, Len(f))
  BY <1>2
<1>3. input # <<>> =>
        /\ p + 1 <= Len(f) /\ Head(input) = f[p + 1] /\ f[p + 1] \in Word
        /\ Tail(input) = SubSeq(f, p + 1 + 1, Len(f))
  <2>. HIDE DEF p
  <2>. QED
    BY <1>0, Remainder
<1>4. input = <<>> => p = Len(f)
  <2>. HIDE DEF p
  <2>. QED
    BY <1>0, Remainder
<1>5. Fits => \A i \in 1 .. p + 1 : f[i] = Equals <=> i % 3 = 2
  <2>1. Fits => (f[p + 1] = Equals <=> want = "equals")
    BY <1>3 DEF Fits
  <2>2. want = "equals" <=> m = 1
    BY <1>2
  <2>3. m = 1 <=> (p + 1) % 3 = 2
    OBVIOUS
  <2>4. \A i \in 1 .. p + 1 : i \in 1 .. p \/ i = p + 1
    BY <1>2
  <2>. HIDE DEF p
  <2>5. \A i \in 1 .. p : f[i] = Equals <=> i % 3 = 2
    BY <1>2 DEF p
  <2>. QED
    BY <2>1, <2>2, <2>3, <2>4, <2>5
<1>6. CASE Key \/ EqualsSign
  <2>1. /\ m \in {0, 1} /\ Fits /\ input # <<>> /\ loaded = "parsing" /\ loaded' = loaded /\ call = "none"
        /\ input' = Tail(input) /\ UNCHANGED settings
    BY <1>2, <1>6 DEF Key, EqualsSign, Parsing, Fits, Shift
  <2>2. <<want', m + 1>> \in {<<"key", 0>>, <<"equals", 1>>, <<"value", 2>>} /\ left' = Token(f[3 * n + 1])
    BY <1>2, <1>3, <1>6, <2>1 DEF Key, EqualsSign, Shift
  <2>3. ReadTo(f, k, n, m + 1)'
    <3>1. 3 * n + (m + 1) = p + 1 /\ p + 1 <= Len(f) /\ input' = SubSeq(f, p + 1 + 1, Len(f))
      BY <1>2, <1>3, <2>1
    <3>2. \A i \in 1 .. p + 1 : f[i] = Equals <=> i % 3 = 2
      BY <1>5, <2>1
    <3>. HIDE DEF p
    <3>. QED
      BY <2>1, <2>2, <3>1, <3>2 DEF ReadTo
  <2>4. call' = call /\ Dict' = Dict
    BY <2>1 DEF settings, trie, walk, Dict, Stored
  <2>. QED
    BY <1>1, <2>1, <2>3, <2>4 DEF Parsed
<1>7. CASE Row
  <2>1. /\ m = 2 /\ Fits /\ input # <<>> /\ loaded = "parsing" /\ loaded' = loaded /\ call = "none"
        /\ input' = Tail(input) /\ want' = "key" /\ left = Token(f[3 * n + 1])
        /\ AddSetting(left, Token(Head(input)))
    BY <1>2, <1>7 DEF Row, Parsing, Fits, Shift
  <2>2. f[3 * n + 1] \in Word /\ f[3 * n + 3] \in Word /\ Head(input) = f[3 * n + 3]
    <3>1. 3 * n + 1 \in DOMAIN f
      BY <1>2, <2>1
    <3>. QED
      BY <1>3, <2>1, <3>1
  <2>3. left \in Word /\ Token(Head(input)) \in Word
    BY <2>1, <2>2, TokenIs
  <2>4. ReadTo(f, k, n + 1, 0)'
    <3>. DEFINE q == 3 * (n + 1) + 0
    <3>1. q = p + 1 /\ p + 1 <= Len(f) /\ input' = SubSeq(f, p + 1 + 1, Len(f))
      BY <1>2, <1>3, <2>1
    <3>2. \A i \in 1 .. p + 1 : f[i] = Equals <=> i % 3 = 2
      BY <1>5, <2>1
    <3>3. ~(0 > 0) /\ loaded' # "true" /\ want' = "key"
      BY <2>1
    <3>. HIDE DEF p, q
    <3>4. q <= Len(f) /\ input' = SubSeq(f, q + 1, Len(f)) /\ \A i \in 1 .. q : f[i] = Equals <=> i % 3 = 2
      BY <3>1, <3>2
    <3>. QED
      BY <3>3, <3>4 DEF ReadTo, q
  <2>5. Dict = Stored /\ Dict' = With(Stored, Token(f[3 * n + 1]), Token(f[3 * n + 3])) /\ call' = "add"
    <3>1. Stored' = Stored
      BY <2>1, <2>3, AddSettingStutters
    <3>. QED
      BY <2>1, <2>2, <3>1 DEF AddSetting, Calls, Dict, With
  <2>6. Follows(Dict, f, k, n + 1)'
    BY <1>1, <2>2, <2>5, FollowsMore
  <2>7. SettingsNext
    BY <2>1, <2>3 DEF SettingsNext
  <2>. QED
    BY <2>1, <2>4, <2>5, <2>6, <2>7 DEF Parsed
<1>8. CASE Accept \/ SyntaxError
  <2>1. /\ loaded' \in {"true", "false"} /\ UNCHANGED <<input, want, left, settings>> /\ call = "none"
        /\ loaded' = "true" => input = <<>> /\ want = "key"
    BY <1>8 DEF Accept, SyntaxError, Parsing
  <2>2. call' = call /\ Dict' = Dict
    BY <2>1 DEF settings, trie, walk, Dict, Stored
  <2>3. ReadTo(f, k, n, m)'
    BY <1>2, <1>4, <2>1, <2>2 DEF ReadTo
  <2>. QED
    BY <1>1, <2>1, <2>2, <2>3 DEF Parsed
<1>9. CASE loaded = "parsing" /\ Walk /\ UNCHANGED config
  <2>1. /\ loaded = "parsing" /\ loaded' = loaded /\ UNCHANGED <<input, want, left>> /\ call = "add"
        /\ (AddMissing \/ AddFollow \/ AddValue)
    <3>1. AddMissing \/ AddFollow \/ AddValue => call = "add"
      BY DEF AddMissing, AddFollow, AddValue, Reading, Done
    <3>2. GetFollow \/ GetMissing \/ GetValue => call = "get"
      BY DEF GetFollow, GetMissing, GetValue, Reading, Done
    <3>. QED
      BY <1>9, <3>1, <3>2 DEF config, Walk
  <2>2. ReadTo(f, k, n, m)'
    BY <1>2, <2>1 DEF ReadTo
  <2>3. Dict' = Dict /\ call' \in {"none", "add"}
    <3>1. CASE AddMissing \/ AddFollow
      <4>1. Stored' = Stored
        BY <3>1, OthersStutter
      <4>2. call' = call /\ key' = key /\ val' = val
        BY <3>1 DEF AddMissing, AddFollow, Go
      <4>. QED
        BY <2>1, <4>1, <4>2 DEF Dict, With
    <3>2. CASE AddValue
      <4>1. Stored' = With(Stored, key, val)
        BY <3>2, AddValuePuts DEF Promise!Put, With
      <4>2. call' = "none"
        BY <3>2 DEF AddValue, Returns
      <4>. QED
        BY <2>1, <4>1, <4>2 DEF Dict
    <3>. QED
      BY <2>1, <3>1, <3>2
  <2>4. SettingsNext
    BY <1>9 DEF SettingsNext
  <2>. QED
    BY <1>1, <2>1, <2>2, <2>3, <2>4 DEF Parsed
<1>. QED
  BY <1>6, <1>7, <1>8, <1>9 DEF Parse

=============================================================================
