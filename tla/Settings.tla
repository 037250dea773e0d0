------------------------------ MODULE Settings -------------------------------
(***************************************************************************)
(* The settings (config.c): a trie, walked one character at a time by       *)
(* add_setting and get_setting.  Characters are those of ASCII: children is *)
(* indexed by a char, which may be negative beyond.                         *)
(***************************************************************************)
EXTENDS Integers, Sequences, Tables

CONSTANTS
  Byte,     \* characters
  Word,     \* strings: keys and values
  Null      \* no value

ASSUME WordAssumption == Word \subseteq Seq(Byte)

VARIABLES
  nodes,    \* the number of trie nodes: 0 when root is NULL, else node 0 is the root
  child,    \* child[n, c] is the child of node n for the character c
  value,    \* the values that are not NULL
  path,     \* history variable: the characters that lead to a node
  call,     \* the function that is walking the trie
  key, val, \* its arguments
  node, at, \* where it is, and how much of the key is behind it
  answer    \* the key of the last get_setting, and what it returned

trie == <<nodes, child, value, path>>
walk == <<call, key, val, node, at>>
settings == <<trie, walk, answer>>

SettingsInit ==
  /\ nodes = 0 /\ child = Empty /\ value = Empty /\ path = Empty
  /\ call = "none" /\ key = <<>> /\ val = <<>> /\ node = 0 /\ at = 0
  /\ answer = <<<<>>, Null>>

Calls(fn, k, v) ==
  /\ call = "none"
  /\ call' = fn /\ key' = k /\ val' = v /\ node' = 0 /\ at' = 0

Returns == call' = "none" /\ UNCHANGED <<key, val, node, at>>

Go(n) == node' = n /\ at' = at + 1 /\ UNCHANGED <<call, key, val>>

\* add_setting: the first one creates the root.
AddSetting(k, v) ==
  /\ Calls("add", k, v)
  /\ IF nodes = 0
     THEN nodes' = 1 /\ path' = With(path, 0, <<>>)
     ELSE UNCHANGED <<nodes, path>>
  /\ UNCHANGED <<child, value, answer>>

Reading(fn) == call = fn /\ at < Len(key)

Done(fn) == call = fn /\ at = Len(key)

Here == <<node, key[at + 1]>>

\* A bug: a missing child is hung on the root.
AddMissingAtRoot ==
  /\ Reading("add")
  /\ Here \notin DOMAIN child
  /\ child' = With(child, <<0, key[at + 1]>>, nodes)
  /\ path' = With(path, nodes, Append(path[node], key[at + 1]))
  /\ nodes' = nodes + 1
  /\ Go(nodes)
  /\ UNCHANGED <<value, answer>>

AddMissing ==
  /\ Reading("add")
  /\ Here \notin DOMAIN child
  /\ child' = With(child, Here, nodes)
  /\ path' = With(path, nodes, Append(path[node], key[at + 1]))
  /\ nodes' = nodes + 1
  /\ Go(nodes)
  /\ UNCHANGED <<value, answer>>

AddFollow ==
  /\ Reading("add")
  /\ Here \in DOMAIN child
  /\ Go(child[Here])
  /\ UNCHANGED <<trie, answer>>

\* The old value, if any, is freed and replaced.
AddValue ==
  /\ Done("add")
  /\ value' = With(value, node, val)
  /\ Returns
  /\ UNCHANGED <<nodes, child, path, answer>>

\* get_setting without a root is NULL at once.
GetSetting(k) ==
  /\ UNCHANGED trie
  /\ IF nodes = 0
     THEN call = "none" /\ answer' = <<k, Null>> /\ UNCHANGED walk
     ELSE Calls("get", k, <<>>) /\ UNCHANGED answer

GetFollow ==
  /\ Reading("get")
  /\ Here \in DOMAIN child
  /\ Go(child[Here])
  /\ UNCHANGED <<trie, answer>>

GetMissing ==
  /\ Reading("get")
  /\ Here \notin DOMAIN child
  /\ answer' = <<key, Null>>
  /\ Returns
  /\ UNCHANGED trie

GetValue ==
  /\ Done("get")
  /\ answer' = <<key, IF node \in DOMAIN value THEN value[node] ELSE Null>>
  /\ Returns
  /\ UNCHANGED trie

Walk == AddMissing \/ AddFollow \/ AddValue \/ GetFollow \/ GetMissing \/ GetValue

\* destroy_config frees every node, root included, which it leaves dangling
\* (config.c:101-103): nothing is called after it, as the process ends there.
DestroyConfig ==
  /\ call = "none"
  /\ nodes' = 0 /\ child' = Empty /\ value' = Empty /\ path' = Empty
  /\ call' = "none" /\ key' = <<>> /\ val' = <<>> /\ node' = 0 /\ at' = 0
  /\ answer' = <<<<>>, Null>>

SettingsNext ==
  \/ \E k \in Word : GetSetting(k) \/ \E v \in Word : AddSetting(k, v)
  \/ Walk
  \/ DestroyConfig

SettingsSpec == SettingsInit /\ [][SettingsNext]_settings

-----------------------------------------------------------------------------
(* Properties *)

\* The dictionary that the trie holds.
Stored ==
  [k \in {path[n] : n \in DOMAIN value} |->
     value[CHOOSE n \in DOMAIN value : path[n] = k]]

Promise == INSTANCE Dictionary WITH dict <- Stored

\* trie_add and trie_get are a dictionary, whatever prefixes the keys share
\* and whatever was added before, with all the nodes they pass through.
TrieIsDictionary == Promise!DSpec

=============================================================================
