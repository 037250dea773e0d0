----------------------------- MODULE Dictionary ------------------------------
(***************************************************************************)
(* What the settings promise: a dictionary.  The last value put under a key *)
(* is the one that is got, and no key disturbs another, however much their  *)
(* spellings have in common.                                                *)
(***************************************************************************)
CONSTANTS
  Word,    \* keys and values
  Null     \* what is got where nothing was put

VARIABLES
  dict,    \* a function from the keys put so far to their values
  answer   \* the last key asked for, and what was got

dvars == <<dict, answer>>

NoSettings == [k \in {} |-> Null]
NoAnswer == <<<<>>, Null>>

DInit == dict = NoSettings /\ answer = NoAnswer

Put(k, v) ==
  /\ dict' = [x \in DOMAIN dict \cup {k} |-> IF x = k THEN v ELSE dict[x]]
  /\ UNCHANGED answer

Get(k) ==
  /\ answer' = <<k, IF k \in DOMAIN dict THEN dict[k] ELSE Null>>
  /\ UNCHANGED dict

Clear == dict' = NoSettings /\ answer' = NoAnswer

DNext == \/ \E k \in Word : Get(k) \/ \E v \in Word : Put(k, v)
         \/ Clear

DSpec == DInit /\ [][DNext]_dvars

=============================================================================
