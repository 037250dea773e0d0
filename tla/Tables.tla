------------------------------- MODULE Tables --------------------------------
(***************************************************************************)
(* Tables that are filled one entry at a time (the children of a trie node  *)
(* in config.c, the goto table in acs.c): an entry that is still NULL or -1 *)
(* is outside the domain.                                                   *)
(***************************************************************************)

Empty == [x \in {} |-> x]

\* The table with y as its entry x, which may be a new one.
With(table, x, y) ==
  [z \in DOMAIN table \cup {x} |-> IF z = x THEN y ELSE table[z]]

=============================================================================
