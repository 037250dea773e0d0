---------------------------- MODULE CommandIndex ----------------------------
(***************************************************************************)
(* What the command history promises its user, with no processes, locks or  *)
(* tables: a set of entries, some of them marked to be pruned, some of them *)
(* searchable by every n-gram they have.  An entry, once searchable, stays  *)
(* so until it is pruned; entries go only all marked ones at a time.        *)
(***************************************************************************)

CONSTANT Cmd

VARIABLES entries, marks, searchable

avars == <<entries, marks, searchable>>

AInit == entries = {} /\ marks = {} /\ searchable = {}

\* The command is in the history at once; it may be searchable at once when
\* n-grams of an earlier entry are still there, or when it has none.
Record(c) ==
  /\ entries' = entries \cup {c}
  /\ searchable' \in {searchable, searchable \cup {c}}
  /\ UNCHANGED marks

\* The last n-gram of an entry is in.
Complete(c) ==
  /\ c \in entries
  /\ searchable' = searchable \cup {c}
  /\ UNCHANGED <<entries, marks>>

Mark(c) == marks' = marks \cup {c} /\ UNCHANGED <<entries, searchable>>

Unmark(c) == marks' = marks \ {c} /\ UNCHANGED <<entries, searchable>>

Prune ==
  /\ entries' = entries \ marks
  /\ searchable' = searchable \ marks
  /\ marks' = {}

ANext ==
  \/ \E c \in Cmd : Record(c) \/ Complete(c) \/ Mark(c) \/ Unmark(c)
  \/ Prune

ASpec == AInit /\ [][ANext]_avars

=============================================================================
