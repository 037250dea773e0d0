----------------------------- MODULE MCHistory ------------------------------
(* Small instances of History. *)
EXTENDS History, TLC

CONSTANTS c1, c2, g1, g2

\* c1 repeats an n-gram ("aaaa"), and shares one with c2.
TwoCmds == {c1, c2}
TwoGrams == {g1, g2}
LongGrams == c1 :> <<g1, g1>> @@ c2 :> <<g1, g2>>

\* For more processes: a command too short to have an n-gram, and one of three
\* characters.
ShortGrams == c1 :> <<>> @@ c2 :> <<g1>>

\* For liveness: a single command.
OneCmd == {c2}
OneLong == c2 :> <<g1, g2>>
=============================================================================
