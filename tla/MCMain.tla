------------------------------- MODULE MCMain --------------------------------
(* Small instances of Main. *)
EXTENDS Main, TLC

a == 97
b == 98
c == 99

\* "s" is a prefix of "sl", which stands for "search-limit".
K == <<115>>
SL == <<115, 108>>
Sign == <<61>>
TrueWord == <<116>>
One == <<49>>
Two == <<50>>
Three == <<51>>
Nine == <<57>>

MCByte == {49, 50, 51, 57, 61, 84, 108, 115, 116}
MCWord == {K, SL, Sign, TrueWord, <<84>>, One, Two, Three, Nine}
MCSpellings == TrueWord :> {TrueWord, <<84>>}
MCNumber == One :> 1 @@ Two :> 2 @@ Three :> 3 @@ Nine :> 9

Plain == <<SL, Sign, Three>>
Files == {
  NoFile, <<>>, Plain,
  <<K, Sign, Nine, SL, Sign, Three, K, Sign, <<84>>>>,
  <<SL, Sign, Three, SL, Sign, Nine>>,
  <<SL, Sign, Three, SL, Sign>>}

Job(command, args, file, in) == [command |-> command, args |-> args, file |-> file, input |-> in]

\* The fifteenth state is <<b>>.  A link to it from the third, <<a, b>>, comes out as
\* one to the third itself, which has no bit and so never ends a match.
Circular == <<
  <<c>>, <<c>>, <<a, b>>, <<32, 32>>, <<c, a>>, <<c, c>>, <<c, b>>, <<c, 32>>, <<a, a>>, <<a, c>>,
  <<a, 32>>, <<32, a>>, <<32, c>>, <<b>>>>

\* Short keywords with characters in common, or without a column, more of them than
\* out has bits, than an int has, and than build_goto takes; then some with n-grams.
Keywords == {
  <<>>, <<<<>>>>, <<<<a>>>>, <<<<a, b>>>>, <<<<b>>, <<-61, -87>>>>, <<<<b>>, <<a, b>>>>, <<<<>>, <<b>>>>,
  <<<<b, b>>, <<b, b>>, <<a>>>>,
  <<<<a, a>>, <<a, b>>, <<a, 32>>, <<a, 10>>, <<b, a>>>>,
  <<<<a>>, <<b>>, <<a>>, <<b>>, <<32>>>>, Circular, [i \in 1 .. 15 |-> <<a>>],
  <<<<a, b, a>>>>, <<<<a, b, a, b>>, <<b>>>>, <<<<b, b, b>>, <<a, b, a>>>>}

MCJobs ==
  {Job("find", kws, NoFile, <<>>) : kws \in Keywords}
  \cup {Job("cat", <<>>, file, <<>>) : file \in Files}
  \cup {Job("find", kws, Plain, <<>>) : kws \in {<<<<a>>>>, <<<<a, b, a>>>>}}
  \cup {Job("index", <<x>>, NoFile, <<>>) : x \in {<<>>, <<a>>, <<a, 10, b>>, <<a, b, a, b>>, <<a, -61, -87>>}}
  \cup {Job("index", <<<<45>>>>, Plain, <<<<a, b, 10>>, <<10>>, <<b, b, b>>>>),
        Job("index", <<>>, Plain, <<>>),
        Job("index", <<<<b, b>>, <<a, b, a>>>>, Plain, <<>>),
        Job("explore", <<>>, Plain, <<34, a, 34, a, 127>>),
        Job("explore", <<>>, Plain, <<a, b, 32, b>>),
        Job("explore", <<>>, NoFile, <<11, a, 32, 0, 12>>),
        Job("prune", <<>>, NoFile, <<b, 127, a, 127>>),
        Job("usage", <<>>, NoFile, <<>>)}

MCDash == <<45>>

MCDatabases == {
  <<>>,
  <<a>> :> 1 @@ <<b, a>> :> 1 @@ <<a, a, b>> :> 2 @@ <<b, b>> :> 3,
  <<a, b, a, b>> :> 1 @@ <<a, b, a>> :> 2 @@ <<b, a, b, b>> :> 2,
  <<a>> :> 1 @@ <<a, b, a>> :> 1 @@ <<b, a, b, a>> :> 2 @@ <<a, b, a, a>> :> 3 @@ <<a, a>> :> 3}

\* Commands in UTF-8: two letters of two bytes each, alone and after others.
Accented == {<<-61, -87, -61, -87>>, <<a, b, a, -61, -87>>, <<a, b, a, b>>}

ForeignJobs ==
  {Job("index", <<x>>, NoFile, <<>>) : x \in Accented}
  \cup {Job("find", <<x>>, NoFile, <<>>) : x \in Accented}

EmptyDatabase == {<<>>}

-----------------------------------------------------------------------------
(* The matcher with longer keywords than find_cmd has for it. *)

MCLists == {
  <<<<a, a, b>>, <<a, b>>>>, <<<<a, a, a, b>>, <<a, b>>>>, <<<<a, b, a, b>>, <<b>>>>, <<<<a, a, a>>, <<b, a>>>>,
  <<<<a, b, a>>, <<b>>>>, <<<<a, b, a, b>>, <<b, a, a>>>>, <<<<>>, <<b, b>>>>,
  <<[i \in 1 .. 13 |-> a], [i \in 1 .. 13 |-> b]>>}

MCTexts == UNION {[1 .. n -> {a, b}] : n \in 0 .. 4}

\* No process runs any more; another program calls acs.h.
Alone == main = "shell" /\ keywords # <<>>

MatcherAlone ==
  /\ Alone /\ MachineNext
  /\ UNCHANGED <<main, process, database, others, typing, found>>

AloneInit ==
  /\ main = "shell" /\ job = None /\ runs = MaxRuns /\ status = "ok"
  /\ raw = Empty /\ lut = {}
  /\ SEARCH_LIMIT = Default /\ rest = <<>> /\ line = <<>>
  /\ SettingsInit /\ ConfigInit
  /\ find = "none" /\ unseen = {} /\ hits = <<>>
  /\ keywords \in MCLists /\ MachineInit

MCInit == Init \/ AloneInit

MCNext == Next \/ MatcherAlone

MCSpec == MCInit /\ [][MCNext]_vars /\ WF_vars(Step)

=============================================================================
