-------------------------------- MODULE Find ---------------------------------
(***************************************************************************)
(* find_cmd (find.c): which entries answer a search, and in which order.    *)
(* With a keyword of three characters or more, those that share n-grams     *)
(* with the keywords, by number; else, if some keyword has a character,     *)
(* those in which the matcher finds a keyword, newest first.                *)
(*                                                                          *)
(* A command stands for its hash.  Its row in cmdraw has a time stamp, which *)
(* other rows may share, and the encoded text.                              *)
(***************************************************************************)
EXTENDS AhoCorasick, Ngram, Base64, FiniteSets

ASSUME InvalidAssumption == Invalid \notin Seq(Char)
\* As many keywords of two characters as out has bits: links can name their states.
ASSUME FewAssumption == 2 * OutBits <= MaxFail

VARIABLES
  raw,            \* cmdraw: a function from commands to their time stamp and text
  lut,            \* cmdlut: pairs of an n-gram and a command
  SEARCH_LIMIT,
  find,           \* where find_cmd is, or what it returned
  unseen,         \* the rows that the query has still to hand to find_handler
  hits            \* what hit_handler was given

found == <<find, unseen, hits>>

SearchInit ==
  /\ keywords = <<>> /\ find = "none" /\ unseen = {} /\ hits = <<>>
  /\ MachineInit

Strings == {keywords[i] : i \in DOMAIN keywords}

universe == \A k \in Strings : Len(k) <= 2

FindCmd(kws) ==
  /\ find = "none"
  /\ keywords' = kws /\ hits' = <<>> /\ unseen' = {}
  /\ find' = IF \A i \in DOMAIN kws : kws[i] = <<>> THEN "false" ELSE "start"
  /\ UNCHANGED machine

\* The machine is built first, if there is one to build.
StartBuild ==
  /\ find = "start" /\ universe
  /\ find' = "build"
  /\ BuildGoto
  /\ UNCHANGED <<keywords, unseen, hits>>

BuildStep ==
  /\ find = "build" /\ (Build \/ Outside)
  /\ UNCHANGED <<keywords, found>>

TooLarge ==
  /\ find = "build" /\ acs = "refused"
  /\ find' = "false"
  /\ FreeGoto
  /\ UNCHANGED <<keywords, unseen, hits>>

\* The number of n-grams of the keywords that find the command.
Rank(c) == Cardinality({q \in Queried(Strings) : <<q, c>> \in lut})

\* sqlite3_exec starts to step the query, or fails: the database may be busy.
MayQuery == IF universe THEN find = "build" /\ acs = "built" ELSE find = "start"

Query ==
  /\ MayQuery
  /\ find' = "rows"
  /\ unseen' = {c \in DOMAIN raw : universe \/ Rank(c) > 0}
  /\ UNCHANGED <<keywords, hits, machine>>

QueryFails ==
  /\ MayQuery
  /\ find' = "false"
  /\ UNCHANGED <<keywords, unseen, hits, machine>>

\* A bug: "desc" is missing after ts.
BeforeOldest(c, d) ==
  IF universe \/ Rank(c) = Rank(d)
  THEN raw[c].ts < raw[d].ts
  ELSE Rank(c) > Rank(d)

\* The order of the rows: "order by rank desc, ts desc", or only the latter.
Before(c, d) ==
  IF universe \/ Rank(c) = Rank(d)
  THEN raw[c].ts > raw[d].ts
  ELSE Rank(c) > Rank(d)

NextRows == {c \in unseen : \A d \in unseen : ~Before(d, c)}

Hands(c) == unseen' = unseen \ {c}

Hit(t) == hits' = Append(hits, t)

\* One row of the n-gram query, which has the limit in it.
LutRow ==
  /\ find = "rows" /\ ~universe /\ Len(hits) < SEARCH_LIMIT
  /\ \E c \in NextRows : Hands(c) /\ Hit(Decode(raw[c].text))
  /\ UNCHANGED <<find, keywords, machine>>

\* A bug: the handler does not count the hits.
UniverseRowUnlimited ==
  /\ find = "rows" /\ universe
  /\ \E c \in NextRows :
       LET cmd == Decode(raw[c].text)
       IN /\ Hands(c)
          /\ IF cmd = Invalid
             THEN find' = "crashed" /\ acs = "built" /\ UNCHANGED machine
             ELSE find' = "match" /\ StringMatches(cmd)
  /\ UNCHANGED <<keywords, hits>>

\* One row of the universe: the handler starts to match its command.
UniverseRow ==
  /\ find = "rows" /\ universe /\ Len(hits) < SEARCH_LIMIT
  /\ \E c \in NextRows :
       LET cmd == Decode(raw[c].text)
       IN /\ Hands(c)
          /\ IF cmd = Invalid
             THEN find' = "crashed" /\ acs = "built" /\ UNCHANGED machine
             ELSE find' = "match" /\ StringMatches(cmd)
  /\ UNCHANGED <<keywords, hits>>

MatchStep ==
  /\ find = "match" /\ (Match \/ Outside)
  /\ UNCHANGED <<keywords, found>>

MatchDone ==
  /\ find = "match"
  /\ find' = "rows"
  /\ IF acs = "hit" THEN Hit(text) ELSE UNCHANGED hits
  /\ MatchReturns
  /\ UNCHANGED <<keywords, unseen>>

\* There are no more rows, or the limit stops the query: SQLITE_ABORT is success.
Full ==
  /\ find = "rows" /\ (unseen = {} \/ Len(hits) = SEARCH_LIMIT)
  /\ find' = "true"
  /\ FreeGoto
  /\ UNCHANGED <<keywords, unseen, hits>>

Lost ==
  /\ find \in {"build", "match"} /\ acs = "outside"
  /\ find' = "undefined"
  /\ UNCHANGED <<keywords, unseen, hits, machine>>

\* The caller goes on.
ForgetSearch ==
  /\ find' = "none" /\ unseen' = {} /\ hits' = <<>> /\ keywords' = <<>>
  /\ FreeGoto

FindReturns == find \in {"true", "false"} /\ ForgetSearch

FindStep ==
  /\ \/ StartBuild \/ BuildStep \/ TooLarge \/ Query \/ QueryFails
     \/ LutRow \/ UniverseRow \/ MatchStep \/ MatchDone \/ Full \/ Lost
  /\ UNCHANGED <<raw, lut, SEARCH_LIMIT>>

-----------------------------------------------------------------------------
(* Properties *)

Hits == {hits[i] : i \in DOMAIN hits}

\* find_cmd hands over stored commands, as they were indexed, each once and no
\* more than SEARCH_LIMIT of them (find.c:78, find.c:19): the arrays of explore
\* have no room for more.
HitsSound ==
  Hits \subseteq DOMAIN raw /\ Cardinality(Hits) = Len(hits) /\ Len(hits) <= SEARCH_LIMIT

Holds(c, w) == \E i \in DOMAIN c : EndsWith(SubSeq(c, 1, i), keywords[w])

\* Between two rows of the search of the universe, every row so far with a tested
\* keyword in it was hit, every hit has a keyword in it, and the rows still to come
\* are no newer (find.c:77-87), as long as the links are as wide as the machine.
UniverseExact ==
  find = "rows" /\ universe /\ Narrow =>
    \A c \in DOMAIN raw \ unseen :
      /\ (\E w \in Tested : Holds(c, w)) => c \in Hits
      /\ c \in Hits => \E w \in DOMAIN keywords : Holds(c, w)
      /\ \A d \in unseen : raw[c].ts >= raw[d].ts

\* As many short keywords as out has bits, none of them empty, over commands without
\* foreign characters: the search stays defined and hits exactly the rows with a
\* keyword in them (acs.c:110-136, find.c:77-87).
FewAreExact ==
  /\ Len(keywords) <= OutBits /\ <<>> \notin Strings
  /\ \A t \in Strings \cup DOMAIN raw : ~Foreign(t)
  => /\ find # "undefined"
     /\ find = "rows" /\ universe =>
          \A c \in DOMAIN raw \ unseen : c \in Hits <=> \E w \in DOMAIN keywords : Holds(c, w)

Windows(t) == {SubSeq(t, i, i + 2) : i \in 1 .. Len(t) - 2}

ASCII == 1 .. 127

InASCII(t) == \A i \in DOMAIN t : t[i] \in ASCII

\* A search by n-grams leaves out an entry that has every long keyword in it only
\* for as many others, none of them older, that have the same n-grams
\* (find.c:13-21, 116).
NothingLeftOut ==
  LET wanted == UNION {Windows(k) : k \in Strings}
  IN find = "true" /\ ~universe /\ (\A k \in Strings : InASCII(k)) =>
       \A c \in DOMAIN raw \ Hits :
         wanted \subseteq Windows(c) =>
           /\ Len(hits) = SEARCH_LIMIT
           /\ \A h \in Hits : wanted \subseteq Windows(h) /\ raw[h].ts >= raw[c].ts

\* Only a command without a character makes find_cmd fail on what it decodes
\* (find.c:82): what stands in cmdraw for any other is a command again.
OnlyEmptyCrashes == find = "crashed" => <<>> \in DOMAIN raw

\* A command finds itself: "Find anything in your command history" (README.md:4),
\* and the test of find_cmd (test.c:95) searches for what it indexed.
FindsItself ==
  find = "true" /\ Len(keywords) = 1 /\ Strings \subseteq DOMAIN raw /\ ~universe
     => keywords[1] \in Hits \/ Len(hits) = SEARCH_LIMIT

=============================================================================
