------------------------------- MODULE Config --------------------------------
(***************************************************************************)
(* load_config (config.c): the parser of ~/.histx.  The file is the         *)
(* sequence of its lexemes; white space between them is gone.               *)
(***************************************************************************)
EXTENDS Settings

CONSTANTS
  Equals,      \* the lexeme "="
  Spellings,   \* for each of "true" and "false", how it may be spelled
  NoFile       \* there is no ~/.histx, or it cannot be opened

ASSUME EqualsAssumption == Equals \in Word
ASSUME SpellingsAssumption ==
  /\ DOMAIN Spellings \subseteq Word
  /\ \A w \in DOMAIN Spellings : Spellings[w] \subseteq Word

VARIABLES
  loaded,      \* "no", "parsing", then what load_config returned
  input,       \* what yylex has not seen
  want,        \* what the grammar wants next
  left,        \* the value of the first token of the row
  rows         \* whether there was a row

config == <<loaded, input, want, left, rows>>

ConfigInit ==
  /\ loaded = "no" /\ input = <<>> /\ want = "key" /\ left = <<>> /\ rows = FALSE

ForgetConfig ==
  /\ loaded' = "no" /\ input' = <<>> /\ want' = "key" /\ left' = <<>> /\ rows' = FALSE

LoadConfig(file) ==
  /\ loaded = "no"
  /\ IF file = NoFile
     THEN loaded' = "true" /\ UNCHANGED <<input, want, left, rows>>
     ELSE loaded' = "parsing" /\ input' = file /\ UNCHANGED <<want, left, rows>>
  /\ UNCHANGED settings

\* yylex: the token of a lexeme; "true" and "false" have one spelling, in keys too.
Token(x) ==
  IF \E w \in DOMAIN Spellings : x \in Spellings[w]
  THEN CHOOSE w \in DOMAIN Spellings : x \in Spellings[w]
  ELSE x

Parsing == loaded = "parsing" /\ call = "none"

Fits == input # <<>> /\ (want = "equals" <=> Head(input) = Equals)

Shift(next) == want' = next /\ input' = Tail(input) /\ UNCHANGED loaded

Key ==
  /\ Parsing /\ Fits /\ want = "key"
  /\ Shift("equals")
  /\ left' = Token(Head(input))
  /\ UNCHANGED <<rows, settings>>

EqualsSign ==
  /\ Parsing /\ Fits /\ want = "equals"
  /\ Shift("value")
  /\ UNCHANGED <<left, rows, settings>>

\* A bug: the row is built from current_token, not from its own tokens.
RowOfLastToken ==
  /\ Parsing /\ Fits /\ want = "value"
  /\ Shift("key")
  /\ rows' = TRUE
  /\ AddSetting(Token(Head(input)), Token(Head(input)))
  /\ UNCHANGED left

\* The row is reduced, without a look ahead, as soon as its value is there.
Row ==
  /\ Parsing /\ Fits /\ want = "value"
  /\ Shift("key")
  /\ rows' = TRUE
  /\ AddSetting(left, Token(Head(input)))
  /\ UNCHANGED left

\* The grammar asks for one row at least: an empty file is a syntax error.
Accept ==
  /\ Parsing /\ input = <<>> /\ want = "key" /\ rows
  /\ loaded' = "true"
  /\ UNCHANGED <<input, want, left, rows, settings>>

\* The rows before the error stay.
SyntaxError ==
  /\ Parsing /\ ~Fits /\ ~(input = <<>> /\ want = "key" /\ rows)
  /\ loaded' = "false"
  /\ UNCHANGED <<input, want, left, rows, settings>>

Parse ==
  \/ Key \/ EqualsSign \/ Row \/ Accept \/ SyntaxError
  \/ loaded = "parsing" /\ Walk /\ UNCHANGED config

=============================================================================
