------------------------------- MODULE Ngram ---------------------------------
(***************************************************************************)
(* gen_ngrams (ngram.c) for n = 3, where char is signed.  A uint32_t is     *)
(* written as the int32_t with the same bits, which is what bind_int        *)
(* stores.                                                                  *)
(***************************************************************************)
EXTENDS Integers, Sequences

Char == -128 .. 127

\* x | c, where the low byte of x is zero and c is sign-extended.
Or(x, c) == IF c < 0 THEN c ELSE x + c

\* A bug: the first n-gram comes one character too late.
LateNgrams(str) ==
  LET ngram[i \in 0 .. Len(str)] ==
        IF i = 0 THEN 0 ELSE Or((ngram[i - 1] % 2^16) * 256, str[i])
  IN {ngram[i] : i \in 4 .. Len(str)}

\* The values handed to the handler: after each character from the third on,
\* ngram = ((ngram << 8) & 0xffffff) | character.
Ngrams(str) ==
  LET ngram[i \in 0 .. Len(str)] ==
        IF i = 0 THEN 0 ELSE Or((ngram[i - 1] % 2^16) * 256, str[i])
  IN {ngram[i] : i \in 3 .. Len(str)}

\* "ngram = %u" for a stored value: as no stored value is above 2^31, one that was
\* stored as negative is not found.
Queried(strings) == {q \in UNION {Ngrams(str) : str \in strings} : q >= 0}

=============================================================================
