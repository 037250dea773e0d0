------------------------------- MODULE Base64 --------------------------------
(***************************************************************************)
(* base64.c, which stands between a command and the table that keeps it.    *)
(* A symbol is its place in base64_table; Pad is '='.                       *)
(***************************************************************************)
EXTENDS Integers, Sequences, FiniteSets

CONSTANT Invalid    \* what base64_decode returns on failure: a null pointer

Pad == 64

Encode(src) ==
  LET len == Len(src)
      quads == (len + 2) \div 3
      in(i) == IF i <= len THEN src[i] % 256 ELSE 0
      bits(b, k) ==
        CASE k = 0 -> in(b + 1) \div 4
          [] k = 1 -> (in(b + 1) % 4) * 16 + in(b + 2) \div 16
          [] k = 2 -> (in(b + 2) % 16) * 4 + in(b + 3) \div 64
          [] k = 3 -> in(b + 3) % 64
      symbols == [i \in 1 .. 4 * quads |-> bits(3 * ((i - 1) \div 4), (i - 1) % 4)]
  IN [i \in 1 .. 4 * quads |-> IF i > 4 * quads - (3 * quads - len) THEN Pad ELSE symbols[i]]

Signed(b) == IF b > 127 THEN b - 256 ELSE b

\* The bytes of the quads up to and with the first that is padded.
Bytes(src, quads) ==
  LET at(i) == src[i] % Pad
      byte(q, k) ==
        CASE k = 0 -> at(q + 1) * 4 + at(q + 2) \div 16
          [] k = 1 -> (at(q + 2) % 16) * 16 + at(q + 3) \div 4
          [] k = 2 -> (at(q + 3) % 4) * 64 + at(q + 4)
  IN [i \in 1 .. 3 * quads |-> Signed(byte(4 * ((i - 1) \div 3), (i - 1) % 3))]

\* A bug: a second symbol of padding is a failure.
DecodeOnePad(src) ==
  LET pads == Cardinality({i \in DOMAIN src : src[i] = Pad})
  IN IF src = <<>> \/ Len(src) % 4 # 0 \/ pads > 1 THEN Invalid
     ELSE SubSeq(Bytes(src, Len(src) \div 4), 1, 3 * (Len(src) \div 4) - pads)

\* Nothing to decode is a failure.  More padding than two symbols is another.
Decode(src) ==
  LET padded == {q \in 1 .. Len(src) \div 4 : \E i \in 4 * q - 3 .. 4 * q : src[i] = Pad}
      quads == IF padded = {} THEN Len(src) \div 4 ELSE CHOOSE q \in padded : \A r \in padded : q <= r
      pads == Cardinality({i \in 1 .. 4 * quads : src[i] = Pad})
  IN IF src = <<>> \/ Len(src) % 4 # 0 \/ pads > 2 THEN Invalid
     ELSE SubSeq(Bytes(src, quads), 1, 3 * quads - pads)

=============================================================================
