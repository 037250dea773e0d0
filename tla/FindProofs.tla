----------------------------- MODULE FindProofs ------------------------------
(***************************************************************************)
(* The searches, for any commands and keywords: what they hand over is      *)
(* stored, each once and within the limit.                                  *)
(***************************************************************************)
EXTENDS Find, AhoCorasickProofs, FiniteSetTheorems

-----------------------------------------------------------------------------
(* base64 *)

\* A byte of a command, and zero behind its end.
In(c, i) == IF i <= Len(c) THEN c[i] % 256 ELSE 0

Quads(c) == (Len(c) + 2) \div 3

\* How many symbols are padding.
Pads(c) == 3 * Quads(c) - Len(c)

\* The numbers of quads and of padding.
LEMMA QuadsAre ==
  ASSUME NEW c \in Seq(Char)
  PROVE  /\ Len(c) \in Nat /\ Quads(c) \in Nat /\ Pads(c) \in 0 .. 2
         /\ 3 * Quads(c) = Len(c) + Pads(c)
         /\ c # <<>> => Quads(c) > 0
<1>1. Len(c) \in Nat /\ (c # <<>> => Len(c) > 0)
  OBVIOUS
<1>. QED
  BY <1>1 DEF Quads, Pads

\* A byte is one of 256.
LEMMA InIs ==
  ASSUME NEW c \in Seq(Char), NEW i \in Nat \ {0}
  PROVE  In(c, i) \in 0 .. 255 /\ (i <= Len(c) => Signed(In(c, i)) = c[i])
<1>1. CASE i <= Len(c)
  <2>1. c[i] \in Char
    <3>1. i \in 1 .. Len(c)
      BY <1>1
    <3>. QED
      BY <3>1
  <2>2. \A b \in Char : b % 256 \in 0 .. 255 /\ Signed(b % 256) = b
    BY DEF Signed, Char
  <2>. QED
    BY <1>1, <2>1, <2>2 DEF In
<1>2. CASE ~(i <= Len(c))
  BY <1>2 DEF In
<1>. QED
  BY <1>1, <1>2

\* The four symbols of a quad.
Symb(c, q, k) ==
  IF k = 0 THEN In(c, 3 * q + 1) \div 4
  ELSE IF k = 1 THEN (In(c, 3 * q + 1) % 4) * 16 + In(c, 3 * q + 2) \div 16
  ELSE IF k = 2 THEN (In(c, 3 * q + 2) % 16) * 4 + In(c, 3 * q + 3) \div 64
  ELSE In(c, 3 * q + 3) % 64

LEMMA SymbIs ==
  ASSUME NEW c \in Seq(Char), NEW q \in Nat, NEW k \in 0 .. 3
  PROVE  Symb(c, q, k) \in 0 .. 63
<1>1. In(c, 3 * q + 1) \in 0 .. 255 /\ In(c, 3 * q + 2) \in 0 .. 255 /\ In(c, 3 * q + 3) \in 0 .. 255
  <2>1. 3 * q + 1 \in Nat \ {0} /\ 3 * q + 2 \in Nat \ {0} /\ 3 * q + 3 \in Nat \ {0}
    OBVIOUS
  <2>. QED
    BY <2>1, InIs
<1>2. \A x \in 0 .. 255 : /\ x \div 4 \in 0 .. 63 /\ x % 4 \in 0 .. 3 /\ x \div 16 \in 0 .. 15 /\ x % 16 \in 0 .. 15
         /\ x \div 64 \in 0 .. 3 /\ x % 64 \in 0 .. 63
  OBVIOUS
<1>3. \A x \in 0 .. 3, y \in 0 .. 15 : x * 16 + y \in 0 .. 63 /\ y * 4 + x \in 0 .. 63
  OBVIOUS
<1>. QED
  BY <1>1, <1>2, <1>3 DEF Symb

\* A function on 1 .. n is a sequence.
LEMMA Sized ==
  ASSUME NEW n \in Nat, NEW S, NEW h \in [1 .. n -> S]
  PROVE  h \in Seq(S) /\ Len(h) = n
OBVIOUS

\* What is encoded, symbol by symbol.
LEMMA EncodeIs ==
  ASSUME NEW c \in Seq(Char)
  PROVE  /\ Encode(c) \in Seq(0 .. Pad) /\ Len(Encode(c)) = 4 * Quads(c)
         /\ \A i \in 1 .. 4 * Quads(c) :
              Encode(c)[i] = IF i > 4 * Quads(c) - Pads(c) THEN Pad
                             ELSE Symb(c, (i - 1) \div 4, (i - 1) % 4)
<1>. DEFINE e == [i \in 1 .. 4 * Quads(c) |->
                    IF i > 4 * Quads(c) - Pads(c) THEN Pad
                    ELSE Symb(c, (i - 1) \div 4, (i - 1) % 4)]
<1>1. Encode(c) = e
  <2>1. \A i \in 1 .. 4 * Quads(c) : (i - 1) % 4 \in 0 .. 3
    BY QuadsAre
  <2>. QED
    BY <2>1, SMTT(30) DEF Encode, Symb, In, Quads, Pads
<1>2. \A i \in 1 .. 4 * Quads(c) : (i - 1) \div 4 \in Nat /\ (i - 1) % 4 \in 0 .. 3
  BY QuadsAre
<1>3. \A i \in 1 .. 4 * Quads(c) : e[i] \in 0 .. Pad
  <2>1. \A i \in 1 .. 4 * Quads(c) : Symb(c, (i - 1) \div 4, (i - 1) % 4) \in 0 .. 63
    BY <1>2, SymbIs
  <2>. QED
    BY <2>1 DEF Pad
<1>4. 4 * Quads(c) \in Nat
  BY QuadsAre
<1>5. e \in [1 .. 4 * Quads(c) -> 0 .. Pad]
  BY <1>3, <1>4
<1>6. e \in Seq(0 .. Pad) /\ Len(e) = 4 * Quads(c)
  BY <1>4, <1>5, Sized
<1>. QED
  BY <1>1, <1>6

\* Where the padding is.
LEMMA PaddingIs ==
  ASSUME NEW c \in Seq(Char), NEW i \in 1 .. 4 * Quads(c)
  PROVE  Encode(c)[i] = Pad <=> i > 4 * Quads(c) - Pads(c)
<1>1. (i - 1) \div 4 \in Nat /\ (i - 1) % 4 \in 0 .. 3
  BY QuadsAre
<1>2. Symb(c, (i - 1) \div 4, (i - 1) % 4) \in 0 .. 63
  BY <1>1, SymbIs
<1>3. Encode(c)[i] = IF i > 4 * Quads(c) - Pads(c) THEN Pad
                     ELSE Symb(c, (i - 1) \div 4, (i - 1) % 4)
  BY EncodeIs
<1>4. Symb(c, (i - 1) \div 4, (i - 1) % 4) # Pad
  <2>1. Pad \notin 0 .. 63
    BY DEF Pad
  <2>. QED
    BY <1>2, <2>1
<1>. QED
  BY <1>3, <1>4

\* The three bytes of a quad, from its symbols.
LEMMA ByteIs ==
  ASSUME NEW x \in 0 .. 255, NEW y \in 0 .. 255, NEW z \in 0 .. 255
  PROVE  /\ (x \div 4) * 4 + ((x % 4) * 16 + y \div 16) \div 16 = x
         /\ (((y % 16) * 4 + z \div 64) % 4) * 64 + (z % 64) = z
<1>1. PICK a \in 0 .. 63, b \in 0 .. 3 : x = 4 * a + b /\ x \div 4 = a /\ x % 4 = b
  OBVIOUS
<1>2. PICK m \in 0 .. 15, n \in 0 .. 15 : y \div 16 = m /\ y % 16 = n
  OBVIOUS
<1>3. PICK p \in 0 .. 3, q \in 0 .. 63 : z = 64 * p + q /\ z \div 64 = p /\ z % 64 = q
  OBVIOUS
<1>4. (b * 16 + m) \div 16 = b /\ a * 4 + b = x
  BY <1>1
<1>5. (n * 4 + p) % 4 = p /\ p * 64 + q = z
  BY <1>3
<1>. QED
  BY <1>1, <1>2, <1>3, <1>4, <1>5

Second(u, v) == (u % 16) * 16 + v \div 4

LEMMA SecondByteIs ==
  ASSUME NEW x \in 0 .. 255, NEW y \in 0 .. 255, NEW z \in 0 .. 255
  PROVE  Second((x % 4) * 16 + y \div 16, (y % 16) * 4 + z \div 64) = y
<1>1. PICK b \in 0 .. 3 : x % 4 = b
  OBVIOUS
<1>2. PICK m \in 0 .. 15, n \in 0 .. 15 : y = 16 * m + n /\ y \div 16 = m /\ y % 16 = n
  OBVIOUS
<1>3. PICK p \in 0 .. 3 : z \div 64 = p
  OBVIOUS
<1>4. (b * 16 + m) % 16 = m /\ (n * 4 + p) \div 4 = n /\ m * 16 + n = y
  BY <1>2
<1>. QED
  BY <1>1, <1>2, <1>3, <1>4 DEF Second

\* A symbol that is not padding.
LEMMA SymbolAt ==
  ASSUME NEW c \in Seq(Char), NEW q \in 0 .. Quads(c) - 1, NEW k \in 0 .. 3,
         4 * q + k + 1 <= 4 * Quads(c) - Pads(c)
  PROVE  Encode(c)[4 * q + k + 1] % Pad = Symb(c, q, k)
<1>1. /\ 4 * q + k + 1 \in 1 .. 4 * Quads(c)
      /\ ((4 * q + k + 1) - 1) \div 4 = q /\ ((4 * q + k + 1) - 1) % 4 = k
      /\ ~(4 * q + k + 1 > 4 * Quads(c) - Pads(c))
  BY QuadsAre
<1>2. Encode(c)[4 * q + k + 1] = Symb(c, q, k)
  BY <1>1, EncodeIs
<1>3. q \in Nat
  BY QuadsAre
<1>4. Symb(c, q, k) \in 0 .. 63
  BY <1>3, SymbIs
<1>5. \A n \in 0 .. 63 : n % Pad = n
  BY DEF Pad
<1>. QED
  BY <1>2, <1>4, <1>5

\* The three bytes that four symbols stand for.
Triple(e, q, k) ==
  IF k = 0 THEN (e[4 * q + 1] % Pad) * 4 + (e[4 * q + 2] % Pad) \div 16
  ELSE IF k = 1 THEN ((e[4 * q + 2] % Pad) % 16) * 16 + (e[4 * q + 3] % Pad) \div 4
  ELSE ((e[4 * q + 3] % Pad) % 4) * 64 + (e[4 * q + 4] % Pad)

LEMMA BytesIs ==
  ASSUME NEW e, NEW n \in Nat
  PROVE  Bytes(e, n) = [i \in 1 .. 3 * n |-> Signed(Triple(e, (i - 1) \div 3, (i - 1) % 3))]
<1>1. \A i \in 1 .. 3 * n : (i - 1) % 3 \in 0 .. 2
  OBVIOUS
<1>. QED
  BY <1>1 DEF Bytes, Triple

\* The bytes of the quads are those of the command.
LEMMA BytesAre ==
  ASSUME NEW c \in Seq(Char), NEW i \in 1 .. Len(c)
  PROVE  i \in 1 .. 3 * Quads(c) /\ Bytes(Encode(c), Quads(c))[i] = c[i]
<1>. DEFINE q == (i - 1) \div 3
            e == Encode(c)
            x == In(c, 3 * q + 1)
            y == In(c, 3 * q + 2)
            z == In(c, 3 * q + 3)
            limit == 4 * Quads(c) - Pads(c)
<1>1. /\ i \in 1 .. 3 * Quads(c) /\ q \in 0 .. Quads(c) - 1 /\ i \in Nat \ {0}
      /\ \/ i = 3 * q + 1 /\ (i - 1) % 3 = 0
         \/ i = 3 * q + 2 /\ (i - 1) % 3 = 1 /\ 4 * q + 3 <= limit
         \/ i = 3 * q + 3 /\ (i - 1) % 3 = 2 /\ 4 * q + 3 <= limit /\ 4 * q + 4 <= limit
      /\ 4 * q + 1 <= limit /\ 4 * q + 2 <= limit
  BY QuadsAre, SMTT(30)
<1>2. x \in 0 .. 255 /\ y \in 0 .. 255 /\ z \in 0 .. 255 /\ Signed(In(c, i)) = c[i]
  <2>1. 3 * q + 1 \in Nat \ {0} /\ 3 * q + 2 \in Nat \ {0} /\ 3 * q + 3 \in Nat \ {0}
    BY <1>1
  <2>. QED
    BY <1>1, <2>1, InIs, SMTT(30)
<1>3. Bytes(e, Quads(c))[i] = Signed(Triple(e, q, (i - 1) % 3))
  BY <1>1, BytesIs, QuadsAre, SMTT(30)
<1>4. \A k \in 0 .. 3 :
        4 * q + k + 1 <= limit => e[4 * q + k + 1] % Pad = Symb(c, q, k)
  BY <1>1, SymbolAt
<1>. HIDE DEF q, e, limit
<1>5. e[4 * q + 1] % Pad = x \div 4 /\ e[4 * q + 2] % Pad = (x % 4) * 16 + y \div 16
  <2>1. 4 * q + 0 + 1 = 4 * q + 1 /\ 4 * q + 1 + 1 = 4 * q + 2
    BY <1>1
  <2>2. e[4 * q + 1] % Pad = Symb(c, q, 0) /\ e[4 * q + 2] % Pad = Symb(c, q, 1)
    BY <1>1, <1>4, <2>1
  <2>. QED
    BY <2>2 DEF Symb
<1>6. 4 * q + 3 <= limit => e[4 * q + 3] % Pad = (y % 16) * 4 + z \div 64
  <2>1. 4 * q + 2 + 1 = 4 * q + 3
    BY <1>1
  <2>2. 4 * q + 3 <= limit => e[4 * q + 3] % Pad = Symb(c, q, 2)
    BY <1>4, <2>1
  <2>. QED
    BY <2>2 DEF Symb
<1>7. 4 * q + 4 <= limit => e[4 * q + 4] % Pad = z % 64
  <2>1. 4 * q + 3 + 1 = 4 * q + 4
    BY <1>1
  <2>2. 4 * q + 4 <= limit => e[4 * q + 4] % Pad = Symb(c, q, 3)
    BY <1>4, <2>1
  <2>. QED
    BY <2>2 DEF Symb
<1>8. Triple(e, q, (i - 1) % 3) = In(c, i)
  <2>1. CASE i = 3 * q + 1 /\ (i - 1) % 3 = 0
    <3>1. Triple(e, q, 0) = (x \div 4) * 4 + ((x % 4) * 16 + y \div 16) \div 16
      BY <1>5 DEF Triple
    <3>. HIDE DEF x, y, z
    <3>2. (x \div 4) * 4 + ((x % 4) * 16 + y \div 16) \div 16 = x
      BY <1>2, ByteIs, ZenonT(60)
    <3>. QED
      BY <2>1, <3>1, <3>2 DEF x
  <2>2. CASE i = 3 * q + 2 /\ (i - 1) % 3 = 1 /\ 4 * q + 3 <= limit
    <3>1. Triple(e, q, 1) = Second((x % 4) * 16 + y \div 16, (y % 16) * 4 + z \div 64)
      BY <2>2, <1>5, <1>6 DEF Triple, Second
    <3>. HIDE DEF x, y, z
    <3>2. Second((x % 4) * 16 + y \div 16, (y % 16) * 4 + z \div 64) = y
      BY <1>2, SecondByteIs, ZenonT(60)
    <3>. QED
      BY <2>2, <3>1, <3>2 DEF y
  <2>3. CASE i = 3 * q + 3 /\ (i - 1) % 3 = 2 /\ 4 * q + 3 <= limit /\ 4 * q + 4 <= limit
    <3>1. Triple(e, q, 2) = (((y % 16) * 4 + z \div 64) % 4) * 64 + (z % 64)
      BY <2>3, <1>6, <1>7 DEF Triple
    <3>. HIDE DEF x, y, z
    <3>2. (((y % 16) * 4 + z \div 64) % 4) * 64 + (z % 64) = z
      BY <1>2, ByteIs, ZenonT(60)
    <3>. QED
      BY <2>3, <3>1, <3>2 DEF z
  <2>. QED
    BY <1>1, <2>1, <2>2, <2>3
<1>. QED
  BY <1>1, <1>2, <1>3, <1>8 DEF e

\* What begins a sequence, element by element.
LEMMA BeginsWith ==
  ASSUME NEW T, NEW h \in Seq(T), NEW k \in Seq(T), Len(k) <= Len(h),
         \A i \in 1 .. Len(k) : h[i] = k[i]
  PROVE  SubSeq(h, 1, Len(k)) = k
OBVIOUS

\* What is decoded is what was encoded, unless that has no character.
LEMMA RoundTrip ==
  ASSUME NEW c \in Seq(Char), c # <<>>
  PROVE  Decode(Encode(c)) = c
<1>. DEFINE e == Encode(c)
            padded == {q \in 1 .. Len(e) \div 4 : \E i \in 4 * q - 3 .. 4 * q : e[i] = Pad}
            quads == IF padded = {} THEN Len(e) \div 4 ELSE CHOOSE q \in padded : \A r \in padded : q <= r
            pads == Cardinality({i \in 1 .. 4 * quads : e[i] = Pad})
<1>1. Len(e) \div 4 = Quads(c) /\ Len(e) % 4 = 0 /\ e # <<>>
  <2>1. Quads(c) \in Nat \ {0} /\ Len(e) = 4 * Quads(c)
    BY EncodeIs, QuadsAre
  <2>2. Len(<<>>) = 0
    OBVIOUS
  <2>. HIDE DEF e
  <2>. QED
    BY <2>1, <2>2
<1>2. padded \subseteq {Quads(c)}
  <2>. SUFFICES ASSUME NEW q \in 1 .. Quads(c), NEW i \in 4 * q - 3 .. 4 * q, e[i] = Pad
                PROVE  q = Quads(c)
    BY <1>1
  <2>1. i \in 1 .. 4 * Quads(c)
    BY QuadsAre
  <2>2. i > 4 * Quads(c) - Pads(c)
    BY <2>1, PaddingIs
  <2>. QED
    BY <2>2, QuadsAre
<1>. HIDE DEF e
<1>3. quads = Quads(c)
  <2>1. Quads(c) <= Quads(c)
    BY QuadsAre
  <2>. HIDE DEF padded
  <2>2. CASE padded = {}
    BY <2>2, <1>1
  <2>3. CASE padded = {Quads(c)}
    BY <2>1, <2>3
  <2>. QED
    BY <1>2, <2>2, <2>3
<1>4. pads = Pads(c)
  <2>1. {i \in 1 .. 4 * Quads(c) : e[i] = Pad} = 4 * Quads(c) - Pads(c) + 1 .. 4 * Quads(c)
    <3>1. \A i \in 1 .. 4 * Quads(c) : e[i] = Pad <=> i > 4 * Quads(c) - Pads(c)
      BY PaddingIs DEF e
    <3>. QED
      BY <3>1, QuadsAre
  <2>2. Cardinality(4 * Quads(c) - Pads(c) + 1 .. 4 * Quads(c)) = Pads(c)
    <3>1. 4 * Quads(c) - Pads(c) + 1 \in Int /\ 4 * Quads(c) \in Int
      BY QuadsAre
    <3>. HIDE DEF quads, pads, padded
    <3>2. Cardinality(4 * Quads(c) - Pads(c) + 1 .. 4 * Quads(c)) =
            IF 4 * Quads(c) - Pads(c) + 1 > 4 * Quads(c) THEN 0
            ELSE 4 * Quads(c) - (4 * Quads(c) - Pads(c) + 1) + 1
      BY <3>1, FS_Interval
    <3>. QED
      BY <3>2, QuadsAre
  <2>. QED
    BY <1>3, <2>1, <2>2
<1>5. Decode(e) = SubSeq(Bytes(e, Quads(c)), 1, Len(c))
  <2>1. Decode(e) = IF e = <<>> \/ Len(e) % 4 # 0 \/ pads > 2 THEN Invalid
                    ELSE SubSeq(Bytes(e, quads), 1, 3 * quads - pads)
    BY DEF Decode
  <2>2. 3 * Quads(c) - Pads(c) = Len(c) /\ ~(Pads(c) > 2)
    BY QuadsAre
  <2>. HIDE DEF quads, pads, padded
  <2>. QED
    BY <2>1, <2>2, <1>1, <1>3, <1>4
<1>6. SubSeq(Bytes(e, Quads(c)), 1, Len(c)) = c
  <2>. DEFINE h == Bytes(e, Quads(c))
              T == {h[i] : i \in 1 .. 3 * Quads(c)} \cup Char
  <2>1. Len(c) \in Nat /\ 3 * Quads(c) \in Nat /\ Len(c) <= 3 * Quads(c)
    BY QuadsAre
  <2>2. h = [i \in 1 .. 3 * Quads(c) |-> h[i]]
    BY BytesIs, QuadsAre
  <2>3. \A i \in 1 .. Len(c) : h[i] = c[i]
    BY BytesAre DEF e
  <2>. HIDE DEF h
  <2>4. h \in [1 .. 3 * Quads(c) -> T]
    BY <2>2
  <2>. HIDE DEF T
  <2>5. h \in Seq(T) /\ Len(h) = 3 * Quads(c)
    BY <2>1, <2>4
  <2>6. c \in Seq(T)
    BY DEF T
  <2>. QED
    BY <2>1, <2>3, <2>5, <2>6, BeginsWith DEF h
<1>. QED
  BY <1>5, <1>6 DEF e

\* Nothing is encoded as nothing, which cannot be decoded.
LEMMA EmptyFails == Decode(Encode(<<>>)) = Invalid
<1>1. <<>> \in Seq(Char) /\ Len(<<>>) = 0
  OBVIOUS
<1>2. Quads(<<>>) = 0
  BY <1>1 DEF Quads
<1>3. Encode(<<>>) \in Seq(0 .. Pad) /\ Len(Encode(<<>>)) = 0
  <2>1. Encode(<<>>) \in Seq(0 .. Pad) /\ Len(Encode(<<>>)) = 4 * Quads(<<>>)
    BY <1>1, EncodeIs
  <2>. QED
    BY <1>2, <2>1
<1>4. Encode(<<>>) = <<>>
  BY <1>3
<1>. QED
  BY <1>4 DEF Decode

-----------------------------------------------------------------------------
(* n-grams *)

\* An n-gram, from its three characters.
Gram(x, y, z) ==
  IF z < 0 THEN z
  ELSE (IF y < 0 THEN y + 2^16 ELSE (x % 256) * 256 + y) * 256 + z

GramAt(t, i) == Gram(t[i - 2], t[i - 1], t[i])

\* What is left of an n-gram n when the character c comes.
Shifted(n, c) == Or((n % 2^16) * 256, c)

LEMMA TwoBytes == 2^16 = 65536
OBVIOUS

\* What is left of an n-gram when the next character comes.
LEMMA OrIs ==
  ASSUME NEW n \in Int, NEW c \in Char
  PROVE  LET r == Shifted(n, c)
         IN /\ r \in Int /\ r % 256 = c % 256
            /\ r % 2^16 = IF c < 0 THEN c + 2^16 ELSE (n % 256) * 256 + c
<1>1. CASE c < 0
  <2>1. c % 65536 = c + 65536 /\ c \in Int
    BY <1>1 DEF Char
  <2>. QED
    BY <1>1, <2>1, TwoBytes DEF Or, Shifted
<1>2. CASE ~(c < 0)
  <2>1. c \in 0 .. 127 /\ 2^16 = 65536
    BY <1>2, TwoBytes DEF Char
  <2>2. Or((n % 65536) * 256, c) = (n % 65536) * 256 + c
    BY <1>2 DEF Or, Shifted
  <2>3. ((n % 65536) * 256 + c) % 256 = c % 256
    BY <2>1
  <2>4. ((n % 65536) * 256 + c) % 65536 = (n % 256) * 256 + c
    BY <2>1
  <2>. QED
    BY <1>2, <2>1, <2>2, <2>3, <2>4 DEF Shifted
<1>. QED
  BY <1>1, <1>2

\* What is left after three characters.
LEMMA ThreeCharacters ==
  ASSUME NEW n \in Int, NEW x \in Char, NEW y \in Char, NEW z \in Char
  PROVE  Shifted(Shifted(Shifted(n, x), y), z) = Gram(x, y, z)
<1>. PICK a, b, c : a = Shifted(n, x) /\ b = Shifted(a, y) /\ c = Shifted(b, z)
  OBVIOUS
<1>. SUFFICES c = Gram(x, y, z)
  OBVIOUS
<1>1. a \in Int /\ a % 256 = x % 256
  BY OrIs
<1>2. b % 2^16 = (IF y < 0 THEN y + 2^16 ELSE (a % 256) * 256 + y) /\ b \in Int
  BY <1>1, OrIs
<1>4. CASE z < 0
  BY <1>4 DEF Or, Gram, Shifted
<1>5. CASE ~(z < 0)
  <2>1. PICK r, m : r = b % 2^16 /\ m = x % 256
    OBVIOUS
  <2>2. c = r * 256 + z
    BY <1>5, <2>1 DEF Or, Shifted
  <2>3. r = (IF y < 0 THEN y + 65536 ELSE m * 256 + y)
    BY <1>1, <1>2, <2>1, TwoBytes
  <2>4. Gram(x, y, z) = (IF y < 0 THEN y + 65536 ELSE m * 256 + y) * 256 + z
    BY <1>5, <2>1, TwoBytes DEF Gram
  <2>. QED
    BY <2>2, <2>3, <2>4
<1>. QED
  BY <1>4, <1>5

\* The n-grams of a command, each by the three characters it comes from.
LEMMA NgramsAre ==
  ASSUME NEW str \in Seq(Char)
  PROVE  Ngrams(str) = {GramAt(str, i) : i \in 3 .. Len(str)}
<1>. DEFINE n == Len(str)
            Is(h) == h = [i \in 0 .. n |-> IF i = 0 THEN 0 ELSE Or((h[i - 1] % 2^16) * 256, str[i])]
            ngram == CHOOSE h : Is(h)
            More == [p \in Int \X (1 .. n) |-> Or((p[1] % 2^16) * 256, str[p[2]])]
<1>1. n \in Nat /\ \A i \in 1 .. n : str[i] \in Char
  OBVIOUS
<1>2. More \in [Int \X (1 .. n) -> Int]
  <2>. HIDE DEF n
  <2>. QED
    BY <1>1, OrIs DEF Shifted
<1>3. \E h : Is(h)
  <2>. HIDE DEF More, n
  <2>1. PICK h : Recurs(h, Int, n, 0, More)
    <3>1. 0 \in Int /\ n \in Nat
      BY <1>1
    <3>. QED
      BY <3>1, <1>2, Recursion, Zenon
  <2>2. ASSUME NEW i \in 0 .. n, i # 0 PROVE h[i] = Or((h[i - 1] % 2^16) * 256, str[i])
    <3>1. i \in 1 .. n /\ i - 1 \in 0 .. n
      BY <1>1, <2>2
    <3>2. h[i] = More[<<h[i - 1], i>>] /\ h[i - 1] \in Int
      BY <3>1, <2>1 DEF Recurs
    <3>. QED
      BY <3>1, <3>2 DEF More
  <2>3. h[0] = 0 /\ h \in [0 .. n -> Int]
    BY <2>1 DEF Recurs
  <2>4. \A i \in 0 .. n : h[i] = IF i = 0 THEN 0 ELSE Or((h[i - 1] % 2^16) * 256, str[i])
    BY <2>2, <2>3
  <2>5. Is(h)
    BY <2>3, <2>4, SMTT(30)
  <2>. HIDE DEF Is
  <2>. QED
    BY <2>5
<1>4. Is(ngram)
  BY <1>3
<1>. HIDE DEF ngram
<1>5. ASSUME NEW i \in 1 .. n PROVE ngram[i] = Shifted(ngram[i - 1], str[i])
  <2>1. i \in 0 .. n /\ i # 0
    OBVIOUS
  <2>. HIDE DEF n
  <2>. QED
    BY <2>1, <1>4 DEF Shifted
<1>6. \A i \in 0 .. n : ngram[i] \in Int
  <2>. DEFINE T == {i \in 0 .. n : ngram[i] \in Int}
  <2>1. 0 \in T
    BY <1>1, <1>4
  <2>2. ASSUME NEW i \in 0 .. n - 1, i \in T PROVE i + 1 \in T
    <3>1. i + 1 \in 0 .. n /\ i + 1 \in 1 .. n /\ (i + 1) - 1 = i
      BY <1>1
    <3>2. ngram[i + 1] = Shifted(ngram[i], str[i + 1])
      BY <3>1, <1>5
    <3>3. Shifted(ngram[i], str[i + 1]) \in Int
      BY <2>2, <3>1, <1>1, OrIs
    <3>. QED
      BY <3>1, <3>2, <3>3
  <2>. HIDE DEF T
  <2>3. 0 .. n \subseteq T
    BY <2>1, <2>2, <1>1, Steps
  <2>. QED
    BY <2>3 DEF T
<1>7. ASSUME NEW i \in 3 .. n PROVE ngram[i] = Gram(str[i - 2], str[i - 1], str[i])
  <2>1. /\ i \in 1 .. n /\ i - 1 \in 1 .. n /\ i - 2 \in 1 .. n
        /\ (i - 1) - 1 = i - 2 /\ (i - 2) - 1 \in 0 .. n /\ i - 2 \in 0 .. n
    OBVIOUS
  <2>2. /\ ngram[i] = Shifted(ngram[i - 1], str[i])
        /\ ngram[i - 1] = Shifted(ngram[i - 2], str[i - 1])
        /\ ngram[i - 2] = Shifted(ngram[(i - 2) - 1], str[i - 2])
    BY <2>1, <1>5
  <2>3. ngram[i - 2] \in Int /\ ngram[(i - 2) - 1] \in Int
    BY <2>1, <1>6
  <2>4. str[i] \in Char /\ str[i - 1] \in Char /\ str[i - 2] \in Char
    BY <2>1, <1>1
  <2>. QED
    BY <2>2, <2>3, <2>4, ThreeCharacters
<1>8. Ngrams(str) = {ngram[i] : i \in 3 .. n}
  BY DEF Ngrams, ngram
<1>. QED
  BY <1>7, <1>8 DEF GramAt

\* The n-gram of characters of ASCII is not negative.
LEMMA GramNat ==
  ASSUME NEW x \in ASCII, NEW y \in ASCII, NEW z \in ASCII
  PROVE  Gram(x, y, z) \in Nat
BY DEF Gram, ASCII

\* The n-gram of three characters of ASCII is that of no others.
LEMMA GramOf ==
  ASSUME NEW x \in ASCII, NEW y \in ASCII, NEW z \in ASCII, NEW u \in Char, NEW v \in Char, NEW w \in Char
  PROVE  Gram(u, v, w) = Gram(x, y, z) => u = x /\ v = y /\ w = z
<1>1. Gram(x, y, z) = (x * 256 + y) * 256 + z
  BY DEF Gram, ASCII
<1>2. ASSUME Gram(u, v, w) = Gram(x, y, z) PROVE u = x /\ v = y /\ w = z
  <2>1. w >= 0 /\ w \in 0 .. 127
    BY <1>1, <1>2 DEF Gram, ASCII, Char
  <2>2. u % 256 \in 0 .. 255 /\ (u < 0 => u % 256 = u + 256) /\ (u >= 0 => u % 256 = u)
    BY DEF Char
  <2>3. CASE v < 0
    <3>1. Gram(u, v, w) = (v + 65536) * 256 + w
      BY <2>1, <2>3, TwoBytes DEF Gram
    <3>. QED
      BY <1>1, <1>2, <2>1, <2>3, <3>1 DEF ASCII, Char
  <2>4. CASE ~(v < 0)
    <3>1. Gram(u, v, w) = ((u % 256) * 256 + v) * 256 + w
      BY <2>1, <2>4 DEF Gram
    <3>2. PICK m \in 0 .. 255 : m = u % 256
      BY <2>2
    <3>3. v \in 0 .. 127
      BY <2>4 DEF Char
    <3>4. m = x /\ v = y /\ w = z
      BY <1>1, <1>2, <2>1, <3>1, <3>2, <3>3, SMTT(30) DEF ASCII
    <3>. QED
      BY <2>2, <3>2, <3>4 DEF ASCII, Char
  <2>. QED
    BY <2>3, <2>4
<1>. QED
  BY <1>2

\* The values of a function on a finite set are finitely many.
LEMMA ImageFinite ==
  ASSUME NEW S, IsFiniteSet(S), NEW T, NEW F \in [S -> T], \A y \in T : \E x \in S : F[x] = y
  PROVE  IsFiniteSet(T)
<1>1. F \in Surjection(S, T)
  BY DEF Surjection
<1>. QED
  BY <1>1, FS_Surjection

Window(t, i) == <<t[i - 2], t[i - 1], t[i]>>

\* The windows of a string, character by character.
LEMMA WindowsAre ==
  ASSUME NEW S, NEW t \in Seq(S)
  PROVE  Windows(t) = {Window(t, i) : i \in 3 .. Len(t)}
<1>1. ASSUME NEW i \in 1 .. Len(t) - 2 PROVE SubSeq(t, i, i + 2) = <<t[i], t[i + 1], t[i + 2]>>
  <2>. DEFINE h == SubSeq(t, i, i + 2)
  <2>1. i \in 1 .. Len(t) /\ i + 2 \in 1 .. Len(t) /\ (i + 2) - i + 1 = 3
    OBVIOUS
  <2>2. h \in Seq(S)
    BY <2>1
  <2>3. Len(h) = 3
    BY <2>1
  <2>4. h[1] = t[i] /\ h[2] = t[i + 1] /\ h[3] = t[i + 2]
    BY <2>1
  <2>. HIDE DEF h
  <2>5. h = <<h[1], h[2], h[3]>>
    BY <2>2, <2>3
  <2>. QED
    BY <2>4, <2>5 DEF h
<1>2. \A i \in 1 .. Len(t) - 2 : i + 2 \in 3 .. Len(t) /\ (i + 2) - 2 = i /\ (i + 2) - 1 = i + 1
  OBVIOUS
<1>3. \A i \in 3 .. Len(t) : i - 2 \in 1 .. Len(t) - 2 /\ (i - 2) + 2 = i /\ (i - 2) + 1 = i - 1
  OBVIOUS
<1>4. ASSUME NEW i \in 1 .. Len(t) - 2 PROVE SubSeq(t, i, i + 2) = Window(t, i + 2)
  BY <1>1, <1>2 DEF Window
<1>5. ASSUME NEW i \in 3 .. Len(t) PROVE Window(t, i) = SubSeq(t, i - 2, (i - 2) + 2)
  BY <1>1, <1>3 DEF Window
<1>6. ASSUME NEW i \in 1 .. Len(t) - 2 PROVE SubSeq(t, i, i + 2) \in {Window(t, m) : m \in 3 .. Len(t)}
  BY <1>2, <1>4
<1>7. ASSUME NEW i \in 3 .. Len(t) PROVE Window(t, i) \in {SubSeq(t, m, m + 2) : m \in 1 .. Len(t) - 2}
  BY <1>3, <1>5
<1>. QED
  BY <1>6, <1>7, Zenon DEF Windows

\* A command has an n-gram of a keyword in ASCII only with the window it comes from.
LEMMA WindowFound ==
  ASSUME NEW k \in Seq(Char), InASCII(k), NEW c \in Seq(Char), NEW i \in 3 .. Len(k)
  PROVE  GramAt(k, i) \in Nat /\ (GramAt(k, i) \in Ngrams(c) <=> Window(k, i) \in Windows(c))
<1>1. k[i - 2] \in ASCII /\ k[i - 1] \in ASCII /\ k[i] \in ASCII
  <2>1. i - 2 \in DOMAIN k /\ i - 1 \in DOMAIN k /\ i \in DOMAIN k
    OBVIOUS
  <2>. QED
    BY <2>1 DEF InASCII
<1>2. GramAt(k, i) \in Nat
  BY <1>1, GramNat DEF GramAt
<1>3. ASSUME NEW m \in 3 .. Len(c)
      PROVE  GramAt(c, m) = GramAt(k, i) <=> Window(c, m) = Window(k, i)
  <2>1. c[m - 2] \in Char /\ c[m - 1] \in Char /\ c[m] \in Char
    OBVIOUS
  <2>2. PICK x, y, z : x = c[m - 2] /\ y = c[m - 1] /\ z = c[m]
    OBVIOUS
  <2>3. PICK l, n, r : l = k[i - 2] /\ n = k[i - 1] /\ r = k[i]
    OBVIOUS
  <2>4. Gram(x, y, z) = Gram(l, n, r) <=> x = l /\ y = n /\ z = r
    BY <1>1, <2>1, <2>2, <2>3, GramOf, SMTT(30)
  <2>5. <<x, y, z>> = <<l, n, r>> <=> x = l /\ y = n /\ z = r
    OBVIOUS
  <2>6. GramAt(c, m) = Gram(x, y, z) /\ GramAt(k, i) = Gram(l, n, r)
    BY <2>2, <2>3 DEF GramAt
  <2>7. Window(c, m) = <<x, y, z>> /\ Window(k, i) = <<l, n, r>>
    BY <2>2, <2>3 DEF Window
  <2>. QED
    BY <2>4, <2>5, <2>6, <2>7, Zenon
<1>4. Ngrams(c) = {GramAt(c, m) : m \in 3 .. Len(c)} /\ Windows(c) = {Window(c, m) : m \in 3 .. Len(c)}
  BY NgramsAre, WindowsAre
<1>. QED
  BY <1>2, <1>3, <1>4

Wanted == UNION {Windows(k) : k \in Strings}

\* A command has all the windows of keywords in ASCII, if it has all their n-grams.
LEMMA WantedAre ==
  ASSUME keywords \in Seq(Seq(Char)), \A k \in Strings : InASCII(k), NEW c \in Seq(Char)
  PROVE  Wanted \subseteq Windows(c) <=> Queried(Strings) \subseteq Ngrams(c)
<1>1. \A k \in Strings : k \in Seq(Char)
  BY DEF Strings
<1>2. ASSUME Wanted \subseteq Windows(c), NEW q \in Queried(Strings) PROVE q \in Ngrams(c)
  <2>1. PICK k \in Strings : q \in Ngrams(k) /\ k \in Seq(Char)
    BY <1>1 DEF Queried
  <2>2. PICK i \in 3 .. Len(k) : q = GramAt(k, i)
    BY <2>1, NgramsAre
  <2>3. Window(k, i) \in Wanted
    BY <1>1, WindowsAre DEF Wanted
  <2>. QED
    BY <1>1, <1>2, <2>2, <2>3, WindowFound
<1>3. ASSUME Queried(Strings) \subseteq Ngrams(c), NEW v \in Wanted PROVE v \in Windows(c)
  <2>1. PICK k \in Strings : v \in Windows(k) /\ k \in Seq(Char)
    BY <1>1 DEF Wanted
  <2>2. PICK i \in 3 .. Len(k) : v = Window(k, i)
    BY <2>1, WindowsAre
  <2>. DEFINE q == GramAt(k, i)
  <2>3. q \in Nat /\ (q \in Ngrams(c) <=> v \in Windows(c))
    BY <1>1, <2>2, WindowFound
  <2>4. q \in Ngrams(k)
    BY <1>1, NgramsAre
  <2>5. q \in Queried(Strings)
    BY <2>3, <2>4 DEF Queried
  <2>. QED
    BY <1>3, <2>3, <2>5
<1>. QED
  BY <1>2, <1>3

\* A search that is not one of the universe has n-grams, finitely many.
LEMMA QueriedFinite ==
  ASSUME keywords \in Seq(Seq(Char))
  PROVE  /\ IsFiniteSet(Queried(Strings))
         /\ ~universe /\ (\A k \in Strings : InASCII(k)) => Queried(Strings) # {}
<1>1. \A k \in Strings : k \in Seq(Char) /\ Len(k) \in Nat
  BY DEF Strings
<1>2. ASSUME NEW k \in Strings PROVE IsFiniteSet(Ngrams(k))
  <2>1. IsFiniteSet(3 .. Len(k))
    <3>1. 3 \in Int /\ Len(k) \in Int
      BY <1>1
    <3>. QED
      BY <3>1, FS_Interval
  <2>2. Ngrams(k) = {GramAt(k, i) : i \in 3 .. Len(k)}
    BY <1>1, NgramsAre
  <2>. DEFINE F == [i \in 3 .. Len(k) |-> GramAt(k, i)]
  <2>3. F \in [3 .. Len(k) -> Ngrams(k)] /\ \A y \in Ngrams(k) : \E i \in 3 .. Len(k) : F[i] = y
    BY <2>2
  <2>. HIDE DEF F
  <2>. QED
    BY <2>1, <2>3, ImageFinite
<1>3. IsFiniteSet(Strings)
  <2>1. IsFiniteSet(DOMAIN keywords)
    <3>1. 1 \in Int /\ Len(keywords) \in Int /\ DOMAIN keywords = 1 .. Len(keywords)
      OBVIOUS
    <3>. QED
      BY <3>1, FS_Interval
  <2>2. keywords \in [DOMAIN keywords -> Strings] /\ \A k \in Strings : \E i \in DOMAIN keywords : keywords[i] = k
    BY DEF Strings
  <2>. QED
    BY <2>1, <2>2, ImageFinite
<1>4. IsFiniteSet({Ngrams(k) : k \in Strings})
  <2>. DEFINE F == [k \in Strings |-> Ngrams(k)]
              T == {Ngrams(k) : k \in Strings}
  <2>1. F \in [Strings -> T] /\ \A y \in T : \E k \in Strings : F[k] = y
    OBVIOUS
  <2>. HIDE DEF F
  <2>. QED
    BY <2>1, <1>3, ImageFinite
<1>5. IsFiniteSet(UNION {Ngrams(k) : k \in Strings})
  BY <1>2, <1>4, FS_UNION
<1>6. IsFiniteSet(Queried(Strings))
  BY <1>5, FS_Subset DEF Queried
<1>7. ASSUME ~universe, \A k \in Strings : InASCII(k) PROVE Queried(Strings) # {}
  <2>1. PICK k \in Strings : ~(Len(k) <= 2)
    BY <1>7 DEF universe
  <2>2. 3 \in 3 .. Len(k) /\ k \in Seq(Char)
    BY <1>1, <2>1
  <2>3. GramAt(k, 3) \in Nat
    BY <1>7, <2>2, WindowFound
  <2>4. GramAt(k, 3) \in Ngrams(k)
    BY <2>2, NgramsAre
  <2>. QED
    BY <2>3, <2>4 DEF Queried
<1>. QED
  BY <1>6, <1>7

-----------------------------------------------------------------------------
(* The invariant *)

\* Every row of cmdraw has its command, encoded, and its n-grams in cmdlut.
RowsOK ==
  /\ \A c \in DOMAIN raw : c \in Seq(Char) /\ raw[c].ts \in Nat /\ raw[c].text = Encode(c)
  /\ lut = UNION {Ngrams(c) \X {c} : c \in DOMAIN raw}

\* Where the matcher is, when find_cmd is where it is.
PhaseOK ==
  /\ keywords \in Seq(Seq(Char))
  /\ acs = "none" => MachineInit
  /\ find \in {"none", "start"} => acs = "none"
  /\ find = "build" => universe /\ acs \notin {"none", "match", "hit", "miss"}
  /\ find = "rows" => acs = IF universe THEN "built" ELSE "none"
  /\ find = "match" => universe /\ acs \in {"match", "hit", "miss", "outside"}
  /\ find = "undefined" => universe /\ acs = "outside"
  /\ text \in DOMAIN raw \cup {<<>>}

\* What was handed over, what is still to come, and what is looked at are stored
\* commands, and different ones.
HitsOK ==
  /\ unseen \subseteq DOMAIN raw /\ hits \in Seq(DOMAIN raw)
  /\ \A a, b \in DOMAIN hits : hits[a] = hits[b] => a = b
  /\ \A a \in DOMAIN hits : hits[a] \notin unseen
  /\ SEARCH_LIMIT \in Nat /\ Len(hits) <= SEARCH_LIMIT
  /\ find \in {"none", "start", "build"} => hits = <<>> /\ unseen = {}
  /\ find = "rows" /\ ~universe => \A c \in unseen : Rank(c) > 0
  /\ find = "match" => Len(hits) < SEARCH_LIMIT /\ text \in DOMAIN raw \ (unseen \cup Hits)
  /\ find = "crashed" => <<>> \in DOMAIN raw

\* A keyword is in the command, and one that has a bit.
Has(c) == \E w \in DOMAIN keywords : Holds(c, w)
Finds(c) == \E w \in Tested : Holds(c, w)

\* The rows of the universe that were seen, but for the one that is being matched,
\* were hit or not as they should be, and none is older than one still to come.
SeenOK ==
  /\ Narrow /\ acs = "hit" => s \in DOMAIN text
  /\ find \in {"rows", "match"} /\ universe /\ Narrow =>
       \A c \in DOMAIN raw \ unseen :
         /\ c \in Hits => Has(c)
         /\ Finds(c) /\ (find = "match" => c # text) => c \in Hits
         /\ \A d \in unseen : raw[c].ts >= raw[d].ts

SearchOK == RowsOK /\ PhaseOK /\ HitsOK /\ SeenOK /\ Exact

-----------------------------------------------------------------------------
(* The rows *)

\* Characters are numbers.
LEMMA CharsAreSymbols == Seq(Char) \subseteq Seq(Symbol) /\ Seq(Seq(Char)) \subseteq Seq(Seq(Symbol))
<1>1. Char \subseteq Symbol
  BY DEF Char, Symbol
<1>2. Seq(Char) \subseteq Seq(Symbol)
  BY <1>1
<1>. QED
  BY <1>2

\* What a row of the query has in it.
LEMMA RowDecodes ==
  ASSUME RowsOK, NEW c \in DOMAIN raw
  PROVE  /\ c \in Seq(Char) /\ raw[c].ts \in Nat
         /\ c # <<>> => Decode(raw[c].text) = c /\ c # Invalid
         /\ Decode(raw[c].text) = Invalid => c = <<>>
<1>1. c \in Seq(Char) /\ raw[c].text = Encode(c) /\ raw[c].ts \in Nat
  BY DEF RowsOK
<1>. QED
  BY <1>1, RoundTrip, InvalidAssumption

\* A command with an n-gram has a character.
LEMMA RankedHasGrams ==
  ASSUME RowsOK, NEW c \in DOMAIN raw, Rank(c) > 0
  PROVE  c # <<>>
<1>. SUFFICES ASSUME c = <<>> PROVE FALSE
  OBVIOUS
<1>1. Ngrams(c) = {}
  <2>1. Len(c) = 0 /\ 3 .. 0 = {}
    OBVIOUS
  <2>. QED
    BY <2>1 DEF Ngrams
<1>2. {q \in Queried(Strings) : <<q, c>> \in lut} = {}
  BY <1>1 DEF RowsOK
<1>. QED
  <2>1. Cardinality({}) = 0
    BY FS_EmptySet
  <2>2. Rank(c) = Cardinality({})
    BY <1>2, Zenon DEF Rank
  <2>. QED
    BY <2>1, <2>2

\* What the query counts: a command with all n-grams of the keywords has the
\* greatest rank, and only it.
LEMMA RankIs ==
  ASSUME RowsOK, keywords \in Seq(Seq(Char))
  PROVE  LET N == Cardinality(Queried(Strings))
         IN /\ N \in Nat /\ (N = 0 => Queried(Strings) = {})
            /\ \A c \in DOMAIN raw :
                 /\ Rank(c) \in Nat /\ Rank(c) <= N
                 /\ Rank(c) = N <=> Queried(Strings) \subseteq Ngrams(c)
<1>. DEFINE Q == Queried(Strings)
            N == Cardinality(Q)
            R(c) == {q \in Q : <<q, c>> \in lut}
<1>1. IsFiniteSet(Q)
  BY QueriedFinite
<1>. HIDE DEF Q
<1>2. N \in Nat /\ (N = 0 => Q = {})
  BY <1>1, FS_CardinalityType, FS_EmptySet
<1>3. ASSUME NEW c \in DOMAIN raw
      PROVE  Rank(c) \in Nat /\ Rank(c) <= N /\ (Rank(c) = N <=> Q \subseteq Ngrams(c))
  <2>1. \A q : <<q, c>> \in lut <=> q \in Ngrams(c)
    BY DEF RowsOK
  <2>2. R(c) \subseteq Q /\ (R(c) = Q <=> Q \subseteq Ngrams(c))
    BY <2>1
  <2>3. Rank(c) = Cardinality(R(c))
    BY Zenon DEF Rank, Q
  <2>. HIDE DEF R
  <2>4. /\ IsFiniteSet(R(c)) /\ Cardinality(R(c)) <= N
        /\ N = Cardinality(R(c)) => Q = R(c)
    BY <1>1, <2>2, FS_Subset
  <2>5. Cardinality(R(c)) \in Nat
    BY <2>4, FS_CardinalityType
  <2>6. R(c) = Q => Cardinality(R(c)) = N
    BY Zenon
  <2>. QED
    BY <2>2, <2>3, <2>4, <2>5, <2>6
<1>. QED
  BY <1>2, <1>3 DEF Q

\* One more is handed over.
LEMMA HitOneMore ==
  ASSUME NEW S, NEW h \in Seq(S), NEW t \in S, \A a \in DOMAIN h : h[a] # t,
         \A a, b \in DOMAIN h : h[a] = h[b] => a = b
  PROVE  LET k == Append(h, t)
         IN /\ k \in Seq(S) /\ Len(k) = Len(h) + 1
            /\ \A a, b \in DOMAIN k : k[a] = k[b] => a = b
            /\ {k[a] : a \in DOMAIN k} = {h[a] : a \in DOMAIN h} \cup {t}
<1>. DEFINE k == Append(h, t)
<1>1. k \in Seq(S) /\ Len(k) = Len(h) + 1 /\ DOMAIN k = DOMAIN h \cup {Len(h) + 1}
  OBVIOUS
<1>2. k[Len(h) + 1] = t /\ \A a \in DOMAIN h : k[a] = h[a] /\ a # Len(h) + 1
  OBVIOUS
<1>. HIDE DEF k
<1>3. \A a, b \in DOMAIN k : k[a] = k[b] => a = b
  BY <1>1, <1>2
<1>4. {k[a] : a \in DOMAIN k} = {h[a] : a \in DOMAIN h} \cup {t}
  BY <1>1, <1>2
<1>. QED
  BY <1>1, <1>3, <1>4 DEF k

\* What HitsSound says is what the invariant does.
LEMMA HitsAreSound == HitsOK => HitsSound
<1>. SUFFICES ASSUME HitsOK PROVE HitsSound
  OBVIOUS
<1>1. Hits \subseteq DOMAIN raw /\ Len(hits) <= SEARCH_LIMIT /\ Len(hits) \in Nat
  BY DEF HitsOK, Hits
<1>2. Cardinality(Hits) = Len(hits)
  <2>1. hits \in Bijection(1 .. Len(hits), Hits)
    BY DEF HitsOK, Hits, Bijection, Injection, Surjection, IsInjective
  <2>2. IsFiniteSet(1 .. Len(hits)) /\ Cardinality(1 .. Len(hits)) = Len(hits)
    <3>1. 1 \in Int /\ Len(hits) \in Int
      BY <1>1
    <3>2. /\ IsFiniteSet(1 .. Len(hits))
          /\ Cardinality(1 .. Len(hits)) = IF 1 > Len(hits) THEN 0 ELSE Len(hits) - 1 + 1
      BY <3>1, FS_Interval
    <3>. QED
      BY <1>1, <3>2
  <2>3. ExistsBijection(1 .. Len(hits), Hits)
    BY <2>1 DEF ExistsBijection
  <2>. QED
    BY <2>2, <2>3, FS_Bijection
<1>. QED
  BY <1>1, <1>2 DEF HitsSound

-----------------------------------------------------------------------------
(* The steps of a search *)

\* free_goto leaves a machine that build_goto can begin with.
LEMMA FreeExact ==
  ASSUME FreeGoto, keywords' \in Seq(Seq(Char))
  PROVE  Exact' /\ MachineInit' /\ acs' = "none"
<1>1. MachineInit' /\ acs' = "none"
  BY DEF FreeGoto, MachineInit
<1>2. (keywords \in Seq(Seq(Symbol)) /\ MachineInit => Exact)'
  BY StartExact, PTL
<1>. QED
  BY <1>1, <1>2, CharsAreSymbols

\* The rows stay, and with them what depends on them.
LEMMA RowsKept ==
  ASSUME RowsOK, UNCHANGED <<raw, lut, keywords>>
  PROVE  RowsOK' /\ universe' = universe /\ \A c : Rank(c)' = Rank(c)
BY DEF RowsOK, universe, Strings, Rank

\* The machine is built.
LEMMA BuildOK ==
  ASSUME SearchOK, StartBuild \/ BuildStep, UNCHANGED <<raw, lut, SEARCH_LIMIT>>
  PROVE  SearchOK'
<1>1. /\ find' = "build" /\ universe /\ hits = <<>> /\ unseen = {}
      /\ UNCHANGED <<keywords, unseen, hits>>
  BY DEF StartBuild, BuildStep, found, SearchOK, PhaseOK, HitsOK
<1>2. acs' \notin {"none", "match", "hit", "miss"}
  BY DEF StartBuild, BuildStep, BuildGoto, Build, Outside, CountWord, CountDone, InsertNew,
         InsertOld, InsertWord, InsertDone, RootColumn, RootDone, Dequeue, NextColumn, Follow,
         Link, ColumnsDone, Built, Turn, Inserting
<1>3. Exact'
  <2>1. AnyNext
    BY <1>1 DEF StartBuild, BuildStep, AnyNext, MachineStep
  <2>. QED
    BY <2>1, StepExact DEF SearchOK
<1>4. RowsOK' /\ universe' = universe
  BY <1>1, RowsKept DEF SearchOK
<1>5. HitsOK'
  BY <1>1 DEF SearchOK, HitsOK
<1>6. text' = text
  BY Zenon DEF StartBuild, BuildStep, BuildGoto, Build, Outside, CountWord, CountDone, InsertNew,
         InsertOld, InsertWord, InsertDone, RootColumn, RootDone, Dequeue, NextColumn, Follow,
         Link, ColumnsDone, Built, Turn, Inserting, cursors
<1>. QED
  BY <1>1, <1>2, <1>3, <1>4, <1>5, <1>6 DEF SearchOK, PhaseOK, SeenOK

\* The search is over, and there is no machine.
LEMMA FreedOK ==
  ASSUME SearchOK, TooLarge \/ Full, UNCHANGED <<raw, lut, SEARCH_LIMIT>>
  PROVE  SearchOK'
<1>1. find' \in {"true", "false"} /\ FreeGoto /\ UNCHANGED <<keywords, unseen, hits>>
  BY DEF TooLarge, Full
<1>2. Exact' /\ MachineInit' /\ acs' = "none"
  BY <1>1, FreeExact DEF SearchOK, PhaseOK
<1>3. RowsOK' /\ universe' = universe
  BY <1>1, RowsKept DEF SearchOK
<1>4. HitsOK'
  BY <1>1 DEF SearchOK, HitsOK
<1>5. text' = <<>>
  BY <1>1 DEF FreeGoto
<1>. QED
  BY <1>1, <1>2, <1>3, <1>4, <1>5 DEF SearchOK, PhaseOK, SeenOK

\* The query begins, or fails, or the program is lost.
LEMMA QueryOK ==
  ASSUME SearchOK, Query \/ QueryFails \/ Lost, UNCHANGED <<raw, lut, SEARCH_LIMIT>>
  PROVE  SearchOK'
<1>1. UNCHANGED <<keywords, hits, machine, acs, text, s>>
  BY DEF Query, QueryFails, Lost, machine, cursors
<1>2. Exact'
  BY <1>1, StepExact DEF SearchOK
<1>3. RowsOK' /\ universe' = universe /\ \A c : Rank(c)' = Rank(c)
  BY <1>1, RowsKept DEF SearchOK
<1>4. MachineInit' = MachineInit /\ Narrow' = Narrow /\ Tested' = Tested /\ Hits' = Hits
  BY <1>1 DEF MachineInit, machine, counters, tables, cursors, Narrow, Tested, max_states, Hits
<1>5. CASE Query
  <2>1. /\ find' = "rows" /\ unseen' = {c \in DOMAIN raw : universe \/ Rank(c) > 0}
        /\ find \in {"build", "start"} /\ hits = <<>>
        /\ IF universe THEN acs = "built" ELSE find = "start"
    BY <1>5 DEF Query, MayQuery, SearchOK, HitsOK
  <2>2. HitsOK'
    BY <2>1, <1>1, <1>3 DEF SearchOK, HitsOK
  <2>3. PhaseOK'
    BY <2>1, <1>1, <1>3, <1>4 DEF SearchOK, PhaseOK
  <2>4. SeenOK'
    BY <2>1, <1>1, <1>3 DEF SeenOK, SearchOK, PhaseOK
  <2>. QED
    BY <2>2, <2>3, <2>4, <1>2, <1>3 DEF SearchOK
<1>6. CASE QueryFails \/ Lost
  <2>1. /\ find' \in {"false", "undefined"} /\ unseen' = unseen
        /\ find' = "undefined" => universe /\ acs = "outside"
    BY <1>6 DEF QueryFails, Lost, SearchOK, PhaseOK
  <2>2. HitsOK'
    BY <2>1, <1>1 DEF SearchOK, HitsOK
  <2>3. PhaseOK'
    BY <2>1, <1>1, <1>3, <1>4 DEF SearchOK, PhaseOK
  <2>4. SeenOK'
    BY <2>1, <1>1, <1>4 DEF SeenOK, SearchOK
  <2>. QED
    BY <2>2, <2>3, <2>4, <1>2, <1>3 DEF SearchOK
<1>. QED
  BY <1>5, <1>6

\* A row of the n-gram query is handed over.
LEMMA LutRowOK ==
  ASSUME SearchOK, LutRow, UNCHANGED <<raw, lut, SEARCH_LIMIT>>
  PROVE  SearchOK'
<1>1. PICK c \in NextRows : Hands(c) /\ Hit(Decode(raw[c].text))
  BY DEF LutRow
<1>2. /\ find = "rows" /\ find' = "rows" /\ ~universe /\ Len(hits) < SEARCH_LIMIT
      /\ UNCHANGED <<keywords, machine, acs, text, s>>
  BY DEF LutRow, machine, cursors
<1>3. c \in unseen /\ c \in DOMAIN raw /\ unseen' = unseen \ {c} /\ unseen \subseteq DOMAIN raw
  BY <1>1 DEF NextRows, Hands, SearchOK, HitsOK
<1>4. hits' = Append(hits, c)
  <2>1. Rank(c) > 0
    BY <1>2, <1>3 DEF SearchOK, HitsOK
  <2>. QED
    BY <1>1, <1>3, <2>1, RowDecodes, RankedHasGrams DEF SearchOK, Hit
<1>5. Exact'
  BY <1>2, StepExact DEF SearchOK
<1>6. RowsOK' /\ universe' = universe /\ \A d : Rank(d)' = Rank(d)
  BY <1>2, RowsKept DEF SearchOK
<1>7. MachineInit' = MachineInit
  BY <1>2 DEF MachineInit, machine, counters, tables, cursors
<1>8. HitsOK'
  <2>1. /\ hits \in Seq(DOMAIN raw) /\ \A a \in DOMAIN hits : hits[a] # c
        /\ \A a, b \in DOMAIN hits : hits[a] = hits[b] => a = b
        /\ Len(hits) \in Nat /\ SEARCH_LIMIT \in Nat
    BY <1>3 DEF SearchOK, HitsOK
  <2>2. /\ hits' \in Seq(DOMAIN raw) /\ Len(hits') = Len(hits) + 1
        /\ \A a, b \in DOMAIN hits' : hits'[a] = hits'[b] => a = b
        /\ {hits'[a] : a \in DOMAIN hits'} = {hits[a] : a \in DOMAIN hits} \cup {c}
    BY <1>3, <1>4, <2>1, HitOneMore
  <2>3. \A a \in DOMAIN hits' : hits'[a] \notin unseen'
    <3>1. \A a \in DOMAIN hits' : hits'[a] \in {hits[b] : b \in DOMAIN hits} \cup {c}
      BY <2>2
    <3>. QED
      BY <3>1, <1>3 DEF SearchOK, HitsOK
  <2>4. Len(hits') <= SEARCH_LIMIT
    BY <1>2, <2>1, <2>2
  <2>5. \A d \in unseen' : Rank(d)' > 0
    BY <1>2, <1>3, <1>6 DEF SearchOK, HitsOK
  <2>. QED
    BY <1>2, <1>3, <2>1, <2>2, <2>3, <2>4, <2>5 DEF HitsOK
<1>9. PhaseOK'
  BY <1>2, <1>6, <1>7 DEF SearchOK, PhaseOK
<1>10. SeenOK'
  BY <1>2, <1>6 DEF SearchOK, PhaseOK, SeenOK
<1>. QED
  BY <1>5, <1>6, <1>8, <1>9, <1>10 DEF SearchOK

\* A row of the universe is looked at.
LEMMA UniverseRowOK ==
  ASSUME SearchOK, UniverseRow, UNCHANGED <<raw, lut, SEARCH_LIMIT>>
  PROVE  SearchOK'
<1>. DEFINE cmd(c) == Decode(raw[c].text)
<1>1. PICK c \in NextRows :
        /\ Hands(c)
        /\ IF cmd(c) = Invalid
           THEN find' = "crashed" /\ acs = "built" /\ UNCHANGED machine
           ELSE find' = "match" /\ StringMatches(cmd(c))
  BY DEF UniverseRow
<1>2. /\ find = "rows" /\ universe /\ Len(hits) < SEARCH_LIMIT /\ acs = "built"
      /\ UNCHANGED <<keywords, hits>>
  BY DEF UniverseRow, SearchOK, PhaseOK
<1>3. /\ c \in unseen /\ c \in DOMAIN raw /\ unseen' = unseen \ {c} /\ unseen \subseteq DOMAIN raw
      /\ \A d \in unseen : ~Before(d, c)
  BY <1>1 DEF NextRows, Hands, SearchOK, HitsOK
<1>4. RowsOK' /\ universe' = universe /\ RowsOK
  BY <1>2, RowsKept DEF SearchOK
<1>5. \A d \in unseen : raw[c].ts >= raw[d].ts
  <2>1. \A d \in unseen : raw[c].ts \in Nat /\ raw[d].ts \in Nat
    BY <1>3, <1>4 DEF RowsOK
  <2>. QED
    BY <1>2, <1>3, <2>1 DEF Before
<1>6. Hits' = Hits /\ c \notin Hits
  BY <1>2, <1>3 DEF Hits, SearchOK, HitsOK
<1>7. CASE cmd(c) = Invalid
  <2>1. find' = "crashed" /\ <<>> \in DOMAIN raw /\ UNCHANGED <<machine, acs, text, s>>
    BY <1>1, <1>3, <1>4, <1>7, RowDecodes DEF machine, cursors
  <2>2. Exact'
    BY <1>2, <2>1, StepExact DEF SearchOK
  <2>3. HitsOK'
    BY <1>2, <1>3, <2>1 DEF SearchOK, HitsOK
  <2>4. PhaseOK' /\ SeenOK'
    BY <1>2, <2>1 DEF SearchOK, PhaseOK, SeenOK
  <2>. QED
    BY <1>4, <2>2, <2>3, <2>4 DEF SearchOK
<1>8. CASE cmd(c) # Invalid
  <2>1. find' = "match" /\ StringMatches(cmd(c))
    BY <1>1, <1>8
  <2>2. /\ cmd(c) = c /\ c \in Seq(Char)
    <3>1. c # <<>>
      BY <1>3, <1>4, <1>8, EmptyFails DEF RowsOK
    <3>. QED
      BY <3>1, <1>3, <1>4, RowDecodes
  <2>3. /\ find' = "match" /\ StringMatches(c) /\ text' = c /\ acs' = "match"
        /\ UNCHANGED <<upto, j>>
    BY <2>1, <2>2 DEF StringMatches, counters
  <2>4. Exact'
    <3>1. c \in Seq(Symbol)
      BY <2>2, CharsAreSymbols
    <3>2. AnyNext
      BY <3>1, <2>3, <1>2 DEF AnyNext
    <3>. QED
      BY <3>2, StepExact DEF SearchOK
  <2>5. HitsOK'
    BY <1>2, <1>3, <1>6, <2>3 DEF SearchOK, HitsOK
  <2>6. PhaseOK'
    BY <1>2, <1>3, <1>4, <2>3 DEF SearchOK, PhaseOK
  <2>7. SeenOK'
    <3>. SUFFICES ASSUME Narrow', NEW e \in DOMAIN raw, e \notin unseen'
                  PROVE  /\ e \in Hits' => Has(e)'
                         /\ Finds(e)' /\ (find' = "match" => e # text') => e \in Hits'
                         /\ \A d \in unseen' : raw[e].ts >= raw[d].ts
      BY <1>2, <2>3 DEF SeenOK
    <3>1. Narrow /\ Finds(e)' = Finds(e) /\ Has(e)' = Has(e)
      BY <1>2, <2>3 DEF Narrow, Tested, max_states, Finds, Has, Holds
    <3>2. CASE e = c
      BY <3>2, <1>3, <1>5, <1>6, <2>3
    <3>3. CASE e # c
      <4>1. e \in DOMAIN raw \ unseen
        BY <3>3, <1>3
      <4>2. (e \in Hits => Has(e)) /\ (Finds(e) => e \in Hits) /\ \A d \in unseen : raw[e].ts >= raw[d].ts
        BY <4>1, <3>1, <1>2 DEF SearchOK, SeenOK
      <4>. QED
        BY <4>2, <3>1, <3>3, <1>3, <1>6, <2>3
    <3>. QED
      BY <3>2, <3>3
  <2>. QED
    BY <1>4, <2>4, <2>5, <2>6, <2>7 DEF SearchOK
<1>. QED
  BY <1>7, <1>8

\* A character is matched.
LEMMA MatchStepOK ==
  ASSUME SearchOK, MatchStep, UNCHANGED <<raw, lut, SEARCH_LIMIT>>
  PROVE  SearchOK'
<1>1. /\ find = "match" /\ find' = "match" /\ universe /\ (Match \/ Outside)
      /\ UNCHANGED <<keywords, unseen, hits>>
  BY DEF MatchStep, found, SearchOK, PhaseOK
<1>2. text' = text /\ UNCHANGED <<upto, j>> /\ acs' \in {"match", "hit", "miss", "outside"}
  <2>1. acs \in {"match", "hit", "miss", "outside"}
    BY <1>1 DEF SearchOK, PhaseOK
  <2>. QED
    BY <1>1, <2>1 DEF Match, MatchFail, MatchChar, MatchEnd, Outside, Scanning, Turn, counters, cursors
<1>3. Exact'
  <2>1. AnyNext
    BY <1>1 DEF AnyNext, MachineStep
  <2>. QED
    BY <2>1, StepExact DEF SearchOK
<1>4. RowsOK' /\ universe' = universe
  BY <1>1, RowsKept DEF SearchOK
<1>5. Hits' = Hits /\ Narrow' = Narrow /\ \A c : Finds(c)' = Finds(c) /\ Has(c)' = Has(c)
  BY <1>1, <1>2 DEF Hits, Narrow, Tested, max_states, Finds, Has, Holds
<1>6. HitsOK'
  BY <1>1, <1>2, <1>5 DEF SearchOK, HitsOK
<1>7. PhaseOK'
  BY <1>1, <1>2, <1>4 DEF SearchOK, PhaseOK
<1>8. Narrow' /\ acs' = "hit" => s' \in DOMAIN text'
  <2>. SUFFICES ASSUME Narrow, acs' = "hit" PROVE s' \in DOMAIN text
    BY <1>2, <1>5
  <2>1. acs = "match" /\ s < Len(text) /\ s' = s + 1
    BY <1>1, Zenon DEF SearchOK, PhaseOK, Match, MatchFail, MatchChar, MatchEnd, Outside, Turn,
                Scanning, counters, cursors
  <2>2. text \in Seq(Symbol) /\ s \in 0 .. Len(text)
    BY <2>1 DEF SearchOK, Exact, Inv, Sound, BuiltOK
  <2>. QED
    BY <2>1, <2>2
<1>9. SeenOK'
  BY <1>1, <1>2, <1>4, <1>5, <1>8 DEF SearchOK, SeenOK
<1>. QED
  BY <1>3, <1>4, <1>6, <1>7, <1>9 DEF SearchOK

\* The matcher answers, and the row is handed over or not.
LEMMA MatchDoneOK ==
  ASSUME SearchOK, MatchDone, UNCHANGED <<raw, lut, SEARCH_LIMIT>>
  PROVE  SearchOK'
<1>1. /\ find = "match" /\ find' = "rows" /\ universe /\ acs \in {"hit", "miss"} /\ acs' = "built"
      /\ hits' = IF acs = "hit" THEN Append(hits, text) ELSE hits
      /\ UNCHANGED <<keywords, unseen, upto, j, text>>
  BY DEF MatchDone, MatchReturns, Turn, Hit, SearchOK, PhaseOK, counters, cursors
<1>2. Exact'
  <2>1. AnyNext
    BY <1>1 DEF AnyNext, MatchDone
  <2>. QED
    BY <2>1, StepExact DEF SearchOK
<1>3. RowsOK' /\ universe' = universe
  BY <1>1, RowsKept DEF SearchOK
<1>4. Narrow' = Narrow /\ \A c : Finds(c)' = Finds(c) /\ Has(c)' = Has(c)
  BY <1>1 DEF Narrow, Tested, max_states, Finds, Has, Holds
<1>5. PhaseOK'
  BY <1>1, <1>3 DEF SearchOK, PhaseOK
<1>6. /\ hits \in Seq(DOMAIN raw) /\ text \in DOMAIN raw /\ \A a \in DOMAIN hits : hits[a] # text
      /\ \A a, b \in DOMAIN hits : hits[a] = hits[b] => a = b
      /\ Len(hits) \in Nat /\ SEARCH_LIMIT \in Nat /\ Len(hits) < SEARCH_LIMIT
      /\ unseen \subseteq DOMAIN raw /\ text \notin unseen /\ text \notin Hits
  BY <1>1 DEF SearchOK, HitsOK, Hits
<1>7. HitsOK' /\ Hits' = IF acs = "hit" THEN Hits \cup {text} ELSE Hits
  <2>1. CASE acs = "hit"
    <3>1. hits' = Append(hits, text)
      BY <1>1, <2>1
    <3>2. /\ hits' \in Seq(DOMAIN raw) /\ Len(hits') = Len(hits) + 1
          /\ \A a, b \in DOMAIN hits' : hits'[a] = hits'[b] => a = b
          /\ {hits'[a] : a \in DOMAIN hits'} = {hits[a] : a \in DOMAIN hits} \cup {text}
      BY <3>1, <1>6, HitOneMore
    <3>3. \A a \in DOMAIN hits' : hits'[a] \notin unseen
      <4>1. \A a \in DOMAIN hits' : hits'[a] \in {hits[b] : b \in DOMAIN hits} \cup {text}
        BY <3>2
      <4>. QED
        BY <4>1, <1>6 DEF SearchOK, HitsOK
    <3>4. Len(hits') <= SEARCH_LIMIT
      BY <3>2, <1>6
    <3>. QED
      BY <1>1, <1>3, <1>6, <2>1, <3>2, <3>3, <3>4 DEF HitsOK, Hits
  <2>2. CASE acs # "hit"
    <3>1. hits' = hits
      BY <1>1, <2>2
    <3>. QED
      BY <1>1, <1>3, <2>2, <3>1 DEF SearchOK, HitsOK, Hits
  <2>. QED
    BY <2>1, <2>2
<1>8. ASSUME Narrow
      PROVE  (acs = "hit" => Has(text)) /\ (Finds(text) => acs = "hit")
  <2>1. MatcherExact
    BY ExactAnswers DEF SearchOK
  <2>2. CASE acs = "hit"
    <3>1. s \in DOMAIN text
      BY <1>8, <2>2 DEF SearchOK, SeenOK
    <3>2. PICK w \in DOMAIN keywords : EndsWith(SubSeq(text, 1, s), keywords[w])
      BY <1>8, <2>1, <2>2 DEF MatcherExact
    <3>. QED
      BY <2>2, <3>1, <3>2 DEF Has, Holds
  <2>3. CASE acs = "miss"
    BY <1>8, <2>1, <2>3 DEF MatcherExact, Finds, Holds
  <2>. QED
    BY <1>1, <2>2, <2>3
<1>9. SeenOK'
  <2>. SUFFICES ASSUME Narrow, NEW e \in DOMAIN raw \ unseen
                PROVE  /\ e \in Hits' => Has(e)
                       /\ Finds(e) => e \in Hits'
                       /\ \A d \in unseen : raw[e].ts >= raw[d].ts
    BY <1>1, <1>4 DEF SeenOK
  <2>1. /\ e \in Hits => Has(e)
        /\ Finds(e) /\ e # text => e \in Hits
        /\ \A d \in unseen : raw[e].ts >= raw[d].ts
    BY <1>1 DEF SearchOK, SeenOK
  <2>. QED
    BY <2>1, <1>6, <1>7, <1>8
<1>. QED
  BY <1>2, <1>3, <1>5, <1>7, <1>9 DEF SearchOK

\* Every step of a search keeps the invariant.
LEMMA FindStepOK ==
  ASSUME SearchOK, FindStep
  PROVE  SearchOK'
BY BuildOK, FreedOK, QueryOK, LutRowOK, UniverseRowOK, MatchStepOK, MatchDoneOK DEF FindStep

\* A search begins.
LEMMA FindCmdOK ==
  ASSUME SearchOK, NEW kws \in Seq(Seq(Char)), FindCmd(kws), UNCHANGED <<raw, lut, SEARCH_LIMIT>>
  PROVE  SearchOK'
<1>1. /\ find = "none" /\ find' \in {"false", "start"} /\ keywords' = kws
      /\ hits' = <<>> /\ unseen' = {} /\ UNCHANGED <<machine, acs>>
  BY DEF FindCmd, machine
<1>2. MachineInit /\ acs = "none"
  BY <1>1 DEF SearchOK, PhaseOK
<1>3. MachineInit'
  BY <1>1, <1>2 DEF MachineInit, machine, counters, tables, cursors
<1>4. Exact'
  <2>1. (keywords \in Seq(Seq(Symbol)) /\ MachineInit => Exact)'
    BY StartExact, PTL
  <2>. QED
    BY <2>1, <1>1, <1>3, CharsAreSymbols
<1>5. RowsOK'
  BY DEF SearchOK, RowsOK
<1>6. HitsOK' /\ PhaseOK' /\ SeenOK'
  <2>1. text' = <<>>
    BY <1>3 DEF MachineInit
  <2>. QED
    BY <1>1, <1>2, <1>3, <2>1 DEF SearchOK, HitsOK, PhaseOK, SeenOK
<1>. QED
  BY <1>4, <1>5, <1>6 DEF SearchOK

\* The caller goes on.
LEMMA ForgetOK ==
  ASSUME SearchOK, ForgetSearch, UNCHANGED <<raw, lut>>, SEARCH_LIMIT' \in Nat
  PROVE  SearchOK'
<1>1. /\ find' = "none" /\ unseen' = {} /\ hits' = <<>> /\ keywords' = <<>> /\ FreeGoto
  BY DEF ForgetSearch
<1>2. Exact' /\ MachineInit' /\ acs' = "none"
  BY <1>1, FreeExact
<1>3. RowsOK'
  BY DEF SearchOK, RowsOK
<1>4. HitsOK' /\ PhaseOK' /\ SeenOK'
  <2>1. text' = <<>>
    BY <1>1 DEF FreeGoto
  <2>. QED
    BY <1>1, <1>2, <2>1 DEF HitsOK, PhaseOK, SeenOK
<1>. QED
  BY <1>2, <1>3, <1>4 DEF SearchOK

\* Rows are added, or the limit is set, while nothing is searched for.
LEMMA BetweenOK ==
  ASSUME SearchOK, find = "none", UNCHANGED <<keywords, found, machine>>, RowsOK', SEARCH_LIMIT' \in Nat
  PROVE  SearchOK'
<1>1. UNCHANGED <<keywords, find, unseen, hits, acs, text, s>>
  BY DEF found, machine, cursors
<1>2. Exact'
  BY StepExact DEF SearchOK
<1>3. MachineInit' = MachineInit /\ universe' = universe
  BY <1>1 DEF MachineInit, machine, counters, tables, cursors, universe, Strings
<1>4. acs = "none" /\ text = <<>>
  BY DEF SearchOK, PhaseOK, MachineInit
<1>. QED
  BY <1>1, <1>2, <1>3, <1>4 DEF SearchOK, HitsOK, PhaseOK, SeenOK

\* What the invariant says of the crash and of the search of the universe.
LEMMA CrashIsEmpty == SearchOK => OnlyEmptyCrashes
BY DEF SearchOK, HitsOK, OnlyEmptyCrashes

LEMMA SeenIsExact == SearchOK => UniverseExact
BY DEF SearchOK, SeenOK, UniverseExact, Finds, Has

-----------------------------------------------------------------------------
(* The order of the hits of a search by n-grams *)

\* Whatever has an n-gram was handed over or is still to come, and nothing that
\* is still to come goes before what was handed over.
SortedOK ==
  find \in {"rows", "true"} /\ ~universe =>
    /\ \A c \in DOMAIN raw : Rank(c) > 0 => c \in Hits \cup unseen
    /\ \A h \in Hits, d \in unseen : ~Before(d, h)
    /\ find = "true" => unseen = {} \/ Len(hits) = SEARCH_LIMIT

\* A step of the search leaves the order.
LEMMA FindStepSorted ==
  ASSUME SearchOK, SortedOK, FindStep
  PROVE  SortedOK'
<1>1. RowsOK /\ UNCHANGED <<raw, lut, SEARCH_LIMIT>>
  BY DEF SearchOK, FindStep
<1>2. ASSUME UNCHANGED keywords
      PROVE  /\ universe' = universe /\ \A c : Rank(c)' = Rank(c)
             /\ \A c, d : Before(c, d)' = Before(c, d)
  BY <1>1, <1>2, RowsKept DEF Before
<1>3. CASE StartBuild \/ BuildStep \/ TooLarge \/ QueryFails \/ UniverseRow \/ MatchStep \/ MatchDone \/ Lost
  <2>1. find' \notin {"rows", "true"} \/ (universe /\ UNCHANGED keywords)
    BY <1>3 DEF StartBuild, BuildStep, TooLarge, QueryFails, UniverseRow, MatchStep, MatchDone, Lost,
                found, SearchOK, PhaseOK
  <2>. QED
    BY <2>1, <1>2 DEF SortedOK
<1>4. CASE Query
  <2>1. /\ find' = "rows" /\ unseen' = {c \in DOMAIN raw : universe \/ Rank(c) > 0}
        /\ UNCHANGED keywords /\ hits' = hits /\ hits = <<>>
    BY <1>4 DEF Query, MayQuery, SearchOK, HitsOK
  <2>2. Hits' = {}
    BY <2>1 DEF Hits
  <2>. QED
    BY <2>1, <2>2, <1>1, <1>2 DEF SortedOK
<1>5. CASE LutRow
  <2>1. PICK c \in NextRows : Hands(c) /\ Hit(Decode(raw[c].text))
    BY <1>5 DEF LutRow
  <2>2. /\ find = "rows" /\ find' = "rows" /\ ~universe /\ UNCHANGED keywords
        /\ c \in unseen /\ unseen' = unseen \ {c} /\ unseen \subseteq DOMAIN raw
        /\ \A d \in unseen : ~Before(d, c)
    BY <1>5, <2>1 DEF LutRow, NextRows, Hands, SearchOK, HitsOK
  <2>3. Hits' = Hits \cup {c}
    <3>1. hits' = Append(hits, c)
      <4>1. Rank(c) > 0
        BY <2>2 DEF SearchOK, HitsOK
      <4>. QED
        BY <2>1, <2>2, <4>1, <1>1, RowDecodes, RankedHasGrams DEF Hit
    <3>2. /\ hits \in Seq(DOMAIN raw) /\ c \in DOMAIN raw /\ \A a \in DOMAIN hits : hits[a] # c
          /\ \A a, b \in DOMAIN hits : hits[a] = hits[b] => a = b
      BY <2>2 DEF SearchOK, HitsOK
    <3>3. {hits'[a] : a \in DOMAIN hits'} = {hits[a] : a \in DOMAIN hits} \cup {c}
      BY <3>1, <3>2, HitOneMore
    <3>. QED
      BY <3>3 DEF Hits
  <2>. QED
    BY <2>2, <2>3, <1>1, <1>2 DEF SortedOK
<1>6. CASE Full
  <2>1. /\ find = "rows" /\ find' = "true" /\ (unseen = {} \/ Len(hits) = SEARCH_LIMIT)
        /\ UNCHANGED <<keywords, unseen, hits>> /\ Hits' = Hits
    BY <1>6 DEF Full, Hits
  <2>. QED
    BY <2>1, <1>1, <1>2 DEF SortedOK
<1>. QED
  BY <1>3, <1>4, <1>5, <1>6 DEF FindStep

\* What NothingLeftOut says follows from the order and what the ranks count.
LEMMA SortedLeavesNothing ==
  ASSUME SearchOK, SortedOK
  PROVE  NothingLeftOut
<1>. SUFFICES ASSUME find = "true", ~universe, \A k \in Strings : InASCII(k),
                     NEW c \in DOMAIN raw \ Hits, Wanted \subseteq Windows(c)
              PROVE  /\ Len(hits) = SEARCH_LIMIT
                     /\ \A h \in Hits : Wanted \subseteq Windows(h) /\ raw[h].ts >= raw[c].ts
  BY DEF NothingLeftOut, Wanted
<1>. DEFINE N == Cardinality(Queried(Strings))
<1>1. RowsOK /\ keywords \in Seq(Seq(Char)) /\ Hits \subseteq DOMAIN raw
  BY DEF SearchOK, PhaseOK, HitsOK, Hits
<1>2. /\ N \in Nat /\ N # 0
      /\ \A d \in DOMAIN raw : /\ Rank(d) \in Nat /\ Rank(d) <= N
                               /\ Rank(d) = N <=> Wanted \subseteq Windows(d)
  <2>1. \A d \in DOMAIN raw : d \in Seq(Char)
    BY <1>1 DEF RowsOK
  <2>2. \A d \in DOMAIN raw : Wanted \subseteq Windows(d) <=> Queried(Strings) \subseteq Ngrams(d)
    BY <1>1, <2>1, WantedAre
  <2>3. Queried(Strings) # {}
    BY <1>1, QueriedFinite
  <2>. QED
    BY <1>1, <2>2, <2>3, RankIs
<1>. HIDE DEF N
<1>3. Rank(c) = N /\ c \in unseen
  BY <1>2 DEF SortedOK
<1>4. Len(hits) = SEARCH_LIMIT
  BY <1>3 DEF SortedOK
<1>5. ASSUME NEW h \in Hits
      PROVE  Wanted \subseteq Windows(h) /\ raw[h].ts >= raw[c].ts
  <2>1. ~Before(c, h) /\ h \in DOMAIN raw /\ Rank(h) \in Nat /\ Rank(h) <= N
    BY <1>1, <1>2, <1>3 DEF SortedOK
  <2>2. Rank(h) = N
    BY <2>1, <1>2, <1>3 DEF Before
  <2>3. ~(raw[c].ts > raw[h].ts) /\ raw[c].ts \in Nat /\ raw[h].ts \in Nat
    BY <1>1, <2>1, <2>2, <1>3 DEF Before, RowsOK
  <2>. QED
    BY <1>2, <2>1, <2>2, <2>3
<1>. QED
  BY <1>4, <1>5

=============================================================================
