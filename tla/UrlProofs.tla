-------------------------------- MODULE UrlProofs --------------------------------
(***************************************************************************)
(* Proofs about [urlparams]: its store is the one of Kvp, the query string *)
(* of a bang fits into the buffer that was allocated for it, and a server  *)
(* reads from it what was added.                                           *)
(***************************************************************************)
EXTENDS UrlParams, KvpProofs

(* [urlparams] sends no array messages, and does nothing else to its store.    *)
THEOREM UrlparamsRunsStore == UrlSpec => Spec
<1>1. UrlInit => Init
  BY DEF UrlInit
<1>2. [UrlNext]_vars => [Next]_vars
  BY DEF UrlNext, Next
<1> QED
  BY <1>1, <1>2, PTL DEF UrlSpec, Spec

Bytes == 1 .. 255

(* A byte becomes one byte or three.                                           *)
LEMMA EncodedByte ==
    ASSUME NEW b \in Bytes
    PROVE  EncodeByte(b) \in Seq(Int) /\ Len(EncodeByte(b)) <= 3
<1> DEFINE c == Char(b)
<1>1. c \in Int
  BY DEF Char, Bytes
<1> HIDE DEF c
<1>2. \A x \in Int : Hex(x) \in Int
  BY DEF Hex
<1>3. c \div 16 \in Int /\ c % 16 \in Int
  BY <1>1
<1>4. Hex(c \div 16) \in Int /\ Hex(c % 16) \in Int
  <2>1. Hex(c \div 16) \in Int
    BY <1>2, <1>3
  <2>2. \A x \in Int : Hex(x % 16) \in Int
    BY DEF Hex
  <2> QED
    BY <1>1, <2>1, <2>2
<1> QED
  BY <1>4 DEF EncodeByte, c, Percent, Bytes

(* The size urlp_encode allocates is enough for the text and its zero.         *)
LEMMA EncodedFits ==
    ASSUME NEW t \in Seq(Bytes)
    PROVE  /\ Encode(t) \in Seq(Int)
           /\ Len(Encode(t)) + 1 <= EncodedLen(t)
<1> DEFINE s == [i \in DOMAIN t |-> EncodeByte(t[i])]
           w == [i \in 0 .. Len(t) |-> 3 * i]
<1>1. Len(t) \in Nat /\ DOMAIN t = 1 .. Len(t)
  OBVIOUS
<1>2. \A i \in 1 .. Len(t) : EncodeByte(t[i]) \in Seq(Int) /\ Len(EncodeByte(t[i])) <= 3
  <2> TAKE i \in 1 .. Len(t)
  <2>1. t[i] \in Bytes
    BY <1>1
  <2> QED
    BY <2>1, EncodedByte
<1>3. s \in Seq(Seq(Int)) /\ Len(s) = Len(t)
  BY <1>1, <1>2
<1>4. ASSUME NEW i \in 1 .. Len(s) PROVE Len(s[i]) \in Nat /\ Len(s[i]) <= 3
  <2>1. s[i] = EncodeByte(t[i]) /\ EncodeByte(t[i]) \in Seq(Int) /\ Len(EncodeByte(t[i])) <= 3
    BY <1>1, <1>2, <1>3
  <2> HIDE DEF s
  <2> QED
    BY <2>1
<1>5. Encode(t) = FlattenSeq(s)
  BY DEF Encode
<1> HIDE DEF s
<1>6. w \in [0 .. Len(s) -> Int] /\ w[0] = 0 /\ w[Len(s)] = 3 * Len(t)
  BY <1>1, <1>3
<1>7. \A i \in 1 .. Len(s) : w[i - 1] + Len(s[i]) <= w[i]
  <2> TAKE i \in 1 .. Len(s)
  <2>1. w[i - 1] = 3 * i - 3 /\ w[i] = 3 * i
    BY <1>1, <1>3
  <2> HIDE DEF w
  <2> QED
    BY <1>4, <2>1
<1> HIDE DEF w
<1>8. Encode(t) \in Seq(Int) /\ Len(Encode(t)) <= 3 * Len(t)
  BY <1>3, <1>5, <1>6, <1>7, FlattenSeqType, FlattenSeqFits
<1> QED
  BY <1>1, <1>8 DEF EncodedLen

--------------------------------------------------------------------------------
(* The two passes of urlparams_bang                                            *)

(* The first pass: what is added up, key after key.                            *)
AddedUp(f) ==
    [i \in 0 .. Len(data) |->
        IF i = 0 THEN 0 ELSE f[i - 1] + EncodedLen(data[i]) + EncodedLen(Value(data[i])) + 2]
UpToKey == CHOOSE f : f = AddedUp(f)

(* The size of the buffer is what is added up over all keys.                   *)
LEMMA SizeUpTo == OutputLen = UpToKey[Len(data)]
  BY DEF OutputLen, UpToKey, AddedUp

(* What a bang encodes are keys and values of the store.                       *)
LEMMA TextsOfStore ==
    ASSUME TypeOK, NEW i \in 1 .. Len(data)
    PROVE  data[i] \in Seq(Bytes) /\ Value(data[i]) \in Seq(Bytes)
<1>1. data[i] \in Keys /\ Present(data[i])
  BY DEF TypeOK, Elements
<1>2. Value(data[i]) = memory[pair[data[i]].value].val
  <2>1. Entry(data[i]) = [isArray |-> FALSE, values |-> <<memory[pair[data[i]].value].val>>]
    BY <1>1, SingleEntry, UrlAssumption
  <2> QED
    BY <2>1 DEF Value
<1>3. pair[data[i]].value \in Nodes
  BY <1>1 DEF TypeOK, Present
<1>4. memory[pair[data[i]].value].val \in Values
  BY <1>3 DEF TypeOK
<1> QED
  BY <1>1, <1>2, <1>4, UrlAssumption DEF Bytes

(* The sizes are added up key by key.                                          *)
LEMMA AddedUpExists ==
    ASSUME TypeOK
    PROVE  /\ UpToKey \in [0 .. Len(data) -> Nat] /\ UpToKey[0] = 0
           /\ \A i \in 1 .. Len(data) :
                 UpToKey[i] = UpToKey[i - 1] + EncodedLen(data[i]) + EncodedLen(Value(data[i])) + 2
<1> DEFINE E(i) == EncodedLen(data[i]) + EncodedLen(Value(data[i])) + 2
           F == [i \in 1 .. Len(data) |-> [n \in Nat |-> n + E(i)]]
<1>1. Len(data) \in Nat
  BY DEF TypeOK
<1>2. \A i \in 1 .. Len(data) : /\ EncodedLen(data[i]) \in Nat /\ EncodedLen(Value(data[i])) \in Nat
                                /\ E(i) \in Nat
  <2> TAKE i \in 1 .. Len(data)
  <2>1. Len(data[i]) \in Nat /\ Len(Value(data[i])) \in Nat
    BY TextsOfStore
  <2>2. EncodedLen(data[i]) \in Nat /\ EncodedLen(Value(data[i])) \in Nat
    BY <2>1 DEF EncodedLen
  <2> QED
    BY <2>2
<1> HIDE DEF E
<1>3. F \in [1 .. Len(data) -> [Nat -> Nat]]
  BY <1>2
<1>4. \E f : Iterates(f, Nat, Len(data), 0, F)
  <2> HIDE DEF F
  <2> QED
    BY <1>1, <1>3, Iteration
<1>5. PICK f : Iterates(f, Nat, Len(data), 0, F)
  BY <1>4
<1>6. ASSUME NEW i \in 1 .. Len(data) PROVE f[i] = f[i - 1] + E(i)
  <2>1. f[i - 1] \in Nat
    <3>1. i - 1 \in 0 .. Len(data)
      BY <1>1
    <3> QED
      BY <1>5, <3>1 DEF Iterates
  <2>2. f[i] = F[i][f[i - 1]]
    BY <1>5 DEF Iterates
  <2> QED
    BY <2>1, <2>2
<1>7. f \in [0 .. Len(data) -> Nat] /\ f[0] = 0
  BY <1>5 DEF Iterates
<1>8. ASSUME NEW i \in 1 .. Len(data)
      PROVE  f[i] = f[i - 1] + EncodedLen(data[i]) + EncodedLen(Value(data[i])) + 2
  <2>1. f[i - 1] \in Nat
    BY <1>1, <1>7
  <2> QED
    BY <1>2, <1>6, <2>1 DEF E
<1>9. f = AddedUp(f)
  BY <1>1, <1>7, <1>8 DEF AddedUp
<1>10. UpToKey = AddedUp(UpToKey)
  BY <1>9 DEF UpToKey
<1>11. UpToKey[0] = 0 /\ \A i \in 1 .. Len(data) :
          UpToKey[i] = UpToKey[i - 1] + EncodedLen(data[i]) + EncodedLen(Value(data[i])) + 2
  BY <1>1, <1>10 DEF AddedUp
<1>12. DOMAIN UpToKey = 0 .. Len(data) /\ UpToKey = [i \in 0 .. Len(data) |-> UpToKey[i]]
  BY <1>10 DEF AddedUp
<1> DEFINE T == {n \in Nat : n <= Len(data) => UpToKey[n] \in Nat}
<1>13. 0 \in T
  BY <1>11
<1>14. ASSUME NEW n \in Nat, n \in T PROVE n + 1 \in T
  <2> SUFFICES ASSUME n + 1 <= Len(data) PROVE UpToKey[n + 1] \in Nat
    OBVIOUS
  <2>1. n + 1 \in 1 .. Len(data) /\ (n + 1) - 1 = n /\ UpToKey[n] \in Nat
    BY <1>1, <1>14
  <2>2. UpToKey[n + 1] = UpToKey[n] + EncodedLen(data[n + 1]) + EncodedLen(Value(data[n + 1])) + 2
    BY <1>11, <2>1
  <2> QED
    BY <1>2, <2>1, <2>2
<1>15. Nat \subseteq T
  <2> HIDE DEF T
  <2> QED
    BY <1>13, <1>14, ByInduction
<1>16. \A i \in 0 .. Len(data) : UpToKey[i] \in Nat
  BY <1>1, <1>15
<1> QED
  BY <1>11, <1>12, <1>16

(* The second pass: what it writes for one key.                                *)
Piece(i) ==
    Encode(data[i]) \o <<Equals>> \o Encode(Value(data[i]))
        \o IF i < Len(data) THEN <<Ampersand>> ELSE <<>>

(* It is shorter by two than what the first pass added for the key.            *)
LEMMA PieceFits ==
    ASSUME TypeOK, NEW i \in 1 .. Len(data)
    PROVE  /\ Piece(i) \in Seq(Int)
           /\ Len(Piece(i)) + 2 <= EncodedLen(data[i]) + EncodedLen(Value(data[i])) + 2
<1> DEFINE k == Encode(data[i])
           v == Encode(Value(data[i]))
           e == IF i < Len(data) THEN <<Ampersand>> ELSE <<>>
<1>1. /\ k \in Seq(Int) /\ Len(k) + 1 <= EncodedLen(data[i]) /\ EncodedLen(data[i]) \in Nat
      /\ v \in Seq(Int) /\ Len(v) + 1 <= EncodedLen(Value(data[i])) /\ EncodedLen(Value(data[i])) \in Nat
  <2>1. data[i] \in Seq(Bytes) /\ Value(data[i]) \in Seq(Bytes)
    BY TextsOfStore
  <2>2. EncodedLen(data[i]) \in Nat /\ EncodedLen(Value(data[i])) \in Nat
    BY <2>1 DEF EncodedLen
  <2> QED
    BY <2>1, <2>2, EncodedFits
<1>2. e \in Seq(Int) /\ Len(e) <= 1 /\ <<Equals>> \in Seq(Int)
  BY DEF Ampersand, Equals
<1>3. Piece(i) = k \o <<Equals>> \o v \o e
  BY DEF Piece
<1> HIDE DEF k, v, e
<1>4. k \o <<Equals>> \in Seq(Int) /\ Len(k \o <<Equals>>) = Len(k) + 1
  BY <1>1, <1>2
<1>5. k \o <<Equals>> \o v \in Seq(Int) /\ Len(k \o <<Equals>> \o v) = Len(k) + 1 + Len(v)
  BY <1>1, <1>4
<1>6. Piece(i) \in Seq(Int) /\ Len(Piece(i)) = Len(k) + 1 + Len(v) + Len(e)
  BY <1>2, <1>3, <1>5
<1>7. Len(k) \in Nat /\ Len(v) \in Nat /\ Len(e) \in Nat
  BY <1>1, <1>2
<1> QED
  BY <1>1, <1>2, <1>6, <1>7

(* A bang never writes behind the end of its buffer, whatever was added: the   *)
(* sizes that the first pass adds up are enough for what the second one writes *)
(* and for the zero at its end.                                                *)
THEOREM QueryFitsBuffer == UrlSpec => []BufferFits
<1>1. TypeOK => BufferFits
  <2> SUFFICES ASSUME TypeOK, data # <<>> PROVE Len(Output) + 1 <= OutputLen
    BY DEF BufferFits
  <2> DEFINE s == [i \in 1 .. Len(data) |-> Piece(i)]
             w == [i \in 0 .. Len(data) |-> UpToKey[i] - i]
  <2>1. Len(data) \in Nat \ {0} /\ DOMAIN data = 1 .. Len(data)
    BY DEF TypeOK
  <2>2. s \in Seq(Seq(Int)) /\ Len(s) = Len(data) /\ \A i \in 1 .. Len(data) : s[i] = Piece(i)
    BY <2>1, PieceFits
  <2>3. Output = FlattenSeq(s)
    BY <2>1 DEF Output, Piece
  <2> HIDE DEF s
  <2>4. w \in [0 .. Len(s) -> Int] /\ w[0] = 0 /\ w[Len(s)] = UpToKey[Len(data)] - Len(data)
    BY <2>1, <2>2, AddedUpExists
  <2>5. ASSUME NEW i \in 1 .. Len(s) PROVE w[i - 1] + Len(s[i]) <= w[i]
    <3> DEFINE e == EncodedLen(data[i]) + EncodedLen(Value(data[i])) + 2
    <3>1. UpToKey[i - 1] \in Nat /\ UpToKey[i] \in Nat
      <4>1. i - 1 \in 0 .. Len(data) /\ i \in 0 .. Len(data)
        BY <2>1, <2>2
      <4> QED
        BY <4>1, AddedUpExists
    <3>2. w[i - 1] = UpToKey[i - 1] - i + 1 /\ w[i] = UpToKey[i] - i
      BY <2>1, <2>2, <3>1
    <3>3. Piece(i) \in Seq(Int) /\ Len(s[i]) = Len(Piece(i)) /\ Len(Piece(i)) + 2 <= e
      BY <2>2, PieceFits
    <3>4. e \in Nat
      <4>1. data[i] \in Seq(Bytes) /\ Value(data[i]) \in Seq(Bytes)
        BY <2>2, TextsOfStore
      <4>2. EncodedLen(data[i]) \in Nat /\ EncodedLen(Value(data[i])) \in Nat
        BY <4>1 DEF EncodedLen
      <4> QED
        BY <4>2
    <3>5. UpToKey[i] = UpToKey[i - 1] + e
      <4>1. UpToKey[i] = UpToKey[i - 1] + EncodedLen(data[i]) + EncodedLen(Value(data[i])) + 2
        BY <2>2, AddedUpExists
      <4>2. EncodedLen(data[i]) \in Nat /\ EncodedLen(Value(data[i])) \in Nat
        BY <2>2, TextsOfStore DEF EncodedLen
      <4> QED
        BY <3>1, <4>1, <4>2
    <3>6. Len(Piece(i)) \in Nat
      BY <3>3
    <3> HIDE DEF e, w
    <3> QED
      BY <3>1, <3>2, <3>3, <3>4, <3>5, <3>6
  <2> HIDE DEF w
  <2>6. Len(FlattenSeq(s)) <= w[Len(s)]
    BY <2>2, <2>4, <2>5, FlattenSeqFits
  <2>7. FlattenSeq(s) \in Seq(Int)
    BY <2>2, FlattenSeqType
  <2>8. UpToKey[Len(data)] \in Nat
    BY <2>1, AddedUpExists
  <2>9. Len(Output) \in Nat /\ Len(Output) <= OutputLen - Len(data) /\ OutputLen \in Nat
    BY <2>3, <2>4, <2>6, <2>7, <2>8, SizeUpTo
  <2> QED
    BY <2>1, <2>9
<1> QED
  BY <1>1, UrlparamsRunsStore, KvpTypeCorrect, PTL

--------------------------------------------------------------------------------
(* What a server reads                                                         *)

(* What the digits of a byte are, and what is never in an encoded text.        *)
Digits    == (48 .. 57) \cup (97 .. 102)
Separator == {Equals, Ampersand}

(* A digit stands for the four bits it was made of.                            *)
LEMMA DigitReads ==
    ASSUME NEW x \in Int
    PROVE  /\ Hex(x) \in Digits /\ HexValue(Hex(x)) = x % 16
           /\ x % 16 \in 0 .. 15
<1>1. PICK d : d = x % 16
  OBVIOUS
<1>2. d \in 0 .. 15
  BY <1>1
<1>3. Hex(x) = IF d < 10 THEN 48 + d ELSE 87 + d
  BY <1>1 DEF Hex
<1> QED
  BY <1>1, <1>2, <1>3 DEF HexValue, Digits

(* A byte stays as it is, or becomes three characters that tell which it was.  *)
LEMMA ByteReads ==
    ASSUME NEW b \in Bytes
    PROVE  \/ EncodeByte(b) = <<b>> /\ b \notin Separator \cup {Percent}
           \/ \E h, l \in Digits : /\ EncodeByte(b) = <<Percent, h, l>>
                                   /\ 16 * HexValue(h) + HexValue(l) = b
<1>1. PICK c \in -128 .. 127 : c = Char(b) /\ (c = b \/ (c < 0 /\ c = b - 256)) /\ b \in 1 .. 255
  <2>1. Char(b) \in -128 .. 127 /\ b \in 1 .. 255
    BY DEF Char, Bytes
  <2>2. Char(b) = b \/ (Char(b) < 0 /\ Char(b) = b - 256)
    BY <2>1 DEF Char
  <2> QED
    BY <2>1, <2>2
<1>2. CASE Plain(c)
  <2>1. c = b /\ b \notin Separator \cup {Percent}
    BY <1>1, <1>2 DEF Plain, Separator, Equals, Ampersand, Percent
  <2> QED
    BY <1>1, <1>2, <2>1 DEF EncodeByte
<1>3. CASE ~Plain(c)
  <2>1. PICK q \in -8 .. 7, r \in 0 .. 15 : c = 16 * q + r /\ q = c \div 16 /\ r = c % 16
    <3>1. PICK q \in -8 .. 7 : c - 16 * q \in 0 .. 15
      OBVIOUS
    <3>2. PICK r \in 0 .. 15 : c = 16 * q + r
      BY <3>1
    <3>3. (16 * q + r) \div 16 = q
      OBVIOUS
    <3>4. (16 * q + r) % 16 = r
      OBVIOUS
    <3> QED
      BY <3>2, <3>3, <3>4
  <2>2. (q < 0 => c < 0) /\ (q >= 0 => c >= 0)
    BY <2>1
  <2>3. q % 16 = IF q < 0 THEN q + 16 ELSE q
    OBVIOUS
  <2>4. r % 16 = r
    OBVIOUS
  <2>5. /\ Hex(q) \in Digits /\ HexValue(Hex(q)) = q % 16
        /\ Hex(r) \in Digits /\ HexValue(Hex(r)) = r % 16
    BY <2>1, DigitReads
  <2>6. PICK h, l \in Digits : h = Hex(q) /\ l = Hex(r)
    BY <2>5
  <2>7. 16 * HexValue(h) + HexValue(l) = b
    <3>1. HexValue(h) = IF q < 0 THEN q + 16 ELSE q
      BY <2>3, <2>5, <2>6
    <3>2. HexValue(l) = r
      BY <2>4, <2>5, <2>6
    <3>3. HexValue(h) \in Int /\ HexValue(l) \in Int
      BY <2>1, <3>1, <3>2
    <3>4. CASE q < 0
      <4>1. HexValue(h) = q + 16
        BY <3>1, <3>4
      <4>2. c < 0
        BY <2>2, <3>4
      <4>3. c = b - 256 /\ b \in Int
        BY <1>1, <4>2
      <4>4. 16 * (q + 16) + r = c + 256
        BY <2>1
      <4>5. c + 256 = b
        BY <4>3
      <4> QED
        BY <3>2, <4>1, <4>4, <4>5
    <3>5. CASE ~(q < 0)
      <4>1. HexValue(h) = q
        BY <3>1, <3>5
      <4>2. c >= 0
        BY <2>2, <3>5
      <4>3. c = b
        BY <1>1, <4>2
      <4> QED
        BY <2>1, <3>2, <4>1, <4>3
    <3> QED
      BY <3>4, <3>5
  <2>8. EncodeByte(b) = <<Percent, h, l>>
    BY <1>1, <1>3, <2>1, <2>6 DEF EncodeByte
  <2> QED
    BY <2>7, <2>8
<1> QED
  BY <1>2, <1>3

(* Reading goes on behind what was read.                                       *)
LEMMA DecodeNext ==
    ASSUME NEW x \in Seq(Int), NEW c \in Int
    PROVE  /\ Decode(x) \in Seq(Int) /\ Decoded(x \o <<c>>, Len(x) + 1) \in Seq(Int)
           /\ Decode(x \o <<c>>) = Decode(x) \o Decoded(x \o <<c>>, Len(x) + 1)
<1>1. PICK y, n : y = x \o <<c>> /\ n = Len(x)
  OBVIOUS
<1>2. /\ n \in Nat /\ DOMAIN x = 1 .. n /\ y \in Seq(Int) /\ DOMAIN y = 1 .. n + 1
      /\ \A i \in 1 .. n : y[i] = x[i]
  BY <1>1
<1>3. \A i \in 1 .. n : Decoded(y, i) = Decoded(x, i)
  BY <1>2 DEF Decoded
<1>4. \A i \in 1 .. n + 1 : Decoded(y, i) \in Seq(Int)
  <2> TAKE i \in 1 .. n + 1
  <2>1. \A m \in Int : HexValue(m) \in Int
    BY DEF HexValue
  <2>2. y[i] \in Int
    BY <1>2
  <2>3. i > 2 => 16 * HexValue(y[i - 1]) + HexValue(y[i]) \in Int
    <3>1. i > 2 => y[i - 1] \in Int
      BY <1>2
    <3>2. i > 2 => HexValue(y[i - 1]) \in Int /\ HexValue(y[i]) \in Int
      BY <2>1, <2>2, <3>1
    <3> QED
      BY <3>2
  <2>4. \A m \in Int : <<m>> \in Seq(Int)
    OBVIOUS
  <2>5. <<>> \in Seq(Int)
    OBVIOUS
  <2> QED
    BY <2>2, <2>3, <2>4, <2>5 DEF Decoded
<1> DEFINE g == [i \in 1 .. n + 1 |-> Decoded(y, i)]
<1>5. \A i \in 1 .. n + 1 : g[i] = Decoded(y, i)
  OBVIOUS
<1>6. Decode(x) = FlattenSeq([i \in 1 .. n |-> g[i]])
  <2>1. [i \in 1 .. n |-> Decoded(x, i)] = [i \in 1 .. n |-> g[i]]
    BY <1>2, <1>3, <1>5
  <2> QED
    BY <1>2, <2>1 DEF Decode
<1>7. Decode(y) = FlattenSeq([i \in 1 .. n + 1 |-> g[i]])
  <2>1. [i \in 1 .. n + 1 |-> Decoded(y, i)] = [i \in 1 .. n + 1 |-> g[i]]
    BY <1>5
  <2> QED
    BY <1>2, <2>1 DEF Decode
<1> HIDE DEF g
<1>8. /\ FlattenSeq([i \in 1 .. n |-> g[i]]) \in Seq(Int)
      /\ FlattenSeq([i \in 1 .. n + 1 |-> g[i]]) = FlattenSeq([i \in 1 .. n |-> g[i]]) \o g[n + 1]
  <2>1. \A i \in 1 .. n + 1 : g[i] \in Seq(Int)
    BY <1>4, <1>5
  <2> QED
    BY <1>2, <2>1, FlattenSeqNext
<1>9. g[n + 1] = Decoded(y, n + 1) /\ Decoded(y, n + 1) \in Seq(Int)
  BY <1>2, <1>4, <1>5
<1> QED
  BY <1>1, <1>6, <1>7, <1>8, <1>9

(* No percent sign waits for its digits.                                       *)
Complete(x) == \A j \in {Len(x) - 1, Len(x)} : j > 0 => x[j] # Percent

(* What was encoded of a byte is read as that byte.                            *)
LEMMA DecodeByte ==
    ASSUME NEW x \in Seq(Int), Complete(x), NEW b \in Bytes
    PROVE  /\ x \o EncodeByte(b) \in Seq(Int) /\ Complete(x \o EncodeByte(b))
           /\ Decode(x \o EncodeByte(b)) = Decode(x) \o <<b>>
<1>1. PICK n \in Nat : n = Len(x)
  OBVIOUS
<1>2. b \in Int /\ Percent \in Int /\ Digits \subseteq Int /\ Percent \notin Digits
  BY DEF Bytes, Percent, Digits
<1>3. CASE EncodeByte(b) = <<b>> /\ b # Percent
  <2>1. PICK y : y = x \o <<b>>
    OBVIOUS
  <2>2. y \in Seq(Int) /\ Len(y) = n + 1 /\ y[n + 1] = b /\ \A j \in 1 .. n : y[j] = x[j]
    BY <1>1, <1>2, <2>1
  <2>3. \A j \in {n - 1, n} : j > 0 => y[j] # Percent
    BY <1>1, <2>2, SMTT(30) DEF Complete
  <2>4. Decoded(y, n + 1) = <<b>>
    BY <1>3, <2>2, <2>3 DEF Decoded
  <2>5. Complete(y)
    BY <1>3, <2>2, <2>3 DEF Complete
  <2>6. Decode(y) = Decode(x) \o Decoded(y, n + 1)
    BY <1>1, <1>2, <2>1, DecodeNext
  <2> QED
    BY <1>3, <2>1, <2>2, <2>4, <2>5, <2>6
<1>4. ASSUME NEW h \in Digits, NEW l \in Digits, EncodeByte(b) = <<Percent, h, l>>,
             16 * HexValue(h) + HexValue(l) = b
      PROVE  /\ x \o EncodeByte(b) \in Seq(Int) /\ Complete(x \o EncodeByte(b))
             /\ Decode(x \o EncodeByte(b)) = Decode(x) \o <<b>>
  <2>1. PICK u, v, w : u = x \o <<Percent>> /\ v = u \o <<h>> /\ w = v \o <<l>>
    OBVIOUS
  <2>2. h \in Int /\ l \in Int /\ h # Percent /\ l # Percent
    BY <1>2
  <2>3. u \in Seq(Int) /\ Len(u) = n + 1 /\ u[n + 1] = Percent
    BY <1>1, <1>2, <2>1
  <2>4. v \in Seq(Int) /\ Len(v) = n + 2 /\ v[n + 1] = Percent /\ v[n + 2] = h
    BY <2>1, <2>2, <2>3
  <2>5. w \in Seq(Int) /\ Len(w) = n + 3 /\ w[n + 1] = Percent /\ w[n + 2] = h /\ w[n + 3] = l
    <3>1. w \in Seq(Int) /\ Len(w) = n + 3 /\ w[n + 3] = l
      <4>1. w = v \o <<l>> /\ v \in Seq(Int) /\ l \in Int /\ Len(v) = n + 2
        BY <2>1, <2>2, <2>4
      <4>2. w \in Seq(Int) /\ Len(w) = Len(v) + 1 /\ w[Len(v) + 1] = l
        BY <4>1
      <4> QED
        BY <4>1, <4>2
    <3>2. \A j \in 1 .. n + 2 : w[j] = v[j]
      BY <2>1, <2>2, <2>4
    <3>3. w[n + 1] = Percent /\ w[n + 2] = h
      BY <2>4, <3>2
    <3> QED
      BY <3>1, <3>3
  <2>6. w = x \o <<Percent, h, l>>
    BY <1>1, <1>2, <2>1, <2>2, <2>3, <2>4, <2>5
  <2>7. Decode(u) = Decode(x) \o <<>>
    <3>1. Decoded(u, n + 1) = <<>>
      BY <2>3 DEF Decoded
    <3> QED
      BY <1>1, <1>2, <2>1, <3>1, DecodeNext
  <2>8. Decode(v) = Decode(u) \o <<>>
    <3>1. Decoded(v, n + 2) = <<>>
      BY <2>4 DEF Decoded
    <3>2. Len(u) + 1 = n + 2
      BY <2>3
    <3>3. Decode(u \o <<h>>) = Decode(u) \o Decoded(u \o <<h>>, Len(u) + 1)
      BY <2>2, <2>3, DecodeNext
    <3> QED
      BY <2>1, <3>1, <3>2, <3>3
  <2>9. Decode(w) = Decode(v) \o <<b>>
    <3>1. Decoded(w, n + 3) = <<b>>
      BY <1>4, <2>2, <2>5 DEF Decoded
    <3>2. Len(v) + 1 = n + 3
      BY <2>4
    <3>3. Decode(v \o <<l>>) = Decode(v) \o Decoded(v \o <<l>>, Len(v) + 1)
      BY <2>2, <2>4, DecodeNext
    <3> QED
      BY <2>1, <3>1, <3>2, <3>3
  <2>10. Decode(w) = Decode(x) \o <<b>>
    <3>1. Decode(x) \in Seq(Int)
      BY <1>2, DecodeNext
    <3>2. Decode(x) \o <<>> = Decode(x)
      BY <3>1
    <3> QED
      BY <2>7, <2>8, <2>9, <3>2
  <2>11. Complete(w)
    BY <2>2, <2>5 DEF Complete
  <2> QED
    BY <1>4, <2>5, <2>6, <2>10, <2>11
<1> QED
  BY <1>3, <1>4, ByteReads DEF Separator

(* The texts that Encode makes have no separator, and a server reads them as   *)
(* what they were.                                                             *)
LEMMA EncodedReads ==
    ASSUME NEW t \in Seq(Bytes)
    PROVE  Encode(t) \in Seq(Int \ Separator) /\ Decode(Encode(t)) = t
<1>1. PICK len \in Nat : len = Len(t) /\ DOMAIN t = 1 .. len
  OBVIOUS
<1>2. \A i \in 1 .. len : t[i] \in Bytes
  BY <1>1
<1>3. \A b \in Bytes : EncodeByte(b) \in Seq(Int \ Separator)
  <2> TAKE b \in Bytes
  <2>1. b \in Int /\ Percent \in Int \ Separator /\ Digits \subseteq Int \ Separator
    BY DEF Bytes, Percent, Digits, Separator, Equals, Ampersand
  <2>2. <<b>> \in Seq(Int \ Separator) \/ b \in Separator
    BY <2>1
  <2>3. \A h, l \in Digits : <<Percent, h, l>> \in Seq(Int \ Separator)
    <3> TAKE h, l \in Digits
    <3>1. h \in Int \ Separator /\ l \in Int \ Separator
      BY <2>1
    <3> QED
      BY <2>1, <3>1
  <2> QED
    BY <2>2, <2>3, ByteReads
<1> DEFINE g == [i \in 1 .. len |-> EncodeByte(t[i])]
<1>4. g \in Seq(Seq(Int \ Separator)) /\ \A i \in 1 .. len : g[i] = EncodeByte(t[i])
  BY <1>2, <1>3
<1>5. Encode(t) = FlattenSeq([i \in 1 .. len |-> g[i]])
  BY <1>1 DEF Encode
<1>6. Encode(t) \in Seq(Int \ Separator)
  <2>1. [i \in 1 .. len |-> g[i]] = g
    OBVIOUS
  <2> HIDE DEF g
  <2> QED
    BY <1>4, <1>5, <2>1, FlattenSeqType
<1> HIDE DEF g
<1> DEFINE E(n) == FlattenSeq([i \in 1 .. n |-> g[i]])
           T == {n \in Nat : n <= len =>
                    E(n) \in Seq(Int) /\ Complete(E(n)) /\ Decode(E(n)) = SubSeq(t, 1, n)}
<1>7. 0 \in T
  <2>1. [i \in 1 .. 0 |-> g[i]] = <<>>
    OBVIOUS
  <2>2. E(0) = <<>>
    BY <2>1, FlattenSeqEmpty
  <2>3. Decode(<<>>) = <<>>
    <3>1. [i \in DOMAIN <<>> |-> Decoded(<<>>, i)] = <<>>
      OBVIOUS
    <3> QED
      BY <3>1, FlattenSeqEmpty DEF Decode
  <2>4. SubSeq(t, 1, 0) = <<>> /\ Complete(<<>>) /\ <<>> \in Seq(Int)
    BY DEF Complete
  <2> HIDE DEF E
  <2> QED
    BY <2>2, <2>3, <2>4
<1>8. ASSUME NEW n \in Nat, n \in T PROVE n + 1 \in T
  <2> SUFFICES ASSUME n + 1 <= len
               PROVE  /\ E(n + 1) \in Seq(Int) /\ Complete(E(n + 1))
                      /\ Decode(E(n + 1)) = SubSeq(t, 1, n + 1)
    OBVIOUS
  <2>1. E(n) \in Seq(Int) /\ Complete(E(n)) /\ Decode(E(n)) = SubSeq(t, 1, n)
    BY <1>8
  <2>2. PICK b \in Bytes : b = t[n + 1] /\ g[n + 1] = EncodeByte(b)
    BY <1>2, <1>4
  <2>3. E(n + 1) = E(n) \o EncodeByte(b)
    <3>1. \A i \in 1 .. n + 1 : g[i] \in Seq(Int \ Separator)
      <4> TAKE i \in 1 .. n + 1
      <4>1. i \in 1 .. len
        OBVIOUS
      <4>2. t[i] \in Bytes /\ g[i] = EncodeByte(t[i])
        BY <1>2, <1>4, <4>1
      <4> QED
        BY <1>3, <4>2
    <3>2. E(n + 1) = E(n) \o g[n + 1]
      BY <3>1, FlattenSeqNext
    <3> QED
      BY <2>2, <3>2
  <2> HIDE DEF E
  <2>4. SubSeq(t, 1, n) \o <<b>> = SubSeq(t, 1, n + 1)
    BY <1>1, <2>2
  <2> QED
    BY <2>1, <2>2, <2>3, <2>4, DecodeByte
<1>9. len \in T
  <2> HIDE DEF T
  <2> QED
    BY <1>7, <1>8, ByInduction
<1>10. Decode(Encode(t)) = SubSeq(t, 1, len)
  BY <1>5, <1>9
<1>11. SubSeq(t, 1, len) = t
  BY <1>1
<1> QED
  BY <1>6, <1>10, <1>11

--------------------------------------------------------------------------------
(* The parts between the separators                                            *)

(* Lists of at least one text.                                                 *)
Parts == Seq(Seq(Int)) \ {<<>>}

(* What a text is divided into at its beginning.                               *)
Whole == << <<>> >>

(* One turn of the recursion in Split, and the function it defines.            *)
OneTurn(text, separator, f) ==
    [i \in 0 .. Len(text) |->
        IF i = 0 THEN Whole ELSE Divided(f[i - 1], text[i], separator)]

PartsUpTo(text, separator) == CHOOSE f : f = OneTurn(text, separator, f)

(* A character leaves a list of at least one text.                             *)
LEMMA DividedType ==
    ASSUME NEW p \in Parts, NEW c \in Int, NEW separator
    PROVE  Divided(p, c, separator) \in Parts
<1>1. /\ p \in Seq(Seq(Int)) /\ Len(p) \in Nat \ {0} /\ Len(p) \in DOMAIN p
      /\ p[Len(p)] \in Seq(Int)
  BY DEF Parts
<1>2. CASE c = separator
  <2>1. <<>> \in Seq(Int)
    OBVIOUS
  <2>2. Append(p, <<>>) \in Seq(Seq(Int)) /\ Len(Append(p, <<>>)) # 0
    BY <1>1, <2>1
  <2>3. Divided(p, c, separator) = Append(p, <<>>)
    BY <1>2 DEF Divided
  <2> QED
    BY <2>2, <2>3 DEF Parts
<1>3. CASE c # separator
  <2>1. PICK last \in Seq(Int) : last = p[Len(p)]
    BY <1>1
  <2>2. PICK e \in Seq(Int) : e = Append(last, c)
    <3>1. Append(last, c) \in Seq(Int)
      OBVIOUS
    <3> QED
      BY <3>1
  <2>3. [p EXCEPT ![Len(p)] = e] \in Seq(Seq(Int)) /\ Len([p EXCEPT ![Len(p)] = e]) # 0
    BY <1>1
  <2>4. Divided(p, c, separator) = [p EXCEPT ![Len(p)] = e]
    BY <1>3, <2>1, <2>2 DEF Divided
  <2> QED
    BY <2>3, <2>4 DEF Parts
<1> QED
  BY <1>2, <1>3

(* There is a function that divides a text character by character, and Split   *)
(* uses it.                                                                    *)
LEMMA PartsExist ==
    ASSUME NEW x \in Seq(Int), NEW separator
    PROVE  /\ Split(x, separator) = PartsUpTo(x, separator)[Len(x)]
           /\ PartsUpTo(x, separator)[0] = Whole
           /\ \A i \in 1 .. Len(x) :
                 PartsUpTo(x, separator)[i] = Divided(PartsUpTo(x, separator)[i - 1], x[i], separator)
           /\ \A i \in 0 .. Len(x) : PartsUpTo(x, separator)[i] \in Parts
<1> DEFINE F == [i \in 1 .. Len(x) |-> [p \in Parts |-> Divided(p, x[i], separator)]]
<1>1. Len(x) \in Nat /\ \A i \in 1 .. Len(x) : x[i] \in Int
  OBVIOUS
<1>2. F \in [1 .. Len(x) -> [Parts -> Parts]]
  BY <1>1, DividedType
<1>3. Whole \in Parts
  <2>1. <<>> \in Seq(Int)
    OBVIOUS
  <2>2. Whole \in Seq(Seq(Int)) /\ Len(Whole) # 0
    BY <2>1 DEF Whole
  <2> QED
    BY <2>2 DEF Parts
<1>4. PICK f : Iterates(f, Parts, Len(x), Whole, F)
  <2> HIDE DEF F
  <2> QED
    BY <1>1, <1>2, <1>3, Iteration
<1>5. f \in [0 .. Len(x) -> Parts] /\ f[0] = Whole
  BY <1>4 DEF Iterates
<1>6. \A i \in 1 .. Len(x) : f[i] = Divided(f[i - 1], x[i], separator)
  <2> TAKE i \in 1 .. Len(x)
  <2>1. f[i - 1] \in Parts
    <3>1. i - 1 \in 0 .. Len(x)
      BY <1>1
    <3> QED
      BY <1>5, <3>1
  <2>2. f[i] = F[i][f[i - 1]]
    BY <1>4 DEF Iterates
  <2> QED
    BY <2>1, <2>2
<1>7. f = OneTurn(x, separator, f)
  BY <1>1, <1>5, <1>6 DEF OneTurn
<1>8. PICK g : g = PartsUpTo(x, separator) /\ g = OneTurn(x, separator, g)
  BY <1>7 DEF PartsUpTo
<1>9. g[0] = Whole /\ \A i \in 1 .. Len(x) : g[i] = Divided(g[i - 1], x[i], separator)
  BY <1>1, <1>8 DEF OneTurn
<1> DEFINE T == {n \in Nat : n <= Len(x) => g[n] \in Parts}
<1>10. 0 \in T
  BY <1>3, <1>9
<1>11. ASSUME NEW n \in Nat, n \in T PROVE n + 1 \in T
  <2> SUFFICES ASSUME n + 1 <= Len(x) PROVE g[n + 1] \in Parts
    OBVIOUS
  <2>1. n + 1 \in 1 .. Len(x) /\ (n + 1) - 1 = n /\ g[n] \in Parts
    BY <1>1, <1>11
  <2>2. g[n + 1] = Divided(g[n], x[n + 1], separator)
    BY <1>9, <2>1
  <2> QED
    BY <1>1, <2>1, <2>2, DividedType
<1>12. Nat \subseteq T
  <2> HIDE DEF T
  <2> QED
    BY <1>10, <1>11, ByInduction
<1>13. \A i \in 0 .. Len(x) : g[i] \in Parts
  BY <1>1, <1>12
<1>14. Split(x, separator) = PartsUpTo(x, separator)[Len(x)]
  BY DEF Split, PartsUpTo, OneTurn, Whole
<1> QED
  BY <1>8, <1>9, <1>13, <1>14

(* A text that goes on for one character.                                      *)
LEMMA SplitNext ==
    ASSUME NEW x \in Seq(Int), NEW c \in Int, NEW separator
    PROVE  /\ Split(x, separator) \in Parts
           /\ Split(x \o <<c>>, separator) = Divided(Split(x, separator), c, separator)
<1>1. PICK y, n, f, g : /\ y = x \o <<c>> /\ n = Len(x)
                        /\ f = PartsUpTo(x, separator) /\ g = PartsUpTo(y, separator)
  OBVIOUS
<1>2. /\ n \in Nat /\ y \in Seq(Int) /\ Len(y) = n + 1 /\ y[n + 1] = c
      /\ \A i \in 1 .. n : y[i] = x[i]
  BY <1>1
<1>3. /\ Split(x, separator) = f[n] /\ f[0] = Whole
      /\ \A i \in 1 .. n : f[i] = Divided(f[i - 1], x[i], separator)
      /\ f[n] \in Parts
  <2>1. n \in 0 .. n
    BY <1>2
  <2> QED
    BY <1>1, <2>1, PartsExist
<1>4. /\ Split(y, separator) = g[n + 1] /\ g[0] = Whole
      /\ \A i \in 1 .. n + 1 : g[i] = Divided(g[i - 1], y[i], separator)
  BY <1>1, <1>2, PartsExist
<1> DEFINE T == {m \in Nat : m <= n => g[m] = f[m]}
<1>5. 0 \in T
  BY <1>3, <1>4
<1>6. ASSUME NEW m \in Nat, m \in T PROVE m + 1 \in T
  <2> SUFFICES ASSUME m + 1 <= n PROVE g[m + 1] = f[m + 1]
    OBVIOUS
  <2>1. m + 1 \in 1 .. n /\ m + 1 \in 1 .. n + 1 /\ (m + 1) - 1 = m /\ g[m] = f[m]
    BY <1>2, <1>6
  <2>2. g[m + 1] = Divided(g[m], y[m + 1], separator)
    BY <1>4, <2>1
  <2>3. f[m + 1] = Divided(f[m], x[m + 1], separator)
    BY <1>3, <2>1
  <2> QED
    BY <1>2, <2>1, <2>2, <2>3
<1>7. n \in T
  <2> HIDE DEF T
  <2> QED
    BY <1>2, <1>5, <1>6, ByInduction
<1>8. g[n + 1] = Divided(g[n], c, separator)
  <2>1. n + 1 \in 1 .. n + 1 /\ (n + 1) - 1 = n
    BY <1>2
  <2> QED
    BY <1>2, <1>4, <2>1
<1> QED
  BY <1>1, <1>2, <1>3, <1>4, <1>7, <1>8

(* Behind a separator, a text without one is the last part.                    *)
LEMMA SplitRun ==
    ASSUME NEW separator, NEW x \in Seq(Int), NEW ps \in Seq(Seq(Int)),
           Split(x, separator) = Append(ps, <<>>),
           NEW q \in Seq(Int \ {separator})
    PROVE  Split(x \o q, separator) = Append(ps, q)
<1> DEFINE T == {n \in Nat : n <= Len(q) =>
                    Split(x \o SubSeq(q, 1, n), separator) = Append(ps, SubSeq(q, 1, n))}
<1>1. Len(q) \in Nat /\ \A i \in 1 .. Len(q) : q[i] \in Int /\ q[i] # separator
  OBVIOUS
<1>2. 0 \in T
  <2>1. SubSeq(q, 1, 0) = <<>> /\ x \o <<>> = x
    OBVIOUS
  <2> QED
    BY <2>1
<1>3. ASSUME NEW n \in Nat, n \in T PROVE n + 1 \in T
  <2> SUFFICES ASSUME n + 1 <= Len(q)
               PROVE  Split(x \o SubSeq(q, 1, n + 1), separator) = Append(ps, SubSeq(q, 1, n + 1))
    OBVIOUS
  <2>1. PICK r, s, c : /\ r = SubSeq(q, 1, n) /\ s = SubSeq(q, 1, n + 1) /\ c = q[n + 1]
    OBVIOUS
  <2>2. /\ r \in Seq(Int) /\ s = r \o <<c>> /\ s = Append(r, c)
        /\ c \in Int /\ c # separator
    BY <1>1, <2>1
  <2>3. Split(x \o r, separator) = Append(ps, r)
    BY <1>3, <2>1
  <2>4. x \o r \in Seq(Int) /\ x \o s = (x \o r) \o <<c>>
    BY <2>2
  <2>5. Split(x \o s, separator) = Divided(Append(ps, r), c, separator)
    BY <2>2, <2>3, <2>4, SplitNext
  <2>6. Divided(Append(ps, r), c, separator) = Append(ps, s)
    <3>1. Len(Append(ps, r)) = Len(ps) + 1 /\ Append(ps, r)[Len(ps) + 1] = r
      BY <2>2
    <3>2. Divided(Append(ps, r), c, separator)
            = [Append(ps, r) EXCEPT ![Len(ps) + 1] = Append(r, c)]
      BY <2>2, <3>1 DEF Divided
    <3>3. [Append(ps, r) EXCEPT ![Len(ps) + 1] = s] = Append(ps, s)
      <4>1. PICK m, a, b : m = Len(ps) /\ a = Append(ps, r) /\ b = Append(ps, s)
        OBVIOUS
      <4>2. s \in Seq(Int)
        BY <2>2
      <4>3. m \in Nat /\ a \in Seq(Seq(Int)) /\ b \in Seq(Seq(Int)) /\ Len(a) = m + 1 /\ Len(b) = m + 1
        BY <2>2, <4>1, <4>2
      <4>4. b[m + 1] = s /\ \A i \in 1 .. m : a[i] = b[i]
        <5>1. \A i \in 1 .. m : a[i] = ps[i]
          BY <2>2, <4>1
        <5>2. \A i \in 1 .. m : b[i] = ps[i]
          BY <4>1, <4>2
        <5>3. b[m + 1] = s
          BY <4>1, <4>2
        <5> QED
          BY <5>1, <5>2, <5>3
      <4>5. DOMAIN a = 1 .. m + 1 /\ b = [i \in 1 .. m + 1 |-> b[i]]
        BY <4>3
      <4>6. [a EXCEPT ![m + 1] = s] = [i \in 1 .. m + 1 |-> b[i]]
        <5>1. PICK d : d = [a EXCEPT ![m + 1] = s]
          OBVIOUS
        <5>2. DOMAIN d = 1 .. m + 1 /\ d = [i \in 1 .. m + 1 |-> d[i]]
          BY <4>5, <5>1
        <5>3. \A i \in 1 .. m + 1 : d[i] = IF i = m + 1 THEN s ELSE a[i]
          BY <4>5, <5>1
        <5>4. \A i \in 1 .. m + 1 : d[i] = b[i]
          BY <4>3, <4>4, <5>3
        <5> QED
          BY <5>1, <5>2, <5>4
      <4> QED
        BY <4>1, <4>5, <4>6
    <3> QED
      BY <2>2, <3>2, <3>3
  <2> QED
    BY <2>1, <2>5, <2>6
<1>4. Len(q) \in T
  <2> HIDE DEF T
  <2> QED
    BY <1>1, <1>2, <1>3, ByInduction
<1>5. Split(x \o SubSeq(q, 1, Len(q)), separator) = Append(ps, SubSeq(q, 1, Len(q)))
  BY <1>1, <1>4
<1>6. SubSeq(q, 1, Len(q)) = q
  OBVIOUS
<1> HIDE DEF T
<1> QED
  BY <1>5, <1>6, Zenon

(* A separator begins the next part.                                           *)
LEMMA SplitCut ==
    ASSUME NEW separator \in Int, NEW x \in Seq(Int)
    PROVE  /\ Split(x, separator) \in Parts
           /\ Split(x \o <<separator>>, separator) = Append(Split(x, separator), <<>>)
  BY SplitNext DEF Divided

(* Nothing has one part, which is empty.                                       *)
LEMMA SplitEmpty ==
    ASSUME NEW separator
    PROVE  Split(<<>>, separator) = Append(<<>>, <<>>)
<1>1. <<>> \in Seq(Int) /\ Len(<<>>) = 0
  OBVIOUS
<1>2. Split(<<>>, separator) = Whole
  BY <1>1, PartsExist
<1>3. Append(<<>>, <<>>) = << <<>> >>
  OBVIOUS
<1> QED
  BY <1>2, <1>3 DEF Whole

(* What stands for one key.                                                    *)
Pair(i) == Encode(data[i]) \o <<Equals>> \o Encode(Value(data[i]))

(* It has no ampersand, and its two parts are the key and the value.           *)
LEMMA PairReads ==
    ASSUME TypeOK, NEW i \in 1 .. Len(data)
    PROVE  /\ Pair(i) \in Seq(Int \ {Ampersand})
           /\ LET p == Split(Pair(i), Equals)
              IN  [j \in DOMAIN p |-> Decode(p[j])] = <<data[i], Value(data[i])>>
<1>1. data[i] \in Seq(Bytes) /\ Value(data[i]) \in Seq(Bytes)
  BY TextsOfStore
<1>2. PICK k, v : k = Encode(data[i]) /\ v = Encode(Value(data[i]))
  OBVIOUS
<1>3. /\ k \in Seq(Int \ Separator) /\ Decode(k) = data[i]
      /\ v \in Seq(Int \ Separator) /\ Decode(v) = Value(data[i])
  BY <1>1, <1>2, EncodedReads
<1>4. Separator = {Equals, Ampersand} /\ Equals \in Int \ {Ampersand}
  BY DEF Separator, Equals, Ampersand
<1>5. /\ k \in Seq(Int \ {Equals}) /\ k \in Seq(Int \ {Ampersand}) /\ k \in Seq(Int)
      /\ v \in Seq(Int \ {Equals}) /\ v \in Seq(Int \ {Ampersand}) /\ v \in Seq(Int)
  BY <1>3, <1>4
<1>6. Pair(i) = k \o <<Equals>> \o v
  BY <1>2 DEF Pair
<1>7. Pair(i) \in Seq(Int \ {Ampersand})
  <2>1. <<Equals>> \in Seq(Int \ {Ampersand})
    BY <1>4
  <2>2. k \o <<Equals>> \in Seq(Int \ {Ampersand})
    BY <1>5, <2>1, ConcatProperties
  <2> QED
    BY <1>5, <1>6, <2>2, ConcatProperties
<1>8. Split(Pair(i), Equals) = <<k, v>>
  <2>1. <<>> \in Seq(Int) /\ <<>> \in Seq(Seq(Int)) /\ <<k>> \in Seq(Seq(Int))
    BY <1>5
  <2>2. Split(<<>>, Equals) = Append(<<>>, <<>>)
    BY SplitEmpty
  <2>3. Split(<<>> \o k, Equals) = Append(<<>>, k)
    BY <1>4, <1>5, <2>1, <2>2, SplitRun
  <2>4. Split(k, Equals) = <<k>>
    <3>1. <<>> \o k = k /\ Append(<<>>, k) = <<k>>
      BY <1>5
    <3> QED
      BY <2>3, <3>1
  <2>5. PICK x : x = k \o <<Equals>> /\ x \in Seq(Int)
    <3>1. <<Equals>> \in Seq(Int)
      BY <1>4
    <3> QED
      BY <1>5, <3>1, ConcatProperties
  <2>6. Split(x, Equals) = Append(<<k>>, <<>>)
    BY <1>4, <1>5, <2>4, <2>5, SplitCut
  <2>7. Split(x \o v, Equals) = Append(<<k>>, v)
    BY <1>4, <1>5, <2>1, <2>5, <2>6, SplitRun, ZenonT(30)
  <2>8. Append(<<k>>, v) = <<k, v>>
    BY <1>5, AppendSecond
  <2> QED
    BY <1>6, <2>5, <2>7, <2>8
<1>9. [j \in DOMAIN <<k, v>> |-> Decode(<<k, v>>[j])] = <<Decode(k), Decode(v)>>
  OBVIOUS
<1> QED
  BY <1>3, <1>7, <1>8, <1>9

(* Up to an ampersand, the parts are what stands for the keys before it.       *)
LEMMA OutputSplits ==
    ASSUME TypeOK, data # <<>>
    PROVE  Split(Output, Ampersand) = [i \in 1 .. Len(data) |-> Pair(i)]
<1>1. PICK len \in Nat : len = Len(data) /\ DOMAIN data = 1 .. len /\ len # 0
  BY DEF TypeOK
<1>2. Ampersand \in Int /\ <<>> \in Seq(Int)
  BY DEF Ampersand
<1>3. \A i \in 1 .. len : Pair(i) \in Seq(Int \ {Ampersand}) /\ Pair(i) \in Seq(Int)
  <2> TAKE i \in 1 .. len
  <2>1. Pair(i) \in Seq(Int \ {Ampersand})
    BY <1>1, PairReads
  <2> QED
    BY <2>1
<1>4. \A i \in 1 .. len : Piece(i) = Pair(i) \o IF i < len THEN <<Ampersand>> ELSE <<>>
  BY <1>1 DEF Piece, Pair
<1> DEFINE g == [i \in 1 .. len |-> Piece(i)]
<1>5. \A i \in 1 .. len : g[i] = Piece(i) /\ g[i] \in Seq(Int)
  BY <1>1, PieceFits
<1>6. Output = FlattenSeq([i \in 1 .. len |-> g[i]])
  BY <1>1 DEF Output, Piece
<1> HIDE DEF g
<1> DEFINE O(n) == FlattenSeq([i \in 1 .. n |-> g[i]])
           L(n) == [i \in 1 .. n |-> Pair(i)]
           T    == {n \in Nat : n < len =>
                       O(n) \in Seq(Int) /\ Split(O(n), Ampersand) = Append(L(n), <<>>)}
<1>7. ASSUME NEW n \in Nat, n + 1 <= len, O(n) \in Seq(Int)
      PROVE  O(n + 1) \in Seq(Int) /\ O(n + 1) = O(n) \o g[n + 1]
  <2>1. \A i \in 1 .. n + 1 : g[i] \in Seq(Int)
    <3> TAKE i \in 1 .. n + 1
    <3>1. i \in 1 .. len
      BY <1>7
    <3> QED
      BY <1>5, <3>1
  <2>2. O(n + 1) = O(n) \o g[n + 1]
    BY <2>1, FlattenSeqNext
  <2>3. g[n + 1] \in Seq(Int)
    BY <2>1
  <2> HIDE DEF O
  <2> QED
    BY <1>7, <2>2, <2>3, ConcatProperties
<1>8. ASSUME NEW n \in Nat, n + 1 <= len
      PROVE  /\ L(n) \in Seq(Seq(Int)) /\ L(n + 1) = Append(L(n), Pair(n + 1))
             /\ Pair(n + 1) \in Seq(Int) /\ Pair(n + 1) \in Seq(Int \ {Ampersand})
  <2>1. n + 1 \in 1 .. len /\ \A i \in 1 .. n + 1 : i \in 1 .. len
    BY <1>8
  <2>2. \A i \in 1 .. n + 1 : Pair(i) \in Seq(Int)
    BY <1>3, <2>1
  <2>3. L(n) \in Seq(Seq(Int)) /\ L(n + 1) = Append(L(n), Pair(n + 1))
    BY <2>2
  <2> QED
    BY <1>3, <2>1, <2>3
<1>9. ASSUME NEW n \in Nat, n \in T, n + 1 <= len
      PROVE  /\ O(n) \in Seq(Int)
             /\ Split(O(n) \o Pair(n + 1), Ampersand) = L(n + 1)
  <2>1. O(n) \in Seq(Int) /\ Split(O(n), Ampersand) = Append(L(n), <<>>)
    BY <1>9
  <2>2. /\ L(n) \in Seq(Seq(Int)) /\ L(n + 1) = Append(L(n), Pair(n + 1))
        /\ Pair(n + 1) \in Seq(Int \ {Ampersand})
    BY <1>8, <1>9
  <2> HIDE DEF O, L
  <2> QED
    BY <1>2, <2>1, <2>2, SplitRun
<1>10. 0 \in T
  <2>1. [i \in 1 .. 0 |-> g[i]] = <<>> /\ [i \in 1 .. 0 |-> Pair(i)] = <<>>
    OBVIOUS
  <2>2. O(0) = <<>> /\ L(0) = <<>>
    BY <2>1, FlattenSeqEmpty
  <2>3. Split(<<>>, Ampersand) = Append(<<>>, <<>>)
    BY SplitEmpty
  <2> HIDE DEF O, L
  <2> QED
    BY <1>2, <2>2, <2>3
<1>11. ASSUME NEW n \in Nat, n \in T PROVE n + 1 \in T
  <2> HIDE DEF O, L
  <2> SUFFICES ASSUME n + 1 < len
               PROVE  /\ O(n + 1) \in Seq(Int)
                      /\ Split(O(n + 1), Ampersand) = Append(L(n + 1), <<>>)
    OBVIOUS
  <2>1. /\ O(n) \in Seq(Int)
        /\ Split(O(n) \o Pair(n + 1), Ampersand) = L(n + 1)
    BY <1>9, <1>11
  <2>2. O(n + 1) \in Seq(Int) /\ O(n + 1) = O(n) \o g[n + 1]
    BY <1>7, <2>1
  <2>3. g[n + 1] = Pair(n + 1) \o <<Ampersand>> /\ Pair(n + 1) \in Seq(Int)
    <3>1. n + 1 \in 1 .. len /\ n + 1 < len
      BY <1>1
    <3> QED
      BY <1>3, <1>4, <1>5, <3>1
  <2>4. O(n) \o Pair(n + 1) \in Seq(Int)
    BY <2>1, <2>3, ConcatProperties
  <2>5. O(n + 1) = (O(n) \o Pair(n + 1)) \o <<Ampersand>>
    <3>1. <<Ampersand>> \in Seq(Int)
      BY <1>2
    <3>2. O(n) \o (Pair(n + 1) \o <<Ampersand>>) = (O(n) \o Pair(n + 1)) \o <<Ampersand>>
      BY <2>1, <2>3, <3>1, Associates
    <3> QED
      BY <2>2, <2>3, <3>2
  <2> QED
    BY <1>2, <2>1, <2>2, <2>4, <2>5, SplitCut
<1>12. PICK n \in Nat : n + 1 = len /\ n \in T
  <2>1. PICK n \in Nat : n + 1 = len
    <3>1. len - 1 \in Nat /\ (len - 1) + 1 = len
      BY <1>1
    <3> QED
      BY <3>1
  <2> HIDE DEF T
  <2> QED
    BY <1>10, <1>11, <2>1, ByInduction
<1>13. O(n) \in Seq(Int) /\ Split(O(n) \o Pair(n + 1), Ampersand) = L(n + 1)
  BY <1>9, <1>12
<1>14. O(n + 1) = O(n) \o Pair(n + 1)
  <2> HIDE DEF O
  <2>1. O(n + 1) = O(n) \o g[n + 1]
    BY <1>7, <1>12, <1>13
  <2>2. g[n + 1] = Pair(n + 1) \o <<>> /\ Pair(n + 1) \in Seq(Int)
    <3>1. n + 1 \in 1 .. len /\ ~(n + 1 < len)
      BY <1>1, <1>12
    <3> QED
      BY <1>3, <1>4, <1>5, <3>1
  <2>3. Pair(n + 1) \o <<>> = Pair(n + 1)
    BY <2>2
  <2> QED
    BY <2>1, <2>2, <2>3
<1>15. Output = O(n + 1)
  BY <1>6, <1>12
<1>16. L(n + 1) = [i \in 1 .. Len(data) |-> Pair(i)]
  BY <1>1, <1>12
<1> HIDE DEF O, L
<1> QED
  BY <1>13, <1>14, <1>15, <1>16

(* Whatever bytes the keys and the values hold, separators and percent signs   *)
(* and bytes that are negative chars among them, a server that splits the      *)
(* output of a bang and decodes its parts reads the keys and the values that   *)
(* were added, in their order.                                                 *)
THEOREM QueryIsRead == UrlSpec => []ServerReadsStore
<1>1. TypeOK => ServerReadsStore
  <2> SUFFICES ASSUME TypeOK, data # <<>> PROVE ServerReadsStore
    BY DEF ServerReadsStore
  <2>1. Len(data) \in Nat /\ DOMAIN data = 1 .. Len(data)
    BY DEF TypeOK
  <2> DEFINE R(q) == LET p == Split(q, Equals) IN [j \in DOMAIN p |-> Decode(p[j])]
  <2>2. \A i \in 1 .. Len(data) : R(Pair(i)) = <<data[i], Value(data[i])>>
    BY PairReads
  <2>3. PICK pairs : pairs = Split(Output, Ampersand) /\ pairs = [i \in 1 .. Len(data) |-> Pair(i)]
    BY OutputSplits
  <2>4. ServerReadsStore <=>
            [i \in DOMAIN pairs |-> R(pairs[i])] = [i \in DOMAIN data |-> <<data[i], Value(data[i])>>]
    BY <2>3 DEF ServerReadsStore
  <2> HIDE DEF R
  <2>5. DOMAIN pairs = 1 .. Len(data) /\ \A i \in 1 .. Len(data) : pairs[i] = Pair(i)
    BY <2>3
  <2>6. [i \in DOMAIN pairs |-> R(pairs[i])] = [i \in DOMAIN data |-> <<data[i], Value(data[i])>>]
    BY <2>1, <2>2, <2>5
  <2> QED
    BY <2>4, <2>6
<1> QED
  BY <1>1, UrlparamsRunsStore, KvpTypeCorrect, PTL
=============================================================================
