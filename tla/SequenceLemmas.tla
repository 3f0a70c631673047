----------------------------- MODULE SequenceLemmas -----------------------------
(***************************************************************************)
(* What the other proofs use of numbers and sequences: minima, induction   *)
(* over the natural numbers, functions defined by recursion, and what      *)
(* FlattenSeq makes of a sequence of sequences.                            *)
(***************************************************************************)
EXTENDS Integers, Sequences, SequencesExt, FiniteSetTheorems, SequenceTheorems, TLAPS

--------------------------------------------------------------------------------
(* Induction                                                                   *)

(* A set of natural numbers that is not empty has a least member: the intervals *)
(* below its members are well-founded under inclusion.                         *)
LEMMA Smallest ==
    ASSUME NEW T, T \subseteq Nat, T # {}
    PROVE  \E m \in T : \A k \in T : m <= k
<1> DEFINE B(n) == 0 .. n - 1
           S == {B(n) : n \in T}
<1>1. \A n \in Nat : IsFiniteSet(B(n))
  BY FS_Interval
<1>2. S \subseteq FiniteSubsetsOf(Nat) /\ S # {}
  <2>1. ASSUME NEW n \in T PROVE B(n) \in FiniteSubsetsOf(Nat)
    <3>1. B(n) \subseteq Nat /\ IsFiniteSet(B(n))
      BY <1>1
    <3> QED
      BY <3>1 DEF FiniteSubsetsOf
  <2> QED
    BY <2>1
<1>3. PICK x \in S : \A y \in S : <<y, x>> \notin StrictSubsetOrdering(Nat)
  <2>1. IsWellFoundedOn(StrictSubsetOrdering(Nat), FiniteSubsetsOf(Nat))
    BY FS_StrictSubsetOrderingWellFounded
  <2> HIDE DEF S
  <2> QED
    BY <1>2, <2>1, WFMin, Zenon
<1>4. PICK m \in T : x = B(m)
  OBVIOUS
<1>5. ASSUME NEW k \in T, k < m PROVE FALSE
  <2>1. B(k) \subseteq B(m) /\ B(k) # B(m) /\ B(m) \subseteq Nat /\ B(k) \subseteq Nat
    <3>1. k \in B(m) /\ k \notin B(k) /\ k \in Nat /\ m \in Nat
      BY <1>5
    <3> QED
      BY <1>5, <3>1
  <2>2. <<B(k), B(m)>> \in StrictSubsetOrdering(Nat)
    BY <2>1 DEF StrictSubsetOrdering
  <2> QED
    BY <1>3, <1>4, <2>2
<1> QED
  BY <1>5

(* Min finds it.                                                               *)
LEMMA MinOf ==
    ASSUME NEW T, T \subseteq Nat, T # {}
    PROVE  Min(T) \in T /\ \A k \in T : Min(T) <= k
<1>1. \E m \in T : \A k \in T : m <= k
  BY Smallest
<1> QED
  BY <1>1 DEF Min

(* A member of a set that is below all others is its minimum.                  *)
LEMMA MinIs ==
    ASSUME NEW T, T \subseteq Nat, NEW m \in T, \A k \in T : m <= k
    PROVE  Min(T) = m
<1>1. Min(T) \in T /\ \A k \in T : Min(T) <= k
  BY MinOf
<1>2. Min(T) \in Nat /\ m \in Nat /\ Min(T) <= m /\ m <= Min(T)
  BY <1>1
<1> QED
  BY <1>2

(* So a set that holds 0, and with every number the next, holds all of them.   *)
LEMMA ByInduction ==
    ASSUME NEW T, 0 \in T, \A n \in Nat : n \in T => n + 1 \in T
    PROVE  Nat \subseteq T
<1> SUFFICES ASSUME Nat \ T # {} PROVE FALSE
  OBVIOUS
<1>1. PICK m \in Nat \ T : \A k \in Nat \ T : m <= k
  BY Smallest
<1> QED
  BY <1>1, m - 1 \in Nat

--------------------------------------------------------------------------------
(* Concatenation                                                               *)

(* Appending is associative.                                                   *)
LEMMA Associates ==
    ASSUME NEW S
    PROVE  \A x, y, z \in Seq(S) : (x \o y) \o z = x \o (y \o z)
  BY ConcatAssociative

(* The second of two comes behind the first.                                   *)
LEMMA AppendSecond ==
    ASSUME NEW S, NEW a \in S, NEW b \in S
    PROVE  Append(<<a>>, b) = <<a, b>>
<1>1. PICK s, t : s = Append(<<a>>, b) /\ t = <<a, b>>
  OBVIOUS
<1>2. /\ s \in Seq(S) /\ Len(s) = 2 /\ s[1] = a /\ s[2] = b
      /\ t \in Seq(S) /\ Len(t) = 2 /\ t[1] = a /\ t[2] = b
  <2>1. <<a>> \in Seq(S) /\ Len(<<a>>) = 1
    OBVIOUS
  <2> QED
    BY <1>1, <2>1
<1>3. \A i \in 1 .. 2 : s[i] = t[i]
  <2>1. \A i \in 1 .. 2 : i = 1 \/ i = 2
    OBVIOUS
  <2> QED
    BY <1>2, <2>1
<1>4. s = t
  BY <1>2, <1>3
<1> QED
  BY <1>1, <1>4

--------------------------------------------------------------------------------
(* Recursive functions and flattening                                          *)

(* The function f on 0 .. n begins with b and goes on as F says.               *)
Iterates(f, S, n, b, F) ==
    /\ f \in [0 .. n -> S] /\ f[0] = b
    /\ \A i \in 1 .. n : f[i] = F[i][f[i - 1]]

(* There is one for every beginning and every F.                               *)
LEMMA Iteration ==
    ASSUME NEW S, NEW n \in Nat, NEW b \in S, NEW F \in [1 .. n -> [S -> S]]
    PROVE  \E f : Iterates(f, S, n, b, F)
<1> DEFINE T == {m \in Nat : m <= n => \E f : Iterates(f, S, m, b, F)}
<1>1. 0 \in T
  <2> DEFINE f == [i \in 0 .. 0 |-> b]
  <2>1. Iterates(f, S, 0, b, F)
    BY DEF Iterates
  <2> QED
    BY <2>1
<1>2. ASSUME NEW m \in Nat, m \in T PROVE m + 1 \in T
  <2> SUFFICES ASSUME m + 1 <= n PROVE \E f : Iterates(f, S, m + 1, b, F)
    OBVIOUS
  <2>1. PICK f : Iterates(f, S, m, b, F)
    BY <1>2
  <2> DEFINE next == F[m + 1][f[m]]
             g    == [i \in 0 .. m + 1 |-> IF i = m + 1 THEN next ELSE f[i]]
  <2>2. next \in S
    BY <2>1 DEF Iterates
  <2>3. g \in [0 .. m + 1 -> S] /\ g[0] = b
    <3> HIDE DEF next
    <3> QED
      BY <2>1, <2>2 DEF Iterates
  <2>4. ASSUME NEW i \in 1 .. m + 1 PROVE g[i] = F[i][g[i - 1]]
    <3>1. g[i - 1] = f[i - 1]
      OBVIOUS
    <3>2. CASE i = m + 1
      <4>1. g[i] = next /\ i - 1 = m
        BY <3>2
      <4> HIDE DEF g
      <4> QED
        BY <3>1, <3>2, <4>1
    <3>3. CASE i # m + 1
      <4>1. i \in 1 .. m /\ g[i] = f[i]
        BY <3>3
      <4> HIDE DEF g
      <4> QED
        BY <2>1, <3>1, <4>1 DEF Iterates
    <3> QED
      BY <3>2, <3>3
  <2> HIDE DEF g
  <2>5. Iterates(g, S, m + 1, b, F)
    BY <2>3, <2>4 DEF Iterates
  <2> QED
    BY <2>5
<1>3. n \in T
  <2> HIDE DEF T
  <2> QED
    BY <1>1, <1>2, ByInduction
<1> QED
  BY <1>3

(* One turn of the recursion in FlattenSeq, and the function it defines.       *)
Joined(s, f)  == [i \in 1 .. Len(s) |-> IF i = 1 THEN s[i] ELSE f[i - 1] \o s[i]]
JoinedUpTo(s) == CHOOSE f : f = Joined(s, f)

(* There is a function that joins sequences one by one, and FlattenSeq uses it.*)
LEMMA JoinedExists ==
    ASSUME NEW S, NEW s \in Seq(Seq(S))
    PROVE  JoinedUpTo(s) = Joined(s, JoinedUpTo(s))
<1> DEFINE F == [i \in 1 .. Len(s) |-> [t \in Seq(S) |-> t \o s[i]]]
<1>1. Len(s) \in Nat /\ \A i \in 1 .. Len(s) : s[i] \in Seq(S)
  OBVIOUS
<1>2. F \in [1 .. Len(s) -> [Seq(S) -> Seq(S)]]
  BY <1>1
<1>3. \E f : Iterates(f, Seq(S), Len(s), <<>>, F)
  <2>1. <<>> \in Seq(S)
    OBVIOUS
  <2> HIDE DEF F
  <2> QED
    BY <1>1, <1>2, <2>1, Iteration
<1>4. PICK f \in [0 .. Len(s) -> Seq(S)] :
          f[0] = <<>> /\ \A i \in 1 .. Len(s) : f[i] = F[i][f[i - 1]]
  BY <1>3 DEF Iterates
<1>5. \A i \in 1 .. Len(s) : f[i] = IF i = 1 THEN s[i] ELSE f[i - 1] \o s[i]
  <2> TAKE i \in 1 .. Len(s)
  <2>1. f[i - 1] \in Seq(S)
    <3>1. i - 1 \in 0 .. Len(s)
      BY <1>1
    <3> QED
      BY <1>4, <3>1
  <2>2. f[i] = f[i - 1] \o s[i]
    <3>1. f[i] = F[i][f[i - 1]]
      BY <1>4
    <3> QED
      BY <2>1, <3>1
  <2>3. i = 1 => f[i - 1] = <<>>
    BY <1>4
  <2> QED
    <3>1. CASE i = 1
      <4>1. f[i] = <<>> \o s[i]
        BY <2>2, <2>3, <3>1
      <4> QED
        BY <1>1, <3>1, <4>1
    <3>2. CASE i # 1
      BY <2>2, <3>2
    <3> QED
      BY <3>1, <3>2
<1> DEFINE g == [i \in 1 .. Len(s) |-> f[i]]
<1>6. g = Joined(s, g)
  <2>1. \A i \in 1 .. Len(s) : i # 1 => g[i - 1] = f[i - 1]
    BY <1>1
  <2> QED
    BY <1>5, <2>1 DEF Joined
<1> HIDE DEF g
<1> QED
  BY <1>6 DEF JoinedUpTo

(* Step by step the sequences are joined to longer ones.                       *)
LEMMA JoinedSteps ==
    ASSUME NEW S, NEW s \in Seq(Seq(S))
    PROVE  /\ FlattenSeq(s) = IF Len(s) = 0 THEN <<>> ELSE JoinedUpTo(s)[Len(s)]
           /\ \A i \in 1 .. Len(s) :
                 /\ JoinedUpTo(s)[i] \in Seq(S)
                 /\ JoinedUpTo(s)[i] = IF i = 1 THEN s[i] ELSE JoinedUpTo(s)[i - 1] \o s[i]
<1> DEFINE f == JoinedUpTo(s)
           T == {n \in Nat : n + 1 <= Len(s) => f[n + 1] \in Seq(S)}
<1>1. \A i \in 1 .. Len(s) : f[i] = IF i = 1 THEN s[i] ELSE f[i - 1] \o s[i]
  <2> HIDE DEF f
  <2>1. f = Joined(s, f)
    BY JoinedExists DEF f
  <2> QED
    BY <2>1 DEF Joined
<1> HIDE DEF f
<1>2. 0 \in T
  BY <1>1
<1>3. ASSUME NEW n \in Nat, n \in T PROVE n + 1 \in T
  <2> SUFFICES ASSUME n + 2 <= Len(s) PROVE f[n + 2] \in Seq(S)
    OBVIOUS
  <2>1. f[n + 1] \in Seq(S) /\ s[n + 2] \in Seq(S)
    BY <1>3
  <2>2. f[n + 2] = f[n + 1] \o s[n + 2]
    <3>1. n + 2 \in 1 .. Len(s) /\ n + 2 # 1 /\ (n + 2) - 1 = n + 1
      OBVIOUS
    <3> QED
      BY <1>1, <3>1
  <2> QED
    BY <2>1, <2>2
<1>4. Nat \subseteq T
  <2> HIDE DEF T
  <2> QED
    BY <1>2, <1>3, ByInduction
<1>5. FlattenSeq(s) = IF Len(s) = 0 THEN <<>> ELSE f[Len(s)]
  <2>1. CASE Len(s) = 0
    BY <2>1 DEF FlattenSeq
  <2>2. CASE Len(s) # 0
    BY <2>2 DEF FlattenSeq, f, JoinedUpTo, Joined
  <2> QED
    BY <2>1, <2>2
<1>6. \A i \in 1 .. Len(s) : f[i] \in Seq(S)
  <2> TAKE i \in 1 .. Len(s)
  <2>1. PICK n \in Nat : i = n + 1 /\ n + 1 <= Len(s)
    <3>1. i - 1 \in Nat /\ i = (i - 1) + 1 /\ (i - 1) + 1 <= Len(s)
      OBVIOUS
    <3> QED
      BY <3>1
  <2>2. n \in T
    <3> HIDE DEF T
    <3> QED
      BY <1>4
  <2> QED
    BY <2>1, <2>2
<1> QED
  BY <1>1, <1>5, <1>6 DEF f

(* The sequences in a sequence, one after another, are a sequence.             *)
LEMMA FlattenSeqType ==
    ASSUME NEW S, NEW s \in Seq(Seq(S))
    PROVE  FlattenSeq(s) \in Seq(S)
<1>1. Len(s) # 0 => Len(s) \in 1 .. Len(s)
  OBVIOUS
<1>2. <<>> \in Seq(S)
  OBVIOUS
<1> QED
  BY <1>1, <1>2, JoinedSteps

(* If each of them fits into the room that w leaves for it, all of them fit.   *)
LEMMA FlattenSeqFits ==
    ASSUME NEW S, NEW s \in Seq(Seq(S)), NEW w \in [0 .. Len(s) -> Int], w[0] = 0,
           \A i \in 1 .. Len(s) : w[i - 1] + Len(s[i]) <= w[i]
    PROVE  Len(FlattenSeq(s)) <= w[Len(s)]
<1> DEFINE f == JoinedUpTo(s)
           T == {n \in Nat : n + 1 <= Len(s) => Len(f[n + 1]) <= w[n + 1]}
<1>1. \A i \in 1 .. Len(s) : f[i] \in Seq(S) /\ s[i] \in Seq(S)
  BY JoinedSteps
<1>2. \A i \in 1 .. Len(s) : f[i] = IF i = 1 THEN s[i] ELSE f[i - 1] \o s[i]
  BY JoinedSteps
<1> HIDE DEF f
<1>3. 0 \in T
  <2>1. 1 <= Len(s) => w[0] + Len(s[1]) <= w[1] /\ f[1] = s[1] /\ s[1] \in Seq(S)
    BY <1>1, <1>2
  <2> QED
    BY <2>1
<1>4. ASSUME NEW n \in Nat, n \in T PROVE n + 1 \in T
  <2> SUFFICES ASSUME n + 2 <= Len(s) PROVE Len(f[n + 2]) <= w[n + 2]
    OBVIOUS
  <2>1. n + 1 \in 1 .. Len(s) /\ n + 2 \in 1 .. Len(s) /\ n + 2 # 1 /\ (n + 2) - 1 = n + 1
    OBVIOUS
  <2>2. f[n + 2] = f[n + 1] \o s[n + 2] /\ f[n + 1] \in Seq(S) /\ s[n + 2] \in Seq(S)
    BY <1>1, <1>2, <2>1
  <2>3. Len(f[n + 2]) = Len(f[n + 1]) + Len(s[n + 2])
    BY <2>2
  <2>4. w[n + 1] + Len(s[n + 2]) <= w[n + 2] /\ w[n + 1] \in Int /\ w[n + 2] \in Int
    <3>1. n + 1 \in 0 .. Len(s) /\ n + 2 \in 0 .. Len(s)
      BY <2>1
    <3>2. w[(n + 2) - 1] + Len(s[n + 2]) <= w[n + 2]
      BY <2>1
    <3> QED
      BY <2>1, <3>1, <3>2
  <2>5. Len(f[n + 1]) <= w[n + 1]
    BY <1>4, <2>1
  <2>6. Len(f[n + 1]) \in Nat /\ Len(s[n + 2]) \in Nat
    BY <2>2
  <2> DEFINE a == Len(f[n + 1])
             b == Len(s[n + 2])
             c == w[n + 1]
             d == w[n + 2]
  <2>7. a \in Nat /\ b \in Nat /\ c \in Int /\ d \in Int /\ c + b <= d
    BY <2>4, <2>6
  <2>8. a <= c /\ Len(f[n + 2]) = a + b
    BY <2>3, <2>5
  <2> HIDE DEF a, b, c
  <2> QED
    BY <2>7, <2>8
<1>5. Nat \subseteq T
  <2> HIDE DEF T
  <2> QED
    BY <1>3, <1>4, ByInduction
<1>6. CASE Len(s) = 0
  <2>1. FlattenSeq(s) = <<>>
    BY <1>6, JoinedSteps
  <2> QED
    BY <1>6, <2>1
<1>7. CASE Len(s) # 0
  <2>1. PICK n \in Nat : Len(s) = n + 1
    <3>1. Len(s) - 1 \in Nat /\ Len(s) = (Len(s) - 1) + 1
      BY <1>7
    <3> QED
      BY <3>1
  <2>2. n \in T
    <3> HIDE DEF T
    <3> QED
      BY <1>5
  <2>3. FlattenSeq(s) = f[Len(s)]
    BY <1>7, JoinedSteps DEF f
  <2> QED
    BY <2>1, <2>2, <2>3
<1> QED
  BY <1>6, <1>7

(* One more sequence comes after those before it.                              *)
LEMMA FlattenSeqAppend ==
    ASSUME NEW S, NEW s \in Seq(Seq(S)), NEW e \in Seq(S)
    PROVE  FlattenSeq(Append(s, e)) = FlattenSeq(s) \o e
<1> DEFINE t == Append(s, e)
           f == JoinedUpTo(s)
           g == JoinedUpTo(t)
           T == {n \in Nat : n + 1 <= Len(s) => g[n + 1] = f[n + 1]}
<1>1. /\ t \in Seq(Seq(S)) /\ Len(t) = Len(s) + 1 /\ Len(s) \in Nat
      /\ \A i \in 1 .. Len(s) : t[i] = s[i]
      /\ t[Len(s) + 1] = e
  OBVIOUS
<1>2. \A i \in 1 .. Len(s) : f[i] = IF i = 1 THEN s[i] ELSE f[i - 1] \o s[i]
  BY JoinedSteps
<1> HIDE DEF t
<1>3. \A i \in 1 .. Len(t) : g[i] = IF i = 1 THEN t[i] ELSE g[i - 1] \o t[i]
  BY <1>1, JoinedSteps
<1>4. FlattenSeq(s) = IF Len(s) = 0 THEN <<>> ELSE f[Len(s)]
  BY JoinedSteps
<1>5. FlattenSeq(t) = g[Len(t)]
  BY <1>1, JoinedSteps
<1> HIDE DEF f, g
<1>6. 0 \in T
  BY <1>1, <1>2, <1>3
<1>7. ASSUME NEW n \in Nat, n \in T PROVE n + 1 \in T
  <2> SUFFICES ASSUME n + 2 <= Len(s) PROVE g[n + 2] = f[n + 2]
    OBVIOUS
  <2>1. /\ n + 1 \in 1 .. Len(s) /\ n + 2 \in 1 .. Len(s) /\ n + 2 \in 1 .. Len(t)
        /\ n + 2 # 1 /\ (n + 2) - 1 = n + 1
    BY <1>1
  <2>2. g[n + 1] = f[n + 1]
    BY <1>7, <2>1
  <2>3. g[n + 2] = g[n + 1] \o t[n + 2]
    BY <1>3, <2>1
  <2>4. f[n + 2] = f[n + 1] \o s[n + 2]
    BY <1>2, <2>1
  <2> QED
    BY <1>1, <2>1, <2>2, <2>3, <2>4
<1>8. Nat \subseteq T
  <2> HIDE DEF T
  <2> QED
    BY <1>6, <1>7, ByInduction
<1>9. CASE Len(s) = 0
  <2>1. g[1] = e
    BY <1>1, <1>3, <1>9
  <2> QED
    BY <1>1, <1>4, <1>5, <1>9, <2>1 DEF t
<1>10. CASE Len(s) # 0
  <2>1. PICK n \in Nat : Len(s) = n + 1
    <3>1. Len(s) - 1 \in Nat /\ Len(s) = (Len(s) - 1) + 1
      BY <1>1, <1>10
    <3> QED
      BY <3>1
  <2>2. n \in T
    <3> HIDE DEF T
    <3> QED
      BY <1>8
  <2>3. g[Len(s)] = f[Len(s)]
    BY <2>1, <2>2
  <2>4. Len(t) \in 1 .. Len(t) /\ Len(t) # 1 /\ Len(t) - 1 = Len(s)
    BY <1>1, <1>10
  <2>5. g[Len(t)] = g[Len(s)] \o t[Len(t)]
    BY <1>3, <2>4
  <2> QED
    BY <1>1, <1>4, <1>5, <1>10, <2>3, <2>5 DEF t
<1> QED
  BY <1>9, <1>10 DEF t

(* Nothing makes nothing.                                                      *)
LEMMA FlattenSeqEmpty == FlattenSeq(<<>>) = <<>>
<1>1. <<>> \in Seq(Seq({})) /\ Len(<<>>) = 0
  OBVIOUS
<1> QED
  BY <1>1, JoinedSteps

(* A family of sequences that one more comes to.                               *)
LEMMA FlattenSeqNext ==
    ASSUME NEW S, NEW n \in Nat, NEW g, \A i \in 1 .. n + 1 : g[i] \in Seq(S)
    PROVE  /\ FlattenSeq([i \in 1 .. n |-> g[i]]) \in Seq(S)
           /\ FlattenSeq([i \in 1 .. n + 1 |-> g[i]])
                = FlattenSeq([i \in 1 .. n |-> g[i]]) \o g[n + 1]
<1> DEFINE s == [i \in 1 .. n |-> g[i]]
           e == g[n + 1]
<1>1. s \in Seq(Seq(S)) /\ e \in Seq(S)
  OBVIOUS
<1>2. [i \in 1 .. n + 1 |-> g[i]] = Append(s, e)
  OBVIOUS
<1> HIDE DEF s, e
<1>3. FlattenSeq(Append(s, e)) = FlattenSeq(s) \o e
  BY <1>1, FlattenSeqAppend
<1> QED
  BY <1>1, <1>2, <1>3, FlattenSeqType DEF s, e

(* Sequences of one element each make the sequence of these elements.          *)
LEMMA FlattenSeqSingles ==
    ASSUME NEW n \in Nat, NEW h
    PROVE  FlattenSeq([i \in 1 .. n |-> <<h[i]>>]) = [i \in 1 .. n |-> h[i]]
<1> DEFINE S == {h[i] : i \in 1 .. n}
           g == [i \in 1 .. n |-> <<h[i]>>]
           Flat(m) == FlattenSeq([i \in 1 .. m |-> g[i]])
           T == {m \in Nat : m <= n => Flat(m) = [i \in 1 .. m |-> h[i]]}
<1>1. \A i \in 1 .. n : g[i] = <<h[i]>> /\ h[i] \in S /\ g[i] \in Seq(S)
  OBVIOUS
<1>2. 0 \in T
  <2>1. [i \in 1 .. 0 |-> g[i]] = <<>> /\ [i \in 1 .. 0 |-> h[i]] = <<>>
    OBVIOUS
  <2> QED
    BY <2>1, FlattenSeqEmpty
<1> HIDE DEF S, g
<1>3. ASSUME NEW m \in Nat, m \in T PROVE m + 1 \in T
  <2> SUFFICES ASSUME m + 1 <= n PROVE Flat(m + 1) = [i \in 1 .. m + 1 |-> h[i]]
    OBVIOUS
  <2>1. \A i \in 1 .. m + 1 : g[i] \in Seq(S)
    BY <1>1
  <2>2. Flat(m + 1) = Flat(m) \o g[m + 1]
    BY <2>1, FlattenSeqNext
  <2>3. Flat(m) = [i \in 1 .. m |-> h[i]]
    BY <1>3
  <2> HIDE DEF Flat
  <2>4. g[m + 1] = <<h[m + 1]>> /\ \A i \in 1 .. m + 1 : h[i] \in S
    BY <1>1
  <2>5. [i \in 1 .. m |-> h[i]] \o <<h[m + 1]>> = [i \in 1 .. m + 1 |-> h[i]]
    BY <2>4
  <2> QED
    BY <2>2, <2>3, <2>4, <2>5
<1>4. n \in T
  <2> HIDE DEF T
  <2> QED
    BY <1>2, <1>3, ByInduction
<1>5. [i \in 1 .. n |-> g[i]] = g
  BY DEF g
<1> QED
  BY <1>4, <1>5 DEF g

(* Two sequences, one after the other.                                         *)
LEMMA JoinedElements ==
    ASSUME NEW S, NEW s \in Seq(S), NEW t \in Seq(S)
    PROVE  /\ s \o t \in Seq(S) /\ Len(s \o t) = Len(s) + Len(t)
           /\ \A p \in 1 .. Len(s) : (s \o t)[p] = s[p]
           /\ \A p \in 1 .. Len(t) : (s \o t)[Len(s) + p] = t[p]
  OBVIOUS

(* What two sequences of sequences make comes one after the other.             *)
LEMMA FlattenSeqConcat ==
    ASSUME NEW S, NEW s \in Seq(Seq(S)), NEW t \in Seq(Seq(S))
    PROVE  FlattenSeq(s \o t) = FlattenSeq(s) \o FlattenSeq(t)
<1> DEFINE First(m) == [i \in 1 .. m |-> t[i]]
           T == {m \in Nat : m <= Len(t) => FlattenSeq(s \o First(m)) = FlattenSeq(s) \o FlattenSeq(First(m))}
<1>1. FlattenSeq(s) \in Seq(S)
  BY FlattenSeqType
<1>2. 0 \in T
  <2>1. First(0) = <<>> /\ s \o <<>> = s /\ FlattenSeq(s) \o <<>> = FlattenSeq(s)
    BY <1>1
  <2> QED
    BY <2>1, FlattenSeqEmpty
<1>3. ASSUME NEW m \in Nat, m \in T PROVE m + 1 \in T
  <2> SUFFICES ASSUME m + 1 <= Len(t)
               PROVE  FlattenSeq(s \o First(m + 1)) = FlattenSeq(s) \o FlattenSeq(First(m + 1))
    OBVIOUS
  <2>1. First(m) \in Seq(Seq(S)) /\ t[m + 1] \in Seq(S) /\ First(m + 1) = Append(First(m), t[m + 1])
    OBVIOUS
  <2>2. FlattenSeq(s \o First(m)) = FlattenSeq(s) \o FlattenSeq(First(m))
    BY <1>3
  <2> HIDE DEF First
  <2>3. s \o First(m + 1) = Append(s \o First(m), t[m + 1]) /\ s \o First(m) \in Seq(Seq(S))
    <3>1. PICK x, a : x = First(m) /\ a = t[m + 1] /\ x \in Seq(Seq(S)) /\ a \in Seq(S)
      BY <2>1
    <3>2. s \o Append(x, a) = Append(s \o x, a) /\ s \o x \in Seq(Seq(S))
      BY <3>1
    <3> QED
      BY <2>1, <3>1, <3>2
  <2>4. FlattenSeq(s \o First(m + 1)) = FlattenSeq(s \o First(m)) \o t[m + 1]
    BY <2>1, <2>3, FlattenSeqAppend
  <2>5. FlattenSeq(First(m + 1)) = FlattenSeq(First(m)) \o t[m + 1]
    BY <2>1, FlattenSeqAppend
  <2>6. FlattenSeq(First(m)) \in Seq(S)
    BY <2>1, FlattenSeqType
  <2>7. (FlattenSeq(s) \o FlattenSeq(First(m))) \o t[m + 1]
            = FlattenSeq(s) \o (FlattenSeq(First(m)) \o t[m + 1])
    <3>1. PICK x, y, z : /\ x = FlattenSeq(s) /\ y = FlattenSeq(First(m)) /\ z = t[m + 1]
                         /\ x \in Seq(S) /\ y \in Seq(S) /\ z \in Seq(S)
      BY <1>1, <2>1, <2>6
    <3>2. \A a, b, c \in Seq(S) : (a \o b) \o c = a \o (b \o c)
      BY ONLY Associates, SMTT(30)
    <3>3. (x \o y) \o z = x \o (y \o z)
      BY <3>1, <3>2
    <3> QED
      BY <3>1, <3>3
  <2> QED
    BY <2>2, <2>4, <2>5, <2>7
<1>4. Len(t) \in T
  <2>1. Len(t) \in Nat
    OBVIOUS
  <2> HIDE DEF T
  <2> QED
    BY <1>2, <1>3, <2>1, ByInduction
<1>5. First(Len(t)) = t
  OBVIOUS
<1> HIDE DEF First
<1> QED
  BY <1>4, <1>5

(* What e makes of each of x, one after another.                               *)
Mapped(e, x) == [i \in 1 .. Len(x) |-> e[x[i]]]

(* What e makes of two sequences comes one after the other.                    *)
LEMMA MappedConcat ==
    ASSUME NEW e, NEW R, NEW a \in Seq(R), NEW b \in Seq(R)
    PROVE  Mapped(e, a \o b) = Mapped(e, a) \o Mapped(e, b)
<1> DEFINE W == {e[r] : r \in R}
<1>0. PICK V : \A r \in R : e[r] \in V
  <2>1. \A r \in R : e[r] \in W
    OBVIOUS
  <2> QED
    BY <2>1
<1> HIDE DEF W
<1>1. Mapped(e, a) \in Seq(V) /\ Mapped(e, b) \in Seq(V) /\ Mapped(e, a \o b) \in Seq(V)
  BY <1>0 DEF Mapped
<1>2. Len(Mapped(e, a)) = Len(a) /\ Len(Mapped(e, b)) = Len(b) /\ Len(Mapped(e, a \o b)) = Len(a) + Len(b)
  BY DEF Mapped
<1>3. ASSUME NEW i \in 1 .. Len(a) + Len(b)
      PROVE  Mapped(e, a \o b)[i] = (Mapped(e, a) \o Mapped(e, b))[i]
  <2>1. CASE i <= Len(a)
    BY <2>1 DEF Mapped
  <2>2. CASE ~(i <= Len(a))
    BY <2>2 DEF Mapped
  <2> QED
    BY <2>1, <2>2
<1>4. PICK p, q : p = Mapped(e, a) /\ q = Mapped(e, b) /\ p \in Seq(V) /\ q \in Seq(V)
  BY <1>1
<1>5. p \o q \in Seq(V) /\ Len(p \o q) = Len(p) + Len(q)
  BY <1>4
<1>6. PICK r, z : r = Mapped(e, a \o b) /\ z = p \o q
  OBVIOUS
<1>7. r \in Seq(V) /\ z \in Seq(V) /\ Len(r) = Len(z) /\ \A i \in 1 .. Len(z) : r[i] = z[i]
  BY ONLY <1>1, <1>2, <1>3, <1>4, <1>5, <1>6
<1>8. r = z
  BY ONLY <1>7
<1> QED
  BY <1>4, <1>6, <1>8

(* Sequences may be joined before or after e is applied to what they hold.     *)
MappedJoined(e, n, y) ==
    FlattenSeq([i \in 1 .. n |-> FlattenSeq(Mapped(e, y[i]))])
        = FlattenSeq(Mapped(e, FlattenSeq([i \in 1 .. n |-> y[i]])))

(* It makes no difference.                                                     *)
LEMMA FlattenSeqMapped ==
    ASSUME NEW S, NEW R, NEW e \in [R -> Seq(S)],
           NEW n \in Nat, NEW y, \A i \in 1 .. n : y[i] \in Seq(R)
    PROVE  MappedJoined(e, n, y)
<1> DEFINE g == [i \in 1 .. n |-> FlattenSeq(Mapped(e, y[i]))]
           Outer(m) == FlattenSeq([i \in 1 .. m |-> g[i]])
           Inner(m) == FlattenSeq([i \in 1 .. m |-> y[i]])
           T == {m \in Nat : m <= n => Outer(m) = FlattenSeq(Mapped(e, Inner(m)))}
<1>1. ASSUME NEW x \in Seq(R) PROVE Mapped(e, x) \in Seq(Seq(S))
  BY DEF Mapped
<1>2. \A i \in 1 .. n : g[i] = FlattenSeq(Mapped(e, y[i])) /\ g[i] \in Seq(S)
  BY <1>1, FlattenSeqType
<1>3. [i \in 1 .. n |-> g[i]] = g
  OBVIOUS
<1> HIDE DEF g
<1>4. 0 \in T
  <2>1. /\ [i \in 1 .. 0 |-> g[i]] = <<>> /\ [i \in 1 .. 0 |-> y[i]] = <<>>
        /\ Mapped(e, <<>>) = <<>>
    BY DEF Mapped
  <2> QED
    BY <2>1, FlattenSeqEmpty
<1>5. ASSUME NEW m \in Nat, m \in T PROVE m + 1 \in T
  <2> SUFFICES ASSUME m + 1 <= n PROVE Outer(m + 1) = FlattenSeq(Mapped(e, Inner(m + 1)))
    OBVIOUS
  <2>1. \A i \in 1 .. m + 1 : g[i] \in Seq(S) /\ y[i] \in Seq(R)
    BY <1>2
  <2>2. Outer(m + 1) = Outer(m) \o g[m + 1]
    BY <2>1, FlattenSeqNext
  <2>3. Inner(m + 1) = Inner(m) \o y[m + 1] /\ Inner(m) \in Seq(R)
    BY <2>1, FlattenSeqNext
  <2>4. Outer(m) = FlattenSeq(Mapped(e, Inner(m)))
    BY <1>5
  <2> HIDE DEF Outer, Inner
  <2>5. y[m + 1] \in Seq(R) /\ g[m + 1] = FlattenSeq(Mapped(e, y[m + 1]))
    BY <1>2, <2>1
  <2>6. PICK a, b : a = Inner(m) /\ b = y[m + 1] /\ a \in Seq(R) /\ b \in Seq(R)
    BY <2>3, <2>5
  <2>7. Mapped(e, a \o b) = Mapped(e, a) \o Mapped(e, b)
    BY <2>6, MappedConcat
  <2>8. FlattenSeq(Mapped(e, a) \o Mapped(e, b)) = FlattenSeq(Mapped(e, a)) \o FlattenSeq(Mapped(e, b))
    BY <1>1, <2>6, FlattenSeqConcat
  <2>9. Outer(m + 1) = FlattenSeq(Mapped(e, a)) \o FlattenSeq(Mapped(e, b))
    BY ONLY <2>2, <2>4, <2>5, <2>6
  <2>10. Inner(m + 1) = a \o b
    BY ONLY <2>3, <2>6
  <2> QED
    BY ONLY <2>7, <2>8, <2>9, <2>10
<1>6. n \in T
  <2> HIDE DEF T
  <2> QED
    BY <1>4, <1>5, ByInduction
<1>7. FlattenSeq(g) = FlattenSeq(Mapped(e, FlattenSeq([i \in 1 .. n |-> y[i]])))
  <2>1. Outer(n) = FlattenSeq(Mapped(e, Inner(n)))
    BY <1>6
  <2> QED
    BY <1>3, <2>1
<1> QED
  BY <1>7 DEF g, MappedJoined
=============================================================================
