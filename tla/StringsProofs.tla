------------------------------ MODULE StringsProofs ------------------------------
(***************************************************************************)
(* Proofs about string_remove_backslashes and rest_extract_token: as long  *)
(* as no other thread uses strtok while they run, what the one copies      *)
(* never outgrows its buffer and is the text without the backslashes that  *)
(* Pd put into it, and what the other returns is the cookie of the server. *)
(***************************************************************************)
EXTENDS Strings, SequenceLemmas

(* The characters there are.                                                   *)
Chars == {NUL, BACKSLASH} \cup UNION {Range(s) : s \in Texts \cup Headers}

Busy(t) == pc[t] \notin {"idle", "cleaned", "extracted"}

(* While a text is cleaned, what strtok has gone over is longer than what was  *)
(* copied, by the backslash it was cut at and one more; or the text is at its  *)
(* end.                                                                        *)
Copied(t) ==
    /\ result[t] \in Seq(Chars)
    /\ \E i \in 1 .. Len(text[t]) + 1 :
          /\ position = <<t, i>>
          /\ \/ Len(result[t]) + 2 <= i
             \/ Len(result[t]) <= Len(text[t]) /\ End(text[t], i) = i

CleanInv ==
    /\ DOMAIN pc = Threads /\ DOMAIN text = Threads /\ DOMAIN source = Threads
    /\ DOMAIN result = Threads
    /\ \A t, u \in Threads : Busy(t) /\ Busy(u) => t = u
    /\ \A t \in Threads :
          /\ pc[t] = "idle" => result[t] = <<>>
          /\ pc[t] \in {"first", "segment"} =>
                text[t] \in Seq(Chars) /\ Len(text[t]) = Len(source[t])
          /\ pc[t] = "segment" => Copied(t)
          /\ pc[t] = "cleaned" => Len(result[t]) <= Len(source[t])

--------------------------------------------------------------------------------
(* strtok                                                                      *)

(* The end of a text is where NUL is, or behind it.                            *)
LEMMA EndBounds ==
    ASSUME NEW s \in Seq(Chars), NEW i \in 1 .. Len(s) + 1
    PROVE  /\ End(s, i) \in i .. Len(s) + 1
           /\ End(s, i) = Len(s) + 1 \/ s[End(s, i)] = NUL
<1> DEFINE T == {j \in i .. Len(s) : s[j] = NUL} \cup {Len(s) + 1}
<1>1. T \subseteq Nat /\ T # {} /\ T \subseteq i .. Len(s) + 1
  OBVIOUS
<1>2. \A j \in T : j = Len(s) + 1 \/ s[j] = NUL
  OBVIOUS
<1>3. End(s, i) = Min(T)
  BY DEF End
<1> HIDE DEF T
<1>4. End(s, i) \in T
  BY <1>1, <1>3, MinOf
<1> QED
  BY <1>1, <1>2, <1>4

(* Where a text ends, it has ended.                                            *)
LEMMA EndStays ==
    ASSUME NEW s \in Seq(Chars), NEW i \in 1 .. Len(s) + 1, i = Len(s) + 1 \/ s[i] = NUL
    PROVE  End(s, i) = i
<1> DEFINE T == {j \in i .. Len(s) : s[j] = NUL} \cup {Len(s) + 1}
<1>1. T \subseteq Nat /\ T # {} /\ i \in T /\ \A j \in T : i <= j
  OBVIOUS
<1>2. End(s, i) = Min(T)
  BY DEF End
<1> HIDE DEF T
<1>3. Min(T) \in T /\ Min(T) <= i
  BY <1>1, MinOf
<1>4. Min(T) \in Nat /\ i \in Nat /\ i <= Min(T)
  BY <1>1, <1>3
<1> QED
  BY <1>2, <1>3, <1>4

(* The end of a text is the first NUL.                                         *)
LEMMA EndIs ==
    ASSUME NEW s \in Seq(Chars), NEW i \in 1 .. Len(s) + 1, NEW e \in i .. Len(s) + 1,
           \A j \in i .. e - 1 : s[j] # NUL, e = Len(s) + 1 \/ s[e] = NUL
    PROVE  End(s, i) = e
<1> DEFINE T == {j \in i .. Len(s) : s[j] = NUL} \cup {Len(s) + 1}
<1>1. T \subseteq Nat /\ e \in T /\ \A k \in T : e <= k
  OBVIOUS
<1>2. End(s, i) = Min(T)
  BY DEF End
<1> HIDE DEF T
<1> QED
  BY <1>1, <1>2, MinIs

(* The text s has a token from begin to before stop, the first after i and     *)
(* before end: only delimiters come before it, it holds none, and it goes on   *)
(* to the next one or the end.                                                 *)
Segment(s, i, end, D, begin, stop) ==
    /\ begin \in i .. end /\ stop \in begin .. end
    /\ \A j \in i .. begin - 1 : s[j] \in D
    /\ \A j \in begin .. stop - 1 : s[j] \notin D
    /\ begin < end => begin < stop
    /\ stop < end => s[stop] \in D

(* What strtok knows of it.                                                    *)
TokenOf(t, s, begin, stop, end) ==
    [found |-> begin < end, string |-> SubSeq(s, begin, stop - 1), at |-> <<t, begin>>,
     cut |-> stop, next |-> IF stop < end THEN stop + 1 ELSE end]

(* It is what strtok finds.                                                    *)
LEMMA TokenIs ==
    ASSUME NEW t, text[t] \in Seq(Chars), NEW i \in 1 .. Len(text[t]) + 1, NEW D,
           NEW end, end = End(text[t], i)
    PROVE  \E begin, stop \in Nat :
               /\ Segment(text[t], i, end, D, begin, stop)
               /\ Token(<<t, i>>, D) = TokenOf(t, text[t], begin, stop, end)
<1> DEFINE s     == text[t]
           B     == {j \in i .. end - 1 : s[j] \notin D} \cup {end}
           begin == Min(B)
           C     == {j \in begin .. end - 1 : s[j] \in D} \cup {end}
           stop  == Min(C)
<1>1. s \in Seq(Chars) /\ end \in i .. Len(s) + 1 /\ Len(s) \in Nat
  BY EndBounds
<1>2. B \subseteq i .. end /\ B # {} /\ B \subseteq Nat /\ \A j \in B : j < end => s[j] \notin D
  BY <1>1
<1>3. \A j \in i .. end - 1 : s[j] \notin D => j \in B
  OBVIOUS
<1> HIDE DEF B
<1>4. begin \in B /\ begin \in i .. end /\ \A j \in B : begin <= j
  BY <1>2, MinOf
<1> HIDE DEF begin
<1>5. \A j \in i .. begin - 1 : s[j] \in D
  <2> TAKE j \in i .. begin - 1
  <2>1. j \in i .. end - 1 /\ ~(begin <= j)
    BY <1>1, <1>4
  <2> QED
    BY <1>3, <1>4, <2>1
<1>6. begin < end => s[begin] \notin D
  BY <1>2, <1>4
<1>7. /\ C \subseteq begin .. end /\ C # {} /\ C \subseteq Nat
      /\ begin < end => begin \notin C
      /\ \A j \in C : j < end => s[j] \in D
  BY <1>1, <1>4, <1>6
<1>8. \A j \in begin .. end - 1 : s[j] \in D => j \in C
  OBVIOUS
<1> HIDE DEF C
<1>9. stop \in C /\ stop \in begin .. end /\ \A j \in C : stop <= j
  BY <1>7, MinOf
<1> HIDE DEF stop
<1>10. \A j \in begin .. stop - 1 : s[j] \notin D
  <2> TAKE j \in begin .. stop - 1
  <2>1. j \in begin .. end - 1 /\ ~(stop <= j)
    BY <1>1, <1>4, <1>9
  <2> QED
    BY <1>8, <1>9, <2>1
<1>11. begin < end => begin < stop
  BY <1>4, <1>7, <1>9
<1>12. stop < end => s[stop] \in D
  BY <1>7, <1>9
<1>13. Token(<<t, i>>, D) = TokenOf(t, s, begin, stop, end)
  BY DEF Token, TokenOf, B, begin, C, stop
<1> HIDE DEF s
<1>14. Segment(s, i, end, D, begin, stop)
  BY <1>4, <1>5, <1>9, <1>10, <1>11, <1>12 DEF Segment
<1>15. begin \in Nat /\ stop \in Nat
  BY <1>1, <1>4, <1>9
<1> QED
  BY <1>13, <1>14, <1>15 DEF s

(* A token lies between the position and the end, and strtok goes on behind    *)
(* the delimiter it is cut at.                                                 *)
LEMMA TokenBounds ==
    ASSUME NEW t, text[t] \in Seq(Chars), NEW i \in 1 .. Len(text[t]) + 1, NEW D
    PROVE  LET token == Token(<<t, i>>, D)
               end   == End(text[t], i)
           IN  /\ token.cut \in i .. end
               /\ token.string \in Seq(Chars) /\ Len(token.string) <= token.cut - i
               /\ token.found => i < end /\ token.string # <<>>
               /\ token.next = IF token.cut < end THEN token.cut + 1 ELSE end
<1>1. PICK end : end = End(text[t], i)
  OBVIOUS
<1>2. PICK begin, stop \in Nat :
          /\ Segment(text[t], i, end, D, begin, stop)
          /\ Token(<<t, i>>, D) = TokenOf(t, text[t], begin, stop, end)
  BY <1>1, TokenIs
<1>3. end \in i .. Len(text[t]) + 1 /\ Len(text[t]) \in Nat
  BY <1>1, EndBounds
<1>4. /\ begin \in i .. end /\ stop \in begin .. end /\ (begin < end => begin < stop)
      /\ stop - 1 <= Len(text[t])
  BY <1>2, <1>3 DEF Segment
<1>5. /\ SubSeq(text[t], begin, stop - 1) \in Seq(Chars)
      /\ Len(SubSeq(text[t], begin, stop - 1)) = stop - begin
  BY <1>3, <1>4
<1>6. begin < end => SubSeq(text[t], begin, stop - 1) # <<>>
  <2>1. begin < end => stop - begin # 0
    BY <1>4
  <2>2. Len(<<>>) = 0
    OBVIOUS
  <2> QED
    BY <1>5, <2>1, <2>2
<1>7. stop \in i .. end /\ stop - begin <= stop - i /\ (begin < end => i < end)
  BY <1>3, <1>4
<1> DEFINE token == TokenOf(t, text[t], begin, stop, end)
<1>8. /\ token.cut = stop /\ token.string = SubSeq(text[t], begin, stop - 1)
      /\ token.found = (begin < end) /\ token.next = IF stop < end THEN stop + 1 ELSE end
  BY DEF TokenOf
<1> HIDE DEF token
<1>9. Token(<<t, i>>, D) = token
  BY <1>2 DEF token
<1> QED
  BY <1>1, <1>5, <1>6, <1>7, <1>8, <1>9

(* Where a token is cut off, and nowhere else, its text changes.               *)
LEMMA CutChanges ==
    ASSUME DOMAIN text = Threads, NEW t \in Threads, text[t] \in Seq(Chars),
           NEW p \in {t} \X Nat, NEW token, Cut(p, token)
    PROVE  /\ position' = <<t, token.next>> /\ DOMAIN text' = Threads
           /\ text'[t] \in Seq(Chars) /\ Len(text'[t]) = Len(text[t])
           /\ \A j \in 1 .. Len(text[t]) :
                 text'[t][j] = IF j = token.cut THEN NUL ELSE text[t][j]
<1> DEFINE s   == text[t]
           cut == token.cut
<1>1. s \in Seq(Chars) /\ Len(s) \in Nat /\ DOMAIN s = 1 .. Len(s) /\ p[1] = t /\ NUL \in Chars
  BY DEF Chars
<1>2. /\ position' = <<t, token.next>>
      /\ text' = [text EXCEPT ![t] = IF cut \in DOMAIN s THEN [s EXCEPT ![cut] = NUL] ELSE s]
  BY <1>1 DEF Cut
<1>3. DOMAIN text' = Threads /\ text'[t] = IF cut \in DOMAIN s THEN [s EXCEPT ![cut] = NUL] ELSE s
  BY <1>2
<1> HIDE DEF s, cut
<1>4. /\ text'[t] \in Seq(Chars) /\ Len(text'[t]) = Len(s)
      /\ \A j \in 1 .. Len(s) : text'[t][j] = IF j = cut THEN NUL ELSE s[j]
  BY <1>1, <1>3
<1> QED
  BY <1>2, <1>3, <1>4 DEF s, cut

(* Cutting a token off leaves a text of the same length; either strtok stands  *)
(* behind the cut, or it has come to the end.                                  *)
LEMMA CutKeeps ==
    ASSUME DOMAIN text = Threads, NEW t \in Threads, text[t] \in Seq(Chars),
           NEW i \in 1 .. Len(text[t]) + 1, NEW D, Cut(<<t, i>>, Token(<<t, i>>, D))
    PROVE  LET token == Token(<<t, i>>, D)
           IN  /\ DOMAIN text' = Threads
               /\ text'[t] \in Seq(Chars) /\ Len(text'[t]) = Len(text[t])
               /\ token.cut \in i .. Len(text[t]) + 1
               /\ token.next \in 1 .. Len(text[t]) + 1 /\ position' = <<t, token.next>>
               /\ token.next = token.cut + 1 \/ End(text'[t], token.next) = token.next
<1> DEFINE s    == text[t]
           end  == End(s, i)
           cut  == Token(<<t, i>>, D).cut
           next == Token(<<t, i>>, D).next
<1>1. /\ end \in i .. Len(s) + 1 /\ (end = Len(s) + 1 \/ s[end] = NUL)
      /\ Len(s) \in Nat /\ DOMAIN s = 1 .. Len(s)
  BY EndBounds
<1>2. cut \in i .. end /\ next = IF cut < end THEN cut + 1 ELSE end
  BY TokenBounds
<1> HIDE DEF end
<1>3. /\ position' = <<t, next>>
      /\ text' = [text EXCEPT ![t] = IF cut \in DOMAIN s THEN [s EXCEPT ![cut] = NUL] ELSE s]
  BY DEF Cut
<1> HIDE DEF cut, next
<1>4. NUL \in Chars
  BY DEF Chars
<1>5. text'[t] = IF cut \in DOMAIN s THEN [s EXCEPT ![cut] = NUL] ELSE s
  BY <1>3
<1>6. text'[t] \in Seq(Chars) /\ Len(text'[t]) = Len(s)
  BY <1>4, <1>5
<1>7. cut \in i .. Len(s) + 1 /\ next \in 1 .. Len(s) + 1
  BY <1>1, <1>2
<1>8. next = cut + 1 \/ End(text'[t], next) = next
  <2> SUFFICES ASSUME next = end PROVE End(text'[t], next) = next
    BY <1>2
  <2>1. next = Len(s) + 1 \/ text'[t][next] = NUL
    BY <1>1, <1>5, <1>7
  <2> QED
    BY <1>6, <1>7, <2>1, EndStays
<1> QED
  BY <1>3, <1>6, <1>7, <1>8 DEF s, cut, next

--------------------------------------------------------------------------------
(* One thread at a time                                                        *)

(* A step of the thread that is at work keeps what holds of the others.        *)
LEMMA OneAtWork ==
    ASSUME CleanInv, NEW t \in Threads, Busy(t), NEW state, Goto(t, state),
           DOMAIN text' = Threads, DOMAIN result' = Threads, source' = source,
           \A u \in Threads \ {t} : result'[u] = result[u],
           state # "idle",
           state \in {"first", "segment"} =>
               text'[t] \in Seq(Chars) /\ Len(text'[t]) = Len(source[t]),
           state = "segment" => Copied(t)',
           state = "cleaned" => Len(result'[t]) <= Len(source[t])
    PROVE  CleanInv'
<1>1. DOMAIN pc' = Threads /\ pc'[t] = state /\ \A u \in Threads \ {t} : pc'[u] = pc[u]
  BY DEF CleanInv, Goto
<1>2. \A u \in Threads \ {t} : ~Busy(u) /\ ~Busy(u)'
  BY <1>1 DEF CleanInv, Busy
<1>3. \A u \in Threads \ {t} : pc'[u] \in {"idle", "cleaned", "extracted"}
  BY <1>2 DEF Busy
<1>4. \A u, v \in Threads : Busy(u)' /\ Busy(v)' => u = v
  BY <1>2
<1>5. ASSUME NEW u \in Threads
      PROVE  /\ pc'[u] = "idle" => result'[u] = <<>>
             /\ pc'[u] \in {"first", "segment"} =>
                   text'[u] \in Seq(Chars) /\ Len(text'[u]) = Len(source'[u])
             /\ pc'[u] = "segment" => Copied(u)'
             /\ pc'[u] = "cleaned" => Len(result'[u]) <= Len(source'[u])
  <2>1. CASE u = t
    BY <1>1, <2>1
  <2>2. CASE u # t
    BY <1>1, <1>3, <2>2 DEF CleanInv
  <2> QED
    BY <2>1, <2>2
<1>6. DOMAIN source' = Threads
  BY DEF CleanInv
<1> QED
  BY <1>1, <1>4, <1>5, <1>6 DEF CleanInv

(* The texts that come are texts of these characters.                          *)
LEMMA TextsOfChars ==
    ASSUME NEW s \in Texts \cup Headers
    PROVE  s \in Seq(Chars) /\ \A i \in 1 .. Len(s) : s[i] # NUL
<1>1. s \in Seq(Range(s) \ {NUL})
  BY StringsAssumption
<1>2. Range(s) \subseteq Chars
  BY DEF Chars
<1>3. /\ Len(s) \in Nat /\ DOMAIN s = 1 .. Len(s)
      /\ \A i \in 1 .. Len(s) : s[i] \in Chars /\ s[i] # NUL
  BY <1>1, <1>2
<1> QED
  BY <1>1, <1>3

(* What a thread begins with, as the only one.                                 *)
LEMMA BeginKeeps ==
    ASSUME Serial, CleanInv, NEW t \in Threads, NEW s \in Seq(Chars), NEW state,
           Begin(t, state, s), state \notin {"idle", "segment"}, state = "cleaned" => s = <<>>
    PROVE  CleanInv'
<1>1. /\ pc[t] = "idle" /\ result' = result /\ result[t] = <<>>
      /\ \A u \in Threads : pc[u] \in {"idle", "cleaned", "extracted"}
  BY DEF Begin, CleanInv
<1>2. /\ DOMAIN pc' = Threads /\ pc'[t] = state /\ \A u \in Threads \ {t} : pc'[u] = pc[u]
      /\ DOMAIN text' = Threads /\ text'[t] = s
      /\ DOMAIN source' = Threads /\ source'[t] = s
      /\ \A u \in Threads \ {t} : source'[u] = source[u]
  BY DEF Begin, Goto, CleanInv
<1>3. \A u, v \in Threads : Busy(u)' /\ Busy(v)' => u = v
  BY <1>1, <1>2 DEF Busy
<1>4. ASSUME NEW u \in Threads
      PROVE  /\ pc'[u] = "idle" => result'[u] = <<>>
             /\ pc'[u] \in {"first", "segment"} =>
                   text'[u] \in Seq(Chars) /\ Len(text'[u]) = Len(source'[u])
             /\ pc'[u] = "segment" => Copied(u)'
             /\ pc'[u] = "cleaned" => Len(result'[u]) <= Len(source'[u])
  <2>1. CASE u = t
    <3>1. state = "cleaned" => Len(result'[t]) <= Len(source'[t])
      BY <1>1, <1>2
    <3> QED
      BY <1>1, <1>2, <2>1, <3>1
  <2>2. CASE u # t
    BY <1>1, <1>2, <2>2 DEF CleanInv
  <2> QED
    BY <2>1, <2>2
<1> QED
  BY <1>1, <1>2, <1>3, <1>4 DEF CleanInv

(* strcpy of the first token.                                                  *)
LEMMA FirstSegmentKeeps ==
    ASSUME CleanInv, NEW t \in Threads, FirstSegment(t)
    PROVE  CleanInv'
<1> DEFINE token == Token(<<t, 1>>, {BACKSLASH})
<1>1. /\ Busy(t) /\ Goto(t, "segment") /\ Cut(<<t, 1>>, token)
      /\ result' = [result EXCEPT ![t] = token.string] /\ source' = source
      /\ text[t] \in Seq(Chars) /\ Len(text[t]) = Len(source[t]) /\ Len(text[t]) \in Nat
      /\ DOMAIN text = Threads /\ DOMAIN result = Threads
  BY DEF FirstSegment, CleanInv, Busy
<1>2. 1 \in 1 .. Len(text[t]) + 1
  BY <1>1
<1>3. /\ DOMAIN text' = Threads
      /\ text'[t] \in Seq(Chars) /\ Len(text'[t]) = Len(text[t])
      /\ token.cut \in 1 .. Len(text[t]) + 1
      /\ token.next \in 1 .. Len(text[t]) + 1 /\ position' = <<t, token.next>>
      /\ token.next = token.cut + 1 \/ End(text'[t], token.next) = token.next
  BY <1>1, <1>2, CutKeeps
<1>4. token.string \in Seq(Chars) /\ Len(token.string) <= token.cut - 1
  BY <1>1, <1>2, TokenBounds
<1> HIDE DEF token
<1>5. /\ DOMAIN result' = Threads /\ result'[t] = token.string
      /\ \A u \in Threads \ {t} : result'[u] = result[u]
  BY <1>1
<1>6. Len(token.string) \in Nat
  BY <1>4
<1>7. \/ Len(result'[t]) + 2 <= token.next
      \/ Len(result'[t]) <= Len(text'[t]) /\ End(text'[t], token.next) = token.next
  BY <1>1, <1>3, <1>4, <1>5, <1>6
<1>8. Copied(t)'
  BY <1>3, <1>4, <1>5, <1>7 DEF Copied
<1> QED
  BY <1>1, <1>3, <1>5, <1>8, OneAtWork

(* strcat of a token, with the backslash before it or without.                 *)
LEMMA NextSegmentKeeps ==
    ASSUME CleanInv, NEW t \in Threads, NextSegment(t)
    PROVE  CleanInv'
<1>1. /\ Busy(t) /\ source' = source
      /\ text[t] \in Seq(Chars) /\ Len(text[t]) = Len(source[t]) /\ Len(text[t]) \in Nat
      /\ DOMAIN text = Threads /\ DOMAIN result = Threads
      /\ Copied(t)
  BY DEF NextSegment, CleanInv, Busy
<1>2. PICK i \in 1 .. Len(text[t]) + 1 :
          /\ position = <<t, i>>
          /\ \/ Len(result[t]) + 2 <= i
             \/ Len(result[t]) <= Len(text[t]) /\ End(text[t], i) = i
  BY <1>1 DEF Copied
<1> DEFINE token == Token(<<t, i>>, {BACKSLASH})
           copy  == result[t] \o Masked(token.string)
<1>3. /\ Cut(<<t, i>>, token)
      /\ Goto(t, IF token.found THEN "segment" ELSE "cleaned")
      /\ result' = [result EXCEPT ![t] = IF token.found THEN copy ELSE result[t]]
  BY <1>2 DEF NextSegment
<1>4. /\ DOMAIN text' = Threads
      /\ text'[t] \in Seq(Chars) /\ Len(text'[t]) = Len(text[t])
      /\ token.cut \in i .. Len(text[t]) + 1
      /\ token.next \in 1 .. Len(text[t]) + 1 /\ position' = <<t, token.next>>
      /\ token.next = token.cut + 1 \/ End(text'[t], token.next) = token.next
  BY <1>1, <1>3, CutKeeps
<1>5. /\ token.string \in Seq(Chars) /\ Len(token.string) <= token.cut - i
      /\ token.found => i < End(text[t], i)
  BY <1>1, TokenBounds
<1>6. /\ Masked(token.string) \in Seq(Chars)
      /\ Len(Masked(token.string)) <= Len(token.string) + 1
  <2> HIDE DEF token
  <2>1. BACKSLASH \in Chars
    BY DEF Chars
  <2>2. <<BACKSLASH>> \o token.string \in Seq(Chars)
        /\ Len(<<BACKSLASH>> \o token.string) = Len(token.string) + 1
        /\ Len(token.string) \in Nat
    BY <1>5, <2>1
  <2> QED
    BY <1>5, <2>2 DEF Masked
<1>7. /\ DOMAIN result' = Threads
      /\ \A u \in Threads \ {t} : result'[u] = result[u]
      /\ result'[t] = IF token.found THEN copy ELSE result[t]
  BY <1>1, <1>3
<1>8. result[t] \in Seq(Chars) /\ Len(result[t]) \in Nat
  BY <1>1 DEF Copied
<1>9. CASE token.found
  <2>1. Len(result[t]) + 2 <= i
    BY <1>2, <1>5, <1>9
  <2> HIDE DEF token
  <2>2. copy \in Seq(Chars) /\ Len(copy) = Len(result[t]) + Len(Masked(token.string))
    BY <1>6, <1>8
  <2>3. Len(token.string) \in Nat /\ Len(Masked(token.string)) \in Nat
    BY <1>5, <1>6
  <2> HIDE DEF copy
  <2>4. Len(copy) <= token.cut - 1 /\ token.cut \in Nat /\ Len(copy) \in Nat
    <3> DEFINE a == Len(result[t])
               b == Len(Masked(token.string))
               c == Len(token.string)
               cut == token.cut
    <3>1. a \in Nat /\ b \in Nat /\ c \in Nat /\ cut \in Nat /\ i \in Nat
      BY <1>1, <1>4, <1>8, <2>3
    <3>2. a + 2 <= i /\ b <= c + 1 /\ c <= cut - i
      BY <1>5, <1>6, <2>1
    <3>3. Len(copy) = a + b
      BY <2>2
    <3> HIDE DEF a, b, c, cut
    <3>4. Len(copy) <= cut - 1 /\ Len(copy) \in Nat
      BY <3>1, <3>2, <3>3
    <3> QED
      BY <3>1, <3>4 DEF cut
  <2>5. \/ Len(result'[t]) + 2 <= token.next
        \/ Len(result'[t]) <= Len(text'[t]) /\ End(text'[t], token.next) = token.next
    <3>1. result'[t] = copy
      BY <1>7, <1>9
    <3>2. CASE token.next = token.cut + 1
      <4>1. Len(copy) + 2 <= token.next
        BY <2>4, <3>2
      <4> QED
        BY <3>1, <4>1
    <3>3. CASE End(text'[t], token.next) = token.next
      <4>1. Len(copy) <= Len(text[t])
        BY <1>1, <1>4, <2>4
      <4> QED
        BY <1>4, <3>1, <3>3, <4>1
    <3> QED
      BY <1>4, <3>2, <3>3
  <2>6. Copied(t)'
    BY <1>4, <1>7, <1>9, <2>2, <2>5 DEF Copied
  <2> QED
    BY <1>1, <1>3, <1>4, <1>7, <1>9, <2>6, OneAtWork
<1>10. CASE ~token.found
  <2>1. Len(result[t]) <= Len(text[t])
    BY <1>1, <1>2, <1>8
  <2> HIDE DEF token, copy
  <2> QED
    BY <1>1, <1>3, <1>4, <1>7, <1>10, <2>1, OneAtWork
<1> QED
  BY <1>9, <1>10

(* While a header is taken apart no text is.                                   *)
LEMMA ExtractKeeps ==
    ASSUME CleanInv, NEW t \in Threads, FirstLine(t) \/ NextLine(t) \/ CutName(t) \/ Parameter(t)
    PROVE  CleanInv'
<1>1. Busy(t) /\ source' = source
  BY DEF FirstLine, NextLine, ReadLine, CutName, Parameter, Busy
<1>2. DOMAIN text' = Threads /\ DOMAIN result' = Threads
      /\ \A u \in Threads \ {t} : result'[u] = result[u]
  BY DEF FirstLine, NextLine, ReadLine, CutName, Parameter, Cut, CleanInv
<1>3. \E state \in {"line", "name", "parameter", "extracted"} : Goto(t, state)
  <2>1. CASE FirstLine(t) \/ NextLine(t)
    <3>1. PICK p : ReadLine(t, p)
      BY <2>1 DEF FirstLine, NextLine
    <3> QED
      BY <3>1 DEF ReadLine
  <2>2. CASE CutName(t)
    BY <2>2 DEF CutName
  <2>3. CASE Parameter(t)
    BY <2>3 DEF Parameter
  <2> QED
    BY <2>1, <2>2, <2>3
<1> QED
  BY <1>1, <1>2, <1>3, OneAtWork

(* With one thread at a time, this holds throughout.                           *)
LEMMA CleanInvariant == ASSUME Serial PROVE Spec => []CleanInv
<1>1. Init => CleanInv
  BY DEF Init, CleanInv, Busy
<1>2. CleanInv /\ [Next]_vars => CleanInv'
  <2> SUFFICES ASSUME CleanInv, [Next]_vars PROVE CleanInv'
    OBVIOUS
  <2>1. ASSUME NEW t \in Threads, NEW s \in Texts, Clean(t, s) PROVE CleanInv'
    BY <2>1, BeginKeeps, TextsOfChars DEF Clean
  <2>2. ASSUME NEW t \in Threads, NEW s \in Headers, Extract(t, s) PROVE CleanInv'
    BY <2>2, BeginKeeps, TextsOfChars DEF Extract
  <2>3. CASE UNCHANGED vars
    BY <2>3 DEF vars, CleanInv, Busy, Copied
  <2> QED
    BY <2>1, <2>2, <2>3, FirstSegmentKeeps, NextSegmentKeeps, ExtractKeeps DEF Next, Done
<1> QED
  BY <1>1, <1>2, PTL DEF Spec

(* No text that is cleaned ever outgrows its buffer, whatever it is and        *)
(* wherever its backslashes are, as long as strtok serves one thread at a time.*)
THEOREM CleanedTextFits == ASSUME Serial PROVE Spec => []CleanedFits
<1>1. CleanInv => CleanedFits
  <2> SUFFICES ASSUME CleanInv, NEW t \in Threads, pc[t] \in {"segment", "cleaned"}
               PROVE  Len(result[t]) <= Len(source[t])
    BY DEF CleanedFits
  <2>1. CASE pc[t] = "segment"
    <3>1. /\ text[t] \in Seq(Chars) /\ Len(text[t]) = Len(source[t])
          /\ Copied(t)
      BY <2>1 DEF CleanInv
    <3>2. Len(result[t]) \in Nat /\ Len(text[t]) \in Nat
      BY <3>1 DEF Copied
    <3> QED
      BY <3>1, <3>2 DEF Copied
  <2>2. CASE pc[t] = "cleaned"
    BY <2>2 DEF CleanInv
  <2> QED
    BY <2>1, <2>2
<1> QED
  BY <1>1, CleanInvariant, PTL

--------------------------------------------------------------------------------
(* The cookie                                                                  *)

(* From i on the text is what it was.                                          *)
Untouched(t, i) == \A j \in i .. Len(source[t]) : text[t][j] = source[t][j]

(* No line before i sets a cookie.                                             *)
NoCookieBefore(s, i) == \A j \in CookieLines(s) : i <= j

(* Where strtok is between two lines: at the beginning of one, or at the end.  *)
AtLine(t, i) ==
    /\ i \in 1 .. Len(source[t]) + 1
    /\ i = 1 \/ i = Len(source[t]) + 1 \/ source[t][i - 1] = NEWLINE
    /\ NoCookieBefore(source[t], i) /\ Untouched(t, i)

(* The first line that sets a cookie: it begins at i, its end is cut off, and  *)
(* from k on it is what it was.                                                *)
InCookieLine(t, i, k) ==
    /\ i \in CookieLines(source[t]) /\ NoCookieBefore(source[t], i)
    /\ \E end \in i + 2 .. Len(source[t]) + 1 :
          /\ end = Len(source[t]) + 1 \/ (source[t][end] = NEWLINE /\ text[t][end] = NUL)
          /\ \A j \in i .. end - 1 : source[t][j] # NEWLINE
          /\ \A j \in k .. end - 1 : text[t][j] = source[t][j]

CookieInv ==
    /\ DOMAIN line = Threads
    /\ \A t \in Threads :
          /\ pc[t] \in {"header", "line", "name", "parameter"} =>
                /\ result[t] = <<>>
                /\ text[t] \in Seq(Chars) /\ source[t] \in Seq(Chars)
                /\ Len(text[t]) = Len(source[t])
                /\ \A j \in 1 .. Len(source[t]) : source[t][j] # NUL
          /\ pc[t] = "header" => text[t] = source[t]
          /\ pc[t] = "line" => \E i \in Nat : position = <<t, i>> /\ AtLine(t, i)
          /\ pc[t] = "name" => \E i \in Nat : line[t] = <<t, i>> /\ InCookieLine(t, i, i)
          /\ pc[t] = "parameter" =>
                \E i \in Nat : position = <<t, i + 2>> /\ InCookieLine(t, i, i + 2)
          /\ pc[t] = "extracted" => result[t] = Cookie(source[t])

(* Where a line begins that sets a cookie.                                     *)
LEMMA CookieLineIs ==
    ASSUME NEW s \in Seq(Chars), NEW i
    PROVE  i \in CookieLines(s) <=>
              /\ i \in 1 .. Len(s) /\ (i = 1 \/ s[i - 1] = NEWLINE)
              /\ i < Len(s) /\ s[i] = SETCOOKIE /\ s[i + 1] = ":"
<1>1. DOMAIN s = 1 .. Len(s) /\ Len(s) \in Nat
  OBVIOUS
<1>2. ASSUME i \in 1 .. Len(s)
      PROVE  StartsCookie(SubSeq(s, i, Len(s))) <=> i < Len(s) /\ s[i] = SETCOOKIE /\ s[i + 1] = ":"
  <2> DEFINE r == SubSeq(s, i, Len(s))
  <2>1. Len(r) = Len(s) - i + 1 /\ r[1] = s[i] /\ (i < Len(s) => r[2] = s[i + 1])
    BY <1>1, <1>2
  <2> HIDE DEF r
  <2> QED
    BY <1>1, <1>2, <2>1 DEF StartsCookie
<1> QED
  BY <1>1, <1>2 DEF CookieLines

(* A step of the thread that is at work keeps what holds of the others.        *)
LEMMA OneAtHeader ==
    ASSUME CleanInv, CookieInv, NEW t \in Threads, Busy(t), NEW state, Goto(t, state),
           source' = source, \A u \in Threads \ {t} : result'[u] = result[u],
           DOMAIN line' = Threads,
           state \notin {"idle", "header"},
           state \in {"line", "name", "parameter"} =>
                /\ result'[t] = <<>>
                /\ text'[t] \in Seq(Chars) /\ source[t] \in Seq(Chars)
                /\ Len(text'[t]) = Len(source[t])
                /\ \A j \in 1 .. Len(source[t]) : source[t][j] # NUL,
           state = "line" => \E i \in Nat : position' = <<t, i>> /\ AtLine(t, i)',
           state = "name" => \E i \in Nat : line'[t] = <<t, i>> /\ InCookieLine(t, i, i)',
           state = "parameter" =>
               \E i \in Nat : position' = <<t, i + 2>> /\ InCookieLine(t, i, i + 2)',
           state = "extracted" => result'[t] = Cookie(source[t])
    PROVE  CookieInv'
<1>1. DOMAIN pc' = Threads /\ pc'[t] = state /\ \A u \in Threads \ {t} : pc'[u] = pc[u]
  BY DEF CleanInv, Goto
<1>2. \A u \in Threads \ {t} : pc'[u] \in {"idle", "cleaned", "extracted"}
  BY <1>1 DEF CleanInv, Busy
<1>3. ASSUME NEW u \in Threads
      PROVE  /\ pc'[u] \in {"header", "line", "name", "parameter"} =>
                   /\ result'[u] = <<>>
                   /\ text'[u] \in Seq(Chars) /\ source'[u] \in Seq(Chars)
                   /\ Len(text'[u]) = Len(source'[u])
                   /\ \A j \in 1 .. Len(source'[u]) : source'[u][j] # NUL
             /\ pc'[u] = "header" => text'[u] = source'[u]
             /\ pc'[u] = "line" => \E i \in Nat : position' = <<u, i>> /\ AtLine(u, i)'
             /\ pc'[u] = "name" => \E i \in Nat : line'[u] = <<u, i>> /\ InCookieLine(u, i, i)'
             /\ pc'[u] = "parameter" =>
                   \E i \in Nat : position' = <<u, i + 2>> /\ InCookieLine(u, i, i + 2)'
             /\ pc'[u] = "extracted" => result'[u] = Cookie(source'[u])
  <2>1. CASE u = t
    BY <1>1, <2>1
  <2>2. CASE u # t
    <3>1. pc'[u] = "extracted" => result'[u] = Cookie(source'[u])
      BY <1>1, <2>2 DEF CookieInv
    <3> QED
      BY <1>2, <2>2, <3>1
  <2> QED
    BY <2>1, <2>2
<1> QED
  BY <1>3 DEF CookieInv

(* From the beginning of a line to the next line: a line that sets a cookie is  *)
(* not passed over.                                                            *)
LEMMA LineRead ==
    ASSUME NEW s \in Seq(Chars), NEW x \in Seq(Chars), Len(x) = Len(s),
           NEW p \in 1 .. Len(s) + 1, p = 1 \/ p = Len(s) + 1 \/ s[p - 1] = NEWLINE,
           NoCookieBefore(s, p), \A j \in p .. Len(s) : x[j] = s[j],
           NEW begin, NEW stop, Segment(x, p, Len(s) + 1, {NEWLINE}, begin, stop)
    PROVE  /\ begin = Len(s) + 1 => CookieLines(s) = {}
           /\ begin # Len(s) + 1 /\ StartsCookie(SubSeq(x, begin, stop - 1)) =>
                 begin \in CookieLines(s) /\ NoCookieBefore(s, begin) /\ begin + 2 <= stop
           /\ begin # Len(s) + 1 /\ ~StartsCookie(SubSeq(x, begin, stop - 1)) =>
                 NoCookieBefore(s, IF stop < Len(s) + 1 THEN stop + 1 ELSE Len(s) + 1)
<1> DEFINE len == Len(s)
<1>1. len \in Nat /\ begin \in p .. len + 1 /\ stop \in begin .. len + 1
  BY DEF Segment
<1>2. /\ \A j \in p .. begin - 1 : x[j] = NEWLINE
      /\ \A j \in begin .. stop - 1 : x[j] # NEWLINE
      /\ begin < len + 1 => begin < stop
      /\ stop < len + 1 => x[stop] = NEWLINE
  BY DEF Segment
<1>3. \A j \in CookieLines(s) :
          /\ j \in 1 .. len /\ (j = 1 \/ s[j - 1] = NEWLINE)
          /\ j < len /\ s[j] = SETCOOKIE /\ s[j + 1] = ":"
          /\ p <= j
  BY CookieLineIs DEF NoCookieBefore
<1>4. SETCOOKIE # NEWLINE /\ ":" # NEWLINE
  BY DEF SETCOOKIE, NEWLINE
<1> HIDE DEF len
<1>5. /\ \A j \in p .. begin - 1 : s[j] = NEWLINE
      /\ \A j \in begin .. stop - 1 : s[j] # NEWLINE /\ x[j] = s[j]
  <2>1. \A j \in p .. begin - 1 : s[j] = x[j]
    BY <1>1 DEF len
  <2>2. \A j \in begin .. stop - 1 : s[j] = x[j]
    BY <1>1 DEF len
  <2> QED
    BY <1>2, <2>1, <2>2
<1>6. \A j \in CookieLines(s) : begin <= j
  BY <1>1, <1>3, <1>4, <1>5
<1>7. ASSUME begin = len + 1 PROVE CookieLines(s) = {}
  BY <1>1, <1>3, <1>6, <1>7
<1>8. ASSUME begin # len + 1
      PROVE  /\ begin \in 1 .. len /\ begin < stop
             /\ StartsCookie(SubSeq(x, begin, stop - 1)) <=>
                   begin + 1 < stop /\ s[begin] = SETCOOKIE /\ s[begin + 1] = ":"
  <2>1. begin \in 1 .. len /\ begin < stop /\ stop - 1 \in begin .. len
    BY <1>1, <1>2, <1>8
  <2>2. s[begin] = x[begin] /\ (begin + 1 < stop => s[begin + 1] = x[begin + 1])
    BY <1>1, <1>5, <2>1
  <2>3. /\ Len(SubSeq(x, begin, stop - 1)) = stop - begin
        /\ SubSeq(x, begin, stop - 1)[1] = x[begin]
        /\ begin + 1 < stop => SubSeq(x, begin, stop - 1)[2] = x[begin + 1]
    BY <1>1, <2>1 DEF len
  <2> QED
    BY <1>1, <2>1, <2>2, <2>3 DEF StartsCookie
<1>9. ASSUME begin # len + 1, StartsCookie(SubSeq(x, begin, stop - 1))
      PROVE  begin \in CookieLines(s) /\ NoCookieBefore(s, begin) /\ begin + 2 <= stop
  <2>1. /\ begin \in 1 .. len /\ begin + 1 < stop
        /\ s[begin] = SETCOOKIE /\ s[begin + 1] = ":"
    BY <1>8, <1>9
  <2>2. begin = 1 \/ s[begin - 1] = NEWLINE
    BY <1>1, <1>5, <2>1 DEF len
  <2>3. begin \in CookieLines(s)
    BY <1>1, <2>1, <2>2, CookieLineIs DEF len
  <2> QED
    BY <1>1, <1>6, <2>1, <2>3 DEF NoCookieBefore
<1>10. ASSUME begin # len + 1, ~StartsCookie(SubSeq(x, begin, stop - 1)), NEW j \in CookieLines(s)
       PROVE  stop < j
  <2>1. /\ begin \in 1 .. len /\ begin < stop
        /\ ~(begin + 1 < stop /\ s[begin] = SETCOOKIE /\ s[begin + 1] = ":")
    BY <1>8, <1>10
  <2>2. /\ j \in begin .. len /\ (j = 1 \/ s[j - 1] = NEWLINE)
        /\ j < len /\ s[j] = SETCOOKIE /\ s[j + 1] = ":"
    BY <1>1, <1>3, <1>6
  <2>3. j # begin
    <3> SUFFICES ASSUME j = begin PROVE FALSE
      OBVIOUS
    <3>1. stop = begin + 1 /\ stop < len + 1
      BY <1>1, <2>1, <2>2
    <3>2. s[stop] = NEWLINE
      BY <1>1, <1>2, <3>1 DEF len
    <3> QED
      BY <1>4, <2>2, <3>1, <3>2
  <2>4. j # 1 /\ j - 1 \in begin .. len
    BY <1>1, <2>1, <2>2, <2>3
  <2>5. ~(j - 1 <= stop - 1)
    BY <1>1, <1>5, <2>2, <2>4
  <2> QED
    BY <1>1, <2>2, <2>4, <2>5
<1>11. ASSUME begin # len + 1, ~StartsCookie(SubSeq(x, begin, stop - 1))
       PROVE  NoCookieBefore(s, IF stop < len + 1 THEN stop + 1 ELSE len + 1)
  <2>1. \A j \in CookieLines(s) : stop < j /\ j \in 1 .. len
    BY <1>3, <1>10, <1>11
  <2> QED
    BY <1>1, <2>1 DEF NoCookieBefore
<1> QED
  BY <1>7, <1>9, <1>11 DEF len

(* What is found in the first line that sets a cookie is the cookie.           *)
LEMMA CookieIs ==
    ASSUME NEW s \in Seq(Chars), NEW i \in CookieLines(s), NoCookieBefore(s, i),
           NEW end \in i + 2 .. Len(s) + 1, end = Len(s) + 1 \/ s[end] = NEWLINE,
           \A j \in i .. end - 1 : s[j] # NEWLINE,
           NEW begin, NEW stop, Segment(s, i + 2, end, {SEMICOLON, BLANK}, begin, stop)
    PROVE  Cookie(s) = SubSeq(s, begin, stop - 1)
<1> DEFINE B == {j \in i + 2 .. Len(s) : s[j] \notin {SEMICOLON, BLANK}} \cup {Len(s) + 1}
           E == {j \in begin .. Len(s) : s[j] \in {SEMICOLON, BLANK, NEWLINE}} \cup {Len(s) + 1}
<1>0. Len(s) \in Nat /\ i \in 1 .. Len(s)
  BY CookieLineIs
<1>1. /\ Len(s) \in Nat /\ i \in 1 .. Len(s) /\ end \in i + 2 .. Len(s) + 1
      /\ begin \in i + 2 .. end /\ stop \in begin .. end
  BY <1>0 DEF Segment
<1>2. /\ \A j \in i + 2 .. begin - 1 : s[j] \in {SEMICOLON, BLANK}
      /\ \A j \in begin .. stop - 1 : s[j] \notin {SEMICOLON, BLANK}
      /\ begin < end => begin < stop
      /\ stop < end => s[stop] \in {SEMICOLON, BLANK}
  BY DEF Segment
<1>3. NEWLINE \notin {SEMICOLON, BLANK}
  BY Zenon DEF NEWLINE, SEMICOLON, BLANK
<1>4. Min(CookieLines(s)) = i
  <2>1. CookieLines(s) \subseteq Nat
    BY CookieLineIs
  <2> QED
    BY <2>1, MinIs DEF NoCookieBefore
<1>5. Min(B) = begin
  <2>1. begin \in B
    <3>1. begin < end => s[begin] \notin {SEMICOLON, BLANK}
      BY <1>1, <1>2
    <3> QED
      BY <1>1, <1>3, <3>1
  <2>2. \A k \in B : begin <= k
    BY <1>1, <1>2
  <2>3. B \subseteq Nat
    BY <1>1
  <2> HIDE DEF B
  <2> QED
    BY <2>1, <2>2, <2>3, MinIs
<1>6. Min(E) = stop
  <2>1. stop \in E
    BY <1>1, <1>2
  <2>2. \A k \in E : stop <= k
    <3> TAKE k \in E
    <3>1. \A j \in begin .. stop - 1 : s[j] \notin {SEMICOLON, BLANK, NEWLINE}
      BY <1>1, <1>2
    <3> QED
      BY <1>1, <3>1
  <2>3. E \subseteq Nat
    BY <1>1
  <2> HIDE DEF E
  <2> QED
    BY <2>1, <2>2, <2>3, MinIs
<1>7. CookieLines(s) # {}
  OBVIOUS
<1> QED
  BY <1>4, <1>5, <1>6, <1>7 DEF Cookie


(* strtok from one line to the next: the first line that sets a cookie is not  *)
(* passed over.                                                                *)
LEMMA ReadLineKeeps ==
    ASSUME CleanInv, CookieInv, NEW t \in Threads, pc[t] \in {"header", "line"},
           NEW p \in Nat, AtLine(t, p), ReadLine(t, <<t, p>>)
    PROVE  CookieInv'
<1>1. PICK s, x, token : s = source[t] /\ x = text[t] /\ token = Token(<<t, p>>, {NEWLINE})
  OBVIOUS
<1>2. /\ Busy(t) /\ source' = source /\ result' = result /\ result[t] = <<>>
      /\ x \in Seq(Chars) /\ s \in Seq(Chars) /\ Len(s) \in Nat /\ Len(x) = Len(s)
      /\ \A j \in 1 .. Len(s) : s[j] # NUL
      /\ DOMAIN text = Threads /\ DOMAIN line = Threads
  BY <1>1 DEF CleanInv, CookieInv, ReadLine, Busy
<1>3. /\ p \in 1 .. Len(s) + 1
      /\ p = 1 \/ p = Len(s) + 1 \/ s[p - 1] = NEWLINE
      /\ NoCookieBefore(s, p)
      /\ \A j \in p .. Len(s) : x[j] = s[j]
  BY <1>1 DEF AtLine, Untouched
<1>4. /\ Cut(<<t, p>>, token)
      /\ line' = [line EXCEPT ![t] = token.at]
      /\ Goto(t, IF ~token.found THEN "extracted"
                 ELSE IF StartsCookie(token.string) THEN "name" ELSE "line")
  BY <1>1 DEF ReadLine
<1>5. End(x, p) = Len(s) + 1
  <2>1. \A j \in p .. Len(s) : x[j] # NUL
    BY <1>2, <1>3
  <2>2. p \in 1 .. Len(x) + 1 /\ Len(s) + 1 \in p .. Len(x) + 1
    BY <1>2, <1>3
  <2> QED
    BY <1>2, <2>1, <2>2, EndIs
<1>6. PICK begin, stop \in Nat :
          /\ Segment(x, p, Len(s) + 1, {NEWLINE}, begin, stop)
          /\ token = TokenOf(t, x, begin, stop, Len(s) + 1)
  BY <1>1, <1>2, <1>3, <1>5, TokenIs
<1>7. /\ token.found = (begin < Len(s) + 1)
      /\ token.string = SubSeq(x, begin, stop - 1) /\ token.at = <<t, begin>>
      /\ token.cut = stop /\ token.next = IF stop < Len(s) + 1 THEN stop + 1 ELSE Len(s) + 1
  BY <1>6 DEF TokenOf
<1>8. PICK next : next = IF stop < Len(s) + 1 THEN stop + 1 ELSE Len(s) + 1
  OBVIOUS
<1>9. /\ position' = <<t, next>> /\ text'[t] \in Seq(Chars) /\ Len(text'[t]) = Len(s)
      /\ \A j \in 1 .. Len(s) : text'[t][j] = IF j = stop THEN NUL ELSE x[j]
  <2>1. token.cut = stop /\ token.next = next /\ <<t, p>> \in {t} \X Nat
    BY <1>7, <1>8
  <2>2. /\ position' = <<t, token.next>>
        /\ text'[t] \in Seq(Chars) /\ Len(text'[t]) = Len(text[t])
        /\ \A j \in 1 .. Len(text[t]) :
              text'[t][j] = IF j = token.cut THEN NUL ELSE text[t][j]
    <3>1. text[t] \in Seq(Chars) /\ DOMAIN text = Threads
      BY <1>1, <1>2
    <3> QED
      BY <1>4, <2>1, <3>1, CutChanges
  <2> QED
    BY <1>1, <1>2, <2>1, <2>2
<1>10. DOMAIN line' = Threads /\ line'[t] = <<t, begin>>
  BY <1>2, <1>4, <1>7
<1>11. /\ begin = Len(s) + 1 => CookieLines(s) = {}
       /\ begin # Len(s) + 1 /\ StartsCookie(token.string) =>
             begin \in CookieLines(s) /\ NoCookieBefore(s, begin) /\ begin + 2 <= stop
       /\ begin # Len(s) + 1 /\ ~StartsCookie(token.string) => NoCookieBefore(s, next)
  <2>1. /\ begin = Len(s) + 1 => CookieLines(s) = {}
        /\ begin # Len(s) + 1 /\ StartsCookie(SubSeq(x, begin, stop - 1)) =>
              begin \in CookieLines(s) /\ NoCookieBefore(s, begin) /\ begin + 2 <= stop
        /\ begin # Len(s) + 1 /\ ~StartsCookie(SubSeq(x, begin, stop - 1)) =>
              NoCookieBefore(s, IF stop < Len(s) + 1 THEN stop + 1 ELSE Len(s) + 1)
    BY <1>2, <1>3, <1>6, LineRead
  <2> QED
    BY <1>7, <1>8, <2>1
<1>12. /\ begin \in p .. Len(s) + 1 /\ stop \in begin .. Len(s) + 1
       /\ begin < Len(s) + 1 => begin < stop
       /\ \A j \in begin .. stop - 1 : s[j] # NEWLINE /\ x[j] = s[j]
       /\ stop < Len(s) + 1 => s[stop] = NEWLINE
  <2>1. begin \in p .. Len(s) + 1 /\ stop \in begin .. Len(s) + 1
    BY <1>6 DEF Segment
  <2>2. /\ begin < Len(s) + 1 => begin < stop
        /\ \A j \in begin .. stop - 1 : x[j] # NEWLINE
        /\ stop < Len(s) + 1 => x[stop] = NEWLINE
    BY <1>6 DEF Segment
  <2>3. \A j \in begin .. stop - 1 : x[j] = s[j]
    BY <1>2, <1>3, <2>1
  <2>4. stop < Len(s) + 1 => x[stop] = s[stop]
    BY <1>2, <1>3, <2>1
  <2> QED
    BY <2>1, <2>2, <2>3, <2>4
<1>13. source'[t] = s
  BY <1>1, <1>2
<1>14. CASE begin = Len(s) + 1
  <2>1. Cookie(s) = <<>>
    BY <1>11, <1>14 DEF Cookie
  <2>2. ~(begin < Len(s) + 1)
    BY <1>2, <1>14
  <2>3. ~token.found
    BY <1>7, <2>2
  <2>4. Goto(t, "extracted")
    BY <1>4, <2>3
  <2> QED
    BY <1>1, <1>2, <1>10, <2>1, <2>4, OneAtHeader
<1>15. begin # Len(s) + 1 => token.found
  <2>1. begin # Len(s) + 1 => begin < Len(s) + 1
    BY <1>2, <1>3, <1>12
  <2> QED
    BY <1>7, <2>1
<1>16. CASE begin # Len(s) + 1 /\ StartsCookie(token.string)
  <2>1. Goto(t, "name")
    BY <1>4, <1>16, <1>15
  <2>2. InCookieLine(t, begin, begin)'
    <3>1. stop \in begin + 2 .. Len(s) + 1
      BY <1>2, <1>11, <1>12, <1>16
    <3>2. stop = Len(s) + 1 \/ (s[stop] = NEWLINE /\ text'[t][stop] = NUL)
      <4>1. stop # Len(s) + 1 => stop \in 1 .. Len(s) /\ stop < Len(s) + 1
        BY <1>2, <1>3, <1>12, <3>1
      <4> QED
        <5>1. stop # Len(s) + 1 => text'[t][stop] = NUL
          BY <1>9, <4>1
        <5>2. stop # Len(s) + 1 => s[stop] = NEWLINE
          BY <1>12, <4>1
        <5> QED
          BY <5>1, <5>2
    <3>3. \A j \in begin .. stop - 1 : s[j] # NEWLINE
      BY <1>12
    <3>4. \A j \in begin .. stop - 1 : text'[t][j] = s[j]
      BY <1>2, <1>3, <1>9, <1>12
    <3> QED
      BY <1>11, <1>13, <1>16, <3>1, <3>2, <3>3, <3>4 DEF InCookieLine
  <2> QED
    BY <1>1, <1>2, <1>9, <1>10, <2>1, <2>2, OneAtHeader
<1>17. CASE begin # Len(s) + 1 /\ ~StartsCookie(token.string)
  <2>1. Goto(t, "line")
    BY <1>4, <1>17, <1>15
  <2>2. /\ next \in 1 .. Len(s) + 1 /\ next \in Nat
        /\ next = 1 \/ next = Len(s) + 1 \/ s[next - 1] = NEWLINE
    BY <1>2, <1>3, <1>8, <1>12
  <2>3. \A j \in next .. Len(s) : text'[t][j] = s[j]
    <3> TAKE j \in next .. Len(s)
    <3>1. j \in 1 .. Len(s) /\ j # stop /\ p <= j
      BY <1>2, <1>3, <1>8, <1>12, <2>2
    <3> QED
      BY <1>2, <1>3, <1>9, <3>1
  <2>4. AtLine(t, next)'
    BY <1>11, <1>13, <1>17, <2>2, <2>3 DEF AtLine, Untouched
  <2> QED
    BY <1>1, <1>2, <1>9, <1>10, <2>1, <2>2, <2>4, OneAtHeader
<1> QED
  BY <1>14, <1>16, <1>17

(* The second strtok cuts the name off, and stands right behind its colon.     *)
LEMMA CutNameKeeps ==
    ASSUME CleanInv, CookieInv, NEW t \in Threads, CutName(t)
    PROVE  CookieInv'
<1>1. PICK i \in Nat : line[t] = <<t, i>> /\ InCookieLine(t, i, i)
  BY DEF CutName, CookieInv
<1>2. PICK s, x, token : s = source[t] /\ x = text[t] /\ token = Token(<<t, i>>, {":", BLANK})
  OBVIOUS
<1>3. /\ Busy(t) /\ source' = source /\ result' = result /\ result[t] = <<>> /\ line' = line
      /\ x \in Seq(Chars) /\ s \in Seq(Chars) /\ Len(s) \in Nat /\ Len(x) = Len(s)
      /\ \A j \in 1 .. Len(s) : s[j] # NUL
      /\ DOMAIN text = Threads /\ DOMAIN line = Threads
      /\ Goto(t, "parameter") /\ Cut(<<t, i>>, token)
  BY <1>1, <1>2 DEF CleanInv, CookieInv, CutName, Busy
<1>4. /\ i \in CookieLines(s) /\ NoCookieBefore(s, i)
      /\ i \in 1 .. Len(s) /\ i < Len(s) /\ s[i] = SETCOOKIE /\ s[i + 1] = ":"
  BY <1>1, <1>2, <1>3, CookieLineIs DEF InCookieLine
<1>5. PICK end \in i + 2 .. Len(s) + 1 :
          /\ end = Len(s) + 1 \/ (s[end] = NEWLINE /\ x[end] = NUL)
          /\ \A j \in i .. end - 1 : s[j] # NEWLINE
          /\ \A j \in i .. end - 1 : x[j] = s[j]
  BY <1>1, <1>2 DEF InCookieLine
<1>6. End(x, i) = end
  <2>1. \A j \in i .. end - 1 : x[j] # NUL
    BY <1>3, <1>4, <1>5
  <2> QED
    BY <1>3, <1>4, <1>5, <2>1, EndIs, SMTT(30)
<1>7. PICK begin, stop \in Nat :
          /\ Segment(x, i, end, {":", BLANK}, begin, stop)
          /\ token = TokenOf(t, x, begin, stop, end)
  BY <1>2, <1>3, <1>4, <1>6, TokenIs
<1>8. SETCOOKIE \notin {":", BLANK}
  BY Zenon DEF SETCOOKIE, BLANK
<1>9. begin = i /\ stop = i + 1
  <2>1. x[i] = SETCOOKIE /\ x[i + 1] = ":"
    BY <1>4, <1>5
  <2> QED
    BY <1>4, <1>5, <1>7, <1>8, <2>1 DEF Segment
<1>10. token.cut = i + 1 /\ token.next = i + 2
  BY <1>4, <1>5, <1>7, <1>9 DEF TokenOf
<1>11. /\ position' = <<t, i + 2>> /\ text'[t] \in Seq(Chars) /\ Len(text'[t]) = Len(s)
       /\ \A j \in 1 .. Len(s) : text'[t][j] = IF j = i + 1 THEN NUL ELSE x[j]
  BY <1>2, <1>3, <1>10, CutChanges
<1>12. InCookieLine(t, i, i + 2)'
  <2>1. source'[t] = s
    BY <1>2, <1>3
  <2>2. end = Len(s) + 1 \/ (s[end] = NEWLINE /\ text'[t][end] = NUL)
    <3>1. Len(s) \in Nat
      BY <1>3
    <3>2. end # Len(s) + 1 => end \in 1 .. Len(s) /\ end # i + 1
      BY <3>1
    <3>3. end # Len(s) + 1 => x[end] = NUL /\ s[end] = NEWLINE
      BY <1>5
    <3>4. end # Len(s) + 1 => text'[t][end] = x[end]
      BY <1>11, <3>2
    <3> QED
      BY <3>3, <3>4
  <2>3. \A j \in i + 2 .. end - 1 : text'[t][j] = s[j]
    BY <1>3, <1>4, <1>5, <1>11
  <2> QED
    BY <1>4, <1>5, <2>1, <2>2, <2>3 DEF InCookieLine
<1> QED
  BY <1>2, <1>3, <1>11, <1>12, OneAtHeader

(* The third finds the cookie.                                                 *)
LEMMA ParameterKeeps ==
    ASSUME CleanInv, CookieInv, NEW t \in Threads, Parameter(t)
    PROVE  CookieInv'
<1>1. PICK i \in Nat : position = <<t, i + 2>> /\ InCookieLine(t, i, i + 2)
  BY DEF Parameter, CookieInv
<1>2. PICK s, x, D, token : /\ s = source[t] /\ x = text[t] /\ D = {SEMICOLON, BLANK}
                            /\ token = Token(<<t, i + 2>>, D)
  OBVIOUS
<1>3. /\ Busy(t) /\ source' = source /\ line' = line
      /\ x \in Seq(Chars) /\ s \in Seq(Chars) /\ Len(s) \in Nat /\ Len(x) = Len(s)
      /\ \A j \in 1 .. Len(s) : s[j] # NUL
      /\ DOMAIN text = Threads /\ DOMAIN line = Threads /\ DOMAIN result = Threads
      /\ Goto(t, "extracted") /\ result' = [result EXCEPT ![t] = token.string]
  BY <1>1, <1>2 DEF CleanInv, CookieInv, Parameter, Busy
<1>4. i \in CookieLines(s) /\ NoCookieBefore(s, i) /\ i \in 1 .. Len(s) /\ i < Len(s)
  BY <1>1, <1>2, <1>3, CookieLineIs DEF InCookieLine
<1>5. PICK end \in i + 2 .. Len(s) + 1 :
          /\ end = Len(s) + 1 \/ (s[end] = NEWLINE /\ x[end] = NUL)
          /\ \A j \in i .. end - 1 : s[j] # NEWLINE
          /\ \A j \in i + 2 .. end - 1 : x[j] = s[j]
  BY <1>1, <1>2 DEF InCookieLine
<1>6. i + 2 \in 1 .. Len(x) + 1 /\ end \in i + 2 .. Len(x) + 1
  BY <1>3, <1>4, <1>5
<1>7. End(x, i + 2) = end
  <2>1. \A j \in i + 2 .. end - 1 : x[j] # NUL
    BY <1>3, <1>4, <1>5
  <2> QED
    BY <1>3, <1>5, <1>6, <2>1, EndIs
<1>8. PICK begin, stop \in Nat :
          /\ Segment(x, i + 2, end, D, begin, stop)
          /\ token = TokenOf(t, x, begin, stop, end)
  BY <1>2, <1>3, <1>6, <1>7, TokenIs
<1>9. begin \in i + 2 .. end /\ stop \in begin .. end
  BY <1>8 DEF Segment
<1>10. Segment(s, i + 2, end, D, begin, stop)
  <2>1. \A j \in i + 2 .. end - 1 : x[j] = s[j]
    BY <1>5
  <2>2. stop < end => x[stop] = s[stop]
    BY <1>5, <1>9
  <2>3. \A j \in i + 2 .. begin - 1 : s[j] \in D
    BY <1>4, <1>8, <1>9, <2>1 DEF Segment
  <2>4. \A j \in begin .. stop - 1 : s[j] \notin D
    BY <1>4, <1>8, <1>9, <2>1 DEF Segment
  <2> QED
    BY <1>8, <1>9, <2>2, <2>3, <2>4 DEF Segment
<1>11. Cookie(s) = SubSeq(s, begin, stop - 1)
  <2>1. D = {SEMICOLON, BLANK}
    BY <1>2
  <2>2. Segment(s, i + 2, end, {SEMICOLON, BLANK}, begin, stop)
    BY <1>10, <2>1
  <2> HIDE <2>1
  <2> QED
    BY <1>3, <1>4, <1>5, <2>2, CookieIs
<1>12. SubSeq(x, begin, stop - 1) = SubSeq(s, begin, stop - 1)
  <2>1. \A j \in begin .. stop - 1 : x[j] = s[j] /\ j \in 1 .. Len(s)
    BY <1>4, <1>5, <1>9
  <2>2. begin \in 1 .. Len(s) + 1 /\ stop - 1 \in begin - 1 .. Len(s)
    BY <1>3, <1>4, <1>5, <1>9
  <2> QED
    BY <1>3, <2>1, <2>2, SMTT(30)
<1>13. result'[t] = Cookie(source[t]) /\ \A u \in Threads \ {t} : result'[u] = result[u]
  <2>1. token.string = SubSeq(x, begin, stop - 1)
    BY <1>8 DEF TokenOf
  <2>2. result'[t] = token.string /\ \A u \in Threads \ {t} : result'[u] = result[u]
    BY <1>3
  <2> QED
    BY <1>2, <1>11, <1>12, <2>1, <2>2
<1> QED
  BY <1>3, <1>13, OneAtHeader

(* What a thread begins with.                                                  *)
LEMMA BeginKeepsCookie ==
    ASSUME Serial, CleanInv, CookieInv, NEW t \in Threads, NEW s \in Texts \cup Headers,
           Clean(t, s) \/ Extract(t, s)
    PROVE  CookieInv'
<1>1. PICK state : /\ Begin(t, state, s) /\ state \in {"first", "cleaned", "header", "extracted"}
                   /\ state = "extracted" => s = <<>>
  <2>1. CASE Clean(t, s)
    BY <2>1 DEF Clean
  <2>2. CASE Extract(t, s)
    BY <2>2 DEF Extract
  <2> QED
    BY <2>1, <2>2
<1>2. s \in Seq(Chars) /\ \A i \in 1 .. Len(s) : s[i] # NUL
  BY TextsOfChars
<1>3. /\ pc[t] = "idle" /\ result' = result /\ result[t] = <<>> /\ line' = line
      /\ \A u \in Threads : pc[u] \in {"idle", "cleaned", "extracted"}
  BY <1>1 DEF Begin, CleanInv
<1>4. /\ pc'[t] = state /\ \A u \in Threads \ {t} : pc'[u] = pc[u]
      /\ text'[t] = s /\ source'[t] = s
      /\ \A u \in Threads \ {t} : source'[u] = source[u]
  BY <1>1 DEF Begin, Goto, CleanInv
<1>5. s = <<>> => Cookie(s) = <<>>
  <2>1. CookieLines(<<>>) = {}
    BY DEF CookieLines
  <2> QED
    BY <2>1 DEF Cookie
<1>6. ASSUME NEW u \in Threads
      PROVE  /\ pc'[u] \in {"header", "line", "name", "parameter"} =>
                   /\ result'[u] = <<>>
                   /\ text'[u] \in Seq(Chars) /\ source'[u] \in Seq(Chars)
                   /\ Len(text'[u]) = Len(source'[u])
                   /\ \A j \in 1 .. Len(source'[u]) : source'[u][j] # NUL
             /\ pc'[u] = "header" => text'[u] = source'[u]
             /\ pc'[u] \notin {"line", "name", "parameter"}
             /\ pc'[u] = "extracted" => result'[u] = Cookie(source'[u])
  <2>1. CASE u = t
    BY <1>1, <1>2, <1>3, <1>4, <1>5, <2>1
  <2>2. CASE u # t
    <3>1. pc'[u] = "extracted" => result'[u] = Cookie(source'[u])
      BY <1>3, <1>4, <2>2 DEF CookieInv
    <3>2. pc'[u] \in {"idle", "cleaned", "extracted"}
      BY <1>3, <1>4, <2>2
    <3> QED
      BY <3>1, <3>2
  <2> QED
    BY <2>1, <2>2
<1>7. DOMAIN line' = Threads
  BY <1>3 DEF CookieInv
<1> QED
  BY <1>6, <1>7 DEF CookieInv

(* From its first line to its last.                                            *)
LEMMA LinesKeep ==
    ASSUME CleanInv, CookieInv, NEW t \in Threads, FirstLine(t) \/ NextLine(t)
    PROVE  CookieInv'
<1>1. CASE FirstLine(t)
  <2>1. /\ pc[t] = "header" /\ ReadLine(t, <<t, 1>>) /\ text[t] = source[t]
        /\ source[t] \in Seq(Chars) /\ Len(source[t]) \in Nat
    BY <1>1 DEF FirstLine, CookieInv
  <2>2. NoCookieBefore(source[t], 1)
    <3>1. CookieLines(source[t]) \subseteq 1 .. Len(source[t])
      BY <2>1, CookieLineIs
    <3> QED
      BY <2>1, <3>1 DEF NoCookieBefore
  <2>3. AtLine(t, 1)
    BY <2>1, <2>2 DEF AtLine, Untouched
  <2> QED
    BY <2>1, <2>3, ReadLineKeeps
<1>2. CASE NextLine(t)
  <2>1. pc[t] = "line" /\ ReadLine(t, position)
    BY <1>2 DEF NextLine
  <2>2. PICK i \in Nat : position = <<t, i>> /\ AtLine(t, i)
    BY <2>1 DEF CookieInv
  <2> QED
    BY <2>1, <2>2, ReadLineKeeps
<1> QED
  BY <1>1, <1>2

(* While a text is cleaned no header is taken apart.                           *)
LEMMA CleaningKeepsCookie ==
    ASSUME CleanInv, CookieInv, NEW t \in Threads, FirstSegment(t) \/ NextSegment(t)
    PROVE  CookieInv'
<1>1. /\ Busy(t) /\ source' = source /\ line' = line
      /\ \A u \in Threads \ {t} : result'[u] = result[u]
  <2>1. DOMAIN result = Threads
    BY DEF CleanInv
  <2>2. CASE FirstSegment(t)
    BY <2>1, <2>2 DEF FirstSegment, Busy
  <2>3. CASE NextSegment(t)
    BY <2>1, <2>3 DEF NextSegment, Busy
  <2> QED
    BY <2>2, <2>3
<1>2. \E state \in {"segment", "cleaned"} : Goto(t, state)
  BY DEF FirstSegment, NextSegment
<1>3. DOMAIN line' = Threads
  BY <1>1 DEF CookieInv
<1> QED
  BY <1>1, <1>2, <1>3, OneAtHeader

(* Whatever a server sends, of any length and with any lines before it and     *)
(* after it, rest_extract_token returns the cookie of its first Set-Cookie     *)
(* line, as long as strtok serves one thread at a time.                        *)
THEOREM CookieIsFound == ASSUME Serial PROVE Spec => []CookieFound
<1>1. Init => CookieInv
  BY DEF Init, CookieInv
<1>2. CleanInv /\ CookieInv /\ [Next]_vars => CookieInv'
  <2> SUFFICES ASSUME CleanInv, CookieInv, [Next]_vars PROVE CookieInv'
    OBVIOUS
  <2>1. CASE UNCHANGED vars
    <3>1. /\ text' = text /\ source' = source /\ pc' = pc /\ result' = result
          /\ line' = line /\ position' = position
      BY <2>1 DEF vars
    <3>2. \A t, i : AtLine(t, i)' <=> AtLine(t, i)
      BY <3>1 DEF AtLine, Untouched
    <3>3. \A t, i, k : InCookieLine(t, i, k)' <=> InCookieLine(t, i, k)
      BY <3>1 DEF InCookieLine
    <3> QED
      BY <3>1, <3>2, <3>3 DEF CookieInv
  <2> QED
    BY <2>1, BeginKeepsCookie, CleaningKeepsCookie, LinesKeep, CutNameKeeps, ParameterKeeps
       DEF Next, Done
<1>3. CookieInv => CookieFound
  BY DEF CookieInv, CookieFound
<1> QED
  BY <1>1, <1>2, <1>3, CleanInvariant, PTL DEF Spec

--------------------------------------------------------------------------------
(* The cleaned text                                                            *)

(* What is left of a character, and of the first n.                            *)
Kept(s, i)       == IF s[i] = BACKSLASH /\ i < Len(s) /\ s[i + 1] = COMMA THEN <<>> ELSE <<s[i]>>
UnmaskedTo(s, n) == FlattenSeq([i \in 1 .. n |-> Kept(s, i)])

(* Appending is associative, for texts.                                        *)
LEMMA CharsAssociate == \A x, y, z \in Seq(Chars) : (x \o y) \o z = x \o (y \o z)
<1>1. PICK S : S = Chars
  OBVIOUS
<1>2. \A x, y, z \in Seq(S) : (x \o y) \o z = x \o (y \o z)
  BY Associates
<1> QED
  BY <1>1, <1>2

(* One character more appends what is left of it.                              *)
LEMMA UnmaskedStep ==
    ASSUME NEW s \in Seq(Chars), NEW n \in Nat, n < Len(s)
    PROVE  /\ UnmaskedTo(s, n) \in Seq(Chars) /\ Kept(s, n + 1) \in Seq(Chars)
           /\ UnmaskedTo(s, n + 1) = UnmaskedTo(s, n) \o Kept(s, n + 1)
<1> DEFINE g == [i \in 1 .. n + 1 |-> Kept(s, i)]
<1>1. \A i \in 1 .. n + 1 : g[i] = Kept(s, i)
  OBVIOUS
<1>2. \A i \in 1 .. n + 1 : Kept(s, i) \in Seq(Chars)
  <2> TAKE i \in 1 .. n + 1
  <2>1. s[i] \in Chars
    OBVIOUS
  <2>2. <<>> \in Seq(Chars) /\ <<s[i]>> \in Seq(Chars)
    BY <2>1
  <2> QED
    BY <2>2 DEF Kept
<1>3. g = [i \in 1 .. n + 1 |-> g[i]] /\ [i \in 1 .. n |-> Kept(s, i)] = [i \in 1 .. n |-> g[i]]
  OBVIOUS
<1>4. UnmaskedTo(s, n + 1) = FlattenSeq(g)
  BY DEF UnmaskedTo
<1> HIDE DEF g
<1>5. /\ FlattenSeq([i \in 1 .. n |-> g[i]]) \in Seq(Chars)
      /\ FlattenSeq([i \in 1 .. n + 1 |-> g[i]]) = FlattenSeq([i \in 1 .. n |-> g[i]]) \o g[n + 1]
  BY <1>1, <1>2, FlattenSeqNext
<1>6. UnmaskedTo(s, n) = FlattenSeq([i \in 1 .. n |-> g[i]])
  BY <1>3 DEF UnmaskedTo
<1>7. UnmaskedTo(s, n + 1) = FlattenSeq([i \in 1 .. n + 1 |-> g[i]])
  BY <1>3, <1>4
<1>8. g[n + 1] = Kept(s, n + 1) /\ Kept(s, n + 1) \in Seq(Chars)
  BY <1>1, <1>2
<1> QED
  BY <1>5, <1>6, <1>7, <1>8

(* Of nothing, nothing is left.                                                *)
LEMMA UnmaskedNone ==
    ASSUME NEW s
    PROVE  UnmaskedTo(s, 0) = <<>>
<1>1. [i \in 1 .. 0 |-> Kept(s, i)] = <<>>
  OBVIOUS
<1> QED
  BY <1>1, FlattenSeqEmpty DEF UnmaskedTo

(* What is left is a text.                                                     *)
LEMMA UnmaskedType ==
    ASSUME NEW s \in Seq(Chars), NEW n \in 0 .. Len(s)
    PROVE  UnmaskedTo(s, n) \in Seq(Chars)
<1>1. CASE n = 0
  <2>1. <<>> \in Seq(Chars)
    OBVIOUS
  <2> QED
    BY <1>1, <2>1, UnmaskedNone
<1>2. CASE n # 0
  <2>1. PICK m \in Nat : m + 1 = n /\ m < Len(s)
    <3>1. n - 1 \in Nat /\ (n - 1) + 1 = n /\ n - 1 < Len(s)
      BY <1>2
    <3> QED
      BY <3>1
  <2>2. /\ UnmaskedTo(s, m) \in Seq(Chars) /\ Kept(s, m + 1) \in Seq(Chars)
        /\ UnmaskedTo(s, m + 1) = UnmaskedTo(s, m) \o Kept(s, m + 1)
    BY <2>1, UnmaskedStep
  <2>3. UnmaskedTo(s, m) \o Kept(s, m + 1) \in Seq(Chars)
    BY <2>2, ConcatProperties
  <2> QED
    BY <2>1, <2>2, <2>3
<1> QED
  BY <1>1, <1>2

(* Characters that are no backslashes stay.                                    *)
LEMMA UnmaskedRun ==
    ASSUME NEW s \in Seq(Chars), NEW a \in 1 .. Len(s) + 1, NEW b \in a - 1 .. Len(s),
           \A j \in a .. b : s[j] # BACKSLASH
    PROVE  UnmaskedTo(s, b) = UnmaskedTo(s, a - 1) \o SubSeq(s, a, b)
<1> DEFINE U(n) == UnmaskedTo(s, n)
<1>1. PICK c \in Nat : c = a - 1 /\ a = c + 1 /\ Len(s) \in Nat /\ b \in Nat /\ c <= b
  <2>1. a - 1 \in Nat /\ a = (a - 1) + 1 /\ Len(s) \in Nat /\ b \in Nat /\ a - 1 <= b
    OBVIOUS
  <2> QED
    BY <2>1
<1>2. \A n \in 0 .. Len(s) : U(n) \in Seq(Chars)
  BY UnmaskedType
<1> DEFINE R(n) == SubSeq(s, a, n)
<1>3. R(c) = <<>>
  BY <1>1, SubSeqEmpty
<1>4. ASSUME NEW m \in c .. Len(s) - 1
      PROVE  R(m) \in Seq(Chars) /\ R(m + 1) = R(m) \o <<s[m + 1]>>
  <2>1. a \in Int /\ m \in Int /\ \A i \in a .. m : s[i] \in Chars
    BY <1>1
  <2>2. a \in 1 .. Len(s) /\ m + 1 \in a .. Len(s) /\ (m + 1) - 1 = m
    BY <1>1
  <2> QED
    BY <2>1, <2>2, SubSeqProperties, SubSeqRecursiveSecond
<1>5. ASSUME NEW m \in c .. b - 1, U(m) = U(c) \o R(m) PROVE U(m + 1) = U(c) \o R(m + 1)
  <2>1. m \in Nat /\ m < Len(s) /\ m + 1 \in a .. b /\ m \in c .. Len(s) - 1 /\ c \in 0 .. Len(s)
    BY <1>1
  <2>2. Kept(s, m + 1) = <<s[m + 1]>> /\ <<s[m + 1]>> \in Seq(Chars)
    BY <2>1 DEF Kept
  <2>3. U(m + 1) = U(m) \o <<s[m + 1]>>
    BY <2>1, <2>2, UnmaskedStep
  <2>4. U(c) \in Seq(Chars) /\ R(m) \in Seq(Chars) /\ R(m + 1) = R(m) \o <<s[m + 1]>>
    BY <1>2, <1>4, <2>1
  <2> HIDE DEF U, R
  <2>5. (U(c) \o R(m)) \o <<s[m + 1]>> = U(c) \o (R(m) \o <<s[m + 1]>>)
    BY <2>2, <2>4, CharsAssociate, Zenon
  <2> QED
    BY <1>5, <2>3, <2>4, <2>5
<1> DEFINE T == {n \in Nat : c + n <= b => U(c + n) = U(c) \o R(c + n)}
<1> HIDE DEF U, R
<1>6. 0 \in T
  <2>1. U(c) \o <<>> = U(c)
    BY <1>1, <1>2, ConcatEmptySeq
  <2>2. c + 0 = c
    OBVIOUS
  <2>3. U(c + 0) = U(c) \o R(c + 0)
    BY <1>3, <2>1, <2>2
  <2> QED
    BY <2>3
<1>7. ASSUME NEW n \in Nat, n \in T PROVE n + 1 \in T
  <2>1. PICK m \in Nat : m = c + n /\ m + 1 = c + (n + 1)
    BY <1>1
  <2>2. m + 1 <= b => U(m + 1) = U(c) \o R(m + 1)
    BY <1>1, <1>5, <1>7, <2>1, SMTT(30)
  <2> QED
    BY <2>1, <2>2
<1>8. Nat \subseteq T
  <2> HIDE DEF T
  <2> QED
    BY <1>6, <1>7, ByInduction
<1>9. b - c \in Nat /\ b = c + (b - c)
  BY <1>1
<1>10. b - c \in T
  <2> HIDE DEF T
  <2> QED
    BY <1>8, <1>9
<1>11. U(b) = U(c) \o R(b)
  BY <1>9, <1>10
<1> QED
  BY <1>1, <1>11 DEF U, R

(* The first segment of a tame text is what is left of the text up to there.   *)
LEMMA FirstUnmasked ==
    ASSUME NEW s \in Seq(Chars), Tame(s), NEW begin, NEW stop,
           Segment(s, 1, Len(s) + 1, {BACKSLASH}, begin, stop)
    PROVE  UnmaskedTo(s, stop - 1) = SubSeq(s, begin, stop - 1)
<1>1. /\ Len(s) \in Nat /\ begin \in 1 .. Len(s) + 1 /\ stop \in begin .. Len(s) + 1
      /\ \A j \in 1 .. begin - 1 : s[j] = BACKSLASH
      /\ \A j \in begin .. stop - 1 : s[j] # BACKSLASH
  BY DEF Segment
<1>2. COMMA # BACKSLASH
  BY DEF COMMA, BACKSLASH
<1>3. \A i \in 1 .. Len(s) : s[i] = BACKSLASH =>
          i < Len(s) /\ s[i + 1] # BACKSLASH /\ (i = 1 => s[2] = COMMA)
  <2>1. DOMAIN s = 1 .. Len(s)
    OBVIOUS
  <2> QED
    BY <2>1, Zenon DEF Tame
<1>4. begin = 1 \/ begin = 2
  <2> SUFFICES ASSUME begin > 2 PROVE FALSE
    BY <1>1
  <2>1. s[1] = BACKSLASH /\ s[2] = BACKSLASH /\ 1 \in 1 .. Len(s)
    BY <1>1
  <2> QED
    BY <1>2, <1>3, <2>1
<1>5. UnmaskedTo(s, begin - 1) = <<>>
  <2>1. CASE begin = 1
    BY <2>1, UnmaskedNone
  <2>2. CASE begin = 2
    <3>1. 1 \in 1 .. Len(s) /\ s[1] = BACKSLASH
      BY <1>1, <2>2
    <3>2. 0 < Len(s) /\ Kept(s, 1) = <<>>
      BY <1>1, <1>3, <3>1 DEF Kept
    <3>3. UnmaskedTo(s, 0 + 1) = UnmaskedTo(s, 0) \o Kept(s, 0 + 1)
      BY <3>2, UnmaskedStep
    <3>4. <<>> \o <<>> = <<>>
      OBVIOUS
    <3> QED
      BY <2>2, <3>2, <3>3, <3>4, UnmaskedNone
  <2> QED
    BY <1>4, <2>1, <2>2
<1>6. UnmaskedTo(s, stop - 1) = UnmaskedTo(s, begin - 1) \o SubSeq(s, begin, stop - 1)
  <2>1. stop - 1 \in begin - 1 .. Len(s)
    BY <1>1
  <2> QED
    BY <1>1, <2>1, UnmaskedRun
<1>7. SubSeq(s, begin, stop - 1) \in Seq(Chars)
  BY <1>1, SubSeqProperties
<1>8. <<>> \o SubSeq(s, begin, stop - 1) = SubSeq(s, begin, stop - 1)
  BY <1>7, ConcatEmptySeq
<1> QED
  BY <1>5, <1>6, <1>8

(* So is the next one together with what strcat puts before it.                *)
LEMMA NextUnmasked ==
    ASSUME NEW s \in Seq(Chars), NEW i \in 2 .. Len(s), s[i - 1] = BACKSLASH,
           NEW stop \in i + 1 .. Len(s) + 1, \A j \in i .. stop - 1 : s[j] # BACKSLASH
    PROVE  UnmaskedTo(s, i - 2) \o Masked(SubSeq(s, i, stop - 1)) = UnmaskedTo(s, stop - 1)
<1>1. Len(s) \in Nat /\ i \in Nat /\ stop \in Nat
  OBVIOUS
<1>2. PICK string : string = SubSeq(s, i, stop - 1)
  OBVIOUS
<1>3. string \in Seq(Chars) /\ Len(string) = stop - i /\ string[1] = s[i]
  BY <1>1, <1>2, SubSeqProperties
<1>4. Head(string) = s[i]
  BY <1>1, <1>3
<1>5. i - 2 \in Nat /\ i - 2 < Len(s) /\ (i - 2) + 1 = i - 1 /\ (i - 1) + 1 = i /\ i - 1 < Len(s)
  BY <1>1
<1>6. /\ UnmaskedTo(s, i - 2) \in Seq(Chars) /\ Kept(s, i - 1) \in Seq(Chars)
      /\ UnmaskedTo(s, i - 1) = UnmaskedTo(s, i - 2) \o Kept(s, i - 1)
  BY <1>5, UnmaskedStep
<1>7. Kept(s, i - 1) = IF s[i] = COMMA THEN <<>> ELSE <<BACKSLASH>>
  BY <1>5 DEF Kept
<1>8. Masked(string) = Kept(s, i - 1) \o string
  <2>1. <<>> \o string = string
    BY <1>3, ConcatEmptySeq
  <2> QED
    BY <1>4, <1>7, <2>1 DEF Masked
<1>9. UnmaskedTo(s, stop - 1) = UnmaskedTo(s, i - 1) \o string
  <2>1. i \in 1 .. Len(s) + 1 /\ stop - 1 \in i - 1 .. Len(s)
    BY <1>1
  <2> QED
    BY <1>2, <2>1, UnmaskedRun
<1>10. (UnmaskedTo(s, i - 2) \o Kept(s, i - 1)) \o string = UnmaskedTo(s, i - 2) \o (Kept(s, i - 1) \o string)
  BY <1>3, <1>6, CharsAssociate, Zenon
<1> QED
  BY <1>2, <1>6, <1>8, <1>9, <1>10

(* While a tame text is cleaned, what was copied is what is left of the text   *)
(* before the backslash that strtok stands behind, or of the whole text.       *)
AtSegment(t) ==
    \E i \in Nat :
        /\ position = <<t, i>> /\ Untouched(t, i)
        /\ \/ i = Len(source[t]) + 1 /\ result[t] = Unmasked(source[t])
           \/ /\ i \in 2 .. Len(source[t]) /\ source[t][i - 1] = BACKSLASH
              /\ result[t] = UnmaskedTo(source[t], i - 2)

UnmaskInv ==
    \A t \in Threads :
        /\ pc[t] \in {"first", "segment"} =>
              /\ text[t] \in Seq(Chars) /\ source[t] \in Seq(Chars)
              /\ Len(text[t]) = Len(source[t])
              /\ \A j \in 1 .. Len(source[t]) : source[t][j] # NUL
        /\ pc[t] = "first" => text[t] = source[t]
        /\ pc[t] = "segment" /\ Tame(source[t]) => AtSegment(t)
        /\ pc[t] = "cleaned" /\ Tame(source[t]) => result[t] = Unmasked(source[t])

(* A step of the thread that is at work keeps what holds of the others.        *)
LEMMA OneAtText ==
    ASSUME CleanInv, UnmaskInv, NEW t \in Threads, Busy(t), NEW state, Goto(t, state),
           source' = source, \A u \in Threads \ {t} : result'[u] = result[u],
           state # "first",
           state = "segment" =>
              /\ text'[t] \in Seq(Chars) /\ source[t] \in Seq(Chars)
              /\ Len(text'[t]) = Len(source[t])
              /\ \A j \in 1 .. Len(source[t]) : source[t][j] # NUL,
           state = "segment" /\ Tame(source[t]) => AtSegment(t)',
           state = "cleaned" /\ Tame(source[t]) => result'[t] = Unmasked(source[t])
    PROVE  UnmaskInv'
<1>1. DOMAIN pc' = Threads /\ pc'[t] = state /\ \A u \in Threads \ {t} : pc'[u] = pc[u]
  BY DEF CleanInv, Goto
<1>2. \A u \in Threads \ {t} : pc'[u] \in {"idle", "cleaned", "extracted"}
  BY <1>1 DEF CleanInv, Busy
<1>3. ASSUME NEW u \in Threads
      PROVE  /\ pc'[u] \in {"first", "segment"} =>
                /\ text'[u] \in Seq(Chars) /\ source'[u] \in Seq(Chars)
                /\ Len(text'[u]) = Len(source'[u])
                /\ \A j \in 1 .. Len(source'[u]) : source'[u][j] # NUL
             /\ pc'[u] = "first" => text'[u] = source'[u]
             /\ pc'[u] = "segment" /\ Tame(source'[u]) => AtSegment(u)'
             /\ pc'[u] = "cleaned" /\ Tame(source'[u]) => result'[u] = Unmasked(source'[u])
  <2>1. CASE u = t
    BY <1>1, <2>1
  <2>2. CASE u # t
    <3>1. pc'[u] = "cleaned" /\ Tame(source'[u]) => result'[u] = Unmasked(source'[u])
      BY <1>1, <2>2 DEF UnmaskInv
    <3> QED
      BY <1>2, <2>2, <3>1
  <2> QED
    BY <2>1, <2>2
<1> QED
  BY <1>3 DEF UnmaskInv

(* Of the whole text, Unmasked is left.                                        *)
LEMMA UnmaskedAll ==
    ASSUME NEW s \in Seq(Chars)
    PROVE  Unmasked(s) = UnmaskedTo(s, Len(s))
<1>1. DOMAIN s = 1 .. Len(s)
  OBVIOUS
<1> QED
  BY <1>1 DEF Unmasked, UnmaskedTo, Kept

(* strcpy of the first segment copies what is left of the text up to there.    *)
LEMMA FirstSegmentUnmasks ==
    ASSUME CleanInv, UnmaskInv, NEW t \in Threads, FirstSegment(t)
    PROVE  UnmaskInv'
<1>1. PICK s, token : s = source[t] /\ token = Token(<<t, 1>>, {BACKSLASH})
  OBVIOUS
<1>2. /\ Busy(t) /\ source' = source /\ text[t] = s
      /\ s \in Seq(Chars) /\ Len(s) \in Nat /\ \A j \in 1 .. Len(s) : s[j] # NUL
      /\ DOMAIN text = Threads /\ DOMAIN result = Threads
      /\ Goto(t, "segment") /\ Cut(<<t, 1>>, token)
      /\ result' = [result EXCEPT ![t] = token.string]
  BY <1>1 DEF CleanInv, UnmaskInv, FirstSegment, Busy
<1>3. 1 \in 1 .. Len(s) + 1 /\ Len(s) + 1 \in 1 .. Len(s) + 1
  BY <1>2
<1>4. End(s, 1) = Len(s) + 1
  BY <1>2, <1>3, EndIs
<1>5. PICK begin, stop \in Nat :
          /\ Segment(s, 1, Len(s) + 1, {BACKSLASH}, begin, stop)
          /\ token = TokenOf(t, s, begin, stop, Len(s) + 1)
  BY <1>1, <1>2, <1>3, <1>4, TokenIs
<1>6. PICK next : next = IF stop < Len(s) + 1 THEN stop + 1 ELSE Len(s) + 1
  OBVIOUS
<1>7. token.string = SubSeq(s, begin, stop - 1) /\ token.cut = stop /\ token.next = next
  BY <1>5, <1>6 DEF TokenOf
<1>8. /\ position' = <<t, next>> /\ text'[t] \in Seq(Chars) /\ Len(text'[t]) = Len(s)
      /\ \A j \in 1 .. Len(s) : text'[t][j] = IF j = stop THEN NUL ELSE s[j]
  <2>1. <<t, 1>> \in {t} \X Nat /\ text[t] \in Seq(Chars)
    BY <1>2
  <2> QED
    BY <1>2, <1>7, <2>1, CutChanges
<1>9. /\ begin \in 1 .. Len(s) + 1 /\ stop \in begin .. Len(s) + 1
      /\ stop < Len(s) + 1 => s[stop] = BACKSLASH
  BY <1>5 DEF Segment
<1>10. /\ result'[t] = SubSeq(s, begin, stop - 1)
       /\ \A u \in Threads \ {t} : result'[u] = result[u]
  BY <1>2, <1>7
<1>11. ASSUME Tame(s) PROVE AtSegment(t)'
  <2>1. result'[t] = UnmaskedTo(s, stop - 1)
    <3>1. s \in Seq(Chars) /\ Segment(s, 1, Len(s) + 1, {BACKSLASH}, begin, stop)
      BY <1>2, <1>5
    <3>2. UnmaskedTo(s, stop - 1) = SubSeq(s, begin, stop - 1)
      BY <1>11, <3>1, FirstUnmasked, Zenon
    <3> QED
      BY <1>10, <3>2
  <2>2. next \in Nat /\ \A j \in next .. Len(s) : text'[t][j] = s[j]
    <3>1. PICK len \in Nat : len = Len(s)
      BY <1>2
    <3>2. stop \in Nat /\ next \in Nat /\ \A j \in next .. len : j \in 1 .. len /\ j # stop
      BY <1>6, <1>9, <3>1
    <3>3. \A j \in 1 .. len : j # stop => text'[t][j] = s[j]
      BY <1>8, <3>1
    <3> QED
      BY <3>1, <3>2, <3>3
  <2>3. CASE stop < Len(s) + 1
    <3>1. stop \in 1 .. Len(s) /\ s[stop] = BACKSLASH
      BY <1>2, <1>9, <2>3
    <3>2. stop < Len(s)
      BY <1>2, <1>11, <3>1 DEF Tame
    <3>3. next \in 2 .. Len(s) /\ next - 1 = stop /\ next - 2 = stop - 1
      BY <1>2, <1>6, <2>3, <3>1, <3>2
    <3> QED
      BY <1>1, <1>2, <1>8, <2>1, <2>2, <3>1, <3>3 DEF AtSegment, Untouched
  <2>4. CASE ~(stop < Len(s) + 1)
    <3>1. next = Len(s) + 1 /\ stop - 1 = Len(s)
      BY <1>2, <1>6, <1>9, <2>4
    <3>2. result'[t] = Unmasked(s)
      BY <1>2, <2>1, <3>1, UnmaskedAll
    <3> QED
      BY <1>1, <1>2, <1>8, <2>2, <3>1, <3>2 DEF AtSegment, Untouched
  <2> QED
    BY <2>3, <2>4
<1> QED
  BY <1>1, <1>2, <1>8, <1>10, <1>11, OneAtText

(* strcat of the next one, with the backslash before it or without, goes on    *)
(* with what is left.                                                          *)
LEMMA NextSegmentUnmasks ==
    ASSUME CleanInv, UnmaskInv, NEW t \in Threads, NextSegment(t)
    PROVE  UnmaskInv'
<1>1. PICK s, x : s = source[t] /\ x = text[t]
  OBVIOUS
<1>2. /\ Busy(t) /\ source' = source /\ pc[t] = "segment"
      /\ s \in Seq(Chars) /\ Len(s) \in Nat /\ \A j \in 1 .. Len(s) : s[j] # NUL
      /\ x \in Seq(Chars) /\ Len(x) = Len(s)
      /\ DOMAIN text = Threads /\ DOMAIN result = Threads
      /\ Copied(t)
  BY <1>1 DEF CleanInv, UnmaskInv, NextSegment, Busy
<1>3. PICK i \in 1 .. Len(s) + 1 : position = <<t, i>>
  BY <1>1, <1>2 DEF Copied
<1>4. PICK token : token = Token(<<t, i>>, {BACKSLASH})
  OBVIOUS
<1>5. /\ Cut(<<t, i>>, token)
      /\ Goto(t, IF token.found THEN "segment" ELSE "cleaned")
      /\ result' = [result EXCEPT ![t] =
                       IF token.found THEN @ \o Masked(token.string) ELSE @]
  BY <1>3, <1>4 DEF NextSegment
<1>6. text'[t] \in Seq(Chars) /\ Len(text'[t]) = Len(s) /\ position' = <<t, token.next>>
      /\ \A j \in 1 .. Len(s) : text'[t][j] = IF j = token.cut THEN NUL ELSE x[j]
  <2>1. <<t, i>> \in {t} \X Nat /\ text[t] \in Seq(Chars)
    BY <1>1, <1>2
  <2> QED
    BY <1>1, <1>2, <1>5, <2>1, CutChanges
<1>7. /\ result'[t] = IF token.found THEN result[t] \o Masked(token.string) ELSE result[t]
      /\ \A u \in Threads \ {t} : result'[u] = result[u]
  BY <1>2, <1>5
<1>8. ASSUME Tame(s)
      PROVE  /\ token.found => AtSegment(t)'
             /\ ~token.found => result'[t] = Unmasked(s)
  <2>1. /\ \A j \in i .. Len(s) : x[j] = s[j]
        /\ \/ i = Len(s) + 1 /\ result[t] = Unmasked(s)
           \/ /\ i \in 2 .. Len(s) /\ s[i - 1] = BACKSLASH
              /\ result[t] = UnmaskedTo(s, i - 2)
    <3>1. PICK k \in Nat :
              /\ position = <<t, k>> /\ Untouched(t, k)
              /\ \/ k = Len(s) + 1 /\ result[t] = Unmasked(s)
                 \/ /\ k \in 2 .. Len(s) /\ s[k - 1] = BACKSLASH
                    /\ result[t] = UnmaskedTo(s, k - 2)
      BY <1>1, <1>2, <1>8 DEF UnmaskInv, AtSegment
    <3>2. k = i
      BY <1>3, <3>1
    <3> QED
      BY <1>1, <3>1, <3>2 DEF Untouched
  <2>2. End(x, i) = Len(s) + 1
    <3>1. \A j \in i .. Len(s) : x[j] # NUL
      BY <1>2, <2>1
    <3>2. i \in 1 .. Len(x) + 1 /\ Len(s) + 1 \in i .. Len(x) + 1
      BY <1>2
    <3> QED
      BY <1>2, <3>1, <3>2, EndIs
  <2>3. PICK begin, stop \in Nat :
            /\ Segment(x, i, Len(s) + 1, {BACKSLASH}, begin, stop)
            /\ token = TokenOf(t, x, begin, stop, Len(s) + 1)
    BY <1>1, <1>2, <1>4, <2>2, TokenIs
  <2>4. PICK next : next = IF stop < Len(s) + 1 THEN stop + 1 ELSE Len(s) + 1
    OBVIOUS
  <2>5. /\ token.string = SubSeq(x, begin, stop - 1) /\ token.cut = stop /\ token.next = next
        /\ token.found = (begin < Len(s) + 1)
    BY <2>3, <2>4 DEF TokenOf
  <2>6. /\ begin \in i .. Len(s) + 1 /\ stop \in begin .. Len(s) + 1
        /\ \A j \in i .. begin - 1 : x[j] = BACKSLASH
        /\ \A j \in begin .. stop - 1 : x[j] # BACKSLASH
        /\ begin < Len(s) + 1 => begin < stop
        /\ stop < Len(s) + 1 => x[stop] = BACKSLASH
    BY <2>3 DEF Segment
  <2>7. CASE i = Len(s) + 1
    <3>1. ~(begin < Len(s) + 1)
      BY <1>2, <2>6, <2>7
    <3>2. ~token.found
      BY <2>5, <3>1
    <3>3. result[t] = Unmasked(s)
      BY <1>2, <2>1, <2>7
    <3> QED
      BY <1>7, <3>2, <3>3
  <2>8. CASE i # Len(s) + 1
    <3>1. i \in 2 .. Len(s) /\ s[i - 1] = BACKSLASH /\ result[t] = UnmaskedTo(s, i - 2)
      BY <2>1, <2>8
    <3>2. s[i] # BACKSLASH /\ x[i] = s[i]
      <4>1. i - 1 \in DOMAIN s /\ (i - 1) + 1 = i
        BY <1>2, <3>1
      <4>2. s[(i - 1) + 1] # BACKSLASH
        BY <1>8, <3>1, <4>1 DEF Tame
      <4> QED
        BY <1>2, <2>1, <3>1, <4>1, <4>2
    <3>3. begin = i /\ stop \in i + 1 .. Len(s) + 1
      BY <1>2, <2>6, <3>1, <3>2
    <3>4. token.found
      <4>1. begin < Len(s) + 1
        BY <1>2, <3>1, <3>3
      <4> QED
        BY <2>5, <4>1
    <3>5. /\ \A j \in i .. stop - 1 : s[j] # BACKSLASH
          /\ SubSeq(x, i, stop - 1) = SubSeq(s, i, stop - 1)
          /\ stop < Len(s) + 1 => s[stop] = BACKSLASH
      <4>1. \A j \in i .. stop - 1 : x[j] = s[j] /\ j \in 1 .. Len(s)
        BY <1>2, <2>1, <3>1, <3>3
      <4>2. i \in 1 .. Len(s) /\ stop - 1 \in i .. Len(s)
        BY <1>2, <3>1, <3>3
      <4>3. SubSeq(x, i, stop - 1) = SubSeq(s, i, stop - 1)
        BY <1>2, <4>1, <4>2
      <4>4. stop < Len(s) + 1 => x[stop] = s[stop]
        BY <1>2, <2>1, <3>1, <3>3
      <4> QED
        BY <2>6, <3>3, <4>1, <4>3, <4>4
    <3>6. result'[t] = UnmaskedTo(s, stop - 1)
      <4>1. result'[t] = UnmaskedTo(s, i - 2) \o Masked(SubSeq(s, i, stop - 1))
        BY <1>7, <2>5, <3>1, <3>3, <3>4, <3>5
      <4> QED
        BY <1>2, <3>1, <3>3, <3>5, <4>1, NextUnmasked
    <3>7. next \in Nat /\ \A j \in next .. Len(s) : text'[t][j] = s[j]
      BY <1>2, <1>6, <2>1, <2>4, <2>5, <3>1, <3>3
    <3>8. CASE stop < Len(s) + 1
      <4>1. stop \in 1 .. Len(s) /\ s[stop] = BACKSLASH
        BY <1>2, <3>1, <3>3, <3>5, <3>8
      <4>2. stop < Len(s)
        BY <1>2, <1>8, <4>1 DEF Tame
      <4>3. next \in 2 .. Len(s) /\ next - 1 = stop /\ next - 2 = stop - 1
        BY <1>2, <2>4, <3>8, <4>1, <4>2
      <4> QED
        BY <1>1, <1>2, <1>6, <2>5, <3>4, <3>6, <3>7, <4>1, <4>3 DEF AtSegment, Untouched
    <3>9. CASE ~(stop < Len(s) + 1)
      <4>1. next = Len(s) + 1 /\ stop - 1 = Len(s)
        BY <1>2, <2>4, <3>3, <3>9
      <4>2. result'[t] = Unmasked(s)
        BY <1>2, <3>6, <4>1, UnmaskedAll
      <4> QED
        BY <1>1, <1>2, <1>6, <2>5, <3>4, <3>7, <4>1, <4>2 DEF AtSegment, Untouched
    <3> QED
      BY <3>8, <3>9
  <2> QED
    BY <2>7, <2>8
<1>9. CASE token.found
  <2>1. Goto(t, "segment")
    BY <1>5, <1>9
  <2> QED
    BY <1>1, <1>2, <1>6, <1>7, <1>8, <1>9, <2>1, OneAtText
<1>10. CASE ~token.found
  <2>1. Goto(t, "cleaned")
    BY <1>5, <1>10
  <2> QED
    BY <1>1, <1>2, <1>7, <1>8, <1>10, <2>1, OneAtText
<1> QED
  BY <1>9, <1>10

(* What a thread begins with.                                                  *)
LEMMA BeginUnmasks ==
    ASSUME Serial, CleanInv, UnmaskInv, NEW t \in Threads, NEW s \in Texts \cup Headers,
           Clean(t, s) \/ Extract(t, s)
    PROVE  UnmaskInv'
<1>1. PICK state : /\ Begin(t, state, s) /\ state \in {"first", "cleaned", "header", "extracted"}
                   /\ state = "cleaned" => s = <<>>
  <2>1. CASE Clean(t, s)
    BY <2>1 DEF Clean
  <2>2. CASE Extract(t, s)
    BY <2>2 DEF Extract
  <2> QED
    BY <2>1, <2>2
<1>2. s \in Seq(Chars) /\ \A i \in 1 .. Len(s) : s[i] # NUL
  BY TextsOfChars
<1>3. /\ pc[t] = "idle" /\ result' = result /\ result[t] = <<>>
      /\ \A u \in Threads : pc[u] \in {"idle", "cleaned", "extracted"}
  BY <1>1 DEF Begin, CleanInv
<1>4. /\ pc'[t] = state /\ \A u \in Threads \ {t} : pc'[u] = pc[u]
      /\ text'[t] = s /\ source'[t] = s
      /\ \A u \in Threads \ {t} : source'[u] = source[u]
  BY <1>1 DEF Begin, Goto, CleanInv
<1>5. s = <<>> => Unmasked(s) = <<>>
  <2>1. s = <<>> => Len(s) = 0
    OBVIOUS
  <2> QED
    BY <1>2, <2>1, UnmaskedAll, UnmaskedNone
<1>6. ASSUME NEW u \in Threads
      PROVE  /\ pc'[u] \in {"first", "segment"} =>
                /\ text'[u] \in Seq(Chars) /\ source'[u] \in Seq(Chars)
                /\ Len(text'[u]) = Len(source'[u])
                /\ \A j \in 1 .. Len(source'[u]) : source'[u][j] # NUL
             /\ pc'[u] = "first" => text'[u] = source'[u]
             /\ pc'[u] # "segment"
             /\ pc'[u] = "cleaned" /\ Tame(source'[u]) => result'[u] = Unmasked(source'[u])
  <2>1. CASE u = t
    BY <1>1, <1>2, <1>3, <1>4, <1>5, <2>1
  <2>2. CASE u # t
    <3>1. pc'[u] = "cleaned" /\ Tame(source'[u]) => result'[u] = Unmasked(source'[u])
      BY <1>3, <1>4, <2>2 DEF UnmaskInv
    <3>2. pc'[u] \in {"idle", "cleaned", "extracted"}
      BY <1>3, <1>4, <2>2
    <3> QED
      BY <3>1, <3>2
  <2> QED
    BY <2>1, <2>2
<1> QED
  BY <1>6 DEF UnmaskInv

(* While a header is taken apart no text is cleaned.                           *)
LEMMA ExtractingUnmasks ==
    ASSUME CleanInv, UnmaskInv, NEW t \in Threads,
           FirstLine(t) \/ NextLine(t) \/ CutName(t) \/ Parameter(t)
    PROVE  UnmaskInv'
<1>1. Busy(t) /\ source' = source
  BY DEF FirstLine, NextLine, ReadLine, CutName, Parameter, Busy
<1>2. \A u \in Threads \ {t} : result'[u] = result[u]
  BY DEF FirstLine, NextLine, ReadLine, CutName, Parameter, CleanInv
<1>3. \E state \in {"line", "name", "parameter", "extracted"} : Goto(t, state)
  <2>1. CASE FirstLine(t) \/ NextLine(t)
    <3>1. PICK p : ReadLine(t, p)
      BY <2>1 DEF FirstLine, NextLine
    <3> QED
      BY <3>1 DEF ReadLine
  <2>2. CASE CutName(t)
    BY <2>2 DEF CutName
  <2>3. CASE Parameter(t)
    BY <2>3 DEF Parameter
  <2> QED
    BY <2>1, <2>2, <2>3
<1> QED
  BY <1>1, <1>2, <1>3, OneAtText

(* Of a text of any length that is tame, exactly the backslashes before its    *)
(* commas are removed, as long as strtok serves one thread at a time.          *)
THEOREM TameTextIsCleaned == ASSUME Serial PROVE Spec => []TameTextsCleaned
<1>1. Init => UnmaskInv
  BY DEF Init, UnmaskInv
<1>2. CleanInv /\ UnmaskInv /\ [Next]_vars => UnmaskInv'
  <2> SUFFICES ASSUME CleanInv, UnmaskInv, [Next]_vars PROVE UnmaskInv'
    OBVIOUS
  <2>1. CASE UNCHANGED vars
    BY <2>1 DEF vars, UnmaskInv, AtSegment, Untouched
  <2> QED
    BY <2>1, BeginUnmasks, FirstSegmentUnmasks, NextSegmentUnmasks, ExtractingUnmasks
       DEF Next, Done
<1>3. UnmaskInv => TameTextsCleaned
  BY DEF UnmaskInv, TameTextsCleaned
<1> QED
  BY <1>1, <1>2, <1>3, CleanInvariant, PTL DEF Spec
=============================================================================
