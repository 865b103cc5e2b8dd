---------------------------- MODULE SplitterProofs ----------------------------
(***************************************************************************)
(* For texts of any length: the scanner never looks past their end, what   *)
(* it cuts off are the statements the text consists of, each of them one   *)
(* statement by itself, and what is refused has no code.                   *)
(***************************************************************************)
EXTENDS Splitter, SequenceTheorems, Recursion

-----------------------------------------------------------------------------
(* Strings, comments and lexemes, one step at a time.                      *)

\* The least of a set of positions.
LEMMA MinOf ==
    ASSUME NEW S, S \subseteq Nat, S # {}
    PROVE  Min(S) \in S /\ \A x \in S : Min(S) <= x
BY Least DEF Min

\* The equation by which StringEnd is defined has a solution.
LEMMA StringEndStep ==
    ASSUME NEW t \in Seq(Characters), NEW q, NEW k \in Nat
    PROVE  StringEnd(t, q, k) =
             IF k >= Len(t) THEN Len(t)
             ELSE IF t[k] = "backslash" \/ (t[k] = q /\ t[k + 1] = q) THEN StringEnd(t, q, k + 2)
             ELSE IF t[k] = q THEN k ELSE StringEnd(t, q, k + 1)
<1> DEFINE double(j) == t[j] = "backslash" \/ (t[j] = q /\ t[j + 1] = q)
           Body(f) == [j \in Nat |->
                IF j >= Len(t) THEN Len(t)
                ELSE IF t[j] = "backslash" \/ (t[j] = q /\ t[j + 1] = q) THEN f[j + 2]
                ELSE IF t[j] = q THEN j ELSE f[j + 1]]
           E == CHOOSE f : f = Body(f)
<1>1. \E f : f = Body(f)
  <2> DEFINE rank == [j \in Nat |-> IF j >= Len(t) THEN 0 ELSE Len(t) - j]
             Stop == {j \in Nat : j >= Len(t) \/ (~double(j) /\ t[j] = q)}
             value == [j \in Nat |-> IF j >= Len(t) THEN Len(t) ELSE j]
             next == [j \in Nat |-> IF double(j) THEN j + 2 ELSE j + 1]
  <2>1. Len(t) \in Nat
    OBVIOUS
  <2>2. rank \in [Nat -> Nat]
    BY <2>1
  <2>3. \A j \in Nat : j \notin Stop => next[j] \in Nat /\ rank[next[j]] < rank[j]
    <3> SUFFICES ASSUME NEW j \in Nat, j \notin Stop PROVE next[j] \in Nat /\ rank[next[j]] < rank[j]
      OBVIOUS
    <3>1. j < Len(t) /\ next[j] \in {j + 1, j + 2}
      BY <2>1
    <3>2. rank[j] = Len(t) - j
      BY <2>1, <3>1
    <3>3. next[j] \in Nat /\ rank[next[j]] = IF next[j] >= Len(t) THEN 0 ELSE Len(t) - next[j]
      BY <3>1
    <3> HIDE DEF rank, next
    <3>4. QED
      BY <2>1, <3>1, <3>2, <3>3
  <2>4. PICK f : IsLoop(f, Nat, Stop, value, next)
    <3> HIDE DEF rank, Stop, value, next
    <3>1. QED
      BY <2>2, <2>3, Loop DEF Descends
  <2>5. \A j \in Nat : (IF j \in Stop THEN value[j] ELSE f[next[j]]) =
            IF j >= Len(t) THEN Len(t)
            ELSE IF t[j] = "backslash" \/ (t[j] = q /\ t[j + 1] = q) THEN f[j + 2]
            ELSE IF t[j] = q THEN j ELSE f[j + 1]
    OBVIOUS
  <2>6. f = Body(f)
    <3> HIDE DEF Stop, value, next
    <3>1. QED
      BY <2>4, <2>5 DEF IsLoop
  <2>7. QED
    BY <2>6
<1>2. E = Body(E)
  BY <1>1
<1>3. \A j \in Nat : StringEnd(t, q, j) = E[j]
  BY DEF StringEnd
<1> HIDE DEF E
<1>4. QED
  BY <1>2, <1>3

\* A string ends within the text, where it begins or later.
LEMMA StringEndRange ==
    ASSUME NEW t \in Seq(Characters), NEW q, NEW k \in Nat
    PROVE  StringEnd(t, q, k) \in 0 .. Len(t) /\ (k <= Len(t) => k <= StringEnd(t, q, k))
<1> DEFINE T == {j \in Nat : /\ StringEnd(t, q, j) \in 0 .. Len(t)
                             /\ j <= Len(t) => j <= StringEnd(t, q, j)}
<1>0. Len(t) \in Nat
  OBVIOUS
<1>1. \A j \in Nat : j > Len(t) => j \in T
  BY <1>0, StringEndStep
<1>2. ASSUME NEW j \in 0 .. Len(t), \A l \in Nat : l > j => l \in T PROVE j \in T
  <2>1. j \in Nat /\ j + 1 \in T /\ j + 2 \in T
    BY <1>2
  <2>2. StringEnd(t, q, j) =
             IF j >= Len(t) THEN Len(t)
             ELSE IF t[j] = "backslash" \/ (t[j] = q /\ t[j + 1] = q) THEN StringEnd(t, q, j + 2)
             ELSE IF t[j] = q THEN j ELSE StringEnd(t, q, j + 1)
    BY <2>1, StringEndStep
  <2>3. CASE j >= Len(t) - 1
    <3>1. StringEnd(t, q, j + 1) = Len(t) /\ StringEnd(t, q, j + 2) = Len(t)
      BY <1>0, <2>1, <2>3, StringEndStep
    <3>2. QED
      BY <1>0, <2>1, <2>2, <3>1
  <2>4. CASE j < Len(t) - 1
    BY <1>0, <2>1, <2>2, <2>4
  <2>5. QED
    BY <1>0, <2>3, <2>4
<1>3. \A j \in Nat : j \in T
  <2> HIDE DEF T
  <2>1. QED
    BY <1>0, <1>1, <1>2, Downward
<1>4. QED
  BY <1>3

\* Where the comment ends of which k is a character, past its opening mark.
LineEnd(t, k) == Min({j \in k .. Len(t) : t[j] = "newline"} \cup {Len(t)})
BlockEnd(t, k) == Min({j \in (k + 1) .. Len(t) : t[j - 1] = "star" /\ t[j] = "slash"} \cup {Len(t)})

\* So does a line comment, with its line,
LEMMA LineEndStep ==
    ASSUME NEW t \in Seq(Characters), NEW k \in Nat
    PROVE  /\ LineEnd(t, k) \in 0 .. Len(t) /\ (k <= Len(t) => k <= LineEnd(t, k))
           /\ k > Len(t) => LineEnd(t, k) = Len(t)
           /\ k \in DOMAIN t => LineEnd(t, k) = IF t[k] = "newline" THEN k ELSE LineEnd(t, k + 1)
<1> DEFINE S(j) == {l \in j .. Len(t) : t[l] = "newline"} \cup {Len(t)}
<1>1. Len(t) \in Nat /\ DOMAIN t = 1 .. Len(t)
  OBVIOUS
<1>2. LineEnd(t, k) \in S(k) /\ \A x \in S(k) : LineEnd(t, k) <= x
  <2>1. S(k) \subseteq Nat /\ S(k) # {}
    BY <1>1
  <2>2. QED
    BY <2>1, MinOf DEF LineEnd
<1>3. ASSUME NEW x \in S(k) PROVE x \in 0 .. Len(t) /\ (k <= Len(t) => k <= x)
  <2>1. x = Len(t) \/ x \in k .. Len(t)
    BY <1>1
  <2> HIDE DEF S
  <2>2. QED
    BY <1>1, <2>1
<1>3a. LineEnd(t, k) \in 0 .. Len(t) /\ (k <= Len(t) => k <= LineEnd(t, k))
  BY <1>2, <1>3
<1>4. ASSUME k \in DOMAIN t PROVE LineEnd(t, k) = IF t[k] = "newline" THEN k ELSE LineEnd(t, k + 1)
  <2>1. CASE t[k] = "newline"
    <3>1. k \in k .. Len(t)
      BY <1>1, <1>4
    <3>1a. k \in S(k)
      BY <2>1, <3>1
    <3>2. LineEnd(t, k) <= k
      BY <1>2, <3>1a
    <3>2a. k <= LineEnd(t, k) /\ LineEnd(t, k) \in Nat
      BY <1>1, <1>3a, <1>4
    <3>3. QED
      BY <2>1, <3>2, <3>2a
  <2>2. CASE t[k] # "newline"
    <3>1. S(k) = S(k + 1)
      BY <1>1, <1>4, <2>2
    <3>2. QED
      BY <2>2, <3>1 DEF LineEnd
  <2>3. QED
    BY <2>1, <2>2
<1>5. ASSUME k > Len(t) PROVE LineEnd(t, k) = Len(t)
  <2>1. \A x \in k .. Len(t) : FALSE
    BY <1>1, <1>5
  <2>2. S(k) = {Len(t)}
    BY <2>1
  <2>3. QED
    BY <1>2, <2>2
<1>6. QED
  BY <1>3a, <1>4, <1>5

\* and a block comment, with the first closing mark.
LEMMA BlockEndStep ==
    ASSUME NEW t \in Seq(Characters), NEW k \in Nat
    PROVE  /\ BlockEnd(t, k) \in 0 .. Len(t) /\ (k <= Len(t) => k <= BlockEnd(t, k))
           /\ k > Len(t) => BlockEnd(t, k) = Len(t)
           /\ k \in DOMAIN t => BlockEnd(t, k) =
                IF At(t, k, "star") /\ At(t, k + 1, "slash") THEN k + 1 ELSE BlockEnd(t, k + 1)
<1> DEFINE S(j) == {l \in (j + 1) .. Len(t) : t[l - 1] = "star" /\ t[l] = "slash"} \cup {Len(t)}
<1>1. Len(t) \in Nat /\ DOMAIN t = 1 .. Len(t)
  OBVIOUS
<1>2. BlockEnd(t, k) \in S(k) /\ \A x \in S(k) : BlockEnd(t, k) <= x
  <2>1. S(k) \subseteq Nat /\ S(k) # {}
    BY <1>1
  <2>2. QED
    BY <2>1, MinOf DEF BlockEnd
<1>3. ASSUME NEW x \in S(k) PROVE x \in 0 .. Len(t) /\ (k <= Len(t) => k <= x)
  <2>1. x = Len(t) \/ x \in (k + 1) .. Len(t)
    OBVIOUS
  <2> HIDE DEF S
  <2>2. QED
    BY <1>1, <2>1
<1>3a. BlockEnd(t, k) \in 0 .. Len(t) /\ (k <= Len(t) => k <= BlockEnd(t, k))
  BY <1>2, <1>3
<1>4. ASSUME k \in DOMAIN t
      PROVE  BlockEnd(t, k) =
                IF At(t, k, "star") /\ At(t, k + 1, "slash") THEN k + 1 ELSE BlockEnd(t, k + 1)
  <2>1. CASE At(t, k, "star") /\ At(t, k + 1, "slash")
    <3>0. k + 1 \in DOMAIN t /\ t[k] = "star" /\ t[k + 1] = "slash"
      BY <2>1 DEF At
    <3>0a. k + 1 \in (k + 1) .. Len(t) /\ (k + 1) - 1 = k
      BY <1>1, <1>4, <3>0
    <3>1. k + 1 \in S(k)
      BY <3>0, <3>0a
    <3>2. BlockEnd(t, k) <= k + 1
      BY <1>2, <3>1
    <3>3. k + 1 <= Len(t)
      <4> HIDE DEF S
      <4>1. QED
        BY <1>1, <3>0
    <3>4. ASSUME NEW x \in S(k) PROVE k + 1 <= x
      <4>1. x = Len(t) \/ x \in (k + 1) .. Len(t)
        OBVIOUS
      <4> HIDE DEF S
      <4>2. QED
        BY <1>1, <3>3, <4>1
    <3>5. BlockEnd(t, k) \in Nat /\ k + 1 <= BlockEnd(t, k)
      BY <1>2, <1>3a, <3>4
    <3>6. QED
      BY <2>1, <3>2, <3>5
  <2>2. CASE ~(At(t, k, "star") /\ At(t, k + 1, "slash"))
    <3>1. S(k) = S(k + 1)
      BY <1>1, <1>4, <2>2 DEF At
    <3>2. QED
      BY <2>2, <3>1 DEF BlockEnd
  <2>3. QED
    BY <2>1, <2>2
<1>5. ASSUME k > Len(t) PROVE BlockEnd(t, k) = Len(t)
  <2>1. \A x \in (k + 1) .. Len(t) : FALSE
    BY <1>1, <1>5
  <2>2. S(k) = {Len(t)}
    BY <2>1
  <2>3. QED
    BY <1>2, <2>2
<1>6. QED
  BY <1>3a, <1>4, <1>5

\* Where a lexeme ends, by what it begins with.
LEMMA LexemeEnds ==
    ASSUME NEW t \in Seq(Characters), NEW k \in Nat
    PROVE  /\ t[k] \in Quotes => LexemeEnd(t, k) = StringEnd(t, t[k], k + 1)
           /\ LineCommentAt(t, k) => LexemeEnd(t, k) = LineEnd(t, k) /\ LineEnd(t, k) = LineEnd(t, k + 1)
           /\ BlockCommentAt(t, k) => LexemeEnd(t, k) = BlockEnd(t, k + 2)
           /\ t[k] \notin Quotes /\ ~LineCommentAt(t, k) /\ ~BlockCommentAt(t, k) => LexemeEnd(t, k) = k
<1>1. ASSUME t[k] \in Quotes PROVE LexemeEnd(t, k) = StringEnd(t, t[k], k + 1)
  <2>1. ~LineCommentAt(t, k) /\ ~BlockCommentAt(t, k)
    BY <1>1 DEF Quotes, LineCommentAt, BlockCommentAt, At
  <2>2. QED
    BY <1>1, <2>1, Zenon DEF LexemeEnd
<1>2. ASSUME LineCommentAt(t, k)
      PROVE  LexemeEnd(t, k) = LineEnd(t, k) /\ LineEnd(t, k) = LineEnd(t, k + 1)
  <2>1. t[k] \notin Quotes /\ ~BlockCommentAt(t, k) /\ k \in DOMAIN t /\ t[k] # "newline"
    BY <1>2 DEF Quotes, LineCommentAt, BlockCommentAt, At
  <2>2. LexemeEnd(t, k) = LineEnd(t, k)
    BY <1>2, <2>1, Zenon DEF LexemeEnd, LineEnd
  <2>3. QED
    BY <2>1, <2>2, LineEndStep
<1>3. ASSUME BlockCommentAt(t, k) PROVE LexemeEnd(t, k) = BlockEnd(t, k + 2)
  <2>1. t[k] \notin Quotes /\ ~LineCommentAt(t, k)
    BY <1>3 DEF Quotes, LineCommentAt, BlockCommentAt, At
  <2>2. k + 3 = (k + 2) + 1
    OBVIOUS
  <2>3. QED
    BY <1>3, <2>1, <2>2, Zenon DEF LexemeEnd, BlockEnd
<1>4. t[k] \notin Quotes /\ ~LineCommentAt(t, k) /\ ~BlockCommentAt(t, k) => LexemeEnd(t, k) = k
  BY Zenon DEF LexemeEnd
<1>5. QED
  BY <1>1, <1>2, <1>3, <1>4

\* It is a character at least, and does not exceed the text.
LEMMA LexemeEndRange ==
    ASSUME NEW t \in Seq(Characters), NEW k \in 0 .. Len(t)
    PROVE  LexemeEnd(t, k) \in k .. Len(t)
<1>1. Len(t) \in Nat /\ k \in Nat /\ DOMAIN t = 1 .. Len(t)
  OBVIOUS
<1>2. CASE t[k] \in Quotes
  <2>1. StringEnd(t, t[k], k + 1) \in 0 .. Len(t)
        /\ (k + 1 <= Len(t) => k + 1 <= StringEnd(t, t[k], k + 1))
    BY <1>1, StringEndRange
  <2>2. k = Len(t) => StringEnd(t, t[k], k + 1) = Len(t)
    BY <1>1, StringEndStep
  <2>3. LexemeEnd(t, k) = StringEnd(t, t[k], k + 1)
    BY <1>1, <1>2, LexemeEnds
  <2> DEFINE e == StringEnd(t, t[k], k + 1)
             n == Len(t)
  <2>4. n \in Nat /\ e \in 0 .. n /\ (k + 1 <= n => k + 1 <= e) /\ (k = n => e = n) /\ k \in 0 .. n
    BY <1>1, <2>1, <2>2
  <2> HIDE DEF e, n
  <2>5. e \in k .. n
    BY <2>4
  <2>6. QED
    BY <2>3, <2>5 DEF e, n
<1>3. CASE LineCommentAt(t, k)
  BY <1>1, <1>3, LexemeEnds, LineEndStep
<1>4. CASE BlockCommentAt(t, k)
  <2>1. k + 1 <= Len(t)
    BY <1>1, <1>4 DEF BlockCommentAt, At
  <2>2. BlockEnd(t, k + 2) \in 0 .. Len(t) /\ (k + 2 <= Len(t) => k + 2 <= BlockEnd(t, k + 2))
    BY <1>1, BlockEndStep
  <2>3. k + 2 > Len(t) => BlockEnd(t, k + 2) = Len(t)
    <3>1. k + 2 > Len(t) =>
             {j \in (k + 2 + 1) .. Len(t) : t[j - 1] = "star" /\ t[j] = "slash"} \cup {Len(t)} = {Len(t)}
      BY <1>1
    <3>2. Min({Len(t)}) = Len(t)
      <4>1. {Len(t)} \subseteq Nat /\ {Len(t)} # {}
        BY <1>1
      <4>2. Min({Len(t)}) \in {Len(t)}
        BY <4>1, MinOf
      <4>3. QED
        BY <4>2
    <3>3. QED
      BY <3>1, <3>2 DEF BlockEnd
  <2>4. QED
    BY <1>1, <1>4, <2>1, <2>2, <2>3, LexemeEnds
<1>5. CASE t[k] \notin Quotes /\ ~LineCommentAt(t, k) /\ ~BlockCommentAt(t, k)
  BY <1>1, <1>5, LexemeEnds
<1>6. QED
  BY <1>2, <1>3, <1>4, <1>5

\* The equation by which StartsFrom is defined has a solution.
LEMMA StartsFromStep ==
    ASSUME NEW t \in Seq(Characters), NEW k \in Nat
    PROVE  StartsFrom(t, k) =
             IF k > Len(t) THEN {} ELSE {k} \cup StartsFrom(t, LexemeEnd(t, k) + 1)
<1> DEFINE Body(f) == [j \in Nat |-> IF j > Len(t) THEN {} ELSE {j} \cup f[LexemeEnd(t, j) + 1]]
           E == CHOOSE f : f = Body(f)
<1>0. Len(t) \in Nat
  OBVIOUS
<1>1. \E f : f = Body(f)
  <2> DEFINE rank == [j \in Nat |-> IF j > Len(t) THEN 0 ELSE Len(t) + 1 - j]
             Stop == {j \in Nat : j > Len(t)}
             part == [j \in Nat |-> {j}]
             next == [j \in Nat |-> LexemeEnd(t, j) + 1]
  <2>2. rank \in [Nat -> Nat]
    BY <1>0
  <2>3. ASSUME NEW j \in Nat, j \notin Stop PROVE next[j] \in Nat /\ rank[next[j]] < rank[j]
    <3>1. j \in 0 .. Len(t)
      <4>1. ~(j > Len(t))
        BY <2>3
      <4>2. QED
        BY <1>0, <4>1
    <3>2. LexemeEnd(t, j) \in j .. Len(t)
      BY <3>1, LexemeEndRange
    <3>3. QED
      BY <1>0, <3>1, <3>2
  <2>4. PICK f : IsCollection(f, Nat, Stop, part, next)
    <3> HIDE DEF rank, Stop, part, next
    <3>1. QED
      BY <2>2, <2>3, Collect DEF Descends
  <2>5. \A j \in Nat : (IF j \in Stop THEN {} ELSE part[j] \cup f[next[j]]) =
            IF j > Len(t) THEN {} ELSE {j} \cup f[LexemeEnd(t, j) + 1]
    OBVIOUS
  <2>6. f = Body(f)
    <3> HIDE DEF Stop, part, next
    <3>1. QED
      BY <2>4, <2>5 DEF IsCollection
  <2>7. QED
    BY <2>6
<1>2. E = Body(E)
  BY <1>1
<1>3. \A j \in Nat : StartsFrom(t, j) = E[j]
  BY DEF StartsFrom
<1> HIDE DEF E
<1>4. k \in 0 .. Len(t) => LexemeEnd(t, k) + 1 \in Nat
  BY <1>0, LexemeEndRange
<1>5. QED
  BY <1>0, <1>2, <1>3, <1>4

-----------------------------------------------------------------------------
(* Pieces of a text.                                                       *)

\* A lexeme lies in the text, and another follows unless the text ends with it.
LEMMA StartsChain ==
    ASSUME NEW t \in Seq(Characters), NEW k \in Nat, NEW j \in StartsFrom(t, k)
    PROVE  /\ j \in k .. Len(t)
           /\ LexemeEnd(t, j) + 1 \in StartsFrom(t, k) \/ LexemeEnd(t, j) = Len(t)
<1> DEFINE Chained(l) == \A x \in StartsFrom(t, l) :
               /\ x \in l .. Len(t)
               /\ LexemeEnd(t, x) + 1 \in StartsFrom(t, l) \/ LexemeEnd(t, x) = Len(t)
           T == {l \in Nat : Chained(l)}
<1>1. Len(t) \in Nat
  OBVIOUS
<1>2. \A l \in Nat : l > Len(t) => l \in T
  BY StartsFromStep
<1>3. ASSUME NEW l \in 0 .. Len(t), \A x \in Nat : x > l => x \in T PROVE l \in T
  <2> DEFINE e == LexemeEnd(t, l)
  <2>1. l \in Nat /\ e \in Nat /\ l <= e /\ e <= Len(t) /\ l <= Len(t)
    BY <1>1, LexemeEndRange
  <2>2. StartsFrom(t, l) = {l} \cup StartsFrom(t, e + 1)
    <3>1. ~(l > Len(t))
      BY <1>1, <2>1
    <3>2. QED
      BY <2>1, <3>1, StartsFromStep
  <2>3. e + 1 \in StartsFrom(t, e + 1) \/ e = Len(t)
    <3>1. e + 1 \in Nat /\ (e # Len(t) => ~(e + 1 > Len(t)))
      BY <1>1, <2>1
    <3>2. QED
      BY <3>1, StartsFromStep
  <2>4. Chained(e + 1)
    <3>1. e + 1 \in Nat /\ e + 1 > l
      BY <2>1
    <3>2. QED
      BY <1>3, <3>1
  <2>5. ASSUME NEW x \in StartsFrom(t, l)
        PROVE  /\ x \in l .. Len(t)
               /\ LexemeEnd(t, x) + 1 \in StartsFrom(t, l) \/ LexemeEnd(t, x) = Len(t)
    <3>1. CASE x = l
      BY <1>1, <2>1, <2>2, <2>3, <3>1
    <3>2. CASE x \in StartsFrom(t, e + 1)
      <4>1. x \in (e + 1) .. Len(t)
            /\ (LexemeEnd(t, x) + 1 \in StartsFrom(t, e + 1) \/ LexemeEnd(t, x) = Len(t))
        BY <2>4, <3>2
      <4>2. x \in l .. Len(t)
        <5> HIDE DEF e
        <5>1. QED
          BY <1>1, <2>1, <4>1
      <4>3. QED
        BY <2>2, <4>1, <4>2
    <3>3. QED
      BY <2>2, <2>5, <3>1, <3>2
  <2>6. QED
    BY <2>1, <2>5
<1>4. \A l \in Nat : l \in T
  <2> HIDE DEF T
  <2>1. QED
    BY <1>1, <1>2, <1>3, Downward
<1>5. QED
  BY <1>4

\* p is the part of t after its first d characters.
Part(p, t, d) ==
    /\ p \in Seq(Characters) /\ t \in Seq(Characters)
    /\ d \in Nat /\ Len(p) + d <= Len(t)
    /\ \A k \in 1 .. Len(p) : p[k] = t[k + d]

\* A string of p that ends before p does ends there in t as well.
LEMMA PartString ==
    ASSUME NEW p, NEW t, NEW d, Part(p, t, d), NEW q, NEW k \in Nat, k >= 1,
           StringEnd(p, q, k) < Len(p)
    PROVE  StringEnd(t, q, k + d) = StringEnd(p, q, k) + d
<1> DEFINE Same(j) == j >= 1 /\ StringEnd(p, q, j) < Len(p) =>
                        StringEnd(t, q, j + d) = StringEnd(p, q, j) + d
           T == {j \in Nat : Same(j)}
<1>1. /\ Len(p) \in Nat /\ Len(t) \in Nat /\ d \in Nat /\ Len(p) + d <= Len(t)
      /\ p \in Seq(Characters) /\ t \in Seq(Characters)
      /\ \A j \in 1 .. Len(p) : p[j] = t[j + d]
  BY DEF Part
<1>2. \A j \in Nat : j >= Len(p) => StringEnd(p, q, j) = Len(p)
  BY <1>1, StringEndStep
<1>3. ASSUME NEW j \in Nat, j > Len(p) PROVE j \in T
  <2>1. StringEnd(p, q, j) = Len(p)
    BY <1>1, <1>2, <1>3
  <2>2. QED
    BY <1>1, <2>1
<1>4. ASSUME NEW j \in 0 .. Len(p), \A l \in Nat : l > j => l \in T PROVE j \in T
  <2> SUFFICES ASSUME j >= 1, StringEnd(p, q, j) < Len(p)
               PROVE  StringEnd(t, q, j + d) = StringEnd(p, q, j) + d
    BY <1>1
  <2>1. j < Len(p) /\ j \in Nat /\ j + 1 \in 1 .. Len(p) /\ j \in 1 .. Len(p)
    <3>1. j # Len(p)
      BY <1>1, <1>2
    <3>2. QED
      BY <1>1, <3>1
  <2>2. p[j] = t[j + d] /\ p[j + 1] = t[(j + d) + 1]
    <3>1. (j + 1) + d = (j + d) + 1
      BY <1>1, <2>1
    <3>2. QED
      BY <1>1, <2>1, <3>1
  <2>3. StringEnd(p, q, j) =
          IF p[j] = "backslash" \/ (p[j] = q /\ p[j + 1] = q) THEN StringEnd(p, q, j + 2)
          ELSE IF p[j] = q THEN j ELSE StringEnd(p, q, j + 1)
    <3>1. ~(j >= Len(p))
      BY <1>1, <2>1
    <3>2. QED
      BY <1>1, <2>1, <3>1, StringEndStep
  <2>4. StringEnd(t, q, j + d) =
          IF p[j] = "backslash" \/ (p[j] = q /\ p[j + 1] = q) THEN StringEnd(t, q, (j + d) + 2)
          ELSE IF p[j] = q THEN j + d ELSE StringEnd(t, q, (j + d) + 1)
    <3>1. ~(j + d >= Len(t)) /\ j + d \in Nat
      BY <1>1, <2>1
    <3>2. QED
      BY <1>1, <2>2, <3>1, StringEndStep
  <2>5. Same(j + 1) /\ Same(j + 2)
    BY <1>4, <2>1
  <2>6. (j + 1) + d = (j + d) + 1 /\ (j + 2) + d = (j + d) + 2 /\ j + 1 >= 1 /\ j + 2 >= 1
    BY <1>1, <2>1
  <2>7. QED
    BY <2>3, <2>4, <2>5, <2>6
<1>5. \A j \in Nat : j \in T
  <2> HIDE DEF T
  <2>1. QED
    BY <1>1, <1>3, <1>4, Downward
<1>6. QED
  BY <1>5

\* The same of a line comment,
LEMMA PartLine ==
    ASSUME NEW p, NEW t, NEW d, Part(p, t, d), NEW k \in Nat, k >= 1, LineEnd(p, k) < Len(p)
    PROVE  LineEnd(t, k + d) = LineEnd(p, k) + d
<1> DEFINE Same(j) == j >= 1 /\ LineEnd(p, j) < Len(p) => LineEnd(t, j + d) = LineEnd(p, j) + d
           T == {j \in Nat : Same(j)}
<1>1. /\ Len(p) \in Nat /\ Len(t) \in Nat /\ d \in Nat /\ Len(p) + d <= Len(t)
      /\ p \in Seq(Characters) /\ t \in Seq(Characters)
      /\ \A j \in 1 .. Len(p) : p[j] = t[j + d]
      /\ DOMAIN p = 1 .. Len(p) /\ DOMAIN t = 1 .. Len(t)
  BY DEF Part
<1>2. ASSUME NEW j \in Nat, j > Len(p) PROVE j \in T
  <2>1. LineEnd(p, j) = Len(p)
    BY <1>1, <1>2, LineEndStep
  <2>2. QED
    BY <1>1, <2>1
<1>3. ASSUME NEW j \in 0 .. Len(p), \A l \in Nat : l > j => l \in T PROVE j \in T
  <2> SUFFICES ASSUME j >= 1, LineEnd(p, j) < Len(p)
               PROVE  LineEnd(t, j + d) = LineEnd(p, j) + d
    BY <1>1
  <2>1. j \in Nat /\ j \in DOMAIN p /\ j + d \in DOMAIN t /\ j + d \in Nat /\ p[j] = t[j + d]
    BY <1>1
  <2>2. LineEnd(p, j) = IF p[j] = "newline" THEN j ELSE LineEnd(p, j + 1)
    BY <1>1, <2>1, LineEndStep
  <2>3. LineEnd(t, j + d) = IF p[j] = "newline" THEN j + d ELSE LineEnd(t, (j + d) + 1)
    BY <1>1, <2>1, LineEndStep
  <2>4. Same(j + 1) /\ (j + 1) + d = (j + d) + 1 /\ j + 1 >= 1
    BY <1>1, <1>3, <2>1
  <2>5. QED
    BY <2>2, <2>3, <2>4
<1>4. \A j \in Nat : j \in T
  <2> HIDE DEF T
  <2>1. QED
    BY <1>1, <1>2, <1>3, Downward
<1>5. QED
  BY <1>4

\* and of a block comment.
LEMMA PartBlock ==
    ASSUME NEW p, NEW t, NEW d, Part(p, t, d), NEW k \in Nat, k >= 1, BlockEnd(p, k) < Len(p)
    PROVE  BlockEnd(t, k + d) = BlockEnd(p, k) + d
<1> DEFINE Same(j) == j >= 1 /\ BlockEnd(p, j) < Len(p) => BlockEnd(t, j + d) = BlockEnd(p, j) + d
           T == {j \in Nat : Same(j)}
<1>1. /\ Len(p) \in Nat /\ Len(t) \in Nat /\ d \in Nat /\ Len(p) + d <= Len(t)
      /\ p \in Seq(Characters) /\ t \in Seq(Characters)
      /\ \A j \in 1 .. Len(p) : p[j] = t[j + d]
      /\ DOMAIN p = 1 .. Len(p) /\ DOMAIN t = 1 .. Len(t)
  BY DEF Part
<1>2. ASSUME NEW j \in Nat, j > Len(p) PROVE j \in T
  <2>1. BlockEnd(p, j) = Len(p)
    BY <1>1, <1>2, BlockEndStep
  <2>2. QED
    BY <1>1, <2>1
<1>3. ASSUME NEW j \in 0 .. Len(p), \A l \in Nat : l > j => l \in T PROVE j \in T
  <2> SUFFICES ASSUME j >= 1, BlockEnd(p, j) < Len(p)
               PROVE  BlockEnd(t, j + d) = BlockEnd(p, j) + d
    BY <1>1
  <2>1. j \in Nat /\ j \in DOMAIN p /\ j + d \in DOMAIN t /\ j + d \in Nat /\ p[j] = t[j + d]
    BY <1>1
  <2>2. BlockEnd(p, j) =
          IF At(p, j, "star") /\ At(p, j + 1, "slash") THEN j + 1 ELSE BlockEnd(p, j + 1)
    BY <1>1, <2>1, BlockEndStep
  <2>3. BlockEnd(t, j + d) = IF At(t, j + d, "star") /\ At(t, (j + d) + 1, "slash")
                             THEN (j + d) + 1 ELSE BlockEnd(t, (j + d) + 1)
    BY <1>1, <2>1, BlockEndStep
  <2>4. j + 1 \in Nat /\ (j + 1) + d = (j + d) + 1 /\ j + 1 >= 1 /\ j + 1 > j
    <3>1. j \in Nat /\ d \in Nat
      BY <1>1
    <3>2. QED
      BY <3>1
  <2>5. j # Len(p)
    <3>1. ASSUME j = Len(p) PROVE FALSE
      <4>1. ~At(p, j + 1, "slash") /\ j + 1 > Len(p)
        BY <1>1, <3>1 DEF At
      <4>2. BlockEnd(p, j + 1) = Len(p)
        BY <1>1, <2>4, <4>1, BlockEndStep
      <4>3. QED
        BY <1>1, <2>2, <4>1, <4>2
    <3>2. QED
      BY <3>1
  <2>6. j + 1 \in DOMAIN p /\ (j + d) + 1 \in DOMAIN t /\ p[j + 1] = t[(j + d) + 1]
    <3> DEFINE n == Len(p)
               m == Len(t)
    <3>1. n \in Nat /\ m \in Nat /\ d \in Nat /\ n + d <= m /\ j \in 0 .. n /\ j # n
      BY <1>1, <2>5
    <3> HIDE DEF n, m
    <3>2. j + 1 \in 1 .. n /\ (j + d) + 1 \in 1 .. m
      BY <3>1
    <3>3. QED
      BY <1>1, <2>4, <3>2 DEF n, m
  <2>7. At(p, j, "star") /\ At(p, j + 1, "slash") <=> At(t, j + d, "star") /\ At(t, (j + d) + 1, "slash")
    BY <2>1, <2>6 DEF At
  <2>8. Same(j + 1)
    BY <1>3, <2>4
  <2>9. QED
    BY <2>2, <2>3, <2>4, <2>7, <2>8
<1>4. \A j \in Nat : j \in T
  <2> HIDE DEF T
  <2>1. QED
    BY <1>1, <1>2, <1>3, Downward
<1>5. QED
  BY <1>4

\* Within the part the two texts have the same characters.
LEMMA PartAt ==
    ASSUME NEW p, NEW t, NEW d, Part(p, t, d), NEW k \in 1 .. Len(p)
    PROVE  /\ k + d \in DOMAIN t /\ p[k] = t[k + d]
           /\ \A c : At(p, k, c) <=> At(t, k + d, c)
<1>1. /\ Len(p) \in Nat /\ Len(t) \in Nat /\ d \in Nat /\ Len(p) + d <= Len(t)
      /\ DOMAIN p = 1 .. Len(p) /\ DOMAIN t = 1 .. Len(t) /\ p[k] = t[k + d]
  BY DEF Part
<1>2. k + d \in 1 .. Len(t)
  BY <1>1
<1>3. QED
  BY <1>1, <1>2 DEF At

\* A lexeme of p that ends before p does is one of t.
LEMMA PartLexeme ==
    ASSUME NEW p, NEW t, NEW d, Part(p, t, d), NEW k \in 1 .. Len(p), LexemeEnd(p, k) < Len(p)
    PROVE  LexemeEnd(t, k + d) = LexemeEnd(p, k) + d
<1>1. /\ Len(p) \in Nat /\ Len(t) \in Nat /\ d \in Nat /\ Len(p) + d <= Len(t)
      /\ p \in Seq(Characters) /\ t \in Seq(Characters)
      /\ DOMAIN p = 1 .. Len(p) /\ DOMAIN t = 1 .. Len(t)
  BY DEF Part
<1>2. /\ k \in Nat /\ k + d \in Nat /\ k + 1 \in Nat /\ k + 2 \in Nat
      /\ (k + 1) + d = (k + d) + 1 /\ (k + 2) + d = (k + d) + 2 /\ k + 1 >= 1 /\ k + 2 >= 1 /\ k >= 1
  BY <1>1
<1>3. p[k] = t[k + d] /\ \A c : At(p, k, c) <=> At(t, k + d, c)
  BY PartAt
<1>4. k + 1 \in DOMAIN p => \A c : At(p, k + 1, c) <=> At(t, (k + d) + 1, c)
  BY <1>1, <1>2, PartAt
<1>5. k + 2 \in DOMAIN p => (k + d) + 2 \in DOMAIN t /\ p[k + 2] = t[(k + d) + 2]
  BY <1>1, <1>2, PartAt
<1>6. CASE p[k] \in Quotes
  <2>1. LexemeEnd(p, k) = StringEnd(p, p[k], k + 1)
    BY <1>1, <1>2, <1>6, LexemeEnds
  <2>2. LexemeEnd(t, k + d) = StringEnd(t, p[k], (k + d) + 1)
    BY <1>1, <1>2, <1>3, <1>6, LexemeEnds
  <2>3. QED
    BY <1>2, <2>1, <2>2, PartString
<1>7. CASE LineCommentAt(p, k)
  <2>1. LexemeEnd(p, k) = LineEnd(p, k) /\ LineEnd(p, k) = LineEnd(p, k + 1)
    BY <1>1, <1>2, <1>7, LexemeEnds
  <2>2. At(p, k, "dash") => k + 2 \in DOMAIN p
    <3> SUFFICES ASSUME At(p, k, "dash"), k + 2 \notin DOMAIN p PROVE FALSE
      OBVIOUS
    <3>1. k + 1 \in DOMAIN p
      BY <1>7 DEF LineCommentAt, At
    <3> DEFINE n == Len(p)
    <3>2. n \in Nat /\ k + 1 \in 1 .. n /\ ~(k + 2 \in 1 .. n) /\ k \in Nat
      BY <1>1, <1>2, <3>1
    <3> HIDE DEF n
    <3>2a. k + 1 = n
      BY <3>2
    <3>3. LineEnd(p, k + 1) = Len(p)
      <4>1. k + 1 <= Len(p) => k + 1 <= LineEnd(p, k + 1)
        BY <1>1, <1>2, LineEndStep
      <4>2. LineEnd(p, k + 1) \in 0 .. Len(p)
        BY <1>1, <1>2, LineEndStep
      <4>3. QED
        BY <3>2, <3>2a, <4>1, <4>2 DEF n
    <3>4. QED
      BY <1>1, <2>1, <3>3
  <2>3. LineCommentAt(t, k + d)
    <3>1. CASE At(p, k, "hash")
      BY <1>3, <3>1 DEF LineCommentAt
    <3>2. CASE At(p, k, "dash")
      <4>1. At(p, k + 1, "dash") /\ k + 1 \in DOMAIN p /\ p[k + 2] \in Blanks
        BY <1>7, <2>2, <3>2 DEF LineCommentAt, At
      <4>2. QED
        BY <1>3, <1>4, <1>5, <2>2, <3>2, <4>1 DEF LineCommentAt
    <3>3. QED
      BY <1>7, <3>1, <3>2 DEF LineCommentAt
  <2>4. LexemeEnd(t, k + d) = LineEnd(t, k + d)
    BY <1>1, <1>2, <2>3, LexemeEnds
  <2>5. QED
    BY <1>2, <2>1, <2>4, PartLine
<1>8. CASE BlockCommentAt(p, k)
  <2>1. LexemeEnd(p, k) = BlockEnd(p, k + 2) /\ k + 1 \in DOMAIN p
    BY <1>1, <1>2, <1>8, LexemeEnds DEF BlockCommentAt, At
  <2>2. BlockCommentAt(t, k + d)
    BY <1>3, <1>4, <1>8, <2>1 DEF BlockCommentAt
  <2>3. LexemeEnd(t, k + d) = BlockEnd(t, (k + d) + 2)
    BY <1>1, <1>2, <2>2, LexemeEnds
  <2>4. QED
    BY <1>2, <2>1, <2>3, PartBlock
<1>9. CASE p[k] \notin Quotes /\ ~LineCommentAt(p, k) /\ ~BlockCommentAt(p, k)
  <2>1. LexemeEnd(p, k) = k
    BY <1>1, <1>2, <1>9, LexemeEnds
  <2>2. k + 1 \in DOMAIN p
    <3>1. k < Len(p)
      BY <2>1
    <3>2. QED
      BY <1>1, <3>1
  <2>3. ~BlockCommentAt(t, k + d)
    BY <1>3, <1>4, <1>9, <2>2 DEF BlockCommentAt
  <2>4. ~LineCommentAt(t, k + d)
    <3>1. ~At(t, k + d, "hash")
      BY <1>3, <1>9 DEF LineCommentAt
    <3>2. ASSUME At(t, k + d, "dash"), At(t, (k + d) + 1, "dash")
          PROVE  (k + d) + 2 \in DOMAIN t /\ t[(k + d) + 2] \notin Blanks
      <4>1. At(p, k, "dash") /\ At(p, k + 1, "dash")
        BY <1>3, <1>4, <2>2, <3>2
      <4>2. k + 2 \in DOMAIN p /\ p[k + 2] \notin Blanks
        BY <1>9, <4>1 DEF LineCommentAt
      <4>3. QED
        BY <1>5, <4>2
    <3>3. QED
      BY <3>1, <3>2 DEF LineCommentAt
  <2>5. LexemeEnd(t, k + d) = k + d
    BY <1>1, <1>2, <1>3, <1>9, <2>3, <2>4, LexemeEnds
  <2>6. QED
    BY <2>1, <2>5
<1>10. QED
  BY <1>6, <1>7, <1>8, <1>9

\* If k is where a lexeme of t begins, all lexemes of p from there on are lexemes of t.
LEMMA PartStarts ==
    ASSUME NEW p, NEW t, NEW d, Part(p, t, d), NEW k \in Nat, k >= 1,
           k > Len(p) \/ k + d \in LexemeStarts(t)
    PROVE  \A j \in StartsFrom(p, k) : j \in 1 .. Len(p) /\ j + d \in LexemeStarts(t)
<1> DEFINE Kept(l) == l >= 1 /\ (l > Len(p) \/ l + d \in LexemeStarts(t)) =>
                        \A j \in StartsFrom(p, l) : j + d \in LexemeStarts(t)
           T == {l \in Nat : Kept(l)}
<1>1. /\ Len(p) \in Nat /\ Len(t) \in Nat /\ d \in Nat /\ Len(p) + d <= Len(t)
      /\ p \in Seq(Characters) /\ t \in Seq(Characters)
  BY DEF Part
<1>2. ASSUME NEW l \in Nat, l > Len(p) PROVE l \in T
  <2>1. StartsFrom(p, l) = {}
    BY <1>1, <1>2, StartsFromStep
  <2>2. QED
    BY <2>1
<1>3. ASSUME NEW l \in 0 .. Len(p), \A x \in Nat : x > l => x \in T PROVE l \in T
  <2> SUFFICES ASSUME l >= 1, l + d \in LexemeStarts(t)
               PROVE  \A j \in StartsFrom(p, l) : j + d \in LexemeStarts(t)
    BY <1>1
  <2> DEFINE e == LexemeEnd(p, l)
  <2>1. l \in Nat /\ l \in 1 .. Len(p) /\ l \in 0 .. Len(p) /\ ~(l > Len(p))
    BY <1>1
  <2>2. e \in l .. Len(p)
    BY <1>1, <2>1, LexemeEndRange
  <2>3. StartsFrom(p, l) = {l} \cup StartsFrom(p, e + 1)
    BY <1>1, <2>1, StartsFromStep
  <2> HIDE DEF e
  <2>4. e + 1 \in Nat /\ e + 1 > l /\ e + 1 >= 1 /\ (e >= Len(p) => e + 1 > Len(p))
    BY <1>1, <2>1, <2>2
  <2>5. Kept(e + 1)
    BY <1>3, <2>4
  <2>6. e < Len(p) => (e + 1) + d \in LexemeStarts(t)
    <3> SUFFICES ASSUME e < Len(p) PROVE (e + 1) + d \in LexemeStarts(t)
      OBVIOUS
    <3>1. LexemeEnd(t, l + d) = e + d
      BY <2>1, PartLexeme DEF e
    <3>2. LexemeEnd(t, l + d) + 1 \in LexemeStarts(t) \/ LexemeEnd(t, l + d) = Len(t)
      BY <1>1, StartsChain DEF LexemeStarts
    <3>3. e + d # Len(t) /\ (e + d) + 1 = (e + 1) + d
      BY <1>1, <2>2
    <3>4. QED
      BY <3>1, <3>2, <3>3
  <2>7. e < Len(p) \/ e >= Len(p)
    BY <1>1, <2>2
  <2>8. QED
    BY <2>3, <2>4, <2>5, <2>6, <2>7
<1>4. \A l \in Nat : l \in T
  <2> HIDE DEF T
  <2>1. QED
    BY <1>1, <1>2, <1>3, Downward
<1>5. \A j \in StartsFrom(p, k) : j \in k .. Len(p)
  BY <1>1, StartsChain
<1>6. \A j \in k .. Len(p) : j \in 1 .. Len(p)
  BY <1>1
<1>7. QED
  BY <1>4, <1>5, <1>6

\* A part that begins with a lexeme of t has no separators and no marks but those of t.
LEMMA PartKeeps ==
    ASSUME NEW p, NEW t, NEW d, Part(p, t, d), Len(p) = 0 \/ d + 1 \in LexemeStarts(t)
    PROVE  /\ \A j \in Separators(p) : j \in 1 .. Len(p) /\ j + d \in Separators(t)
           /\ HasSlashStarSlash(p) => HasSlashStarSlash(t)
<1>1. /\ Len(p) \in Nat /\ Len(t) \in Nat /\ d \in Nat /\ Len(p) + d <= Len(t)
      /\ DOMAIN p = 1 .. Len(p)
  BY DEF Part
<1>2. 1 > Len(p) \/ 1 + d \in LexemeStarts(t)
  BY <1>1
<1>3. \A j \in LexemeStarts(p) : j \in 1 .. Len(p) /\ j + d \in LexemeStarts(t)
  BY <1>2, PartStarts DEF LexemeStarts
<1>4. \A j \in Separators(p) : j \in 1 .. Len(p) /\ j + d \in Separators(t)
  BY <1>3, PartAt DEF Separators
<1>5. ASSUME NEW j \in LexemeStarts(p), BlockCommentAt(p, j), At(p, j + 2, "slash")
      PROVE  HasSlashStarSlash(t)
  <2>1. /\ j \in 1 .. Len(p) /\ j + 1 \in 1 .. Len(p) /\ j + 2 \in 1 .. Len(p)
        /\ j + d \in LexemeStarts(t)
    BY <1>1, <1>3, <1>5 DEF BlockCommentAt, At
  <2>2. (j + 1) + d = (j + d) + 1 /\ (j + 2) + d = (j + d) + 2
    BY <1>1, <2>1
  <2>3. BlockCommentAt(t, j + d) /\ At(t, (j + d) + 2, "slash")
    BY <1>5, <2>1, <2>2, PartAt DEF BlockCommentAt
  <2>4. QED
    BY <2>1, <2>3 DEF HasSlashStarSlash
<1>6. QED
  BY <1>4, <1>5 DEF HasSlashStarSlash

\* A slice of a text is a part of it.
LEMMA SliceIsPart ==
    ASSUME NEW t \in Seq(Characters), NEW m \in 1 .. (Len(t) + 1), NEW n \in (m - 1) .. Len(t)
    PROVE  Part(SubSeq(t, m, n), t, m - 1) /\ Len(SubSeq(t, m, n)) = (n - m) + 1
<1>1. Len(t) \in Nat /\ m \in Nat /\ n \in Nat /\ m - 1 \in Nat /\ (n - m) + 1 \in Nat
  OBVIOUS
<1>2. \A k \in m .. n : t[k] \in Characters
  BY <1>1
<1>3. /\ SubSeq(t, m, n) \in Seq(Characters)
      /\ Len(SubSeq(t, m, n)) = (n - m) + 1
      /\ \A k \in 1 .. ((n - m) + 1) : SubSeq(t, m, n)[k] = t[(m + k) - 1]
  BY <1>1, <1>2
<1>4. \A k \in 1 .. ((n - m) + 1) : (m + k) - 1 = k + (m - 1)
  BY <1>1
<1>5. ((n - m) + 1) + (m - 1) <= Len(t)
  BY <1>1
<1>6. QED
  BY <1>1, <1>3, <1>4, <1>5 DEF Part

\* What is left of a text without the white space around it begins with a lexeme of
\* the text: white space outside strings and comments is made of one-character lexemes.
LEMMA TrimmedPart ==
    ASSUME NEW p \in Seq(Characters), trimSpace(p) # <<>>
    PROVE  \E d \in Nat : Part(trimSpace(p), p, d) /\ d + 1 \in LexemeStarts(p)
<1> DEFINE ink == {k \in DOMAIN p : p[k] \notin Blanks \cup {"vtab"}}
           lo == Min(ink)
           hi == Max(ink)
<1>1. Len(p) \in Nat /\ DOMAIN p = 1 .. Len(p)
  OBVIOUS
<1>2. ink # {} /\ trimSpace(p) = SubSeq(p, lo, hi)
  BY DEF trimSpace
<1>3. ink \subseteq Nat /\ \A x \in ink : x <= Len(p)
  BY <1>1
<1>4. lo \in ink /\ \A x \in ink : lo <= x
  <2> HIDE DEF ink
  <2>1. QED
    BY <1>2, <1>3, MinOf
<1>5. hi \in ink /\ \A x \in ink : x <= hi
  <2> HIDE DEF ink
  <2>1. PICK x \in ink : \A y \in ink : y <= x
    BY <1>1, <1>2, <1>3, Greatest
  <2>2. \A y \in ink : x >= y
    BY <1>3, <2>1
  <2>3. hi \in ink /\ \A y \in ink : hi >= y
    BY <2>2 DEF Max
  <2>4. QED
    BY <1>3, <2>3
<1>6. lo \in 1 .. Len(p) /\ hi \in lo .. Len(p)
  <2>1. lo \in 1 .. Len(p) /\ hi \in 1 .. Len(p) /\ lo <= hi
    BY <1>1, <1>4, <1>5
  <2> HIDE DEF lo, hi
  <2>2. QED
    BY <1>1, <2>1
<1>7. \A k \in 1 .. Len(p) : k < lo => p[k] \in Blanks \cup {"vtab"}
  <2> SUFFICES ASSUME NEW k \in 1 .. Len(p), k < lo, p[k] \notin Blanks \cup {"vtab"} PROVE FALSE
    OBVIOUS
  <2>1. k \in ink
    BY <1>1
  <2>2. lo <= k
    BY <1>4, <2>1
  <2> HIDE DEF lo
  <2>3. QED
    BY <1>6, <2>2
<1> HIDE DEF lo, hi, ink
<1> DEFINE T == {n \in Nat : n < lo => n + 1 \in LexemeStarts(p)}
<1>8. 0 \in T
  <2>1. ~(1 > Len(p))
    BY <1>1, <1>6
  <2>2. StartsFrom(p, 1) = {1} \cup StartsFrom(p, LexemeEnd(p, 1) + 1)
    BY <2>1, StartsFromStep
  <2>3. QED
    BY <2>2 DEF LexemeStarts
<1>9. ASSUME NEW n \in Nat, n \in T PROVE n + 1 \in T
  <2> SUFFICES ASSUME n + 1 < lo PROVE (n + 1) + 1 \in LexemeStarts(p)
    OBVIOUS
  <2> DEFINE len == Len(p)
  <2>0. n < lo /\ n + 1 \in 1 .. len /\ n + 1 # len
    <3>1. len \in Nat /\ lo \in 1 .. len
      BY <1>1, <1>6
    <3> HIDE DEF len
    <3>2. QED
      BY <3>1
  <2>1. n + 1 \in LexemeStarts(p) /\ n + 1 \in 1 .. Len(p) /\ n + 1 # Len(p)
    BY <1>9, <2>0
  <2>2. p[n + 1] \in Blanks \cup {"vtab"}
    BY <1>7, <2>1
  <2>3. LexemeEnd(p, n + 1) = n + 1
    BY <2>1, <2>2, LexemeEnds DEF Quotes, Blanks, LineCommentAt, BlockCommentAt, At
  <2>4. LexemeEnd(p, n + 1) + 1 \in LexemeStarts(p) \/ LexemeEnd(p, n + 1) = Len(p)
    BY <2>1, StartsChain DEF LexemeStarts
  <2>5. QED
    BY <2>1, <2>3, <2>4
<1>10. \A n \in Nat : n \in T
  <2> HIDE DEF T
  <2>1. QED
    BY <1>8, <1>9, Upward
<1>11. lo - 1 \in Nat /\ lo - 1 < lo /\ (lo - 1) + 1 = lo
  BY <1>6
<1>12. (lo - 1) + 1 \in LexemeStarts(p)
  BY <1>10, <1>11
<1>13. Part(SubSeq(p, lo, hi), p, lo - 1)
  <2>1. lo \in 1 .. (Len(p) + 1) /\ hi \in (lo - 1) .. Len(p)
    BY <1>1, <1>6
  <2>2. QED
    BY <2>1, SliceIsPart
<1>14. QED
  BY <1>2, <1>11, <1>12, <1>13

-----------------------------------------------------------------------------
(* The tiling.                                                             *)

\* Until the end is reached, the current group begins at or before the scanner: a
\* group that is cut off there is empty at worst.
IInv ==
    /\ TypeOK
    /\ GroupsTileText
    /\ state # "done" => start <= i

\* A scan begins with an empty group at the first character.
LEMMA InitInv == Init => IInv
BY SplitterAssumption DEF Init, IInv, TypeOK, GroupsTileText

\* The group from start to the character before the scanner, with or without a
\* semicolon after it, continues the tiling.
LEMMA Appended ==
    ASSUME IInv, state # "done",
           NEW last \in Nat, start <= last + 1, last + 2 \in Nat,
           groups' = Append(groups, [from |-> start, to |-> last]), text' = text,
           \/ state' = "done" /\ last = Len(text)
           \/ state' # "done" /\ start' = last + 2 /\ text[last + 1] = "semicolon"
    PROVE  GroupsTileText'
<1> DEFINE new == [from |-> start, to |-> last]
           end == IF state' = "done" THEN Len(text) + 2 ELSE start'
<1>1. groups \in Seq([from : Nat, to : Nat]) /\ new \in [from : Nat, to : Nat]
  BY DEF IInv, TypeOK
<1> HIDE DEF new
<1>2. /\ Len(groups') = Len(groups) + 1 /\ Len(groups) \in Nat
      /\ groups'[Len(groups) + 1] = new
      /\ \A k \in 1 .. Len(groups) : groups'[k] = groups[k] /\ groups[k] \in [from : Nat, to : Nat]
  <2>1. groups' = Append(groups, new)
    BY DEF new
  <2>2. /\ Len(Append(groups, new)) = Len(groups) + 1 /\ Append(groups, new)[Len(groups) + 1] = new
        /\ \A k \in 1 .. Len(groups) : Append(groups, new)[k] = groups[k]
    BY <1>1, AppendProperties
  <2>3. Len(groups) \in Nat /\ \A k \in 1 .. Len(groups) : groups[k] \in [from : Nat, to : Nat]
    BY <1>1, LenProperties, ElementOfSeq
  <2>4. QED
    BY <2>1, <2>2, <2>3
<1>3. start = (IF groups = <<>> THEN 1 ELSE groups[Len(groups)].to + 2)
  BY <1>1, <1>2 DEF IInv, GroupsTileText
<1>4. last + 2 = end
  OBVIOUS
<1>5. ASSUME NEW k \in 1 .. (Len(groups) + 1)
      PROVE  /\ groups'[k].from = (IF k = 1 THEN 1 ELSE groups'[k - 1].to + 2)
             /\ groups'[k].to + 2 = (IF k = Len(groups') THEN end ELSE groups'[k + 1].from)
             /\ groups'[k].from <= groups'[k].to + 1
             /\ k < Len(groups') \/ state' # "done" => text[groups'[k].to + 1] = "semicolon"
  <2>1. CASE k = Len(groups) + 1
    <3>1. groups'[k].from = start /\ groups'[k].to = last /\ k = Len(groups')
      BY <1>2, <2>1 DEF new
    <3>2. k # 1 => groups # <<>> /\ groups'[k - 1] = groups[Len(groups)]
      BY <1>2, <2>1
    <3>3. k = 1 => groups = <<>>
      BY <1>1, <1>2, <2>1
    <3>4. QED
      BY <1>3, <1>4, <2>1, <3>1, <3>2, <3>3
  <2>2. CASE k \in 1 .. Len(groups)
    <3> k \in DOMAIN groups
      BY <1>1, <2>2
    <3>1. /\ groups[k].from = (IF k = 1 THEN 1 ELSE groups[k - 1].to + 2)
          /\ groups[k].to + 2 = (IF k = Len(groups) THEN start ELSE groups[k + 1].from)
          /\ groups[k].from <= groups[k].to + 1
          /\ text[groups[k].to + 1] = "semicolon"
      BY DEF IInv, GroupsTileText
    <3>2. k + 1 \in 1 .. Len(groups) + 1 /\ (k # 1 => k - 1 \in 1 .. Len(groups))
      BY <1>2, <2>2
    <3>3. QED
      BY <1>2, <2>2, <3>1, <3>2
  <2>3. QED
    BY <1>2, <2>1, <2>2
<1>6. groups' # <<>> /\ DOMAIN groups' = 1 .. (Len(groups) + 1)
  <2>1. groups' \in Seq([from : Nat, to : Nat])
    BY <1>1, AppendProperties DEF new
  <2>2. groups' # <<>>
    BY <1>1, AppendProperties DEF new
  <2>3. QED
    BY <1>2, <2>1, <2>2
<1>7. QED
  BY <1>5, <1>6 DEF GroupsTileText

\* Every case of the scanner's switch, and the end of the text, keep the invariant.
LEMMA NextInv == IInv /\ [Next]_vars => IInv'
<1> SUFFICES ASSUME IInv, [Next]_vars PROVE IInv'
  OBVIOUS
<1>1. text \in Seq(Characters) /\ DOMAIN text = 1 .. Len(text) /\ Len(text) \in Nat
      /\ i \in Nat /\ start \in Nat
  BY DEF IInv, TypeOK
<1>2. ASSUME NEW n \in 1 .. 2, NEW s \in Quotes \cup {"normal", "line", "block"},
             Take(n, s), Uncut, i + n <= Len(text) + 1, state # "done"
      PROVE  IInv'
  <2>1. s # "done"
    BY <1>2 DEF Quotes
  <2>2. TypeOK'
    BY <1>1, <1>2 DEF Take, Uncut, IInv, TypeOK
  <2>3. GroupsTileText'
    BY <1>2, <2>1 DEF Take, Uncut, IInv, GroupsTileText
  <2>4. start' <= i'
    BY <1>1, <1>2 DEF Take, Uncut, IInv
  <2>5. QED
    BY <2>2, <2>3, <2>4 DEF IInv
<1>3. CASE Cut
  <2>1. i \in DOMAIN text /\ text[i] = "semicolon" /\ state = "normal"
    BY <1>3 DEF Cut, At
  <2>2. /\ text' = text /\ i' = i + 1 /\ state' = "normal" /\ start' = i + 1
        /\ groups' = Append(groups, [from |-> start, to |-> i - 1])
    BY <1>3 DEF Cut, Take
  <2>3. TypeOK'
    BY <1>1, <2>1, <2>2 DEF IInv, TypeOK
  <2>4. GroupsTileText'
    <3>1. i - 1 \in Nat /\ start <= (i - 1) + 1 /\ (i - 1) + 2 = i + 1 /\ (i - 1) + 1 = i
      BY <1>1, <2>1 DEF IInv
    <3>2. QED
      BY <2>1, <2>2, <3>1, Appended
  <2>5. QED
    BY <1>1, <2>2, <2>3, <2>4 DEF IInv
<1>4. CASE Finish
  <2>1. /\ state # "done" /\ state' = "done" /\ text' = text /\ i' = i /\ start' = start
        /\ groups' = Append(groups, [from |-> start, to |-> Len(text)])
    BY <1>4 DEF Finish
  <2>2. TypeOK'
    BY <1>1, <2>1 DEF IInv, TypeOK
  <2>3. GroupsTileText'
    <3>1. start <= Len(text) + 1
      BY DEF IInv, TypeOK
    <3>2. Len(text) \in Nat /\ Len(text) + 2 \in Nat
      BY <1>1
    <3>3. QED
      BY <2>1, <3>1, <3>2, Appended
  <2>4. QED
    BY <2>1, <2>2, <2>3 DEF IInv
<1>5. CASE OpenQuote
  BY <1>1, <1>2, <1>5 DEF OpenQuote
<1>6. CASE OpenLineComment
  BY <1>1, <1>2, <1>6 DEF OpenLineComment
<1>7. CASE OpenBlockComment
  BY <1>1, <1>2, <1>7 DEF OpenBlockComment
<1>8. CASE Code
  BY <1>1, <1>2, <1>8 DEF Code
<1>9. CASE Escape
  BY <1>1, <1>2, <1>9 DEF Escape, Quotes
<1>10. CASE DoubledQuote
  BY <1>1, <1>2, <1>10 DEF DoubledQuote, At, Quotes
<1>11. CASE CloseQuote
  BY <1>1, <1>2, <1>11 DEF CloseQuote, At, Quotes
<1>12. CASE Quoted
  BY <1>1, <1>2, <1>12 DEF Quoted, Quotes
<1>13. CASE InLineComment
  BY <1>1, <1>2, <1>13 DEF InLineComment
<1>14. CASE InBlockComment
  BY <1>1, <1>2, <1>14 DEF InBlockComment, At
<1>15. CASE UNCHANGED vars
  BY <1>15 DEF vars, IInv, TypeOK, GroupsTileText
<1>16. QED
  BY <1>3, <1>4, <1>5, <1>6, <1>7, <1>8, <1>9, <1>10, <1>11, <1>12, <1>13, <1>14, <1>15
     DEF Next, Scan

\* Splitter has its invariant in every state.
LEMMA Inductive == Spec => []IInv
BY InitInv, NextInv, PTL DEF Spec

\* The scanner stays within the text, one past its last character at most, also
\* after an escape or a closing mark of two characters.
THEOREM Typed == Spec => []TypeOK
<1>1. IInv => TypeOK
  BY DEF IInv
<1>2. QED
  BY <1>1, Inductive, PTL

\* Nothing of a text, however long, is lost, repeated or reordered by cutting it.
THEOREM NothingLost == Spec => []GroupsTileText
<1>1. IInv => GroupsTileText
  BY DEF IInv
<1>2. QED
  BY <1>1, Inductive, PTL

-----------------------------------------------------------------------------
(* The scanner finds the lexemes.                                          *)

\* Where the lexeme ends that the scanner is in; in code, the position before it.
Behind(t, s, k) ==
    IF s \in Quotes THEN StringEnd(t, s, k)
    ELSE IF s = "line" THEN LineEnd(t, k)
    ELSE IF s = "block" THEN BlockEnd(t, k) ELSE k - 1

\* The separators among the lexemes that are still to come.
Ahead(t, k) == {j \in StartsFrom(t, k) : t[j] = "semicolon"}

\* The semicolons cut at.
CutAt == {groups[k].to + 1 : k \in 1 .. (IF state = "done" THEN Len(groups) - 1 ELSE Len(groups))}

\* The scanner has cut at the separators it has passed, and its next lexeme is one.
Located ==
    ~HasSlashStarSlash(text) =>
        LET next == IF state = "done" THEN Len(text) + 1 ELSE Behind(text, state, i) + 1 IN
        /\ StartsFrom(text, next) \subseteq LexemeStarts(text)
        /\ Separators(text) = CutAt \cup Ahead(text, next)

\* A character in code begins the lexeme the scanner goes on in.
LEMMA Opens ==
    ASSUME TypeOK, i \in DOMAIN text, state = "normal", text[i] # "semicolon",
           OpenQuote \/ OpenLineComment \/ OpenBlockComment \/ Code,
           ~(BlockCommentAt(text, i) /\ At(text, i + 2, "slash"))
    PROVE  Behind(text, state', i') = LexemeEnd(text, i)
<1>1. text \in Seq(Characters) /\ i \in Nat /\ DOMAIN text = 1 .. Len(text) /\ Len(text) \in Nat
  BY DEF TypeOK
<1>2. CASE OpenQuote
  <2>1. text[i] \in Quotes /\ i' = i + 1 /\ state' = text[i]
    BY <1>2 DEF OpenQuote, Take
  <2>2. QED
    BY <1>1, <2>1, LexemeEnds DEF Behind
<1>3. CASE OpenLineComment
  <2>1. LineCommentAt(text, i) /\ i' = i + 1 /\ state' = "line"
    BY <1>3 DEF OpenLineComment, OpensLineComment, startsLineComment, LineCommentAt, At, Take
  <2>2. QED
    BY <1>1, <2>1, LexemeEnds DEF Behind, Quotes
<1>4. CASE OpenBlockComment
  <2>1. BlockCommentAt(text, i) /\ i' = i + 1 /\ state' = "block"
    BY <1>4 DEF OpenBlockComment, OpensBlockComment, BlockCommentAt, At, Take
  <2>2. LexemeEnd(text, i) = BlockEnd(text, i + 2)
    BY <1>1, <2>1, LexemeEnds
  <2>3. i + 1 \in DOMAIN text /\ i + 1 \in Nat /\ (i + 1) + 1 = i + 2
    BY <1>1, <2>1 DEF BlockCommentAt, At
  <2>4. ~At(text, i + 2, "slash")
    BY <2>1
  <2>5. BlockEnd(text, i + 1) = BlockEnd(text, i + 2)
    BY <1>1, <2>3, <2>4, BlockEndStep
  <2>6. QED
    BY <2>1, <2>2, <2>5 DEF Behind, Quotes
<1>5. CASE Code
  <2>1. /\ text[i] \notin Quotes /\ ~LineCommentAt(text, i) /\ ~BlockCommentAt(text, i)
        /\ i' = i + 1 /\ state' = "normal"
    BY <1>5 DEF Code, OpensLineComment, OpensBlockComment, startsLineComment,
                LineCommentAt, BlockCommentAt, At, Take
  <2>2. LexemeEnd(text, i) = i
    BY <1>1, <2>1, LexemeEnds
  <2>3. QED
    BY <1>1, <2>1, <2>2 DEF Behind, Quotes
<1>6. QED
  BY <1>2, <1>3, <1>4, <1>5

\* A character in a string or a comment leaves it where it ends.
LEMMA Stays ==
    ASSUME TypeOK, state \in Quotes \cup {"line", "block"},
           Escape \/ DoubledQuote \/ CloseQuote \/ Quoted \/ InLineComment \/ InBlockComment
    PROVE  Behind(text, state', i') = Behind(text, state, i)
<1>1. text \in Seq(Characters) /\ i \in Nat /\ DOMAIN text = 1 .. Len(text) /\ Len(text) \in Nat
  BY DEF TypeOK
<1>2. ASSUME state \in Quotes
      PROVE  /\ state # "backslash" /\ state # "normal" /\ "normal" \notin Quotes
             /\ Behind(text, state, i) = StringEnd(text, state, i)
             /\ StringEnd(text, state, i) =
                  IF i >= Len(text) THEN Len(text)
                  ELSE IF text[i] = "backslash" \/ (text[i] = state /\ text[i + 1] = state)
                       THEN StringEnd(text, state, i + 2)
                  ELSE IF text[i] = state THEN i ELSE StringEnd(text, state, i + 1)
             /\ StringEnd(text, state, Len(text) + 1) = Len(text)
  BY <1>1, <1>2, StringEndStep DEF Behind, Quotes
<1>3. CASE Escape
  <2>1. /\ state \in Quotes /\ i < Len(text) /\ text[i] = "backslash"
        /\ i' = i + 2 /\ state' = state
    BY <1>1, <1>3 DEF Escape, At, Take
  <2>2. QED
    BY <1>1, <1>2, <2>1 DEF Behind
<1>4. CASE DoubledQuote
  <2>1. /\ state \in Quotes /\ i < Len(text) /\ text[i] = state /\ text[i + 1] = state
        /\ i' = i + 2 /\ state' = state
    BY <1>1, <1>4 DEF DoubledQuote, At, Take
  <2>2. QED
    BY <1>1, <1>2, <2>1 DEF Behind
<1>5. CASE CloseQuote
  <2>1. /\ state \in Quotes /\ i \in 1 .. Len(text) /\ text[i] = state
        /\ i < Len(text) => text[i + 1] # state
        /\ i' = i + 1 /\ state' = "normal"
    BY <1>1, <1>5 DEF CloseQuote, At, Take
  <2>2. StringEnd(text, state, i) = i
    BY <1>1, <1>2, <2>1
  <2>3. Behind(text, state', i') = (i + 1) - 1 /\ (i + 1) - 1 = i
    BY <1>1, <1>2, <2>1 DEF Behind, Quotes
  <2>4. QED
    BY <1>2, <2>1, <2>2, <2>3
<1>6. CASE Quoted
  <2>1. /\ state \in Quotes /\ i \in DOMAIN text /\ text[i] # state
        /\ text[i] = "backslash" => i + 1 \notin DOMAIN text
        /\ i' = i + 1 /\ state' = state
    BY <1>6 DEF Quoted, Take
  <2>2. StringEnd(text, state, i) = StringEnd(text, state, i + 1)
    <3>1. CASE i = Len(text)
      BY <1>2, <2>1, <3>1
    <3>2. CASE i < Len(text)
      <4>1. ~(i >= Len(text)) /\ i + 1 \in DOMAIN text
        BY <1>1, <3>2
      <4>2. QED
        BY <1>2, <2>1, <4>1
    <3>3. i \in Nat /\ Len(text) \in Nat /\ i <= Len(text)
      BY <1>1, <2>1
    <3>4. i = Len(text) \/ i < Len(text)
      BY <3>3
    <3>5. QED
      BY <3>1, <3>2, <3>4
  <2>3. QED
    BY <1>2, <2>1, <2>2 DEF Behind
<1>7. CASE InLineComment
  <2>1. /\ state = "line" /\ i \in DOMAIN text /\ i' = i + 1
        /\ state' = IF text[i] = "newline" THEN "normal" ELSE "line"
    BY <1>7 DEF InLineComment, Take
  <2>2. LineEnd(text, i) = IF text[i] = "newline" THEN i ELSE LineEnd(text, i + 1)
    BY <1>1, <2>1, LineEndStep
  <2>3. (i + 1) - 1 = i
    BY <1>1
  <2>4. QED
    BY <2>1, <2>2, <2>3 DEF Behind, Quotes
<1>8. CASE InBlockComment
  <2>1. /\ state = "block" /\ i \in DOMAIN text
        /\ IF At(text, i, "star") /\ At(text, i + 1, "slash")
           THEN i' = i + 2 /\ state' = "normal" ELSE i' = i + 1 /\ state' = "block"
    BY <1>8 DEF InBlockComment, Take
  <2>2. BlockEnd(text, i) =
          IF At(text, i, "star") /\ At(text, i + 1, "slash") THEN i + 1 ELSE BlockEnd(text, i + 1)
    BY <1>1, <2>1, BlockEndStep
  <2>3. (i + 2) - 1 = i + 1
    BY <1>1
  <2>4. QED
    BY <2>1, <2>2, <2>3 DEF Behind, Quotes
<1>9. QED
  BY <1>3, <1>4, <1>5, <1>6, <1>7, <1>8

\* A scan begins at the first lexeme, having cut nothing,
LEMMA InitLocated == Init => Located
<1> SUFFICES ASSUME Init PROVE Located
  OBVIOUS
<1>1. state = "normal" /\ i = 1 /\ groups = <<>>
  BY DEF Init
<1>2. Behind(text, state, i) + 1 = 1
  BY <1>1 DEF Behind, Quotes
<1>3. CutAt = {}
  BY <1>1 DEF CutAt
<1>4. QED
  BY <1>1, <1>2, <1>3 DEF Located, LexemeStarts, Separators, Ahead

\* stays in step with the lexemes,
LEMMA ScanLocated ==
    ASSUME IInv, IInv', Located, [Next]_vars
    PROVE  Located'
<1>1. text \in Seq(Characters) /\ i \in Nat /\ DOMAIN text = 1 .. Len(text) /\ Len(text) \in Nat
  BY DEF IInv, TypeOK
<1>2. text' = text /\ (HasSlashStarSlash(text)' <=> HasSlashStarSlash(text))
  BY DEF Next, Scan, Finish, Cut, OpenQuote, OpenLineComment, OpenBlockComment, Code, Escape,
         DoubledQuote, CloseQuote, Quoted, InLineComment, InBlockComment, Uncut, vars
<1>3. CASE HasSlashStarSlash(text)
  BY <1>2, <1>3 DEF Located
<1> SUFFICES ASSUME ~HasSlashStarSlash(text) PROVE Located'
  BY <1>3
<1> DEFINE next == IF state = "done" THEN Len(text) + 1 ELSE Behind(text, state, i) + 1
<1>4. /\ StartsFrom(text, next) \subseteq LexemeStarts(text)
      /\ Separators(text) = CutAt \cup Ahead(text, next)
  BY DEF Located
<1>5. ASSUME next' = next, CutAt' = CutAt PROVE Located'
  BY <1>2, <1>4, <1>5 DEF Located
<1>6. ASSUME state = "normal", i \in DOMAIN text
      PROVE  next = i /\ StartsFrom(text, i) = {i} \cup StartsFrom(text, LexemeEnd(text, i) + 1)
             /\ i \in LexemeStarts(text)
  <2>1. next = i
    BY <1>1, <1>6 DEF Behind, Quotes
  <2>2. StartsFrom(text, i) = {i} \cup StartsFrom(text, LexemeEnd(text, i) + 1)
    BY <1>1, <1>6, StartsFromStep
  <2>3. QED
    BY <1>4, <2>1, <2>2
<1>7. CASE OpenQuote \/ OpenLineComment \/ OpenBlockComment \/ Code
  <2>1. i \in DOMAIN text /\ state = "normal" /\ groups' = groups /\ state' # "done"
    BY <1>7 DEF OpenQuote, OpenLineComment, OpenBlockComment, Code, Uncut, Take, Quotes
  <2>2. text[i] # "semicolon"
    BY <1>7 DEF OpenQuote, OpenLineComment, OpenBlockComment, Code, OpensLineComment,
                OpensBlockComment, Quotes
  <2>3. ~(BlockCommentAt(text, i) /\ At(text, i + 2, "slash"))
    BY <1>6, <2>1 DEF HasSlashStarSlash
  <2>4. Behind(text, state', i') = LexemeEnd(text, i)
    BY <1>7, <2>1, <2>2, <2>3, Opens DEF IInv
  <2>5. next' = LexemeEnd(text, i) + 1
    BY <1>2, <2>1, <2>4
  <2>6. CutAt' = CutAt
    BY <2>1 DEF CutAt
  <2>7. StartsFrom(text, next) = {i} \cup StartsFrom(text, next')
    BY <1>6, <2>1, <2>5
  <2> HIDE DEF next
  <2>8. Ahead(text, next) = Ahead(text, next')
    BY <2>2, <2>7 DEF Ahead
  <2>9. StartsFrom(text, next') \subseteq LexemeStarts(text)
    BY <1>4, <2>7
  <2>10. QED
    BY <1>2, <1>4, <2>1, <2>6, <2>8, <2>9 DEF Located, next
<1>8. CASE Escape \/ DoubledQuote \/ CloseQuote \/ Quoted \/ InLineComment \/ InBlockComment
  <2>1. /\ state \in Quotes \cup {"line", "block"} /\ state # "done" /\ state' # "done"
        /\ groups' = groups
    BY <1>8 DEF Escape, DoubledQuote, CloseQuote, Quoted, InLineComment, InBlockComment, Take, Uncut,
                Quotes
  <2>2. Behind(text, state', i') = Behind(text, state, i)
    BY <1>8, <2>1, Stays DEF IInv
  <2>3. next' = next
    BY <1>2, <2>1, <2>2
  <2>4. CutAt' = CutAt
    BY <2>1 DEF CutAt
  <2>5. QED
    BY <1>5, <2>3, <2>4
<1>9. CASE Cut
  <2>1. /\ i \in DOMAIN text /\ text[i] = "semicolon" /\ state = "normal"
        /\ i' = i + 1 /\ state' = "normal"
        /\ groups' = Append(groups, [from |-> start, to |-> i - 1])
    BY <1>9 DEF Cut, At, Take
  <2>2. LexemeEnd(text, i) = i
    BY <1>1, <2>1, LexemeEnds DEF Quotes, LineCommentAt, BlockCommentAt, At
  <2>3. next' = i + 1
    BY <1>1, <1>2, <2>1 DEF Behind, Quotes
  <2>4. StartsFrom(text, next) = {i} \cup StartsFrom(text, i + 1)
    BY <1>6, <2>1, <2>2
  <2>5. CutAt' = CutAt \cup {i}
    <3>1. groups \in Seq([from : Nat, to : Nat]) /\ Len(groups) \in Nat
      BY DEF IInv, TypeOK
    <3>2. /\ Len(groups') = Len(groups) + 1 /\ groups'[Len(groups) + 1].to + 1 = i
          /\ \A k \in 1 .. Len(groups) : groups'[k] = groups[k]
      BY <1>1, <2>1, <3>1
    <3>3. CutAt' = {groups'[k].to + 1 : k \in 1 .. (Len(groups) + 1)}
      BY <2>1, <3>2 DEF CutAt
    <3>4. CutAt = {groups[k].to + 1 : k \in 1 .. Len(groups)}
      BY <2>1 DEF CutAt
    <3> DEFINE n == Len(groups)
               Old(k) == groups[k].to + 1
               New(k) == groups'[k].to + 1
    <3>5. n \in Nat /\ New(n + 1) = i /\ \A k \in 1 .. n : New(k) = Old(k)
      BY <3>1, <3>2
    <3>6. CutAt' = {New(k) : k \in 1 .. (n + 1)} /\ CutAt = {Old(k) : k \in 1 .. n}
      BY <3>3, <3>4
    <3> HIDE DEF n, Old, New
    <3>7. 1 .. (n + 1) = (1 .. n) \cup {n + 1}
      BY <3>5
    <3>8. QED
      BY <3>5, <3>6, <3>7
  <2> HIDE DEF next
  <2>6. Ahead(text, next) = {i} \cup Ahead(text, i + 1)
    BY <2>1, <2>4 DEF Ahead
  <2>7. StartsFrom(text, i + 1) \subseteq LexemeStarts(text)
    BY <1>4, <2>4
  <2>8. Separators(text) = CutAt' \cup Ahead(text, i + 1)
    BY <1>4, <2>5, <2>6
  <2>9. QED
    BY <1>2, <2>1, <2>3, <2>7, <2>8 DEF Located, next
<1>10. CASE Finish
  <2>1. /\ state # "done" /\ i > Len(text) /\ state' = "done"
        /\ groups' = Append(groups, [from |-> start, to |-> Len(text)])
    BY <1>10 DEF Finish
  <2>2. i = Len(text) + 1
    BY <1>1, <2>1 DEF IInv, TypeOK
  <2>3. StringEnd(text, state, i) = Len(text) /\ LineEnd(text, i) = Len(text)
        /\ BlockEnd(text, i) = Len(text)
    <3>1. StringEnd(text, state, i) = Len(text)
      BY <1>1, <2>2, StringEndStep
    <3>2. \A j \in i .. Len(text) : FALSE
      BY <1>1, <2>2
    <3>3. \A j \in (i + 1) .. Len(text) : FALSE
      BY <1>1, <2>2
    <3>4. {Len(text)} \subseteq Nat /\ {Len(text)} # {}
      BY <1>1
    <3>5. Min({Len(text)}) = Len(text)
      BY <3>4, MinOf
    <3>6. QED
      BY <3>1, <3>2, <3>3, <3>5 DEF LineEnd, BlockEnd
  <2>4. next = Len(text) + 1
    BY <1>1, <2>1, <2>2, <2>3 DEF Behind
  <2>5. next' = Len(text) + 1
    BY <1>2, <2>1
  <2>6. CutAt' = CutAt
    <3>1. groups \in Seq([from : Nat, to : Nat]) /\ Len(groups) \in Nat
      BY DEF IInv, TypeOK
    <3>2. /\ Len(groups') - 1 = Len(groups)
          /\ \A k \in 1 .. Len(groups) : groups'[k] = groups[k]
      BY <1>1, <2>1, <3>1
    <3>3. CutAt' = {groups'[k].to + 1 : k \in 1 .. Len(groups)}
      BY <2>1, <3>2 DEF CutAt
    <3>4. CutAt = {groups[k].to + 1 : k \in 1 .. Len(groups)}
      BY <2>1 DEF CutAt
    <3> HIDE DEF CutAt
    <3>5. QED
      BY <3>2, <3>3, <3>4
  <2>7. QED
    BY <1>5, <2>4, <2>5, <2>6
<1>11. CASE UNCHANGED vars
  <2>1. next' = next /\ CutAt' = CutAt
    BY <1>11 DEF vars, CutAt
  <2>2. QED
    BY <1>5, <2>1
<1>12. QED
  BY <1>7, <1>8, <1>9, <1>10, <1>11 DEF Next, Scan

\* and has passed them all at the end.
LEMMA LocatedCuts == TypeOK /\ Located => CutsAtSeparators
<1> SUFFICES ASSUME TypeOK, Located, Done, ~HasSlashStarSlash(text)
             PROVE  {groups[k].to + 1 : k \in 1 .. (Len(groups) - 1)} = Separators(text)
  BY DEF CutsAtSeparators
<1>1. text \in Seq(Characters) /\ Len(text) + 1 \in Nat /\ Len(text) + 1 > Len(text)
  BY DEF TypeOK
<1>2. StartsFrom(text, Len(text) + 1) = {}
  BY <1>1, StartsFromStep
<1>3. Separators(text) = CutAt \cup Ahead(text, Len(text) + 1)
  BY DEF Located, Done
<1>4. QED
  BY <1>2, <1>3 DEF Ahead, CutAt, Done

\* The scanner cuts a text of any length where, by its own lexical rules, its statements
\* end: one state variable is enough to follow strings and comments.
THEOREM CutsWhereStatementsEnd == Spec => []CutsAtSeparators
<1>1. Located /\ IInv => CutsAtSeparators
  BY LocatedCuts DEF IInv
<1>2. IInv /\ IInv' /\ Located /\ [Next]_vars => Located'
  BY ScanLocated
<1>3. QED
  BY <1>1, <1>2, InitLocated, Inductive, PTL DEF Spec

-----------------------------------------------------------------------------
(* Groups and pieces.                                                      *)

\* What the invariants say of each group.
LEMMA GroupFields ==
    ASSUME TypeOK
    PROVE  /\ text \in Seq(Characters) /\ Len(text) \in Nat
           /\ Len(groups) \in Nat /\ DOMAIN groups = 1 .. Len(groups)
           /\ \A x \in DOMAIN groups : x \in Nat /\ groups[x].from \in Nat /\ groups[x].to \in Nat
<1>1. text \in Seq(Characters) /\ groups \in Seq([from : Nat, to : Nat])
  BY DEF TypeOK
<1>2. DOMAIN groups = 1 .. Len(groups) /\ Len(groups) \in Nat
  BY <1>1
<1>3. \A x \in DOMAIN groups : groups[x] \in [from : Nat, to : Nat]
  BY <1>1, <1>2, ElementOfSeq
<1>4. \A r \in [from : Nat, to : Nat] : r.from \in Nat /\ r.to \in Nat
  OBVIOUS
<1>5. QED
  BY <1>1, <1>2, <1>3, <1>4

\* The groups follow one another in the text.
LEMMA GroupOrder ==
    ASSUME TypeOK, GroupsTileText, NEW k \in DOMAIN groups, NEW m \in DOMAIN groups, m < k
    PROVE  groups[m].to + 2 <= groups[k].from
<1> DEFINE T == {n \in Nat : \A x \in DOMAIN groups :
                               x < n /\ n \in DOMAIN groups => groups[x].to + 2 <= groups[n].from}
<1>1. /\ Len(groups) \in Nat /\ DOMAIN groups = 1 .. Len(groups)
      /\ \A x \in DOMAIN groups : x \in Nat /\ groups[x].from \in Nat /\ groups[x].to \in Nat
  BY GroupFields
<1>2. \A x \in DOMAIN groups :
         /\ groups[x].from <= groups[x].to + 1
         /\ x # Len(groups) => groups[x].to + 2 = groups[x + 1].from
  BY DEF GroupsTileText
<1>3. 0 \in T
  BY <1>1
<1>4. ASSUME NEW n \in Nat, n \in T PROVE n + 1 \in T
  <2> SUFFICES ASSUME NEW x \in DOMAIN groups, x < n + 1, n + 1 \in DOMAIN groups
               PROVE  groups[x].to + 2 <= groups[n + 1].from
    OBVIOUS
  <2>1. n \in DOMAIN groups /\ n # Len(groups) /\ (x = n \/ x < n)
    <3> DEFINE len == Len(groups)
    <3>1. len \in Nat /\ x \in 1 .. len /\ n + 1 \in 1 .. len
      BY <1>1
    <3> HIDE DEF len
    <3>2. n \in 1 .. len /\ n # len /\ (x = n \/ x < n)
      BY <3>1
    <3>3. QED
      BY <1>1, <3>2 DEF len
  <2>2. groups[n].to + 2 = groups[n + 1].from /\ groups[n].from <= groups[n].to + 1
    BY <1>2, <2>1
  <2>3. x < n => groups[x].to + 2 <= groups[n].from
    BY <1>4, <2>1
  <2> HIDE DEF T
  <2>4. /\ groups[x].to \in Nat /\ groups[n].from \in Nat /\ groups[n].to \in Nat
        /\ groups[n + 1].from \in Nat
    BY <1>1, <2>1
  <2>5. CASE x = n
    BY <2>2, <2>4, <2>5
  <2>6. CASE x < n
    BY <2>2, <2>3, <2>4, <2>6
  <2>7. QED
    BY <2>1, <2>5, <2>6
<1>5. \A n \in Nat : n \in T
  <2> HIDE DEF T
  <2>1. QED
    BY <1>3, <1>4, Upward
<1>6. k \in Nat
  BY <1>1
<1>7. QED
  BY <1>5, <1>6

\* When the scan is done every group is within the text.
LEMMA GroupBounds ==
    ASSUME TypeOK, GroupsTileText, Done, NEW k \in DOMAIN groups
    PROVE  /\ groups[k].from \in 1 .. (Len(text) + 1)
           /\ groups[k].to \in (groups[k].from - 1) .. Len(text)
<1>1. /\ Len(groups) \in Nat /\ DOMAIN groups = 1 .. Len(groups) /\ Len(text) \in Nat
      /\ \A x \in DOMAIN groups : x \in Nat /\ groups[x].from \in Nat /\ groups[x].to \in Nat
  BY GroupFields
<1>2. \A x \in DOMAIN groups :
         /\ groups[x].from <= groups[x].to + 1
         /\ x = 1 => groups[x].from = 1
         /\ x # 1 => groups[x].from = groups[x - 1].to + 2
         /\ x = Len(groups) => groups[x].to + 2 = Len(text) + 2
  BY DEF GroupsTileText, Done
<1>3. groups[k].from >= 1
  <2>1. k # 1 => k - 1 \in DOMAIN groups
    BY <1>1
  <2>2. QED
    BY <1>1, <1>2, <2>1
<1>4. groups[k].to <= Len(text)
  <2>1. CASE k = Len(groups)
    BY <1>1, <1>2, <2>1
  <2>2. CASE k # Len(groups)
    <3>1. Len(groups) \in DOMAIN groups /\ k < Len(groups)
      BY <1>1, <2>2
    <3>2. groups[k].to + 2 <= groups[Len(groups)].from
      BY <3>1, GroupOrder
    <3>3. QED
      BY <1>1, <1>2, <3>1, <3>2
  <2>3. QED
    BY <2>1, <2>2
<1>5. QED
  BY <1>1, <1>2, <1>3, <1>4

\* A group begins with a lexeme of the text, unless it is empty, and has no separator.
LEMMA GroupIsStatement ==
    ASSUME TypeOK, GroupsTileText, CutsAtSeparators, Done, ~HasSlashStarSlash(text),
           NEW k \in DOMAIN groups
    PROVE  /\ Slice(text, groups[k]) \in Seq(Characters)
           /\ Separators(Slice(text, groups[k])) = {}
           /\ ~HasSlashStarSlash(Slice(text, groups[k]))
<1> DEFINE p == Slice(text, groups[k])
           d == groups[k].from - 1
           f == groups[k].from
           l == groups[k].to
<1>1. /\ Len(groups) \in Nat /\ DOMAIN groups = 1 .. Len(groups) /\ Len(text) \in Nat
      /\ text \in Seq(Characters)
      /\ \A x \in DOMAIN groups : x \in Nat /\ groups[x].from \in Nat /\ groups[x].to \in Nat
      /\ \A x \in DOMAIN groups :
         /\ groups[x].from <= groups[x].to + 1
         /\ x = 1 => groups[x].from = 1
         /\ x # 1 => groups[x].from = groups[x - 1].to + 2
  BY GroupFields DEF GroupsTileText
<1>2. f \in 1 .. (Len(text) + 1) /\ l \in (f - 1) .. Len(text)
  BY GroupBounds
<1>3. Part(p, text, d) /\ Len(p) = (l - f) + 1
  BY <1>1, <1>2, SliceIsPart DEF Slice
<1>4. Separators(text) = {groups[m].to + 1 : m \in 1 .. (Len(groups) - 1)}
  BY DEF CutsAtSeparators
<1> HIDE DEF p
<1>5. f \in LexemeStarts(text) \/ f = Len(text) + 1
  <2>1. CASE k = 1
    <3>1. StartsFrom(text, 1) = IF 1 > Len(text) THEN {} ELSE {1} \cup StartsFrom(text, LexemeEnd(text, 1) + 1)
      BY <1>1, StartsFromStep
    <3>2. QED
      BY <1>1, <2>1, <3>1 DEF LexemeStarts
  <2>2. CASE k # 1
    <3> DEFINE s == groups[k - 1].to + 1
    <3>1. k - 1 \in 1 .. (Len(groups) - 1)
      BY <1>1, <2>2
    <3>2. s \in Separators(text) /\ f = s + 1
      <4>1. f = groups[k - 1].to + 2 /\ groups[k - 1].to \in Nat
        BY <1>1, <2>2, <3>1
      <4>2. QED
        BY <1>4, <3>1, <4>1
    <3> HIDE DEF s, f
    <3>3. s \in LexemeStarts(text) /\ text[s] = "semicolon"
      BY <3>2 DEF Separators
    <3>4. /\ s \in 1 .. Len(text)
          /\ LexemeEnd(text, s) + 1 \in LexemeStarts(text) \/ LexemeEnd(text, s) = Len(text)
      BY <3>3, StartsChain, <1>1 DEF LexemeStarts
    <3>5. LexemeEnd(text, s) = s
      BY <1>1, <3>3, <3>4, LexemeEnds DEF Quotes, LineCommentAt, BlockCommentAt, At
    <3>6. QED
      BY <3>2, <3>4, <3>5
  <2>3. QED
    BY <2>1, <2>2
<1>6. Len(p) = 0 \/ d + 1 \in LexemeStarts(text)
  <2>1. f = d + 1 /\ (f = Len(text) + 1 => Len(p) = 0)
    BY <1>1, <1>2, <1>3
  <2>2. QED
    BY <1>5, <2>1
<1>7. Separators(p) = {}
  <2> SUFFICES ASSUME NEW j \in Separators(p) PROVE FALSE
    OBVIOUS
  <2>1. j \in 1 .. Len(p) /\ j + d \in Separators(text)
    BY <1>3, <1>6, PartKeeps
  <2>2. PICK m \in 1 .. (Len(groups) - 1) : j + d = groups[m].to + 1
    BY <1>4, <2>1
  <2>3. f <= j + d /\ j + d <= l
    BY <1>1, <1>2, <1>3, <2>1
  <2>4. m \in DOMAIN groups /\ m \in Nat /\ k \in Nat
    BY <1>1
  <2>5. CASE m < k
    <3>1. groups[m].to + 2 <= f
      BY <2>4, <2>5, GroupOrder
    <3>2. QED
      BY <1>1, <2>2, <2>3, <2>4, <3>1
  <2>6. CASE m = k
    BY <1>1, <2>2, <2>3, <2>6
  <2>7. CASE k < m
    <3>1. l + 2 <= groups[m].from /\ groups[m].from <= groups[m].to + 1
      BY <1>1, <2>4, <2>7, GroupOrder
    <3>2. QED
      BY <1>1, <2>2, <2>3, <2>4, <3>1
  <2>8. QED
    BY <2>4, <2>5, <2>6, <2>7
<1>8. ~HasSlashStarSlash(p)
  BY <1>3, <1>6, PartKeeps
<1>9. p \in Seq(Characters)
  BY <1>3 DEF Part
<1>10. QED
  BY <1>7, <1>8, <1>9 DEF p

\* A piece is a part of a group that begins with a lexeme of the group.
LEMMA PiecesAlone ==
    ASSUME TypeOK, GroupsTileText, CutsAtSeparators, Done, ~HasSlashStarSlash(text),
           NEW k \in DOMAIN statements(groups)
    PROVE  Separators(statements(groups)[k]) = {}
<1> DEFINE coded == {m \in DOMAIN groups : statementGroupHasCode(Slice(text, groups[m]))}
           kept == Selected(groups, coded)
<1>1. groups \in Seq([from : Nat, to : Nat])
  BY DEF TypeOK
<1>2. \A x \in DOMAIN kept : \E m \in DOMAIN groups : m \in coded /\ kept[x] = groups[m]
  <2> HIDE DEF coded
  <2>1. QED
    BY <1>1, SelectedElements
<1>3. statements(groups) = [x \in DOMAIN kept |-> trimSpace(Slice(text, kept[x]))]
  BY DEF statements
<1> HIDE DEF kept, coded
<1>4. k \in DOMAIN kept /\ statements(groups)[k] = trimSpace(Slice(text, kept[k]))
  BY <1>3
<1>5. PICK m \in DOMAIN groups : kept[k] = groups[m]
  BY <1>2, <1>4
<1> DEFINE p == Slice(text, groups[m])
           q == trimSpace(p)
<1>6. p \in Seq(Characters) /\ Separators(p) = {}
  BY GroupIsStatement
<1> HIDE DEF p
<1>7. CASE q = <<>>
  <2>1. q \in Seq(Characters) /\ 1 > Len(q)
    BY <1>7
  <2> HIDE DEF q
  <2>2. LexemeStarts(q) = {}
    BY <2>1, StartsFromStep DEF LexemeStarts
  <2>3. Separators(q) = {}
    BY <2>2 DEF Separators
  <2>4. QED
    BY <1>4, <1>5, <2>3 DEF p, q
<1>8. CASE q # <<>>
  <2>1. PICK d \in Nat : Part(q, p, d) /\ d + 1 \in LexemeStarts(p)
    BY <1>6, <1>8, TrimmedPart
  <2>2. \A j \in Separators(q) : j + d \in Separators(p)
    BY <2>1, PartKeeps
  <2>3. Separators(q) = {}
    BY <1>6, <2>2
  <2>4. QED
    BY <1>4, <1>5, <2>3 DEF p, q
<1>9. QED
  BY <1>7, <1>8

\* Each piece of an accepted text, read by itself by the same rules, is one statement.
THEOREM EachPieceIsOneStatement == Spec => []PiecesStandAlone
<1>1. IInv /\ CutsAtSeparators => PiecesStandAlone
  BY PiecesAlone DEF IInv, PiecesStandAlone
<1>2. QED
  BY <1>1, Inductive, CutsWhereStatementsEnd, PTL

-----------------------------------------------------------------------------
(* The scan for code.                                                      *)

\* Where the scan for code goes on.
LEMMA AfterCharacters ==
    ASSUME NEW t, NEW k \in Nat
    PROVE  /\ AfterCharacter(t, "line", k) = <<IF t[k] = "newline" THEN "normal" ELSE "line", k + 1>>
           /\ AfterCharacter(t, "block", k) =
                IF At(t, k, "star") /\ At(t, k + 1, "slash") THEN <<"normal", k + 2>> ELSE <<"block", k + 1>>
           /\ OpensLineComment(t, k) => AfterCharacter(t, "normal", k) = <<"line", k + 1>>
           /\ OpensBlockComment(t, k) => AfterCharacter(t, "normal", k) = <<"block", k + 1>>
           /\ ~OpensLineComment(t, k) /\ ~OpensBlockComment(t, k) =>
                AfterCharacter(t, "normal", k) = <<"normal", k + 1>>
<1>1. AfterCharacter(t, "line", k) = <<IF t[k] = "newline" THEN "normal" ELSE "line", k + 1>>
  <2>1. "line" # "block" /\ "line" # "normal"
    OBVIOUS
  <2>2. QED
    BY <2>1, Zenon DEF AfterCharacter
<1>2. AfterCharacter(t, "block", k) =
        IF At(t, k, "star") /\ At(t, k + 1, "slash") THEN <<"normal", k + 2>> ELSE <<"block", k + 1>>
  <2>1. "block" # "line" /\ "block" # "normal"
    OBVIOUS
  <2>2. QED
    BY <2>1, Zenon DEF AfterCharacter
<1>3. "normal" # "line" /\ "normal" # "block"
  OBVIOUS
<1>4. ASSUME OpensLineComment(t, k) PROVE AfterCharacter(t, "normal", k) = <<"line", k + 1>>
  <2>1. ~OpensBlockComment(t, k)
    BY <1>4 DEF OpensLineComment, OpensBlockComment
  <2>2. QED
    BY <1>3, <1>4, <2>1, Zenon DEF AfterCharacter
<1>5. ASSUME OpensBlockComment(t, k) PROVE AfterCharacter(t, "normal", k) = <<"block", k + 1>>
  <2>1. ~OpensLineComment(t, k)
    BY <1>5 DEF OpensLineComment, OpensBlockComment
  <2>2. QED
    BY <1>3, <1>5, <2>1, Zenon DEF AfterCharacter
<1>6. ASSUME ~OpensLineComment(t, k), ~OpensBlockComment(t, k)
      PROVE  AfterCharacter(t, "normal", k) = <<"normal", k + 1>>
  BY <1>3, <1>6, Zenon DEF AfterCharacter
<1>7. QED
  BY <1>1, <1>2, <1>4, <1>5, <1>6

ScanStates == {"normal", "line", "block"}

\* The equation by which hasCodeFrom is defined has a solution.
LEMMA HasCodeStep ==
    ASSUME NEW t \in Seq(Characters), NEW s \in ScanStates, NEW k \in Nat
    PROVE  /\ k > Len(t) => ~hasCodeFrom(t, s, k)
           /\ k <= Len(t) /\ IsCode(t, s, k) => hasCodeFrom(t, s, k)
           /\ k <= Len(t) /\ ~IsCode(t, s, k) =>
                hasCodeFrom(t, s, k) =
                  hasCodeFrom(t, AfterCharacter(t, s, k)[1], AfterCharacter(t, s, k)[2])
<1> DEFINE D == ScanStates \X Nat
           Body(f) == [at \in D |->
                IF at[2] > Len(t) THEN FALSE
                ELSE IF IsCode(t, at[1], at[2]) THEN TRUE
                ELSE f[AfterCharacter(t, at[1], at[2])]]
           E == CHOOSE f : f = Body(f)
<1>1. Len(t) \in Nat
  OBVIOUS
<1>2. ASSUME NEW r \in ScanStates, NEW j \in Nat
      PROVE  \E q \in ScanStates : \E l \in {j + 1, j + 2} : AfterCharacter(t, r, j) = <<q, l>>
  BY AfterCharacters DEF ScanStates
<1>3. \E f : f = Body(f)
  <2> DEFINE rank == [at \in D |-> IF at[2] > Len(t) THEN 0 ELSE Len(t) + 1 - at[2]]
             Stop == {at \in D : at[2] > Len(t) \/ IsCode(t, at[1], at[2])}
             value == [at \in D |-> IF at[2] > Len(t) THEN FALSE ELSE TRUE]
             next == [at \in D |-> AfterCharacter(t, at[1], at[2])]
  <2>1. rank \in [D -> Nat]
    BY <1>1
  <2>2. ASSUME NEW at \in D \ Stop PROVE next[at] \in D /\ rank[next[at]] < rank[at]
    <3>1. at[1] \in ScanStates /\ at[2] \in Nat /\ at[2] <= Len(t)
      BY <1>1
    <3>1a. next[at] = AfterCharacter(t, at[1], at[2])
      OBVIOUS
    <3>2. PICK q \in ScanStates, l \in {at[2] + 1, at[2] + 2} : next[at] = <<q, l>>
      <4>1. \E q \in ScanStates : \E l \in {at[2] + 1, at[2] + 2} :
               AfterCharacter(t, at[1], at[2]) = <<q, l>>
        <5> HIDE DEF next, D, Stop
        <5>1. QED
          BY <1>2, <3>1
      <4>2. QED
        BY <3>1a, <4>1, Zenon
    <3>3. rank[at] = Len(t) + 1 - at[2]
      BY <1>1, <3>1
    <3>4. next[at] \in D /\ l \in Nat /\ rank[next[at]] = IF l > Len(t) THEN 0 ELSE Len(t) + 1 - l
      BY <3>1, <3>2
    <3> HIDE DEF rank, next, D
    <3>5. QED
      BY <1>1, <3>1, <3>3, <3>4
  <2>3. PICK f : IsLoop(f, D, Stop, value, next)
    <3> HIDE DEF rank, Stop, value, next, D
    <3>1. QED
      BY <2>1, <2>2, Loop DEF Descends
  <2>4. \A at \in D : (IF at \in Stop THEN value[at] ELSE f[next[at]]) =
            IF at[2] > Len(t) THEN FALSE
            ELSE IF IsCode(t, at[1], at[2]) THEN TRUE
            ELSE f[AfterCharacter(t, at[1], at[2])]
    OBVIOUS
  <2>5. f = Body(f)
    <3> HIDE DEF Stop, value, next, D
    <3>1. QED
      BY <2>3, <2>4 DEF IsLoop
  <2>6. QED
    BY <2>5
<1>4. E = Body(E)
  BY <1>3
<1>5. \A r \in ScanStates, j \in Nat : hasCodeFrom(t, r, j) = E[<<r, j>>]
  BY DEF hasCodeFrom, ScanStates
<1> HIDE DEF E
<1>6. E[<<s, k>>] = IF k > Len(t) THEN FALSE
                    ELSE IF IsCode(t, s, k) THEN TRUE ELSE E[AfterCharacter(t, s, k)]
  BY <1>4
<1>7. PICK q \in ScanStates, l \in Nat : AfterCharacter(t, s, k) = <<q, l>>
  <2>1. PICK q \in ScanStates, l \in {k + 1, k + 2} : AfterCharacter(t, s, k) = <<q, l>>
    BY <1>2
  <2>2. QED
    BY <2>1
<1>8. hasCodeFrom(t, AfterCharacter(t, s, k)[1], AfterCharacter(t, s, k)[2]) = E[AfterCharacter(t, s, k)]
  BY <1>5, <1>7
<1>9. hasCodeFrom(t, s, k) = E[<<s, k>>]
  BY <1>5
<1>10. k > Len(t) => ~hasCodeFrom(t, s, k)
  BY <1>6, <1>9
<1>11. k <= Len(t) => ~(k > Len(t))
  BY <1>1
<1>12. k <= Len(t) /\ IsCode(t, s, k) => hasCodeFrom(t, s, k)
  BY <1>6, <1>9, <1>11
<1>13. k <= Len(t) /\ ~IsCode(t, s, k) => hasCodeFrom(t, s, k) = E[AfterCharacter(t, s, k)]
  BY <1>6, <1>9, <1>11
<1>14. QED
  BY <1>8, <1>10, <1>12, <1>13

\* The code among the lexemes from k on.
CodeFrom(t, k) ==
    {j \in StartsFrom(t, k) : t[j] \notin Blanks /\ ~LineCommentAt(t, j) /\ ~BlockCommentAt(t, j)}

\* What opens a comment to the scanner is a comment.
LEMMA OpensComment ==
    ASSUME NEW t, NEW k \in DOMAIN t
    PROVE  /\ OpensLineComment(t, k) <=> LineCommentAt(t, k)
           /\ OpensBlockComment(t, k) <=> BlockCommentAt(t, k)
BY DEF OpensLineComment, startsLineComment, LineCommentAt, OpensBlockComment, BlockCommentAt, At

\* From any state the scan finds code if it is among the lexemes that follow.
LEMMA FindsCode ==
    ASSUME NEW t \in Seq(Characters), ~HasSlashStarSlash(t)
    PROVE  \A k \in Nat : \A s \in ScanStates :
             k >= 1 /\ StartsFrom(t, Behind(t, s, k) + 1) \subseteq LexemeStarts(t) =>
                (hasCodeFrom(t, s, k) <=> CodeFrom(t, Behind(t, s, k) + 1) # {})
<1> DEFINE Finds(s, l) ==
              StartsFrom(t, Behind(t, s, l) + 1) \subseteq LexemeStarts(t) =>
                (hasCodeFrom(t, s, l) <=> CodeFrom(t, Behind(t, s, l) + 1) # {})
           T == {l \in Nat : l >= 1 => \A s \in ScanStates : Finds(s, l)}
<1>1. Len(t) \in Nat /\ DOMAIN t = 1 .. Len(t)
  OBVIOUS
<1>2. \A l \in Nat : /\ l >= 1 => Behind(t, "normal", l) + 1 = l
                     /\ Behind(t, "line", l) = LineEnd(t, l)
                     /\ Behind(t, "block", l) = BlockEnd(t, l)
  BY DEF Behind, Quotes
<1>3. ASSUME NEW l \in Nat, l > Len(t) PROVE l \in T
  <2> SUFFICES ASSUME NEW s \in ScanStates, l >= 1 PROVE Finds(s, l)
    OBVIOUS
  <2> DEFINE b == Behind(t, s, l) + 1
  <2>1. b \in Nat /\ b > Len(t)
    <3>1. LineEnd(t, l) = Len(t) /\ BlockEnd(t, l) = Len(t)
      BY <1>3, LineEndStep, BlockEndStep
    <3>2. QED
      BY <1>1, <1>2, <1>3, <3>1 DEF ScanStates
  <2> HIDE DEF b
  <2>2. StartsFrom(t, b) = {}
    BY <2>1, StartsFromStep
  <2>3. ~hasCodeFrom(t, s, l)
    BY <1>3, HasCodeStep
  <2>4. QED
    BY <2>2, <2>3 DEF CodeFrom, b
<1>4. ASSUME NEW l \in 0 .. Len(t), \A x \in Nat : x > l => x \in T PROVE l \in T
  <2> SUFFICES ASSUME NEW s \in ScanStates, l >= 1 PROVE Finds(s, l)
    BY <1>1
  <2>1. /\ l \in Nat /\ l \in DOMAIN t /\ l <= Len(t) /\ ~(l > Len(t))
        /\ l + 1 \in Nat /\ l + 1 > l /\ l + 1 >= 1 /\ l + 2 \in Nat /\ l + 2 > l /\ l + 2 >= 1
    BY <1>1
  <2>2. /\ Finds("normal", l + 1) /\ Finds("line", l + 1) /\ Finds("block", l + 1)
        /\ Finds("normal", l + 2)
    <3> HIDE DEF Finds
    <3>1. QED
      BY <1>4, <2>1 DEF ScanStates
  <2>3. CASE s = "line"
    <3>1. ~IsCode(t, s, l)
      BY <2>3 DEF IsCode
    <3> DEFINE r == IF t[l] = "newline" THEN "normal" ELSE "line"
    <3>2. hasCodeFrom(t, "line", l) = hasCodeFrom(t, r, l + 1)
      BY <2>1, <2>3, <3>1, AfterCharacters, HasCodeStep
    <3>3. Behind(t, "line", l) + 1 = Behind(t, r, l + 1) + 1
      BY <1>2, <2>1, LineEndStep
    <3> HIDE DEF r
    <3>4. Finds(r, l + 1)
      <4> HIDE DEF Finds
      <4>1. QED
        BY <2>2 DEF r
    <3>5. QED
      BY <2>3, <3>2, <3>3, <3>4
  <2>4. CASE s = "block"
    <3>1. ~IsCode(t, s, l)
      BY <2>4 DEF IsCode
    <3>2. CASE At(t, l, "star") /\ At(t, l + 1, "slash")
      <4>1. hasCodeFrom(t, "block", l) = hasCodeFrom(t, "normal", l + 2)
        BY <2>1, <2>4, <3>1, <3>2, AfterCharacters, HasCodeStep
      <4>2. Behind(t, "block", l) + 1 = Behind(t, "normal", l + 2) + 1
        <5>1. BlockEnd(t, l) = l + 1
          BY <2>1, <3>2, BlockEndStep
        <5>2. QED
          BY <1>2, <2>1, <5>1
      <4>3. QED
        BY <2>2, <2>4, <4>1, <4>2
    <3>3. CASE ~(At(t, l, "star") /\ At(t, l + 1, "slash"))
      <4>1. hasCodeFrom(t, "block", l) = hasCodeFrom(t, "block", l + 1)
        BY <2>1, <2>4, <3>1, <3>3, AfterCharacters, HasCodeStep
      <4>2. Behind(t, "block", l) + 1 = Behind(t, "block", l + 1) + 1
        BY <1>2, <2>1, <3>3, BlockEndStep
      <4>3. QED
        BY <2>2, <2>4, <4>1, <4>2
    <3>4. QED
      BY <3>2, <3>3
  <2>5. CASE s = "normal"
    <3> DEFINE e == LexemeEnd(t, l)
    <3>1. StartsFrom(t, l) = {l} \cup StartsFrom(t, e + 1)
      BY <2>1, StartsFromStep
    <3> SUFFICES ASSUME StartsFrom(t, l) \subseteq LexemeStarts(t)
                 PROVE  hasCodeFrom(t, "normal", l) <=> CodeFrom(t, l) # {}
      BY <1>2, <2>1, <2>5
    <3>2. l \in LexemeStarts(t) /\ StartsFrom(t, e + 1) \subseteq LexemeStarts(t)
      BY <3>1
    <3>3. IsCode(t, "normal", l) <=>
            t[l] \notin Blanks /\ ~LineCommentAt(t, l) /\ ~BlockCommentAt(t, l)
      BY <2>1, OpensComment DEF IsCode
    <3>4. CASE IsCode(t, "normal", l)
      <4>1. hasCodeFrom(t, "normal", l)
        BY <2>1, <3>4, HasCodeStep DEF ScanStates
      <4>2. l \in CodeFrom(t, l)
        BY <3>1, <3>3, <3>4 DEF CodeFrom
      <4>3. QED
        BY <4>1, <4>2
    <3>5. CASE ~IsCode(t, "normal", l)
      <4>1. CodeFrom(t, l) = CodeFrom(t, e + 1)
        <5>1. ~(t[l] \notin Blanks /\ ~LineCommentAt(t, l) /\ ~BlockCommentAt(t, l))
          BY <3>3, <3>5
        <5> HIDE DEF e
        <5>2. QED
          BY <3>1, <5>1 DEF CodeFrom
      <4>2. \E r \in ScanStates : /\ Finds(r, l + 1) /\ Behind(t, r, l + 1) = e
                                  /\ hasCodeFrom(t, "normal", l) = hasCodeFrom(t, r, l + 1)
        <5>1. "normal" \in ScanStates
          BY DEF ScanStates
        <5>2. CASE LineCommentAt(t, l)
          <6>1. AfterCharacter(t, "normal", l) = <<"line", l + 1>>
            BY <2>1, <5>2, AfterCharacters, OpensComment
          <6>2. hasCodeFrom(t, "normal", l) = hasCodeFrom(t, "line", l + 1)
            BY <2>1, <3>5, <5>1, <6>1, HasCodeStep
          <6>3. Behind(t, "line", l + 1) = e
            BY <1>2, <2>1, <5>2, LexemeEnds
          <6> HIDE DEF Finds, e
          <6>4. QED
            BY <2>2, <6>2, <6>3 DEF ScanStates
        <5>3. CASE BlockCommentAt(t, l)
          <6>1. AfterCharacter(t, "normal", l) = <<"block", l + 1>>
            BY <2>1, <5>3, AfterCharacters, OpensComment
          <6>2. hasCodeFrom(t, "normal", l) = hasCodeFrom(t, "block", l + 1)
            BY <2>1, <3>5, <5>1, <6>1, HasCodeStep
          <6>3. Behind(t, "block", l + 1) = e
            <7>1. ~At(t, l + 2, "slash") /\ l + 1 \in DOMAIN t /\ (l + 1) + 1 = l + 2
              BY <2>1, <3>2, <5>3 DEF HasSlashStarSlash, BlockCommentAt, At
            <7>2. BlockEnd(t, l + 1) = BlockEnd(t, l + 2)
              BY <2>1, <7>1, BlockEndStep
            <7>3. QED
              BY <1>2, <2>1, <5>3, <7>2, LexemeEnds
          <6> HIDE DEF Finds, e
          <6>4. QED
            BY <2>2, <6>2, <6>3 DEF ScanStates
        <5>4. CASE ~LineCommentAt(t, l) /\ ~BlockCommentAt(t, l)
          <6>1. AfterCharacter(t, "normal", l) = <<"normal", l + 1>>
            BY <2>1, <5>4, AfterCharacters, OpensComment
          <6>2. hasCodeFrom(t, "normal", l) = hasCodeFrom(t, "normal", l + 1)
            BY <2>1, <3>5, <5>1, <6>1, HasCodeStep
          <6>3. Behind(t, "normal", l + 1) = e
            <7>1. t[l] \notin Quotes
              BY <3>3, <3>5, <5>4 DEF Blanks, Quotes
            <7>2. e = l
              BY <2>1, <5>4, <7>1, LexemeEnds
            <7>3. Behind(t, "normal", l + 1) = (l + 1) - 1
              BY DEF Behind, Quotes
            <7>4. QED
              BY <2>1, <7>2, <7>3
          <6> HIDE DEF Finds, e
          <6>4. QED
            BY <2>2, <6>2, <6>3 DEF ScanStates
        <5>5. QED
          BY <5>2, <5>3, <5>4
      <4> HIDE DEF e
      <4>3. QED
        BY <3>2, <4>1, <4>2
    <3>6. QED
      BY <3>4, <3>5
  <2>6. QED
    BY <2>3, <2>4, <2>5 DEF ScanStates
<1>5. \A l \in Nat : l \in T
  <2> HIDE DEF T
  <2>1. QED
    BY <1>1, <1>3, <1>4, Downward
<1>6. QED
  BY <1>5

\* The scan finds code in a text exactly if there is some.
LEMMA HasCode ==
    ASSUME NEW t \in Seq(Characters), ~HasSlashStarSlash(t)
    PROVE  statementGroupHasCode(t) <=> CodeStarts(t) # {}
<1>1. Behind(t, "normal", 1) + 1 = 1
  BY DEF Behind, Quotes
<1>2. StartsFrom(t, 1) = LexemeStarts(t) /\ CodeFrom(t, 1) = CodeStarts(t)
  BY DEF LexemeStarts, CodeFrom, CodeStarts
<1>3. QED
  BY <1>1, <1>2, FindsCode DEF statementGroupHasCode, ScanStates

\* A text is refused for a group that, by the splitter's lexical rules, is without code,
\* and for no other reason.
THEOREM RefusedForComments == Spec => []RefusesCommentsOnly
<1>1. ASSUME TypeOK, GroupsTileText, CutsAtSeparators, Done, ~HasSlashStarSlash(text),
             NEW k \in DOMAIN groups
      PROVE  ~statementGroupHasCode(Slice(text, groups[k])) <=> CodeStarts(Slice(text, groups[k])) = {}
  BY <1>1, GroupIsStatement, HasCode
<1>2. TypeOK /\ GroupsTileText /\ CutsAtSeparators => RefusesCommentsOnly
  BY <1>1 DEF RefusesCommentsOnly, Refused
<1>3. QED
  BY <1>2, Inductive, CutsWhereStatementsEnd, PTL DEF IInv
=============================================================================
