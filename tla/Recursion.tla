------------------------------- MODULE Recursion -------------------------------
(***************************************************************************)
(* Induction on natural numbers, with a set in the place of a predicate,   *)
(* and the existence of the recursive functions the modules define.  A     *)
(* recursive function f[x] == ... is whatever satisfies its equation; that *)
(* something does is what a proof about it must know first.                *)
(***************************************************************************)
EXTENDS Selection, WellFoundedInduction, TLAPS

\* A set of naturals that is not empty has a least element.
LEMMA Least ==
    ASSUME NEW T, T \subseteq Nat, T # {}
    PROVE  \E x \in T : \A y \in T : x <= y
<1> DEFINE R == {ss \in Nat \X Nat : ss[1] < ss[2]}
<1>1. IsWellFoundedOn(R, Nat)
  BY NatLessThanWellFounded DEF OpToRel
<1> HIDE DEF R
<1>2. PICK x \in T : \A y \in T : ~ (<<y, x>> \in R)
  BY <1>1, WFMin
<1>3. \A y \in T : ~(y < x)
  BY <1>2 DEF R
<1>4. QED
  BY <1>3

\* One that is bounded has a greatest.
LEMMA Greatest ==
    ASSUME NEW T, T \subseteq Nat, T # {}, NEW n \in Nat, \A x \in T : x <= n
    PROVE  \E x \in T : \A y \in T : y <= x
<1> DEFINE U == {n - x : x \in T}
<1>1. \A x \in T : x \in Nat /\ n - x \in Nat /\ n - x \in U
  OBVIOUS
<1>2. U \subseteq Nat /\ U # {}
  BY <1>1
<1>3. PICK u \in U : \A v \in U : u <= v
  BY <1>2, Least
<1>4. PICK x \in T : u = n - x
  OBVIOUS
<1>5. ASSUME NEW y \in T PROVE y <= x
  <2>1. n - x <= n - y /\ x \in Nat /\ y \in Nat
    BY <1>1, <1>3, <1>4
  <2>2. QED
    BY <2>1
<1>6. QED
  BY <1>5

\* What holds of 0 and of each successor holds of all.
LEMMA Upward ==
    ASSUME NEW T, 0 \in T, \A n \in Nat : n \in T => n + 1 \in T
    PROVE  \A n \in Nat : n \in T
<1> SUFFICES ASSUME Nat \ T # {} PROVE FALSE
  OBVIOUS
<1>1. PICK x \in Nat \ T : \A y \in Nat \ T : x <= y
  BY Least
<1>2. x - 1 \in Nat /\ x - 1 \in T
  BY <1>1
<1>3. QED
  BY <1>1, <1>2

\* What holds beyond n, and of each number if it holds of all above, holds of all.
LEMMA Downward ==
    ASSUME NEW n \in Nat, NEW T,
           \A k \in Nat : k > n => k \in T,
           \A k \in 0 .. n : (\A j \in Nat : j > k => j \in T) => k \in T
    PROVE  \A k \in Nat : k \in T
<1> SUFFICES ASSUME Nat \ T # {} PROVE FALSE
  OBVIOUS
<1>1. \A x \in Nat \ T : x <= n
  OBVIOUS
<1>2. PICK x \in Nat \ T : \A y \in Nat \ T : y <= x
  BY <1>1, Greatest
<1>3. QED
  BY <1>1, <1>2

-----------------------------------------------------------------------------
(* Recursive functions whose argument has a rank that decreases.           *)

\* Unless it is in Stop, the next argument has a smaller rank.
Descends(D, rank, Stop, next) ==
    /\ rank \in [D -> Nat]
    /\ \A x \in D \ Stop : next[x] \in D /\ rank[next[x]] < rank[x]

IsLoop(f, D, Stop, value, next) == f = [x \in D |-> IF x \in Stop THEN value[x] ELSE f[next[x]]]

IsCollection(f, D, Stop, part, next) ==
    f = [x \in D |-> IF x \in Stop THEN {} ELSE part[x] \cup f[next[x]]]

\* A loop: it stops with a value or goes on at the next argument.
LEMMA Loop ==
    ASSUME NEW D, NEW rank, NEW Stop, NEW value, NEW next, Descends(D, rank, Stop, next)
    PROVE  \E f : IsLoop(f, D, Stop, value, next)
<1> DEFINE Below(n) == {x \in D : rank[x] < n}
           Solves(f, n) == f = [x \in Below(n) |-> IF x \in Stop THEN value[x] ELSE f[next[x]]]
           T == {n \in Nat : \E f : Solves(f, n)}
           F == [n \in Nat |-> CHOOSE f : Solves(f, n)]
           Same(x) == \A n, m \in Nat : rank[x] < n /\ rank[x] < m => F[n][x] = F[m][x]
           U == {r \in Nat : \A x \in Below(r) : Same(x)}
           g == [x \in D |-> F[rank[x] + 1][x]]
<1>1. /\ rank \in [D -> Nat]
      /\ \A x \in D : x \notin Stop => next[x] \in D /\ rank[next[x]] < rank[x]
  BY DEF Descends
<1>2. 0 \in T
  <2>1. Solves([x \in {} |-> 0], 0)
    BY <1>1
  <2>2. QED
    BY <2>1
<1>3. ASSUME NEW n \in Nat, n \in T PROVE n + 1 \in T
  <2>1. PICK f : Solves(f, n)
    BY <1>3
  <2> DEFINE h == [x \in Below(n + 1) |-> IF x \in Stop THEN value[x] ELSE f[next[x]]]
  <2>2. \A x \in Below(n + 1) : x \notin Stop => next[x] \in Below(n)
    BY <1>1
  <2>3. \A x \in Below(n) : x \in Below(n + 1) /\ h[x] = f[x]
    <3>1. \A x \in Below(n) : x \in Below(n + 1)
      BY <1>1
    <3>2. \A x \in Below(n) : f[x] = IF x \in Stop THEN value[x] ELSE f[next[x]]
      BY <2>1
    <3>3. QED
      BY <3>1, <3>2
  <2>4. Solves(h, n + 1)
    BY <2>2, <2>3
  <2> HIDE DEF Solves, h
  <2>5. QED
    BY <2>4
<1>4. \A n \in Nat : Solves(F[n], n)
  <2>1. \A n \in Nat : n \in T
    <3> HIDE DEF T
    <3>1. QED
      BY <1>2, <1>3, Upward
  <2> HIDE DEF Solves
  <2>2. QED
    BY <2>1
<1> HIDE DEF F
<1>5. \A n \in Nat : \A x \in D : rank[x] < n =>
         F[n][x] = IF x \in Stop THEN value[x] ELSE F[n][next[x]]
  <2> SUFFICES ASSUME NEW n \in Nat, NEW x \in D, rank[x] < n
               PROVE  F[n][x] = IF x \in Stop THEN value[x] ELSE F[n][next[x]]
    OBVIOUS
  <2>1. Solves(F[n], n) /\ x \in Below(n)
    BY <1>4
  <2> HIDE DEF Below
  <2>2. QED
    BY <2>1
<1>6. 0 \in U
  BY <1>1
<1>7. ASSUME NEW r \in Nat, r \in U PROVE r + 1 \in U
  <2> SUFFICES ASSUME NEW x \in Below(r + 1), NEW n \in Nat, NEW m \in Nat,
                      rank[x] < n, rank[x] < m
               PROVE  F[n][x] = F[m][x]
    OBVIOUS
  <2>1. x \notin Stop => F[n][next[x]] = F[m][next[x]]
    BY <1>1, <1>7
  <2>2. CASE x \in Stop
    BY <1>5, <2>2
  <2>3. CASE x \notin Stop
    BY <1>5, <2>1, <2>3
  <2>4. QED
    BY <2>2, <2>3
<1>8. \A x \in D : Same(x)
  <2>1. \A r \in Nat : r \in U
    <3> HIDE DEF U
    <3>1. QED
      BY <1>6, <1>7, Upward
  <2>2. \A x \in D : rank[x] + 1 \in Nat /\ x \in Below(rank[x] + 1)
    BY <1>1
  <2> HIDE DEF Same, Below
  <2>3. QED
    BY <2>1, <2>2
<1>9. \A x \in D : g[x] = IF x \in Stop THEN value[x] ELSE g[next[x]]
  <2> SUFFICES ASSUME NEW x \in D PROVE g[x] = IF x \in Stop THEN value[x] ELSE g[next[x]]
    OBVIOUS
  <2>1. g[x] = IF x \in Stop THEN value[x] ELSE F[rank[x] + 1][next[x]]
    <3>1. rank[x] + 1 \in Nat /\ rank[x] < rank[x] + 1 /\ g[x] = F[rank[x] + 1][x]
      BY <1>1
    <3> HIDE DEF g
    <3>2. QED
      BY <1>5, <3>1
  <2>2. x \notin Stop => F[rank[x] + 1][next[x]] = g[next[x]]
    BY <1>1, <1>8
  <2>3. QED
    BY <2>1, <2>2
<1>10. g = [x \in D |-> IF x \in Stop THEN value[x] ELSE g[next[x]]]
  <2>1. g = [x \in D |-> g[x]]
    OBVIOUS
  <2> HIDE DEF g
  <2>2. QED
    BY <1>9, <2>1
<1> HIDE DEF g
<1>11. QED
  BY <1>10 DEF IsLoop

\* A loop that collects: each argument contributes a set until it stops.
LEMMA Collect ==
    ASSUME NEW D, NEW rank, NEW Stop, NEW part, NEW next, Descends(D, rank, Stop, next)
    PROVE  \E f : IsCollection(f, D, Stop, part, next)
<1> DEFINE Below(n) == {x \in D : rank[x] < n}
           Solves(f, n) == f = [x \in Below(n) |-> IF x \in Stop THEN {} ELSE part[x] \cup f[next[x]]]
           T == {n \in Nat : \E f : Solves(f, n)}
           F == [n \in Nat |-> CHOOSE f : Solves(f, n)]
           Same(x) == \A n, m \in Nat : rank[x] < n /\ rank[x] < m => F[n][x] = F[m][x]
           U == {r \in Nat : \A x \in Below(r) : Same(x)}
           g == [x \in D |-> F[rank[x] + 1][x]]
<1>1. /\ rank \in [D -> Nat]
      /\ \A x \in D : x \notin Stop => next[x] \in D /\ rank[next[x]] < rank[x]
  BY DEF Descends
<1>2. 0 \in T
  <2>1. Solves([x \in {} |-> 0], 0)
    BY <1>1
  <2>2. QED
    BY <2>1
<1>3. ASSUME NEW n \in Nat, n \in T PROVE n + 1 \in T
  <2>1. PICK f : Solves(f, n)
    BY <1>3
  <2> DEFINE h == [x \in Below(n + 1) |-> IF x \in Stop THEN {} ELSE part[x] \cup f[next[x]]]
  <2>2. \A x \in Below(n + 1) : x \notin Stop => next[x] \in Below(n)
    BY <1>1
  <2>3. \A x \in Below(n) : x \in Below(n + 1) /\ h[x] = f[x]
    <3>1. \A x \in Below(n) : x \in Below(n + 1)
      BY <1>1
    <3>2. \A x \in Below(n) : f[x] = IF x \in Stop THEN {} ELSE part[x] \cup f[next[x]]
      BY <2>1
    <3>3. QED
      BY <3>1, <3>2
  <2>4. Solves(h, n + 1)
    BY <2>2, <2>3
  <2> HIDE DEF Solves, h
  <2>5. QED
    BY <2>4
<1>4. \A n \in Nat : Solves(F[n], n)
  <2>1. \A n \in Nat : n \in T
    <3> HIDE DEF T
    <3>1. QED
      BY <1>2, <1>3, Upward
  <2> HIDE DEF Solves
  <2>2. QED
    BY <2>1
<1> HIDE DEF F
<1>5. \A n \in Nat : \A x \in D : rank[x] < n =>
         F[n][x] = IF x \in Stop THEN {} ELSE part[x] \cup F[n][next[x]]
  <2> SUFFICES ASSUME NEW n \in Nat, NEW x \in D, rank[x] < n
               PROVE  F[n][x] = IF x \in Stop THEN {} ELSE part[x] \cup F[n][next[x]]
    OBVIOUS
  <2>1. Solves(F[n], n) /\ x \in Below(n)
    BY <1>4
  <2> HIDE DEF Below
  <2>2. QED
    BY <2>1
<1>6. 0 \in U
  BY <1>1
<1>7. ASSUME NEW r \in Nat, r \in U PROVE r + 1 \in U
  <2> SUFFICES ASSUME NEW x \in Below(r + 1), NEW n \in Nat, NEW m \in Nat,
                      rank[x] < n, rank[x] < m
               PROVE  F[n][x] = F[m][x]
    OBVIOUS
  <2>1. x \notin Stop => F[n][next[x]] = F[m][next[x]]
    BY <1>1, <1>7
  <2>2. CASE x \in Stop
    BY <1>5, <2>2
  <2>3. CASE x \notin Stop
    <3>1. F[n][x] = part[x] \cup F[n][next[x]] /\ F[m][x] = part[x] \cup F[m][next[x]]
      BY <1>5, <2>3
    <3>2. QED
      BY <2>1, <2>3, <3>1
  <2>4. QED
    BY <2>2, <2>3
<1>8. \A x \in D : Same(x)
  <2>1. \A r \in Nat : r \in U
    <3> HIDE DEF U
    <3>1. QED
      BY <1>6, <1>7, Upward
  <2>2. \A x \in D : rank[x] + 1 \in Nat /\ x \in Below(rank[x] + 1)
    BY <1>1
  <2> HIDE DEF Same, Below
  <2>3. QED
    BY <2>1, <2>2
<1>9. \A x \in D : g[x] = IF x \in Stop THEN {} ELSE part[x] \cup g[next[x]]
  <2> SUFFICES ASSUME NEW x \in D PROVE g[x] = IF x \in Stop THEN {} ELSE part[x] \cup g[next[x]]
    OBVIOUS
  <2>1. g[x] = IF x \in Stop THEN {} ELSE part[x] \cup F[rank[x] + 1][next[x]]
    <3>1. rank[x] + 1 \in Nat /\ rank[x] < rank[x] + 1 /\ g[x] = F[rank[x] + 1][x]
      BY <1>1
    <3> HIDE DEF g
    <3>2. QED
      BY <1>5, <3>1
  <2>2. x \notin Stop => F[rank[x] + 1][next[x]] = g[next[x]]
    BY <1>1, <1>8
  <2>3. QED
    BY <2>1, <2>2
<1>10. g = [x \in D |-> IF x \in Stop THEN {} ELSE part[x] \cup g[next[x]]]
  <2>1. g = [x \in D |-> g[x]]
    OBVIOUS
  <2> HIDE DEF g
  <2>2. QED
    BY <1>9, <2>1
<1> HIDE DEF g
<1>11. QED
  BY <1>10 DEF IsCollection

-----------------------------------------------------------------------------
(* What Selected selects.                                                  *)

\* One position after the other.
LEMMA SelectedSteps ==
    ASSUME NEW S, NEW s \in Seq(S), NEW I
    PROVE  \E upTo : /\ upTo[0] = <<>> /\ Selected(s, I) = upTo[Len(s)]
                     /\ \A k \in 1 .. Len(s) :
                           upTo[k] = IF k \in I THEN Append(upTo[k - 1], s[k]) ELSE upTo[k - 1]
<1> DEFINE Value(f, k) == IF k = 0 THEN <<>>
                          ELSE IF k \in I THEN Append(f[k - 1], s[k]) ELSE f[k - 1]
           Solves(f, n) == f = [k \in 0 .. n |-> Value(f, k)]
           T == {n \in Nat : \E f : Solves(f, n)}
<1>1. Len(s) \in Nat
  OBVIOUS
<1>2. 0 \in T
  <2>1. Solves([k \in 0 .. 0 |-> <<>>], 0)
    OBVIOUS
  <2> HIDE DEF Solves
  <2>2. QED
    BY <2>1
<1>3. ASSUME NEW n \in Nat, n \in T PROVE n + 1 \in T
  <2>1. PICK f : Solves(f, n)
    BY <1>3
  <2> DEFINE g == [k \in 0 .. (n + 1) |-> Value(f, k)]
  <2>2. \A k \in 0 .. n : g[k] = f[k]
    <3> HIDE DEF Value
    <3>1. QED
      BY <2>1
  <2>3. \A k \in 0 .. (n + 1) : Value(g, k) = Value(f, k)
    <3> SUFFICES ASSUME NEW k \in 0 .. (n + 1) PROVE Value(g, k) = Value(f, k)
      OBVIOUS
    <3>1. k # 0 => g[k - 1] = f[k - 1]
      <4> HIDE DEF g
      <4>1. QED
        BY <2>2
    <3> HIDE DEF g
    <3>2. QED
      BY <3>1
  <2>4. Solves(g, n + 1)
    <3> HIDE DEF Value
    <3>1. g = [k \in 0 .. (n + 1) |-> Value(f, k)]
      OBVIOUS
    <3> HIDE DEF g
    <3>2. QED
      BY <2>3, <3>1
  <2> HIDE DEF g, Solves
  <2>5. QED
    BY <2>4
<1>4. Len(s) \in T
  <2> HIDE DEF T
  <2>1. QED
    BY <1>1, <1>2, <1>3, Upward
<1> DEFINE E == CHOOSE f : Solves(f, Len(s))
<1>5. Solves(E, Len(s))
  <2> HIDE DEF Solves
  <2>1. QED
    BY <1>4
<1>6. Selected(s, I) = E[Len(s)]
  BY DEF Selected
<1> HIDE DEF E
<1>7. \A k \in 0 .. Len(s) : E[k] = Value(E, k)
  <2> HIDE DEF Value
  <2>1. QED
    BY <1>5
<1>8. E[0] = <<>>
  <2>1. E[0] = Value(E, 0)
    <3> HIDE DEF Value
    <3>1. QED
      BY <1>1, <1>7
  <2>2. QED
    BY <2>1
<1>9. \A k \in 1 .. Len(s) : E[k] = IF k \in I THEN Append(E[k - 1], s[k]) ELSE E[k - 1]
  <2> SUFFICES ASSUME NEW k \in 1 .. Len(s)
               PROVE  E[k] = IF k \in I THEN Append(E[k - 1], s[k]) ELSE E[k - 1]
    OBVIOUS
  <2>1. E[k] = Value(E, k) /\ k # 0
    <3> HIDE DEF Value
    <3>1. QED
      BY <1>1, <1>7
  <2>2. QED
    BY <2>1
<1>10. QED
  BY <1>6, <1>8, <1>9

\* What is selected are the elements at the positions given, and all of them.
LEMMA SelectedElements ==
    ASSUME NEW S, NEW s \in Seq(S), NEW I
    PROVE  /\ Selected(s, I) \in Seq(S)
           /\ \A k \in DOMAIN Selected(s, I) : \E j \in DOMAIN s : j \in I /\ Selected(s, I)[k] = s[j]
           /\ \A j \in DOMAIN s : j \in I => \E k \in DOMAIN Selected(s, I) : Selected(s, I)[k] = s[j]
<1>1. Len(s) \in Nat /\ DOMAIN s = 1 .. Len(s) /\ \A k \in 1 .. Len(s) : s[k] \in S
  OBVIOUS
<1>2. PICK E : /\ E[0] = <<>> /\ Selected(s, I) = E[Len(s)]
               /\ \A k \in 1 .. Len(s) : E[k] = IF k \in I THEN Append(E[k - 1], s[k]) ELSE E[k - 1]
  BY SelectedSteps
<1> DEFINE Has(q, j) == \E k \in DOMAIN q : q[k] = s[j]
           Good(q, n) == /\ q \in Seq(S)
                         /\ \A k \in DOMAIN q : \E j \in DOMAIN s : j \in I /\ q[k] = s[j]
                         /\ \A j \in 1 .. n : j \in I => Has(q, j)
           U == {n \in Nat : n <= Len(s) => Good(E[n], n)}
<1>3. 0 \in U
  <2>1. Good(<<>>, 0)
    OBVIOUS
  <2>2. QED
    BY <1>2, <2>1
<1>4. ASSUME NEW n \in Nat, n + 1 \in DOMAIN s, NEW q, Good(q, n), n + 1 \in I
      PROVE  Good(Append(q, s[n + 1]), n + 1)
  <2> DEFINE v == s[n + 1]
             p == Append(q, v)
  <2>1. v \in S
    BY <1>1, <1>4
  <2>2. p \in Seq(S) /\ DOMAIN p = DOMAIN q \cup {Len(q) + 1}
    BY <1>4, <2>1
  <2>3. (\A k \in DOMAIN q : p[k] = q[k]) /\ p[Len(q) + 1] = v
    BY <1>4, <2>1
  <2> HIDE DEF p
  <2>4. \A k \in DOMAIN p : \E j \in DOMAIN s : j \in I /\ p[k] = s[j]
    BY <1>4, <2>2, <2>3
  <2>5. ASSUME NEW j \in 1 .. (n + 1), j \in I PROVE Has(p, j)
    <3>1. CASE j = n + 1
      BY <2>2, <2>3, <3>1
    <3>2. CASE j # n + 1
      <4>1. j \in 1 .. n
        BY <3>2
      <4>2. Has(q, j)
        BY <1>4, <2>5, <4>1
      <4>3. QED
        BY <2>2, <2>3, <4>2
    <3>3. QED
      BY <3>1, <3>2
  <2> HIDE DEF Has, v
  <2>6. QED
    BY <2>2, <2>4, <2>5 DEF p, v
<1>5. ASSUME NEW n \in Nat, n \in U PROVE n + 1 \in U
  <2> SUFFICES ASSUME n + 1 <= Len(s) PROVE Good(E[n + 1], n + 1)
    OBVIOUS
  <2> HIDE DEF Good
  <2>1. Good(E[n], n) /\ n + 1 \in DOMAIN s /\ n + 1 \in 1 .. Len(s) /\ (n + 1) - 1 = n
    BY <1>1, <1>5
  <2>2. E[n + 1] = IF n + 1 \in I THEN Append(E[n], s[n + 1]) ELSE E[n]
    BY <1>2, <2>1
  <2>3. CASE n + 1 \in I
    BY <1>4, <2>1, <2>2, <2>3
  <2>4. CASE n + 1 \notin I
    <3>1. \A j \in 1 .. (n + 1) : j \in I => j \in 1 .. n
      BY <2>4
    <3> HIDE DEF Has
    <3>2. Good(E[n], n + 1)
      BY <2>1, <3>1 DEF Good
    <3>3. QED
      BY <2>2, <2>4, <3>2
  <2>5. QED
    BY <2>3, <2>4
<1>6. Good(E[Len(s)], Len(s))
  <2> HIDE DEF Good
  <2>1. \A n \in Nat : n \in U
    <3> HIDE DEF U
    <3>1. QED
      BY <1>3, <1>5, Upward
  <2>2. QED
    BY <1>1, <2>1
<1>7. QED
  BY <1>1, <1>2, <1>6
=============================================================================
