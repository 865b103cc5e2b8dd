------------------------------ MODULE RowsProofs ------------------------------
(***************************************************************************)
(* What a query response shows, for every limit and every size of result.  *)
(***************************************************************************)
EXTENDS Rows, TLAPS

\* While it reads, the loop has kept every row it was given; when it has stopped
\* without an error, what it kept is short of the result exactly when it says so.
Kept ==
    /\ \A i \in 1 .. Len(rows) : rows[i] = i
    /\ Len(rows) <= limit
    /\ status = "reading" => Len(rows) = read /\ ~truncated
    /\ status \in {"checking", "ok"} => (truncated <=> Len(rows) < total)

IInv == TypeOK /\ Kept

\* The limit that executor.go falls back to makes every limit positive.
LEMMA InitInv == Init => IInv
<1> SUFFICES ASSUME Init PROVE IInv
  OBVIOUS
<1>1. limit \in Nat \ {0}
  BY RowsAssumption DEF Init, effectiveMaxRows
<1>2. total \in 0 .. MaxTotal /\ MaxTotal \in Nat /\ rows = <<>>
  BY RowsAssumption DEF Init
<1>3. rows \in Seq(Nat) /\ Len(rows) = 0
  BY <1>2
<1>4. TypeOK
  <2>1. read \in 0 .. total
    BY <1>2 DEF Init
  <2>2. truncated \in BOOLEAN /\ status = "reading"
    BY DEF Init
  <2>3. QED
    BY <1>1, <1>2, <1>3, <2>1, <2>2 DEF TypeOK
<1>5. Kept
  BY <1>1, <1>3 DEF Init, Kept
<1>6. QED
  BY <1>4, <1>5 DEF IInv

\* Every step of collectRows keeps the invariant.
LEMMA NextInv == IInv /\ [Next]_vars => IInv'
<1> SUFFICES ASSUME IInv, [Next]_vars PROVE IInv'
  OBVIOUS
<1>1. CASE NextRow
  <2>1. CASE Len(rows) = limit
    BY <1>1, <2>1 DEF NextRow, IInv, TypeOK, Kept
  <2>2. CASE Len(rows) # limit
    <3>1. rows' = Append(rows, read + 1) /\ read' = read + 1 /\ read' \in 0 .. total
      BY <1>1, <2>2 DEF NextRow, IInv, TypeOK
    <3>2. Len(rows) = read
      BY <1>1 DEF NextRow, IInv, Kept
    <3>3. rows' \in Seq(Nat) /\ Len(rows') = read'
      BY <3>1, <3>2 DEF IInv, TypeOK
    <3>4. \A i \in 1 .. Len(rows') : rows'[i] = i
      BY <3>1, <3>2 DEF IInv, TypeOK, Kept
    <3>5. QED
      BY <1>1, <2>2, <3>1, <3>3, <3>4 DEF NextRow, IInv, TypeOK, Kept
  <2>3. QED
    BY <2>1, <2>2
<1>2. CASE LastRow
  BY <1>2 DEF LastRow, IInv, TypeOK, Kept
<1>3. CASE Break
  <2>1. rows' = <<>> /\ status' = "failed" /\ truncated' = FALSE
        /\ UNCHANGED <<limit, total, read>>
    BY <1>3 DEF Break
  <2>2. rows' \in Seq(Nat) /\ Len(rows') = 0
    BY <2>1
  <2>3. TypeOK'
    BY <2>1, <2>2 DEF IInv, TypeOK
  <2>4. Kept'
    BY <2>1, <2>2 DEF IInv, TypeOK, Kept
  <2>5. QED
    BY <2>3, <2>4 DEF IInv
<1>4. CASE Respond
  BY <1>4 DEF Respond, IInv, TypeOK, Kept
<1>5. CASE UNCHANGED vars
  BY <1>5 DEF vars, IInv, TypeOK, Kept
<1>6. QED
  BY <1>1, <1>2, <1>3, <1>4, <1>5 DEF Next

\* Rows has its invariant in every state.
LEMMA Inductive == Spec => []IInv
BY InitInv, NextInv, PTL DEF Spec

\* Whatever the limits and the result, the loop keeps to the rows there are, and the
\* limit in force is never zero.
THEOREM Typed == Spec => []TypeOK
<1>1. IInv => TypeOK
  BY DEF IInv
<1>2. QED
  BY <1>1, Inductive, PTL

\* A response has at most as many rows as the limit allows, the first ones of the
\* result in their order.
THEOREM BoundedResponse == Spec => []FirstRowsOnly
<1>1. IInv => FirstRowsOnly
  BY DEF IInv, Kept, FirstRowsOnly
<1>2. QED
  BY <1>1, Inductive, PTL

\* A response without `truncated` is the whole result.
THEOREM HonestTruncation == Spec => []CompleteUnlessTruncated
<1>1. IInv => CompleteUnlessTruncated
  BY DEF IInv, Kept, CompleteUnlessTruncated
<1>2. QED
  BY <1>1, Inductive, PTL
=============================================================================
