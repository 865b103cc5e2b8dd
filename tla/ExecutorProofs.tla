----------------------------- MODULE ExecutorProofs -----------------------------
(***************************************************************************)
(* The safety of internal/execution/executor.go for any number of calls,   *)
(* any jobs of any length and any size of the pools: the inductive         *)
(* invariant IInv, and the invariants of Executor that follow from it.     *)
(***************************************************************************)
EXTENDS Executor, TLAPS

-----------------------------------------------------------------------------
(* The inductive invariant.                                                *)

\* A call that has not been made has left no trace.
Fresh(c) ==
    pc[c] = "idle" =>
        /\ next[c] = 1 /\ ~holds[c] /\ outcome[c] = "none"
        /\ req[c] = "none" /\ wire[c] = "none"
        /\ pending[c] = {} /\ applied[c] = {}

\* Where the call is and what its connection carries.
Placed(c) ==
    /\ pc[c] = "acquire" => ~holds[c] /\ wire[c] # "asked" /\ next[c] <= Size(job[c])
    /\ pc[c] = "ready" => Atomic(c) /\ wire[c] = "done" /\ req[c] \in {"begin", "stmt"}
    /\ pc[c] = "waiting" => wire[c] # "none"
    /\ pc[c] \in {"acquire", "ready", "waiting"} \/ wire[c] = "asked" => Executable(job[c])
    /\ wire[c] = "asked" => req[c] # "none"
    /\ req[c] = "stmt" /\ (pc[c] = "waiting" \/ wire[c] = "asked") => next[c] <= Size(job[c])
    /\ req[c] \in {"begin", "commit", "rollback"} => Atomic(c)
    /\ outcome[c] # "none" => pc[c] = "returned" \/ (pc[c] = "waiting" /\ req[c] = "rollback")

\* An atomic plan has executed, in its transaction, what the loop has passed; its
\* effects appear with the COMMIT, and no call that timed out has sent one.
TxEffects(c) ==
    Atomic(c) =>
        /\ applied[c] \in {{}, 1 .. Size(job[c])}
        /\ applied[c] # {} => req[c] = "commit" /\ wire[c] = "done"
        /\ outcome[c] = "timeout" => req[c] # "commit"
        /\ pc[c] = "acquire" \/ (pc[c] = "waiting" /\ req[c] = "begin") =>
              next[c] = 1 /\ pending[c] = {} /\ applied[c] = {} /\ req[c] # "commit"
        /\ pc[c] = "ready" => pending[c] = 1 .. (next[c] - 1)
        /\ pc[c] = "waiting" /\ req[c] = "stmt" /\ wire[c] = "asked" => pending[c] = 1 .. (next[c] - 1)
        /\ pc[c] = "waiting" /\ req[c] = "stmt" /\ wire[c] = "done" => pending[c] = 1 .. next[c]
        /\ req[c] = "commit" /\ wire[c] = "asked" => pending[c] = 1 .. Size(job[c])

\* Outside a transaction the effects are those of the statements passed so far,
\* and a read has none.
SeqEffects(c) ==
    job[c] # NoJob /\ ~IsAtomicBatch(job[c]) =>
        /\ pending[c] = {}
        /\ job[c].tool = "read" => applied[c] = {}
        /\ \E n \in 0 .. Size(job[c]) : applied[c] = 1 .. n
        /\ job[c].tool = "plan" /\ (pc[c] = "acquire" \/ wire[c] = "asked") =>
              applied[c] = 1 .. (next[c] - 1)
        /\ job[c].tool = "plan" /\ pc[c] = "waiting" /\ wire[c] = "done" =>
              applied[c] = 1 .. next[c]

\* Everything the proof knows of one call.
CallInv(c) == Fresh(c) /\ Placed(c) /\ TxEffects(c) /\ SeqEffects(c)

\* The inductive invariant: no part relates two calls, for a call shares nothing
\* with another but the connections.
IInv == TypeOK /\ \A c \in Calls : CallInv(c)

-----------------------------------------------------------------------------
(* Jobs.                                                                   *)

\* What validateExecutionPlan, allWrites and the read path guarantee of the
\* statements of a job.
LEMMA JobFacts ==
    ASSUME NEW j \in Jobs
    PROVE  /\ j # NoJob
           /\ j.tool \in {"read", "plan"}
           /\ Size(j) \in Nat
           /\ Executable(j) => Size(j) >= 1
           /\ IsAtomicBatch(j) \in BOOLEAN
           /\ IsAtomicBatch(j) => j.tool = "plan"
           /\ \A i \in 1 .. Size(j) :
                 /\ IsAtomicBatch(j) => j.stmts[i] = "write"
                 /\ j.tool = "read" => j.stmts[i] = "read_only"
                 /\ j.tool = "plan" /\ Executable(j) => j.stmts[i] \in {"write", "ddl"}
<1>1. j \in JobType /\ j # NoJob
  BY ExecutorAssumption
<1>2. j.stmts \in Seq(Kinds) /\ j.tool \in {"read", "plan"} /\ DOMAIN j.stmts = 1 .. Size(j)
  BY <1>1 DEF JobType, Size
<1>3. Size(j) \in Nat
  BY <1>2 DEF Size
<1>4. j.tool = "read" => j.stmts # <<>> /\ \A i \in 1 .. Size(j) : j.stmts[i] = "read_only"
  BY <1>2, ExecutorAssumption
<1>5. Executable(j) => j.stmts # <<>>
  BY <1>2, <1>4 DEF Executable, validateExecutionPlan
<1>6. Executable(j) => Size(j) >= 1
  BY <1>2, <1>3, <1>5 DEF Size
<1>7. QED
  BY <1>1, <1>2, <1>3, <1>4, <1>6
     DEF IsAtomicBatch, allWrites, AtomicBatches, Executable, validateExecutionPlan

-----------------------------------------------------------------------------
(* One call moves at a time.                                               *)

\* The step leaves call d alone.
SameCall(d) ==
    /\ job'[d] = job[d] /\ pc'[d] = pc[d] /\ ctx'[d] = ctx[d] /\ next'[d] = next[d]
    /\ holds'[d] = holds[d] /\ req'[d] = req[d] /\ wire'[d] = wire[d]
    /\ pending'[d] = pending[d] /\ applied'[d] = applied[d] /\ outcome'[d] = outcome[d]

\* A call that the step leaves alone keeps its part of the invariant.
LEMMA Frame ==
    ASSUME NEW d \in Calls, CallInv(d), SameCall(d)
    PROVE  CallInv(d)'
<1>1. Fresh(d)'
  BY DEF CallInv, Fresh, SameCall
<1>2. Placed(d)'
  BY DEF CallInv, Placed, SameCall, Atomic
<1>3. TxEffects(d)'
  BY DEF CallInv, TxEffects, SameCall, Atomic
<1>4. SeqEffects(d)'
  BY DEF CallInv, SeqEffects, SameCall
<1>5. QED
  BY <1>1, <1>2, <1>3, <1>4 DEF CallInv

\* A step of call c keeps IInv if it keeps the part of it about c.
LEMMA OneCall ==
    ASSUME NEW c \in Calls, IInv, TypeOK', CallInv(c)',
           \A d \in Calls \ {c} : SameCall(d)
    PROVE  IInv'
BY Frame DEF IInv

-----------------------------------------------------------------------------
(* Init and the steps.                                                     *)

\* What the invariants say of a call that has been made.
LEMMA Made ==
    ASSUME IInv, NEW c \in Calls, pc[c] # "idle"
    PROVE  /\ job[c] \in Jobs /\ job[c] # NoJob
           /\ Size(job[c]) \in Nat /\ next[c] \in 1 .. (Size(job[c]) + 1)
           /\ IsAtomicBatch(job[c]) \in BOOLEAN
           /\ Fresh(c) /\ Placed(c) /\ TxEffects(c) /\ SeqEffects(c)
BY JobFacts DEF IInv, TypeOK, CallInv

\* Before any call the invariant holds.
LEMMA InitInv == Init => IInv
<1> SUFFICES ASSUME Init PROVE IInv
  OBVIOUS
<1>1. TypeOK
  BY DEF Init, TypeOK, Outcomes
<1>2. ASSUME NEW c \in Calls PROVE CallInv(c)
  BY DEF Init, CallInv, Fresh, Placed, TxEffects, SeqEffects, Atomic
<1>3. QED
  BY <1>1, <1>2 DEF IInv

\* A job that passed the validation asks for its first connection with no effects.
LEMMA StartInv ==
    ASSUME IInv, NEW c \in Calls, NEW j \in Jobs, Start(c, j)
    PROVE  IInv'
<1>1. /\ Size(j) \in Nat /\ Size(j) >= 1 /\ j # NoJob /\ Executable(j)
  BY JobFacts DEF Start
<1>2. TypeOK'
  BY <1>1 DEF IInv, TypeOK, CallInv, Fresh, Start, server
<1>3. CallInv(c)'
  <2>1. Fresh(c)'
    BY DEF IInv, TypeOK, Fresh, Start, server
  <2>2. Placed(c)'
    BY <1>1 DEF IInv, TypeOK, CallInv, Fresh, Placed, Atomic, Start, server
  <2>3. TxEffects(c)'
    BY <1>1 DEF IInv, TypeOK, CallInv, Fresh, TxEffects, Atomic, Start, server
  <2>4. SeqEffects(c)'
    <3>1. applied'[c] = 1 .. 0 /\ pending'[c] = {} /\ next'[c] = 1 /\ wire'[c] = "none"
      BY DEF IInv, TypeOK, CallInv, Fresh, Start, server
    <3>2. job'[c] = j /\ pc'[c] = "acquire"
      BY DEF IInv, TypeOK, Start
    <3>3. QED
      BY <1>1, <3>1, <3>2 DEF SeqEffects
  <2>5. QED
    BY <2>1, <2>2, <2>3, <2>4 DEF CallInv
<1>4. \A d \in Calls \ {c} : SameCall(d)
  BY DEF IInv, TypeOK, SameCall, Start, server
<1>5. QED
  BY <1>2, <1>3, <1>4, OneCall

\* The first request goes out on a fresh connection: BEGIN of an atomic plan,
\* else the statement the loop is at.
LEMMA GetConnInv ==
    ASSUME IInv, NEW c \in Calls, GetConn(c)
    PROVE  IInv'
<1>1. pc[c] # "idle"
  BY DEF GetConn, IInv, CallInv, Fresh
<1>2. TypeOK'
  BY <1>1, Made DEF IInv, TypeOK, Placed, Atomic, GetConn, Ask, server
<1>3. CallInv(c)'
  <2>1. Fresh(c)'
    BY <1>1 DEF IInv, TypeOK, Fresh, GetConn, Ask, server
  <2>2. Placed(c)'
    BY <1>1, Made DEF IInv, TypeOK, Placed, Atomic, GetConn, Ask, server
  <2>3. TxEffects(c)'
    BY <1>1, Made DEF IInv, TypeOK, Placed, TxEffects, Atomic, GetConn, Ask, server
  <2>4. SeqEffects(c)'
    BY <1>1, Made DEF IInv, TypeOK, Placed, SeqEffects, Atomic, GetConn, Ask, server
  <2>5. QED
    BY <2>1, <2>2, <2>3, <2>4 DEF CallInv
<1>4. \A d \in Calls \ {c} : SameCall(d)
  BY DEF IInv, TypeOK, SameCall, GetConn, Ask, server
<1>5. QED
  BY <1>2, <1>3, <1>4, OneCall

\* A call that gets no connection has nothing on the wire.
LEMMA DialFailsInv ==
    ASSUME IInv, NEW c \in Calls, DialFails(c)
    PROVE  IInv'
<1>1. pc[c] # "idle"
  BY DEF DialFails, IInv, CallInv, Fresh
<1>2. TypeOK'
  BY <1>1, Made DEF IInv, TypeOK, Placed, Atomic, DialFails, Return, Outcomes, server
<1>3. CallInv(c)'
  <2>1. Fresh(c)'
    BY <1>1 DEF IInv, TypeOK, Fresh, DialFails, Return, server
  <2>2. Placed(c)'
    BY <1>1, Made DEF IInv, TypeOK, Placed, Atomic, DialFails, Return, server
  <2>3. TxEffects(c)'
    BY <1>1, Made DEF IInv, TypeOK, Placed, TxEffects, Atomic, DialFails, Return, server
  <2>4. SeqEffects(c)'
    BY <1>1, Made DEF IInv, TypeOK, Placed, SeqEffects, Atomic, DialFails, Return, server
  <2>5. QED
    BY <2>1, <2>2, <2>3, <2>4 DEF CallInv
<1>4. \A d \in Calls \ {c} : SameCall(d)
  BY DEF IInv, TypeOK, SameCall, DialFails, Return, server
<1>5. QED
  BY <1>2, <1>3, <1>4, OneCall

\* The transaction starts with nothing in it.
LEMMA BeginAckedInv ==
    ASSUME IInv, NEW c \in Calls, BeginAcked(c)
    PROVE  IInv'
<1>1. pc[c] # "idle"
  BY DEF BeginAcked, IInv, CallInv, Fresh
<1>2. TypeOK'
  BY <1>1, Made DEF IInv, TypeOK, Placed, Atomic, BeginAcked, server
<1>3. CallInv(c)'
  <2>1. Fresh(c)'
    BY <1>1 DEF IInv, TypeOK, Fresh, BeginAcked, server
  <2>2. Placed(c)'
    BY <1>1, Made DEF IInv, TypeOK, Placed, Atomic, BeginAcked, server
  <2>3. TxEffects(c)'
    <3>1. Atomic(c) => pending'[c] = {} /\ next'[c] - 1 = 0 /\ applied'[c] = {}
      BY <1>1, Made DEF Placed, TxEffects, BeginAcked, server
    <3>2. Atomic(c) => pending'[c] = 1 .. (next'[c] - 1)
      <4>1. 1 .. 0 = {}
        OBVIOUS
      <4>2. QED
        BY <3>1, <4>1
    <3>3. pc'[c] = "ready" /\ req'[c] = "begin" /\ job'[c] = job[c]
      BY DEF IInv, TypeOK, BeginAcked
    <3>4. QED
      BY <3>1, <3>2, <3>3 DEF TxEffects, Atomic
  <2>4. SeqEffects(c)'
    BY <1>1, Made DEF IInv, TypeOK, Placed, SeqEffects, Atomic, BeginAcked, server
  <2>5. QED
    BY <2>1, <2>2, <2>3, <2>4 DEF CallInv
<1>4. \A d \in Calls \ {c} : SameCall(d)
  BY DEF IInv, TypeOK, SameCall, BeginAcked, server
<1>5. QED
  BY <1>2, <1>3, <1>4, OneCall

\* The statement on the wire is the first one the transaction lacks.
LEMMA SendStatementInv ==
    ASSUME IInv, NEW c \in Calls, SendStatement(c)
    PROVE  IInv'
<1>1. pc[c] # "idle"
  BY DEF SendStatement, IInv, CallInv, Fresh
<1>2. TypeOK'
  BY <1>1, Made DEF IInv, TypeOK, Placed, Atomic, SendStatement, Ask, server
<1>3. CallInv(c)'
  <2>1. Fresh(c)'
    BY <1>1 DEF IInv, TypeOK, Fresh, SendStatement, Ask, server
  <2>2. Placed(c)'
    BY <1>1, Made DEF IInv, TypeOK, Placed, Atomic, SendStatement, Ask, server
  <2>3. TxEffects(c)'
    BY <1>1, Made DEF IInv, TypeOK, Placed, TxEffects, Atomic, SendStatement, Ask, server
  <2>4. SeqEffects(c)'
    BY <1>1, Made DEF IInv, TypeOK, Placed, SeqEffects, Atomic, SendStatement, Ask, server
  <2>5. QED
    BY <2>1, <2>2, <2>3, <2>4 DEF CallInv
<1>4. \A d \in Calls \ {c} : SameCall(d)
  BY DEF IInv, TypeOK, SameCall, SendStatement, Ask, server
<1>5. QED
  BY <1>2, <1>3, <1>4, OneCall

\* The loop passes a statement once the transaction has it.
LEMMA TxStatementAckedInv ==
    ASSUME IInv, NEW c \in Calls, TxStatementAcked(c)
    PROVE  IInv'
<1>1. pc[c] # "idle"
  BY DEF TxStatementAcked, IInv, CallInv, Fresh
<1>2. TypeOK'
  BY <1>1, Made DEF IInv, TypeOK, Placed, Atomic, TxStatementAcked, server
<1>3. CallInv(c)'
  <2>1. Fresh(c)'
    BY <1>1 DEF IInv, TypeOK, Fresh, TxStatementAcked, server
  <2>2. Placed(c)'
    BY <1>1, Made DEF IInv, TypeOK, Placed, Atomic, TxStatementAcked, server
  <2>3. TxEffects(c)'
    BY <1>1, Made DEF IInv, TypeOK, Placed, TxEffects, Atomic, TxStatementAcked, server
  <2>4. SeqEffects(c)'
    BY <1>1, Made DEF IInv, TypeOK, Placed, SeqEffects, Atomic, TxStatementAcked, server
  <2>5. QED
    BY <2>1, <2>2, <2>3, <2>4 DEF CallInv
<1>4. \A d \in Calls \ {c} : SameCall(d)
  BY DEF IInv, TypeOK, SameCall, TxStatementAcked, server
<1>5. QED
  BY <1>2, <1>3, <1>4, OneCall

\* A refused statement leads to the ROLLBACK and never to the COMMIT.
LEMMA TxStatementRefusedInv ==
    ASSUME IInv, NEW c \in Calls, TxStatementRefused(c)
    PROVE  IInv'
<1>1. pc[c] # "idle"
  BY DEF TxStatementRefused, IInv, CallInv, Fresh
<1>2. TypeOK'
  BY <1>1, Made DEF IInv, TypeOK, Placed, Atomic, TxStatementRefused, Ask, RollbackInBackground, Outcomes, server
<1>3. CallInv(c)'
  <2>1. Fresh(c)'
    BY <1>1 DEF IInv, TypeOK, Fresh, TxStatementRefused, Ask, RollbackInBackground, server
  <2>2. Placed(c)'
    BY <1>1, Made DEF IInv, TypeOK, Placed, Atomic, TxStatementRefused, Ask, RollbackInBackground, server
  <2>3. TxEffects(c)'
    BY <1>1, Made DEF IInv, TypeOK, Placed, TxEffects, Atomic, TxStatementRefused, Ask, RollbackInBackground, server
  <2>4. SeqEffects(c)'
    BY <1>1, Made DEF IInv, TypeOK, Placed, SeqEffects, Atomic, TxStatementRefused, Ask, RollbackInBackground, server
  <2>5. QED
    BY <2>1, <2>2, <2>3, <2>4 DEF CallInv
<1>4. \A d \in Calls \ {c} : SameCall(d)
  BY DEF IInv, TypeOK, SameCall, TxStatementRefused, Ask, RollbackInBackground, server
<1>5. QED
  BY <1>2, <1>3, <1>4, OneCall

\* COMMIT goes out with every statement in the transaction.
LEMMA SendCommitInv ==
    ASSUME IInv, NEW c \in Calls, SendCommit(c)
    PROVE  IInv'
<1>1. pc[c] # "idle"
  BY DEF SendCommit, IInv, CallInv, Fresh
<1>2. TypeOK'
  BY <1>1, Made DEF IInv, TypeOK, Placed, Atomic, SendCommit, Ask, server
<1>3. CallInv(c)'
  <2>1. Fresh(c)'
    BY <1>1 DEF IInv, TypeOK, Fresh, SendCommit, Ask, server
  <2>2. Placed(c)'
    BY <1>1, Made DEF IInv, TypeOK, Placed, Atomic, SendCommit, Ask, server
  <2>3. TxEffects(c)'
    <3>1. pending[c] = 1 .. Size(job[c]) /\ applied[c] = {} /\ outcome[c] = "none"
      <4>1. next[c] - 1 = Size(job[c])
        BY <1>1, Made DEF SendCommit
      <4>2. QED
        BY <1>1, <4>1, Made DEF IInv, TypeOK, Placed, TxEffects, Atomic, SendCommit
    <3>2. pc'[c] = "waiting" /\ req'[c] = "commit" /\ wire'[c] = "asked" /\ job'[c] = job[c]
      BY DEF IInv, TypeOK, SendCommit, Ask
    <3>3. pending'[c] = pending[c] /\ applied'[c] = applied[c] /\ outcome'[c] = outcome[c]
      BY DEF SendCommit, server
    <3>4. QED
      BY <3>1, <3>2, <3>3 DEF TxEffects, Atomic
  <2>4. SeqEffects(c)'
    BY <1>1, Made DEF IInv, TypeOK, Placed, SeqEffects, Atomic, SendCommit, Ask, server
  <2>5. QED
    BY <2>1, <2>2, <2>3, <2>4 DEF CallInv
<1>4. \A d \in Calls \ {c} : SameCall(d)
  BY DEF IInv, TypeOK, SameCall, SendCommit, Ask, server
<1>5. QED
  BY <1>2, <1>3, <1>4, OneCall

\* Success of an atomic plan means that its COMMIT was executed.
LEMMA CommitAckedInv ==
    ASSUME IInv, NEW c \in Calls, CommitAcked(c)
    PROVE  IInv'
<1>1. pc[c] # "idle"
  BY DEF CommitAcked, IInv, CallInv, Fresh
<1>2. TypeOK'
  BY <1>1, Made DEF IInv, TypeOK, Placed, Atomic, CommitAcked, Return, Release, Outcomes, server
<1>3. CallInv(c)'
  <2>1. Fresh(c)'
    BY <1>1 DEF IInv, TypeOK, Fresh, CommitAcked, Return, Release, server
  <2>2. Placed(c)'
    BY <1>1, Made DEF IInv, TypeOK, Placed, Atomic, CommitAcked, Return, Release, server
  <2>3. TxEffects(c)'
    BY <1>1, Made DEF IInv, TypeOK, Placed, TxEffects, Atomic, CommitAcked, Return, Release, server
  <2>4. SeqEffects(c)'
    BY <1>1, Made DEF IInv, TypeOK, Placed, SeqEffects, Atomic, CommitAcked, Return, Release, server
  <2>5. QED
    BY <2>1, <2>2, <2>3, <2>4 DEF CallInv
<1>4. \A d \in Calls \ {c} : SameCall(d)
  BY DEF IInv, TypeOK, SameCall, CommitAcked, Return, Release, server
<1>5. QED
  BY <1>2, <1>3, <1>4, OneCall

\* The answer to a ROLLBACK changes no effects.
LEMMA RollbackAnsweredInv ==
    ASSUME IInv, NEW c \in Calls, RollbackAnswered(c)
    PROVE  IInv'
<1>1. pc[c] # "idle"
  BY DEF RollbackAnswered, IInv, CallInv, Fresh
<1>2. TypeOK'
  BY <1>1, Made DEF IInv, TypeOK, Placed, Atomic, RollbackAnswered, Release, server
<1>3. CallInv(c)'
  <2>1. Fresh(c)'
    BY <1>1 DEF IInv, TypeOK, Fresh, RollbackAnswered, Release, server
  <2>2. Placed(c)'
    BY <1>1, Made DEF IInv, TypeOK, Placed, Atomic, RollbackAnswered, Release, server
  <2>3. TxEffects(c)'
    BY <1>1, Made DEF IInv, TypeOK, Placed, TxEffects, Atomic, RollbackAnswered, Release, server
  <2>4. SeqEffects(c)'
    BY <1>1, Made DEF IInv, TypeOK, Placed, SeqEffects, Atomic, RollbackAnswered, Release, server
  <2>5. QED
    BY <2>1, <2>2, <2>3, <2>4 DEF CallInv
<1>4. \A d \in Calls \ {c} : SameCall(d)
  BY DEF IInv, TypeOK, SameCall, RollbackAnswered, Release, server
<1>5. QED
  BY <1>2, <1>3, <1>4, OneCall

\* Without a transaction the loop passes a statement that has taken effect.
LEMMA StatementAckedInv ==
    ASSUME IInv, NEW c \in Calls, StatementAcked(c)
    PROVE  IInv'
<1>1. pc[c] # "idle"
  BY DEF StatementAcked, IInv, CallInv, Fresh
<1>2. TypeOK'
  BY <1>1, Made DEF IInv, TypeOK, Placed, Atomic, StatementAcked, Return, Release, Outcomes, server
<1>3. CallInv(c)'
  <2>1. Fresh(c)'
    BY <1>1 DEF IInv, TypeOK, Fresh, StatementAcked, Return, Release, server
  <2>2. Placed(c)'
    BY <1>1, Made DEF IInv, TypeOK, Placed, Atomic, StatementAcked, Return, Release, server
  <2>3. TxEffects(c)'
    BY <1>1, Made DEF IInv, TypeOK, Placed, TxEffects, Atomic, StatementAcked, Return, Release, server
  <2>4. SeqEffects(c)'
    BY <1>1, Made DEF IInv, TypeOK, Placed, SeqEffects, Atomic, StatementAcked, Return, Release, server
  <2>5. QED
    BY <2>1, <2>2, <2>3, <2>4 DEF CallInv
<1>4. \A d \in Calls \ {c} : SameCall(d)
  BY DEF IInv, TypeOK, SameCall, StatementAcked, Return, Release, server
<1>5. QED
  BY <1>2, <1>3, <1>4, OneCall

\* A refused request leaves the effects of the earlier ones.
LEMMA RequestRefusedInv ==
    ASSUME IInv, NEW c \in Calls, RequestRefused(c)
    PROVE  IInv'
<1>1. pc[c] # "idle"
  BY DEF RequestRefused, IInv, CallInv, Fresh
<1>2. TypeOK'
  BY <1>1, Made DEF IInv, TypeOK, Placed, Atomic, RequestRefused, Return, Release, Outcomes, server
<1>3. CallInv(c)'
  <2>1. Fresh(c)'
    BY <1>1 DEF IInv, TypeOK, Fresh, RequestRefused, Return, Release, server
  <2>2. Placed(c)'
    BY <1>1, Made DEF IInv, TypeOK, Placed, Atomic, RequestRefused, Return, Release, server
  <2>3. TxEffects(c)'
    BY <1>1, Made DEF IInv, TypeOK, Placed, TxEffects, Atomic, RequestRefused, Return, Release, server
  <2>4. SeqEffects(c)'
    BY <1>1, Made DEF IInv, TypeOK, Placed, SeqEffects, Atomic, RequestRefused, Return, Release, server
  <2>5. QED
    BY <2>1, <2>2, <2>3, <2>4 DEF CallInv
<1>4. \A d \in Calls \ {c} : SameCall(d)
  BY DEF IInv, TypeOK, SameCall, RequestRefused, Return, Release, server
<1>5. QED
  BY <1>2, <1>3, <1>4, OneCall

\* A call whose context ends in the queue of the pool has nothing on the wire.
LEMMA AbandonWaitInv ==
    ASSUME IInv, NEW c \in Calls, AbandonWait(c)
    PROVE  IInv'
<1>1. pc[c] # "idle"
  BY DEF AbandonWait, IInv, CallInv, Fresh
<1>2. TypeOK'
  BY <1>1, Made DEF IInv, TypeOK, Placed, Atomic, AbandonWait, Return, ctxError, Outcomes, server
<1>3. CallInv(c)'
  <2>1. Fresh(c)'
    BY <1>1 DEF IInv, TypeOK, Fresh, AbandonWait, Return, ctxError, server
  <2>2. Placed(c)'
    BY <1>1, Made DEF IInv, TypeOK, Placed, Atomic, AbandonWait, Return, ctxError, server
  <2>3. TxEffects(c)'
    BY <1>1, Made DEF IInv, TypeOK, Placed, TxEffects, Atomic, AbandonWait, Return, ctxError, server
  <2>4. SeqEffects(c)'
    BY <1>1, Made DEF IInv, TypeOK, Placed, SeqEffects, Atomic, AbandonWait, Return, ctxError, server
  <2>5. QED
    BY <2>1, <2>2, <2>3, <2>4 DEF CallInv
<1>4. \A d \in Calls \ {c} : SameCall(d)
  BY DEF IInv, TypeOK, SameCall, AbandonWait, Return, ctxError, server
<1>5. QED
  BY <1>2, <1>3, <1>4, OneCall

\* A request that is given up is BEGIN or a statement, and never COMMIT.
LEMMA AbandonRequestInv ==
    ASSUME IInv, NEW c \in Calls, AbandonRequest(c)
    PROVE  IInv'
<1>1. pc[c] # "idle"
  BY DEF AbandonRequest, IInv, CallInv, Fresh
<1>2. TypeOK'
  BY <1>1, Made DEF IInv, TypeOK, Placed, Atomic, AbandonRequest, Return, Release, ctxError, Outcomes, server
<1>3. CallInv(c)'
  <2>1. Fresh(c)'
    BY <1>1 DEF IInv, TypeOK, Fresh, AbandonRequest, Return, Release, ctxError, server
  <2>2. Placed(c)'
    BY <1>1, Made DEF IInv, TypeOK, Placed, Atomic, AbandonRequest, Return, Release, ctxError, server
  <2>3. TxEffects(c)'
    BY <1>1, Made DEF IInv, TypeOK, Placed, TxEffects, Atomic, AbandonRequest, Return, Release, ctxError, server
  <2>4. SeqEffects(c)'
    BY <1>1, Made DEF IInv, TypeOK, Placed, SeqEffects, Atomic, AbandonRequest, Return, Release, ctxError, server
  <2>5. QED
    BY <2>1, <2>2, <2>3, <2>4 DEF CallInv
<1>4. \A d \in Calls \ {c} : SameCall(d)
  BY DEF IInv, TypeOK, SameCall, AbandonRequest, Return, Release, ctxError, server
<1>5. QED
  BY <1>2, <1>3, <1>4, OneCall

\* A transaction whose context ends between two requests is rolled back.
LEMMA AbandonTxInv ==
    ASSUME IInv, NEW c \in Calls, AbandonTx(c)
    PROVE  IInv'
<1>1. pc[c] # "idle"
  BY DEF AbandonTx, IInv, CallInv, Fresh
<1>2. TypeOK'
  BY <1>1, Made DEF IInv, TypeOK, Placed, Atomic, AbandonTx, Ask, RollbackInBackground, ctxError, Outcomes, server
<1>3. CallInv(c)'
  <2>1. Fresh(c)'
    BY <1>1 DEF IInv, TypeOK, Fresh, AbandonTx, Ask, RollbackInBackground, ctxError, server
  <2>2. Placed(c)'
    BY <1>1, Made DEF IInv, TypeOK, Placed, Atomic, AbandonTx, Ask, RollbackInBackground, ctxError, server
  <2>3. TxEffects(c)'
    BY <1>1, Made DEF IInv, TypeOK, Placed, TxEffects, Atomic, AbandonTx, Ask, RollbackInBackground, ctxError, server
  <2>4. SeqEffects(c)'
    BY <1>1, Made DEF IInv, TypeOK, Placed, SeqEffects, Atomic, AbandonTx, Ask, RollbackInBackground, ctxError, server
  <2>5. QED
    BY <2>1, <2>2, <2>3, <2>4 DEF CallInv
<1>4. \A d \in Calls \ {c} : SameCall(d)
  BY DEF IInv, TypeOK, SameCall, AbandonTx, Ask, RollbackInBackground, ctxError, server
<1>5. QED
  BY <1>2, <1>3, <1>4, OneCall

\* The deadline changes the context only.
LEMMA ExpireInv ==
    ASSUME IInv, NEW c \in Calls, Expire(c)
    PROVE  IInv'
<1>1. pc[c] # "idle"
  BY DEF Expire, IInv, CallInv, Fresh
<1>2. TypeOK'
  BY <1>1, Made DEF IInv, TypeOK, Placed, Atomic, Expire, server
<1>3. CallInv(c)'
  <2>1. Fresh(c)'
    BY <1>1 DEF IInv, TypeOK, Fresh, Expire, server
  <2>2. Placed(c)'
    BY <1>1, Made DEF IInv, TypeOK, Placed, Atomic, Expire, server
  <2>3. TxEffects(c)'
    BY <1>1, Made DEF IInv, TypeOK, Placed, TxEffects, Atomic, Expire, server
  <2>4. SeqEffects(c)'
    BY <1>1, Made DEF IInv, TypeOK, Placed, SeqEffects, Atomic, Expire, server
  <2>5. QED
    BY <2>1, <2>2, <2>3, <2>4 DEF CallInv
<1>4. \A d \in Calls \ {c} : SameCall(d)
  BY DEF IInv, TypeOK, SameCall, Expire, server
<1>5. QED
  BY <1>2, <1>3, <1>4, OneCall

\* So does the cancellation by the client.
LEMMA CancelInv ==
    ASSUME IInv, NEW c \in Calls, Cancel(c)
    PROVE  IInv'
<1>1. pc[c] # "idle"
  BY DEF Cancel, IInv, CallInv, Fresh
<1>2. TypeOK'
  BY <1>1, Made DEF IInv, TypeOK, Placed, Atomic, Cancel, server
<1>3. CallInv(c)'
  <2>1. Fresh(c)'
    BY <1>1 DEF IInv, TypeOK, Fresh, Cancel, server
  <2>2. Placed(c)'
    BY <1>1, Made DEF IInv, TypeOK, Placed, Atomic, Cancel, server
  <2>3. TxEffects(c)'
    BY <1>1, Made DEF IInv, TypeOK, Placed, TxEffects, Atomic, Cancel, server
  <2>4. SeqEffects(c)'
    BY <1>1, Made DEF IInv, TypeOK, Placed, SeqEffects, Atomic, Cancel, server
  <2>5. QED
    BY <2>1, <2>2, <2>3, <2>4 DEF CallInv
<1>4. \A d \in Calls \ {c} : SameCall(d)
  BY DEF IInv, TypeOK, SameCall, Cancel, server
<1>5. QED
  BY <1>2, <1>3, <1>4, OneCall

\* A lost connection is a failure, and never reported as a timeout.
LEMMA ConnLostInv ==
    ASSUME IInv, NEW c \in Calls, ConnLost(c)
    PROVE  IInv'
<1>1. pc[c] # "idle"
  BY DEF ConnLost, IInv, CallInv, Fresh
<1>2. TypeOK'
  BY <1>1, Made DEF IInv, TypeOK, Placed, Atomic, ConnLost, Release, Outcomes, server
<1>3. CallInv(c)'
  <2>1. Fresh(c)'
    BY <1>1 DEF IInv, TypeOK, Fresh, ConnLost, Release, server
  <2>2. Placed(c)'
    BY <1>1, Made DEF IInv, TypeOK, Placed, Atomic, ConnLost, Release, server
  <2>3. TxEffects(c)'
    BY <1>1, Made DEF IInv, TypeOK, Placed, TxEffects, Atomic, ConnLost, Release, server
  <2>4. SeqEffects(c)'
    BY <1>1, Made DEF IInv, TypeOK, Placed, SeqEffects, Atomic, ConnLost, Release, server
  <2>5. QED
    BY <2>1, <2>2, <2>3, <2>4 DEF CallInv
<1>4. \A d \in Calls \ {c} : SameCall(d)
  BY DEF IInv, TypeOK, SameCall, ConnLost, Release, server
<1>5. QED
  BY <1>2, <1>3, <1>4, OneCall

\* A refused request adds no effects.
LEMMA ServerRefusesInv ==
    ASSUME IInv, NEW c \in Calls, ServerRefuses(c)
    PROVE  IInv'
<1>1. pc[c] # "idle"
  BY DEF ServerRefuses, IInv, CallInv, Fresh
<1>2. TypeOK'
  BY <1>1, Made DEF IInv, TypeOK, Placed, Atomic, ServerRefuses, client
<1>3. CallInv(c)'
  <2>1. Fresh(c)'
    BY <1>1 DEF IInv, TypeOK, Fresh, ServerRefuses, client
  <2>2. Placed(c)'
    BY <1>1, Made DEF IInv, TypeOK, Placed, Atomic, ServerRefuses, client
  <2>3. TxEffects(c)'
    BY <1>1, Made DEF IInv, TypeOK, Placed, TxEffects, Atomic, ServerRefuses, client
  <2>4. SeqEffects(c)'
    BY <1>1, Made DEF IInv, TypeOK, Placed, SeqEffects, Atomic, ServerRefuses, client
  <2>5. QED
    BY <2>1, <2>2, <2>3, <2>4 DEF CallInv
<1>4. \A d \in Calls \ {c} : SameCall(d)
  BY DEF IInv, TypeOK, SameCall, ServerRefuses, client
<1>5. QED
  BY <1>2, <1>3, <1>4, OneCall

\* A refused job leaves no trace but its error.
LEMMA RefuseInv ==
    ASSUME IInv, NEW c \in Calls, NEW j \in Jobs, Refuse(c, j)
    PROVE  IInv'
<1>1. /\ Size(j) \in Nat /\ j # NoJob /\ j.tool \in {"read", "plan"}
  BY JobFacts
<1>2. TypeOK'
  BY <1>1 DEF IInv, TypeOK, CallInv, Fresh, Refuse, Return, Outcomes, server
<1>3. CallInv(c)'
  <2>1. /\ job'[c] = j /\ pc'[c] = "returned" /\ outcome'[c] = "execution_failure"
        /\ req'[c] = "none" /\ wire'[c] = "none"
        /\ pending'[c] = {} /\ applied'[c] = 1 .. 0
    BY DEF IInv, TypeOK, CallInv, Fresh, Refuse, Return, server
  <2>2. QED
    BY <1>1, <2>1 DEF CallInv, Fresh, Placed, TxEffects, SeqEffects, Atomic
<1>4. \A d \in Calls \ {c} : SameCall(d)
  BY DEF IInv, TypeOK, SameCall, Refuse, Return, server
<1>5. QED
  BY <1>2, <1>3, <1>4, OneCall

\* What the server does with each kind of request, once the invariants have ruled
\* out the requests that cannot be on the wire.
LEMMA ServerExecutesCases ==
    ASSUME IInv, NEW c \in Calls, ServerExecutes(c)
    PROVE  \/ /\ Atomic(c) /\ req[c] = "commit"
              /\ applied' = [applied EXCEPT ![c] = @ \cup pending[c]]
              /\ pending' = [pending EXCEPT ![c] = {}]
           \/ /\ Atomic(c) /\ req[c] = "rollback"
              /\ applied' = applied
              /\ pending' = [pending EXCEPT ![c] = {}]
           \/ /\ Atomic(c) /\ req[c] = "begin"
              /\ applied' = applied /\ pending' = pending
           \/ /\ Atomic(c) /\ req[c] = "stmt"
              /\ applied' = applied
              /\ pending' = [pending EXCEPT ![c] = @ \cup {next[c]}]
           \/ /\ ~IsAtomicBatch(job[c]) /\ req[c] = "stmt" /\ job[c].tool = "plan"
              /\ applied' = [applied EXCEPT ![c] = @ \cup pending[c] \cup {next[c]}]
              /\ pending' = [pending EXCEPT ![c] = {}]
           \/ /\ ~IsAtomicBatch(job[c]) /\ req[c] = "stmt" /\ job[c].tool = "read"
              /\ applied' = applied /\ pending' = pending
<1>1. pc[c] # "idle" /\ wire[c] = "asked"
  BY DEF ServerExecutes, IInv, CallInv, Fresh
<1>2. CASE req[c] = "stmt"
  <2>1. next[c] \in 1 .. Size(job[c]) /\ Executable(job[c])
    BY <1>1, <1>2, Made DEF Placed
  <2>2. CASE IsAtomicBatch(job[c])
    <3>1. job[c].stmts[next[c]] = "write"
      BY <1>1, <2>1, <2>2, Made, JobFacts
    <3>2. QED
      BY <1>1, <1>2, <2>2, <3>1, Made DEF ServerExecutes, Atomic
  <2>3. CASE ~IsAtomicBatch(job[c]) /\ job[c].tool = "plan"
    <3>1. job[c].stmts[next[c]] \in {"write", "ddl"}
      BY <1>1, <2>1, <2>3, Made, JobFacts
    <3>2. QED
      BY <1>1, <1>2, <2>3, <3>1 DEF ServerExecutes
  <2>4. CASE job[c].tool = "read"
    <3>1. job[c].stmts[next[c]] = "read_only" /\ ~IsAtomicBatch(job[c])
      BY <1>1, <2>1, <2>4, Made, JobFacts
    <3>2. QED
      BY <1>1, <1>2, <2>4, <3>1 DEF ServerExecutes, server
  <2>5. QED
    BY <1>1, <2>2, <2>3, <2>4, Made, JobFacts
<1>3. CASE req[c] \in {"begin", "commit", "rollback"}
  BY <1>1, <1>3, Made DEF ServerExecutes, Placed, Atomic, server
<1>4. QED
  BY <1>1, <1>2, <1>3, Made DEF IInv, TypeOK, Placed

\* What the database executes is what the invariant says of the answer.
LEMMA ServerExecutesInv ==
    ASSUME IInv, NEW c \in Calls, ServerExecutes(c)
    PROVE  IInv'
<1>1. /\ pc[c] # "idle" /\ wire[c] = "asked"
      /\ wire' = [wire EXCEPT ![c] = "done"]
      /\ UNCHANGED <<up, job, pc, ctx, next, holds, req, outcome>>
  BY DEF ServerExecutes, client, IInv, CallInv, Fresh
<1>2. pending' \in [Calls -> SUBSET Nat] /\ applied' \in [Calls -> SUBSET Nat]
  BY <1>1, Made, ServerExecutesCases DEF IInv, TypeOK
<1>3. TypeOK'
  BY <1>1, <1>2 DEF IInv, TypeOK
<1>4. CallInv(c)'
  <2>1. Fresh(c)' /\ Placed(c)'
    BY <1>1, Made DEF IInv, TypeOK, Fresh, Placed, Atomic
  <2>2. TxEffects(c)'
    <3> SUFFICES ASSUME Atomic(c) PROVE TxEffects(c)'
      BY <1>1 DEF TxEffects, Atomic
    <3>1. job'[c] = job[c] /\ applied[c] = {} /\ wire'[c] = "done"
      BY <1>1, Made DEF TxEffects, IInv, TypeOK
    <3>2. CASE req[c] = "commit"
      <4>1. applied'[c] = 1 .. Size(job[c])
        <5>1. applied' = [applied EXCEPT ![c] = @ \cup pending[c]]
          BY <3>2, ServerExecutesCases
        <5>2. applied'[c] = applied[c] \cup pending[c]
          BY <5>1 DEF IInv, TypeOK
        <5>3. pending[c] = 1 .. Size(job[c])
          BY <1>1, <3>2, Made DEF TxEffects
        <5>4. QED
          BY <3>1, <5>2, <5>3
      <4>2. outcome[c] # "timeout" /\ pc[c] # "acquire" /\ pc[c] # "ready"
        BY <1>1, <3>2, Made DEF TxEffects, Placed
      <4>3. QED
        BY <1>1, <3>1, <3>2, <4>1, <4>2 DEF TxEffects, Atomic
    <3>3. CASE req[c] = "stmt"
      <4>1. /\ applied'[c] = {} /\ pending'[c] = pending[c] \cup {next[c]}
        BY <1>1, <3>1, <3>3, ServerExecutesCases DEF Atomic, IInv, TypeOK
      <4>2. pc[c] # "acquire" /\ pc[c] # "ready"
        BY <1>1, Made DEF Placed
      <4>3. pc[c] = "waiting" => pending'[c] = 1 .. next[c]
        <5>1. pc[c] = "waiting" => pending[c] = 1 .. (next[c] - 1)
          BY <1>1, <3>3, Made DEF TxEffects
        <5>2. next[c] \in Nat /\ next[c] >= 1
          BY <1>1, Made
        <5>3. QED
          BY <4>1, <5>1, <5>2
      <4>4. QED
        BY <1>1, <3>1, <3>3, <4>1, <4>2, <4>3 DEF TxEffects, Atomic
    <3>4. CASE req[c] = "rollback"
      <4>1. applied'[c] = {} /\ pc[c] # "acquire" /\ pc[c] # "ready"
        BY <1>1, <3>1, <3>4, Made, ServerExecutesCases DEF Placed
      <4>2. QED
        BY <1>1, <3>1, <3>4, <4>1 DEF TxEffects, Atomic
    <3>5. CASE req[c] = "begin"
      <4>1. /\ applied'[c] = {} /\ pending'[c] = pending[c]
            /\ pc[c] # "acquire" /\ pc[c] # "ready"
        BY <1>1, <3>1, <3>5, Made, ServerExecutesCases DEF Placed
      <4>2. QED
        BY <1>1, <3>1, <3>5, <4>1, Made DEF TxEffects, Atomic
    <3>6. QED
      BY <1>1, <3>2, <3>3, <3>4, <3>5, ServerExecutesCases
  <2>3. SeqEffects(c)'
    <3> SUFFICES ASSUME ~IsAtomicBatch(job[c]) PROVE SeqEffects(c)'
      BY <1>1 DEF SeqEffects
    <3>1. job'[c] = job[c] /\ pc[c] # "acquire" /\ wire'[c] = "done" /\ ~Atomic(c)
      BY <1>1, Made DEF Placed, IInv, TypeOK, Atomic
    <3>2. CASE job[c].tool = "plan"
      <4>1. applied'[c] = 1 .. next[c] /\ pending'[c] = {} /\ next[c] \in 0 .. Size(job[c])
        <5>1. /\ applied'[c] = applied[c] \cup pending[c] \cup {next[c]}
              /\ pending'[c] = {} /\ req[c] = "stmt"
          BY <3>1, <3>2, ServerExecutesCases DEF IInv, TypeOK
        <5>2. applied[c] = 1 .. (next[c] - 1) /\ pending[c] = {}
          BY <1>1, <3>2, Made DEF SeqEffects
        <5>3. next[c] \in Nat /\ next[c] >= 1 /\ next[c] <= Size(job[c])
          BY <1>1, <5>1, Made DEF Placed
        <5>4. QED
          BY <5>1, <5>2, <5>3
      <4>2. QED
        BY <1>1, <3>1, <3>2, <4>1 DEF SeqEffects
    <3>3. CASE job[c].tool = "read"
      <4>1. applied'[c] = applied[c] /\ pending'[c] = pending[c]
        BY <3>1, <3>3, ServerExecutesCases
      <4>2. QED
        BY <1>1, <3>1, <3>3, <4>1, Made DEF SeqEffects
    <3>4. QED
      BY <1>1, <3>2, <3>3, Made, JobFacts
  <2>4. QED
    BY <2>1, <2>2, <2>3 DEF CallInv
<1>5. \A d \in Calls \ {c} : SameCall(d)
  BY <1>1, ServerExecutesCases DEF IInv, TypeOK, SameCall
<1>6. QED
  BY <1>3, <1>4, <1>5, OneCall

\* The end of the process moves every call at once.
LEMMA HaltInv ==
    ASSUME IInv, Halt
    PROVE  IInv'
<1>1. TypeOK'
  BY DEF IInv, TypeOK, Halt, Outcomes, server
<1>2. ASSUME NEW c \in Calls PROVE CallInv(c)'
  <2>1. /\ job'[c] = job[c] /\ next'[c] = next[c] /\ req'[c] = req[c] /\ wire'[c] = wire[c]
        /\ pending'[c] = pending[c] /\ applied'[c] = applied[c] /\ holds'[c] = FALSE
        /\ IF pc[c] \in {"idle", "returned"}
           THEN pc'[c] = pc[c] /\ outcome'[c] = outcome[c]
           ELSE pc'[c] = "returned" /\ outcome'[c] = "lost"
    BY DEF Halt, server, IInv, TypeOK
  <2>2. Fresh(c) /\ Placed(c) /\ TxEffects(c) /\ SeqEffects(c)
    BY DEF IInv, CallInv
  <2>3. Fresh(c)'
    BY <2>1, <2>2 DEF Fresh
  <2>4. Placed(c)'
    BY <2>1, <2>2 DEF Placed, Atomic
  <2>5. TxEffects(c)'
    BY <2>1, <2>2 DEF TxEffects, Atomic
  <2>6. SeqEffects(c)'
    BY <2>1, <2>2 DEF SeqEffects
  <2>7. QED
    BY <2>3, <2>4, <2>5, <2>6 DEF CallInv
<1>3. QED
  BY <1>1, <1>2 DEF IInv

\* A step that changes nothing.
LEMMA StutterInv ==
    ASSUME IInv, UNCHANGED vars
    PROVE  IInv'
<1>1. TypeOK'
  BY DEF IInv, TypeOK, vars
<1>2. ASSUME NEW c \in Calls PROVE CallInv(c)'
  <2>1. CallInv(c) /\ SameCall(c)
    BY DEF IInv, SameCall, vars
  <2>2. QED
    BY <2>1, Frame
<1>3. QED
  BY <1>1, <1>2 DEF IInv

\* Every step of the executor and of its environment keeps the invariant.
LEMMA NextInv == IInv /\ [Next]_vars => IInv'
<1> SUFFICES ASSUME IInv, [Next]_vars PROVE IInv'
  OBVIOUS
<1>1. ASSUME NEW c \in Calls, NEW j \in Jobs, Start(c, j) \/ Refuse(c, j) PROVE IInv'
  BY <1>1, StartInv, RefuseInv
<1>2. ASSUME NEW c \in Calls, Client(c) PROVE IInv'
  BY <1>2, GetConnInv, BeginAckedInv, SendStatementInv, TxStatementAckedInv,
     TxStatementRefusedInv, SendCommitInv, CommitAckedInv, RollbackAnsweredInv,
     StatementAckedInv, RequestRefusedInv, AbandonWaitInv, AbandonRequestInv, AbandonTxInv
     DEF Client
<1>3. ASSUME NEW c \in Calls, Environment(c) PROVE IInv'
  BY <1>3, ExpireInv, CancelInv, DialFailsInv, ConnLostInv, ServerExecutesInv, ServerRefusesInv
     DEF Environment
<1>4. CASE Halt
  BY <1>4, HaltInv
<1>5. CASE UNCHANGED vars
  BY <1>5, StutterInv
<1>6. QED
  BY <1>1, <1>2, <1>3, <1>4, <1>5 DEF Next

\* Executor has its invariant in every state.
LEMMA Inductive == Spec => []IInv
BY InitInv, NextInv, PTL DEF Spec

-----------------------------------------------------------------------------
(* What follows.                                                           *)

\* The fields hold what they are meant to, whatever the jobs: in particular the
\* loops of executor.go never index a statement that is not there.
THEOREM Typed == Spec => []TypeOK
<1>1. IInv => TypeOK
  BY DEF IInv
<1>2. QED
  BY <1>1, Inductive, PTL

\* A plan that runs in one transaction is applied whole or not at all, however
\* many calls, statements, refusals, deadlines, lost connections and crashes.
THEOREM AtomicPlans == Spec => []AllOrNothing
<1>1. IInv => AllOrNothing
  BY DEF IInv, CallInv, TxEffects, AllOrNothing
<1>2. QED
  BY <1>1, Inductive, PTL

\* A timeout of such a plan means that nothing was applied, and since it holds of
\* every later state, that nothing will be.
THEOREM TimedOutPlans == Spec => []TimeoutMeansUntouched
<1>1. IInv => TimeoutMeansUntouched
  BY DEF IInv, CallInv, TxEffects, TimeoutMeansUntouched
<1>2. QED
  BY <1>1, Inductive, PTL

\* The effects of every call are those of its first statements.
THEOREM OrderedEffects == Spec => []StopsAtFirstFailure
<1>1. ASSUME IInv PROVE StopsAtFirstFailure
  <2> SUFFICES ASSUME NEW c \in Calls, applied[c] # {}
               PROVE  \E n \in 1 .. Size(job[c]) : applied[c] = 1 .. n
    BY DEF StopsAtFirstFailure
  <2>1. pc[c] # "idle"
    BY <1>1 DEF IInv, CallInv, Fresh
  <2>2. CASE Atomic(c)
    <3>1. applied[c] = 1 .. Size(job[c]) /\ Size(job[c]) \in Nat
      BY <1>1, <2>1, <2>2, Made DEF TxEffects
    <3>2. QED
      BY <3>1
  <2>3. CASE ~Atomic(c)
    <3>1. PICK n \in 0 .. Size(job[c]) : applied[c] = 1 .. n
      BY <1>1, <2>1, <2>3, Made DEF SeqEffects, Atomic
    <3>2. Size(job[c]) \in Nat /\ n # 0
      BY <1>1, <2>1, <3>1, Made
    <3>3. QED
      BY <3>1, <3>2
  <2>4. QED
    BY <2>2, <2>3
<1>2. QED
  BY <1>1, Inductive, PTL

\* No call waits for a connection while it has one, whatever MaxOpenConns is.
THEOREM NoPoolDeadlock == Spec => []NoHoldAndWait
<1>1. IInv => NoHoldAndWait
  BY DEF IInv, CallInv, Placed, NoHoldAndWait
<1>2. QED
  BY <1>1, Inductive, PTL
=============================================================================
