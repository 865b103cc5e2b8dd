--------------------------- MODULE ExecutorRefinement ---------------------------
(***************************************************************************)
(* Executor implements PlanExecution, for any number of calls, any jobs    *)
(* and any size of the pools: every step of executor.go, of the database   *)
(* or of the network is a step of the promise to the caller, or one that   *)
(* the caller cannot see.                                                  *)
(***************************************************************************)
EXTENDS ExecutorProofs

-----------------------------------------------------------------------------
(* One more invariant: what a call returns fits what happened.             *)

\* A call that has returned, or waits for its own ROLLBACK, knows its outcome, and
\* an executed COMMIT has published the plan.
Settled(c) ==
    /\ pc[c] = "returned" => outcome[c] \in Outcomes
    /\ pc[c] = "waiting" /\ req[c] = "rollback" => outcome[c] \in {"timeout", "execution_failure"}
    /\ pc[c] = "waiting" /\ req[c] = "commit" /\ wire[c] = "done" => applied[c] = 1 .. Size(job[c])

RInv == IInv /\ \A c \in Calls : Settled(c)

-----------------------------------------------------------------------------
(* One step of one call, as PlanExecution sees it.                         *)

\* The step changes of call c what PlanExecution sees as given.
Becomes(c, w, p, done, l) ==
    /\ Work(c)' = w
    /\ Phase(c)' = p
    /\ applied'[c] = done
    /\ Late(c)' = l

Unseen(c) == Becomes(c, Work(c), Phase(c), applied[c], Late(c))

\* What a call can do, with its effects `done` and a request left behind or not.
Moves(c) ==
    \/ Unseen(c)
    \/ \E j \in Jobs, p \in {"running", "execution_failure"} :
          Phase(c) = "idle" /\ Becomes(c, WorkOf(j), p, applied[c], Late(c))
    \/ /\ Phase(c) = "running"
       /\ \E done \in Plan!Following(Work(c), applied[c]) :
             Becomes(c, Work(c), "running", done, Late(c))
    \/ /\ Phase(c) = "running" /\ applied[c] = Plan!Whole(Work(c))
       /\ Becomes(c, Work(c), "ok", applied[c], Late(c))
    \/ /\ Phase(c) = "running"
       /\ \E how \in {"timeout", "execution_failure"}, left \in BOOLEAN :
             /\ how = "timeout" /\ Work(c).atomic => applied[c] = {} /\ ~left
             /\ Becomes(c, Work(c), how, applied[c], left)
    \/ /\ Late(c)
       /\ \E done \in Plan!Following(Work(c), applied[c]) \cup {applied[c]} :
             Becomes(c, Work(c), Phase(c), done, FALSE)

\* A call that a step leaves alone looks the same.
LEMMA SameLooksSame ==
    ASSUME NEW d \in Calls, SameCall(d)
    PROVE  Unseen(d)
BY DEF SameCall, Unseen, Becomes, Work, Phase, Late

\* If only call c moves, then PlanExecution's variables change at c only.
LEMMA MovesAlone ==
    ASSUME NEW c \in Calls, TypeOK, TypeOK', \A d \in Calls \ {c} : SameCall(d)
    PROVE  /\ [d \in Calls |-> Work(d)]' = [[d \in Calls |-> Work(d)] EXCEPT ![c] = Work(c)']
           /\ [d \in Calls |-> Phase(d)]' = [[d \in Calls |-> Phase(d)] EXCEPT ![c] = Phase(c)']
           /\ applied' = [applied EXCEPT ![c] = applied'[c]]
           /\ [d \in Calls |-> Late(d)]' = [[d \in Calls |-> Late(d)] EXCEPT ![c] = Late(c)']
<1>1. \A d \in Calls \ {c} : /\ Work(d)' = Work(d) /\ Phase(d)' = Phase(d)
                             /\ applied'[d] = applied[d] /\ Late(d)' = Late(d)
  BY SameLooksSame DEF Unseen, Becomes
<1>2. DOMAIN applied = Calls /\ DOMAIN applied' = Calls
  BY DEF TypeOK
<1>3. applied' = [applied EXCEPT ![c] = applied'[c]]
  BY <1>1, <1>2 DEF TypeOK
<1>4. QED
  BY <1>1, <1>3

\* The move of one call is a step of PlanExecution.
LEMMA MoveIsPlanStep ==
    ASSUME NEW c \in Calls, TypeOK, TypeOK', \A d \in Calls \ {c} : SameCall(d), Moves(c)
    PROVE  [Plan!PlanNext]_(Plan!planVars)
<1> DEFINE work == [d \in Calls |-> Work(d)]
           phase == [d \in Calls |-> Phase(d)]
           late == [d \in Calls |-> Late(d)]
<1>a. applied \in [Calls -> SUBSET Nat]
  BY DEF TypeOK
<1>b. applied = [applied EXCEPT ![c] = applied[c]]
  BY <1>a
<1>1. CASE Unseen(c)
  <2>1. /\ work' = [work EXCEPT ![c] = Work(c)] /\ phase' = [phase EXCEPT ![c] = Phase(c)]
        /\ applied' = [applied EXCEPT ![c] = applied[c]] /\ late' = [late EXCEPT ![c] = Late(c)]
    BY <1>1, MovesAlone DEF Unseen, Becomes
  <2>2. work' = work /\ phase' = phase /\ applied' = applied /\ late' = late
    BY <1>b, <2>1
  <2>3. QED
    BY <2>2 DEF Plan!planVars
<1>2. ASSUME NEW j \in Jobs, NEW p \in {"running", "execution_failure"},
             Phase(c) = "idle", Becomes(c, WorkOf(j), p, applied[c], Late(c))
      PROVE  Plan!PlanNext
  <2>1. /\ work' = [work EXCEPT ![c] = WorkOf(j)] /\ phase' = [phase EXCEPT ![c] = p]
        /\ applied' = [applied EXCEPT ![c] = applied[c]] /\ late' = [late EXCEPT ![c] = Late(c)]
    BY <1>2, MovesAlone DEF Becomes
  <2>2. applied' = applied /\ late' = late /\ phase[c] = "idle"
    BY <1>2, <1>b, <2>1
  <2>3. Plan!Begin(c, WorkOf(j)) \/ Plan!Reject(c, WorkOf(j))
    BY <2>1, <2>2 DEF Plan!Begin, Plan!Reject
  <2>4. QED
    BY <2>3 DEF Plan!PlanNext
<1>3. ASSUME Phase(c) = "running", NEW done \in Plan!Following(Work(c), applied[c]),
             Becomes(c, Work(c), "running", done, Late(c))
      PROVE  Plan!PlanNext
  <2>1. /\ work' = [work EXCEPT ![c] = Work(c)] /\ phase' = [phase EXCEPT ![c] = "running"]
        /\ applied' = [applied EXCEPT ![c] = done] /\ late' = [late EXCEPT ![c] = Late(c)]
    BY <1>3, MovesAlone DEF Becomes
  <2>2. work' = work /\ phase' = phase /\ late' = late /\ phase[c] = "running" /\ work[c] = Work(c)
    BY <1>3, <2>1
  <2>3. Plan!Publish(c)
    BY <1>3, <2>1, <2>2 DEF Plan!Publish
  <2>4. QED
    BY <2>3 DEF Plan!PlanNext
<1>4. ASSUME Phase(c) = "running", applied[c] = Plan!Whole(Work(c)),
             Becomes(c, Work(c), "ok", applied[c], Late(c))
      PROVE  Plan!PlanNext
  <2>1. /\ work' = [work EXCEPT ![c] = Work(c)] /\ phase' = [phase EXCEPT ![c] = "ok"]
        /\ applied' = [applied EXCEPT ![c] = applied[c]] /\ late' = [late EXCEPT ![c] = Late(c)]
    BY <1>4, MovesAlone DEF Becomes
  <2>2. /\ work' = work /\ applied' = applied /\ late' = late
        /\ phase[c] = "running" /\ work[c] = Work(c)
    BY <1>4, <1>b, <2>1
  <2>3. Plan!Succeed(c)
    BY <1>4, <2>1, <2>2 DEF Plan!Succeed
  <2>4. QED
    BY <2>3 DEF Plan!PlanNext
<1>5. ASSUME Phase(c) = "running",
             NEW how \in {"timeout", "execution_failure"}, NEW left \in BOOLEAN,
             how = "timeout" /\ Work(c).atomic => applied[c] = {} /\ ~left,
             Becomes(c, Work(c), how, applied[c], left)
      PROVE  Plan!PlanNext
  <2>1. /\ work' = [work EXCEPT ![c] = Work(c)] /\ phase' = [phase EXCEPT ![c] = how]
        /\ applied' = [applied EXCEPT ![c] = applied[c]] /\ late' = [late EXCEPT ![c] = left]
    BY <1>5, MovesAlone DEF Becomes
  <2>2. work' = work /\ applied' = applied /\ phase[c] = "running" /\ work[c] = Work(c)
    BY <1>5, <1>b, <2>1
  <2>3. Plan!Fail(c, how)
    BY <1>5, <2>1, <2>2 DEF Plan!Fail
  <2>4. QED
    BY <2>3 DEF Plan!PlanNext, Plan!Failures
<1>6. ASSUME Late(c), NEW done \in Plan!Following(Work(c), applied[c]) \cup {applied[c]},
             Becomes(c, Work(c), Phase(c), done, FALSE)
      PROVE  Plan!PlanNext
  <2>1. /\ work' = [work EXCEPT ![c] = Work(c)] /\ phase' = [phase EXCEPT ![c] = Phase(c)]
        /\ applied' = [applied EXCEPT ![c] = done] /\ late' = [late EXCEPT ![c] = FALSE]
    BY <1>6, MovesAlone DEF Becomes
  <2>2. work' = work /\ phase' = phase /\ late[c] /\ work[c] = Work(c)
    BY <1>6, <2>1
  <2>3. done = applied[c] => applied' = applied
    BY <1>b, <2>1
  <2>4. Plan!PublishLate(c) \/ Plan!Forget(c)
    BY <1>6, <2>1, <2>2, <2>3 DEF Plan!PublishLate, Plan!Forget
  <2>5. QED
    BY <2>4 DEF Plan!PlanNext
<1>7. QED
  BY <1>1, <1>2, <1>3, <1>4, <1>5, <1>6 DEF Moves

-----------------------------------------------------------------------------
(* What the steps do.                                                      *)

\* Only call c moves in a step of call c.
LEMMA OthersStay ==
    ASSUME TypeOK, NEW c \in Calls,
           Client(c) \/ Environment(c) \/ \E j \in Jobs : Start(c, j) \/ Refuse(c, j)
    PROVE  \A d \in Calls \ {c} : SameCall(d)
<1> SUFFICES ASSUME NEW d \in Calls \ {c} PROVE SameCall(d)
  OBVIOUS
<1> USE DEF TypeOK, SameCall, Ask, Return, Release, server
<1>1. ASSUME NEW j \in Jobs, Start(c, j) \/ Refuse(c, j) PROVE SameCall(d)
  BY <1>1 DEF Start, Refuse
<1>2. CASE GetConn(c)
  BY <1>2 DEF GetConn
<1>3. CASE BeginAcked(c)
  BY <1>3 DEF BeginAcked
<1>4. CASE SendStatement(c)
  BY <1>4 DEF SendStatement
<1>5. CASE TxStatementAcked(c)
  BY <1>5 DEF TxStatementAcked
<1>6. CASE TxStatementRefused(c)
  BY <1>6 DEF TxStatementRefused, RollbackInBackground
<1>7. CASE SendCommit(c)
  BY <1>7 DEF SendCommit
<1>8. CASE CommitAcked(c)
  BY <1>8 DEF CommitAcked
<1>9. CASE RollbackAnswered(c)
  BY <1>9 DEF RollbackAnswered
<1>10. CASE StatementAcked(c)
  BY <1>10 DEF StatementAcked
<1>11. CASE RequestRefused(c)
  BY <1>11 DEF RequestRefused
<1>12. CASE AbandonWait(c)
  BY <1>12 DEF AbandonWait
<1>13. CASE AbandonRequest(c)
  BY <1>13 DEF AbandonRequest
<1>14. CASE AbandonTx(c)
  BY <1>14 DEF AbandonTx, RollbackInBackground
<1>15. CASE Expire(c)
  BY <1>15 DEF Expire
<1>16. CASE Cancel(c)
  BY <1>16 DEF Cancel
<1>17. CASE DialFails(c)
  BY <1>17 DEF DialFails
<1>18. CASE ConnLost(c)
  BY <1>18 DEF ConnLost
<1>19. CASE ServerExecutes(c)
  BY <1>19 DEF ServerExecutes, client
<1>20. CASE ServerRefuses(c)
  BY <1>20 DEF ServerRefuses, client
<1>21. QED
  BY <1>1, <1>2, <1>3, <1>4, <1>5, <1>6, <1>7, <1>8, <1>9, <1>10, <1>11, <1>12, <1>13, <1>14, <1>15, <1>16, <1>17, <1>18, <1>19, <1>20 DEF Client, Environment

\* A step inside a running call that leaves its effects alone is not seen.
LEMMA Inside ==
    ASSUME NEW c \in Calls, job'[c] = job[c], applied'[c] = applied[c],
           pc[c] \notin {"idle", "returned"}, pc'[c] \notin {"idle", "returned"}
    PROVE  Moves(c)
<1>1. Work(c)' = Work(c)
  BY DEF Work
<1>2. Phase(c) = "running" /\ Phase(c)' = "running" /\ ~Late(c) /\ ~Late(c)'
  BY DEF Phase, Late
<1>3. Unseen(c)
  BY <1>1, <1>2 DEF Unseen, Becomes, Late
<1>4. QED
  BY <1>3 DEF Moves

\* A call that returns an error fails as PlanExecution allows, if what it calls a
\* timeout has no effects and leaves no COMMIT behind.
LEMMA Fails ==
    ASSUME IInv, NEW c \in Calls, job'[c] = job[c], applied'[c] = applied[c],
           pc[c] \notin {"idle", "returned"}, pc'[c] = "returned",
           outcome'[c] \in {"timeout", "execution_failure"},
           outcome'[c] = "timeout" /\ Atomic(c) => applied[c] = {} /\ req'[c] # "commit"
    PROVE  Moves(c)
<1>1. Work(c)' = Work(c) /\ Work(c) = WorkOf(job[c])
  BY Made DEF Work
<1>2. Phase(c) = "running" /\ Phase(c)' = outcome'[c]
  BY DEF Phase
<1>3. Late(c)' \in BOOLEAN
  BY DEF Late
<1>4. Work(c).atomic => Atomic(c)
  BY <1>1, Made DEF WorkOf, Atomic
<1>5. outcome'[c] = "timeout" /\ Work(c).atomic => applied[c] = {} /\ ~Late(c)'
  BY <1>4 DEF Late, Atomic
<1>6. Becomes(c, Work(c), outcome'[c], applied[c], Late(c)')
  BY <1>1, <1>2 DEF Becomes
<1>7. QED
  BY <1>2, <1>3, <1>5, <1>6 DEF Moves

\* A call that returns without an error has done its work.
LEMMA Succeeds ==
    ASSUME IInv, NEW c \in Calls, job'[c] = job[c], applied'[c] = applied[c],
           pc[c] \notin {"idle", "returned"}, pc'[c] = "returned",
           outcome'[c] = "ok", wire'[c] # "asked",
           applied[c] = IF job[c].tool = "read" THEN {} ELSE 1 .. Size(job[c])
    PROVE  Moves(c)
<1>1. Work(c)' = Work(c) /\ Work(c) = WorkOf(job[c])
  BY Made DEF Work
<1>2. Phase(c) = "running" /\ Phase(c)' = "ok" /\ ~Late(c) /\ ~Late(c)'
  BY DEF Phase, Late
<1>3. applied[c] = Plan!Whole(Work(c))
  BY <1>1 DEF WorkOf, Plan!Whole
<1>4. Becomes(c, Work(c), "ok", applied[c], Late(c))
  BY <1>1, <1>2 DEF Becomes, Late
<1>5. QED
  BY <1>2, <1>3, <1>4 DEF Moves

-----------------------------------------------------------------------------
(* The steps.                                                              *)

\* The caller does not see that a connection is found.
LEMMA GetConnMoves ==
    ASSUME RInv, NEW c \in Calls, GetConn(c)
    PROVE  Moves(c) /\ Settled(c)'
<1>1. /\ pc[c] \notin {"idle", "returned"} /\ pc'[c] \notin {"idle", "returned"}
      /\ job'[c] = job[c] /\ applied'[c] = applied[c]
  BY DEF RInv, IInv, TypeOK, GetConn, Ask, server
<1>2. Moves(c)
  BY <1>1, Inside
<1>3. Settled(c)'
  BY <1>1 DEF RInv, IInv, TypeOK, Settled, GetConn, Ask, server
<1>4. QED
  BY <1>2, <1>3

\* Nor the beginning of the transaction.
LEMMA BeginAckedMoves ==
    ASSUME RInv, NEW c \in Calls, BeginAcked(c)
    PROVE  Moves(c) /\ Settled(c)'
<1>1. /\ pc[c] \notin {"idle", "returned"} /\ pc'[c] \notin {"idle", "returned"}
      /\ job'[c] = job[c] /\ applied'[c] = applied[c]
  BY DEF RInv, IInv, TypeOK, BeginAcked, Ask, server
<1>2. Moves(c)
  BY <1>1, Inside
<1>3. Settled(c)'
  BY <1>1 DEF RInv, IInv, TypeOK, Settled, BeginAcked, Ask, server
<1>4. QED
  BY <1>2, <1>3

\* Nor its statements.
LEMMA SendStatementMoves ==
    ASSUME RInv, NEW c \in Calls, SendStatement(c)
    PROVE  Moves(c) /\ Settled(c)'
<1>1. /\ pc[c] \notin {"idle", "returned"} /\ pc'[c] \notin {"idle", "returned"}
      /\ job'[c] = job[c] /\ applied'[c] = applied[c]
  BY DEF RInv, IInv, TypeOK, SendStatement, Ask, server
<1>2. Moves(c)
  BY <1>1, Inside
<1>3. Settled(c)'
  BY <1>1 DEF RInv, IInv, TypeOK, Settled, SendStatement, Ask, server
<1>4. QED
  BY <1>2, <1>3

\* Nor that they were executed.
LEMMA TxStatementAckedMoves ==
    ASSUME RInv, NEW c \in Calls, TxStatementAcked(c)
    PROVE  Moves(c) /\ Settled(c)'
<1>1. /\ pc[c] \notin {"idle", "returned"} /\ pc'[c] \notin {"idle", "returned"}
      /\ job'[c] = job[c] /\ applied'[c] = applied[c]
  BY DEF RInv, IInv, TypeOK, TxStatementAcked, Ask, server
<1>2. Moves(c)
  BY <1>1, Inside
<1>3. Settled(c)'
  BY <1>1 DEF RInv, IInv, TypeOK, Settled, TxStatementAcked, Ask, server
<1>4. QED
  BY <1>2, <1>3

\* Nor that COMMIT is on its way.
LEMMA SendCommitMoves ==
    ASSUME RInv, NEW c \in Calls, SendCommit(c)
    PROVE  Moves(c) /\ Settled(c)'
<1>1. /\ pc[c] \notin {"idle", "returned"} /\ pc'[c] \notin {"idle", "returned"}
      /\ job'[c] = job[c] /\ applied'[c] = applied[c]
  BY DEF RInv, IInv, TypeOK, SendCommit, Ask, server
<1>2. Moves(c)
  BY <1>1, Inside
<1>3. Settled(c)'
  BY <1>1 DEF RInv, IInv, TypeOK, Settled, SendCommit, Ask, server
<1>4. QED
  BY <1>2, <1>3

\* Nor the deadline by itself.
LEMMA ExpireMoves ==
    ASSUME RInv, NEW c \in Calls, Expire(c)
    PROVE  Moves(c) /\ Settled(c)'
<1>1. /\ pc[c] \notin {"idle", "returned"} /\ pc'[c] \notin {"idle", "returned"}
      /\ job'[c] = job[c] /\ applied'[c] = applied[c]
  BY DEF RInv, IInv, TypeOK, Expire, Ask, server
<1>2. Moves(c)
  BY <1>1, Inside
<1>3. Settled(c)'
  BY <1>1 DEF RInv, IInv, TypeOK, Settled, Expire, Ask, server
<1>4. QED
  BY <1>2, <1>3

\* Nor a cancellation by itself.
LEMMA CancelMoves ==
    ASSUME RInv, NEW c \in Calls, Cancel(c)
    PROVE  Moves(c) /\ Settled(c)'
<1>1. /\ pc[c] \notin {"idle", "returned"} /\ pc'[c] \notin {"idle", "returned"}
      /\ job'[c] = job[c] /\ applied'[c] = applied[c]
  BY DEF RInv, IInv, TypeOK, Cancel, Ask, server
<1>2. Moves(c)
  BY <1>1, Inside
<1>3. Settled(c)'
  BY <1>1 DEF RInv, IInv, TypeOK, Settled, Cancel, Ask, server
<1>4. QED
  BY <1>2, <1>3

\* A job that passed the validation begins.
LEMMA StartMoves ==
    ASSUME RInv, NEW c \in Calls, NEW j \in Jobs, Start(c, j)
    PROVE  Moves(c) /\ Settled(c)'
<1>1. /\ pc[c] = "idle" /\ pc'[c] = "acquire" /\ job'[c] = j /\ j # NoJob
      /\ applied'[c] = applied[c]
  BY JobFacts DEF RInv, IInv, TypeOK, Start, server
<1>2. Phase(c) = "idle" /\ Becomes(c, WorkOf(j), "running", applied[c], Late(c))
  BY <1>1 DEF Phase, Becomes, Work, Late
<1>3. Moves(c)
  BY <1>2 DEF Moves
<1>4. Settled(c)'
  BY <1>1 DEF Settled
<1>5. QED
  BY <1>3, <1>4

\* A job that did not is rejected.
LEMMA RefuseMoves ==
    ASSUME RInv, NEW c \in Calls, NEW j \in Jobs, Refuse(c, j)
    PROVE  Moves(c) /\ Settled(c)'
<1>1. /\ pc[c] = "idle" /\ pc'[c] = "returned" /\ job'[c] = j /\ j # NoJob
      /\ applied'[c] = applied[c] /\ outcome'[c] = "execution_failure" /\ wire'[c] = "none"
  BY JobFacts DEF RInv, IInv, TypeOK, CallInv, Fresh, Refuse, Return, server
<1>2. Phase(c) = "idle" /\ Becomes(c, WorkOf(j), "execution_failure", applied[c], Late(c))
  BY <1>1 DEF Phase, Becomes, Work, Late
<1>3. Moves(c)
  BY <1>2 DEF Moves
<1>4. Settled(c)'
  BY <1>1 DEF Settled, Outcomes
<1>5. QED
  BY <1>3, <1>4

\* Without a connection the call fails.
LEMMA DialFailsMoves ==
    ASSUME RInv, NEW c \in Calls, DialFails(c)
    PROVE  Moves(c) /\ Settled(c)'
<1>1. /\ pc[c] \notin {"idle", "returned"} /\ pc'[c] = "returned"
      /\ job'[c] = job[c] /\ applied'[c] = applied[c] /\ req'[c] = req[c]
      /\ outcome'[c] = "execution_failure"
  BY DEF RInv, IInv, TypeOK, DialFails, Return, Release, ctxError, server
<1>2. outcome'[c] = "timeout" /\ Atomic(c) => applied[c] = {} /\ req'[c] # "commit"
  BY <1>1, Made DEF RInv, TxEffects, Atomic
<1>3. Moves(c)
  BY <1>1, <1>2, Fails DEF RInv
<1>4. Settled(c)'
  BY <1>1 DEF Settled, Outcomes
<1>5. QED
  BY <1>3, <1>4

\* After a refusal the call fails.
LEMMA RequestRefusedMoves ==
    ASSUME RInv, NEW c \in Calls, RequestRefused(c)
    PROVE  Moves(c) /\ Settled(c)'
<1>1. /\ pc[c] \notin {"idle", "returned"} /\ pc'[c] = "returned"
      /\ job'[c] = job[c] /\ applied'[c] = applied[c] /\ req'[c] = req[c]
      /\ outcome'[c] = "execution_failure"
  BY DEF RInv, IInv, TypeOK, RequestRefused, Return, Release, ctxError, server
<1>2. outcome'[c] = "timeout" /\ Atomic(c) => applied[c] = {} /\ req'[c] # "commit"
  BY <1>1, Made DEF RInv, TxEffects, Atomic
<1>3. Moves(c)
  BY <1>1, <1>2, Fails DEF RInv
<1>4. Settled(c)'
  BY <1>1 DEF Settled, Outcomes
<1>5. QED
  BY <1>3, <1>4

\* In the queue of the pool nothing has been sent.
LEMMA AbandonWaitMoves ==
    ASSUME RInv, NEW c \in Calls, AbandonWait(c)
    PROVE  Moves(c) /\ Settled(c)'
<1>1. /\ pc[c] \notin {"idle", "returned"} /\ pc'[c] = "returned"
      /\ job'[c] = job[c] /\ applied'[c] = applied[c] /\ req'[c] = req[c]
      /\ pc[c] = "acquire" /\ outcome'[c] \in {"timeout", "execution_failure"}
  BY DEF RInv, IInv, TypeOK, AbandonWait, Return, Release, ctxError, server
<1>2. outcome'[c] = "timeout" /\ Atomic(c) => applied[c] = {} /\ req'[c] # "commit"
  BY <1>1, Made DEF RInv, TxEffects, Atomic
<1>3. Moves(c)
  BY <1>1, <1>2, Fails DEF RInv
<1>4. Settled(c)'
  BY <1>1 DEF Settled, Outcomes
<1>5. QED
  BY <1>3, <1>4

\* The request that was given up is not a COMMIT.
LEMMA AbandonRequestMoves ==
    ASSUME RInv, NEW c \in Calls, AbandonRequest(c)
    PROVE  Moves(c) /\ Settled(c)'
<1>1. /\ pc[c] \notin {"idle", "returned"} /\ pc'[c] = "returned"
      /\ job'[c] = job[c] /\ applied'[c] = applied[c] /\ req'[c] = req[c]
      /\ req[c] # "commit" /\ outcome'[c] \in {"timeout", "execution_failure"}
  BY DEF RInv, IInv, TypeOK, AbandonRequest, Return, Release, ctxError, server
<1>2. outcome'[c] = "timeout" /\ Atomic(c) => applied[c] = {} /\ req'[c] # "commit"
  BY <1>1, Made DEF RInv, TxEffects, Atomic
<1>3. Moves(c)
  BY <1>1, <1>2, Fails DEF RInv
<1>4. Settled(c)'
  BY <1>1 DEF Settled, Outcomes
<1>5. QED
  BY <1>3, <1>4

\* An executed COMMIT has published the whole plan.
LEMMA CommitAckedMoves ==
    ASSUME RInv, NEW c \in Calls, CommitAcked(c)
    PROVE  Moves(c) /\ Settled(c)'
<1>1. /\ pc[c] = "waiting" /\ req[c] = "commit" /\ wire[c] = "done" /\ pc'[c] = "returned"
      /\ job'[c] = job[c] /\ applied'[c] = applied[c] /\ wire'[c] = "done" /\ outcome'[c] = "ok"
  BY DEF RInv, IInv, TypeOK, CommitAcked, Return, Release, server
<1>2. applied[c] = 1 .. Size(job[c]) /\ job[c].tool = "plan"
  BY <1>1, Made, JobFacts DEF RInv, Settled, Placed, Atomic
<1>3. Moves(c)
  BY <1>1, <1>2, Succeeds DEF RInv
<1>4. Settled(c)'
  BY <1>1 DEF Settled, Outcomes
<1>5. QED
  BY <1>3, <1>4

\* The last statement completes a sequential plan.
LEMMA StatementAckedMoves ==
    ASSUME RInv, NEW c \in Calls, StatementAcked(c)
    PROVE  Moves(c) /\ Settled(c)'
<1>1. /\ pc[c] = "waiting" /\ req[c] = "stmt" /\ wire[c] = "done" /\ ~IsAtomicBatch(job[c])
      /\ job'[c] = job[c] /\ applied'[c] = applied[c] /\ wire'[c] = "done"
  BY DEF RInv, IInv, TypeOK, StatementAcked, Release, server
<1>2. CASE next[c] < Size(job[c])
  <2>1. pc'[c] = "acquire"
    BY <1>2 DEF RInv, IInv, TypeOK, StatementAcked
  <2>2. Moves(c) /\ Settled(c)'
    BY <1>1, <2>1, Inside DEF Settled
  <2>3. QED
    BY <2>2
<1>3. CASE ~(next[c] < Size(job[c]))
  <2>1. pc'[c] = "returned" /\ outcome'[c] = "ok"
    BY <1>3 DEF RInv, IInv, TypeOK, StatementAcked, Return
  <2>2. next[c] = Size(job[c])
    BY <1>1, <1>3, Made DEF RInv, Placed
  <2>3. applied[c] = IF job[c].tool = "read" THEN {} ELSE 1 .. Size(job[c])
    <3>1. job[c] \in Jobs /\ job[c] # NoJob /\ SeqEffects(c)
      BY <1>1, Made DEF RInv
    <3>2. job[c].tool = "read" => applied[c] = {}
      BY <1>1, <3>1 DEF SeqEffects
    <3>3. job[c].tool = "plan" => applied[c] = 1 .. next[c]
      BY <1>1, <3>1 DEF SeqEffects
    <3>4. QED
      BY <2>2, <3>1, <3>2, <3>3, JobFacts
  <2>4. Moves(c)
    BY <1>1, <2>1, <2>3, Succeeds DEF RInv
  <2>5. QED
    BY <2>1, <2>4 DEF Settled, Outcomes
<1>4. QED
  BY <1>2, <1>3

\* A refused statement fails at once or after its ROLLBACK.
LEMMA TxStatementRefusedMoves ==
    ASSUME RInv, NEW c \in Calls, TxStatementRefused(c)
    PROVE  Moves(c) /\ Settled(c)'
<1>1. /\ pc[c] = "waiting" /\ job'[c] = job[c] /\ applied'[c] = applied[c]
      /\ req'[c] = "rollback" /\ outcome'[c] = "execution_failure" /\ pc'[c] \in {"waiting", "returned"}
  BY DEF RInv, IInv, TypeOK, TxStatementRefused, Ask, RollbackInBackground, server
<1>2. Moves(c)
  BY <1>1, Inside, Fails DEF RInv
<1>3. Settled(c)'
  BY <1>1 DEF Settled, Outcomes
<1>4. QED
  BY <1>2, <1>3

\* So does a transaction whose context ended; no COMMIT was sent.
LEMMA AbandonTxMoves ==
    ASSUME RInv, NEW c \in Calls, AbandonTx(c)
    PROVE  Moves(c) /\ Settled(c)'
<1>1. /\ pc[c] = "ready" /\ job'[c] = job[c] /\ applied'[c] = applied[c]
      /\ req'[c] = "rollback" /\ outcome'[c] \in {"timeout", "execution_failure"}
      /\ pc'[c] \in {"waiting", "returned"}
  BY DEF RInv, IInv, TypeOK, AbandonTx, Ask, RollbackInBackground, ctxError, server
<1>2. applied[c] = {}
  BY <1>1, Made DEF RInv, TxEffects, Placed
<1>3. Moves(c)
  BY <1>1, <1>2, Inside, Fails DEF RInv
<1>4. Settled(c)'
  BY <1>1 DEF Settled, Outcomes
<1>5. QED
  BY <1>3, <1>4

\* The answer to a ROLLBACK ends a call that waited for it.
LEMMA RollbackAnsweredMoves ==
    ASSUME RInv, NEW c \in Calls, RollbackAnswered(c)
    PROVE  Moves(c) /\ Settled(c)'
<1>1. /\ req[c] = "rollback" /\ req'[c] = "rollback" /\ pc[c] \in {"waiting", "returned"}
      /\ pc'[c] = "returned" /\ job'[c] = job[c] /\ applied'[c] = applied[c]
      /\ outcome'[c] = outcome[c]
  BY DEF RInv, IInv, TypeOK, CallInv, Fresh, Placed, RollbackAnswered, Release, server
<1>2. CASE pc[c] = "returned"
  <2>1. Phase(c)' = Phase(c) /\ Work(c)' = Work(c) /\ ~Late(c) /\ ~Late(c)'
    BY <1>1, <1>2 DEF Phase, Work, Late
  <2>2. Unseen(c)
    BY <1>1, <2>1 DEF Unseen, Becomes, Late
  <2>3. QED
    BY <1>1, <1>2, <2>2 DEF Moves, RInv, Settled
<1>3. CASE pc[c] = "waiting"
  <2>1. outcome[c] \in {"timeout", "execution_failure"}
    BY <1>1, <1>3 DEF RInv, Settled
  <2>2. outcome[c] = "timeout" /\ Atomic(c) => applied[c] = {}
    BY <1>1, <1>3, Made DEF RInv, TxEffects
  <2>3. Moves(c)
    BY <1>1, <1>3, <2>1, <2>2, Fails DEF RInv
  <2>4. QED
    BY <1>1, <2>1, <2>3 DEF Settled, Outcomes
<1>4. QED
  BY <1>1, <1>2, <1>3

\* A lost connection ends a call, perhaps with its COMMIT still on the wire.
LEMMA ConnLostMoves ==
    ASSUME RInv, NEW c \in Calls, ConnLost(c)
    PROVE  Moves(c) /\ Settled(c)'
<1>1. /\ pc[c] = "waiting" \/ (pc[c] = "returned" /\ req[c] = "rollback")
      /\ pc'[c] = "returned" /\ job'[c] = job[c] /\ applied'[c] = applied[c]
      /\ outcome'[c] = IF outcome[c] = "none" THEN "execution_failure" ELSE outcome[c]
      /\ req'[c] = req[c] /\ wire'[c] = wire[c]
  BY DEF RInv, IInv, TypeOK, CallInv, Fresh, Placed, ConnLost, Release, server
<1>2. CASE pc[c] = "returned"
  <2>1. outcome[c] \in Outcomes /\ outcome[c] # "none"
    BY <1>2 DEF RInv, Settled, Outcomes
  <2>2. Phase(c)' = Phase(c) /\ Work(c)' = Work(c) /\ ~Late(c) /\ ~Late(c)'
    BY <1>1, <1>2, <2>1 DEF Phase, Work, Late
  <2>3. Unseen(c)
    BY <1>1, <2>2 DEF Unseen, Becomes, Late
  <2>4. QED
    BY <1>1, <2>1, <2>3 DEF Moves, Settled
<1>3. CASE pc[c] = "waiting"
  <2>1. outcome'[c] \in {"timeout", "execution_failure"}
    BY <1>1, <1>3, Made DEF RInv, Settled, Placed
  <2>2. outcome'[c] = "timeout" => req[c] # "commit" /\ (Atomic(c) => applied[c] = {})
    BY <1>1, <1>3, <2>1, Made DEF RInv, Placed, TxEffects
  <2>3. Moves(c)
    BY <1>1, <1>3, <2>1, <2>2, Fails DEF RInv
  <2>4. QED
    BY <1>1, <2>1, <2>3 DEF Settled, Outcomes
<1>4. QED
  BY <1>1, <1>2, <1>3

\* A refused request is forgotten if its call has returned.
LEMMA ServerRefusesMoves ==
    ASSUME RInv, NEW c \in Calls, ServerRefuses(c)
    PROVE  Moves(c) /\ Settled(c)'
<1>1. /\ wire[c] = "asked" /\ wire'[c] = "refused" /\ pc'[c] = pc[c] /\ job'[c] = job[c]
      /\ applied'[c] = applied[c] /\ outcome'[c] = outcome[c] /\ req'[c] = req[c]
  BY DEF RInv, IInv, TypeOK, ServerRefuses, client
<1>2. Phase(c)' = Phase(c) /\ Work(c)' = Work(c) /\ Late(c)' = FALSE
  BY <1>1 DEF Phase, Work, Late
<1>3. Moves(c)
  <2>1. Becomes(c, Work(c), Phase(c), applied[c], FALSE)
    BY <1>1, <1>2 DEF Becomes
  <2>2. CASE Late(c)
    BY <2>1, <2>2 DEF Moves
  <2>3. CASE ~Late(c)
    <3>1. Unseen(c)
      BY <1>1, <1>2, <2>3 DEF Unseen, Becomes, Late
    <3>2. QED
      BY <3>1 DEF Moves
  <2>4. QED
    BY <2>2, <2>3
<1>4. Settled(c)'
  BY <1>1 DEF RInv, Settled
<1>5. QED
  BY <1>3, <1>4

\* Effects that appear while the call runs, or later, are the ones that follow.
LEMMA Effects ==
    ASSUME IInv, NEW c \in Calls, pc[c] # "idle", wire[c] = "asked", wire'[c] = "done",
           pc'[c] = pc[c], job'[c] = job[c], outcome'[c] = outcome[c],
           pc[c] \in {"waiting", "returned"}, pc[c] = "returned" => Late(c),
           applied'[c] \in Plan!Following(Work(c), applied[c])
    PROVE  Moves(c)
<1>1. Work(c)' = Work(c) /\ Phase(c)' = Phase(c) /\ Late(c)' = FALSE
  BY DEF Work, Phase, Late
<1>2. Becomes(c, Work(c), Phase(c), applied'[c], FALSE)
  BY <1>1 DEF Becomes
<1>3. CASE pc[c] = "waiting"
  <2>1. Phase(c) = "running" /\ Becomes(c, Work(c), "running", applied'[c], Late(c))
    BY <1>2, <1>3 DEF Phase, Late, Becomes
  <2>2. QED
    BY <2>1 DEF Moves
<1>4. CASE pc[c] = "returned"
  BY <1>2, <1>4 DEF Moves
<1>5. QED
  BY <1>3, <1>4

\* COMMIT publishes everything, a statement outside a transaction itself.
LEMMA ServerExecutesMoves ==
    ASSUME RInv, NEW c \in Calls, ServerExecutes(c)
    PROVE  Moves(c) /\ Settled(c)'
<1>1. /\ wire[c] = "asked" /\ wire'[c] = "done" /\ pc'[c] = pc[c] /\ job'[c] = job[c]
      /\ outcome'[c] = outcome[c] /\ req'[c] = req[c] /\ pc[c] \in {"waiting", "returned"}
  BY DEF RInv, IInv, TypeOK, CallInv, Fresh, Placed, ServerExecutes, client
<1>2. /\ job[c] \in Jobs /\ job[c] # NoJob /\ Size(job[c]) \in Nat /\ next[c] \in Nat /\ next[c] >= 1
      /\ Placed(c) /\ TxEffects(c) /\ SeqEffects(c) /\ Settled(c)
  BY <1>1, Made DEF RInv
<1>3. Work(c) = WorkOf(job[c]) /\ Work(c).atomic = IsAtomicBatch(job[c])
  BY <1>2 DEF Work, WorkOf
<1>4. job[c].tool = "plan" => Plan!Whole(Work(c)) = 1 .. Size(job[c])
  BY <1>3 DEF WorkOf, Plan!Whole
<1>5. applied \in [Calls -> SUBSET Nat]
  BY DEF RInv, IInv, TypeOK
<1>6. CASE Atomic(c) /\ req[c] = "commit"
  <2>1. applied' = [applied EXCEPT ![c] = @ \cup pending[c]]
    BY <1>6, ServerExecutesCases DEF RInv
  <2>2. applied[c] = {} /\ pending[c] = 1 .. Size(job[c])
    BY <1>1, <1>2, <1>6 DEF TxEffects
  <2>3. applied'[c] = 1 .. Size(job[c])
    BY <1>5, <2>1, <2>2
  <2>4. job[c].tool = "plan" /\ Work(c).atomic
    BY <1>2, <1>3, <1>6, JobFacts DEF Atomic
  <2>5. applied'[c] \in Plan!Following(Work(c), applied[c])
    BY <1>4, <2>3, <2>4 DEF Plan!Following
  <2>6. Moves(c)
    BY <1>1, <1>6, <2>5, Effects DEF RInv, Late
  <2>7. QED
    BY <1>1, <1>2, <2>3, <2>6 DEF Settled
<1>7. CASE ~IsAtomicBatch(job[c]) /\ req[c] = "stmt" /\ job[c].tool = "plan"
  <2>1. applied' = [applied EXCEPT ![c] = @ \cup pending[c] \cup {next[c]}]
    BY <1>7, ServerExecutesCases DEF RInv, Atomic
  <2>2. applied[c] = 1 .. (next[c] - 1) /\ pending[c] = {} /\ next[c] \in 1 .. Size(job[c])
    BY <1>1, <1>2, <1>7 DEF SeqEffects, Placed
  <2>3. applied'[c] = applied[c] \cup {next[c]}
    BY <1>5, <2>1, <2>2
  <2>4. applied'[c] = 1 .. next[c]
    BY <1>2, <2>2, <2>3
  <2>5. applied'[c] \in Plan!Following(Work(c), applied[c])
    BY <1>3, <1>4, <1>7, <2>2, <2>4 DEF Plan!Following
  <2>6. Moves(c)
    BY <1>1, <1>7, <2>5, Effects DEF RInv, Late
  <2>7. QED
    BY <1>1, <1>2, <1>7, <2>6 DEF Settled
<1>8. CASE \/ Atomic(c) /\ req[c] # "commit"
           \/ ~IsAtomicBatch(job[c]) /\ job[c].tool = "read"
  <2>1. req[c] # "commit" /\ applied' = applied
    BY <1>2, <1>8, ServerExecutesCases DEF RInv, Placed, Atomic
  <2>2. ~Late(c) /\ ~Late(c)'
    BY <1>1, <1>2, <1>8, <2>1 DEF Late, Atomic
  <2>3. Unseen(c)
    BY <1>1, <2>1, <2>2 DEF Unseen, Becomes, Work, Phase, Late
  <2>4. QED
    BY <1>1, <1>2, <2>1, <2>3 DEF Moves, Settled
<1>9. QED
  BY <1>2, <1>6, <1>7, <1>8, JobFacts, ServerExecutesCases DEF RInv, Atomic

-----------------------------------------------------------------------------
(* The refinement.                                                         *)

\* The initial states correspond.
LEMMA InitRefines == Init => RInv /\ Plan!PlanInit
<1> SUFFICES ASSUME Init PROVE RInv /\ Plan!PlanInit
  OBVIOUS
<1>1. RInv
  BY InitInv DEF RInv, Settled, Init
<1>2. \A c \in Calls : Work(c) = NoJob /\ Phase(c) = "idle" /\ Late(c) = FALSE
  BY DEF Init, Work, Phase, Late
<1>3. Plan!PlanInit
  BY <1>2 DEF Plan!PlanInit, Init
<1>4. QED
  BY <1>1, <1>3

\* A step of one call is a step of PlanExecution and leaves every call settled.
LEMMA CallRefines ==
    ASSUME RInv, NEW c \in Calls,
           Client(c) \/ Environment(c) \/ \E j \in Jobs : Start(c, j) \/ Refuse(c, j)
    PROVE  RInv' /\ [Plan!PlanNext]_(Plan!planVars)
<1>1. IInv'
  BY NextInv DEF RInv, Next
<1>2. Moves(c) /\ Settled(c)'
  <2>1. CASE Client(c)
    BY <2>1, GetConnMoves, BeginAckedMoves, SendStatementMoves, TxStatementAckedMoves, TxStatementRefusedMoves, SendCommitMoves, CommitAckedMoves, RollbackAnsweredMoves, StatementAckedMoves, RequestRefusedMoves, AbandonWaitMoves, AbandonRequestMoves, AbandonTxMoves
       DEF Client
  <2>2. CASE Environment(c)
    BY <2>2, ExpireMoves, CancelMoves, DialFailsMoves, ConnLostMoves, ServerExecutesMoves, ServerRefusesMoves
       DEF Environment
  <2>3. QED
    BY <2>1, <2>2, StartMoves, RefuseMoves
<1>3. TypeOK /\ TypeOK' /\ \A d \in Calls \ {c} : SameCall(d)
  BY <1>1, OthersStay DEF RInv, IInv
<1>4. \A d \in Calls : Settled(d)'
  BY <1>2, <1>3 DEF RInv, Settled, SameCall
<1>5. QED
  BY <1>1, <1>2, <1>3, <1>4, MoveIsPlanStep DEF RInv

\* The end of the process is a crash of PlanExecution: what was on the wire stays
\* there, and only calls that were running leave something new behind.
LEMMA HaltRefines ==
    ASSUME RInv, Halt
    PROVE  RInv' /\ Plan!PlanNext
<1> DEFINE work == [d \in Calls |-> Work(d)]
           phase == [d \in Calls |-> Phase(d)]
           late == [d \in Calls |-> Late(d)]
<1>1. IInv'
  BY NextInv DEF RInv, Next
<1>2. ASSUME NEW c \in Calls
      PROVE  /\ Work(c)' = Work(c) /\ Late(c)' \in BOOLEAN /\ Settled(c)'
             /\ Phase(c)' = IF Phase(c) = "running" THEN "lost" ELSE Phase(c)
             /\ Phase(c) # "running" => Late(c)' = Late(c)
  <2>1. /\ job'[c] = job[c] /\ req'[c] = req[c] /\ wire'[c] = wire[c] /\ applied'[c] = applied[c]
        /\ IF pc[c] \in {"idle", "returned"}
           THEN pc'[c] = pc[c] /\ outcome'[c] = outcome[c]
           ELSE pc'[c] = "returned" /\ outcome'[c] = "lost"
    BY DEF Halt, server, RInv, IInv, TypeOK
  <2>2. pc[c] = "returned" => outcome[c] # "running"
    BY DEF RInv, Settled, Outcomes
  <2>3. Settled(c)'
    BY <2>1 DEF RInv, Settled, Outcomes
  <2>4. QED
    BY <2>1, <2>2, <2>3 DEF Work, Phase, Late
<1>3. applied' = applied
  BY DEF Halt, server
<1>4. work' = work /\ late' \in [Calls -> BOOLEAN]
  BY <1>2
<1>5. phase' = [c \in Calls |-> IF phase[c] = "running" THEN "lost" ELSE phase[c]]
  BY <1>2
<1>6. \A c \in Calls : phase[c] # "running" => late'[c] = late[c]
  BY <1>2
<1>7. Plan!Crash
  BY <1>3, <1>4, <1>5, <1>6 DEF Plan!Crash
<1>8. QED
  BY <1>1, <1>2, <1>7 DEF RInv, Plan!PlanNext

\* Where nothing changes, PlanExecution stutters.
LEMMA StutterRefines ==
    ASSUME RInv, UNCHANGED vars
    PROVE  RInv' /\ [Plan!PlanNext]_(Plan!planVars)
<1>1. RInv'
  BY StutterInv DEF RInv, Settled, vars
<1>2. ASSUME NEW c \in Calls
      PROVE  Work(c)' = Work(c) /\ Phase(c)' = Phase(c) /\ Late(c)' = Late(c)
  BY DEF vars, Work, Phase, Late
<1>3. UNCHANGED Plan!planVars
  BY <1>2 DEF vars, Plan!planVars
<1>4. QED
  BY <1>1, <1>3

\* Every step of the executor and of its environment is one of PlanExecution.
LEMMA StepRefines == RInv /\ [Next]_vars => RInv' /\ [Plan!PlanNext]_(Plan!planVars)
<1> SUFFICES ASSUME RInv, [Next]_vars PROVE RInv' /\ [Plan!PlanNext]_(Plan!planVars)
  OBVIOUS
<1>1. CASE Halt
  BY <1>1, HaltRefines
<1>2. CASE UNCHANGED vars
  BY <1>2, StutterRefines
<1>3. CASE Next /\ ~Halt
  BY <1>3, CallRefines DEF Next
<1>4. QED
  BY <1>1, <1>2, <1>3

\* executor.go, with every deadline, cancellation, refusal, lost connection and
\* crash, keeps the promise that PlanExecution makes to the caller.
THEOREM Refinement == Spec => ImplementsPlanExecution
BY InitRefines, StepRefines, PTL DEF Spec, ImplementsPlanExecution, Plan!PlanSpec
=============================================================================
