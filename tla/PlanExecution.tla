----------------------------- MODULE PlanExecution -----------------------------
(***************************************************************************)
(* What executing a piece of SQL work promises to whoever asked for it,    *)
(* with no connection, transaction or deadline in sight.  Module Executor  *)
(* implements this specification with the steps of internal/execution;     *)
(* module Service runs its authorised calls on it.                         *)
(*                                                                         *)
(* A piece of work is the number of its statements that change data and    *)
(* whether they are one atomic unit.  Its effects appear all at once when  *)
(* it is atomic, one after the other in order when it is not.  A failed    *)
(* call may leave one request behind in the database, which takes effect   *)
(* later or never.                                                         *)
(***************************************************************************)
EXTENDS Naturals

CONSTANTS
    Calls,      \* the tool calls of one behaviour
    Works,      \* the work they may be given
    NoWork      \* what a call that has not started works on

ASSUME WorkAssumption ==
    /\ Works \subseteq [size : Nat, atomic : BOOLEAN]
    /\ NoWork \notin Works

VARIABLES
    work,       \* what each call executes
    phase,      \* "idle", "running", or how the call ended
    applied,    \* the statements of the call whose effect the database shows
    late        \* a request of the ended call is still with the database

planVars == <<work, phase, applied, late>>

Failures == {"timeout", "execution_failure"}

\* The effects of all the statements of w.
Whole(w) == 1 .. w.size

\* The effects the database shows after those in `done`: everything when w is
\* atomic, otherwise one statement more.
Following(w, done) ==
    IF w.atomic THEN {Whole(w)} ELSE {1 .. k : k \in {n \in Whole(w) : done = 1 .. (n - 1)}}

PlanInit ==
    /\ work = [c \in Calls |-> NoWork]
    /\ phase = [c \in Calls |-> "idle"]
    /\ applied = [c \in Calls |-> {}]
    /\ late = [c \in Calls |-> FALSE]

Begin(c, w) ==
    /\ phase[c] = "idle"
    /\ work' = [work EXCEPT ![c] = w]
    /\ phase' = [phase EXCEPT ![c] = "running"]
    /\ UNCHANGED <<applied, late>>

\* The work is refused before the database sees any of it.
Reject(c, w) ==
    /\ phase[c] = "idle"
    /\ work' = [work EXCEPT ![c] = w]
    /\ phase' = [phase EXCEPT ![c] = "execution_failure"]
    /\ UNCHANGED <<applied, late>>

Publish(c) ==
    /\ phase[c] = "running"
    /\ \E done \in Following(work[c], applied[c]) : applied' = [applied EXCEPT ![c] = done]
    /\ UNCHANGED <<work, phase, late>>

Succeed(c) ==
    /\ phase[c] = "running"
    /\ applied[c] = Whole(work[c])
    /\ phase' = [phase EXCEPT ![c] = "ok"]
    /\ UNCHANGED <<work, applied, late>>

\* An atomic call reports "timeout" only while none of its effects exists, and
\* then none ever will.
Fail(c, how) ==
    /\ phase[c] = "running"
    /\ phase' = [phase EXCEPT ![c] = how]
    /\ \E left \in BOOLEAN :
          /\ how = "timeout" /\ work[c].atomic => applied[c] = {} /\ ~left
          /\ late' = [late EXCEPT ![c] = left]
    /\ UNCHANGED <<work, applied>>

PublishLate(c) ==
    /\ late[c]
    /\ \E done \in Following(work[c], applied[c]) : applied' = [applied EXCEPT ![c] = done]
    /\ late' = [late EXCEPT ![c] = FALSE]
    /\ UNCHANGED <<work, phase>>

\* The database drops the request the ended call left behind.
Forget(c) ==
    /\ late[c]
    /\ late' = [late EXCEPT ![c] = FALSE]
    /\ UNCHANGED <<work, phase, applied>>

\* The process ends: nobody hears how the running calls ended.
Crash ==
    /\ phase' = [c \in Calls |-> IF phase[c] = "running" THEN "lost" ELSE phase[c]]
    /\ late' \in [Calls -> BOOLEAN]
    /\ \A c \in Calls : phase[c] # "running" => late'[c] = late[c]
    /\ UNCHANGED <<work, applied>>

PlanNext ==
    \/ \E c \in Calls, w \in Works : Begin(c, w) \/ Reject(c, w)
    \/ \E c \in Calls : Publish(c) \/ Succeed(c) \/ PublishLate(c) \/ Forget(c)
    \/ \E c \in Calls, how \in Failures : Fail(c, how)
    \/ Crash

PlanSpec == PlanInit /\ [][PlanNext]_planVars
=============================================================================
