--------------------------------- MODULE Service ---------------------------------
(***************************************************************************)
(* internal/tools/service.go: every tool call from its input to its        *)
(* verdict, and on to its effects as PlanExecution promises them.          *)
(*                                                                         *)
(* The service keeps no state between calls.  What connects a preview and  *)
(* its confirmation is the hash the caller brings back, across any number  *)
(* of other calls, and across restarts of the process, which may come back *)
(* with another mode or with a source that has moved to another engine.    *)
(*                                                                         *)
(* Assumption: a caller knows a hash only from a response it received.     *)
(***************************************************************************)
EXTENDS PlanExecution, Policy, ExecutablePlan, Operation

CONSTANTS
    Configs,    \* the configurations the process may start with
    Requests,   \* what tool calls may ask for, apart from the confirmation
    NoInput     \* of a call that has not been made

\* Every request of a structured tool carries its operation, every other its text.
ASSUME ServiceAssumption ==
    /\ \A new \in Configs :
          new.mode \in Modes /\ \A s \in DOMAIN new.engine : new.engine[s] \in Engines
    /\ \A r \in Requests :
          /\ r.tool \in StructuredTools \cup {"query", "execute_sql", "migrate"}
          /\ r.tool \in StructuredTools => r.operation.tool = r.tool
          /\ r.tool \notin StructuredTools =>
                Len(r.text) \in Nat /\ DOMAIN r.text = 1 .. Len(r.text)

VARIABLES
    config,     \* the mode, and the engine of each configured source
    input,      \* each call's request, confirmation and hash
    intent,     \* the intent authorize built for it
    verdict,    \* what became of it
    shown       \* the previews callers have received, with their requests

serviceVars == <<config, input, intent, verdict, shown>>
vars == <<planVars, serviceVars>>

\* A hash nobody computed.
Forged == <<NoHash, NoHash>>

\* Authorised: handed to the executor, or refused by it before any effect.
Authorized == {"started", "not_started"}

Rejections == {"unknown_source", "invalid_input", "unsafe_sql", "unsupported_capability"}

-----------------------------------------------------------------------------
(* From a request to a plan.                                               *)

\* What the parser makes of a statement that a builder wrote.
Parsed(s) ==
    [id |-> s, node |-> IF s.do = "copy_rows" THEN "insert" ELSE "ddl",
     inner |-> "none", flags |-> {}, holes |-> 0]

EngineOf(r) == config.engine[r.source]

TextOf(engine, r) ==
    IF r.tool \in StructuredTools
    THEN LET built == Built(engine, r.operation) IN [i \in DOMAIN built |-> Parsed(built[i])]
    ELSE r.text

PlanOf(engine, r) == makePlan(engine, TextOf(engine, r))

\* Mutant: query forgets to ask for a read.
QueryTakesAnyPlan(r) ==
    LET engine == EngineOf(r)
        text == TextOf(engine, r)
    IN CASE ~r.decodes \/ r.source = "" -> "invalid_input"
         [] r.source \notin DOMAIN config.engine -> "unknown_source"
         [] r.tool \in StructuredTools /\ Refusal(engine, r.operation) # "none" ->
               Refusal(engine, r.operation)
         [] r.tool \notin StructuredTools /\ r.text = <<>> -> "invalid_input"
         [] ~Analyzable(engine, text) -> "unsafe_sql"
         [] r.tool # "query" /\ PlanOf(engine, r).readOnly -> "unsafe_sql"
         [] \E i \in DOMAIN r.params : ~Representable(r.params[i]) -> "invalid_input"
         [] OTHER -> "none"

\* The error the call returns before any policy is applied, in the code's order.
\* Arguments that do not decode never reach the service; a blank source or text is
\* written as "" and <<>>.
Rejection(r) ==
    LET engine == EngineOf(r)
        text == TextOf(engine, r)
    IN CASE ~r.decodes \/ r.source = "" -> "invalid_input"
         [] r.source \notin DOMAIN config.engine -> "unknown_source"
         [] r.tool \in StructuredTools /\ Refusal(engine, r.operation) # "none" ->
               Refusal(engine, r.operation)
         [] r.tool \notin StructuredTools /\ r.text = <<>> -> "invalid_input"
         [] ~Analyzable(engine, text) -> "unsafe_sql"
         [] r.tool = "query" /\ ~(PlanOf(engine, r).readOnly /\ Len(text) = 1) -> "unsafe_sql"
         [] r.tool # "query" /\ PlanOf(engine, r).readOnly -> "unsafe_sql"
         [] \E i \in DOMAIN r.params : ~Representable(r.params[i]) -> "invalid_input"
         [] OTHER -> "none"

\* Mutant: migrate and batches keep the risk of the analysis.
KeepsAnalyzedRisk(engine, r) == FALSE

\* migrate, and several statements for execute_sql.
ForcesHighRisk(engine, r) ==
    \/ r.tool = "migrate"
    \/ r.tool = "execute_sql" /\ Len(TextOf(engine, r)) > 1

JobFor(engine, r) ==
    [source |-> r.source, engine |-> engine,
     tool |-> IF r.tool = "query" THEN "read" ELSE "plan",
     stmts |-> [i \in DOMAIN TextOf(engine, r) |-> PlanOf(engine, r).statements[i].kind],
     args |-> r.params # <<>>]

IntentOf(engine, r) ==
    [source |-> r.source,
     tool |-> r.tool,
     parameters |-> normalizeParameters(r.params),
     atomic |-> IsAtomicBatch(JobFor(engine, r)),
     plan |-> [PlanOf(engine, r) EXCEPT !.risk = IF ForcesHighRisk(engine, r) THEN "high" ELSE @]]

\* The driver binds the parameters to the first statement it is sent, one to
\* every placeholder.
Binds(i) == Len(i.parameters) = i.plan.statements[1].holes

-----------------------------------------------------------------------------
Init ==
    /\ PlanInit
    /\ config \in Configs
    /\ input = [c \in Calls |-> NoInput]
    /\ intent = [c \in Calls |-> NoInput]
    /\ verdict = [c \in Calls |-> "none"]
    /\ shown = {}

Receive(c, r, confirm, hash) ==
    /\ verdict[c] = "none"
    /\ input' = [input EXCEPT ![c] = [request |-> r, confirm |-> confirm, hash |-> hash]]
    /\ UNCHANGED config

Decide(c, v) == verdict' = [verdict EXCEPT ![c] = v]

\* The input is wrong, unknown or unsafe.
Deny(c, r, confirm, hash) ==
    /\ Receive(c, r, confirm, hash)
    /\ Rejection(r) # "none"
    /\ Decide(c, Rejection(r))
    /\ UNCHANGED <<planVars, intent, shown>>

\* confirmation_required and preview_mismatch both carry the preview of the
\* request as it stands.
Show(c, r, confirm, hash) ==
    LET i == IntentOf(EngineOf(r), r)
        decision == decidePreview(config.mode, i, confirm, hash)
    IN /\ Receive(c, r, confirm, hash)
       /\ Rejection(r) = "none"
       /\ decision # "execute"
       /\ Decide(c, decision)
       /\ intent' = [intent EXCEPT ![c] = i]
       /\ shown' = shown \cup {[request |-> r, intent |-> i, config |-> config, hash |-> PreviewHash(i)]}
       /\ UNCHANGED planVars

\* The call is authorised; the executor or the driver may still refuse the plan.
Execute(c, r, confirm, hash) ==
    LET i == IntentOf(EngineOf(r), r)
        job == JobFor(EngineOf(r), r)
    IN /\ Receive(c, r, confirm, hash)
       /\ Rejection(r) = "none"
       /\ decidePreview(config.mode, i, confirm, hash) = "execute"
       /\ intent' = [intent EXCEPT ![c] = i]
       /\ IF Executable(job) /\ Binds(i)
          THEN Decide(c, "started") /\ Begin(c, WorkOf(job))
          ELSE Decide(c, "not_started") /\ Reject(c, WorkOf(job))
       /\ UNCHANGED shown

\* The execution of an authorised call, and what it leaves behind.
Progress(c) ==
    /\ \/ Publish(c) \/ Succeed(c) \/ PublishLate(c) \/ Forget(c)
       \/ \E how \in Failures : Fail(c, how)
    /\ UNCHANGED serviceVars

\* The process ends and is started again, perhaps reconfigured.
Restart(new) ==
    /\ config' = new
    /\ Crash
    /\ UNCHANGED <<input, intent, verdict, shown>>

KnownHashes == {p.hash : p \in shown} \cup {NoHash, Forged}

Next ==
    \/ \E c \in Calls, r \in Requests :
          \/ Deny(c, r, FALSE, NoHash)
          \/ Show(c, r, FALSE, NoHash)
          \/ Execute(c, r, FALSE, NoHash)
          \/ \E hash \in KnownHashes :
                Deny(c, r, TRUE, hash) \/ Show(c, r, TRUE, hash) \/ Execute(c, r, TRUE, hash)
    \/ \E c \in Calls : Progress(c)
    \/ \E new \in Configs : Restart(new)

Spec == Init /\ [][Next]_vars

-----------------------------------------------------------------------------
(* Properties.                                                             *)

\* What the fields of the model hold: a call runs exactly when it was authorised,
\* and every intent has one of the two risks.
TypeOK ==
    /\ config \in Configs
    /\ \A c \in Calls :
          /\ verdict[c] \in Rejections \cup Authorized
                \cup {"none", "confirmation_required", "preview_mismatch"}
          /\ verdict[c] = "none" => input[c] = NoInput
          /\ phase[c] # "idle" <=> verdict[c] \in Authorized
          /\ intent[c] # NoInput => intent[c].plan.risk \in {"low", "high"}

Confirmed(c) == verdict[c] \in Authorized /\ input[c].confirm

\* What a reader of preview p has seen of the call with intent i.
Reviewed(p, i) ==
    /\ p.intent.source = i.source
    /\ p.intent.tool = i.tool
    /\ CanonicalSQL(p.intent.plan) = CanonicalSQL(i.plan)
    /\ p.intent.atomic = i.atomic
    /\ RiskForAtomicBatches(p.intent.plan, p.intent.atomic) = RiskForAtomicBatches(i.plan, i.atomic)
    /\ DOMAIN p.intent.parameters = DOMAIN i.parameters
    /\ \A k \in DOMAIN i.parameters : p.intent.parameters[k].value = i.parameters[k].value

\* A confirmed call is handed to the executor only after a response, of this or
\* of an earlier process, has shown its source, tool, SQL in order, parameters,
\* risk and atomicity (README, Safety Model).
ConfirmedWasReviewed ==
    [][\A c \in Calls : Confirmed(c)' /\ ~Confirmed(c)
          => \E p \in shown : p.hash = input'[c].hash /\ Reviewed(p, intent'[c])]_vars

\* The statements of the request that the README calls high-impact.
HighImpact(s) ==
    \/ s.node \in {"ddl", "db_ddl"}
    \/ s.node \in {"update", "delete"} /\ "where" \notin s.flags

\* Without a confirmation the service runs one statement, in quick mode, outside
\* migrate, and never DDL, an UPDATE or a DELETE without WHERE.
UnconfirmedIsHarmless ==
    [][\A c \in Calls :
          verdict[c] = "none" /\ verdict'[c] \in Authorized /\ ~input'[c].confirm
          => LET r == input'[c].request IN
             /\ config.mode = "quick"
             /\ r.tool \in {"query", "execute_sql"}
             /\ Len(r.text) = 1
             /\ ~HighImpact(r.text[1])]_vars

\* A SELECT, or an EXPLAIN of one: EXPLAIN ANALYZE of MySQL executes what it explains.
Selects(engine, s) ==
    \/ s.node \in {"select", "union"}
    \/ /\ s.node = "explain" /\ s.inner \in {"select", "union"}
       /\ ~(engine = "mysql" /\ "analyze" \in s.flags)

\* Whatever the confirmation and whatever engine the source has moved to, query runs
\* one statement, which selects or explains a SELECT: no write, no DDL, no EXPLAIN of
\* either and no second statement.  What a SELECT may contain is the subject of
\* ReadsDoNotLock.
QueryOnlyReads ==
    [][\A c \in Calls :
          LET r == input'[c].request IN
          verdict[c] = "none" /\ verdict'[c] \in Authorized /\ r.tool = "query"
          => Len(r.text) = 1 /\ Selects(EngineOf(r), r.text[1])]_vars

\* README: "The SQL guards fail closed for ... stateful or locking MySQL expressions."
\* On MySQL no statement that locks or touches the session, in whatever part of it,
\* is run as a query.
ReadsDoNotLock ==
    \A c \in Calls : verdict[c] \in Authorized /\ input[c].request.tool = "query" =>
        \A i \in DOMAIN input[c].request.text :
            input[c].request.text[i].flags
                \cap {"lock", "lock_inside", "session", "session_of_union"} = {}

\* A plan is ever half applied, while it runs or after it has failed, only for a
\* caller that has confirmed a preview saying that it is not atomic, also when the
\* source has moved to another engine since.  The response does not say which part
\* was applied.
HalfAppliedOnlyAsReviewed ==
    \A c \in Calls :
        verdict[c] = "started" /\ applied[c] \notin {{}, Whole(work[c])}
        => /\ input[c].confirm
           /\ \E p \in shown : p.hash = input[c].hash
           /\ \A p \in shown : p.hash = input[c].hash => ~p.intent.atomic

\* A preview stays good: the identical call with its hash is never a mismatch
\* under the configuration that showed it, however many calls and restarts lie
\* between.
ApprovalStaysValid ==
    [][\A c \in Calls : verdict[c] = "none" /\ verdict'[c] = "preview_mismatch"
          => ~ \E p \in shown :
                  p.request = input'[c].request /\ p.hash = input'[c].hash /\ p.config = config]_vars

\* README: "A changed request returns preview_mismatch and does not execute".
ChangedParametersMismatch ==
    \A c \in Calls : Confirmed(c) =>
        \E p \in shown : p.hash = input[c].hash /\ p.request.params = input[c].request.params

\* TOOLS_SCHEMA: query and execute_sql accept parameters.  A statement that brings
\* one parameter for each of its placeholders is not refused.
ParametersAccepted ==
    \A c \in Calls : verdict[c] = "not_started" =>
        LET r == input[c].request IN
        ~(Len(r.text) = 1 /\ r.params # <<>> /\ Len(r.params) = r.text[1].holes)
=============================================================================
