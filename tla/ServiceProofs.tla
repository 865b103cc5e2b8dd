----------------------------- MODULE ServiceProofs -----------------------------
(***************************************************************************)
(* For all requests, configurations and histories of calls and restarts:   *)
(* what is authorised was harmless or reviewed.                            *)
(***************************************************************************)
EXTENDS Service, TLAPS

Domains ==
    /\ DOMAIN input = Calls /\ DOMAIN intent = Calls /\ DOMAIN verdict = Calls
    /\ DOMAIN work = Calls /\ DOMAIN phase = Calls
    /\ DOMAIN applied = Calls /\ DOMAIN late = Calls

\* A preview is the one its request has under the configuration that showed it.
PreviewsTrue ==
    \A p \in shown :
        /\ p.hash = PreviewHash(p.intent)
        /\ p.intent = IntentOf(p.config.engine[p.request.source], p.request)

\* A started call works on what its intent says, was confirmed with the hash of that
\* intent, and otherwise is atomic or one statement.
StartedAsDecided(c) ==
    /\ work[c].atomic = intent[c].atomic /\ work[c].atomic \in BOOLEAN
    /\ work[c].size \in Nat
    /\ \E k \in 0 .. work[c].size : applied[c] = 1 .. k
    /\ work[c].atomic => applied[c] \in {{}, Whole(work[c])}
    /\ ~input[c].confirm => work[c].atomic \/ work[c].size <= 1
    /\ input[c].confirm =>
          /\ input[c].hash = PreviewHash(intent[c])
          /\ \E p \in shown : p.hash = input[c].hash

\* Nothing runs for a call that was not started.
Quiet(c) == phase[c] # "running" /\ ~late[c] /\ applied[c] = {}

IInv ==
    /\ TypeOK
    /\ Domains
    /\ PreviewsTrue
    /\ \A c \in Calls : IF verdict[c] = "started" THEN StartedAsDecided(c) ELSE Quiet(c)

-----------------------------------------------------------------------------
(* Hashes.                                                                 *)

\* A hash is neither empty nor the one nobody computed, and tells its envelope.
LEMMA HashIsEnvelope ==
    ASSUME NEW i, NEW j
    PROVE  /\ PreviewHash(i) # NoHash /\ PreviewHash(i) # Forged
           /\ PreviewHash(i) = PreviewHash(j) => Envelope(i) = Envelope(j)
BY DEF PreviewHash, NoHash, Forged

\* Equal envelopes show the same intent to a reader.
LEMMA EnvelopeTells ==
    ASSUME NEW p, NEW i, Envelope(p.intent) = Envelope(i)
    PROVE  Reviewed(p, i)
<1> DEFINE j == p.intent
<1>1. /\ j.source = i.source /\ j.tool = i.tool /\ j.atomic = i.atomic
      /\ CanonicalSQL(j.plan) = CanonicalSQL(i.plan)
      /\ RiskForAtomicBatches(j.plan, j.atomic) = RiskForAtomicBatches(i.plan, i.atomic)
      /\ [k \in DOMAIN j.parameters |-> Encoded(j.parameters[k])]
           = [k \in DOMAIN i.parameters |-> Encoded(i.parameters[k])]
  BY DEF Envelope
<1>2. DOMAIN j.parameters = DOMAIN i.parameters
  BY <1>1
<1>3. ASSUME NEW k \in DOMAIN i.parameters PROVE j.parameters[k].value = i.parameters[k].value
  <2>1. Encoded(j.parameters[k]) = Encoded(i.parameters[k])
    BY <1>1, <1>2
  <2>2. QED
    BY <2>1 DEF Encoded
<1>4. QED
  BY <1>1, <1>2, <1>3 DEF Reviewed

-----------------------------------------------------------------------------
(* Requests that are not rejected.                                         *)

\* Mapping over a sequence keeps its length.
LEMMA MappedLength ==
    ASSUME NEW f, NEW n \in Nat, DOMAIN f = 1 .. n, f = [k \in DOMAIN f |-> f[k]]
    PROVE  Len(f) = n
<1>1. f \in [1 .. n -> {f[k] : k \in DOMAIN f}]
  OBVIOUS
<1>2. f \in Seq({f[k] : k \in DOMAIN f})
  BY <1>1
<1>3. QED
  BY <1>2

\* A rejection is an error code of the service.
LEMMA RejectionKinds == ASSUME NEW r PROVE Rejection(r) \in Rejections \cup {"none"}
BY DEF Rejection, Rejections, Refusal

\* A request that is not rejected is for a configured source, and its text is
\* one the guard accepts.
LEMMA Unrejected ==
    ASSUME NEW r \in Requests, config \in Configs, Rejection(r) = "none"
    PROVE  /\ EngineOf(r) \in Engines
           /\ Analyzable(EngineOf(r), TextOf(EngineOf(r), r))
           /\ r.tool = "query" =>
                PlanOf(EngineOf(r), r).readOnly /\ Len(TextOf(EngineOf(r), r)) = 1
<1>1. r.source \in DOMAIN config.engine
  BY DEF Rejection
<1>2. EngineOf(r) \in Engines
  BY <1>1, ServiceAssumption DEF EngineOf
<1>3. Analyzable(EngineOf(r), TextOf(EngineOf(r), r))
  BY DEF Rejection, Refusal
<1>4. r.tool = "query" =>
         PlanOf(EngineOf(r), r).readOnly /\ Len(TextOf(EngineOf(r), r)) = 1
  BY DEF Rejection, Refusal
<1>5. QED
  BY <1>2, <1>3, <1>4

\* The text of every request is a sequence; the first statement a builder writes is
\* never the copying of rows.
LEMMA TextIsSequence ==
    ASSUME NEW r \in Requests, NEW engine
    PROVE  /\ Len(TextOf(engine, r)) \in Nat
           /\ DOMAIN TextOf(engine, r) = 1 .. Len(TextOf(engine, r))
           /\ r.tool \in StructuredTools =>
                 /\ 1 \in DOMAIN TextOf(engine, r)
                 /\ TextOf(engine, r)[1].node = "ddl" /\ TextOf(engine, r)[1].flags = {}
<1>1. CASE r.tool \notin StructuredTools
  BY <1>1, ServiceAssumption DEF TextOf
<1>2. CASE r.tool \in StructuredTools
  <2> DEFINE op == r.operation
             built == Built(engine, op)
  <2>1. op.tool \in StructuredTools
    BY <1>2, ServiceAssumption
  <2>2. /\ Len(built) \in Nat /\ DOMAIN built = 1 .. Len(built) /\ 1 \in DOMAIN built
        /\ built[1].do # "copy_rows"
    <3>1. CASE op.tool \in CopyTools
      <4>1. built = CopyTable(op)
        BY <3>1 DEF Built, CopyTools
      <4>2. QED
        BY <4>1 DEF CopyTable
    <3>2. CASE op.tool \notin CopyTools
      <4>1. op.tool \in {"create_table", "add_columns", "modify_columns", "drop_table", "drop_columns",
                         "create_index", "drop_index", "rename_table"}
        BY <2>1, <3>2 DEF StructuredTools, TableTools, IndexTools
      <4>2. \E x : built = <<x>> /\ x.do = op.tool
        <5>1. CASE op.tool \in {"create_table", "add_columns", "modify_columns"}
          <6> DEFINE columns == [k \in DOMAIN op.columns |-> ColumnSQL(engine, op.columns[k])]
          <6>1. built = <<[do |-> op.tool, table |-> op.table, columns |-> columns]>>
            BY <5>1 DEF Built
          <6>2. QED
            BY <6>1
        <5>2. CASE op.tool = "drop_table"
          BY <5>2 DEF Built
        <5>3. CASE op.tool = "drop_columns"
          BY <5>3 DEF Built
        <5>4. CASE op.tool = "create_index"
          BY <5>4 DEF Built
        <5>5. CASE op.tool = "drop_index"
          BY <5>5 DEF Built
        <5>6. CASE op.tool = "rename_table"
          BY <5>6 DEF Built
        <5>7. QED
          BY <4>1, <5>1, <5>2, <5>3, <5>4, <5>5, <5>6
      <4>3. op.tool # "copy_rows"
        BY <4>1
      <4> HIDE DEF built
      <4>4. QED
        BY <4>2, <4>3
    <3>3. QED
      BY <3>1, <3>2
  <2>3. TextOf(engine, r) = [k \in DOMAIN built |-> Parsed(built[k])]
    BY <1>2 DEF TextOf
  <2> HIDE DEF built
  <2>4. Len(TextOf(engine, r)) = Len(built) /\ DOMAIN TextOf(engine, r) = DOMAIN built
    BY <2>2, <2>3, MappedLength
  <2>5. TextOf(engine, r)[1] = Parsed(built[1])
    BY <2>2, <2>3
  <2>6. QED
    BY <2>2, <2>4, <2>5 DEF Parsed
<1>3. QED
  BY <1>1, <1>2

\* Plan, job and intent of a request have one statement for each of its text's.
LEMMA IntentOfText ==
    ASSUME NEW r \in Requests, NEW engine
    PROVE  LET i == IntentOf(engine, r)
               w == WorkOf(JobFor(engine, r))
               n == Len(TextOf(engine, r))
           IN /\ Len(i.plan.statements) = n
              /\ w.size \in Nat /\ w.size <= n
              /\ w.atomic = i.atomic /\ i.atomic \in BOOLEAN
              /\ i.plan.risk = (IF ForcesHighRisk(engine, r) THEN "high" ELSE PlanOf(engine, r).risk)
              /\ i.plan.risk \in {"low", "high"}
<1> DEFINE i == IntentOf(engine, r)
           job == JobFor(engine, r)
           text == TextOf(engine, r)
           plan == PlanOf(engine, r)
<1>1. Len(text) \in Nat /\ DOMAIN text = 1 .. Len(text)
  BY TextIsSequence
<1>2. plan.statements = [k \in DOMAIN text |-> Statement(engine, text[k])]
      /\ plan.risk = PlanRisk(engine, text)
  BY DEF PlanOf, makePlan
<1>3. job.stmts = [k \in DOMAIN text |-> plan.statements[k].kind]
      /\ job.tool \in {"read", "plan"}
  BY DEF JobFor
<1>4. i.plan.statements = plan.statements
      /\ i.plan.risk = (IF ForcesHighRisk(engine, r) THEN "high" ELSE plan.risk)
      /\ i.atomic = IsAtomicBatch(job)
  <2>1. plan = makePlan(engine, text)
    BY DEF PlanOf
  <2>2. i.plan = [plan EXCEPT !.risk = IF ForcesHighRisk(engine, r) THEN "high" ELSE plan.risk]
        /\ i.atomic = IsAtomicBatch(job)
    BY DEF IntentOf
  <2> HIDE DEF i, job, text, plan
  <2>3. QED
    BY <2>1, <2>2 DEF makePlan
<1> HIDE DEF i, job, text, plan
<1>5. Len(plan.statements) = Len(text)
  BY <1>1, <1>2, MappedLength
<1>6. Len(job.stmts) = Len(text)
  BY <1>1, <1>3, MappedLength
<1>7. WorkOf(job).size \in Nat /\ WorkOf(job).size <= Len(text)
      /\ WorkOf(job).atomic = IsAtomicBatch(job) /\ IsAtomicBatch(job) \in BOOLEAN
  BY <1>1, <1>6 DEF WorkOf, Size, IsAtomicBatch
<1>8. plan.risk \in {"low", "high"}
  BY <1>2 DEF PlanRisk
<1>9. /\ Len(i.plan.statements) = Len(text)
      /\ WorkOf(job).size \in Nat /\ WorkOf(job).size <= Len(text)
      /\ WorkOf(job).atomic = i.atomic /\ i.atomic \in BOOLEAN
      /\ i.plan.risk = (IF ForcesHighRisk(engine, r) THEN "high" ELSE plan.risk)
      /\ i.plan.risk \in {"low", "high"}
  BY <1>4, <1>5, <1>7, <1>8
<1>10. QED
  BY <1>9 DEF i, job, text, plan

\* What may run without a confirmation needs none: the mode is quick, the risk low,
\* and the plan atomic or short.
LEMMA Unconfirmed ==
    ASSUME NEW i, NEW hash, config \in Configs,
           decidePreview(config.mode, i, FALSE, hash) = "execute"
    PROVE  /\ config.mode = "quick"
           /\ i.plan.risk # "high"
           /\ i.atomic \/ ~(Len(i.plan.statements) > 1)
BY ServiceAssumption DEF decidePreview, requiresConfirmation, RiskForAtomicBatches, Modes

\* A confirmation is accepted for the hash of the intent only.
LEMMA ConfirmedHash ==
    ASSUME NEW mode, NEW i, NEW hash, decidePreview(mode, i, TRUE, hash) = "execute"
    PROVE  hash = PreviewHash(i)
BY DEF decidePreview

-----------------------------------------------------------------------------
(* The invariant.                                                          *)

\* The process starts with no calls and no previews.
LEMMA InitInv == Init => IInv
<1> SUFFICES ASSUME Init PROVE IInv
  OBVIOUS
<1>1. TypeOK /\ Domains /\ PreviewsTrue
  BY DEF Init, PlanInit, TypeOK, Domains, PreviewsTrue, Authorized, Rejections
<1>2. ASSUME NEW c \in Calls PROVE verdict[c] # "started" /\ Quiet(c)
  BY <1>2 DEF Init, PlanInit, Quiet
<1>3. QED
  BY <1>1, <1>2 DEF IInv

\* A call whose own fields do not change, and whose promise is kept by more previews,
\* keeps what the invariant says of it.
LEMMA OthersKeep ==
    ASSUME IInv, NEW c \in Calls, shown \subseteq shown',
           input'[c] = input[c], intent'[c] = intent[c], verdict'[c] = verdict[c],
           work'[c] = work[c], phase'[c] = phase[c], applied'[c] = applied[c], late'[c] = late[c]
    PROVE  IF verdict'[c] = "started" THEN StartedAsDecided(c)' ELSE Quiet(c)'
<1>1. CASE verdict[c] = "started"
  <2>1. StartedAsDecided(c)
    BY <1>1 DEF IInv
  <2>2. StartedAsDecided(c)'
    BY <2>1 DEF StartedAsDecided, Whole
  <2>3. QED
    BY <1>1, <2>2
<1>2. CASE verdict[c] # "started"
  <2>1. Quiet(c)
    BY <1>2 DEF IInv
  <2>2. QED
    BY <1>2, <2>1 DEF Quiet
<1>3. QED
  BY <1>1, <1>2

\* A call that is denied.
LEMMA DenyInv ==
    ASSUME IInv, NEW c \in Calls, NEW r \in Requests, NEW confirm \in BOOLEAN, NEW hash,
           Deny(c, r, confirm, hash)
    PROVE  IInv'
<1>1. /\ verdict[c] = "none" /\ verdict' = [verdict EXCEPT ![c] = Rejection(r)]
      /\ input' = [input EXCEPT ![c] = [request |-> r, confirm |-> confirm, hash |-> hash]]
      /\ UNCHANGED <<config, planVars, intent, shown>>
  BY DEF Deny, Receive, Decide
<1>2. Rejection(r) \in Rejections
  BY RejectionKinds DEF Deny
<1>3. TypeOK'
  BY <1>1, <1>2 DEF IInv, TypeOK, Domains, planVars, Rejections, Authorized
<1>4. Domains'
  BY <1>1 DEF IInv, Domains, planVars
<1>5. PreviewsTrue'
  BY <1>1 DEF IInv, PreviewsTrue
<1>6. ASSUME NEW d \in Calls
      PROVE  IF verdict'[d] = "started" THEN StartedAsDecided(d)' ELSE Quiet(d)'
  <2>1. CASE d = c
    BY <1>1, <1>2, <2>1 DEF IInv, Domains, Quiet, planVars, Rejections
  <2>2. CASE d # c
    BY <1>1, <2>2, OthersKeep DEF IInv, Domains, planVars
  <2>3. QED
    BY <2>1, <2>2
<1>7. QED
  BY <1>3, <1>4, <1>5, <1>6 DEF IInv

\* A call that is shown a preview.
LEMMA ShowInv ==
    ASSUME IInv, NEW c \in Calls, NEW r \in Requests, NEW confirm \in BOOLEAN, NEW hash,
           Show(c, r, confirm, hash)
    PROVE  IInv'
<1> DEFINE i == IntentOf(EngineOf(r), r)
           decision == decidePreview(config.mode, i, confirm, hash)
<1>1. /\ verdict[c] = "none" /\ verdict' = [verdict EXCEPT ![c] = decision]
      /\ input' = [input EXCEPT ![c] = [request |-> r, confirm |-> confirm, hash |-> hash]]
      /\ intent' = [intent EXCEPT ![c] = i]
      /\ shown' = shown \cup {[request |-> r, intent |-> i, config |-> config, hash |-> PreviewHash(i)]}
      /\ UNCHANGED <<config, planVars>>
  BY DEF Show, Receive, Decide
<1>2. decision \in {"confirmation_required", "preview_mismatch"}
  BY DEF Show, decidePreview
<1>3. i = IntentOf(config.engine[r.source], r) /\ i.plan.risk \in {"low", "high"}
  BY IntentOfText DEF EngineOf
<1> HIDE DEF i, decision
<1>4. TypeOK'
  BY <1>1, <1>2, <1>3 DEF IInv, TypeOK, Domains, planVars, Rejections, Authorized
<1>5. Domains'
  BY <1>1 DEF IInv, Domains, planVars
<1>6. PreviewsTrue'
  BY <1>1, <1>3 DEF IInv, PreviewsTrue
<1>7. ASSUME NEW d \in Calls
      PROVE  IF verdict'[d] = "started" THEN StartedAsDecided(d)' ELSE Quiet(d)'
  <2>1. CASE d = c
    BY <1>1, <1>2, <2>1 DEF IInv, Domains, Quiet, planVars
  <2>2. CASE d # c
    BY <1>1, <2>2, OthersKeep DEF IInv, Domains, planVars
  <2>3. QED
    BY <2>1, <2>2
<1>8. QED
  BY <1>4, <1>5, <1>6, <1>7 DEF IInv

\* A call that is authorised: its hash, if it confirms, is that of a preview shown
\* before.
LEMMA ExecuteInv ==
    ASSUME IInv, NEW c \in Calls, NEW r \in Requests, NEW confirm \in BOOLEAN, NEW hash,
           confirm => hash \in KnownHashes,
           Execute(c, r, confirm, hash)
    PROVE  IInv'
<1> DEFINE i == IntentOf(EngineOf(r), r)
           w == WorkOf(JobFor(EngineOf(r), r))
<1>1. /\ verdict[c] = "none"
      /\ input' = [input EXCEPT ![c] = [request |-> r, confirm |-> confirm, hash |-> hash]]
      /\ intent' = [intent EXCEPT ![c] = i]
      /\ UNCHANGED <<config, shown, applied, late>>
      /\ work' = [work EXCEPT ![c] = w]
      /\ \/ /\ verdict' = [verdict EXCEPT ![c] = "started"]
            /\ phase' = [phase EXCEPT ![c] = "running"]
         \/ /\ verdict' = [verdict EXCEPT ![c] = "not_started"]
            /\ phase' = [phase EXCEPT ![c] = "execution_failure"]
  BY DEF Execute, Receive, Decide, Begin, Reject
<1>2. decidePreview(config.mode, i, confirm, hash) = "execute"
  BY DEF Execute
<1>3. /\ w.size \in Nat /\ w.size <= Len(i.plan.statements) /\ Len(i.plan.statements) \in Nat
      /\ w.atomic = i.atomic /\ i.atomic \in BOOLEAN /\ i.plan.risk \in {"low", "high"}
  BY IntentOfText, TextIsSequence
<1>4. confirm => hash = PreviewHash(i) /\ \E p \in shown : p.hash = hash
  <2> SUFFICES ASSUME confirm PROVE hash = PreviewHash(i) /\ \E p \in shown : p.hash = hash
    OBVIOUS
  <2>1. hash = PreviewHash(i)
    BY <1>2, ConfirmedHash
  <2>2. hash # NoHash /\ hash # Forged
    BY <2>1, HashIsEnvelope
  <2>3. QED
    BY <2>1, <2>2 DEF KnownHashes
<1>5. ~confirm => w.atomic \/ w.size <= 1
  <2> SUFFICES ASSUME ~confirm PROVE w.atomic \/ w.size <= 1
    OBVIOUS
  <2>1. decidePreview(config.mode, i, FALSE, hash) = "execute" /\ config \in Configs
    BY <1>2 DEF IInv, TypeOK
  <2> HIDE DEF i, w
  <2>2. i.atomic \/ ~(Len(i.plan.statements) > 1)
    BY <2>1, Unconfirmed
  <2>3. QED
    BY <1>3, <2>2
<1> HIDE DEF i, w
<1>6. TypeOK'
  BY <1>1, <1>3 DEF IInv, TypeOK, Domains, Rejections, Authorized
<1>7. Domains'
  BY <1>1 DEF IInv, Domains
<1>8. PreviewsTrue'
  BY <1>1 DEF IInv, PreviewsTrue
<1>9. ASSUME NEW d \in Calls
      PROVE  IF verdict'[d] = "started" THEN StartedAsDecided(d)' ELSE Quiet(d)'
  <2>1. CASE d = c
    <3>1. Quiet(c)
      BY <1>1 DEF IInv
    <3>2. /\ work'[c] = w /\ intent'[c] = i /\ applied'[c] = {} /\ ~late'[c] /\ shown' = shown
          /\ input'[c].confirm = confirm /\ input'[c].hash = hash
          /\ verdict'[c] # "started" => phase'[c] # "running"
      BY <1>1, <3>1 DEF IInv, Domains, Quiet
    <3>3. \E k \in 0 .. w.size : {} = 1 .. k
      <4>1. 0 \in 0 .. w.size /\ {} = 1 .. 0
        BY <1>3
      <4>2. QED
        BY <4>1
    <3>4. StartedAsDecided(c)'
      BY <1>3, <1>4, <1>5, <3>2, <3>3 DEF StartedAsDecided
    <3>5. QED
      BY <2>1, <3>2, <3>4 DEF Quiet
  <2>2. CASE d # c
    BY <1>1, <2>2, OthersKeep DEF IInv, Domains
  <2>3. QED
    BY <2>1, <2>2
<1>10. QED
  BY <1>6, <1>7, <1>8, <1>9 DEF IInv

\* The effects of a call follow one another, or come at once.
LEMMA FollowingKeeps ==
    ASSUME NEW w, w.size \in Nat, w.atomic \in BOOLEAN, NEW done, NEW next \in Following(w, done)
    PROVE  /\ \E k \in 0 .. w.size : next = 1 .. k
           /\ w.atomic => next = Whole(w)
<1>1. CASE w.atomic
  BY <1>1 DEF Following, Whole
<1>2. CASE ~w.atomic
  BY <1>2 DEF Following, Whole
<1>3. QED
  BY <1>1, <1>2

\* A started call runs on, ends, or is overtaken by a request it left behind.
LEMMA ProgressInv == ASSUME IInv, NEW c \in Calls, Progress(c) PROVE IInv'
<1>1. UNCHANGED <<config, input, intent, verdict, shown, work>>
  BY DEF Progress, serviceVars, Publish, Succeed, Fail, PublishLate, Forget
<1>2. phase[c] = "running" \/ late[c]
  BY DEF Progress, Publish, Succeed, Fail, PublishLate, Forget
<1>3. verdict[c] = "started" /\ StartedAsDecided(c)
  BY <1>2 DEF IInv, Quiet
<1>4. /\ DOMAIN phase' = Calls /\ DOMAIN applied' = Calls /\ DOMAIN late' = Calls
      /\ \A d \in Calls \ {c} : phase'[d] = phase[d] /\ applied'[d] = applied[d] /\ late'[d] = late[d]
      /\ phase'[c] \in {phase[c], "ok"} \cup Failures
      /\ \/ applied'[c] = applied[c]
         \/ \E next \in Following(work[c], applied[c]) : applied'[c] = next
  BY DEF Progress, Publish, Succeed, Fail, PublishLate, Forget, IInv, Domains
<1>5. TypeOK'
  <2>1. phase[c] # "idle" /\ phase'[c] # "idle"
    BY <1>3, <1>4 DEF IInv, TypeOK, Authorized, Failures
  <2>2. QED
    BY <1>1, <1>3, <1>4, <2>1 DEF IInv, TypeOK, Authorized
<1>6. Domains'
  BY <1>1, <1>4 DEF IInv, Domains
<1>7. PreviewsTrue'
  BY <1>1 DEF IInv, PreviewsTrue
<1>8. ASSUME NEW d \in Calls
      PROVE  IF verdict'[d] = "started" THEN StartedAsDecided(d)' ELSE Quiet(d)'
  <2>1. CASE d = c
    <3>1. /\ \E k \in 0 .. work[c].size : applied'[c] = 1 .. k
          /\ work[c].atomic => applied'[c] \in {{}, Whole(work[c])}
      BY <1>3, <1>4, FollowingKeeps DEF StartedAsDecided
    <3>2. QED
      BY <1>1, <1>3, <2>1, <3>1 DEF StartedAsDecided
  <2>2. CASE d # c
    BY <1>1, <1>4, <2>2, OthersKeep
  <2>3. QED
    BY <2>1, <2>2
<1>9. QED
  BY <1>5, <1>6, <1>7, <1>8 DEF IInv

\* The process ends and starts again under any configuration.
LEMMA RestartInv == ASSUME IInv, NEW new \in Configs, Restart(new) PROVE IInv'
<1>1. /\ config' = new /\ UNCHANGED <<input, intent, verdict, shown, work, applied>>
      /\ phase' = [c \in Calls |-> IF phase[c] = "running" THEN "lost" ELSE phase[c]]
      /\ late' \in [Calls -> BOOLEAN]
      /\ \A c \in Calls : phase[c] # "running" => late'[c] = late[c]
  BY DEF Restart, Crash
<1>2. TypeOK'
  BY <1>1 DEF IInv, TypeOK
<1>3. Domains'
  BY <1>1 DEF IInv, Domains
<1>4. PreviewsTrue'
  BY <1>1 DEF IInv, PreviewsTrue
<1>5. ASSUME NEW d \in Calls
      PROVE  IF verdict'[d] = "started" THEN StartedAsDecided(d)' ELSE Quiet(d)'
  BY <1>1 DEF IInv, StartedAsDecided, Quiet
<1>6. QED
  BY <1>2, <1>3, <1>4, <1>5 DEF IInv

\* Every step of the service keeps the invariant.
LEMMA NextInv == IInv /\ [Next]_vars => IInv'
<1> SUFFICES ASSUME IInv, [Next]_vars PROVE IInv'
  OBVIOUS
<1>1. CASE UNCHANGED vars
  <2>1. UNCHANGED <<config, input, intent, verdict, shown, work, phase, applied, late>>
    BY <1>1 DEF vars, serviceVars, planVars
  <2>2. TypeOK' /\ Domains' /\ PreviewsTrue'
    BY <2>1 DEF IInv, TypeOK, Domains, PreviewsTrue
  <2>3. \A d \in Calls : IF verdict'[d] = "started" THEN StartedAsDecided(d)' ELSE Quiet(d)'
    BY <2>1, OthersKeep
  <2>4. QED
    BY <2>2, <2>3 DEF IInv
<1>2. CASE Next
  BY <1>2, DenyInv, ShowInv, ExecuteInv, ProgressInv, RestartInv DEF Next
<1>3. QED
  BY <1>1, <1>2

\* Service has its invariant in every state.
LEMMA Inductive == Spec => []IInv
BY InitInv, NextInv, PTL DEF Spec

-----------------------------------------------------------------------------
(* What is promised to callers.                                            *)

\* Whatever is asked and however often the process restarts, the service keeps its
\* form: what runs was authorised, and every plan has one of the two risks.
THEOREM Typed == Spec => []TypeOK
<1>1. IInv => TypeOK
  BY DEF IInv
<1>2. QED
  BY <1>1, Inductive, PTL

\* The verdict of a call changes once, when the call is made.
LEMMA VerdictOnce ==
    ASSUME IInv, Next, NEW c \in Calls, verdict'[c] # verdict[c]
    PROVE  \E r, confirm, hash :
              /\ r \in Requests /\ confirm \in BOOLEAN
              /\ input'[c] = [request |-> r, confirm |-> confirm, hash |-> hash]
              /\ verdict[c] = "none"
              /\ \/ verdict'[c] \in Rejections
                 \/ /\ Show(c, r, confirm, hash)
                    /\ verdict'[c] = decidePreview(config.mode, IntentOf(EngineOf(r), r), confirm, hash)
                    /\ verdict'[c] \in {"confirmation_required", "preview_mismatch"}
                 \/ /\ Execute(c, r, confirm, hash) /\ (confirm => hash \in KnownHashes)
                    /\ verdict'[c] \in Authorized
                    /\ intent'[c] = IntentOf(EngineOf(r), r)
<1>1. ASSUME NEW d \in Calls, NEW r \in Requests, NEW confirm \in BOOLEAN, NEW hash,
             Deny(d, r, confirm, hash)
      PROVE  /\ d = c /\ verdict[c] = "none" /\ verdict'[c] \in Rejections
             /\ input'[c] = [request |-> r, confirm |-> confirm, hash |-> hash]
  <2>1. verdict[d] = "none" /\ verdict' = [verdict EXCEPT ![d] = Rejection(r)]
        /\ input' = [input EXCEPT ![d] = [request |-> r, confirm |-> confirm, hash |-> hash]]
    BY <1>1 DEF Deny, Receive, Decide
  <2>2. Rejection(r) \in Rejections
    BY <1>1, RejectionKinds DEF Deny
  <2>3. QED
    BY <2>1, <2>2 DEF IInv, Domains
<1>2. ASSUME NEW d \in Calls, NEW r \in Requests, NEW confirm \in BOOLEAN, NEW hash,
             Show(d, r, confirm, hash)
      PROVE  /\ d = c /\ verdict[c] = "none"
             /\ verdict'[c] = decidePreview(config.mode, IntentOf(EngineOf(r), r), confirm, hash)
             /\ verdict'[c] \in {"confirmation_required", "preview_mismatch"}
             /\ input'[c] = [request |-> r, confirm |-> confirm, hash |-> hash]
  <2> DEFINE decision == decidePreview(config.mode, IntentOf(EngineOf(r), r), confirm, hash)
  <2>1. verdict[d] = "none" /\ verdict' = [verdict EXCEPT ![d] = decision]
        /\ input' = [input EXCEPT ![d] = [request |-> r, confirm |-> confirm, hash |-> hash]]
    BY <1>2 DEF Show, Receive, Decide
  <2>2. decision \in {"confirmation_required", "preview_mismatch"}
    BY <1>2 DEF Show, decidePreview
  <2> HIDE DEF decision
  <2>3. d = c /\ verdict'[c] = decision
    BY <2>1 DEF IInv, Domains
  <2>4. QED
    BY <2>1, <2>2, <2>3 DEF decision, IInv, Domains
<1>3. ASSUME NEW d \in Calls, NEW r \in Requests, NEW confirm \in BOOLEAN, NEW hash,
             Execute(d, r, confirm, hash)
      PROVE  /\ d = c /\ verdict[c] = "none" /\ verdict'[c] \in Authorized
             /\ input'[c] = [request |-> r, confirm |-> confirm, hash |-> hash]
             /\ intent'[c] = IntentOf(EngineOf(r), r)
  <2> DEFINE i == IntentOf(EngineOf(r), r)
  <2>1. /\ verdict[d] = "none" /\ intent' = [intent EXCEPT ![d] = i]
        /\ \E v \in Authorized : verdict' = [verdict EXCEPT ![d] = v]
        /\ input' = [input EXCEPT ![d] = [request |-> r, confirm |-> confirm, hash |-> hash]]
    BY <1>3 DEF Execute, Receive, Decide, Authorized
  <2> HIDE DEF i
  <2>2. d = c
    BY <2>1 DEF IInv, Domains
  <2>3. QED
    BY <2>1, <2>2 DEF IInv, Domains, i
<1>4. \A d \in Calls : ~Progress(d)
  BY DEF Progress, serviceVars
<1>5. \A new \in Configs : ~Restart(new)
  BY DEF Restart
<1>6. PICK d, r, confirm, hash :
         /\ d \in Calls /\ r \in Requests /\ confirm \in BOOLEAN
         /\ Deny(d, r, confirm, hash) \/ Show(d, r, confirm, hash) \/ Execute(d, r, confirm, hash)
         /\ confirm => hash \in KnownHashes
  BY <1>4, <1>5 DEF Next
<1>7. CASE Deny(d, r, confirm, hash)
  <2>1. verdict[c] = "none" /\ verdict'[c] \in Rejections
        /\ input'[c] = [request |-> r, confirm |-> confirm, hash |-> hash]
    BY <1>1, <1>6, <1>7
  <2>2. QED
    BY <1>6, <2>1
<1>8. CASE Show(d, r, confirm, hash)
  <2>1. d = c
    BY <1>2, <1>6, <1>8
  <2>2. QED
    BY <1>2, <1>6, <1>8, <2>1
<1>9. CASE Execute(d, r, confirm, hash)
  <2>1. d = c
    BY <1>3, <1>6, <1>9
  <2>2. QED
    BY <1>3, <1>6, <1>9, <2>1
<1>10. QED
  BY <1>6, <1>7, <1>8, <1>9

\* A call that has its verdict keeps its input.
LEMMA InputOnce ==
    ASSUME IInv, Next, NEW c \in Calls, verdict[c] # "none"
    PROVE  input'[c] = input[c]
<1>1. ASSUME NEW d \in Calls, NEW r \in Requests, NEW confirm \in BOOLEAN, NEW hash,
             Receive(d, r, confirm, hash)
      PROVE  input'[c] = input[c]
  BY <1>1 DEF Receive, IInv, Domains
<1>2. CASE \E d, r, confirm, hash :
              /\ d \in Calls /\ r \in Requests /\ confirm \in BOOLEAN
              /\ Deny(d, r, confirm, hash) \/ Show(d, r, confirm, hash) \/ Execute(d, r, confirm, hash)
  BY <1>1, <1>2 DEF Deny, Show, Execute
<1>3. CASE \E d \in Calls : Progress(d)
  BY <1>3 DEF Progress, serviceVars
<1>4. CASE \E new \in Configs : Restart(new)
  BY <1>4 DEF Restart
<1>5. QED
  BY <1>2, <1>3, <1>4 DEF Next

\* Nothing is confirmed that no response has shown.
THEOREM Reviewing == Spec => ConfirmedWasReviewed
<1>1. ASSUME IInv, Next, NEW c \in Calls, Confirmed(c)', ~Confirmed(c)
      PROVE  \E p \in shown : p.hash = input'[c].hash /\ Reviewed(p, intent'[c])
  <2>1. CASE verdict'[c] = verdict[c]
    <3>1. verdict[c] \in Authorized /\ verdict[c] # "none"
      BY <1>1, <2>1 DEF Confirmed, Authorized
    <3>2. input'[c] = input[c]
      BY <1>1, <3>1, InputOnce
    <3>3. QED
      BY <1>1, <2>1, <3>2 DEF Confirmed
  <2>2. CASE verdict'[c] # verdict[c]
    <3>1. PICK r, confirm, hash :
              /\ r \in Requests /\ confirm \in BOOLEAN
              /\ input'[c] = [request |-> r, confirm |-> confirm, hash |-> hash]
              /\ confirm => hash \in KnownHashes
              /\ Execute(c, r, confirm, hash)
              /\ intent'[c] = IntentOf(EngineOf(r), r)
      BY <1>1, <2>2, VerdictOnce DEF Confirmed, Authorized, Rejections
    <3> DEFINE i == IntentOf(EngineOf(r), r)
    <3>2. confirm /\ hash = PreviewHash(i)
      <4>1. confirm
        BY <1>1, <3>1 DEF Confirmed
      <4>2. decidePreview(config.mode, i, TRUE, hash) = "execute"
        BY <3>1, <4>1 DEF Execute
      <4>3. QED
        BY <4>1, <4>2, ConfirmedHash
    <3>3. PICK p \in shown : p.hash = hash
      BY <3>1, <3>2, HashIsEnvelope DEF KnownHashes
    <3>4. Envelope(p.intent) = Envelope(i)
      BY <1>1, <3>2, <3>3, HashIsEnvelope DEF IInv, PreviewsTrue
    <3>5. QED
      BY <3>1, <3>3, <3>4, EnvelopeTells
  <2>3. QED
    BY <2>1, <2>2
<1>2. ASSUME IInv, [Next]_vars
      PROVE  [\A c \in Calls : Confirmed(c)' /\ ~Confirmed(c)
                => \E p \in shown : p.hash = input'[c].hash /\ Reviewed(p, intent'[c])]_vars
  BY <1>1, <1>2
<1>3. QED
  BY <1>2, Inductive, PTL DEF Spec, ConfirmedWasReviewed

\* Nothing with a large effect runs on a caller's word alone.
THEOREM Harmless == Spec => UnconfirmedIsHarmless
<1>1. ASSUME IInv, Next, NEW c \in Calls,
             verdict[c] = "none", verdict'[c] \in Authorized, ~input'[c].confirm
      PROVE  LET r == input'[c].request IN
             /\ config.mode = "quick"
             /\ r.tool \in {"query", "execute_sql"}
             /\ Len(r.text) = 1
             /\ ~HighImpact(r.text[1])
  <2>1. PICK r, confirm, hash :
            /\ r \in Requests /\ confirm \in BOOLEAN
            /\ input'[c] = [request |-> r, confirm |-> confirm, hash |-> hash]
            /\ Execute(c, r, confirm, hash)
    BY <1>1, VerdictOnce DEF Authorized, Rejections
  <2> DEFINE engine == EngineOf(r)
             text == TextOf(engine, r)
             i == IntentOf(engine, r)
  <2>2. config \in Configs /\ Rejection(r) = "none"
        /\ decidePreview(config.mode, i, FALSE, hash) = "execute"
    <3>1. confirm = FALSE
      BY <1>1, <2>1
    <3>2. Rejection(r) = "none" /\ decidePreview(config.mode, i, confirm, hash) = "execute"
      BY <2>1 DEF Execute
    <3>3. QED
      BY <1>1, <3>1, <3>2 DEF IInv, TypeOK
  <2>3. /\ engine \in Engines /\ Analyzable(engine, text)
        /\ r.tool = "query" => Len(text) = 1
    BY <2>1, <2>2, Unrejected
  <2>4. /\ i.plan.risk = (IF ForcesHighRisk(engine, r) THEN "high" ELSE PlanOf(engine, r).risk)
        /\ Len(text) \in Nat /\ DOMAIN text = 1 .. Len(text)
        /\ r.tool \in StructuredTools =>
              1 \in DOMAIN text /\ text[1].node = "ddl" /\ text[1].flags = {}
    BY <2>1, IntentOfText, TextIsSequence
  <2> HIDE DEF i
  <2>5. config.mode = "quick" /\ i.plan.risk # "high"
    BY <2>2, Unconfirmed
  <2>6. ~ForcesHighRisk(engine, r) /\ PlanRisk(engine, text) # "high"
    BY <2>4, <2>5 DEF PlanOf, makePlan
  <2> HIDE DEF engine, text
  <2>7. \A k \in DOMAIN text : Kind(engine, text[k]) # "ddl" /\ Kind(engine, text[k]) # UnsafeSQL
    BY <2>3, <2>6 DEF PlanRisk, Analyzable
  <2>8. ASSUME NEW k \in DOMAIN text PROVE ~HighImpact(text[k])
    <3>1. requiresWhere(text[k]) => "where" \in text[k].flags
      BY <2>6 DEF PlanRisk
    <3>2. text[k].node \notin {"ddl", "db_ddl"}
      <4>1. Kind(engine, text[k]) # "ddl" /\ Kind(engine, text[k]) # UnsafeSQL
        BY <2>7
      <4>2. QED
        BY <2>3, <4>1 DEF Kind, Engines, UnsafeSQL, mysqlReadOnly, mysqlWrite, mysqlDDL,
               clickHouseReadOnly, clickHouseWrite, clickHouseDDL
    <3>3. QED
      BY <3>1, <3>2 DEF HighImpact, requiresWhere
  <2>9. r.tool \notin StructuredTools
    <3> SUFFICES ASSUME r.tool \in StructuredTools PROVE FALSE
      OBVIOUS
    <3>1. 1 \in DOMAIN text /\ HighImpact(text[1])
      BY <2>4 DEF HighImpact
    <3>2. QED
      BY <2>8, <3>1
  <2>10. text = r.text
    BY <2>9 DEF text, TextOf
  <2>11. r.tool \in {"query", "execute_sql"} /\ Len(text) = 1
    <3>1. r.tool \in {"query", "execute_sql"}
      BY <2>1, <2>6, <2>9, ServiceAssumption DEF ForcesHighRisk
    <3>2. Len(text) >= 1
      BY <2>3, SqlGuardAssumption DEF Analyzable
    <3>3. r.tool = "execute_sql" => ~(Len(text) > 1)
      BY <2>6 DEF ForcesHighRisk, text
    <3>4. QED
      BY <2>3, <2>4, <3>1, <3>2, <3>3
  <2>12. 1 \in DOMAIN text
    BY <2>4, <2>11
  <2>13. QED
    BY <2>1, <2>5, <2>8, <2>10, <2>11, <2>12
<1>2. ASSUME IInv, [Next]_vars
      PROVE  [\A c \in Calls :
                verdict[c] = "none" /\ verdict'[c] \in Authorized /\ ~input'[c].confirm
                => LET r == input'[c].request IN
                   /\ config.mode = "quick"
                   /\ r.tool \in {"query", "execute_sql"}
                   /\ Len(r.text) = 1
                   /\ ~HighImpact(r.text[1])]_vars
  BY <1>1, <1>2
<1>3. QED
  BY <1>2, Inductive, PTL DEF Spec, UnconfirmedIsHarmless

\* Nothing that is confirmed makes query run more than one SELECT, or an EXPLAIN that
\* does not execute one, on either engine.
THEOREM Reading == Spec => QueryOnlyReads
<1>1. ASSUME IInv, Next, NEW c \in Calls, verdict[c] = "none", verdict'[c] \in Authorized,
             input'[c].request.tool = "query"
      PROVE  LET r == input'[c].request IN
             Len(r.text) = 1 /\ Selects(EngineOf(r), r.text[1])
  <2>1. PICK r, confirm, hash :
            /\ r \in Requests /\ confirm \in BOOLEAN
            /\ input'[c] = [request |-> r, confirm |-> confirm, hash |-> hash]
            /\ Execute(c, r, confirm, hash)
    BY <1>1, VerdictOnce DEF Authorized, Rejections
  <2> DEFINE engine == EngineOf(r)
             text == TextOf(engine, r)
  <2>2. r.tool = "query" /\ text = r.text
    BY <1>1, <2>1 DEF TextOf, StructuredTools, TableTools, IndexTools, CopyTools
  <2>3. /\ engine \in Engines /\ PlanOf(engine, r).readOnly /\ Len(text) = 1
        /\ DOMAIN text = 1 .. Len(text)
    BY <1>1, <2>1, <2>2, Unrejected, TextIsSequence DEF Execute, IInv, TypeOK
  <2>4. 1 \in DOMAIN text
    BY <2>3
  <2>5. Kind(engine, text[1]) = "read_only"
    BY <2>3, <2>4 DEF PlanOf, makePlan
  <2> HIDE DEF engine, text
  <2>6. Selects(engine, text[1])
    <3>1. CASE engine = "mysql"
      <4>1. mysqlReadOnly(text[1])
        BY <2>5, <3>1 DEF Kind, UnsafeSQL
      <4>2. QED
        BY <3>1, <4>1 DEF mysqlReadOnly, isSafeMySQLExplain, Selects
    <3>2. CASE engine = "clickhouse"
      <4>1. clickHouseReadOnly(text[1])
        BY <2>5, <3>2 DEF Kind, UnsafeSQL
      <4>2. QED
        BY <3>2, <4>1 DEF clickHouseReadOnly, Selects
    <3>3. QED
      BY <2>3, <3>1, <3>2 DEF Engines
  <2>7. QED
    BY <2>1, <2>2, <2>3, <2>6 DEF engine
<1>2. ASSUME IInv, [Next]_vars
      PROVE  [\A c \in Calls :
                LET r == input'[c].request IN
                verdict[c] = "none" /\ verdict'[c] \in Authorized /\ r.tool = "query"
                => Len(r.text) = 1 /\ Selects(EngineOf(r), r.text[1])]_vars
  BY <1>1, <1>2
<1>3. QED
  BY <1>2, Inductive, PTL DEF Spec, QueryOnlyReads

\* An approval does not expire while the configuration stays.
THEOREM Approvals == Spec => ApprovalStaysValid
<1>1. ASSUME IInv, Next, NEW c \in Calls, verdict[c] = "none", verdict'[c] = "preview_mismatch",
             NEW p \in shown,
             p.request = input'[c].request, p.hash = input'[c].hash, p.config = config
      PROVE  FALSE
  <2>1. verdict'[c] \notin Rejections \cup Authorized
    BY <1>1 DEF Authorized, Rejections
  <2>2. PICK r, confirm, hash :
            /\ r \in Requests /\ confirm \in BOOLEAN
            /\ input'[c] = [request |-> r, confirm |-> confirm, hash |-> hash]
            /\ verdict'[c] = decidePreview(config.mode, IntentOf(EngineOf(r), r), confirm, hash)
    <3>1. verdict'[c] # verdict[c]
      BY <1>1
    <3>2. QED
      BY <1>1, <2>1, <3>1, VerdictOnce
  <2>3. hash = PreviewHash(IntentOf(EngineOf(r), r))
    BY <1>1, <2>2 DEF IInv, PreviewsTrue, EngineOf
  <2>4. hash # NoHash
    BY <2>3, HashIsEnvelope
  <2>5. QED
    BY <1>1, <2>2, <2>3, <2>4 DEF decidePreview
<1>2. ASSUME IInv, [Next]_vars
      PROVE  [\A c \in Calls : verdict[c] = "none" /\ verdict'[c] = "preview_mismatch"
                => ~ \E p \in shown :
                        p.request = input'[c].request /\ p.hash = input'[c].hash /\ p.config = config]_vars
  BY <1>1, <1>2
<1>3. QED
  BY <1>2, Inductive, PTL DEF Spec, ApprovalStaysValid

\* A plan is left half applied only for a caller who was told that it may be.
THEOREM HalfApplied == Spec => []HalfAppliedOnlyAsReviewed
<1>1. ASSUME IInv, NEW c \in Calls, verdict[c] = "started", applied[c] \notin {{}, Whole(work[c])}
      PROVE  /\ input[c].confirm
             /\ \E p \in shown : p.hash = input[c].hash
             /\ \A p \in shown : p.hash = input[c].hash => ~p.intent.atomic
  <2>1. StartedAsDecided(c)
    BY <1>1 DEF IInv
  <2>2. ~work[c].atomic /\ intent[c].atomic = FALSE
    BY <1>1, <2>1 DEF StartedAsDecided
  <2>3. input[c].confirm
    <3> SUFFICES ASSUME ~input[c].confirm PROVE FALSE
      OBVIOUS
    <3>1. work[c].size \in Nat /\ work[c].size <= 1
      BY <2>1, <2>2 DEF StartedAsDecided
    <3>2. PICK k \in 0 .. work[c].size : applied[c] = 1 .. k
      BY <2>1 DEF StartedAsDecided
    <3>3. k = 0 \/ k = work[c].size
      BY <3>1
    <3>4. QED
      BY <1>1, <3>2, <3>3 DEF Whole
  <2>4. input[c].hash = PreviewHash(intent[c]) /\ \E p \in shown : p.hash = input[c].hash
    BY <2>1, <2>3 DEF StartedAsDecided
  <2>5. ASSUME NEW p \in shown, p.hash = input[c].hash PROVE ~p.intent.atomic
    <3>1. Envelope(p.intent) = Envelope(intent[c])
      BY <1>1, <2>4, <2>5, HashIsEnvelope DEF IInv, PreviewsTrue
    <3>2. p.intent.atomic = intent[c].atomic
      BY <3>1 DEF Envelope
    <3>3. QED
      BY <2>2, <3>2
  <2>6. QED
    BY <2>3, <2>4, <2>5
<1>2. IInv => HalfAppliedOnlyAsReviewed
  BY <1>1 DEF HalfAppliedOnlyAsReviewed
<1>3. QED
  BY <1>2, Inductive, PTL
=============================================================================
