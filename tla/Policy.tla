--------------------------------- MODULE Policy ---------------------------------
(***************************************************************************)
(* internal/execution/policy.go and preview.go: the stateless confirmation *)
(* policy.  Nothing is remembered between the call that gets a preview and *)
(* the call that confirms it; the preview hash is all that connects them.  *)
(*                                                                         *)
(* SHA-256 is taken to be injective: a hash is written as the one-element  *)
(* sequence of the envelope it is computed from, the empty string as the   *)
(* empty sequence.                                                         *)
(***************************************************************************)
EXTENDS SqlGuard

NoHash == <<>>

Modes == {"quick", "strict"}

-----------------------------------------------------------------------------
(* Parameters.  A literal of the request is an integer, an integer too     *)
(* wide for int64, a number with a fraction or an exponent, a number out   *)
(* of float64's range, or a string.  float64 cannot tell neighbouring wide *)
(* integers apart: 2 * k and 2 * k + 1 stand for such neighbours.          *)

\* normalizeJSONValue succeeds.
Representable(literal) == literal.form # "overflow"

\* What the driver binds: Go's int64, float64 or string.
normalizeJSONValue(literal) ==
    CASE literal.form = "integer" -> [type |-> "int64", value |-> literal.value]
      [] literal.form = "wide" -> [type |-> "float64", value |-> 2 * (literal.value \div 2)]
      [] literal.form = "fraction" -> [type |-> "float64", value |-> literal.value]
      [] OTHER -> [type |-> "string", value |-> literal.value]

normalizeParameters(literals) == [i \in DOMAIN literals |-> normalizeJSONValue(literals[i])]

\* encoding/json writes int64 1 and float64 1 alike.
Encoded(parameter) ==
    [json |-> IF parameter.type = "string" THEN "string" ELSE "number",
     value |-> parameter.value]

-----------------------------------------------------------------------------
CanonicalSQL(plan) == [i \in DOMAIN plan.statements |-> plan.statements[i].sql]

\* Mutant: the tool is not part of what is confirmed.
EnvelopeWithoutTool(intent) ==
    [source_id |-> intent.source,
     sql |-> CanonicalSQL(intent.plan),
     parameters |-> [i \in DOMAIN intent.parameters |-> Encoded(intent.parameters[i])],
     risk |-> RiskForAtomicBatches(intent.plan, intent.atomic),
     atomic |-> intent.atomic]

\* Mutant: neither the atomicity nor the risk that follows from it is.
EnvelopeWithoutAtomic(intent) ==
    [source_id |-> intent.source, tool |-> intent.tool,
     sql |-> CanonicalSQL(intent.plan),
     parameters |-> [i \in DOMAIN intent.parameters |-> Encoded(intent.parameters[i])]]

\* previewEnvelope, and with it the preview hash.
Envelope(intent) ==
    [source_id |-> intent.source,
     tool |-> intent.tool,
     sql |-> CanonicalSQL(intent.plan),
     parameters |-> [i \in DOMAIN intent.parameters |-> Encoded(intent.parameters[i])],
     risk |-> RiskForAtomicBatches(intent.plan, intent.atomic),
     atomic |-> intent.atomic]

PreviewHash(intent) == <<Envelope(intent)>>

requiresConfirmation(mode, intent) ==
    \/ RiskForAtomicBatches(intent.plan, intent.atomic) = "high"
    \/ mode = "strict"

\* Mutant: a confirmation counts only for what needs one.
ConfirmOnlyWhatNeedsIt(mode, intent, confirm, hash) ==
    IF confirm
    THEN IF /\ requiresConfirmation(mode, intent)
            /\ hash # NoHash /\ hash = PreviewHash(intent) THEN "execute" ELSE "preview_mismatch"
    ELSE IF requiresConfirmation(mode, intent) THEN "confirmation_required" ELSE "execute"

decidePreview(mode, intent, confirm, hash) ==
    IF confirm
    THEN IF hash # NoHash /\ hash = PreviewHash(intent) THEN "execute" ELSE "preview_mismatch"
    ELSE IF requiresConfirmation(mode, intent) THEN "confirmation_required" ELSE "execute"
=============================================================================
