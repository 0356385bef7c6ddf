------------------------------ MODULE ToolRuntime ------------------------------
(***************************************************************************)
(* The Tool Runtime (tool-runtime/src/registry.rs, execution.rs): tools are*)
(* registered with an approval policy, a call is prepared into a plan that *)
(* owns it, and the plan is consumed when it is executed with the Agent    *)
(* Runtime's decision.  Several runtimes may exist, each with an identity  *)
(* from one process-wide counter.                                          *)
(*                                                                         *)
(* A reason is a sequence of characters, each with a size in JSON: "x" is a*)
(* letter, " " a space, "n" an escaped newline, "q" an escaped quote, "c" a*)
(* control character, "t" the suffix of a shortened reason.                *)
(***************************************************************************)
EXTENDS Naturals, Sequences, SequencesExt, FiniteSetsExt

CONSTANTS ToolNames,
          MAX_IDENTITY,       \* u64::MAX
          MAX_APPROVAL_REASON_SERIALIZED_BYTES,
          MaxPlans            \* how many calls are prepared

ASSUME ReasonLimitAssumption ==
    MAX_APPROVAL_REASON_SERIALIZED_BYTES \in Nat /\ MAX_APPROVAL_REASON_SERIALIZED_BYTES >= 5

VARIABLES identities,         \* NEXT_IDENTITY
          runtimes,           \* the runtimes, in the order they were made
          plans,              \* the prepared calls nobody executed yet
          handling,           \* the handler that runs, or Idle
          last,               \* what the last call returned
          \* What the properties are about:
          prepared,           \* how many calls were prepared
          executed            \* the handlers that were started

registry == <<identities, runtimes>>
calls == <<plans, handling, last, prepared, executed>>

Idle == [runtime |-> 0]
NotRequired == "not_required"          \* else the id of the call that was approved
NoTool == [policy |-> "none", reason |-> <<>>]

-----------------------------------------------------------------------------
\* Approval reasons.

Characters == {"x", " ", "n", "q", "c", "t"}
Whitespace == {" ", "n"}
BlankText(text) == \A i \in DOMAIN text : text[i] \in Whitespace

serialized_json_character_bytes(c) ==
    CASE c \in {"q", "n"} -> 2 [] c = "c" -> 6 [] c = "t" -> 3 [] OTHER -> 1

serialized_json_string_content_bytes(text) ==
    FoldLeft(LAMBDA n, c : n + serialized_json_character_bytes(c), 0, text)
serialized_json_string_bytes(text) == 2 + serialized_json_string_content_bytes(text)

APPROVAL_REASON_TRUNCATED_SUFFIX == <<"t">>

\* The loop of bound_approval_reason, which is also that of truncate_json_string:
\* characters are kept until one does not fit.
KeptPrefix(text, budget) ==
    FoldLeft(LAMBDA a, c :
               LET bytes == serialized_json_character_bytes(c) IN
               IF a.full \/ a.bytes + bytes > budget THEN [a EXCEPT !.full = TRUE]
               ELSE [a EXCEPT !.bytes = @ + bytes, !.text = Append(@, c)],
             [full |-> FALSE, bytes |-> 0, text |-> <<>>], text).text

\* Mutant: the suffix is not counted.
mutant_bound_approval_reason(reason) ==
    LET prefix == KeptPrefix(reason, MAX_APPROVAL_REASON_SERIALIZED_BYTES - 2)
    IN  IF serialized_json_string_bytes(reason) <= MAX_APPROVAL_REASON_SERIALIZED_BYTES
        THEN reason
        ELSE IF BlankText(prefix) THEN prefix
        ELSE prefix \o APPROVAL_REASON_TRUNCATED_SUFFIX

bound_approval_reason(reason) ==
    LET budget == MAX_APPROVAL_REASON_SERIALIZED_BYTES - 2
                    - serialized_json_string_content_bytes(APPROVAL_REASON_TRUNCATED_SUFFIX)
        prefix == KeptPrefix(reason, budget)
    IN  IF serialized_json_string_bytes(reason) <= MAX_APPROVAL_REASON_SERIALIZED_BYTES
        THEN reason
        ELSE IF BlankText(prefix) THEN prefix
        ELSE prefix \o APPROVAL_REASON_TRUNCATED_SUFFIX

-----------------------------------------------------------------------------
\* PreparedToolCall.

\* source is the reason as it was given.
Plan(r, call, disposition, reason, source) ==
    [identity |-> runtimes[r].identity, call |-> call, disposition |-> disposition,
     reason |-> reason, source |-> source, owner |-> r, serial |-> prepared + 1,
     answer |-> "none",
     policy |-> runtimes[r].tools[call.tool_name].policy]

ready(r, call) == Plan(r, call, "ready", <<>>, <<>>)
requiring_approval(r, call, reason, source) ==
    Plan(r, call, "requires_approval", bound_approval_reason(reason), source)
rejected(r, call, reason, source) == Plan(r, call, "reject", reason, source)

\* What the handler of a call-dependent tool answered; a blank reason is refused.
classified(r, call, answer) ==
    LET reason == bound_approval_reason(answer.reason) IN
    CASE answer.kind = "allow" -> ready(r, call)
      [] answer.kind # "allow" /\ BlankText(reason) -> rejected(r, call, <<"x">>, <<"x">>)
      [] OTHER ->
           IF answer.kind = "requires_approval"
           THEN requiring_approval(r, call, reason, answer.reason)
           ELSE rejected(r, call, reason, answer.reason)

-----------------------------------------------------------------------------
\* Operations.

InitRuntime ==
    /\ identities = 1
    /\ runtimes = <<>>
    /\ plans = {}
    /\ handling = Idle
    /\ last = "none"
    /\ prepared = 0
    /\ executed = {}

\* next_dispatcher_identity: the counter never wraps, and 0 is no identity.
next_dispatcher_identity == identities # 0 /\ identities < MAX_IDENTITY

\* ToolRuntime::default and the dispatchers of the tests.
NewRuntime ==
    /\ next_dispatcher_identity
    /\ identities' = identities + 1
    /\ runtimes' = Append(runtimes, [identity |-> identities,
                                     tools |-> [n \in ToolNames |-> NoTool]])
    /\ UNCHANGED calls

\* validate: a reason where the policy has one, and it is not blank.
ValidDefinition(definition) ==
    definition.policy \in {"requires_approval", "always_reject"} => ~BlankText(definition.reason)

Registered(r, name) == runtimes[r].tools[name] # NoTool

register(r, name, definition) ==
    /\ handling = Idle
    /\ IF ValidDefinition(definition) /\ ~Registered(r, name)
       THEN runtimes' = [runtimes EXCEPT ![r].tools[name] = definition]
       ELSE UNCHANGED runtimes
    /\ UNCHANGED <<identities, calls>>

\* register_builtin_coding_capability: the whole pack, or nothing of it.
RegisterPack(r, pack) ==
    /\ handling = Idle
    /\ IF \E name \in DOMAIN pack : Registered(r, name)
       THEN UNCHANGED runtimes
       ELSE runtimes' = [runtimes EXCEPT ![r].tools =
                           [name \in ToolNames |-> IF name \in DOMAIN pack THEN pack[name]
                                                   ELSE @[name]]]
    /\ UNCHANGED <<identities, calls>>

\* The plan for a call; answer is what the handler's classify returns.
PlanFor(r, call, answer) ==
    LET definition == runtimes[r].tools[call.tool_name] IN
    CASE definition.policy = "none" -> rejected(r, call, <<"x">>, <<"x">>)
      [] definition.policy = "always_allow" -> ready(r, call)
      [] definition.policy = "requires_approval" ->
           requiring_approval(r, call, definition.reason, definition.reason)
      [] definition.policy = "call_dependent" -> classified(r, call, answer)
      [] definition.policy = "always_reject" ->
           rejected(r, call, bound_approval_reason(definition.reason), definition.reason)

prepare(r, call, answer) ==
    /\ handling = Idle
    /\ prepared < MaxPlans
    /\ plans' = plans \cup {[PlanFor(r, call, answer) EXCEPT !.answer = answer.kind]}
    /\ prepared' = prepared + 1
    /\ UNCHANGED <<registry, handling, last, executed>>

\* Mutant: any approval will do.
mutant_is_granted_for(authorization, call) == authorization # NotRequired

is_granted_for(authorization, call) == authorization = call.id

\* into_authorized_call: the dispatcher first, then the disposition.
into_authorized_call(r, plan, authorization) ==
    CASE plan.identity # runtimes[r].identity -> "invalid_prepared_tool_call"
      [] plan.identity = runtimes[r].identity /\ plan.disposition = "ready" -> "ok"
      [] plan.identity = runtimes[r].identity /\ plan.disposition = "requires_approval" ->
           IF is_granted_for(authorization, plan.call) THEN "ok" ELSE "approval_required"
      [] OTHER -> "tool_rejected"

\* The plan is consumed whatever comes of it.
execute_prepared(r, plan, authorization) ==
    LET verdict == into_authorized_call(r, plan, authorization)
        starts == verdict = "ok" /\ Registered(r, plan.call.tool_name)
    IN  /\ handling = Idle
        /\ plans' = plans \ {plan}
        /\ handling' = IF starts THEN [runtime |-> r, call |-> plan.call] ELSE Idle
        /\ last' = IF starts THEN last ELSE IF verdict = "ok" THEN "unknown_tool" ELSE verdict
        /\ executed' = IF starts
                       THEN executed \cup {[runtime |-> r, plan |-> plan,
                                            authorization |-> authorization]}
                       ELSE executed
        /\ UNCHANGED <<registry, prepared>>

\* normalize_dispatcher_output: a handler may not deny an approval itself.
normalize_dispatcher_output(code) ==
    IF code = "approval_denied" THEN "reserved_tool_error_code" ELSE code

HandlerReturns(code) ==
    /\ handling # Idle
    /\ handling' = Idle
    /\ last' = normalize_dispatcher_output(code)
    /\ UNCHANGED <<registry, plans, prepared, executed>>

-----------------------------------------------------------------------------
\* Properties.

NeedsNoApproval(plan) ==
    plan.policy = "always_allow" \/ (plan.policy = "call_dependent" /\ plan.answer = "allow")
NeedsApproval(plan) ==
    \/ plan.policy = "requires_approval"
    \/ plan.policy = "call_dependent" /\ plan.answer = "requires_approval"

\* A handler only ever runs a call that its own runtime prepared, once, and that
\* the policy of the tool lets run: always, because the handler allowed this call,
\* or because this very call was approved.  No plan of another runtime, no
\* approval of another call and no second use of a plan starts it.
ExecutedAsPrepared ==
    /\ \A e \in executed :
         /\ e.plan.owner = e.runtime
         /\ \/ NeedsNoApproval(e.plan)
            \/ NeedsApproval(e.plan) /\ e.authorization = e.plan.call.id
    /\ \A e, f \in executed : e.plan.serial = f.plan.serial => e = f
    /\ last # "approval_denied"

\* The reason of a plan fits the event it is written to; it is the reason that
\* was given, or the longest start of it that fits with the suffix; and a reason
\* that a handler gave for one call is never blank.
ReasonsAreBounded ==
    \A plan \in {p \in plans : p.disposition # "ready"} :
        LET size == MAX_APPROVAL_REASON_SERIALIZED_BYTES
            Short(n) == SubSeq(plan.source, 1, n) \o APPROVAL_REASON_TRUNCATED_SUFFIX
            fitting == {n \in 0 .. Len(plan.source) : serialized_json_string_bytes(Short(n)) <= size}
        IN  /\ serialized_json_string_bytes(plan.reason) <= size
            /\ plan.policy = "call_dependent" => ~BlankText(plan.reason)
            /\ IF serialized_json_string_bytes(plan.source) <= size
               THEN plan.reason = plan.source
               ELSE plan.reason \in {Short(Max(fitting)), SubSeq(plan.source, 1, Max(fitting))}
=============================================================================
