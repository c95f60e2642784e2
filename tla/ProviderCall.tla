---------------------------- MODULE ProviderCall ----------------------------
(***************************************************************************)
(* One call of a provider, from the manifest that offers an operation to   *)
(* the outcome of its execution: the manifest is compiled, routed and      *)
(* turned into a plan; an authorization request is resolved from facts     *)
(* observed at some instant; the executor checks plan and authorization,   *)
(* resolves endpoint and credential, lets the claim decide, enters the     *)
(* transport and classifies what comes back.                               *)
(*                                                                         *)
(* Every action is the code between two awaits.  The clock moves in the    *)
(* meantime, and may be set back.  The decision itself, the claim and the  *)
(* operation grant of a call are in ProviderExecution and here only refuse *)
(* or let pass.  Identifiers, digests, payloads and secrets are abstracted *)
(* to whether a check on them passes; "draft" is treated like "observe"    *)
(* and the two OpenAI protocols like each other wherever they occur.       *)
(***************************************************************************)
EXTENDS Integers, FiniteSets

CONSTANTS
    MaxTime,  \* bound on the clock
    Skew,     \* AUTH_CLOCK_SKEW_MS
    MaxBack   \* bound on how often the clock is set back

ASSUME CallAssumption == MaxTime \in Nat /\ Skew \in Nat /\ MaxBack \in Nat

VARIABLES
    now,      \* what a clock shows
    backs,
    pc,       \* where the call stands
    plan,     \* the compiled manifest, then the plan made from it
    request,  \* execution.authorization.request.v1
    at,       \* the caller's instant of execution
    created,  \* createdAt of the attempt
    started,  \* startedAt of the receipt
    port,     \* state.started of the port that wraps the transport
    answer,   \* what the transport returned
    entered,  \* ghost: the transport was entered
    result    \* what the caller got
callVars == <<now, backs, pc, plan, request, at, created, started, port, answer, entered, result>>
clocks == <<now, backs>>
times == <<at, created, started>>
effect == <<port, answer, entered>>

Time == 0..MaxTime
Never == MaxTime + 1
Unset == "none"

-----------------------------------------------------------------------------
(* Manifests and plans. *)

Manifests == [kind : {"model_api", "mcp_server", "domain_api"},
              protocol : {"openai", "anthropic", "mcp", "http.json"},
              mode : {"https", "mcp_streamable_http", "registered_local_launcher"},
              risk : {"observe", "internalWrite", "externalAction"},
              gate : {"never", "task", "action"},
              credentials : 0..2, \* credential references
              network : BOOLEAN,  \* has a network policy
              target : BOOLEAN,   \* has a target of its own
              status : {"available", "degraded"},
              from : {0, 1}, until : {1, Never}]

ModelProtocols == {"openai", "anthropic"}

TransportFits(m) ==
    /\ m.kind \in {"model_api", "domain_api"} => m.mode = "https"
    /\ m.kind = "mcp_server" => m.mode \in {"mcp_streamable_http", "registered_local_launcher"}
    /\ m.protocol = "mcp" <=> m.kind = "mcp_server"
    /\ m.protocol \in ModelProtocols => m.kind = "model_api"
    /\ m.protocol = "http.json" => m.kind = "domain_api"

OperationFits(m) ==
    /\ m.risk = "internalWrite" => m.gate # "never"
    /\ m.risk = "externalAction" => m.gate = "action"

Compiles(m) == TransportFits(m) /\ OperationFits(m) /\ m.until > m.from
ProviderReady(m, t) == m.status = "available" /\ m.from <= t /\ t <= m.until

\* What is asked of an operation: `known` to the catalog, the one that was
\* `routed`, with the `fields` of its protocol only, a model or tool the manifest
\* lists or another, a body in shape and size or not, a token limit or none.
Asks == [known : BOOLEAN, routed : BOOLEAN, fields : BOOLEAN,
         selection : {"listed", "other"}, body : {"fits", "malformed"},
         tokens : {"none", "within", "beyond"}]

Routed(m, a, t) == a.known /\ ProviderReady(m, t)
OfRoute(a) == a.routed
FieldsFit(a) == a.fields
TokensFit(a, required) == a.tokens = "within" \/ (a.tokens = "none" /\ ~required)
ModelAllowed(a) == a.selection = "listed"
MessagesFit(a) == a.body = "fits"
ArgumentsFit(a) == a.body = "fits"

CompilesOpenai(a) == ModelAllowed(a) /\ MessagesFit(a) /\ TokensFit(a, FALSE)
CompilesAnthropic(a) == ModelAllowed(a) /\ MessagesFit(a) /\ TokensFit(a, TRUE)
CompilesTool(a) == a.selection = "listed" /\ ArgumentsFit(a)
CompilesDomain(m, a) == m.target /\ ArgumentsFit(a)

Plannable(m, a) ==
    /\ OfRoute(a) /\ FieldsFit(a)
    /\ \/ m.protocol = "openai" /\ CompilesOpenai(a)
       \/ m.protocol = "anthropic" /\ CompilesAnthropic(a)
       \/ m.protocol = "mcp" /\ CompilesTool(a)
       \/ m.protocol = "http.json" /\ CompilesDomain(m, a)

\* What compileProviderAdapterPlan keeps of a route and of what was asked.
PlanOf(m, a) == [kind |-> m.kind, protocol |-> m.protocol, mode |-> m.mode, risk |-> m.risk,
                 gate |-> m.gate, credentials |-> m.credentials, network |-> m.network,
                 selection |-> a.selection]

ModelExecutes(p) == /\ p.protocol \in ModelProtocols /\ p.kind = "model_api" /\ p.mode = "https"
                    /\ p.risk = "observe" /\ p.credentials = 1
McpExecutes(p) == /\ p.protocol = "mcp" /\ p.kind = "mcp_server" /\ p.mode = "mcp_streamable_http"
                  /\ p.risk = "observe" /\ p.credentials <= 1 /\ p.network
Executes(p) == ModelExecutes(p) \/ McpExecutes(p)

-----------------------------------------------------------------------------
(* Authorization.  A request says what is required and which facts were     *)
(* found; a requirement that is not made is one that is met.                *)

Authorities == {"authorityGrant", "delegation"}
Requests == [actor : {"human", "agent"},
             exact : BOOLEAN,        \* action and target are those of the plan
             gateRequired : BOOLEAN, \* requirements.humanGateRequired
             status : [Authorities -> {"active", "pending", "revoked"}],
             expires : [Authorities -> {2, Never}],
             capability : {"met", "missing"}, \* required capabilities and evidence
             policy : {"met", "missing", "rejected"},
             gate : {"absent", "requested", "approved", "rejected"},
             observed : Time]

\* A human acts on a grant, an agent also on a delegation.
Counted(r) == IF r.actor = "agent" THEN Authorities ELSE {"authorityGrant"}

Denied(r) ==
    \/ \E a \in Counted(r) : r.status[a] = "revoked"
    \/ \E a \in Counted(r) : r.status[a] = "active" /\ r.expires[a] <= r.observed
    \/ r.policy = "rejected"
    \/ r.gateRequired /\ r.gate = "rejected"
NeedsReview(r) == r.gateRequired /\ r.gate \in {"absent", "requested"}
Unclear(r) ==
    \/ \E a \in Counted(r) : r.status[a] = "pending"
    \/ r.capability = "missing"
    \/ r.policy = "missing"

Decision(r) == CASE Denied(r) -> "deny"
                 [] ~Denied(r) /\ NeedsReview(r) -> "needs_human_review"
                 [] ~Denied(r) /\ ~NeedsReview(r) /\ Unclear(r) -> "unknown"
                 [] OTHER -> "allow"

\* Mutation: the delegation of an agent is left out.
GrantValidUntil(r) == r.expires["authorityGrant"]

\* The first expiry of an authority that counts, among those that have one.
ValidUntil(r) == CHOOSE t \in {r.expires[a] : a \in Counted(r)} :
                    \A a \in Counted(r) : t <= r.expires[a]

Apart(s, t) == IF s > t THEN s - t ELSE t - s

\* The request is about this plan.
Binds(p, r) == r.exact /\ (r.gateRequired <=> p.gate # "never")

Authorizes(p, r, t) == /\ Binds(p, r)
                       /\ Apart(t, r.observed) <= Skew
                       /\ Decision(r) = "allow"
                       /\ t < ValidUntil(r)

-----------------------------------------------------------------------------
(* Answers.  An HTTP response counts whatever its status, if it is JSON of    *)
(* bounded size; a tool's result, if it is of the pinned protocol version.    *)

HttpAnswers == {"status_2xx", "other_status", "no_json"}
JsonResponse(a) == a \in {"status_2xx", "other_status"}
ModelReceipt(a) == IF a = "status_2xx" THEN "success" ELSE "provider_error"

ToolAnswers == {"tool_result", "tool_isError", "other_version"}
ToolResponse(a) == a \in {"tool_result", "tool_isError"}
McpReceipt(a) == IF a = "tool_isError" THEN "tool_error" ELSE "success"

KnownOutcome(receipt) == IF receipt = "success" THEN "success" ELSE "known_failure"

-----------------------------------------------------------------------------
(* The call. *)

CallInit ==
    /\ now = 0 /\ backs = 0
    /\ pc = "manifest"
    /\ plan = Unset /\ request = Unset
    /\ at = Unset /\ created = Unset /\ started = Unset
    /\ port = FALSE /\ answer = Unset /\ entered = FALSE
    /\ result = Unset

Call == <<plan, request, times, effect, result>>
Proceed(step) == pc' = step /\ UNCHANGED clocks
Ends(r) == Proceed("ended") /\ result' = r

\* An error before the attempt begins is the caller's; what else it had is of
\* no interest.
Refuse == Ends("refused") /\ plan' = Unset /\ request' = Unset /\ UNCHANGED <<times, effect>>
\* An error of the executor goes through the catch of the attempt.
Throw == Proceed("caught") /\ UNCHANGED Call

Compile == /\ pc = "manifest"
           /\ \E m \in Manifests : Compiles(m) /\ plan' = m
           /\ Proceed("compiled")
           /\ UNCHANGED <<request, times, effect, result>>

\* resolveProviderRuntimeRoute and compileProviderAdapterPlan at one instant.
Plan ==
    /\ pc = "compiled"
    /\ \E a \in Asks :
          IF Routed(plan, a, now) /\ Plannable(plan, a)
          THEN /\ plan' = PlanOf(plan, a)
               /\ Proceed("planned")
               /\ UNCHANGED <<request, times, effect, result>>
          ELSE Refuse

\* A plan of any other kind is refused before its authorization is read.
Unsupported == pc = "planned" /\ ~Executes(plan) /\ Refuse

Observe == /\ pc = "planned" /\ Executes(plan)
           /\ \E r \in Requests : r.observed = now /\ request' = r
           /\ Proceed("observed")
           /\ UNCHANGED <<plan, times, effect, result>>

\* The attempt was created by the caller now, or is created for the instant `at`.
BeginAttempt ==
    /\ pc = "observed"
    /\ \E t \in {request.observed, now} :
          IF Authorizes(plan, request, t)
          THEN /\ at' = t
               /\ created' \in {t, now}
               /\ Proceed("endpoint")
               /\ UNCHANGED <<plan, request, started, effect, result>>
          ELSE Refuse

\* The clock is read before the wrapped port asks for its claim.
Started == /\ started' = now
           /\ Proceed("claim")
           /\ UNCHANGED <<plan, request, at, created, effect, result>>

\* Each resolver may know nothing, something else, or something not approved.
ResolveModelEndpoint ==
    /\ pc = "endpoint" /\ ModelExecutes(plan)
    /\ \/ Proceed("credential") /\ UNCHANGED Call
       \/ Throw

ResolveMcpEndpoint ==
    /\ pc = "endpoint" /\ McpExecutes(plan)
    /\ \/ plan.credentials = 0 /\ Started
       \/ plan.credentials = 1 /\ Proceed("credential") /\ UNCHANGED Call
       \/ Throw

ResolveModelCredential ==
    /\ pc = "credential" /\ ModelExecutes(plan)
    /\ \E ready \in BOOLEAN, until \in {1, Never} :
          IF ready /\ until > at
          THEN Proceed("grant") /\ UNCHANGED Call
          ELSE Throw

\* A bearer credential has no expiry.
ResolveMcpCredential ==
    /\ pc = "credential" /\ McpExecutes(plan)
    /\ (Started \/ Throw)

\* Only the model executor knows operation grants.
OperationGrant ==
    /\ pc = "grant"
    /\ (Started \/ Throw)

ClaimRefused == pc = "claim" /\ Throw

\* Mutation: the port is not marked as entered.
EnterUnmarked ==
    /\ pc = "claim"
    /\ entered' = TRUE
    /\ Proceed("sent")
    /\ UNCHANGED <<plan, request, times, port, answer, result>>
Enter ==
    /\ pc = "claim"
    /\ port' = TRUE /\ entered' = TRUE
    /\ Proceed("sent")
    /\ UNCHANGED <<plan, request, times, answer, result>>

\* The transport returns something or throws.
TransportAnswers == /\ pc = "sent"
          /\ answer' \in (IF ModelExecutes(plan) THEN HttpAnswers ELSE ToolAnswers) \cup {"exception"}
          /\ Proceed("answered")
          /\ UNCHANGED <<plan, request, times, port, entered, result>>

\* completedAt, and the instant of an outcome: none may end before its attempt was
\* created.
Ordered == now >= started
Dated == now >= created

ReturnModel ==
    /\ pc = "answered" /\ ModelExecutes(plan)
    /\ IF Ordered /\ JsonResponse(answer) /\ Dated
       THEN /\ Ends(KnownOutcome(ModelReceipt(answer)))
            /\ UNCHANGED <<plan, request, times, effect>>
       ELSE Throw

ReturnMcp ==
    /\ pc = "answered" /\ McpExecutes(plan)
    /\ IF Ordered /\ ToolResponse(answer) /\ Dated
       THEN /\ Ends(KnownOutcome(McpReceipt(answer)))
            /\ UNCHANGED <<plan, request, times, effect>>
       ELSE Throw

\* Building the uncertain outcome may fail like building a known one: then the
\* caller of an entered transport gets the plain error.
Catch == /\ pc = "caught"
         /\ Ends(CASE ~port -> "refused"
                   [] port /\ Dated -> "uncertain"
                   [] port /\ ~Dated -> "lost")
         /\ UNCHANGED <<plan, request, times, effect>>

Tick == /\ pc # "ended" /\ now < MaxTime
        /\ now' = now + 1
        /\ UNCHANGED <<backs, pc, Call>>
ClockSetBack == /\ pc # "ended" /\ now > 0 /\ backs < MaxBack
                /\ now' = now - 1 /\ backs' = backs + 1
                /\ UNCHANGED <<pc, Call>>

CallNext == \/ Compile \/ Plan \/ Unsupported \/ Observe \/ BeginAttempt
        \/ ResolveModelEndpoint \/ ResolveModelCredential \/ OperationGrant
        \/ ResolveMcpEndpoint \/ ResolveMcpCredential
        \/ ClaimRefused \/ Enter
        \/ TransportAnswers \/ ReturnModel \/ ReturnMcp \/ Catch
        \/ Tick \/ ClockSetBack

CallSpec == CallInit /\ [][CallNext]_callVars

-----------------------------------------------------------------------------
(* Properties. *)

\* What the executor checked in pieces, at different instants, adds up: when the
\* transport was entered, the plan and its authorization were about one operation
\* and a model or tool its manifest lists, a gate the operation asks for had been
\* approved, and every authority the actor acts on was active when observed and
\* had not expired at the instant of execution (assertAuthorization).
EffectWasAllowed ==
    entered =>
        /\ plan.gate # "never" => request.gate = "approved"
        /\ plan.selection = "listed"
        /\ \A a \in Authorities : (a = "delegation" => request.actor = "agent") =>
              request.status[a] = "active" /\ request.expires[a] > at
        /\ request.capability = "met" /\ request.policy = "met"
        /\ request.exact
        /\ Apart(at, request.observed) <= Skew

\* What the caller is told bounds what happened (executeModelProviderAttempt and
\* its MCP twin): a plain error means that nothing was sent, a known outcome is
\* what the provider answered, and everything else after the transport was
\* entered is uncertain.  Only a clock that was set back behind the creation of
\* the attempt takes an outcome away, and only one that was set back turns a
\* proper answer into an uncertain one.
ResultTellsTheEffect ==
    /\ result = "refused" => ~entered
    /\ result = "success" => entered /\ answer \in {"status_2xx", "tool_result"}
    /\ result = "known_failure" => entered /\ answer \in {"other_status", "tool_isError"}
    /\ result = "uncertain" =>
          entered /\ (answer \in {"no_json", "other_version", "exception"} \/ backs > 0)
    /\ result = "lost" => entered /\ backs > 0

-----------------------------------------------------------------------------
(* The inductive invariant. *)

Before == {"manifest", "compiled", "planned", "observed"}
Resolving == {"endpoint", "credential", "grant", "claim"}
Sending == {"sent", "answered"}

\* What BeginAttempt has established and nothing takes away.
Allowed == /\ plan.selection = "listed"
           /\ request \in Requests
           /\ Authorizes(plan, request, at)

\* Why an answer does not count, if the clock is not to blame.
Unusable == answer \in {"no_json", "other_version", "exception"} \/ backs > 0

StageInv ==
    /\ pc \in Before \cup Resolving \cup Sending \cup {"caught", "ended"}
    /\ port = entered /\ entered \in BOOLEAN
    /\ pc \in Before \cup Resolving => ~entered
    /\ pc \in Sending => entered
    /\ pc \in {"planned", "observed"} /\ Executes(plan) => plan.selection = "listed"
    /\ pc = "observed" => request \in Requests /\ Executes(plan)
    /\ pc \in Resolving \cup Sending \cup {"caught"} \/ entered => Allowed

\* The clock goes forward as long as nobody sets it back.
ClockInv ==
    /\ now \in Time /\ backs \in Nat
    /\ backs = 0 /\ pc = "observed" => request.observed <= now
    /\ pc \in Resolving \cup Sending \cup {"caught"} \/ entered => at \in Time
    /\ pc \in Resolving \cup Sending \cup {"caught"} =>
          created \in Time /\ (backs = 0 => created <= now)
    /\ pc \in {"claim"} \cup Sending =>
          started \in Time /\ (backs = 0 => started <= now)

OutcomeInv ==
    /\ pc # "ended" => result = Unset
    /\ pc = "answered" =>
          answer \in (IF ModelExecutes(plan) THEN HttpAnswers ELSE ToolAnswers) \cup {"exception"}
    /\ pc = "caught" /\ entered => Unusable
    /\ ResultTellsTheEffect

WholeCallInv == StageInv /\ ClockInv /\ OutcomeInv

=============================================================================
