------------------------- MODULE ProviderObservation -------------------------
(***************************************************************************)
(* S5: bindings of approved public targets and the read-only observations  *)
(* made of them.  An observation is requested in the event log, fetched    *)
(* hop by hop, recorded and announced; the application goes on with other  *)
(* calls at every await in between, and may die.  An id may be given by    *)
(* the caller or made up from the clock and the number of observations.    *)
(*                                                                         *)
(* A binding stands for its Workspace, adapter, contract and action too: a *)
(* call from another Workspace, an adapter or a method that do not match   *)
(* are refused before anything changes, as are calls after the contract    *)
(* expired.  Headers and bodies are left out; status codes are the four    *)
(* classes the transport tells apart.  Of an announcement only its id is   *)
(* kept: that the store refuses one whose digest an overlapping call used  *)
(* for other redirects, after the observation was saved, is left out.      *)
(***************************************************************************)
EXTENDS Integers, FiniteSets

CONSTANTS
    Methods,       \* methods the adapter's action declares, of GET and HEAD
    Calls,         \* calls of observeProvider that may overlap
    Names,         \* observation ids a caller may give
    BindingIds,    \* ids of bindings, given or made from the target
    Urls,          \* external https targets
    Origin,        \* origin of each of them
    Provider,      \* provider whose host suffix an origin has, or None
    ExpiresAt,     \* expiry of the contract of each provider
    MaxRedirects,
    MaxTime,       \* bound on the clock
    MaxRequests,   \* bound on the observations requested
    None           \* nothing given

ASSUME ObservationAssumption ==
    /\ \A u \in Urls : Origin[u] \in DOMAIN Provider
    /\ \A o \in DOMAIN Provider : Provider[o] \in DOMAIN ExpiresAt \cup {None}
    /\ MaxRedirects \in Nat /\ MaxTime \in Nat
    /\ None # "ok"

VARIABLES
    now,        \* what the clock shows
    bound,      \* providerTargetBinding projections
    requested,  \* provider.observation_requested events
    observed,   \* providerObservation projections
    announced,  \* ids with provider.observation_recorded events
    call,       \* where each call stands
    settled     \* ghost: observations given to a caller while nobody else worked on them
vars == <<now, bound, requested, observed, announced, call, settled>>

Unsafe == "unsafe"  \* no Location, or one that is not an external https URL

Idle == [pc |-> "idle"]

\* What the transport returns.
Bounded(state, code, answer, final, hops) ==
    [state |-> state, code |-> code, status |-> answer, at |-> now,
     final |-> final, hops |-> hops]

\* The evidence made of it.
Observation(c) ==
    LET seen == call[c].result IN
    [id |-> call[c].id, binding |-> call[c].binding, method |-> call[c].method,
     state |-> seen.state, code |-> seen.code, status |-> seen.status, at |-> seen.at,
     final |-> seen.final, hops |-> seen.hops]

Under(id) == {c \in Calls : call[c].pc # "idle" /\ call[c].id = id}

Init ==
    /\ now = 0
    /\ bound = {} /\ requested = {} /\ observed = {} /\ announced = {}
    /\ call = [c \in Calls |-> Idle]
    /\ settled = {}

-----------------------------------------------------------------------------
(* Targets. *)

\* The host is one of the provider's public deployments.
Classified(url) == Provider[Origin[url]] # None

ContractHolds(url) == now < ExpiresAt[Provider[Origin[url]]]

Allowed(url) == Classified(url) /\ ContractHolds(url)

\* An id that is taken returns its binding, or refuses another target.
BindProviderTarget(id, url) ==
    /\ Allowed(url)
    /\ \A b \in bound : b.id # id
    /\ bound' = bound \cup {[id |-> id, url |-> url]}
    /\ UNCHANGED <<now, requested, observed, announced, call, settled>>

-----------------------------------------------------------------------------
(* Observations. *)

ObservationId(b, m, name) ==
    IF name = None THEN <<b.id, m, now, Cardinality(observed)>> ELSE name

Intent(o) == [id |-> o.id, binding |-> o.binding, method |-> o.method]

\* Mutation: a failed observation is tried again.
AnsweredIfSucceeded(id) == {o \in observed : o.id = id /\ o.state = "succeeded"}

Existing(id) == {o \in observed : o.id = id}

SameIntent(o, b, m) == o.binding = b /\ o.method = m

\* An observation that exists is returned to whoever asks for the same.
Replay(b, m, name) ==
    /\ Allowed(b.url)
    /\ \E o \in Existing(ObservationId(b, m, name)) :
         /\ SameIntent(o, b, m)
         /\ settled' = IF Under(o.id) = {} THEN settled \cup {o} ELSE settled
    /\ UNCHANGED <<now, bound, requested, observed, announced, call>>

\* Mutation: the store keeps the first event of a key and compares nothing.
AnyRequest(r) == TRUE

\* The store accepts an event again only if it is the same.
SameRequest(r) == \A q \in requested : q.id = r.id => q = r

\* Up to the first await: the request is logged and the first fetch is sent.
Request(c, b, m, name) ==
    LET r == [id |-> ObservationId(b, m, name), binding |-> b, method |-> m]
    IN  /\ call[c].pc = "idle"
        /\ Allowed(b.url)
        /\ Existing(r.id) = {}
        /\ SameRequest(r)
        /\ requested' = requested \cup {r}
        /\ Cardinality(requested') <= MaxRequests
        /\ call' = [call EXCEPT ![c] =
                      [pc |-> "fetching", id |-> r.id, binding |-> b, method |-> m,
                       url |-> b.url, hops |-> 0]]
        /\ UNCHANGED <<now, bound, observed, announced, settled>>

\* The fetch is aborted by its timer or fails: "timeout" or "network_failure".
Fail(c) ==
    /\ call[c].pc = "fetching"
    /\ call' = [call EXCEPT ![c] =
                  [pc |-> "bounded", id |-> @.id, binding |-> @.binding, method |-> @.method,
                   result |-> Bounded("failed", "unanswered", None, @.url, @.hops)]]
    /\ UNCHANGED <<now, bound, requested, observed, announced, settled>>

Answers ==
    [kind : {"invalid", "ok", "error"}, to : {None}]
      \cup [kind : {"redirect"}, to : Urls \cup {Unsafe}]

\* The response arrives; its body is cancelled, without a time limit.
Respond(c, a) ==
    /\ call[c].pc = "fetching"
    /\ call' = [call EXCEPT ![c] =
                  [pc |-> "cancelling", id |-> @.id, binding |-> @.binding,
                   method |-> @.method, url |-> @.url, hops |-> @.hops, answer |-> a]]
    /\ UNCHANGED <<now, bound, requested, observed, announced, settled>>

External(url) == url # Unsafe

\* Mutation: a redirect may go to any deployment of the provider.
OfProvider(c, url) ==
    External(url) /\ Provider[Origin[url]] = Provider[Origin[call[c].binding.url]]

OnApprovedOrigin(c, url) ==
    External(url) /\ Origin[url] = Origin[call[c].binding.url]

\* A redirect within the approved origin is fetched next.
Follow(c) ==
    /\ call[c].pc = "cancelling" /\ call[c].answer.kind = "redirect"
    /\ call[c].hops < MaxRedirects
    /\ OnApprovedOrigin(c, call[c].answer.to)
    /\ call' = [call EXCEPT ![c] =
                  [pc |-> "fetching", id |-> @.id, binding |-> @.binding, method |-> @.method,
                   url |-> @.answer.to, hops |-> @.hops + 1]]
    /\ UNCHANGED <<now, bound, requested, observed, announced, settled>>

\* What the answer makes of the observation.  A refused redirect is an error of
\* the transport: the application forgets the hops made so far.
Outcome(c) ==
    LET a == call[c].answer
        here(state, code) == Bounded(state, code, a.kind, call[c].url, call[c].hops)
    IN  CASE a.kind = "invalid" -> [here("failed", "invalid_response") EXCEPT !.status = None]
          [] a.kind = "ok" -> here("succeeded", None)
          [] a.kind = "error" -> here("failed", "http_failure")
          [] a.kind = "redirect" /\ call[c].hops >= MaxRedirects -> here("blocked", "redirect_limit")
          [] OTHER -> Bounded("blocked", "redirect_blocked", None, call[c].binding.url, 0)

Conclude(c) ==
    /\ call[c].pc = "cancelling"
    /\ call[c].answer.kind = "redirect"
         => call[c].hops >= MaxRedirects \/ ~OnApprovedOrigin(c, call[c].answer.to)
    /\ call' = [call EXCEPT ![c] =
                  [pc |-> "bounded", id |-> @.id, binding |-> @.binding, method |-> @.method,
                   result |-> Outcome(c)]]
    /\ UNCHANGED <<now, bound, requested, observed, announced, settled>>

\* The observation is saved over whatever has its id.
Save(o) == observed' = {p \in observed : p.id # o.id} \cup {o}

\* Saved and announced, then returned to the caller.
Record(c) ==
    /\ call[c].pc = "bounded"
    /\ LET o == Observation(c)
       IN  /\ Save(o)
           /\ announced' = announced \cup {o.id}
           /\ settled' = IF Under(o.id) = {c} THEN settled \cup {o} ELSE settled
    /\ call' = [call EXCEPT ![c] = Idle]
    /\ UNCHANGED <<now, bound, requested>>

\* The process dies at an await and is started again: calls are not resumed.
Restart ==
    /\ \E c \in Calls : call[c].pc # "idle"
    /\ call' = [c \in Calls |-> Idle]
    /\ UNCHANGED <<now, bound, requested, observed, announced, settled>>

\* It dies after saving an observation and before announcing it.
RestartUnannounced(c) ==
    /\ call[c].pc = "bounded"
    /\ Save(Observation(c))
    /\ call' = [d \in Calls |-> Idle]
    /\ UNCHANGED <<now, bound, requested, announced, settled>>

Tick ==
    /\ now < MaxTime
    /\ now' = now + 1
    /\ UNCHANGED <<bound, requested, observed, announced, call, settled>>

Next ==
    \/ \E id \in BindingIds, u \in Urls : BindProviderTarget(id, u)
    \/ \E b \in bound, m \in Methods, n \in Names \cup {None} :
         \/ Replay(b, m, n)
         \/ \E c \in Calls : Request(c, b, m, n)
    \/ \E c \in Calls :
         \/ Fail(c)
         \/ \E a \in Answers : Respond(c, a)
         \/ Follow(c)
         \/ Conclude(c)
         \/ Record(c)
         \/ RestartUnannounced(c)
    \/ Restart
    \/ Tick

Spec == Init /\ [][Next]_vars

-----------------------------------------------------------------------------
(* Properties. *)

\* Whatever overlaps, fails or restarts, an id stands for one intent: its
\* request, the calls working on it and its evidence agree on the binding and the
\* method (observeProvider keeps calls with another intent out by the key of its
\* first event, before there is an observation to compare with; S5 acceptance
\* matrix, row E5).
OneIntentPerObservation ==
    /\ \A q, r \in requested : q.id = r.id => q = r
    /\ \A c \in Calls : call[c].pc # "idle" => Intent(call[c]) \in requested
    /\ \A o \in observed : Intent(o) \in requested
    /\ announced \subseteq {o.id : o \in observed}

\* Evidence handed to a caller while no other call worked under its id is final:
\* nothing is fetched again for it, failed or not, by later calls or after a
\* restart, so it stays what the id returns (rows E4, E6 and the restart rows).
GivenEvidenceIsFinal ==
    /\ settled \subseteq observed
    /\ \A o \in settled : Under(o.id) = {}

\* Every url a call fetches is of the origin that was bound, however often it is
\* redirected, and so is what the evidence names; only an answer makes a success
\* (validateRedirect and the loop of observe; rows C9 to C11).
EvidenceIsOfItsTarget ==
    /\ \A c \in Calls : call[c].pc \in {"fetching", "cancelling"} =>
         /\ Origin[call[c].url] = Origin[call[c].binding.url]
         /\ call[c].hops <= MaxRedirects
    /\ \A o \in observed :
         /\ Origin[o.final] = Origin[o.binding.url]
         /\ o.state = "succeeded" <=> o.status = "ok"

-----------------------------------------------------------------------------
(* The inductive invariant: what a call knows at each of its steps. *)

CallHolds(c) ==
    LET s == call[c] IN
    /\ s.pc \in {"idle", "fetching", "cancelling", "bounded"}
    /\ s.pc \in {"fetching", "cancelling"} =>
         /\ s.url \in Urls /\ Origin[s.url] = Origin[s.binding.url]
         /\ s.hops \in 0..MaxRedirects
    /\ s.pc = "cancelling" => s.answer \in Answers
    /\ s.pc = "bounded" =>
         /\ Origin[s.result.final] = Origin[s.binding.url]
         /\ s.result.state = "succeeded" <=> s.result.status = "ok"

ObservationInv ==
    /\ \A b \in bound : b.url \in Urls
    /\ call = [c \in Calls |-> call[c]]
    /\ \A c \in Calls : CallHolds(c)
    /\ OneIntentPerObservation
    /\ GivenEvidenceIsFinal
    /\ EvidenceIsOfItsTarget
=============================================================================
