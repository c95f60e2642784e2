------------------------ MODULE CollaborationSync ------------------------
(***************************************************************************)
(* S7: the optional shared mirror of one workspace.  Every instance        *)
(* summarises its own records, puts each changed summary into an envelope  *)
(* of its chain and pushes the envelopes that were not acknowledged yet to *)
(* the mirror; it pulls what the others have published into a copy of its  *)
(* own.  Between two awaits an instance runs alone in its process, but     *)
(* pushes and pulls overlap, requests and answers are lost or come after   *)
(* the caller has given up, and the process can die between two saves.     *)
(*                                                                         *)
(* An envelope's id is its cursor and its record; its digest stands for    *)
(* its content.  Roles, wording and the cursor's display status are left   *)
(* out; the mirror keeps running.                                          *)
(***************************************************************************)
EXTENDS Integers, FiniteSets, Sequences, Functions

CONSTANTS Instances,  \* application instances that share the workspace
          Records,    \* summaries of an instance, numbered as they are listed
          Payloads,   \* contents of a summary
          Pushes, Pulls, \* calls of pushPendingSync and pullSharedMirror
          By,         \* the instance a call belongs to
          Nothing,    \* no payload, digest, envelope
          MaxBatch,   \* envelopes that fit the request size limit
          MaxChanges, \* bound: changes of an instance's summaries
          MaxCrashes  \* bound: crashes of all instances

ASSUME SyncAssumption ==
    /\ Records \subseteq Nat /\ IsFiniteSet(Records)
    /\ By \in [Pushes \cup Pulls -> Instances] /\ Pushes \cap Pulls = {}
    /\ MaxChanges \in [Instances -> Nat]
    /\ {MaxBatch, MaxCrashes} \subseteq Nat

VARIABLES
    data,     \* payload of each summary, as the other services have it
    enabled,  \* syncConfiguration is enabled
    env,      \* syncEnvelope projections
    produced, \* syncCursor: lastProducedCursor,
    acked,    \*   lastAcknowledgedCursor
    last,     \*   and lastEnvelopeDigest
    making,   \* the envelope saved and not yet in the cursor (memory)
    push,     \* pushes: where the call is and the envelopes it carries
    pull,     \* pulls: where the call is and the mirror state it brings
    copy,     \* syncRemoteMirror: what an instance keeps of another's chain
    chain,    \* the mirror: envelopes accepted of each source, in order,
    shown,    \*   and the one it shows for each record
    changes, crashes,
    \* ghost
    torn      \* instances that crashed between an envelope and its cursor

source == <<env, produced, acked, last>>
mirror == <<chain, shown>>
bounds == <<changes, crashes, torn>>
syncVars == <<data, enabled, source, making, push, pull, copy, mirror, bounds>>

Digest(e) == <<e.cursor, e.rec, e.rev, e.payload>>
Digests == (Nat \X Records \X Nat \X Payloads) \cup {Nothing}
Envelopes == [cursor : Nat, rec : Records, rev : Nat, payload : Payloads, prev : Digests]
Views == [cursor : Nat, payload : [Records -> Payloads \cup {Nothing}]]

ASSUME NothingAssumption == Nothing \notin Envelopes

TypeOK ==
    /\ data \in [Instances -> [Records -> Payloads]]
    /\ env \in [Instances -> SUBSET Envelopes]
    /\ {produced, acked} \subseteq [Instances -> Nat]
    /\ last \in [Instances -> Digests]
    /\ making \in [Instances -> Envelopes \cup {Nothing}]
    /\ push \in [Pushes -> [at : {"idle", "compiling", "sent", "late", "accepted", "rejected"},
                            batch : Seq(Envelopes)]]
    /\ pull \in [Pulls -> [at : {"idle", "asked", "answered"}, view : [Instances -> Views]]]
    /\ copy \in [Instances -> [Instances -> Views]]
    /\ chain \in [Instances -> Seq(Envelopes)]
    /\ shown \in [Instances -> [Records -> Envelopes \cup {Nothing}]]

--------------------------------------------------------------------------
NoPush == [at |-> "idle", batch |-> <<>>]
Empty == [cursor |-> 0, payload |-> [r \in Records |-> Nothing]]
NoPull == [at |-> "idle", view |-> [i \in Instances |-> Empty]]

\* The instance's process is in the middle of a compile, which never awaits.
Compiling(i) == \E k \in Pushes : By[k] = i /\ push[k].at = "compiling"

\* latestByRecord: of the envelopes sorted by cursor the last one wins.
\* Mutation: the first one wins.
OldestOf(i, r) ==
    LET own == {e \in env[i] : e.rec = r}
    IN  IF own = {} THEN Nothing ELSE CHOOSE e \in own : \A d \in own : e.cursor <= d.cursor
LatestOf(i, r) ==
    LET own == {e \in env[i] : e.rec = r}
    IN  IF own = {} THEN Nothing ELSE CHOOSE e \in own : \A d \in own : d.cursor <= e.cursor

\* Records whose summary differs from their latest envelope
Changed(i) == {r \in Records : LET e == LatestOf(i, r)
                               IN  e = Nothing \/ e.payload # data[i][r]}

\* Envelopes beyond the acknowledged cursor, sorted by cursor; envelopes of
\* one cursor come in the order of a cache or of hashed ids, hence in any.
Pending(i) == {e \in env[i] : e.cursor > acked[i]}
Batches(i) == {s \in [1..Cardinality(Pending(i)) -> Pending(i)] :
                  /\ IsInjective(s)
                  /\ \A m, n \in DOMAIN s : m < n => s[m].cursor <= s[n].cursor}

--------------------------------------------------------------------------
SyncInit ==
    /\ data \in [Instances -> [Records -> Payloads]]
    /\ \A i, j \in Instances : data[i] = data[j]
    /\ \A r, q \in Records, i \in Instances : data[i][r] = data[i][q]
    /\ enabled = [i \in Instances |-> FALSE]
    /\ env = [i \in Instances |-> {}]
    /\ produced = [i \in Instances |-> 0] /\ acked = produced
    /\ last = [i \in Instances |-> Nothing]
    /\ making = [i \in Instances |-> Nothing]
    /\ push = [k \in Pushes |-> NoPush]
    /\ pull = [k \in Pulls |-> NoPull]
    /\ copy = [i \in Instances |-> [j \in Instances |-> Empty]]
    /\ chain = [i \in Instances |-> <<>>]
    /\ shown = [i \in Instances |-> [r \in Records |-> Nothing]]
    /\ changes = [i \in Instances |-> 0] /\ crashes = 0 /\ torn = {}

\* Missions, gates, workers and so on move on and with them the summaries.
Change(i, r, p) ==
    /\ ~Compiling(i) /\ changes[i] < MaxChanges[i] /\ data[i][r] # p
    /\ data' = [data EXCEPT ![i][r] = p]
    /\ changes' = [changes EXCEPT ![i] = @ + 1]
    /\ UNCHANGED <<enabled, source, making, push, pull, copy, mirror, crashes, torn>>

ConfigureSync(i) ==
    /\ ~Compiling(i)
    /\ enabled' = [enabled EXCEPT ![i] = ~@]
    /\ UNCHANGED <<data, source, making, push, pull, copy, mirror, bounds>>

--------------------------------------------------------------------------
(* pushPendingSync *)

PushBegins(k) ==
    /\ push[k].at = "idle" /\ enabled[By[k]] /\ ~Compiling(By[k])
    /\ push' = [push EXCEPT ![k].at = "compiling"]
    /\ UNCHANGED <<data, enabled, source, making, pull, copy, mirror, bounds>>

NewEnvelope(i, r) ==
    LET previous == LatestOf(i, r) IN
    [cursor |-> produced[i] + 1, rec |-> r,
     rev |-> IF previous = Nothing THEN 1 ELSE previous.rev + 1,
     payload |-> data[i][r], prev |-> last[i]]

\* compilePendingSyncEnvelopes: one envelope for each changed record, in the
\* order of the list.  Saving replaces what has the same id.
EnvelopeSaved(k) ==
    LET i == By[k] IN
    /\ push[k].at = "compiling" /\ making[i] = Nothing
    /\ \E r \in Changed(i) :
          LET e == NewEnvelope(i, r) IN
          /\ \A q \in Changed(i) : r <= q
          /\ env' = [env EXCEPT ![i] =
                        {d \in @ : d.cursor # e.cursor \/ d.rec # e.rec} \cup {e}]
          /\ making' = [making EXCEPT ![i] = e]
    /\ UNCHANGED <<data, enabled, produced, acked, last, push, pull, copy, mirror, bounds>>

\* What createSyncCursor asks of a cursor before it is saved
CursorFits(p, a, digest) == a <= p /\ (p = 0 <=> digest = Nothing)

CursorSaved(k) ==
    LET i == By[k] IN
    /\ push[k].at = "compiling" /\ making[i] # Nothing
    /\ CursorFits(making[i].cursor, acked[i], Digest(making[i]))
    /\ produced' = [produced EXCEPT ![i] = making[i].cursor]
    /\ last' = [last EXCEPT ![i] = Digest(making[i])]
    /\ making' = [making EXCEPT ![i] = Nothing]
    /\ UNCHANGED <<data, enabled, env, acked, push, pull, copy, mirror, bounds>>

\* Nothing pending sends nothing; too much of it is refused by the transport.
Sent(k) ==
    LET i == By[k] IN
    /\ push[k].at = "compiling" /\ making[i] = Nothing /\ Changed(i) = {}
    /\ \E s \in Batches(i) :
          push' = [push EXCEPT ![k] =
                      IF s = <<>> \/ Len(s) > MaxBatch THEN NoPush
                      ELSE [at |-> "sent", batch |-> s]]
    /\ UNCHANGED <<data, enabled, source, making, pull, copy, mirror, bounds>>

--------------------------------------------------------------------------
(* ProjectOwnedSyncMirror.appendEnvelopes *)

\* An envelope has its instance, cursor and record for an id.  One the chain
\* does not have is accepted when it has the next cursor and the digest of the last.
Classify(envelopes, e) ==
    LET n == Len(envelopes)
        same == {d \in Range(envelopes) : d.cursor = e.cursor /\ d.rec = e.rec}
    IN  CASE \E d \in same : Digest(d) = Digest(e) -> "duplicate"
          [] same = {} /\ e.cursor = n + 1
             /\ e.prev = (IF n = 0 THEN Nothing ELSE Digest(envelopes[n])) -> "accepted"
          [] OTHER -> "refused"

\* The chain with the envelopes of a batch from one place to another on top.
Grown(envelopes, batch, from, to) == envelopes \o SubSeq(batch, from + 1, to)

\* The first error ends the request and leaves what came before it in place.  A
\* batch is sorted and has no envelope twice: what the chain already has stands
\* before what it accepts, so that `known` and `upto` say how far the loop got.
LoopEnds(envelopes, batch, known, upto) ==
    /\ \A m \in 1..known : Classify(envelopes, batch[m]) = "duplicate"
    /\ \A m \in (known + 1)..upto :
          Classify(Grown(envelopes, batch, known, m - 1), batch[m]) = "accepted"
    /\ upto < Len(batch) =>
          Classify(Grown(envelopes, batch, known, upto), batch[upto + 1]) = "refused"

\* Of an envelope shown and those accepted the one of the highest revision is shown.
Shows(next, shownNow, accepted) ==
    \A r \in Records :
        LET seen == {e \in accepted : e.rec = r} \cup ({shownNow[r]} \ {Nothing})
        IN  IF seen = {} THEN next[r] = Nothing
            ELSE next[r] \in seen /\ \A e \in seen : e.rev <= next[r].rev

\* The mirror handles a request, also one whose caller has given up.
MirrorAppends(k) ==
    LET i == By[k]
        batch == push[k].batch
    IN  /\ push[k].at \in {"sent", "late"}
        /\ \E known \in 0..Len(batch) : \E upto \in known..Len(batch) :
              /\ LoopEnds(chain[i], batch, known, upto)
              /\ \E next \in [Records -> Range(batch) \cup Range(shown[i])] :
                    /\ Shows(next, shown[i], {batch[m] : m \in (known + 1)..upto})
                    /\ shown' = [shown EXCEPT ![i] = next]
              /\ chain' = [chain EXCEPT ![i] = Grown(@, batch, known, upto)]
              /\ push' = [push EXCEPT ![k] =
                            IF @.at = "late" THEN NoPush
                            ELSE [@ EXCEPT !.at = IF upto < Len(batch) THEN "rejected" ELSE "accepted"]]
        /\ UNCHANGED <<data, enabled, source, making, pull, copy, bounds>>

--------------------------------------------------------------------------
(* The answer *)

\* Mutation: the answer acknowledges what has been produced by then.
AckProduced(i, batch, cursor) == cursor = produced[i]
\* acknowledgeCursor throws on a cursor behind the acknowledged one, or ahead of
\* the produced one, and with it ends the handling of the answer.
AckedBy(i, batch, cursor) ==
    LET before(m) == IF m = 1 THEN acked[i] ELSE batch[m - 1].cursor
        counts(m) == before(m) <= batch[m].cursor /\ batch[m].cursor <= produced[i]
    IN  \E n \in 0..Len(batch) :
           /\ \A m \in 1..n : counts(m)
           /\ n < Len(batch) => ~counts(n + 1)
           /\ cursor = before(n + 1)

PushSettled(k) ==
    LET i == By[k] IN
    /\ push[k].at \in {"accepted", "rejected"} /\ ~Compiling(i)
    /\ \E cursor \in 0..produced[i] :
          /\ IF push[k].at = "accepted" THEN AckedBy(i, push[k].batch, cursor)
                                        ELSE cursor = acked[i]
          /\ acked' = [acked EXCEPT ![i] = cursor]
    /\ push' = [push EXCEPT ![k] = NoPush]
    /\ UNCHANGED <<data, enabled, env, produced, last, making, pull, copy, mirror, bounds>>

\* A timeout, an answer lost or too large; the request may be on its way.
PushFails(k) ==
    /\ push[k].at \in {"sent", "accepted"} /\ ~Compiling(By[k])
    /\ push' = [push EXCEPT ![k] = IF @.at = "sent" THEN [@ EXCEPT !.at = "late"] ELSE NoPush]
    /\ UNCHANGED <<data, enabled, source, making, pull, copy, mirror, bounds>>
LateIsLost(k) ==
    /\ push[k].at = "late"
    /\ push' = [push EXCEPT ![k] = NoPush]
    /\ UNCHANGED <<data, enabled, source, making, pull, copy, mirror, bounds>>

--------------------------------------------------------------------------
(* pullSharedMirror *)

PullBegins(k) ==
    /\ pull[k].at = "idle" /\ enabled[By[k]] /\ ~Compiling(By[k])
    /\ pull' = [pull EXCEPT ![k].at = "asked"]
    /\ UNCHANGED <<data, enabled, source, making, push, copy, mirror, bounds>>

\* readMirror: the records shown that are newer than a cursor
MirrorView(i, since) ==
    [cursor |-> Len(chain[i]),
     payload |-> [r \in Records |-> IF shown[i][r] = Nothing THEN Nothing
                                    ELSE IF shown[i][r].cursor > since
                                         THEN shown[i][r].payload ELSE Nothing]]
\* Mutation: the mirror is only asked for what the copy has not seen.
SinceCopy(j, i) == copy[j][i].cursor
SinceCursor(j, i) == 0
MirrorReads(k) ==
    /\ pull[k].at = "asked"
    /\ pull' = [pull EXCEPT ![k] = [at |-> "answered",
                                    view |-> [i \in Instances |->
                                                MirrorView(i, SinceCursor(By[k], i))]]]
    /\ UNCHANGED <<data, enabled, source, making, push, copy, mirror, bounds>>

\* The chain of the instance itself and sources without records are skipped.
PullStored(k) ==
    LET j == By[k] IN
    /\ pull[k].at = "answered" /\ ~Compiling(j)
    /\ copy' = [copy EXCEPT ![j] =
                   [i \in Instances |-> IF i = j \/ pull[k].view[i].cursor = 0 THEN @[i]
                                        ELSE pull[k].view[i]]]
    /\ pull' = [pull EXCEPT ![k] = NoPull]
    /\ UNCHANGED <<data, enabled, source, making, push, mirror, bounds>>

PullFails(k) ==
    /\ pull[k].at \in {"asked", "answered"}
    /\ pull' = [pull EXCEPT ![k] = NoPull]
    /\ UNCHANGED <<data, enabled, source, making, push, copy, mirror, bounds>>

--------------------------------------------------------------------------
\* The process dies and starts again from its store.  One that dies between an
\* envelope and its cursor gives the cursor to another envelope later; the
\* mirror then refuses one of the two, and the instance is torn.
Crash(i) ==
    /\ crashes < MaxCrashes
    /\ crashes' = crashes + 1
    /\ torn' = IF making[i] # Nothing THEN torn \cup {i} ELSE torn
    /\ making' = [making EXCEPT ![i] = Nothing]
    /\ push' = [k \in Pushes |-> CASE By[k] # i -> push[k]
                                   [] push[k].at \in {"sent", "late"} ->
                                        [push[k] EXCEPT !.at = "late"]
                                   [] OTHER -> NoPush]
    /\ pull' = [k \in Pulls |-> IF By[k] = i THEN NoPull ELSE pull[k]]
    /\ UNCHANGED <<data, enabled, source, copy, mirror, changes>>

SyncNext ==
    \/ \E i \in Instances :
          \/ ConfigureSync(i) \/ Crash(i)
          \/ \E r \in Records, p \in Payloads : Change(i, r, p)
    \/ \E k \in Pushes :
          \/ PushBegins(k) \/ EnvelopeSaved(k) \/ CursorSaved(k) \/ Sent(k)
          \/ MirrorAppends(k) \/ PushSettled(k) \/ PushFails(k) \/ LateIsLost(k)
    \/ \E k \in Pulls : PullBegins(k) \/ MirrorReads(k) \/ PullStored(k) \/ PullFails(k)

SyncSpec == SyncInit /\ [][SyncNext]_syncVars

--------------------------------------------------------------------------
(* Properties *)

\* What an instance will not send again is in the mirror, whatever order
\* requests, answers, timeouts and crashes come in; only a torn instance can
\* skip an envelope, and it never harms another one.
AcknowledgedIsMirrored ==
    \A i \in Instances \ torn : \A e \in env[i] : e.cursor <= acked[i] => e \in Range(chain[i])

\* With nothing changed and nothing pending the mirror shows the instance as
\* it is: no late or repeated request leaves an older revision on display,
\* unless the instance is torn.
SettledIsShown ==
    \A i \in Instances \ torn :
        ~Compiling(i) /\ Changed(i) = {} /\ Pending(i) = {}
            => MirrorView(i, 0).payload = data[i]

\* A copy is the source's chain up to its cursor, never a mixture of
\* moments: for each record the last envelope up to there.
CopyIsOneMoment ==
    \A j \in Instances : \A i \in Instances \ {j}, r \in Records :
        LET n == copy[j][i].cursor
            of == {m \in 1..n : chain[i][m].rec = r}
        IN  copy[j][i].payload[r] =
              IF of = {} THEN Nothing
              ELSE chain[i][CHOOSE m \in of : \A l \in of : l <= m].payload

--------------------------------------------------------------------------
(* The inductive invariant *)

\* Every envelope of an instance that is kept or on its way somewhere
Known(i) == env[i] \cup Range(chain[i]) \cup UNION {Range(push[k].batch) : k \in {q \in Pushes : By[q] = i}}

HasLatest(i, r) ==
    LET own == {e \in env[i] : e.rec = r}
    IN  own = {} \/ \E e \in own : \A d \in own : d.cursor <= e.cursor

\* A later envelope of a record has a higher revision, and the store has an
\* envelope for every id in use, in its newest revision.
Versioned(i) ==
    /\ IsFiniteSet(env[i]) /\ \A r \in Records : HasLatest(i, r)
    /\ \A e \in env[i] : 1 <= e.cursor /\ e.cursor <= produced[i] + 1
    /\ \A d, e \in env[i] : d.cursor = e.cursor /\ d.rec = e.rec => d = e
    /\ \A d \in Known(i) : \E e \in env[i] : e.cursor = d.cursor /\ e.rec = d.rec /\ d.rev <= e.rev
    /\ \A d, e \in Known(i) : d.rec = e.rec /\ d.cursor < e.cursor => d.rev < e.rev
    /\ making[i] # Nothing => making[i] \in env[i] /\ making[i].cursor = produced[i] + 1

\* As long as it is not torn an instance gives a cursor to one envelope.
Intact(i) ==
    /\ making[i] = Nothing => \A e \in env[i] : e.cursor <= produced[i]
    /\ \A d, e \in env[i] : d.cursor = e.cursor => d = e
    /\ Known(i) \subseteq env[i]
    /\ \A k \in Pushes : By[k] = i /\ push[k].at = "accepted" => Range(push[k].batch) \subseteq Range(chain[i])
    /\ acked[i] <= Len(chain[i])

Places(i, n, r) == {m \in 1..n : chain[i][m].rec = r}
LastPlace(i, n, r, m) == m \in Places(i, n, r) /\ \A l \in Places(i, n, r) : l <= m

Mirrored(i) ==
    /\ \A m \in 1..Len(chain[i]) : chain[i][m].cursor = m
    /\ \A r \in Records : IF Places(i, Len(chain[i]), r) = {} THEN shown[i][r] = Nothing
                          ELSE \E m \in 1..Len(chain[i]) : /\ LastPlace(i, Len(chain[i]), r, m)
                                                           /\ shown[i][r] = chain[i][m]

\* What was read of a chain is what the chain said at one cursor.
OneMoment(view, i) ==
    /\ view.cursor <= Len(chain[i])
    /\ \A r \in Records : IF Places(i, view.cursor, r) = {} THEN view.payload[r] = Nothing
                          ELSE \E m \in 1..view.cursor : /\ LastPlace(i, view.cursor, r, m)
                                                         /\ view.payload[r] = chain[i][m].payload

SyncInv ==
    /\ TypeOK
    /\ \A i \in Instances : Versioned(i) /\ Mirrored(i) /\ (i \notin torn => Intact(i))
    /\ \A k \in Pulls, i \in Instances : OneMoment(pull[k].view[i], i)
    /\ \A j, i \in Instances : OneMoment(copy[j][i], i)

==========================================================================
