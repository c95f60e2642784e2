----------------------------- MODULE EventStore -----------------------------
(***************************************************************************)
(* The durable store of the program: an event log with unique keys and a   *)
(* table of projections in one SQLite file (S1SqliteEventStore), and the   *)
(* repositories that keep every record of a projection type in memory      *)
(* beside it (ProjectionRepository).  Nothing keeps a second process from  *)
(* opening the same file, and the claim gate of the provider runtime is    *)
(* written for several.                                                    *)
(*                                                                         *)
(* A process runs one operation at a time.  Between two of its statements  *)
(* another process may run any of its own; a transaction is one action.    *)
(* Payloads are abstracted to a value and to the version it is saved as;   *)
(* what assertNoForbiddenSecrets finds in one makes it a secret.           *)
(* A rebuild is given the reducer that takes the last snapshot of each     *)
(* record.                                                                 *)
(***************************************************************************)
EXTENDS Integers, Sequences, Functions

CONSTANTS
    StoreProcesses,
    Records,   \* kept by a repository
    Claims,    \* written under keys of their own
    Values,    \* contents of a record
    Secrets,   \* contents and lines that look like a password, a token or a profile path
    Files,     \* S0 logs that may be imported
    Lines,     \* [Files -> Seq(ids)]: the ids of a file's events, line by line
    MaxEvents  \* bound on the log

ASSUME RecordsAssumption == Records \cap Claims = {} /\ "s0" \notin Records \cup Claims
ASSUME FilesAssumption ==
    /\ Files \cap (Records \cup Claims) = {}
    /\ DOMAIN Lines = Files /\ \A f \in Files : Lines[f] \in Seq(Range(Lines[f]))
ASSUME MaxEventsAssumption == MaxEvents \in Nat

VARIABLES
    log,      \* execution_events, in the order of their sequence
    rows,     \* projection_records
    journal,  \* s0_import_journal: file -> imported_event_count
    cache,    \* ProjectionRepository.records of each process
    op,       \* what each process is about to do
    behind    \* ghost: records the last rebuild set back
storeVars == <<log, rows, journal, cache, op, behind>>

None == "none"
Absent == [version |-> 0, value |-> None]
Idle == [pc |-> "idle"]
Kept == Records \cup Claims

EventsWith(key) == {i \in 1..Len(log) : log[i].key = key}
HasKey(key) == EventsWith(key) # {}
Row(event) == [version |-> event.version, value |-> event.value]
\* The events of a record in a log, and the last of them.
Own(events, r) == {i \in 1..Len(events) : events[i].record = r}
IsLast(events, r, i) == i \in Own(events, r) /\ \A j \in Own(events, r) : j <= i
Latest(events, r) ==
    IF Own(events, r) = {} THEN Absent
    ELSE Row(events[CHOOSE i \in Own(events, r) : IsLast(events, r, i)])

StoreInit ==
    /\ log = <<>>
    /\ rows = [r \in Kept |-> Absent]
    /\ journal = [f \in {} |-> 0]
    /\ cache = [p \in StoreProcesses |-> [r \in Records |-> Absent]]
    /\ op = [p \in StoreProcesses |-> Idle]
    /\ behind = {}

\* normalizeEvent and normalizeProjection before the transaction, and
\* normalizeImportedEvent before that of an import.
Storable(event) == event.value \notin Secrets
Importable(f) == Range(Lines[f]) \cap Secrets = {}

Goes(p, step) == op' = [op EXCEPT ![p] = step]
Done(p) == Goes(p, Idle)
\* An operation that throws leaves nothing behind: its transaction is rolled back.
Throws(p) == Done(p) /\ UNCHANGED <<log, rows, journal, cache, behind>>
Reads(p, step) == Goes(p, step) /\ UNCHANGED <<log, rows, journal, cache, behind>>
At(p, step) == op[p].pc = step
Room(n) == Len(log) + n <= MaxEvents

-----------------------------------------------------------------------------
(* Writers. *)

\* ProjectionRepository.save takes the version from the store, not from its cache.
Save(p, r, v) ==
    /\ At(p, "idle") /\ Room(1)
    /\ LET next == rows[r].version + 1
       IN Reads(p, [pc |-> "look", event |-> [key |-> <<r, next>>, record |-> r,
                                             version |-> next, value |-> v]])

\* acquire; recordOutcome and recoverUnfinishedClaims of a claim that is open.
WriteClaim(p, c, what) ==
    /\ At(p, "idle") /\ Room(1)
    /\ what # "claimed" => rows[c].value = "claimed"
    /\ LET next == IF what = "claimed" THEN 1 ELSE rows[c].version + 1
       IN Reads(p, [pc |-> "look", event |-> [key |-> <<c, what>>, record |-> c,
                                             version |-> next, value |-> what]])

\* The claim gate goes no further when it finds its event; the store goes on
\* when the projection is the one that is to be written.
LookUp(p) ==
    /\ At(p, "look")
    /\ LET event == op[p].event
       IN CASE ~HasKey(event.key) -> Reads(p, [op[p] EXCEPT !.pc = "write"])
            [] HasKey(event.key) /\ event.record \in Records -> Reads(p, [op[p] EXCEPT !.pc = "compare"])
            [] HasKey(event.key) /\ event.record \in Claims -> Throws(p)

Compare(p) ==
    /\ At(p, "compare")
    /\ IF rows[op[p].event.record] = Row(op[p].event)
       THEN Reads(p, [op[p] EXCEPT !.pc = "write"])
       ELSE Throws(p)

\* Mutation: an event under a known key counts as the same, whatever it says.
SameByKey(event) == HasKey(event.key)
\* The event is in the log, with the same payload.
SameEvent(event) == \E i \in EventsWith(event.key) : log[i] = event

\* Mutation: a projection at the version of the present one replaces it.
MovesOrEquals(event) == event.version >= rows[event.record].version
\* #writeProjection: not back, and not another content at the same version.
Moves(event) == \/ event.version > rows[event.record].version
                \/ Row(event) = rows[event.record]

Remember(p, event) ==
    IF event.record \in Records
    THEN cache' = [cache EXCEPT ![p][event.record] = Row(event)]
    ELSE UNCHANGED cache

\* The transaction of appendWithProjection and what save does when it returns.
Write(p) ==
    /\ At(p, "write")
    /\ LET event == op[p].event
       IN \/ /\ Storable(event) /\ ~HasKey(event.key) /\ Moves(event)
             /\ log' = Append(log, event)
             /\ rows' = [rows EXCEPT ![event.record] = Row(event)]
             /\ Remember(p, event)
             /\ Done(p)
             /\ UNCHANGED <<journal, behind>>
          \/ /\ Storable(event) /\ SameEvent(event)
             /\ Remember(p, event)
             /\ Done(p)
             /\ UNCHANGED <<log, rows, journal, behind>>
          \/ /\ Storable(event) => IF HasKey(event.key) THEN ~SameEvent(event) ELSE ~Moves(event)
             /\ Throws(p)

\* The other process holds the database for longer than the timeout.
Busy(p) == /\ op[p].pc \in {"write", "replace", "insert"}
           /\ \E q \in StoreProcesses \ {p} : ~At(q, "idle")
           /\ Throws(p)

-----------------------------------------------------------------------------
(* Rebuild and import. *)

ReadLog(p) ==
    /\ At(p, "idle")
    /\ Reads(p, [pc |-> "replace", found |-> [r \in Records |-> Latest(log, r)]])

\* Deletes every projection of the type and inserts what the reducer made.
Replace(p) ==
    /\ At(p, "replace")
    /\ rows' = [r \in Kept |-> IF r \in Records THEN op[p].found[r] ELSE rows[r]]
    /\ behind' = {r \in Records : op[p].found[r] # Latest(log, r)}
    /\ Done(p)
    /\ UNCHANGED <<log, journal, cache>>

Import(p, f) ==
    /\ At(p, "idle") /\ f \notin DOMAIN journal /\ Importable(f)
    /\ Room(Len(Lines[f]))
    /\ Reads(p, [pc |-> "insert", file |-> f])

\* An imported event is kept under its own id and under a key made of the file and
\* the line; here the id stands for both, its record for the file.
Imported(f) == [n \in 1..Len(Lines[f]) |-> [key |-> <<"s0", Lines[f][n]>>, record |-> f,
                                            version |-> 1, value |-> Lines[f][n]]]
Fresh(event) == ~HasKey(event.key)

\* Mutation: INSERT OR IGNORE, as the class this one replaces does it.
InsertOrIgnore(p) ==
    /\ At(p, "insert")
    /\ LET f == op[p].file
           fresh == SelectSeq(Imported(f), Fresh)
       IN /\ log' = log \o fresh
          /\ journal' = [g \in DOMAIN journal \cup {f} |-> IF g = f THEN Len(fresh) ELSE journal[g]]
          /\ Done(p)
          /\ UNCHANGED <<rows, cache, behind>>

\* All lines or, when the log has one of them, the file one of them twice or the
\* journal the file, none.
Insert(p) ==
    /\ At(p, "insert")
    /\ LET f == op[p].file
           new == Imported(f)
       IN IF /\ f \notin DOMAIN journal /\ \A n \in 1..Len(new) : Fresh(new[n])
             /\ IsInjective(Lines[f])
          THEN /\ log' = log \o new
               /\ journal' = [g \in DOMAIN journal \cup {f} |-> IF g = f THEN Len(new) ELSE journal[g]]
               /\ Done(p)
               /\ UNCHANGED <<rows, cache, behind>>
          ELSE Throws(p)

\* A crash and a new start: the repositories read the projections.
Restart(p) ==
    /\ cache' = [cache EXCEPT ![p] = [r \in Records |-> rows[r]]]
    /\ Done(p)
    /\ UNCHANGED <<log, rows, journal, behind>>

StoreNext == \E p \in StoreProcesses :
    \/ \E r \in Records, v \in Values : Save(p, r, v)
    \/ \E c \in Claims, what \in {"claimed", "outcome", "recovery"} : WriteClaim(p, c, what)
    \/ LookUp(p) \/ Compare(p) \/ Write(p) \/ Busy(p)
    \/ ReadLog(p) \/ Replace(p)
    \/ \E f \in Files : Import(p, f)
    \/ Insert(p)
    \/ Restart(p)

StoreSpec == StoreInit /\ [][StoreNext]_storeVars

-----------------------------------------------------------------------------
(* Properties. *)

\* Whoever writes a record, and however their reads and transactions are mixed,
\* its events are one history: version 1, 2, 3 and so on, none twice and none left
\* out, so that a claim has one outcome (appendWithProjection, #writeProjection).
HistoryHasOneLine ==
    \A r \in Kept : \A i \in Own(log, r) :
        /\ log[i].version >= 1
        /\ \A j \in Own(log, r) : j < i => log[j].version < log[i].version
        /\ \A v \in 1..log[i].version : \E j \in Own(log, r) : j <= i /\ log[j].version = v

\* What a process can read was committed (appendWithProjection, save): a
\* projection is the last event of its record, unless a rebuild that a write
\* had overtaken set it back, what a repository keeps in memory is in the log, and
\* nothing in the log is a secret, also when it came from an old file.
ReadsAreCommitted ==
    /\ \A r \in Kept \ behind : rows[r] = Latest(log, r)
    /\ \A p \in StoreProcesses, r \in Records :
          cache[p][r] = Absent \/ \E i \in Own(log, r) : Row(log[i]) = cache[p][r]
    /\ \A i \in 1..Len(log) : log[i].value \notin Secrets

\* The journal tells the truth about an import (importS0Jsonl): the lines of a
\* file it names are in the log one after the other, as many as it says, and of a
\* file it does not name there is none.
ImportIsWhole ==
    \A f \in Files :
        IF f \in DOMAIN journal
        THEN /\ journal[f] = Len(Lines[f])
             /\ \E k \in 0..Len(log) :
                   /\ Own(log, f) = (k + 1)..(k + journal[f])
                   /\ \A n \in 1..journal[f] : log[k + n].value = Lines[f][n]
        ELSE Own(log, f) = {}

-----------------------------------------------------------------------------
(* The inductive invariant. *)

Outcomes == {"claimed", "outcome", "recovery"}
Rows == [version : Nat, value : Values \cup Outcomes \cup {None}]

RecordEvents == {[key |-> <<r, n>>, record |-> r, version |-> n, value |-> v]
                 : r \in Records, n \in Nat \ {0}, v \in Values}
ClaimEvents == {[key |-> <<c, what>>, record |-> c,
                 version |-> IF what = "claimed" THEN 1 ELSE 2, value |-> what]
                : c \in Claims, what \in Outcomes}
FileEvents == UNION {{Imported(f)[n] : n \in 1..Len(Lines[f])} : f \in Files}
Written == RecordEvents \cup ClaimEvents
Operations == {Idle} \cup [pc : {"look", "compare", "write"}, event : Written]
              \cup [pc : {"replace"}, found : [Records -> Rows]]
              \cup [pc : {"insert"}, file : Files]

StoreTypeOK ==
    /\ log \in Seq(Written \cup FileEvents)
    /\ rows \in [Kept -> Rows]
    /\ DOMAIN journal \subseteq Files
    /\ cache \in [StoreProcesses -> [Records -> Rows]]
    /\ op \in [StoreProcesses -> Operations]
    /\ behind \subseteq Records

\* A row that was never written, or was written with an event of the log.
Logged(r, row) == row = Absent \/ \E i \in Own(log, r) : Row(log[i]) = row
\* The version before this one is in the log.
Follows(event) == event.version = 1 \/ \E i \in Own(log, event.record) :
                                          log[i].version = event.version - 1

\* What an operation has read was committed, and stays in the log.
OperationOK(p) ==
    /\ op[p].pc \in {"look", "compare", "write"} => Follows(op[p].event)
    /\ op[p].pc = "compare" => op[p].event.record \in Records
    /\ op[p].pc = "replace" => \A r \in Records : Logged(r, op[p].found[r])
    /\ op[p].pc = "insert" => Importable(op[p].file)

HasLast(r) == Own(log, r) = {} \/ \E i \in Own(log, r) : IsLast(log, r, i)

StoreInv ==
    /\ StoreTypeOK
    /\ \A p \in StoreProcesses : OperationOK(p)
    /\ \A r \in Kept : HasLast(r) /\ Logged(r, rows[r])
    /\ HistoryHasOneLine /\ ReadsAreCommitted /\ ImportIsWhole

=============================================================================
