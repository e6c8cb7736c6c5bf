------------------------------- MODULE AuditLog -------------------------------
(***************************************************************************)
(* The audit log: every server keeps its events in memory, each hashed     *)
(* over the one before (store.recordAudit), and passes them to a queue     *)
(* that writes them one by one to the table audit_logs, where they form a  *)
(* second chain (PostgresStorageManager). Several servers may share the    *)
(* database; each caches the end of the chain it last saw. Servers crash   *)
(* and restart, and the database may fail or answer too late.              *)
(*                                                                         *)
(* SHA-256 is taken to be injective: a hash is the sequence of the events  *)
(* it covers. The clock counts milliseconds and is common to the servers.  *)
(* Rows in the hash format of earlier versions are left out, and the       *)
(* memory is restored whole, not by its latest 2000 rows.                  *)
(***************************************************************************)
EXTENDS Integers, FiniteSets, SequencesExt

CONSTANTS
    Servers,
    MaxTime,    \* bound: the clock
    MaxEvents,  \* bound: events in the memories of the servers together
    MaxFaults   \* bound: crashes and database failures

ASSUME ServersAssumption == IsFiniteSet(Servers)
ASSUME BoundsAssumption == MaxTime \in Nat /\ MaxEvents \in Nat /\ MaxFaults \in Nat

Event == [server: Servers, time: Nat, n: Nat]

(* AUDIT-<milliseconds>-<length of the log>, or AUDIT-CHAIN-RESEAL-        *)
(* <milliseconds> for n = 0: the server is not part of it.                 *)
Id(e) == <<e.time, e.n>>

Genesis       == << >>
Hash(e, prev) == Append(prev, e)

VARIABLES
    rows,        \* the table audit_logs
    phase,       \* where a server is between its start and its crash
    memory,      \* auditLogs: the events recorded since the start, newest first
    hydrated,    \* rows of earlier events that auditLogs took from the table
    lastHash,    \* lastAuditHash, the end of the chain in memory
    tip,         \* auditSequence and auditChainHash, the cached end of the table
    loadFailed,  \* auditLoadFailed
    queue,       \* events waiting in auditWriteQueue
    reloading,   \* the task at work must read the end of the chain again
    now,         \* the clock
    faults       \* crashes and database failures so far

vars == <<rows, phase, memory, hydrated, lastHash, tip, loadFailed, queue, reloading, now, faults>>
local == <<phase, memory, hydrated, lastHash, tip, loadFailed, queue, reloading>>

Phases == {"down", "connecting", "backfilling", "hydrating", "up", "offline"}
Tip    == [seq: Nat, hash: Seq(Event)]
Row    == [event: Event, seq: Nat, prev: Seq(Event), cur: Seq(Event)]
Logged == [event: Event, prev: Seq(Event), cur: Seq(Event), hooked: BOOLEAN]

(* Slip: the sequence starts below zero. *)
NoTipBelow == [seq |-> -1, hash |-> Genesis]

NoTip == [seq |-> 0, hash |-> Genesis]

TypeOK ==
    /\ rows \subseteq Row
    /\ phase \in [Servers -> Phases]
    /\ memory \in [Servers -> Seq(Logged)]
    /\ hydrated \in [Servers -> Nat]
    /\ lastHash \in [Servers -> Seq(Event)]
    /\ tip \in [Servers -> Tip]
    /\ loadFailed \in [Servers -> BOOLEAN]
    /\ queue \in [Servers -> Seq(Event)]
    /\ reloading \in [Servers -> BOOLEAN]
    /\ now \in Nat /\ faults \in Nat

Init ==
    /\ rows = {}
    /\ phase = [s \in Servers |-> "down"]
    /\ memory = [s \in Servers |-> << >>]
    /\ hydrated = [s \in Servers |-> 0]
    /\ lastHash = [s \in Servers |-> Genesis]
    /\ tip = [s \in Servers |-> NoTip]
    /\ loadFailed = [s \in Servers |-> FALSE]
    /\ queue = [s \in Servers |-> << >>]
    /\ reloading = [s \in Servers |-> FALSE]
    /\ now = 0 /\ faults = 0

-----------------------------------------------------------------------------
(* Recording in memory *)

NewEvent(s) == [server |-> s, time |-> now, n |-> Len(memory[s]) + hydrated[s] + 1]

(* recordAudit without the hook that persists. *)
Remember(s, hooked) ==
    LET e == NewEvent(s)
        h == Hash(e, lastHash[s])
    IN  /\ MapThenSumSet(LAMBDA o : Len(memory[o]), Servers) < MaxEvents
        /\ memory' = [memory EXCEPT ![s] =
              <<[event |-> e, prev |-> lastHash[s], cur |-> h, hooked |-> hooked]>> \o @]
        /\ lastHash' = [lastHash EXCEPT ![s] = h]

Fault == faults < MaxFaults /\ faults' = faults + 1

-----------------------------------------------------------------------------
(* Start of a server *)

Start(s) ==
    /\ phase[s] = "down"
    /\ phase' = [phase EXCEPT ![s] = "connecting"]
    /\ UNCHANGED <<rows, memory, hydrated, lastHash, tip, loadFailed, queue, reloading, now, faults>>

(* The end of the chain: the row with the highest sequence. *)
Top ==
    IF rows = {} THEN NoTip
    ELSE LET r == CHOOSE x \in rows : \A y \in rows : y.seq <= x.seq
         IN  [seq |-> r.seq, hash |-> r.cur]

(* initialize reads the end of the chain; if that query alone fails, the   *)
(* database stays in use and only the audit log stops being written. When  *)
(* initialize had to seal the hash chain of the journal, as it does on a   *)
(* new database, it writes an event that is not in the log in memory.      *)
SealEvent(s) == [server |-> s, time |-> now, n |-> 0]

Connect(s) ==
    /\ phase[s] = "connecting"
    /\ phase' = [phase EXCEPT ![s] = "backfilling"]
    /\ \/ /\ tip' = [tip EXCEPT ![s] = Top]
          /\ queue' \in {queue, [queue EXCEPT ![s] = <<SealEvent(s)>>]}
          /\ UNCHANGED <<loadFailed, faults>>
       \/ /\ Fault
          /\ loadFailed' = [loadFailed EXCEPT ![s] = TRUE]
          /\ UNCHANGED <<tip, queue>>
    /\ UNCHANGED <<rows, memory, hydrated, lastHash, reloading, now>>

(* Without a database, or when it fails, the server works in memory. *)
GoOffline(s) ==
    /\ phase[s] = "connecting"
    /\ phase' = [phase EXCEPT ![s] = "offline"]
    /\ UNCHANGED <<rows, memory, hydrated, lastHash, tip, loadFailed, queue, reloading, now, faults>>

(* The positions of a log in the order of time; events of one millisecond  *)
(* stay as they are, the newest first.                                     *)
Earlier(log, i, j) ==
    \/ log[i].event.time < log[j].event.time
    \/ log[i].event.time = log[j].event.time /\ i < j

ByTime(log) ==
    CHOOSE p \in [DOMAIN log -> DOMAIN log] :
        \A i, j \in DOMAIN log : i < j => Earlier(log, p[i], p[j])

Chronological(log) == [k \in DOMAIN log |-> log[ByTime(log)[k]].event]

Idle(s) == queue[s] = << >> /\ ~reloading[s]

(* Slip: the test for an empty table is inverted. *)
BackfillInverted(s) ==
    /\ phase[s] = "backfilling"
    /\ Idle(s)
    /\ phase' = [phase EXCEPT ![s] = "hydrating"]
    /\ queue' = [queue EXCEPT ![s] =
          IF rows # {} /\ ~loadFailed[s] THEN Chronological(memory[s]) ELSE @]
    /\ UNCHANGED <<rows, memory, hydrated, lastHash, tip, loadFailed, reloading, now, faults>>

(* backfillAuditLogs: only an empty table receives the events of the start, *)
(* once the event of the sealing is written.                                *)
Backfill(s) ==
    /\ phase[s] = "backfilling"
    /\ Idle(s)
    /\ phase' = [phase EXCEPT ![s] = "hydrating"]
    /\ queue' = [queue EXCEPT ![s] =
          IF rows = {} /\ ~loadFailed[s] THEN Chronological(memory[s]) ELSE @]
    /\ UNCHANGED <<rows, memory, hydrated, lastHash, tip, loadFailed, reloading, now, faults>>

(* hydrateAuditLogs, once the events of the start are written: the rows    *)
(* join the log without the events it has, and the chain in memory goes on *)
(* from the end of the table. Without the rows, if they cannot be read.    *)
Hydrate(s) ==
    LET own == {Id(memory[s][i].event) : i \in DOMAIN memory[s]}
    IN  /\ phase[s] = "hydrating"
        /\ Idle(s)
        /\ phase' = [phase EXCEPT ![s] = "up"]
        /\ \/ /\ hydrated' = [hydrated EXCEPT ![s] =
                   Cardinality({r \in rows : Id(r.event) \notin own})]
              /\ lastHash' = [lastHash EXCEPT ![s] = IF rows = {} THEN @ ELSE Top.hash]
              /\ UNCHANGED faults
           \/ Fault /\ UNCHANGED <<hydrated, lastHash>>
        /\ UNCHANGED <<rows, memory, tip, loadFailed, queue, reloading, now>>

-----------------------------------------------------------------------------
(* A running server *)

(* Slip: the newest event is written first. *)
RecordNewestFirst(s) ==
    /\ phase[s] \in {"connecting", "up", "offline"}
    /\ Remember(s, phase[s] = "up")
    /\ queue' = [queue EXCEPT ![s] =
          IF phase[s] = "up" /\ ~loadFailed[s] THEN <<NewEvent(s)>> \o @ ELSE @]
    /\ UNCHANGED <<rows, phase, hydrated, tip, loadFailed, reloading, now, faults>>

(* recordAudit and its hook: persistAuditLog queues the event. The hook is *)
(* not there yet for the events of the start, before the database is.      *)
RecordAudit(s) ==
    /\ phase[s] \in {"connecting", "up", "offline"}
    /\ Remember(s, phase[s] = "up")
    /\ queue' = [queue EXCEPT ![s] =
          IF phase[s] = "up" /\ ~loadFailed[s] THEN Append(@, NewEvent(s)) ELSE @]
    /\ UNCHANGED <<rows, phase, hydrated, tip, loadFailed, reloading, now, faults>>

Candidate(s) ==
    [event |-> Head(queue[s]), seq |-> tip[s].seq + 1,
     prev |-> tip[s].hash, cur |-> Hash(Head(queue[s]), tip[s].hash)]

(* Slip: the index on the sequence is not unique. *)
ConflictsById(row) == \E r \in rows : Id(r.event) = Id(row.event)

(* The primary key and the unique index on the sequence. *)
Conflicts(row) ==
    \E r \in rows : r.seq = row.seq \/ Id(r.event) = Id(row.event)

(* Slip: the queue stands still after a failed read of the end. *)
NextTaskIfLoaded(s) ==
    /\ queue[s] # << >> /\ ~reloading[s] /\ ~loadFailed[s]
    /\ queue' = [queue EXCEPT ![s] = Tail(@)]

NextTask(s) ==
    /\ queue[s] # << >> /\ ~reloading[s]
    /\ queue' = [queue EXCEPT ![s] = Tail(@)]

(* writeAuditLog: the row is inserted and the cached end moves to it. *)
WriteAuditLog(s) ==
    LET row == Candidate(s)
    IN  /\ NextTask(s)
        /\ ~Conflicts(row)
        /\ rows' = rows \union {row}
        /\ tip' = [tip EXCEPT ![s] = [seq |-> row.seq, hash |-> row.cur]]
        /\ UNCHANGED <<phase, memory, hydrated, lastHash, loadFailed, reloading, now, faults>>

(* A conflict on the id or on the sequence inserts nothing and raises no   *)
(* error; the event is given up and the end of the chain is read again.    *)
WriteIgnored(s) ==
    /\ NextTask(s)
    /\ Conflicts(Candidate(s))
    /\ reloading' = [reloading EXCEPT ![s] = TRUE]
    /\ UNCHANGED <<rows, phase, memory, hydrated, lastHash, tip, loadFailed, now, faults>>

(* Slip: the cached end moves before the insert is known to have succeeded. *)
WriteFailsForward(s) ==
    /\ NextTask(s)
    /\ Fault
    /\ \/ UNCHANGED rows
       \/ ~Conflicts(Candidate(s)) /\ rows' = rows \union {Candidate(s)}
    /\ tip' = [tip EXCEPT ![s] = [seq |-> Candidate(s).seq, hash |-> Candidate(s).cur]]
    /\ UNCHANGED <<phase, memory, hydrated, lastHash, loadFailed, reloading, now>>

(* The database fails, before the insert took effect or after. *)
WriteFails(s) ==
    /\ NextTask(s)
    /\ Fault
    /\ \/ UNCHANGED rows
       \/ ~Conflicts(Candidate(s)) /\ rows' = rows \union {Candidate(s)}
    /\ UNCHANGED <<phase, memory, hydrated, lastHash, tip, loadFailed, reloading, now>>

(* loadAuditChainState after a conflict. The events of the start are       *)
(* passed one by one, so that a failure keeps the rest from being passed.  *)
ReloadTip(s) ==
    /\ reloading[s]
    /\ reloading' = [reloading EXCEPT ![s] = FALSE]
    /\ \/ /\ tip' = [tip EXCEPT ![s] = Top]
          /\ loadFailed' = [loadFailed EXCEPT ![s] = FALSE]
          /\ UNCHANGED <<queue, faults>>
       \/ /\ Fault
          /\ loadFailed' = [loadFailed EXCEPT ![s] = TRUE]
          /\ queue' = [queue EXCEPT ![s] = IF phase[s] = "hydrating" THEN << >> ELSE @]
          /\ UNCHANGED tip
    /\ UNCHANGED <<rows, phase, memory, hydrated, lastHash, now>>

(* A restart takes longer than a millisecond. *)
Crash(s) ==
    /\ phase[s] # "down"
    /\ Fault
    /\ now < MaxTime /\ now' = now + 1
    /\ phase' = [phase EXCEPT ![s] = "down"]
    /\ memory' = [memory EXCEPT ![s] = << >>]
    /\ hydrated' = [hydrated EXCEPT ![s] = 0]
    /\ lastHash' = [lastHash EXCEPT ![s] = Genesis]
    /\ tip' = [tip EXCEPT ![s] = NoTip]
    /\ loadFailed' = [loadFailed EXCEPT ![s] = FALSE]
    /\ queue' = [queue EXCEPT ![s] = << >>]
    /\ reloading' = [reloading EXCEPT ![s] = FALSE]
    /\ UNCHANGED rows

Tick == now < MaxTime /\ now' = now + 1 /\ UNCHANGED <<rows, local, faults>>

-----------------------------------------------------------------------------
Queue(s) == WriteAuditLog(s) \/ WriteIgnored(s) \/ WriteFails(s) \/ ReloadTip(s)
Boot(s)  == Start(s) \/ Connect(s) \/ GoOffline(s) \/ Backfill(s) \/ Hydrate(s)

Next == Tick \/ \E s \in Servers : Boot(s) \/ RecordAudit(s) \/ Queue(s) \/ Crash(s)

(* The promise queue takes its tasks as long as the server runs. *)
Fairness == \A s \in Servers : WF_vars(Queue(s))

Spec == Init /\ [][Next]_vars /\ Fairness

-----------------------------------------------------------------------------
(* Properties *)

(* verifyPersistedAuditChain over the rows in the order of their sequence. *)
Broken ==
    LET below(r) == {q \in rows : q.seq < r.seq}
        expectedPrev(r) ==
            IF below(r) = {} THEN Genesis
            ELSE (CHOOSE q \in below(r) : \A p \in below(r) : p.seq <= q.seq).cur
    IN  {r \in rows : \/ r.prev # expectedPrev(r)
                      \/ r.cur # Hash(r.event, expectedPrev(r))}

(* Whatever the servers that share the table, their crashes, stale ends and *)
(* unanswered inserts, the chain in the table verifies from its first row   *)
(* and its sequence has neither a gap nor a fork.                           *)
ChainVerifies ==
    /\ Broken = {}
    /\ {r.seq : r \in rows} = 1..Cardinality(rows)

(* The end of the chain a server caches is a row of the table, or the       *)
(* genesis: it may be stale, it is never an end that was not written.       *)
TipWasWritten ==
    \A s \in Servers : tip[s] = NoTip \/ \E r \in rows : r.seq = tip[s].seq /\ r.cur = tip[s].hash

(* A server alone with its database, neither of which failed, loses no      *)
(* event: each one is in the table, or waits in the queue. The events of    *)
(* the start are the exception, if that start wrote an event of its own.    *)
Pending(s) == {queue[s][i] : i \in DOMAIN queue[s]}
Durable    == {r.event : r \in rows}

Alone(s) == faults = 0 /\ phase[s] = "up" /\ \A o \in Servers \ {s} : phase[o] = "down"

LoneServerLosesNothing ==
    \A s \in Servers : Alone(s) =>
        \A i \in DOMAIN memory[s] :
            memory[s][i].hooked \/ ~(\E r \in rows : r.event.n = 0) =>
                memory[s][i].event \in Durable \union Pending(s)

(* The log in memory of a server without database, which nobody changed,    *)
(* verifies exactly as long as no two of its events share a millisecond:    *)
(* the verification (verifyAuditLogChain) orders it by milliseconds, and    *)
(* leaves the events of one as they are, the newest first.                  *)
VerifyMemory(s) ==
    LET log   == memory[s]
        order == ByTime(log)
        expectedPrev(k) == IF k = 1 THEN Genesis ELSE log[order[k - 1]].cur
    IN  \A k \in DOMAIN order :
            /\ log[order[k]].prev = expectedPrev(k)
            /\ log[order[k]].cur = Hash(log[order[k]].event, expectedPrev(k))

MemoryVerifies ==
    \A s \in Servers : phase[s] = "offline" =>
        (VerifyMemory(s) <=>
            \A i, k \in DOMAIN memory[s] :
                memory[s][i].event.time = memory[s][k].event.time => i = k)

(* A log is neither lost nor disowned: what a lone server recorded reaches  *)
(* the table, and what an offline one recorded verifies, but for the events *)
(* of a sealing start and those of one millisecond.                         *)
LogsAreKept == LoneServerLosesNothing /\ MemoryVerifies

(* The table implements the trail: rows are only added, at the end, no      *)
(* event twice, and never an event older than one of its server's rows.     *)
Trail ==
    INSTANCE AuditTrail WITH
        Event <- Event,
        trail <- [i \in 1..Cardinality(rows) |-> (CHOOSE r \in rows : r.seq = i).event]

ImplementsTrail == Trail!Spec

(* A queue that holds events is emptied, whatever fails, unless the server  *)
(* stops: no write and no failed reload keeps the ones behind it waiting.   *)
QueueDrains ==
    \A s \in Servers : ~Idle(s) ~> Idle(s)

(* "Every event is written to the database": without a failure, an event    *)
(* recorded by a server in service is in the table or waits to be written,  *)
(* whichever servers share the table.                                       *)
EveryEventIsWritten ==
    faults = 0 =>
        \A s \in Servers : phase[s] = "up" =>
            \A i \in DOMAIN memory[s] :
                memory[s][i].hooked => memory[s][i].event \in Durable \union Pending(s)
=============================================================================
