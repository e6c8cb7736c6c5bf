----------------------------- MODULE ReportCache -----------------------------
(***************************************************************************)
(* The two-layer cache (CachingStrategy) in front of the reports. Reports, *)
(* the snapshot and the context of the assistant are computed by calls     *)
(* that do not wait, kept in the memory of the process, and nested: the    *)
(* context is made of the snapshot, the snapshot of the report. The        *)
(* summary of the dashboard, made of the report and of the books, goes     *)
(* through Redis when it is connected. One connection answers the commands *)
(* in the order they were sent; any of them may fail.                      *)
(*                                                                         *)
(* The books are the number of writes made to them; a cached value is the  *)
(* version each of its parts was computed from.                            *)
(***************************************************************************)
EXTENDS Integers, Sequences, SequencesExt, FiniteSets, FiniteSetsExt

CONSTANTS
    Readers,      \* requests for the summary
    Ttls,         \* life of an entry of each key, in ticks
    Latency,      \* ticks a command may take
    MaxWrites,    \* bound: writes to the books
    MaxFailures   \* bound: failed commands

Keys     == {"report", "snapshot", "context", "summary"}
Versions == 0..MaxWrites

ASSUME CacheAssumption ==
    /\ IsFiniteSet(Readers)
    /\ Ttls \in [Keys -> Nat \ {0}]
    /\ Latency \in Nat \ {0} /\ MaxWrites \in Nat /\ MaxFailures \in Nat

(* live: of what was read from the books; report: of the oldest report in   *)
(* it; race: an invalidation was under way when it was made.                *)
Value  == [live: Versions, report: Versions, race: BOOLEAN]
Cached == [value: Value, left: Nat]
None   == [value |-> [live |-> 0, report |-> 0, race |-> FALSE], left |-> 0]

(* Ages are counted no further than the oldest value the cache may serve. *)
OldAge == MapThenSumSet(LAMBDA k : Ttls[k], Keys) + Latency

VARIABLES
    version,     \* writes made to the books
    age,         \* ticks since each write was made
    local,       \* the Map of the process, by key
    remote,      \* the summary in Redis
    connected,   \* this.redis is set
    pipe,        \* commands sent and not answered, in their order
    flushed,     \* newest write whose invalidation is done: in the process, in Redis
    failures

cacheVars == <<version, age, local, remote, connected, pipe, flushed, failures>>

Command == [cmd: {"get", "set", "keys", "del"}, reader: Readers \union {"none"},
            value: Value, version: Versions, waited: 0..Latency]

CacheTypeOK ==
    /\ version \in Versions
    /\ age \in [1..MaxWrites -> 0..OldAge]
    /\ local \in [Keys -> Cached] /\ remote \in Cached
    /\ connected \in BOOLEAN
    /\ pipe \in Seq(Command)
    /\ flushed \in [{"local", "remote"} -> Versions]
    /\ failures \in 0..MaxFailures

CacheInit ==
    /\ version = 0
    /\ age = [w \in 1..MaxWrites |-> 0]
    /\ local = [k \in Keys |-> None]
    /\ remote = None
    /\ connected = FALSE
    /\ pipe = << >>
    /\ flushed = [x \in {"local", "remote"} |-> 0]
    /\ failures = 0

-----------------------------------------------------------------------------
(* The Map of the process *)

Valid(entry)     == entry.left > 0
EntryFor(k, v)   == [value |-> v, left |-> Ttls[k]]
Invalidating     == \E i \in DOMAIN pipe : pipe[i].cmd \in {"keys", "del"}
OldestOf(v, w)   == IF v.report <= w.report THEN v.report ELSE w.report
Derived(report)  == [live |-> version, report |-> report, race |-> Invalidating]

(* Slip: reading an entry prolongs its life. *)
WithReportProlonged(map) ==
    [map EXCEPT !["report"] =
        EntryFor("report", IF Valid(@) THEN @.value ELSE Derived(version))]

(* wrapSync: the Map after the value of a key was asked for. *)
WithReport(map) ==
    IF Valid(map["report"])
    THEN map
    ELSE [map EXCEPT !["report"] = EntryFor("report", Derived(version))]

(* The snapshot reads nothing but the report. *)
WithSnapshot(map) ==
    LET m == WithReport(map)
        v == m["report"].value
    IN  IF Valid(map["snapshot"]) THEN map ELSE [m EXCEPT !["snapshot"] = EntryFor("snapshot", v)]

WithContext(map) ==
    LET m == WithSnapshot(WithReport(map))
        v == Derived(OldestOf(m["report"].value, m["snapshot"].value))
    IN  IF Valid(map["context"]) THEN map ELSE [m EXCEPT !["context"] = EntryFor("context", v)]

WithKey(k) ==
    CASE k = "report"   -> WithReport(local)
      [] k = "snapshot" -> WithSnapshot(local)
      [] k = "context"  -> WithContext(local)

ReadSync(k) ==
    /\ local' = WithKey(k)
    /\ UNCHANGED <<version, age, remote, connected, pipe, flushed, failures>>

-----------------------------------------------------------------------------
(* The summary: wrap *)

Send(cmd, reader, v) ==
    [cmd |-> cmd, reader |-> reader, value |-> v, version |-> version, waited |-> 0]

Idle(r) == \A i \in DOMAIN pipe : pipe[i].reader # r

(* buildSummary: the report, from the cache, and the books. *)
Summary == Derived(WithReport(local)["report"].value.report)

(* Without Redis the Map is asked, the summary built and kept in one go. *)
AskSummary(r) ==
    /\ Idle(r)
    /\ IF connected
       THEN pipe' = Append(pipe, Send("get", r, None.value)) /\ UNCHANGED local
       ELSE /\ local' = IF Valid(local["summary"])
                        THEN local
                        ELSE [WithReport(local) EXCEPT !["summary"] = EntryFor("summary", Summary)]
            /\ UNCHANGED pipe
    /\ UNCHANGED <<version, age, remote, connected, flushed, failures>>

(* The answer of a get: Redis, else the Map, else a new summary is sent. *)
GetAnswered(c, ok) ==
    /\ c.cmd = "get"
    /\ IF (ok /\ Valid(remote)) \/ Valid(local["summary"])
       THEN pipe' = Tail(pipe) /\ UNCHANGED local
       ELSE /\ local' = WithReport(local)
            /\ pipe' = Append(Tail(pipe), Send("set", c.reader, Summary))
    /\ UNCHANGED <<remote, flushed>>

(* A summary that Redis does not take is kept in the Map. *)
SetAnswered(c, ok) ==
    /\ c.cmd = "set"
    /\ pipe' = Tail(pipe)
    /\ IF ok
       THEN remote' = EntryFor("summary", c.value) /\ UNCHANGED local
       ELSE local' = [local EXCEPT !["summary"] = EntryFor("summary", c.value)] /\ UNCHANGED remote
    /\ UNCHANGED flushed

-----------------------------------------------------------------------------
(* Writes to the books, and invalidatePrefix *)

Written ==
    /\ version < MaxWrites
    /\ version' = version + 1
    /\ UNCHANGED age

Larger(x, y) == IF x >= y THEN x ELSE y

(* Redis first, and the Map when it has answered. *)
InvalidatePrefix ==
    IF connected
    THEN /\ pipe' = Append(pipe, [Send("keys", "none", None.value) EXCEPT !.version = version + 1])
         /\ UNCHANGED <<local, flushed>>
    ELSE /\ local' = [k \in Keys |-> None]
         /\ flushed' = [flushed EXCEPT !["local"] = version + 1]
         /\ UNCHANGED pipe

(* Creations and imports. *)
WriteAndInvalidate ==
    /\ Written
    /\ InvalidatePrefix
    /\ UNCHANGED <<remote, connected, failures>>

(* Posting, reversing and deleting an entry leave the cache alone. *)
WriteOnly ==
    /\ Written
    /\ UNCHANGED <<local, remote, connected, pipe, flushed, failures>>

Emptied(c, done) ==
    /\ local' = [k \in Keys |-> None]
    /\ flushed' = [flushed EXCEPT !["local"] = Larger(@, c.version),
                                  !["remote"] = IF done THEN Larger(@, c.version) ELSE @]

KeysAnswered(c, ok) ==
    /\ c.cmd = "keys"
    /\ IF ok /\ Valid(remote)
       THEN pipe' = Append(Tail(pipe), [c EXCEPT !.cmd = "del", !.waited = 0])
            /\ UNCHANGED <<local, flushed>>
       ELSE pipe' = Tail(pipe) /\ Emptied(c, ok)
    /\ UNCHANGED remote

DelAnswered(c, ok) ==
    /\ c.cmd = "del"
    /\ pipe' = Tail(pipe)
    /\ remote' = IF ok THEN None ELSE remote
    /\ Emptied(c, ok)

-----------------------------------------------------------------------------
(* The first command of the pipe is answered, or fails. *)
Answer ==
    /\ pipe # << >>
    /\ \E ok \in BOOLEAN :
         /\ failures' = IF ok THEN failures ELSE failures + 1
         /\ failures' <= MaxFailures
         /\ LET c == Head(pipe)
            IN  \/ GetAnswered(c, ok)  \/ SetAnswered(c, ok)
                \/ KeysAnswered(c, ok) \/ DelAnswered(c, ok)
    /\ UNCHANGED <<version, age, connected>>

(* The connection is made some time after the start. *)
Connect ==
    /\ ~connected
    /\ connected' = TRUE
    /\ UNCHANGED <<version, age, local, remote, pipe, flushed, failures>>

Less(entry)  == IF entry.left <= 1 THEN None ELSE [entry EXCEPT !.left = @ - 1]

(* Expired entries are gone, whether or not anybody looks for them. *)
Tick ==
    /\ \A i \in DOMAIN pipe : pipe[i].waited < Latency
    /\ pipe' = [i \in DOMAIN pipe |-> [pipe[i] EXCEPT !.waited = @ + 1]]
    /\ local' = [k \in Keys |-> Less(local[k])]
    /\ remote' = Less(remote)
    /\ age' = [w \in 1..MaxWrites |-> IF w <= version /\ age[w] < OldAge THEN age[w] + 1 ELSE age[w]]
    /\ UNCHANGED <<version, connected, flushed, failures>>

CacheNext ==
    \/ \E k \in Keys \ {"summary"} : ReadSync(k)
    \/ \E r \in Readers : AskSummary(r)
    \/ WriteAndInvalidate \/ WriteOnly
    \/ Answer \/ Connect \/ Tick

CacheSpec == CacheInit /\ [][CacheNext]_cacheVars

-----------------------------------------------------------------------------
(* Properties *)

Entries == {<<k, local[k]>> : k \in Keys} \union {<<"summary", remote>>}

(* A write no route invalidates for, such as a posting, shows up in time.   *)
(* The lives of nested entries add up: the context may show a report that   *)
(* is as old as the lives of context, snapshot and report together, and the *)
(* summary one as old as the lives of summary and report (getSync, wrap).   *)
ReportAge(k) ==
    LET own == Ttls[k] - 1
    IN  CASE k = "report"   -> own
          [] k = "snapshot" -> own + Ttls["report"] - 1
          [] k = "context"  -> own + Ttls["snapshot"] - 1 + Ttls["report"] - 1
          [] k = "summary"  -> own + Latency + Ttls["report"] - 1

StalenessBounded ==
    \A x \in Entries : Valid(x[2]) =>
        \A w \in 1..version :
            w > x[2].value.report => age[w] <= ReportAge(x[1])

(* After the invalidation of a write is done, nothing that misses the write *)
(* is left in the Map, nor in Redis unless Redis failed. One exception: the *)
(* Map is emptied only after Redis has answered, so a summary made meantime *)
(* of the old report survives (invalidatePrefix).                           *)
Covers(v, w) == v.live >= w /\ (v.report >= w \/ v.race)

InvalidationHolds ==
    /\ \A k \in Keys : Valid(local[k]) => Covers(local[k].value, flushed["local"])
    /\ Valid(remote) => Covers(remote.value, flushed["remote"])

(* A reader sees a write no later than the lives of the entries allow, and  *)
(* at once where the write invalidates, but for the race named above.       *)
CacheStaysFresh == StalenessBounded /\ InvalidationHolds
=============================================================================
