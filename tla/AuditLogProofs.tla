---------------------------- MODULE AuditLogProofs ----------------------------
(* Proofs about the audit log for any number of servers, crashes and        *)
(* database failures: the chain in the table always verifies, the table     *)
(* refines the trail, and what is recorded is kept.                         *)
EXTENDS MCQueues, FiniteFacts, SequenceTheorems

(* The inductive invariant: the rows are numbered without gap or fork, each *)
(* is hashed over its predecessor, and every cached end is a written row.   *)
Numbered ==
    /\ IsFiniteSet(rows)
    /\ {r.seq : r \in rows} = 1..Cardinality(rows)
    /\ \A r, q \in rows : r.seq = q.seq => r = q

LinkedAt(r) ==
    /\ r.cur = Hash(r.event, r.prev)
    /\ r.seq = 1 => r.prev = Genesis
    /\ r.seq > 1 => \E q \in rows : q.seq = r.seq - 1 /\ q.cur = r.prev

Ends ==
    /\ DOMAIN tip = Servers
    /\ \A s \in Servers : tip[s].seq \in Nat
    /\ TipWasWritten

Inv == Numbered /\ (\A r \in rows : LinkedAt(r)) /\ Ends

LEMMA RowsCounted ==
  ASSUME Numbered
  PROVE  Cardinality(rows) \in Nat /\ \A r \in rows : r.seq \in 1..Cardinality(rows)
BY FS_CardinalityType DEF Numbered

(* The end read from the table is a written row. *)
LEMMA TopWritten ==
  ASSUME Numbered
  PROVE  /\ Top.seq \in Nat
         /\ Top = NoTip \/ \E r \in rows : r.seq = Top.seq /\ r.cur = Top.hash
<1>1. CASE rows = {}
  BY <1>1 DEF Top, NoTip
<1>2. CASE rows # {}
  <2> DEFINE c == Cardinality(rows)
  <2>1. c \in Nat /\ \A r \in rows : r.seq \in 1..c
    BY RowsCounted
  <2>2. c \in {r.seq : r \in rows}
    BY <1>2, <2>1 DEF Numbered
  <2>3. \E x \in rows : \A y \in rows : y.seq <= x.seq
    BY <2>1, <2>2
  <2> DEFINE last == CHOOSE x \in rows : \A y \in rows : y.seq <= x.seq
  <2>4. last \in rows
    BY <2>3
  <2>5. Top = [seq |-> last.seq, hash |-> last.cur]
    BY <1>2 DEF Top
  <2> HIDE DEF last, c
  <2> QED
    BY <2>1, <2>4, <2>5
<1> QED
  BY <1>1, <1>2

(* A row that does not conflict goes to the end of the table, whatever end  *)
(* the server had cached.                                                   *)
LEMMA InsertKeepsChain ==
  ASSUME Inv, NEW s \in Servers, ~Conflicts(Candidate(s)), rows' = rows \union {Candidate(s)}
  PROVE  Numbered' /\ \A r \in rows' : LinkedAt(r)'
<1> DEFINE row == Candidate(s)
           c   == Cardinality(rows)
<1>1. /\ row.seq = tip[s].seq + 1 /\ row.prev = tip[s].hash
      /\ row.cur = Hash(row.event, row.prev)
  BY DEF Candidate
<1>2. /\ IsFiniteSet(rows) /\ c \in Nat /\ tip[s].seq \in Nat
      /\ \A r \in rows : r.seq \in 1..c
      /\ \A r, q \in rows : r.seq = q.seq => r = q
      /\ {r.seq : r \in rows} = 1..c
  BY RowsCounted DEF Inv, Numbered, Ends
<1>3. \A r \in rows : r.seq # row.seq
  BY DEF Conflicts
<1>4. tip[s] = NoTip \/ \E r \in rows : r.seq = tip[s].seq /\ r.cur = tip[s].hash
  BY DEF Inv, Ends, TipWasWritten
<1> HIDE DEF row, c
<1>5. row.seq = c + 1
  <2>1. tip[s].seq \in 0..c
    BY <1>2, <1>4 DEF NoTip
  <2>2. row.seq \notin 1..c
    BY <1>2, <1>3
  <2> QED
    BY <1>1, <1>2, <2>1, <2>2
<1>6. rows' = rows \union {row} /\ row \notin rows
  BY <1>3 DEF row
<1>7. IsFiniteSet(rows') /\ Cardinality(rows') = c + 1
  BY <1>2, <1>6, FS_AddElement DEF c
<1>8. {r.seq : r \in rows'} = 1..(c + 1)
  BY <1>2, <1>5, <1>6
<1>9. Numbered'
  BY <1>2, <1>3, <1>6, <1>7, <1>8 DEF Numbered
<1>10. ASSUME NEW r \in rows
       PROVE  LinkedAt(r)'
  BY <1>6 DEF Inv, LinkedAt
<1>11. ASSUME NEW r, r = row
       PROVE  LinkedAt(r)'
  <2>1. r.seq = 1 => r.prev = Genesis
    BY <1>1, <1>2, <1>4, <1>11 DEF NoTip
  <2>2. r.seq > 1 => \E q \in rows : q.seq = r.seq - 1 /\ q.cur = r.prev
    BY <1>1, <1>2, <1>4, <1>11 DEF NoTip
  <2>3. r.cur = Hash(r.event, r.prev)
    BY <1>1, <1>11
  <2> QED
    BY <1>6, <2>1, <2>2, <2>3 DEF LinkedAt
<1> QED
  BY <1>6, <1>9, <1>10, <1>11

-----------------------------------------------------------------------------
LEMMA InitInv == Init => Inv
<1> SUFFICES ASSUME Init PROVE Inv
  OBVIOUS
<1>1. Numbered
  BY FS_EmptySet DEF Init, Numbered
<1> QED
  BY <1>1 DEF Init, Inv, LinkedAt, Ends, TipWasWritten, NoTip

(* Steps that leave the table alone keep the chain; the cached ends then    *)
(* decide.                                                                  *)
LEMMA SameRows ==
  ASSUME Inv, rows' = rows, Ends'
  PROVE  Inv'
BY DEF Inv, Numbered, LinkedAt

LEMMA SameTip ==
  ASSUME Inv, rows \subseteq rows', tip' = tip
  PROVE  Ends'
BY DEF Inv, Ends, TipWasWritten

LEMMA TipRead ==
  ASSUME Inv, NEW s \in Servers, rows' = rows, tip' = [tip EXCEPT ![s] = Top]
  PROVE  Inv'
<1>1. /\ Top.seq \in Nat
      /\ Top = NoTip \/ \E r \in rows : r.seq = Top.seq /\ r.cur = Top.hash
  BY TopWritten DEF Inv
<1>2. Ends'
  BY <1>1 DEF Inv, Ends, TipWasWritten
<1> QED
  BY <1>2, SameRows

LEMMA InvStep == Inv /\ [Next]_vars => Inv'
<1> SUFFICES ASSUME Inv, [Next]_vars PROVE Inv'
  OBVIOUS
<1>1. ASSUME rows' = rows, tip' = tip
      PROVE  Inv'
  BY <1>1, SameRows, SameTip
<1>2. CASE UNCHANGED vars
  BY <1>1, <1>2 DEF vars
<1>3. CASE Tick
  BY <1>1, <1>3 DEF Tick, local
<1>4. ASSUME NEW s \in Servers,
             Start(s) \/ GoOffline(s) \/ Backfill(s) \/ Hydrate(s) \/ RecordAudit(s)
      PROVE  Inv'
  BY <1>1, <1>4 DEF Start, GoOffline, Backfill, Hydrate, RecordAudit
<1>5. ASSUME NEW s \in Servers, Connect(s)
      PROVE  Inv'
  BY <1>1, <1>5, TipRead DEF Connect
<1>6. ASSUME NEW s \in Servers, WriteAuditLog(s)
      PROVE  Inv'
  <2> DEFINE row == Candidate(s)
  <2>1. Numbered' /\ \A r \in rows' : LinkedAt(r)'
    BY <1>6, InsertKeepsChain DEF WriteAuditLog
  <2>2. /\ rows' = rows \union {row}
        /\ tip' = [tip EXCEPT ![s] = [seq |-> row.seq, hash |-> row.cur]]
    BY <1>6 DEF WriteAuditLog
  <2>3. row.seq \in Nat
    BY DEF Candidate, Inv, Ends
  <2> HIDE DEF row
  <2>4. Ends'
    BY <2>2, <2>3 DEF Inv, Ends, TipWasWritten
  <2> QED
    BY <2>1, <2>4 DEF Inv
<1>7. ASSUME NEW s \in Servers, WriteIgnored(s)
      PROVE  Inv'
  BY <1>1, <1>7 DEF WriteIgnored
<1>8. ASSUME NEW s \in Servers, WriteFails(s)
      PROVE  Inv'
  <2>1. CASE rows' = rows
    BY <1>1, <1>8, <2>1 DEF WriteFails
  <2>2. CASE ~Conflicts(Candidate(s)) /\ rows' = rows \union {Candidate(s)}
    <3>1. Numbered' /\ \A r \in rows' : LinkedAt(r)'
      BY <2>2, InsertKeepsChain
    <3>2. Ends'
      BY <1>8, <2>2, SameTip DEF WriteFails
    <3> QED
      BY <3>1, <3>2 DEF Inv
  <2> QED
    BY <1>8, <2>1, <2>2 DEF WriteFails
<1>9. ASSUME NEW s \in Servers, ReloadTip(s)
      PROVE  Inv'
  BY <1>1, <1>9, TipRead DEF ReloadTip
<1>10. ASSUME NEW s \in Servers, Crash(s)
       PROVE  Inv'
  <2>1. rows' = rows /\ tip' = [tip EXCEPT ![s] = NoTip]
    BY <1>10 DEF Crash
  <2>2. Ends'
    BY <2>1 DEF Inv, Ends, TipWasWritten, NoTip
  <2> QED
    BY <2>1, <2>2, SameRows
<1> QED
  BY <1>2, <1>3, <1>4, <1>5, <1>6, <1>7, <1>8, <1>9, <1>10 DEF Next, Boot, Queue

LEMMA InvHolds == Spec => []Inv
<1> QED
  BY InitInv, InvStep, PTL DEF Spec

(* In a numbered, linked table the verification finds no broken row. *)
LEMMA InvVerifies == Inv => ChainVerifies
<1> SUFFICES ASSUME Inv PROVE ChainVerifies
  OBVIOUS
<1> DEFINE c == Cardinality(rows)
           below(r) == {q \in rows : q.seq < r.seq}
           expectedPrev(r) ==
             IF below(r) = {} THEN Genesis
             ELSE (CHOOSE q \in below(r) : \A p \in below(r) : p.seq <= q.seq).cur
<1>1. c \in Nat /\ \A r \in rows : r.seq \in 1..c
  BY RowsCounted DEF Inv
<1>2. ASSUME NEW r \in rows
      PROVE  r.prev = expectedPrev(r) /\ r.cur = Hash(r.event, expectedPrev(r))
  <2>1. r.cur = Hash(r.event, r.prev)
    BY DEF Inv, LinkedAt
  <2>2. CASE r.seq = 1
    <3>1. below(r) = {}
      BY <1>1, <2>2
    <3> QED
      BY <2>1, <2>2, <3>1 DEF Inv, LinkedAt
  <2>3. CASE r.seq # 1
    <3>1. PICK q \in rows : q.seq = r.seq - 1 /\ q.cur = r.prev
      BY <1>1, <2>3 DEF Inv, LinkedAt
    <3>2. q \in below(r) /\ \A p \in below(r) : p.seq <= q.seq
      BY <1>1, <3>1
    <3>3. ASSUME NEW x \in below(r), \A p \in below(r) : p.seq <= x.seq
          PROVE  x = q
      <4>1. x.seq = q.seq
        BY <1>1, <3>1, <3>2, <3>3
      <4> QED
        BY <3>3, <4>1 DEF Inv, Numbered
    <3>4. (CHOOSE x \in below(r) : \A p \in below(r) : p.seq <= x.seq) = q
      BY <3>2, <3>3
    <3>5. expectedPrev(r) = r.prev
      BY <3>1, <3>2, <3>4
    <3> QED
      BY <2>1, <3>5
  <2> QED
    BY <2>2, <2>3
<1>3. Broken = {}
  BY <1>2 DEF Broken
<1> QED
  BY <1>3 DEF ChainVerifies, Inv, Numbered

(* Whatever the servers that share the table, their crashes and the         *)
(* failures of the database: the durable chain verifies, without a gap.     *)
THEOREM DurableChainVerifies == Spec => []ChainVerifies
<1> QED
  BY InvHolds, InvVerifies, PTL

(* No server ever builds on an end that was not written: what a stale end   *)
(* leads to is a conflict, never a fork.                                    *)
THEOREM TipsAreWritten == Spec => []TipWasWritten
<1>1. Inv => TipWasWritten
  BY DEF Inv, Ends
<1> QED
  BY <1>1, InvHolds, PTL
-----------------------------------------------------------------------------
(* Types                                                                     *)
LEMMA TopType ==
  ASSUME Numbered, rows \subseteq Row
  PROVE  Top \in Tip
<1>1. CASE rows = {}
  BY <1>1, EmptySeq DEF Top, NoTip, Tip, Genesis
<1>2. CASE rows # {}
  <2> DEFINE last == CHOOSE x \in rows : \A y \in rows : y.seq <= x.seq
  <2>1. last \in Row
    <3> DEFINE c == Cardinality(rows)
    <3>1. c \in Nat /\ \A r \in rows : r.seq \in 1..c
      BY RowsCounted
    <3>2. c \in {r.seq : r \in rows}
      BY <1>2, <3>1 DEF Numbered
    <3>3. \E x \in rows : \A y \in rows : y.seq <= x.seq
      BY <3>1, <3>2
    <3> QED
      BY <3>3
  <2>2. Top = [seq |-> last.seq, hash |-> last.cur]
    BY <1>2 DEF Top
  <2> HIDE DEF last
  <2> QED
    BY <2>1, <2>2 DEF Row, Tip
<1> QED
  BY <1>1, <1>2

LEMMA CandidateType ==
  ASSUME TypeOK, NEW s \in Servers, queue[s] # << >>
  PROVE  Candidate(s) \in Row /\ Candidate(s).event = Head(queue[s])
<1>1. Head(queue[s]) \in Event /\ tip[s].seq \in Nat /\ tip[s].hash \in Seq(Event)
  BY HeadTailProperties DEF TypeOK, Tip
<1>2. Hash(Head(queue[s]), tip[s].hash) \in Seq(Event)
  BY <1>1, AppendProperties DEF Hash
<1> QED
  BY <1>1, <1>2 DEF Candidate, Row

LEMMA NewEventType ==
  ASSUME TypeOK, NEW s \in Servers
  PROVE  /\ NewEvent(s) \in Event /\ NewEvent(s).server = s /\ NewEvent(s).time = now
         /\ SealEvent(s) \in Event /\ SealEvent(s).server = s /\ SealEvent(s).time = now
<1>1. Len(memory[s]) \in Nat /\ hydrated[s] \in Nat
  BY LenProperties DEF TypeOK
<1> QED
  BY <1>1 DEF TypeOK, NewEvent, SealEvent, Event

(* What memory becomes with a new event: its newest.                         *)
LEMMA RememberType ==
  ASSUME TypeOK, NEW s \in Servers, NEW hooked \in BOOLEAN, Remember(s, hooked)
  PROVE  /\ memory' \in [Servers -> Seq(Logged)] /\ lastHash' \in [Servers -> Seq(Event)]
         /\ \A o \in Servers \ {s} : memory'[o] = memory[o]
         /\ \A i \in DOMAIN memory'[s] :
              \/ memory'[s][i].event = NewEvent(s)
              \/ \E k \in DOMAIN memory[s] : memory'[s][i] = memory[s][k]
<1> DEFINE h  == Hash(NewEvent(s), lastHash[s])
           l  == [event |-> NewEvent(s), prev |-> lastHash[s], cur |-> h, hooked |-> hooked]
           m  == <<l>> \o memory[s]
<1>1. h \in Seq(Event) /\ lastHash[s] \in Seq(Event)
  BY NewEventType, AppendProperties DEF Hash, TypeOK
<1>2. l \in Logged /\ l.event = NewEvent(s)
  BY <1>1, NewEventType DEF Logged
<1>3. memory' = [memory EXCEPT ![s] = m] /\ lastHash' = [lastHash EXCEPT ![s] = h]
  BY DEF Remember
<1>4. memory \in [Servers -> Seq(Logged)] /\ lastHash \in [Servers -> Seq(Event)]
  BY DEF TypeOK
<1> HIDE DEF l, h
<1>5. /\ <<l>> \in Seq(Logged) /\ Len(<<l>>) = 1 /\ <<l>>[1] = l
      /\ memory[s] \in Seq(Logged) /\ Len(memory[s]) \in Nat
      /\ DOMAIN memory[s] = 1..Len(memory[s])
  BY <1>2, <1>4, LenProperties
<1>6. /\ m \in Seq(Logged) /\ Len(m) = 1 + Len(memory[s])
      /\ \A i \in 1..(1 + Len(memory[s])) :
           m[i] = IF i <= 1 THEN <<l>>[i] ELSE memory[s][i - 1]
  BY <1>5, ConcatProperties
<1> HIDE DEF m
<1>7. DOMAIN m = 1..Len(m)
  BY <1>6, LenProperties
<1>8. ASSUME NEW i \in DOMAIN m
      PROVE  m[i].event = NewEvent(s) \/ \E k \in DOMAIN memory[s] : m[i] = memory[s][k]
  <2>1. i \in 1..(1 + Len(memory[s]))
    BY <1>6, <1>7
  <2>2. CASE i = 1
    BY <1>2, <1>5, <1>6, <2>1, <2>2
  <2>3. CASE i # 1
    <3>1. i - 1 \in DOMAIN memory[s] /\ m[i] = memory[s][i - 1]
      BY <1>5, <1>6, <2>1, <2>3
    <3> QED
      BY <3>1
  <2> QED
    BY <2>2, <2>3
<1> QED
  BY <1>1, <1>3, <1>4, <1>6, <1>8

LEMMA LoggedFacts ==
  ASSUME NEW log \in Seq(Logged)
  PROVE  /\ Len(log) \in Nat /\ DOMAIN log = 1..Len(log)
         /\ \A i \in 1..Len(log) : log[i].event \in Event /\ log[i].event.time \in Nat
<1>1. Len(log) \in Nat /\ DOMAIN log = 1..Len(log)
  BY LenProperties
<1>2. ASSUME NEW i \in 1..Len(log)
      PROVE  log[i].event \in Event /\ log[i].event.time \in Nat
  <2>1. log[i] \in Logged
    BY ElementOfSeq
  <2> QED
    BY <2>1 DEF Logged, Event
<1> QED
  BY <1>1, <1>2

(* The positions of a log in the order of time are those of the log.         *)
LEMMA ByTimeSorts ==
  ASSUME NEW log \in Seq(Logged)
  PROVE  /\ ByTime(log) \in [DOMAIN log -> DOMAIN log]
         /\ \A i, j \in DOMAIN log : i < j => Earlier(log, ByTime(log)[i], ByTime(log)[j])
<1> DEFINE n == Len(log)
           S == 1..n
           R == {x \in S \X S : Earlier(log, x[1], x[2])}
<1>1. n \in Nat /\ DOMAIN log = S /\ \A i \in S : log[i].event.time \in Nat
  BY LoggedFacts
<1>2. IsFiniteSet(S) /\ Cardinality(S) = n
  <2>1. /\ IsFiniteSet(1..n)
        /\ Cardinality(1..n) = IF 1 > n THEN 0 ELSE n - 1 + 1
    BY <1>1, FS_Interval
  <2> HIDE DEF n
  <2> QED
    BY <1>1, <2>1
<1>3. Ordered(R, S)
  <2>1. \A i \in S : i \in Int
    OBVIOUS
  <2>2. \A i, j \in S : <<i, j>> \in R <=> Earlier(log, i, j)
    OBVIOUS
  <2> HIDE DEF R, S
  <2>3. \A i \in S : ~Earlier(log, i, i)
    BY <1>1, <2>1 DEF Earlier
  <2>4. \A i, j \in S : i # j => Earlier(log, i, j) \/ Earlier(log, j, i)
    BY <1>1, <2>1 DEF Earlier
  <2>5. \A i, j, k \in S : Earlier(log, i, j) /\ Earlier(log, j, k) => Earlier(log, i, k)
    BY <1>1, <2>1 DEF Earlier
  <2> QED
    BY <2>2, <2>3, <2>4, <2>5 DEF Ordered
<1>4. PICK p : InOrder(p, R, S)
  BY <1>2, <1>3, SortExists
<1>5. p \in [S -> S] /\ \A i, j \in S : i < j => Earlier(log, p[i], p[j])
  BY <1>2, <1>4 DEF InOrder
<1> QED
  BY <1>1, <1>5 DEF ByTime

LEMMA ChronologicalFacts ==
  ASSUME NEW log \in Seq(Logged)
  PROVE  /\ Chronological(log) \in Seq(Event)
         /\ DOMAIN Chronological(log) = DOMAIN log
         /\ \A i \in DOMAIN log : \E k \in DOMAIN log : Chronological(log)[i] = log[k].event
         /\ \A i, j \in DOMAIN log :
              i < j => Chronological(log)[i].time <= Chronological(log)[j].time
<1> DEFINE n == Len(log)
           p == ByTime(log)
<1>1. n \in Nat /\ DOMAIN log = 1..n
      /\ \A i \in 1..n : log[i].event \in Event /\ log[i].event.time \in Nat
  BY LoggedFacts
<1>2. p \in [1..n -> 1..n] /\ \A i, j \in 1..n : i < j => Earlier(log, p[i], p[j])
  BY <1>1, ByTimeSorts
<1>3. Chronological(log) = [k \in 1..n |-> log[p[k]].event]
  BY <1>1 DEF Chronological
<1> HIDE DEF p, n
<1>4. Chronological(log) \in [1..n -> Event]
  BY <1>1, <1>2, <1>3
<1>5. Chronological(log) \in Seq(Event)
  BY <1>1, <1>4
<1>6. ASSUME NEW i \in 1..n
      PROVE  p[i] \in 1..n /\ Chronological(log)[i] = log[p[i]].event
  BY <1>2, <1>3
<1>7. ASSUME NEW i \in 1..n, NEW j \in 1..n, i < j
      PROVE  Chronological(log)[i].time <= Chronological(log)[j].time
  <2>1. Earlier(log, p[i], p[j])
    BY <1>2, <1>7
  <2> QED
    BY <1>1, <1>6, <2>1 DEF Earlier
<1> QED
  BY <1>1, <1>3, <1>5, <1>6, <1>7
LEMMA TypesInit == Init => TypeOK
<1> SUFFICES ASSUME Init PROVE TypeOK
  OBVIOUS
<1>1. NoTip \in Tip /\ Genesis \in Seq(Event) /\ << >> \in Seq(Logged) /\ << >> \in Seq(Event)
  BY EmptySeq DEF NoTip, Tip, Genesis
<1> QED
  BY <1>1 DEF Init, TypeOK, Phases

LEMMA TypesStep == Inv /\ TypeOK /\ [Next]_vars => TypeOK'
<1> SUFFICES ASSUME Inv, TypeOK, [Next]_vars PROVE TypeOK'
  OBVIOUS
<1>1. Top \in Tip /\ Top.hash \in Seq(Event)
  BY TopType DEF Inv, TypeOK, Tip
<1>2. CASE UNCHANGED vars
  BY <1>2 DEF vars, TypeOK
<1>3. CASE Tick
  BY <1>3 DEF Tick, local, TypeOK
<1>4. ASSUME NEW s \in Servers, Start(s) \/ GoOffline(s)
      PROVE  TypeOK'
  BY <1>4 DEF Start, GoOffline, TypeOK, Phases
<1>5. ASSUME NEW s \in Servers, Connect(s)
      PROVE  TypeOK'
  <2>1. queue' \in [Servers -> Seq(Event)]
    <3>1. <<SealEvent(s)>> \in Seq(Event)
      BY NewEventType
    <3> QED
      BY <1>5, <3>1 DEF Connect, TypeOK
  <2>2. tip' \in [Servers -> Tip] /\ faults' \in Nat
    <3>1. tip' = [tip EXCEPT ![s] = Top] \/ tip' = tip
      BY <1>5 DEF Connect
    <3>2. faults' = faults \/ faults' = faults + 1
      BY <1>5 DEF Connect, Fault
    <3>3. tip' \in [Servers -> Tip]
      BY <1>1, <3>1 DEF TypeOK
    <3> QED
      BY <3>2, <3>3 DEF TypeOK
  <2>3. phase' \in [Servers -> Phases] /\ loadFailed' \in [Servers -> BOOLEAN]
    BY <1>5 DEF Connect, TypeOK, Phases
  <2>4. UNCHANGED <<rows, memory, hydrated, lastHash, reloading, now>>
    BY <1>5 DEF Connect
  <2> QED
    BY <2>1, <2>2, <2>3, <2>4 DEF TypeOK
<1>6. ASSUME NEW s \in Servers, Backfill(s)
      PROVE  TypeOK'
  <2>1. Chronological(memory[s]) \in Seq(Event)
    BY ChronologicalFacts DEF TypeOK
  <2> QED
    BY <1>6, <2>1 DEF Backfill, TypeOK, Phases
<1>7. ASSUME NEW s \in Servers, Hydrate(s)
      PROVE  TypeOK'
  <2> DEFINE own   == {Id(memory[s][i].event) : i \in DOMAIN memory[s]}
             other == {r \in rows : Id(r.event) \notin own}
  <2>1. Cardinality(other) \in Nat
    BY FS_Subset, FS_CardinalityType DEF Inv, Numbered
  <2>2. \/ hydrated' = [hydrated EXCEPT ![s] = Cardinality(other)]
        \/ hydrated' = hydrated
    BY <1>7 DEF Hydrate
  <2>3. hydrated' \in [Servers -> Nat]
    BY <2>1, <2>2 DEF TypeOK
  <2>4. lastHash' \in [Servers -> Seq(Event)] /\ faults' \in Nat
    BY <1>1, <1>7 DEF Hydrate, Fault, TypeOK
  <2>5. /\ phase' \in [Servers -> Phases]
        /\ UNCHANGED <<rows, memory, tip, loadFailed, queue, reloading, now>>
    BY <1>7 DEF Hydrate, TypeOK, Phases
  <2> QED
    BY <2>3, <2>4, <2>5 DEF TypeOK
<1>8. ASSUME NEW s \in Servers, RecordAudit(s)
      PROVE  TypeOK'
  <2>1. Append(queue[s], NewEvent(s)) \in Seq(Event)
    BY NewEventType, AppendProperties DEF TypeOK
  <2>2. memory' \in [Servers -> Seq(Logged)] /\ lastHash' \in [Servers -> Seq(Event)]
    BY <1>8, RememberType DEF RecordAudit
  <2> QED
    BY <1>8, <2>1, <2>2 DEF RecordAudit, TypeOK
<1>9. ASSUME NEW s \in Servers, NextTask(s)
      PROVE  /\ Candidate(s) \in Row /\ queue' \in [Servers -> Seq(Event)]
             /\ [seq |-> Candidate(s).seq, hash |-> Candidate(s).cur] \in Tip
  <2>1. queue[s] # << >> /\ queue[s] \in Seq(Event) /\ queue' = [queue EXCEPT ![s] = Tail(@)]
    BY <1>9 DEF NextTask, TypeOK
  <2>2. Tail(queue[s]) \in Seq(Event) /\ Candidate(s) \in Row
    BY <2>1, HeadTailProperties, CandidateType
  <2> QED
    BY <2>1, <2>2 DEF TypeOK, Row, Tip
<1>10. ASSUME NEW s \in Servers, WriteAuditLog(s)
       PROVE  TypeOK'
  BY <1>9, <1>10 DEF WriteAuditLog, TypeOK
<1>11. ASSUME NEW s \in Servers, WriteIgnored(s)
       PROVE  TypeOK'
  BY <1>9, <1>11 DEF WriteIgnored, TypeOK
<1>12. ASSUME NEW s \in Servers, WriteFails(s)
       PROVE  TypeOK'
  <2>1. rows' \subseteq Row /\ queue' \in [Servers -> Seq(Event)]
    BY <1>9, <1>12 DEF WriteFails, TypeOK
  <2>2. faults' \in Nat
    BY <1>12 DEF WriteFails, Fault, TypeOK
  <2>3. UNCHANGED <<phase, memory, hydrated, lastHash, tip, loadFailed, reloading, now>>
    BY <1>12 DEF WriteFails
  <2> QED
    BY <2>1, <2>2, <2>3 DEF TypeOK
<1>13. ASSUME NEW s \in Servers, ReloadTip(s)
       PROVE  TypeOK'
  <2>1. tip' \in [Servers -> Tip] /\ faults' \in Nat
    <3>1. tip' = [tip EXCEPT ![s] = Top] \/ tip' = tip
      BY <1>13 DEF ReloadTip
    <3>2. faults' = faults \/ faults' = faults + 1
      BY <1>13 DEF ReloadTip, Fault
    <3>3. tip' \in [Servers -> Tip]
      BY <1>1, <3>1 DEF TypeOK
    <3> QED
      BY <3>2, <3>3 DEF TypeOK
  <2>2. loadFailed' \in [Servers -> BOOLEAN] /\ reloading' \in [Servers -> BOOLEAN]
    BY <1>13 DEF ReloadTip, TypeOK
  <2>3. queue' \in [Servers -> Seq(Event)]
    <3>1. \/ queue' = queue
          \/ queue' = [queue EXCEPT ![s] = IF phase[s] = "hydrating" THEN << >> ELSE queue[s]]
      BY <1>13 DEF ReloadTip
    <3>2. << >> \in Seq(Event)
      BY EmptySeq
    <3> QED
      BY <3>1, <3>2 DEF TypeOK
  <2>4. UNCHANGED <<rows, phase, memory, hydrated, lastHash, now>>
    BY <1>13 DEF ReloadTip
  <2> QED
    BY <2>1, <2>2, <2>3, <2>4 DEF TypeOK
<1>14. ASSUME NEW s \in Servers, Crash(s)
       PROVE  TypeOK'
  <2>1. NoTip \in Tip /\ Genesis \in Seq(Event) /\ << >> \in Seq(Logged) /\ << >> \in Seq(Event)
    BY EmptySeq DEF NoTip, Tip, Genesis
  <2> QED
    BY <1>14, <2>1 DEF Crash, Fault, TypeOK, Phases
<1> QED
  BY <1>2, <1>3, <1>4, <1>5, <1>6, <1>7, <1>8, <1>10, <1>11, <1>12, <1>13, <1>14
  DEF Next, Boot, Queue

-----------------------------------------------------------------------------
(* The clock. What waits in the queue of a server is its own, in the order   *)
(* of its clock, and nothing it wrote is younger.                            *)
OwnEvent(s, e) == e \in Event /\ e.server = s /\ e.time <= now

InTurn(s) ==
    /\ \A i \in DOMAIN queue[s] : OwnEvent(s, queue[s][i])
    /\ \A i, j \in DOMAIN queue[s] : i < j => queue[s][i].time <= queue[s][j].time
    /\ \A r \in rows, i \in DOMAIN queue[s] :
         r.event.server = s => r.event.time <= queue[s][i].time

MemoryOwn(s) == \A i \in DOMAIN memory[s] : OwnEvent(s, memory[s][i].event)

ClockInv ==
    /\ TypeOK
    /\ \A r \in rows : r.event.time <= now
    /\ \A s \in Servers : InTurn(s) /\ MemoryOwn(s)

LEMMA ClockInit == Init => ClockInv
<1> SUFFICES ASSUME Init PROVE ClockInv
  OBVIOUS
<1>1. TypeOK
  BY TypesInit
<1>2. ASSUME NEW s \in Servers PROVE queue[s] = << >> /\ memory[s] = << >> /\ rows = {}
  BY DEF Init
<1>3. DOMAIN << >> = {}
  OBVIOUS
<1>4. ASSUME NEW s \in Servers PROVE InTurn(s) /\ MemoryOwn(s)
  BY <1>2, <1>3 DEF InTurn, MemoryOwn
<1> QED
  BY <1>1, <1>4 DEF ClockInv, Init

(* The ways a queue and a memory may change.                                 *)
LEMMA ClockGoesOn ==
  ASSUME ClockInv, NEW s \in Servers, rows' = rows, now' >= now, now' \in Nat
  PROVE  /\ queue'[s] = queue[s] => InTurn(s)'
         /\ memory'[s] = memory[s] => MemoryOwn(s)'
         /\ queue'[s] = << >> => InTurn(s)'
         /\ memory'[s] = << >> => MemoryOwn(s)'
<1>1. now \in Nat /\ \A e \in Event : e.time \in Nat
  BY DEF ClockInv, TypeOK, Event
<1>2. \A e : OwnEvent(s, e) => OwnEvent(s, e)'
  BY <1>1 DEF OwnEvent
<1>3. ASSUME queue'[s] = queue[s] PROVE InTurn(s)'
  BY <1>2, <1>3 DEF ClockInv, InTurn
<1>4. ASSUME memory'[s] = memory[s] PROVE MemoryOwn(s)'
  BY <1>2, <1>4 DEF ClockInv, MemoryOwn
<1>5. DOMAIN << >> = {}
  OBVIOUS
<1>6. ASSUME queue'[s] = << >> PROVE InTurn(s)'
  BY <1>5, <1>6 DEF InTurn
<1>7. ASSUME memory'[s] = << >> PROVE MemoryOwn(s)'
  BY <1>5, <1>7 DEF MemoryOwn
<1> QED
  BY <1>3, <1>4, <1>6, <1>7

LEMMA AppendedInTurn ==
  ASSUME ClockInv, NEW s \in Servers, NEW e \in Event, e.server = s, e.time = now,
         rows' = rows, now' = now, queue'[s] = Append(queue[s], e)
  PROVE  InTurn(s)'
<1> DEFINE q == queue[s]
           n == Len(q)
           q1 == queue'[s]
<1>1. q \in Seq(Event) /\ now \in Nat /\ \A d \in Event : d.time \in Nat
  BY DEF ClockInv, TypeOK, Event
<1>2. n \in Nat /\ DOMAIN q = 1..n /\ \A i \in 1..n : q[i] \in Event
  BY <1>1, LenProperties, ElementOfSeq
<1>3. /\ q1 \in Seq(Event) /\ Len(q1) = n + 1
      /\ \A i \in 1..n : q1[i] = q[i]
      /\ q1[n + 1] = e
  BY <1>1, AppendProperties
<1>4. DOMAIN q1 = 1..(n + 1)
  BY <1>3, LenProperties
<1>5. /\ \A i \in 1..n : OwnEvent(s, q[i])
      /\ \A i, j \in 1..n : i < j => q[i].time <= q[j].time
      /\ \A r \in rows, i \in 1..n : r.event.server = s => r.event.time <= q[i].time
      /\ \A r \in rows : r.event.time <= now
  BY <1>2 DEF ClockInv, InTurn
<1> HIDE DEF q, n, q1
<1>6. ASSUME NEW i \in 1..(n + 1)
      PROVE  \/ i \in 1..n /\ q1[i] = q[i]
             \/ i = n + 1 /\ q1[i] = e
  BY <1>2, <1>3
<1>7. \A i \in 1..(n + 1) : OwnEvent(s, q1[i])
  BY <1>1, <1>5, <1>6 DEF OwnEvent
<1>8. ASSUME NEW i \in 1..(n + 1), NEW j \in 1..(n + 1), i < j
      PROVE  q1[i].time <= q1[j].time
  <2>1. i \in 1..n /\ q1[i] = q[i]
    BY <1>2, <1>6, <1>8
  <2>2. q[i].time <= now
    BY <1>5, <2>1 DEF OwnEvent
  <2> QED
    BY <1>5, <1>6, <1>8, <2>1, <2>2
<1>9. \A r \in rows, i \in 1..(n + 1) : r.event.server = s => r.event.time <= q1[i].time
  BY <1>5, <1>6
<1>10. \A d : OwnEvent(s, d)' <=> OwnEvent(s, d)
  BY DEF OwnEvent
<1> QED
  BY <1>4, <1>7, <1>8, <1>9, <1>10 DEF InTurn, q1
LEMMA LoneInTurn ==
  ASSUME ClockInv, NEW s \in Servers, NEW e \in Event, e.server = s, e.time = now,
         rows' = rows, now' = now, queue'[s] = <<e>>
  PROVE  InTurn(s)'
<1>1. now \in Nat /\ \A r \in rows : r.event.time <= now
  BY DEF ClockInv, TypeOK
<1>2. DOMAIN queue'[s] = {1} /\ queue'[s][1] = e
  OBVIOUS
<1>3. OwnEvent(s, e)'
  BY <1>1 DEF OwnEvent
<1> QED
  BY <1>1, <1>2, <1>3 DEF InTurn

LEMMA BackfilledInTurn ==
  ASSUME ClockInv, NEW s \in Servers, rows = {}, rows' = rows, now' = now,
         queue'[s] = Chronological(memory[s])
  PROVE  InTurn(s)'
<1> DEFINE log == memory[s]
           q   == Chronological(log)
<1>1. log \in Seq(Logged) /\ \A i \in DOMAIN log : OwnEvent(s, log[i].event)
  BY DEF ClockInv, TypeOK, MemoryOwn
<1>2. /\ DOMAIN q = DOMAIN log
      /\ \A i \in DOMAIN log : \E k \in DOMAIN log : q[i] = log[k].event
      /\ \A i, j \in DOMAIN log : i < j => q[i].time <= q[j].time
  BY <1>1, ChronologicalFacts
<1>3. \A e : OwnEvent(s, e)' <=> OwnEvent(s, e)
  BY DEF OwnEvent
<1> HIDE DEF q, log
<1>4. queue'[s] = q
  BY DEF q, log
<1> QED
  BY <1>1, <1>2, <1>3, <1>4 DEF InTurn

(* An event taken from the queue is not younger than those behind it, and    *)
(* not older than what its server wrote before.                              *)
LEMMA TaskFacts ==
  ASSUME ClockInv, NEW s \in Servers, NextTask(s)
  PROVE  /\ OwnEvent(s, Head(queue[s])) /\ Candidate(s).event = Head(queue[s])
         /\ \A r \in rows : r.event.server = s => r.event.time <= Head(queue[s]).time
         /\ \A i \in DOMAIN queue'[s] :
              /\ i + 1 \in DOMAIN queue[s] /\ queue'[s][i] = queue[s][i + 1]
              /\ Head(queue[s]).time <= queue'[s][i].time
<1> DEFINE q == queue[s]
           n == Len(q)
<1>1. q \in Seq(Event) /\ q # << >> /\ queue'[s] = Tail(q)
  BY DEF NextTask, ClockInv, TypeOK
<1>2. n \in Nat \ {0} /\ DOMAIN q = 1..n /\ Head(q) = q[1]
  BY <1>1, EmptySeq, LenProperties
<1>3. /\ DOMAIN Tail(q) = 1..(n - 1)
      /\ \A i \in 1..(n - 1) : Tail(q)[i] = q[i + 1]
  <2>1. Tail(q) \in Seq(Event) /\ Len(Tail(q)) = n - 1
        /\ \A i \in 1..Len(Tail(q)) : Tail(q)[i] = q[i + 1]
    BY <1>1, HeadTailProperties
  <2> QED
    BY <2>1, LenProperties
<1>4. /\ OwnEvent(s, q[1])
      /\ \A i, j \in 1..n : i < j => q[i].time <= q[j].time
      /\ \A r \in rows : r.event.server = s => r.event.time <= q[1].time
  <2>1. InTurn(s)
    BY DEF ClockInv
  <2>2. 1 \in 1..n
    BY <1>2
  <2> QED
    BY <1>2, <2>1, <2>2 DEF InTurn
<1>5. Candidate(s).event = Head(q)
  BY DEF Candidate
<1> HIDE DEF q, n
<1>6. ASSUME NEW i \in 1..(n - 1)
      PROVE  i + 1 \in 1..n /\ Tail(q)[i] = q[i + 1] /\ q[1].time <= Tail(q)[i].time
  BY <1>2, <1>3, <1>4
<1>7. queue'[s] = Tail(q) /\ queue[s] = q
  BY <1>1 DEF q
<1> QED
  BY <1>2, <1>3, <1>4, <1>5, <1>6, <1>7

LEMMA TaskInTurn ==
  ASSUME ClockInv, NEW s \in Servers, NextTask(s), now' = now,
         \A r \in rows' : r \in rows \/ r = Candidate(s), NEW o \in Servers
  PROVE  InTurn(o)' /\ \A r \in rows' : r.event.time <= now'
<1> DEFINE e == Head(queue[s])
<1>1. /\ OwnEvent(s, e) /\ \A r \in rows' : r \in rows \/ r.event = e
      /\ \A r \in rows : r.event.server = s => r.event.time <= e.time
      /\ \A i \in DOMAIN queue'[s] :
           /\ i + 1 \in DOMAIN queue[s] /\ queue'[s][i] = queue[s][i + 1]
           /\ e.time <= queue'[s][i].time
  BY TaskFacts
<1>2. \A d : OwnEvent(o, d)' <=> OwnEvent(o, d)
  BY DEF OwnEvent
<1>3. InTurn(o) /\ \A r \in rows : r.event.time <= now
  BY DEF ClockInv
<1> HIDE DEF e
<1>4. \A r \in rows' : r.event.time <= now'
  BY <1>1, <1>3 DEF OwnEvent
<1>5. CASE o # s
  <2>1. queue'[o] = queue[o]
    BY <1>5 DEF NextTask, ClockInv, TypeOK
  <2>2. \A r \in rows' : r.event.server = o => r \in rows
    BY <1>1, <1>5 DEF OwnEvent
  <2> QED
    BY <1>2, <1>3, <1>4, <2>1, <2>2 DEF InTurn
<1>6. CASE o = s
  <2>1. queue[s] \in Seq(Event) /\ queue'[s] \in Seq(Event)
    <3>1. queue[s] \in Seq(Event) /\ queue[s] # << >> /\ queue'[s] = Tail(queue[s])
      BY DEF NextTask, ClockInv, TypeOK
    <3> QED
      BY <3>1, HeadTailProperties
  <2>2. DOMAIN queue[s] = 1..Len(queue[s]) /\ DOMAIN queue'[s] = 1..Len(queue'[s])
    BY <2>1, LenProperties
  <2>3. \A i \in DOMAIN queue'[s] : OwnEvent(s, queue'[s][i])
    BY <1>1, <1>3, <1>6 DEF InTurn
  <2>4. \A i, j \in DOMAIN queue'[s] : i < j => queue'[s][i].time <= queue'[s][j].time
    <3>1. \A i, j \in DOMAIN queue[s] : i < j => queue[s][i].time <= queue[s][j].time
      BY <1>3, <1>6 DEF InTurn
    <3>2. ASSUME NEW i \in DOMAIN queue'[s], NEW j \in DOMAIN queue'[s], i < j
          PROVE  queue'[s][i].time <= queue'[s][j].time
      <4>1. i + 1 \in DOMAIN queue[s] /\ j + 1 \in DOMAIN queue[s] /\ i + 1 < j + 1
        BY <1>1, <2>2, <3>2
      <4>2. queue[s][i + 1].time <= queue[s][j + 1].time
        BY <3>1, <4>1
      <4> QED
        BY <1>1, <4>2
    <3> QED
      BY <3>2
  <2>5. \A r \in rows', i \in DOMAIN queue'[s] :
          r.event.server = s => r.event.time <= queue'[s][i].time
    <3>1. ASSUME NEW r \in rows', NEW i \in DOMAIN queue'[s], r.event.server = s
          PROVE  r.event.time <= queue'[s][i].time
      <4>1. CASE r \in rows
        <5>1. i + 1 \in DOMAIN queue[s] /\ queue'[s][i] = queue[s][i + 1]
          BY <1>1
        <5> QED
          BY <1>3, <1>6, <3>1, <4>1, <5>1 DEF InTurn
      <4>2. CASE r.event = e
        BY <1>1, <4>2
      <4> QED
        BY <1>1, <4>1, <4>2
    <3> QED
      BY <3>1
  <2> QED
    BY <1>2, <1>4, <1>6, <2>3, <2>4, <2>5 DEF InTurn
<1> QED
  BY <1>5, <1>6
LEMMA ClockStep == Inv /\ ClockInv /\ [Next]_vars => ClockInv'
<1> SUFFICES ASSUME Inv, ClockInv, [Next]_vars PROVE ClockInv'
  OBVIOUS
<1>1. TypeOK /\ TypeOK' /\ now \in Nat /\ \A r \in rows : r.event.time \in Nat
  <2>1. TypeOK /\ TypeOK'
    BY TypesStep DEF ClockInv
  <2> QED
    BY <2>1 DEF TypeOK, Row, Event
<1>2. ASSUME rows' = rows, now' = now, \A s \in Servers : InTurn(s)' /\ MemoryOwn(s)'
      PROVE  ClockInv'
  BY <1>1, <1>2 DEF ClockInv
<1>3. ASSUME rows' = rows, now' >= now, \A s \in Servers : InTurn(s)' /\ MemoryOwn(s)'
      PROVE  ClockInv'
  <2>1. \A r \in rows' : r.event.time <= now'
    BY <1>1, <1>3 DEF ClockInv, TypeOK
  <2> QED
    BY <1>1, <1>3, <2>1 DEF ClockInv
<1>4. ASSUME rows' = rows, now' >= now, queue' = queue, memory' = memory
      PROVE  ClockInv'
  <2>1. now' \in Nat
    BY <1>1 DEF TypeOK
  <2>2. \A s \in Servers : InTurn(s)' /\ MemoryOwn(s)'
    BY <1>4, <2>1, ClockGoesOn
  <2> QED
    BY <1>3, <1>4, <2>2
<1>5. CASE UNCHANGED vars \/ Tick
  BY <1>1, <1>4, <1>5 DEF vars, Tick, local
<1>6. ASSUME NEW s \in Servers, Start(s) \/ GoOffline(s) \/ Hydrate(s)
      PROVE  ClockInv'
  BY <1>1, <1>4, <1>6 DEF Start, GoOffline, Hydrate
<1>7. ASSUME rows' = rows, now' = now, NEW s \in Servers, InTurn(s)', MemoryOwn(s)',
             \A o \in Servers \ {s} : queue'[o] = queue[o] /\ memory'[o] = memory[o]
      PROVE  ClockInv'
  <2>1. now' \in Nat /\ now' >= now
    BY <1>1, <1>7
  <2>2. ASSUME NEW o \in Servers PROVE InTurn(o)' /\ MemoryOwn(o)'
    <3>1. CASE o = s
      BY <1>7, <3>1
    <3>2. CASE o # s
      BY <1>7, <2>1, <3>2, ClockGoesOn
    <3> QED
      BY <3>1, <3>2
  <2> QED
    BY <1>2, <1>7, <2>2
<1>8. ASSUME rows' = rows, now' = now, NEW s \in Servers
      PROVE  /\ queue'[s] = queue[s] => InTurn(s)'
             /\ memory'[s] = memory[s] => MemoryOwn(s)'
             /\ queue'[s] = << >> => InTurn(s)'
  BY <1>1, <1>8, ClockGoesOn
<1>9. ASSUME NEW s \in Servers, Connect(s)
      PROVE  ClockInv'
  <2>1. /\ rows' = rows /\ now' = now /\ memory' = memory
        /\ \A o \in Servers \ {s} : queue'[o] = queue[o]
        /\ queue'[s] = queue[s] \/ queue'[s] = <<SealEvent(s)>>
    BY <1>1, <1>9 DEF Connect, TypeOK
  <2>2. InTurn(s)'
    <3>1. CASE queue'[s] = queue[s]
      BY <1>8, <2>1, <3>1
    <3>2. CASE queue'[s] = <<SealEvent(s)>>
      BY <1>1, <2>1, <3>2, NewEventType, LoneInTurn
    <3> QED
      BY <2>1, <3>1, <3>2
  <2> QED
    BY <1>7, <1>8, <2>1, <2>2
<1>10. ASSUME NEW s \in Servers, Backfill(s)
       PROVE  ClockInv'
  <2>1. /\ rows' = rows /\ now' = now /\ memory' = memory
        /\ \A o \in Servers \ {s} : queue'[o] = queue[o]
        /\ \/ queue'[s] = queue[s]
           \/ rows = {} /\ queue'[s] = Chronological(memory[s])
    BY <1>1, <1>10 DEF Backfill, TypeOK
  <2>2. InTurn(s)'
    BY <1>8, <2>1, BackfilledInTurn
  <2> QED
    BY <1>7, <1>8, <2>1, <2>2
<1>11. ASSUME NEW s \in Servers, RecordAudit(s)
       PROVE  ClockInv'
  <2>1. /\ rows' = rows /\ now' = now
        /\ \A o \in Servers \ {s} : queue'[o] = queue[o]
        /\ queue'[s] = queue[s] \/ queue'[s] = Append(queue[s], NewEvent(s))
        /\ Remember(s, phase[s] = "up")
    BY <1>1, <1>11 DEF RecordAudit, TypeOK
  <2>2. /\ \A o \in Servers \ {s} : memory'[o] = memory[o]
        /\ \A i \in DOMAIN memory'[s] :
             \/ memory'[s][i].event = NewEvent(s)
             \/ \E k \in DOMAIN memory[s] : memory'[s][i] = memory[s][k]
    BY <1>1, <2>1, RememberType
  <2>3. NewEvent(s) \in Event /\ NewEvent(s).server = s /\ NewEvent(s).time = now
    BY <1>1, NewEventType
  <2>4. InTurn(s)'
    BY <1>8, <2>1, <2>3, AppendedInTurn
  <2>5. MemoryOwn(s)'
    <3>1. \A d : OwnEvent(s, d)' <=> OwnEvent(s, d)
      BY <2>1 DEF OwnEvent
    <3>2. OwnEvent(s, NewEvent(s))
      BY <1>1, <2>3 DEF OwnEvent
    <3>3. \A k \in DOMAIN memory[s] : OwnEvent(s, memory[s][k].event)
      BY DEF ClockInv, MemoryOwn
    <3>4. ASSUME NEW i \in DOMAIN memory'[s] PROVE OwnEvent(s, memory'[s][i].event)
      BY <2>2, <3>2, <3>3
    <3> QED
      BY <3>1, <3>4 DEF MemoryOwn
  <2> QED
    BY <1>7, <2>1, <2>2, <2>4, <2>5
<1>12. ASSUME NEW s \in Servers, NextTask(s), now' = now, memory' = memory,
              \A r \in rows' : r \in rows \/ r = Candidate(s)
       PROVE  ClockInv'
  <2>1. \A o \in Servers : InTurn(o)' /\ \A r \in rows' : r.event.time <= now'
    BY <1>12, TaskInTurn
  <2>2. \A o \in Servers : MemoryOwn(o)'
    <3>1. \A o \in Servers : MemoryOwn(o)
      BY DEF ClockInv
    <3> QED
      BY <1>12, <3>1 DEF MemoryOwn, OwnEvent
  <2> QED
    BY <1>1, <1>12, <2>1, <2>2 DEF ClockInv
<1>13. ASSUME NEW s \in Servers, WriteAuditLog(s) \/ WriteIgnored(s) \/ WriteFails(s)
       PROVE  ClockInv'
  <2>1. /\ NextTask(s) /\ now' = now /\ memory' = memory
        /\ rows' = rows \/ rows' = rows \union {Candidate(s)}
    BY <1>13 DEF WriteAuditLog, WriteIgnored, WriteFails
  <2> QED
    BY <1>12, <2>1
<1>14. ASSUME NEW s \in Servers, ReloadTip(s)
       PROVE  ClockInv'
  <2>1. rows' = rows /\ now' = now /\ memory' = memory
    BY <1>14 DEF ReloadTip
  <2>2. /\ \A o \in Servers \ {s} : queue'[o] = queue[o]
        /\ queue'[s] = queue[s] \/ queue'[s] = << >>
    <3>1. \/ queue' = queue
          \/ queue' = [queue EXCEPT ![s] = IF phase[s] = "hydrating" THEN << >> ELSE queue[s]]
      BY <1>14 DEF ReloadTip
    <3> QED
      BY <1>1, <3>1 DEF TypeOK
  <2> QED
    BY <1>7, <1>8, <2>1, <2>2
<1>15. ASSUME NEW s \in Servers, Crash(s)
       PROVE  ClockInv'
  <2>1. rows' = rows /\ now' >= now /\ now' \in Nat
    BY <1>1, <1>15 DEF Crash
  <2>2. /\ queue'[s] = << >> /\ memory'[s] = << >>
        /\ \A o \in Servers \ {s} : queue'[o] = queue[o] /\ memory'[o] = memory[o]
    BY <1>1, <1>15 DEF Crash, TypeOK
  <2>3. \A o \in Servers : InTurn(o)' /\ MemoryOwn(o)'
    BY <2>1, <2>2, ClockGoesOn
  <2> QED
    BY <1>3, <2>1, <2>3
<1> QED
  BY <1>5, <1>6, <1>9, <1>10, <1>11, <1>13, <1>14, <1>15 DEF Next, Boot, Queue

LEMMA ClockHolds == Spec => []ClockInv
<1> QED
  BY InvHolds, ClockInit, ClockStep, PTL DEF Spec

-----------------------------------------------------------------------------
(* The trail                                                                 *)
Written == [i \in 1..Cardinality(rows) |-> (CHOOSE r \in rows : r.seq = i).event]

LEMMA WrittenFacts ==
  ASSUME Numbered
  PROVE  /\ Cardinality(rows) \in Nat
         /\ \A r \in rows : r.seq \in DOMAIN Written /\ Written[r.seq] = r.event
         /\ \A i \in DOMAIN Written : \E r \in rows : r.seq = i /\ Written[i] = r.event
<1> DEFINE c == Cardinality(rows)
<1>1. /\ c \in Nat /\ \A r \in rows : r.seq \in 1..c
      /\ {r.seq : r \in rows} = 1..c /\ \A r, q \in rows : r.seq = q.seq => r = q
  BY RowsCounted DEF Numbered
<1>2. ASSUME NEW r \in rows PROVE (CHOOSE q \in rows : q.seq = r.seq) = r
  BY <1>1
<1>3. \A r \in rows : r.seq \in DOMAIN Written /\ Written[r.seq] = r.event
  BY <1>1, <1>2 DEF Written
<1>4. DOMAIN Written = {r.seq : r \in rows}
  BY <1>1 DEF Written
<1> QED
  BY <1>1, <1>3, <1>4

LEMMA InsertAppends ==
  ASSUME Inv, ClockInv, NEW s \in Servers, NextTask(s), ~Conflicts(Candidate(s)),
         rows' = rows \union {Candidate(s)}
  PROVE  Trail!Next
<1> DEFINE row == Candidate(s)
           c   == Cardinality(rows)
           e   == row.event
<1>1. Inv /\ Numbered /\ Numbered' /\ \A r \in rows : r.seq \in 1..c
  BY InsertKeepsChain, RowsCounted DEF Inv
<1>2. c \in Nat /\ Cardinality(rows') = c + 1 /\ row \notin rows
  <2>1. row \notin rows
    BY DEF Conflicts
  <2> QED
    BY <1>1, <2>1, FS_AddElement, FS_CardinalityType DEF Numbered
<1>3. row.seq = c + 1
  <2>1. /\ {r.seq : r \in rows} = 1..c
        /\ {r.seq : r \in rows'} = 1..(c + 1)
        /\ \A r, q \in rows' : r.seq = q.seq => r = q
    BY <1>1, <1>2 DEF Numbered
  <2>2. PICK r \in rows' : r.seq = c + 1
    BY <1>2, <2>1
  <2>3. r \notin rows
    BY <1>1, <1>2, <2>2
  <2> QED
    BY <2>2, <2>3
<1>4. e \in Event /\ \A r \in rows : Id(r.event) # Id(e) /\ (r.event.server = e.server => r.event.time <= e.time)
  <2>1. OwnEvent(s, e) /\ \A r \in rows : r.event.server = s => r.event.time <= e.time
    BY TaskFacts
  <2> QED
    BY <2>1 DEF OwnEvent, Conflicts
<1>5. /\ \A r \in rows : r.seq \in DOMAIN Written /\ Written[r.seq] = r.event
      /\ \A i \in DOMAIN Written : \E r \in rows : r.seq = i /\ Written[i] = r.event
      /\ DOMAIN Written = 1..c
  BY <1>1, WrittenFacts DEF Written
<1>6. /\ \A r \in rows' : r.seq \in DOMAIN Written' /\ Written'[r.seq] = r.event
      /\ DOMAIN Written' = 1..(c + 1)
  <2>1. (Numbered => \A r \in rows : r.seq \in DOMAIN Written /\ Written[r.seq] = r.event)'
    BY WrittenFacts, PTL
  <2> QED
    BY <1>1, <1>2, <2>1 DEF Written
<1>7. rows' = rows \union {row}
  OBVIOUS
<1>8. TypeOK /\ \A r \in rows : r.event \in Event
  BY DEF ClockInv, TypeOK, Row
<1> HIDE DEF row, c
<1>9. Written \in Seq(Event) /\ Len(Written) = c
  <2>1. Written \in [1..c -> Event]
    BY <1>5, <1>8 DEF Written, c
  <2> QED
    BY <1>2, <2>1
<1>10. Written' = Append(Written, e)
  <2>1. /\ Append(Written, e) \in Seq(Event) /\ Len(Append(Written, e)) = c + 1
        /\ \A i \in 1..c : Append(Written, e)[i] = Written[i]
        /\ Append(Written, e)[c + 1] = e
    BY <1>4, <1>9, AppendProperties
  <2>2. Append(Written, e) \in [1..(c + 1) -> Event]
    BY <2>1, LenProperties
  <2>3. ASSUME NEW i \in 1..(c + 1) PROVE Written'[i] = Append(Written, e)[i]
    <3>1. CASE i = c + 1
      BY <1>3, <1>6, <1>7, <2>1, <3>1
    <3>2. CASE i # c + 1
      <4>1. i \in 1..c
        BY <1>2, <3>2
      <4>2. PICK r \in rows : r.seq = i /\ Written[i] = r.event
        BY <1>5, <4>1
      <4>3. Written'[i] = r.event
        BY <1>6, <1>7, <4>2
      <4> QED
        BY <2>1, <4>1, <4>2, <4>3
    <3> QED
      BY <3>1, <3>2
  <2>4. Written' = [i \in 1..(c + 1) |-> Written'[i]]
    BY <1>6 DEF Written
  <2> QED
    BY <2>2, <2>3, <2>4
<1>11. \A i \in DOMAIN Written : Written[i] # e /\ (Written[i].server = e.server => Written[i].time <= e.time)
  BY <1>4, <1>5
<1>12. Written' # << >> /\ Written'[Len(Written')] = e
  <2>1. /\ Append(Written, e) # << >> /\ Len(Append(Written, e)) = c + 1
        /\ Append(Written, e)[c + 1] = e
    BY <1>4, <1>9, AppendProperties
  <2> QED
    BY <1>10, <2>1
<1>13. e \notin Trail!ToSet(Written)
  BY <1>11 DEF Trail!ToSet
<1>14. Trail!Last(Written') = e
  BY <1>12 DEF Trail!Last
<1> HIDE DEF e
<1>15. LET last == Trail!Last(Written')
       IN  /\ last \in Event /\ last \notin Trail!ToSet(Written)
           /\ \A i \in DOMAIN Written : Written[i].server = last.server => Written[i].time <= last.time
           /\ Written' = Append(Written, last)
  BY <1>4, <1>10, <1>11, <1>13, <1>14
<1> QED
  BY <1>12, <1>15, Zenon DEF Trail!Next, Trail!Add, Written

LEMMA TrailStep == Inv /\ ClockInv /\ [Next]_vars => [Trail!Next]_Written
<1> SUFFICES ASSUME Inv, ClockInv, [Next]_vars PROVE [Trail!Next]_Written
  OBVIOUS
<1>1. ASSUME rows' = rows PROVE Written' = Written
  BY <1>1 DEF Written
<1>2. CASE rows' = rows
  BY <1>1, <1>2
<1>3. ASSUME NEW s \in Servers, WriteAuditLog(s) \/ WriteFails(s), rows' # rows
      PROVE  Trail!Next
  <2>1. NextTask(s) /\ ~Conflicts(Candidate(s)) /\ rows' = rows \union {Candidate(s)}
    BY <1>3 DEF WriteAuditLog, WriteFails
  <2> QED
    BY <2>1, InsertAppends
<1>4. rows' = rows \/ \E s \in Servers : WriteAuditLog(s) \/ WriteFails(s)
  BY DEF Next, vars, Tick, local, Boot, Start, Connect, GoOffline, Backfill, Hydrate,
         RecordAudit, Queue, WriteIgnored, ReloadTip, Crash
<1> QED
  BY <1>2, <1>3, <1>4

(* The table implements the trail: it only grows, at its end, by an event    *)
(* it does not hold, and never by one older than another of its server,      *)
(* whichever servers share it, crash, or write without an answer.            *)
THEOREM TableImplementsTrail == Spec => ImplementsTrail
<1>1. Init => Trail!Init
  <2> SUFFICES ASSUME Init PROVE Written = << >>
    BY DEF Trail!Init, Written
  <2>1. Cardinality(rows) = 0
    BY FS_EmptySet DEF Init
  <2> QED
    BY <2>1 DEF Written
<1>2. Inv /\ ClockInv /\ [Next]_vars => [Trail!Next]_[i \in 1..Cardinality(rows) |-> (CHOOSE r \in rows : r.seq = i).event]
  BY TrailStep DEF Written
<1> QED
  BY <1>1, <1>2, InvHolds, ClockHolds, PTL DEF Spec, ImplementsTrail, Trail!Spec

-----------------------------------------------------------------------------
(* What is recorded is kept. A server that is down has forgotten everything, *)
(* and before it is up nothing of its log has passed the hook.               *)
Lone(s) ==
    /\ faults = 0 /\ phase[s] # "down"
    /\ \A o \in Servers \ {s} : phase[o] = "down"

Events(s) == {memory[s][i].event : i \in DOMAIN memory[s]}

Resting(s) ==
    /\ phase[s] = "down" =>
         /\ memory[s] = << >> /\ lastHash[s] = Genesis /\ queue[s] = << >>
         /\ ~reloading[s] /\ ~loadFailed[s]
    /\ phase[s] # "up" =>
         hydrated[s] = 0 /\ \A i \in DOMAIN memory[s] : ~memory[s][i].hooked

(* The events of a log are numbered downwards from its newest.               *)
Counted(s) ==
    LET n(i) == memory[s][i].event.n
    IN  /\ \A i \in DOMAIN memory[s] : 1 <= n(i) /\ n(i) <= Len(memory[s]) + hydrated[s]
        /\ \A i, j \in DOMAIN memory[s] : i < j => n(i) > n(j)

(* Without the database the log is one chain, from its oldest event.         *)
ChainOf(log, end) ==
    /\ \A i \in 1..Len(log) :
         log[i].prev = IF i = Len(log) THEN Genesis ELSE log[i + 1].cur
    /\ end = IF log = << >> THEN Genesis ELSE log[1].cur

LoggedInv(s) ==
    LET log == memory[s]
    IN  /\ \A i \in 1..Len(log) : log[i].cur = Hash(log[i].event, log[i].prev)
        /\ \A i, j \in 1..Len(log) : i < j => log[i].event.time >= log[j].event.time
        /\ phase[s] \in {"connecting", "offline"} => ChainOf(log, lastHash[s])

(* While a server is alone, no id meets itself in its queue and the table:   *)
(* both hold its own events, but for that of the sealing.                    *)
Known(s, e) == e.n = 0 \/ e \in Events(s)

Distinct(s) ==
    /\ \A i, j \in DOMAIN queue[s] : i < j => Id(queue[s][i]) # Id(queue[s][j])
    /\ \A r \in rows, i \in DOMAIN queue[s] : Id(r.event) # Id(queue[s][i])
    /\ \A i \in DOMAIN queue[s] : Known(s, queue[s][i])
    /\ \A r \in rows : Known(s, r.event)

Sealing(s) ==
    /\ \A r \in rows : r.event.n = 0
    /\ \A i \in DOMAIN queue[s] : queue[s][i].n = 0
    /\ Len(queue[s]) <= 1
    /\ rows = {} \/ queue[s] = << >>

NothingLost(s) ==
    \A i \in DOMAIN memory[s] :
        memory[s][i].hooked \/ ~(\E r \in rows : r.event.n = 0) =>
            memory[s][i].event \in Durable \union Pending(s)

LoneInv(s) ==
    Lone(s) =>
        /\ ~reloading[s] /\ ~loadFailed[s]
        /\ phase[s] \in {"connecting", "offline"} => rows = {} /\ queue[s] = << >>
        /\ phase[s] \in {"backfilling", "hydrating", "up"} =>
             tip[s].seq = Cardinality(rows) /\ Distinct(s)
        /\ phase[s] = "backfilling" => Sealing(s)
        /\ phase[s] \in {"hydrating", "up"} => NothingLost(s)

KeptInv ==
    /\ faults = 0 /\ (\A s \in Servers : phase[s] = "down") => rows = {}
    /\ \A s \in Servers : Resting(s) /\ Counted(s) /\ LoggedInv(s) /\ LoneInv(s)

-----------------------------------------------------------------------------
(* The log in memory                                                         *)
LEMMA LogFacts ==
  ASSUME TypeOK, NEW s \in Servers, LoggedInv(s), ChainOf(memory[s], lastHash[s]),
         NEW log, log = memory[s], NEW n, n = Len(log)
  PROVE  /\ n \in Nat /\ DOMAIN log = 1..n
         /\ \A i \in 1..n : log[i].event.time \in Nat /\ log[i].prev \in Seq(Event)
                              /\ log[i].cur = Hash(log[i].event, log[i].prev)
                              /\ log[i].cur \in Seq(Event)
                              /\ Len(log[i].cur) = Len(log[i].prev) + 1
         /\ \A i \in 1..n : log[i].prev = IF i = n THEN Genesis ELSE log[i + 1].cur
         /\ \A i, j \in 1..n : i < j => log[i].event.time >= log[j].event.time
<1>1. log \in Seq(Logged)
  BY DEF TypeOK
<1>2. /\ n \in Nat /\ DOMAIN log = 1..n
      /\ \A i \in 1..n : log[i].event \in Event /\ log[i].event.time \in Nat
  BY <1>1, LoggedFacts
<1>3. ASSUME NEW i \in 1..n
      PROVE  log[i].prev \in Seq(Event) /\ log[i].cur = Append(log[i].prev, log[i].event)
  <2>1. log[i] \in Logged
    BY <1>1, <1>2, ElementOfSeq
  <2> QED
    BY <2>1 DEF Logged, LoggedInv, Hash
<1>4. ASSUME NEW i \in 1..n
      PROVE  log[i].cur \in Seq(Event) /\ Len(log[i].cur) = Len(log[i].prev) + 1
  <2> DEFINE prev  == log[i].prev
             event == log[i].event
  <2>1. prev \in Seq(Event) /\ event \in Event /\ log[i].cur = Append(prev, event)
    BY <1>2, <1>3
  <2> HIDE DEF prev, event
  <2>2. Append(prev, event) \in Seq(Event) /\ Len(Append(prev, event)) = Len(prev) + 1
    BY ONLY <2>1, AppendProperties
  <2> QED
    BY <2>1, <2>2 DEF prev
<1>5. \A i \in 1..n : log[i].prev = IF i = n THEN Genesis ELSE log[i + 1].cur
  BY DEF ChainOf
<1>6. \A i, j \in 1..n : i < j => log[i].event.time >= log[j].event.time
  BY DEF LoggedInv
<1> QED
  BY <1>2, <1>3, <1>4, <1>5, <1>6 DEF Hash

(* The hash at a position covers the events from there to the oldest.        *)
Hashed(log, n) ==
    \A i \in 1..n :
        /\ log[i].prev \in Seq(Event) /\ Len(log[i].cur) = Len(log[i].prev) + 1
        /\ log[i].prev = IF i = n THEN Genesis ELSE log[i + 1].cur

LEMMA HashLengths ==
  ASSUME NEW log, NEW n \in Nat, Hashed(log, n)
  PROVE  \A i \in 1..n : Len(log[i].cur) = n + 1 - i
<1>0. \A i \in 1..n : /\ log[i].prev \in Seq(Event) /\ Len(log[i].cur) = Len(log[i].prev) + 1
                     /\ log[i].prev = IF i = n THEN Genesis ELSE log[i + 1].cur
  BY DEF Hashed
<1> DEFINE Bad == {d \in Nat : d < n /\ Len(log[n - d].cur) # d + 1}
<1>1. SUFFICES ASSUME Bad # {} PROVE FALSE
  <2> SUFFICES ASSUME Bad = {}, NEW i \in 1..n PROVE Len(log[i].cur) = n + 1 - i
    BY <1>1
  <2>1. n - i \in Nat /\ n - i < n /\ n - (n - i) = i /\ (n - i) + 1 = n + 1 - i
    OBVIOUS
  <2>2. n - i \notin Bad
    OBVIOUS
  <2> QED
    BY <2>1, <2>2
<1>2. PICK d \in Bad : \A e \in Bad : d <= e
  BY <1>1, LeastOf
<1>3. d \in Nat /\ d < n /\ n - d \in 1..n /\ Len(log[n - d].cur) # d + 1
  OBVIOUS
<1>4. \A e \in Nat : e < n /\ e < d => Len(log[n - e].cur) = e + 1
  BY <1>2, <1>3
<1> HIDE DEF Bad
<1>5. CASE d = 0
  <2>1. log[n].prev = << >> /\ n \in 1..n /\ Len(<< >>) = 0
    BY <1>0, <1>3, <1>5, EmptySeq DEF Genesis
  <2>2. Len(log[n].cur) = 0 + 1
    BY <1>0, <2>1
  <2> QED
    BY <1>3, <1>5, <2>2
<1>6. CASE d # 0
  <2>1. d - 1 \in Nat /\ d - 1 < n /\ d - 1 < d /\ n - (d - 1) = (n - d) + 1
    BY <1>3, <1>6
  <2>2. Len(log[n - (d - 1)].cur) = (d - 1) + 1
    BY <1>4, <2>1
  <2>3. n - d \in 1..n /\ n - d # n
    BY <1>3, <1>6
  <2>4. /\ log[n - d].prev = log[(n - d) + 1].cur
        /\ Len(log[n - d].cur) = Len(log[n - d].prev) + 1
    BY <1>0, <2>3
  <2> QED
    BY <1>3, <2>1, <2>2, <2>4
<1> QED
  BY <1>5, <1>6

(* The order of the verification, and the log from its oldest event.         *)
Goes(p, log, n) ==
    \A k \in 1..n : log[p[k]].prev = IF k = 1 THEN Genesis ELSE log[p[k - 1]].cur

LEMMA VerifiedInOrder ==
  ASSUME NEW log, NEW n \in Nat, Hashed(log, n), NEW p \in [1..n -> 1..n], Goes(p, log, n)
  PROVE  \A k \in 1..n : p[k] = n + 1 - k
<1> DEFINE Bad == {k \in 1..n : p[k] # n + 1 - k}
<1>1. SUFFICES ASSUME Bad # {} PROVE FALSE
  OBVIOUS
<1>2. PICK k \in Bad : \A j \in Bad : k <= j
  <2>1. \A j \in Bad : j \in Nat
    OBVIOUS
  <2> HIDE DEF Bad
  <2>2. Bad \subseteq Nat
    BY <2>1
  <2> QED
    BY <1>1, <2>2, LeastOf
<1>0. /\ \A j \in 1..n : /\ log[j].prev \in Seq(Event)
                         /\ Len(log[j].cur) = Len(log[j].prev) + 1
                         /\ log[j].prev = IF j = n THEN Genesis ELSE log[j + 1].cur
      /\ \A j \in 1..n : log[p[j]].prev = IF j = 1 THEN Genesis ELSE log[p[j - 1]].cur
  BY DEF Hashed, Goes
<1>3. \A j \in 1..n : Len(log[j].cur) = n + 1 - j
  BY HashLengths
<1> DEFINE i == p[k]
<1>4. k \in 1..n /\ i \in 1..n /\ i # n + 1 - k
  OBVIOUS
<1>5. Len(log[i].cur) = n + 1 - i /\ Len(log[i].prev) = n - i
  <2>1. /\ Len(log[i].cur) = Len(log[i].prev) + 1 /\ log[i].prev \in Seq(Event)
        /\ Len(log[i].cur) = n + 1 - i
    BY <1>0, <1>3, <1>4
  <2>2. Len(log[i].prev) \in Nat
    BY <2>1, LenProperties
  <2> DEFINE before == Len(log[i].prev)
             all    == Len(log[i].cur)
  <2>3. all = before + 1 /\ all = n + 1 - i /\ before \in Nat /\ i \in 1..n
    BY <1>4, <2>1, <2>2
  <2> HIDE DEF i, before, all
  <2>4. all = n + 1 - i /\ before = n - i
    BY <2>3
  <2> QED
    BY <2>4 DEF before, all
<1>6. CASE k = 1
  <2>1. log[i].prev = << >>
    BY <1>0, <1>4, <1>6 DEF Genesis
  <2> QED
    BY <1>4, <1>5, <1>6, <2>1
<1>7. CASE k # 1
  <2>1. k - 1 \in 1..n /\ k - 1 \notin Bad
    BY <1>2, <1>4, <1>7
  <2>2. p[k - 1] = n + 1 - (k - 1) /\ p[k - 1] \in 1..n
    BY <2>1
  <2>3. Len(log[p[k - 1]].cur) = n + 1 - p[k - 1]
    BY <1>3, <2>2
  <2>4. log[i].prev = log[p[k - 1]].cur
    BY <1>0, <1>4, <1>7
  <2>5. Len(log[i].prev) = n + 1 - (n + 1 - (k - 1))
    BY <2>2, <2>3, <2>4
  <2> DEFINE before == Len(log[i].prev)
  <2>6. /\ k \in 1..n /\ i \in 1..n /\ i # n + 1 - k
        /\ before = n - i /\ before = n + 1 - (n + 1 - (k - 1))
    BY <1>4, <1>5, <2>5
  <2> HIDE DEF i, Bad, before
  <2> QED
    BY <2>6
<1> QED
  BY <1>6, <1>7

(* A falling sequence of all positions is the log from its oldest event.     *)
LEMMA FallingOrder ==
  ASSUME NEW n \in Nat, NEW p \in [1..n -> 1..n], \A i, j \in 1..n : i < j => p[i] > p[j]
  PROVE  \A k \in 1..n : p[k] = n + 1 - k
<1>1. \A k \in 1..n : p[k] <= n + 1 - k
  <2> DEFINE Bad == {k \in 1..n : ~(p[k] <= n + 1 - k)}
  <2>1. SUFFICES ASSUME Bad # {} PROVE FALSE
    OBVIOUS
  <2>2. PICK k \in Bad : \A j \in Bad : k <= j
    <3>1. \A j \in Bad : j \in Nat
      OBVIOUS
    <3> HIDE DEF Bad
    <3>2. Bad \subseteq Nat
      BY <3>1
    <3> QED
      BY <2>1, <3>2, LeastOf
  <2>3. k \in 1..n /\ p[k] \in 1..n /\ ~(p[k] <= n + 1 - k)
    OBVIOUS
  <2>4. k - 1 \in 1..n /\ k - 1 \notin Bad
    BY <2>2, <2>3
  <2>5. p[k - 1] \in 1..n /\ p[k - 1] <= n + 1 - (k - 1) /\ p[k - 1] > p[k]
    BY <2>3, <2>4
  <2> HIDE DEF Bad
  <2> QED
    BY <2>3, <2>4, <2>5
<1>2. \A k \in 1..n : p[k] >= n + 1 - k
  <2> DEFINE Bad == {d \in Nat : d < n /\ ~(p[n - d] >= d + 1)}
  <2>1. SUFFICES ASSUME Bad # {} PROVE FALSE
    <3> SUFFICES ASSUME Bad = {}, NEW k \in 1..n PROVE p[k] >= n + 1 - k
      BY <2>1
    <3>1. n - k \in Nat /\ n - k < n /\ n - (n - k) = k /\ (n - k) + 1 = n + 1 - k
      OBVIOUS
    <3>2. n - k \notin Bad
      OBVIOUS
    <3> QED
      BY <3>1, <3>2
  <2>2. PICK d \in Bad : \A e \in Bad : d <= e
    BY <2>1, LeastOf
  <2>3. d \in Nat /\ d < n /\ n - d \in 1..n /\ p[n - d] \in 1..n /\ ~(p[n - d] >= d + 1)
    OBVIOUS
  <2>4. \A e \in Nat : e < n /\ e < d => p[n - e] >= e + 1
    BY <2>2, <2>3
  <2> HIDE DEF Bad
  <2>6. d # 0 /\ d - 1 \in Nat /\ d - 1 < n /\ d - 1 < d /\ n - (d - 1) = (n - d) + 1
    BY <2>3
  <2>7. p[n - (d - 1)] >= (d - 1) + 1
    BY <2>4, <2>6
  <2>8. (n - d) + 1 \in 1..n /\ n - d < (n - d) + 1
    BY <2>3, <2>6
  <2>5. (n - d) + 1 \in 1..n /\ p[(n - d) + 1] >= d /\ p[n - d] > p[(n - d) + 1]
        /\ p[(n - d) + 1] \in 1..n
    BY <2>3, <2>6, <2>7, <2>8
  <2> HIDE DEF Bad
  <2> QED
    BY <2>3, <2>5
<1> QED
  BY <1>1, <1>2

(* The log of a server that is alone with its memory verifies just when no   *)
(* two of its events share a millisecond.                                    *)
LEMMA VerifiesIfApart ==
  ASSUME TypeOK, NEW s \in Servers, LoggedInv(s), ChainOf(memory[s], lastHash[s])
  PROVE  VerifyMemory(s) <=>
            \A i, k \in DOMAIN memory[s] :
                memory[s][i].event.time = memory[s][k].event.time => i = k
<1> DEFINE log == memory[s]
           n   == Len(log)
           p   == ByTime(log)
<1>1. /\ n \in Nat /\ DOMAIN log = 1..n
      /\ \A i \in 1..n : log[i].event.time \in Nat /\ log[i].prev \in Seq(Event)
                           /\ log[i].cur = Hash(log[i].event, log[i].prev)
                           /\ log[i].cur \in Seq(Event)
                           /\ Len(log[i].cur) = Len(log[i].prev) + 1
      /\ \A i \in 1..n : log[i].prev = IF i = n THEN Genesis ELSE log[i + 1].cur
      /\ \A i, j \in 1..n : i < j => log[i].event.time >= log[j].event.time
  BY LogFacts
<1>2. p \in [1..n -> 1..n] /\ \A i, j \in 1..n : i < j => Earlier(log, p[i], p[j])
  <2>1. log \in Seq(Logged)
    BY DEF TypeOK
  <2> HIDE DEF n
  <2> QED
    BY <1>1, <2>1, ByTimeSorts
<1>3. VerifyMemory(s) <=>
        \A k \in 1..n :
          /\ log[p[k]].prev = IF k = 1 THEN Genesis ELSE log[p[k - 1]].cur
          /\ log[p[k]].cur = Hash(log[p[k]].event, IF k = 1 THEN Genesis ELSE log[p[k - 1]].cur)
  <2>1. DOMAIN p = 1..n
    BY <1>2
  <2> HIDE DEF n, p
  <2> QED
    BY <2>1 DEF VerifyMemory, p
<1> HIDE DEF log, n, p
<1>4. ASSUME VerifyMemory(s), NEW i \in 1..n, NEW k \in 1..n, i < k,
             log[i].event.time = log[k].event.time
      PROVE  FALSE
  <2>1. \A j \in 1..n : p[j] = n + 1 - j
    <3>1. \A j \in 1..n : log[p[j]].prev = IF j = 1 THEN Genesis ELSE log[p[j - 1]].cur
      BY <1>3, <1>4
    <3>2. n \in Nat /\ p \in [1..n -> 1..n] /\ Goes(p, log, n) /\ Hashed(log, n)
      BY <1>1, <1>2, <3>1 DEF Hashed, Goes
    <3> QED
      BY ONLY <3>2, VerifiedInOrder
  <2> DEFINE a == n + 1 - i
             b == n + 1 - k
  <2>2. a \in 1..n /\ b \in 1..n /\ b < a /\ n + 1 - a = i /\ n + 1 - b = k
    BY <1>1, <1>4
  <2>3. p[a] = i /\ p[b] = k
    BY <2>1, <2>2
  <2> HIDE DEF a, b
  <2>4. Earlier(log, k, i)
    BY <1>2, <2>2, <2>3
  <2> QED
    BY <1>1, <1>4, <2>4 DEF Earlier
<1>5. ASSUME \A i, k \in 1..n : log[i].event.time = log[k].event.time => i = k
      PROVE  VerifyMemory(s)
  <2>1. ASSUME NEW i \in 1..n, NEW j \in 1..n, Earlier(log, i, j)
        PROVE  i > j
    <3>1. i # j /\ ~(i < j)
      BY <1>1, <1>5, <2>1 DEF Earlier
    <3> QED
      BY <3>1
  <2>2. \A i, j \in 1..n : i < j => p[i] > p[j]
    BY <1>2, <2>1
  <2>3. \A k \in 1..n : p[k] = n + 1 - k
    BY <1>1, <1>2, <2>2, FallingOrder
  <2>4. ASSUME NEW k \in 1..n
        PROVE  log[p[k]].prev = IF k = 1 THEN Genesis ELSE log[p[k - 1]].cur
    <3>1. p[k] \in 1..n /\ p[k] = n + 1 - k /\ (p[k] = n <=> k = 1)
      BY <1>1, <1>2, <2>3
    <3>2. k # 1 => p[k - 1] = p[k] + 1
      BY <1>1, <2>3
    <3> QED
      BY <1>1, <3>1, <3>2
  <2>5. \A k \in 1..n : p[k] \in 1..n
    BY <1>2
  <2>6. \A k \in 1..n : log[p[k]].cur = Hash(log[p[k]].event, log[p[k]].prev)
    BY <1>1, <2>5
  <2> QED
    BY <1>3, <2>4, <2>6
<1>6. VerifyMemory(s) <=> \A i, k \in 1..n : log[i].event.time = log[k].event.time => i = k
  <2>1. ASSUME VerifyMemory(s), NEW i \in 1..n, NEW k \in 1..n,
               log[i].event.time = log[k].event.time
        PROVE  i = k
    BY <1>4, <2>1
  <2> QED
    BY <1>5, <2>1
<1> QED
  BY <1>1, <1>6 DEF log
-----------------------------------------------------------------------------
(* The events in the order of time are those of the log, each of them once.  *)
LEMMA ChronologicalOnto ==
  ASSUME NEW log \in Seq(Logged)
  PROVE  /\ \A i, j \in DOMAIN log : i # j =>
              \E k, m \in DOMAIN log :
                k # m /\ Chronological(log)[i] = log[k].event
                      /\ Chronological(log)[j] = log[m].event
         /\ \A k \in DOMAIN log : \E i \in DOMAIN log : Chronological(log)[i] = log[k].event
<1> DEFINE n == Len(log)
           p == ByTime(log)
<1>1. n \in Nat /\ DOMAIN log = 1..n /\ \A i \in 1..n : log[i].event.time \in Nat
  BY LoggedFacts
<1>2. p \in [1..n -> 1..n] /\ \A i, j \in 1..n : i < j => Earlier(log, p[i], p[j])
  BY <1>1, ByTimeSorts
<1>4. \A i \in 1..n : Chronological(log)[i] = log[p[i]].event
  BY <1>1 DEF Chronological
<1> HIDE DEF p, n
<1>3. IsFiniteSet(1..n)
  BY <1>1, FS_Interval
<1>5. ASSUME NEW i \in 1..n, NEW j \in 1..n, p[i] = p[j] PROVE i = j
  <2>1. ASSUME NEW k \in 1..n PROVE ~Earlier(log, k, k)
    BY <1>1 DEF Earlier
  <2>2. ~(i < j) /\ ~(j < i)
    BY <1>2, <1>5, <2>1
  <2> QED
    BY <1>1, <2>2
<1>6. \A k \in 1..n : \E i \in 1..n : p[i] = k
  <2>1. p \in Injection(1..n, 1..n)
    BY <1>2, <1>5 DEF Injection, IsInjective
  <2>2. p \in Surjection(1..n, 1..n)
    BY <1>3, <2>1, FS_Injection
  <2> QED
    BY <2>2 DEF Surjection
<1>7. ASSUME NEW i \in 1..n, NEW j \in 1..n, i # j
      PROVE  p[i] \in 1..n /\ p[j] \in 1..n /\ p[i] # p[j]
  BY <1>2, <1>5, <1>7
<1>8. ASSUME NEW i \in DOMAIN log, NEW j \in DOMAIN log, i # j
      PROVE  \E k, m \in DOMAIN log :
               k # m /\ Chronological(log)[i] = log[k].event
                     /\ Chronological(log)[j] = log[m].event
  <2>1. i \in 1..n /\ j \in 1..n
    BY <1>1, <1>8
  <2>2. p[i] \in DOMAIN log /\ p[j] \in DOMAIN log /\ p[i] # p[j]
    BY <1>1, <1>7, <1>8, <2>1
  <2> QED
    BY <1>4, <2>1, <2>2
<1>9. ASSUME NEW k \in DOMAIN log
      PROVE  \E i \in DOMAIN log : Chronological(log)[i] = log[k].event
  <2>1. PICK i \in 1..n : p[i] = k
    BY <1>1, <1>6, <1>9
  <2>2. i \in DOMAIN log /\ Chronological(log)[i] = log[k].event
    BY <1>1, <1>4, <2>1
  <2> QED
    BY <2>2
<1> QED
  BY <1>8, <1>9

(* What memory becomes with a new event, position by position.               *)
Pushed(s, hooked) ==
    /\ Len(memory[s]) \in Nat /\ DOMAIN memory[s] = 1..Len(memory[s])
    /\ Len(memory'[s]) = Len(memory[s]) + 1
    /\ DOMAIN memory'[s] = 1..(Len(memory[s]) + 1)
    /\ memory'[s][1] = [event |-> NewEvent(s), prev |-> lastHash[s],
                        cur |-> Hash(NewEvent(s), lastHash[s]), hooked |-> hooked]
    /\ \A i \in 1..Len(memory[s]) : memory'[s][i + 1] = memory[s][i]
    /\ lastHash'[s] = Hash(NewEvent(s), lastHash[s])
    /\ \A o \in Servers \ {s} : memory'[o] = memory[o] /\ lastHash'[o] = lastHash[o]

LEMMA Remembered ==
  ASSUME TypeOK, NEW s \in Servers, NEW hooked \in BOOLEAN, Remember(s, hooked)
  PROVE  Pushed(s, hooked)
<1> DEFINE h  == Hash(NewEvent(s), lastHash[s])
           l  == [event |-> NewEvent(s), prev |-> lastHash[s], cur |-> h, hooked |-> hooked]
           m  == <<l>> \o memory[s]
<1>1. h \in Seq(Event) /\ lastHash[s] \in Seq(Event)
  BY NewEventType, AppendProperties DEF Hash, TypeOK
<1>2. l \in Logged
  BY <1>1, NewEventType DEF Logged
<1>3. memory' = [memory EXCEPT ![s] = m] /\ lastHash' = [lastHash EXCEPT ![s] = h]
  BY DEF Remember
<1>4. memory \in [Servers -> Seq(Logged)] /\ lastHash \in [Servers -> Seq(Event)]
  BY DEF TypeOK
<1> HIDE DEF l, h
<1>5. /\ <<l>> \in Seq(Logged) /\ Len(<<l>>) = 1 /\ <<l>>[1] = l
      /\ memory[s] \in Seq(Logged) /\ Len(memory[s]) \in Nat
      /\ DOMAIN memory[s] = 1..Len(memory[s])
  BY <1>2, <1>4, LenProperties
<1>6. /\ m \in Seq(Logged) /\ Len(m) = 1 + Len(memory[s])
      /\ \A i \in 1..(1 + Len(memory[s])) :
           m[i] = IF i <= 1 THEN <<l>>[i] ELSE memory[s][i - 1]
  BY <1>5, ConcatProperties
<1> HIDE DEF m
<1>7. DOMAIN m = 1..Len(m)
  BY <1>6, LenProperties
<1>8. m[1] = l
  <2>1. 1 \in 1..(1 + Len(memory[s]))
    BY <1>5
  <2> QED
    BY <1>5, <1>6, <2>1
<1>9. ASSUME NEW i \in 1..Len(memory[s]) PROVE m[i + 1] = memory[s][i]
  <2>1. i + 1 \in 1..(1 + Len(memory[s])) /\ ~(i + 1 <= 1) /\ (i + 1) - 1 = i
    BY <1>5
  <2> QED
    BY <1>6, <2>1
<1>10. memory'[s] = m /\ lastHash'[s] = h
  BY <1>3, <1>4
<1>11. \A o \in Servers \ {s} : memory'[o] = memory[o] /\ lastHash'[o] = lastHash[o]
  BY <1>3, <1>4
<1>12. Len(m) = Len(memory[s]) + 1 /\ DOMAIN m = 1..(Len(memory[s]) + 1)
  BY <1>5, <1>6, <1>7
<1> QED
  BY <1>5, <1>8, <1>9, <1>10, <1>11, <1>12 DEF Pushed, l, h

-----------------------------------------------------------------------------
(* Steps of one server leave the others as they are.                         *)
Same(s) ==
    /\ memory'[s] = memory[s] /\ hydrated'[s] = hydrated[s] /\ lastHash'[s] = lastHash[s]
    /\ queue'[s] = queue[s] /\ reloading'[s] = reloading[s] /\ loadFailed'[s] = loadFailed[s]
    /\ phase'[s] = phase[s]

LEMMA SameKeeps ==
  ASSUME NEW s, Same(s), Resting(s), Counted(s), LoggedInv(s)
  PROVE  Resting(s)' /\ Counted(s)' /\ LoggedInv(s)'
<1>1. Resting(s)'
  BY DEF Same, Resting
<1>2. Counted(s)'
  BY DEF Same, Counted
<1>3. LoggedInv(s)'
  BY DEF Same, LoggedInv, ChainOf
<1> QED
  BY <1>1, <1>2, <1>3

(* A log that stays is still counted and hashed.                             *)
LEMMA LogStays ==
  ASSUME NEW s, Counted(s), LoggedInv(s), memory'[s] = memory[s],
         hydrated'[s] = hydrated[s], lastHash'[s] = lastHash[s],
         phase'[s] \in {"connecting", "offline"} => phase[s] \in {"connecting", "offline"}
  PROVE  Counted(s)' /\ LoggedInv(s)'
<1>1. Counted(s)'
  BY DEF Counted
<1>2. LoggedInv(s)'
  BY DEF LoggedInv, ChainOf
<1> QED
  BY <1>1, <1>2

(* A server that runs is the only one that may be alone.                     *)
LEMMA ServerStep ==
  ASSUME KeptInv, NEW s \in Servers, \A o \in Servers \ {s} : Same(o),
         phase'[s] # "down" \/ faults' # 0,
         Resting(s)', Counted(s)', LoggedInv(s)', LoneInv(s)'
  PROVE  KeptInv'
<1>1. ASSUME NEW o \in Servers
      PROVE  Resting(o)' /\ Counted(o)' /\ LoggedInv(o)' /\ LoneInv(o)'
  <2>1. CASE o = s
    BY <2>1
  <2>2. CASE o # s
    <3>1. Resting(o)' /\ Counted(o)' /\ LoggedInv(o)'
      BY <2>2, SameKeeps DEF KeptInv
    <3>2. ~Lone(o)'
      BY <2>2 DEF Lone
    <3> QED
      BY <3>1, <3>2 DEF LoneInv
  <2> QED
    BY <2>1, <2>2
<1>2. ~(faults' = 0 /\ \A o \in Servers : phase'[o] = "down")
  OBVIOUS
<1> QED
  BY <1>1, <1>2 DEF KeptInv

(* A server is alone after its step if it was before, unless it starts.      *)
LEMMA LoneBefore ==
  ASSUME KeptInv, TypeOK, NEW s \in Servers, phase[s] # "down", Lone(s)',
         faults' = faults \/ faults' = faults + 1,
         \A o \in Servers \ {s} : phase'[o] = phase[o]
  PROVE  /\ Lone(s) /\ faults' = faults /\ ~reloading[s] /\ ~loadFailed[s]
         /\ phase[s] \in {"connecting", "offline"} => rows = {} /\ queue[s] = << >>
         /\ phase[s] \in {"backfilling", "hydrating", "up"} =>
              tip[s].seq = Cardinality(rows) /\ Distinct(s)
         /\ phase[s] = "backfilling" => Sealing(s)
         /\ phase[s] \in {"hydrating", "up"} => NothingLost(s)
<1>1. faults' = faults /\ faults = 0
  BY DEF Lone, TypeOK
<1>2. Lone(s)
  BY <1>1 DEF Lone
<1> QED
  BY <1>1, <1>2 DEF KeptInv, LoneInv

-----------------------------------------------------------------------------
LEMMA KeptInit == Init => KeptInv
<1> SUFFICES ASSUME Init PROVE KeptInv
  OBVIOUS
<1>1. ASSUME NEW s \in Servers
      PROVE  Resting(s) /\ Counted(s) /\ LoggedInv(s) /\ LoneInv(s)
  <2>1. /\ memory[s] = << >> /\ phase[s] = "down" /\ hydrated[s] = 0 /\ lastHash[s] = Genesis
        /\ queue[s] = << >> /\ ~reloading[s] /\ ~loadFailed[s]
    BY DEF Init
  <2>2. DOMAIN << >> = {} /\ 1..Len(<< >>) = {}
    OBVIOUS
  <2> QED
    BY <2>1, <2>2 DEF Resting, Counted, LoggedInv, LoneInv, Lone
<1> QED
  BY <1>1 DEF KeptInv, Init

LEMMA StartKeeps ==
  ASSUME KeptInv, TypeOK, NEW s \in Servers, Start(s)
  PROVE  KeptInv'
<1>1. /\ phase[s] = "down" /\ phase'[s] = "connecting" /\ rows' = rows /\ faults' = faults
      /\ \A o \in Servers \ {s} : Same(o) /\ phase'[o] = phase[o]
      /\ memory'[s] = memory[s] /\ hydrated'[s] = hydrated[s] /\ lastHash'[s] = lastHash[s]
      /\ queue'[s] = queue[s] /\ reloading'[s] = reloading[s] /\ loadFailed'[s] = loadFailed[s]
  BY DEF Start, Same, TypeOK
<1>2. Resting(s) /\ Counted(s) /\ LoggedInv(s)
  BY DEF KeptInv
<1>3. /\ memory[s] = << >> /\ lastHash[s] = Genesis /\ queue[s] = << >>
      /\ ~reloading[s] /\ ~loadFailed[s]
  BY <1>1, <1>2 DEF Resting
<1>4. Resting(s)'
  BY <1>1, <1>2 DEF Resting
<1>5. Counted(s)'
  BY <1>1, <1>2 DEF Counted
<1>6. LoggedInv(s)'
  <2>1. 1..Len(<< >>) = {}
    OBVIOUS
  <2> QED
    BY <1>1, <1>3, <2>1 DEF LoggedInv, ChainOf
<1>7. LoneInv(s)'
  <2>1. ASSUME Lone(s)' PROVE rows = {}
    BY <1>1, <2>1 DEF Lone, KeptInv
  <2> QED
    BY <1>1, <1>3, <2>1 DEF LoneInv
<1> QED
  BY <1>1, <1>4, <1>5, <1>6, <1>7, ServerStep

LEMMA ConnectKeeps ==
  ASSUME KeptInv, TypeOK, NEW s \in Servers, Connect(s)
  PROVE  KeptInv'
<1>1. /\ phase[s] = "connecting" /\ phase'[s] = "backfilling" /\ rows' = rows
      /\ \A o \in Servers \ {s} : Same(o) /\ phase'[o] = phase[o]
      /\ memory'[s] = memory[s] /\ hydrated'[s] = hydrated[s] /\ lastHash'[s] = lastHash[s]
      /\ reloading'[s] = reloading[s]
      /\ faults' = faults \/ faults' = faults + 1
      /\ faults' = faults =>
           /\ tip'[s] = Top /\ loadFailed'[s] = loadFailed[s]
           /\ queue'[s] = queue[s] \/ queue'[s] = <<SealEvent(s)>>
  BY DEF Connect, Fault, Same, TypeOK
<1>2. Resting(s) /\ Counted(s) /\ LoggedInv(s)
  BY DEF KeptInv
<1>3. Resting(s)'
  BY <1>1, <1>2 DEF Resting
<1>4. Counted(s)' /\ LoggedInv(s)'
  BY <1>1, <1>2, LogStays
<1>5. ASSUME Lone(s)'
      PROVE  /\ ~reloading'[s] /\ ~loadFailed'[s] /\ tip'[s].seq = Cardinality(rows')
             /\ Distinct(s)' /\ Sealing(s)'
  <2>1. faults' = faults /\ ~reloading[s] /\ ~loadFailed[s] /\ rows = {} /\ queue[s] = << >>
    BY <1>1, <1>5, LoneBefore
  <2>2. rows' = {} /\ tip'[s].seq = 0 /\ Cardinality(rows') = 0
    BY <1>1, <2>1, FS_EmptySet DEF Top, NoTip
  <2>3. /\ \A i, j \in DOMAIN queue'[s] : ~(i < j)
        /\ \A i \in DOMAIN queue'[s] : queue'[s][i].n = 0
        /\ Len(queue'[s]) <= 1
    <3>1. CASE queue'[s] = << >>
      BY <3>1
    <3>2. CASE queue'[s] = <<SealEvent(s)>>
      <4>1. DOMAIN queue'[s] = {1} /\ queue'[s][1] = SealEvent(s) /\ Len(queue'[s]) = 1
        BY <3>2
      <4> QED
        BY <4>1 DEF SealEvent
    <3> QED
      BY <1>1, <2>1, <3>1, <3>2
  <2> QED
    BY <1>1, <2>1, <2>2, <2>3 DEF Distinct, Sealing, Known
<1>6. LoneInv(s)'
  BY <1>1, <1>5 DEF LoneInv
<1> QED
  BY <1>1, <1>3, <1>4, <1>6, ServerStep

LEMMA OfflineKeeps ==
  ASSUME KeptInv, TypeOK, NEW s \in Servers, GoOffline(s)
  PROVE  KeptInv'
<1>1. /\ phase[s] = "connecting" /\ phase'[s] = "offline" /\ rows' = rows /\ faults' = faults
      /\ \A o \in Servers \ {s} : Same(o) /\ phase'[o] = phase[o]
      /\ memory'[s] = memory[s] /\ hydrated'[s] = hydrated[s] /\ lastHash'[s] = lastHash[s]
      /\ queue'[s] = queue[s] /\ reloading'[s] = reloading[s] /\ loadFailed'[s] = loadFailed[s]
  BY DEF GoOffline, Same, TypeOK
<1>2. Resting(s) /\ Counted(s) /\ LoggedInv(s)
  BY DEF KeptInv
<1>3. Resting(s)'
  BY <1>1, <1>2 DEF Resting
<1>4. Counted(s)' /\ LoggedInv(s)'
  BY <1>1, <1>2, LogStays
<1>5. LoneInv(s)'
  BY <1>1, LoneBefore DEF LoneInv
<1> QED
  BY <1>1, <1>3, <1>4, <1>5, ServerStep

LEMMA BackfillKeeps ==
  ASSUME KeptInv, TypeOK, NEW s \in Servers, Backfill(s)
  PROVE  KeptInv'
<1>1. /\ phase[s] = "backfilling" /\ phase'[s] = "hydrating" /\ rows' = rows /\ faults' = faults
      /\ \A o \in Servers \ {s} : Same(o) /\ phase'[o] = phase[o]
      /\ memory'[s] = memory[s] /\ hydrated'[s] = hydrated[s] /\ lastHash'[s] = lastHash[s]
      /\ reloading'[s] = reloading[s] /\ loadFailed'[s] = loadFailed[s]
      /\ tip'[s] = tip[s] /\ queue[s] = << >>
      /\ queue'[s] = IF rows = {} /\ ~loadFailed[s] THEN Chronological(memory[s]) ELSE queue[s]
  BY DEF Backfill, Idle, Same, TypeOK
<1>2. Resting(s) /\ Counted(s) /\ LoggedInv(s)
  BY DEF KeptInv
<1>3. Resting(s)'
  BY <1>1, <1>2 DEF Resting
<1>4. Counted(s)' /\ LoggedInv(s)'
  BY <1>1, <1>2, LogStays
<1>5. ASSUME Lone(s)'
      PROVE  /\ ~reloading'[s] /\ ~loadFailed'[s] /\ tip'[s].seq = Cardinality(rows')
             /\ Distinct(s)' /\ NothingLost(s)'
  <2>1. /\ ~reloading[s] /\ ~loadFailed[s] /\ tip[s].seq = Cardinality(rows)
        /\ Distinct(s) /\ Sealing(s)
    BY <1>1, <1>5, LoneBefore
  <2>2. CASE rows # {}
    <3>1. queue'[s] = queue[s]
      BY <1>1, <2>2
    <3>2. Distinct(s)'
      BY <1>1, <2>1, <3>1 DEF Distinct, Known, Events
    <3>3. NothingLost(s)'
      BY <1>1, <1>2, <2>1, <2>2 DEF NothingLost, Sealing, Resting
    <3> QED
      BY <1>1, <2>1, <3>2, <3>3
  <2>3. CASE rows = {}
    <3> DEFINE log == memory[s]
               q   == Chronological(log)
    <3>1. log \in Seq(Logged) /\ queue'[s] = q /\ memory'[s] = log /\ rows' = {}
      BY <1>1, <2>1, <2>3 DEF TypeOK
    <3>2. /\ DOMAIN q = DOMAIN log
          /\ \A i \in DOMAIN log : \E k \in DOMAIN log : q[i] = log[k].event
          /\ \A i, j \in DOMAIN log : i # j =>
               \E k, m \in DOMAIN log : k # m /\ q[i] = log[k].event /\ q[j] = log[m].event
          /\ \A k \in DOMAIN log : \E i \in DOMAIN log : q[i] = log[k].event
      BY <3>1, ChronologicalFacts, ChronologicalOnto
    <3>3. \A k, m \in DOMAIN log : k # m => log[k].event.n # log[m].event.n
      <4>1. DOMAIN log \subseteq Nat /\ \A k \in DOMAIN log : log[k].event.n \in Nat
        BY <3>1, LoggedFacts DEF Event
      <4>2. \A k, m \in DOMAIN log : k < m => log[k].event.n > log[m].event.n
        BY <1>2 DEF Counted
      <4> HIDE DEF log
      <4> QED
        BY <4>1, <4>2
    <3> HIDE DEF log, q
    <3>4. ASSUME NEW i \in DOMAIN q, NEW j \in DOMAIN q, i < j
          PROVE  Id(q[i]) # Id(q[j])
      <4>1. DOMAIN log = 1..Len(log) /\ Len(log) \in Nat
        BY <3>1, LoggedFacts
      <4>2. i \in DOMAIN log /\ j \in DOMAIN log /\ i # j
        BY <3>2, <3>4, <4>1
      <4>3. PICK k \in DOMAIN log, m \in DOMAIN log :
              k # m /\ q[i] = log[k].event /\ q[j] = log[m].event
        BY <3>2, <4>2
      <4>4. log[k].event.n # log[m].event.n
        BY <3>3, <4>3
      <4> QED
        BY <4>3, <4>4 DEF Id
    <3>5. \A i \in DOMAIN q : q[i] \in Events(s)'
      <4>1. Events(s)' = {log[k].event : k \in DOMAIN log}
        BY <3>1 DEF Events
      <4> QED
        BY <3>2, <4>1
    <3>6. Distinct(s)'
      BY <3>1, <3>4, <3>5 DEF Distinct, Known
    <3>7. NothingLost(s)'
      <4>1. Pending(s)' = {q[i] : i \in DOMAIN q}
        BY <3>1 DEF Pending
      <4>2. \A k \in DOMAIN log : log[k].event \in Pending(s)'
        BY <3>2, <4>1
      <4> QED
        BY <3>1, <4>2 DEF NothingLost
    <3> QED
      BY <1>1, <2>1, <3>6, <3>7
  <2> QED
    BY <2>2, <2>3
<1>6. LoneInv(s)'
  BY <1>1, <1>5 DEF LoneInv
<1> QED
  BY <1>1, <1>3, <1>4, <1>6, ServerStep

LEMMA HydrateKeeps ==
  ASSUME KeptInv, TypeOK, TypeOK', NEW s \in Servers, Hydrate(s)
  PROVE  KeptInv'
<1>1. /\ phase[s] = "hydrating" /\ phase'[s] = "up" /\ rows' = rows
      /\ faults' = faults \/ faults' = faults + 1
      /\ \A o \in Servers \ {s} : Same(o) /\ phase'[o] = phase[o]
      /\ memory'[s] = memory[s] /\ queue'[s] = queue[s] /\ tip'[s] = tip[s]
      /\ reloading'[s] = reloading[s] /\ loadFailed'[s] = loadFailed[s]
  BY DEF Hydrate, Fault, Same, TypeOK
<1>2. Resting(s) /\ Counted(s) /\ LoggedInv(s)
  BY DEF KeptInv
<1>3. Resting(s)'
  BY <1>1 DEF Resting
<1>4. Counted(s)'
  <2> DEFINE log == memory[s]
             n(i) == log[i].event.n
             len  == Len(log)
             was  == hydrated[s]
             is   == hydrated'[s]
  <2>1. was = 0 /\ is \in Nat /\ len \in Nat /\ \A i \in DOMAIN log : n(i) \in Nat
    <3>1. was = 0
      BY <1>1, <1>2 DEF Resting
    <3>2. is \in Nat /\ log \in Seq(Logged)
      BY DEF TypeOK
    <3> QED
      BY <3>1, <3>2, LoggedFacts DEF Event
  <2>2. /\ \A i \in DOMAIN log : 1 <= n(i) /\ n(i) <= len + was
        /\ \A i, j \in DOMAIN log : i < j => n(i) > n(j)
    BY <1>2 DEF Counted
  <2> HIDE DEF n, len, was, is, log
  <2>3. \A i \in DOMAIN log : 1 <= n(i) /\ n(i) <= len + is
    BY <2>1, <2>2
  <2> QED
    BY <1>1, <2>2, <2>3 DEF Counted, n, len, is, log
<1>5. LoggedInv(s)'
  BY <1>1, <1>2 DEF LoggedInv
<1>6. LoneInv(s)'
  <2> SUFFICES ASSUME Lone(s)'
               PROVE  /\ ~reloading'[s] /\ ~loadFailed'[s] /\ tip'[s].seq = Cardinality(rows')
                      /\ Distinct(s)' /\ NothingLost(s)'
    BY <1>1 DEF LoneInv
  <2>1. /\ ~reloading[s] /\ ~loadFailed[s] /\ tip[s].seq = Cardinality(rows)
        /\ Distinct(s) /\ NothingLost(s)
    BY <1>1, LoneBefore
  <2>2. Distinct(s)'
    BY <1>1, <2>1 DEF Distinct, Known, Events
  <2>3. NothingLost(s)'
    BY <1>1, <2>1 DEF NothingLost, Pending, Durable
  <2> QED
    BY <1>1, <2>1, <2>2, <2>3
<1> QED
  BY <1>1, <1>3, <1>4, <1>5, <1>6, ServerStep

(* The event recorded is younger and has a higher number than those before.  *)
LEMMA RecordedLog ==
  ASSUME KeptInv, ClockInv, NEW s \in Servers, RecordAudit(s)
  PROVE  Counted(s)' /\ LoggedInv(s)'
<1> DEFINE log  == memory[s]
           new  == memory'[s]
           len  == Len(log)
           held == hydrated[s]
           e    == NewEvent(s)
           end  == lastHash[s]
<1>1. Remember(s, phase[s] = "up") /\ phase' = phase /\ hydrated' = hydrated
  BY DEF RecordAudit
<1>2. /\ len \in Nat /\ DOMAIN log = 1..len /\ DOMAIN new = 1..(len + 1) /\ Len(new) = len + 1
      /\ new[1].event = e /\ new[1].prev = end /\ new[1].cur = Hash(e, end)
      /\ \A i \in 1..len : new[i + 1] = log[i]
      /\ lastHash'[s] = Hash(e, end)
  <2>1. Pushed(s, phase[s] = "up")
    BY <1>1, Remembered DEF ClockInv
  <2> QED
    BY <2>1 DEF Pushed
<1>3. /\ held \in Nat /\ e.n = len + held + 1 /\ e.time = now
      /\ now \in Nat
  BY DEF NewEvent, ClockInv, TypeOK
<1>4. \A i \in 1..len : log[i].event.n \in Nat /\ log[i].event.time \in Nat
                          /\ log[i].event.time <= now
  <2>1. log \in Seq(Logged) /\ \A i \in DOMAIN log : OwnEvent(s, log[i].event)
    BY DEF ClockInv, TypeOK, MemoryOwn
  <2> QED
    BY <1>2, <2>1 DEF OwnEvent, Event
<1>5. /\ \A i \in 1..len : 1 <= log[i].event.n /\ log[i].event.n <= len + held
      /\ \A i, j \in 1..len : i < j => log[i].event.n > log[j].event.n
      /\ \A i \in 1..len : log[i].cur = Hash(log[i].event, log[i].prev)
      /\ \A i, j \in 1..len : i < j => log[i].event.time >= log[j].event.time
      /\ phase[s] \in {"connecting", "offline"} => ChainOf(log, end)
  BY <1>2 DEF KeptInv, Counted, LoggedInv
<1> HIDE DEF log, new, len, held, e, end
<1>6. ASSUME NEW i \in 1..(len + 1)
      PROVE  \/ i = 1
             \/ i - 1 \in 1..len /\ (i - 1) + 1 = i /\ new[i] = log[i - 1]
  <2>1. i = 1 \/ (i - 1 \in 1..len /\ (i - 1) + 1 = i)
    BY <1>2
  <2> QED
    BY <1>2, <2>1
<1>7. ASSUME NEW i \in 1..(len + 1)
      PROVE  /\ 1 <= new[i].event.n /\ new[i].event.n <= (len + 1) + held
             /\ new[i].cur = Hash(new[i].event, new[i].prev)
  <2>1. CASE i = 1
    BY <1>2, <1>3, <2>1
  <2>2. CASE i # 1
    <3>1. i - 1 \in 1..len /\ new[i] = log[i - 1]
      BY <1>6, <2>2
    <3>2. /\ 1 <= log[i - 1].event.n /\ log[i - 1].event.n <= len + held
          /\ log[i - 1].event.n \in Nat
      BY <1>4, <1>5, <3>1
    <3>3. new[i].cur = Hash(new[i].event, new[i].prev)
      BY <1>5, <3>1
    <3> QED
      BY <1>2, <1>3, <3>1, <3>2, <3>3
  <2> QED
    BY <2>1, <2>2
<1>8. ASSUME NEW i \in 1..(len + 1), NEW j \in 1..(len + 1), i < j
      PROVE  new[i].event.n > new[j].event.n /\ new[i].event.time >= new[j].event.time
  <2>1. j - 1 \in 1..len /\ new[j] = log[j - 1]
    BY <1>2, <1>6, <1>8
  <2>2. CASE i = 1
    <3>1. /\ log[j - 1].event.n <= len + held /\ log[j - 1].event.n \in Nat
          /\ log[j - 1].event.time <= now
      BY <1>4, <1>5, <2>1
    <3> QED
      BY <1>2, <1>3, <2>1, <2>2, <3>1
  <2>3. CASE i # 1
    <3>1. i - 1 \in 1..len /\ new[i] = log[i - 1] /\ i - 1 < j - 1
      BY <1>2, <1>6, <1>8, <2>3
    <3> QED
      BY <1>5, <2>1, <3>1
  <2> QED
    BY <2>2, <2>3
<1>9. ASSUME phase[s] \in {"connecting", "offline"} PROVE ChainOf(new, Hash(e, end))
  <2>1. /\ \A i \in 1..len : log[i].prev = IF i = len THEN Genesis ELSE log[i + 1].cur
        /\ end = IF log = << >> THEN Genesis ELSE log[1].cur
    BY <1>5, <1>9 DEF ChainOf, len
  <2>2. log = << >> <=> len = 0
    BY <1>2, EmptySeq DEF len, log, ClockInv, TypeOK
  <2>3. ASSUME NEW i \in 1..(len + 1)
        PROVE  new[i].prev = IF i = len + 1 THEN Genesis ELSE new[i + 1].cur
    <3>1. CASE i = 1
      <4>1. CASE len = 0
        BY <1>2, <2>1, <2>2, <3>1, <4>1
      <4>2. CASE len # 0
        <5>1. 1 \in 1..len /\ i # len + 1
          BY <1>2, <3>1, <4>2
        <5>2. new[i + 1] = log[1]
          BY <1>2, <3>1, <5>1
        <5> QED
          BY <1>2, <2>1, <2>2, <3>1, <4>2, <5>1, <5>2
      <4> QED
        BY <4>1, <4>2
    <3>2. CASE i # 1
      <4>1. i - 1 \in 1..len /\ (i - 1) + 1 = i /\ new[i] = log[i - 1]
        BY <1>6, <3>2
      <4>2. log[i - 1].prev = IF i - 1 = len THEN Genesis ELSE log[i].cur
        BY <2>1, <4>1
      <4>3. CASE i = len + 1
        <5>1. i - 1 = len
          BY <1>2, <4>3
        <5> QED
          BY <4>1, <4>2, <4>3, <5>1
      <4>4. CASE i # len + 1
        <5>1. i \in 1..len /\ i - 1 # len
          BY <1>2, <4>1, <4>4
        <5>2. new[i + 1] = log[i]
          BY <1>2, <5>1
        <5> QED
          BY <4>1, <4>2, <4>4, <5>1, <5>2
      <4> QED
        BY <4>3, <4>4
    <3> QED
      BY <3>1, <3>2
  <2>4. new # << >>
    BY <1>2, EmptySeq
  <2> QED
    BY <1>2, <2>3, <2>4 DEF ChainOf
<1>10. Counted(s)'
  <2>1. hydrated'[s] = held
    BY <1>1 DEF held
  <2> QED
    BY <1>2, <1>7, <1>8, <2>1 DEF Counted, new
<1>11. LoggedInv(s)'
  BY <1>1, <1>2, <1>7, <1>8, <1>9 DEF LoggedInv, new
<1> QED
  BY <1>10, <1>11

(* The event recorded has an id of its own, and waits.                       *)
LEMMA RecordedDistinct ==
  ASSUME TypeOK, NEW s \in Servers, Distinct(s), Counted(s), rows' = rows,
         Remember(s, TRUE), queue'[s] = Append(queue[s], NewEvent(s))
  PROVE  /\ Distinct(s)'
         /\ NothingLost(s) => NothingLost(s)'
<1> DEFINE q   == queue[s]
           q1  == queue'[s]
           n   == Len(q)
           e   == NewEvent(s)
           log == memory[s]
           new == memory'[s]
           len == Len(log)
           evs == Events(s)
           ev1 == Events(s)'
<1>1. /\ q \in Seq(Event) /\ e \in Event
  BY NewEventType DEF TypeOK
<1>2. n \in Nat /\ DOMAIN q = 1..n
  BY <1>1, LenProperties
<1>3. /\ q1 \in Seq(Event) /\ Len(q1) = n + 1
      /\ \A i \in 1..n : q1[i] = q[i]
      /\ q1[n + 1] = e
  BY <1>1, AppendProperties
<1>4. DOMAIN q1 = 1..(n + 1)
  BY <1>3, LenProperties
<1>5. /\ len \in Nat /\ DOMAIN log = 1..len /\ DOMAIN new = 1..(len + 1)
      /\ new[1].event = e
      /\ \A i \in 1..len : new[i + 1] = log[i]
  <2>1. Pushed(s, TRUE)
    BY Remembered
  <2> QED
    BY <2>1 DEF Pushed
<1>6. /\ e.n = len + hydrated[s] + 1 /\ hydrated[s] \in Nat
  BY DEF NewEvent, TypeOK
<1>7. evs = {log[i].event : i \in 1..len} /\ ev1 = {new[i].event : i \in 1..(len + 1)}
  BY <1>5 DEF Events
<1>8. /\ \A i, j \in 1..n : i < j => Id(q[i]) # Id(q[j])
      /\ \A r \in rows, i \in 1..n : Id(r.event) # Id(q[i])
      /\ \A i \in 1..n : q[i].n = 0 \/ q[i] \in evs
      /\ \A r \in rows : r.event.n = 0 \/ r.event \in evs
  BY <1>2 DEF Distinct, Known
<1>9. \A i \in 1..len : log[i].event.n \in Nat /\ log[i].event.n <= len + hydrated[s]
  <2>1. log \in Seq(Logged)
    BY DEF TypeOK
  <2>2. \A i \in 1..len : log[i].event.n \in Nat
    BY <1>5, <2>1, LoggedFacts DEF Event
  <2> QED
    BY <1>5, <2>2 DEF Counted
<1> HIDE DEF q, q1, n, e, log, new, len, evs, ev1
<1>10. ASSUME NEW d, d.n = 0 \/ d \in evs PROVE Id(d) # Id(e) /\ (d.n = 0 \/ d \in ev1)
  <2>1. CASE d \in evs
    <3>1. PICK i \in 1..len : d = log[i].event
      BY <1>7, <2>1
    <3>2. d.n # e.n
      BY <1>5, <1>6, <1>9, <3>1
    <3>3. i + 1 \in 1..(len + 1) /\ new[i + 1].event = d
      BY <1>5, <3>1
    <3>4. d \in ev1
      BY <1>7, <3>3
    <3> QED
      BY <3>2, <3>4 DEF Id
  <2>2. CASE d.n = 0
    <3>1. e.n # 0
      BY <1>5, <1>6
    <3> QED
      BY <2>2, <3>1 DEF Id
  <2> QED
    BY <1>10, <2>1, <2>2
<1>11. e \in ev1
  <2>1. 1 \in 1..(len + 1)
    BY <1>5
  <2> QED
    BY <1>5, <1>7, <2>1
<1>12. ASSUME NEW i \in 1..(n + 1)
       PROVE  \/ i \in 1..n /\ q1[i] = q[i]
              \/ i = n + 1 /\ q1[i] = e
  <2>1. i \in 1..n \/ i = n + 1
    BY <1>2
  <2> QED
    BY <1>3, <2>1
<1>13. ASSUME NEW i \in 1..(n + 1), NEW j \in 1..(n + 1), i < j PROVE Id(q1[i]) # Id(q1[j])
  <2>1. i \in 1..n /\ q1[i] = q[i]
    BY <1>2, <1>12, <1>13
  <2>2. Id(q[i]) # Id(e)
    BY <1>8, <1>10, <2>1
  <2> QED
    BY <1>8, <1>12, <1>13, <2>1, <2>2
<1>14. ASSUME NEW r \in rows, NEW i \in 1..(n + 1) PROVE Id(r.event) # Id(q1[i])
  <2>1. Id(r.event) # Id(e)
    BY <1>8, <1>10
  <2> QED
    BY <1>8, <1>12, <2>1
<1>15. ASSUME NEW i \in 1..(n + 1) PROVE q1[i].n = 0 \/ q1[i] \in ev1
  BY <1>8, <1>10, <1>11, <1>12
<1>16. \A r \in rows : r.event.n = 0 \/ r.event \in ev1
  BY <1>8, <1>10
<1>17. Distinct(s)'
  BY <1>4, <1>13, <1>14, <1>15, <1>16 DEF Distinct, Known, q1, ev1
<1>18. ASSUME NothingLost(s) PROVE NothingLost(s)'
  <2>1. /\ Pending(s) = {q[i] : i \in 1..n} /\ Pending(s)' = {q1[i] : i \in 1..(n + 1)}
        /\ Durable' = Durable
    BY <1>2, <1>4 DEF Pending, Durable, q, q1
  <2>2. e \in Pending(s)' /\ \A i \in 1..n : q[i] \in Pending(s)'
    <3>1. n + 1 \in 1..(n + 1) /\ \A i \in 1..n : i \in 1..(n + 1)
      BY <1>2
    <3> QED
      BY <1>3, <2>1, <3>1
  <2>3. \A i \in 1..len : log[i].hooked \/ ~(\E r \in rows : r.event.n = 0) =>
                            log[i].event \in Durable \union Pending(s)
    BY <1>5, <1>18 DEF NothingLost, log
  <2>4. ASSUME NEW i \in 1..(len + 1), new[i].hooked \/ ~(\E r \in rows : r.event.n = 0)
        PROVE  new[i].event \in Durable' \union Pending(s)'
    <3>1. CASE i = 1
      BY <1>5, <2>2, <3>1
    <3>2. CASE i # 1
      <4>1. i - 1 \in 1..len /\ (i - 1) + 1 = i
        BY <1>5, <3>2
      <4>2. new[i] = log[i - 1]
        BY <1>5, <4>1
      <4>3. log[i - 1].event \in Durable \union Pending(s)
        BY <2>3, <2>4, <4>1, <4>2
      <4> QED
        BY <2>1, <2>2, <4>2, <4>3
    <3> QED
      BY <3>1, <3>2
  <2> QED
    BY <1>5, <2>4 DEF NothingLost, new
<1> QED
  BY <1>17, <1>18

LEMMA RecordKeeps ==
  ASSUME KeptInv, ClockInv, NEW s \in Servers, RecordAudit(s)
  PROVE  KeptInv'
<1>1. /\ phase[s] \in {"connecting", "up", "offline"} /\ phase' = phase /\ rows' = rows
      /\ faults' = faults /\ tip' = tip /\ loadFailed' = loadFailed
      /\ reloading' = reloading /\ hydrated' = hydrated /\ Remember(s, phase[s] = "up")
      /\ \A o \in Servers \ {s} : queue'[o] = queue[o]
      /\ queue'[s] = IF phase[s] = "up" /\ ~loadFailed[s]
                     THEN Append(queue[s], NewEvent(s)) ELSE queue[s]
  BY DEF RecordAudit, ClockInv, TypeOK
<1>2. TypeOK /\ Resting(s) /\ Counted(s) /\ LoggedInv(s)
  BY DEF KeptInv, ClockInv
<1>3. /\ Len(memory[s]) \in Nat /\ DOMAIN memory[s] = 1..Len(memory[s])
      /\ DOMAIN memory'[s] = 1..(Len(memory[s]) + 1)
      /\ phase[s] # "up" => ~memory'[s][1].hooked
      /\ \A i \in 1..Len(memory[s]) : memory'[s][i + 1] = memory[s][i]
      /\ \A o \in Servers \ {s} : memory'[o] = memory[o] /\ lastHash'[o] = lastHash[o]
  <2>1. Pushed(s, phase[s] = "up")
    BY <1>1, <1>2, Remembered
  <2>2. memory'[s][1].hooked = (phase[s] = "up")
    BY <2>1 DEF Pushed
  <2>3. phase[s] # "up" => ~memory'[s][1].hooked
    BY <2>2
  <2> QED
    BY <2>1, <2>3 DEF Pushed
<1>4. Resting(s)'
  <2>1. ASSUME phase[s] # "up"
        PROVE  hydrated[s] = 0 /\ \A i \in DOMAIN memory'[s] : ~memory'[s][i].hooked
    <3>1. hydrated[s] = 0 /\ \A i \in DOMAIN memory[s] : ~memory[s][i].hooked
      BY <1>2, <2>1 DEF Resting
    <3>2. ASSUME NEW i \in DOMAIN memory'[s] PROVE ~memory'[s][i].hooked
      <4>1. i = 1 \/ (i - 1 \in 1..Len(memory[s]) /\ (i - 1) + 1 = i)
        BY <1>3
      <4>2. CASE i # 1
        <5>1. i - 1 \in DOMAIN memory[s] /\ memory'[s][i] = memory[s][i - 1]
          BY <1>3, <4>1, <4>2
        <5> QED
          BY <3>1, <5>1
      <4> QED
        BY <1>3, <2>1, <4>2
    <3> QED
      BY <3>1, <3>2
  <2> QED
    BY <1>1, <2>1 DEF Resting
<1>5. Counted(s)' /\ LoggedInv(s)'
  BY RecordedLog
<1>6. ASSUME Lone(s)'
      PROVE  /\ ~reloading'[s] /\ ~loadFailed'[s]
             /\ phase[s] # "up" => rows' = {} /\ queue'[s] = << >>
             /\ phase[s] = "up" =>
                  tip'[s].seq = Cardinality(rows') /\ Distinct(s)' /\ NothingLost(s)'
  <2>1. /\ ~reloading[s] /\ ~loadFailed[s]
        /\ phase[s] # "up" => rows = {} /\ queue[s] = << >>
        /\ phase[s] = "up" =>
             tip[s].seq = Cardinality(rows) /\ Distinct(s) /\ NothingLost(s)
    BY <1>1, <1>2, <1>6, LoneBefore
  <2>2. CASE phase[s] = "up"
    <3>1. Remember(s, TRUE)
      <4>1. (phase[s] = "up") = TRUE
        BY <2>2
      <4> QED
        BY <1>1, <4>1
    <3>2. Distinct(s)' /\ NothingLost(s)'
      BY <1>1, <1>2, <2>1, <2>2, <3>1, RecordedDistinct
    <3> QED
      BY <1>1, <2>1, <2>2, <3>2
  <2>3. CASE phase[s] # "up"
    BY <1>1, <2>1, <2>3
  <2> QED
    BY <2>2, <2>3
<1>7. LoneInv(s)'
  BY <1>1, <1>6 DEF LoneInv
<1>8. \A o \in Servers \ {s} : Same(o)
  BY <1>1, <1>3 DEF Same
<1> QED
  BY <1>1, <1>4, <1>5, <1>7, <1>8, ServerStep

-----------------------------------------------------------------------------
(* The tasks of the queue                                                    *)
LEMMA TaskKeeps ==
  ASSUME KeptInv, TypeOK, NEW s \in Servers, phase[s] # "down",
         phase' = phase, memory' = memory, hydrated' = hydrated, lastHash' = lastHash,
         \A o \in Servers \ {s} :
           /\ queue'[o] = queue[o] /\ reloading'[o] = reloading[o]
           /\ loadFailed'[o] = loadFailed[o],
         LoneInv(s)'
  PROVE  KeptInv'
<1>1. Resting(s) /\ Counted(s) /\ LoggedInv(s)
  BY DEF KeptInv
<1>2. Resting(s)'
  BY <1>1 DEF Resting
<1>3. Counted(s)' /\ LoggedInv(s)'
  BY <1>1, LogStays
<1>4. \A o \in Servers \ {s} : Same(o)
  BY DEF Same
<1> QED
  BY <1>2, <1>3, <1>4, ServerStep

(* A task is at work only in a server that runs.                             *)
LEMMA AtWork ==
  ASSUME KeptInv, TypeOK, NEW s \in Servers, queue[s] # << >> \/ reloading[s]
  PROVE  phase[s] # "down"
BY DEF KeptInv, Resting

LEMMA WriteKeeps ==
  ASSUME Inv, KeptInv, TypeOK, NEW s \in Servers, WriteAuditLog(s)
  PROVE  KeptInv'
<1> DEFINE q   == queue[s]
           q1  == queue'[s]
           n   == Len(q)
           row == Candidate(s)
<1>1. /\ q # << >> /\ q1 = Tail(q) /\ ~Conflicts(row) /\ rows' = rows \union {row}
      /\ tip'[s].seq = tip[s].seq + 1
      /\ phase' = phase /\ memory' = memory /\ hydrated' = hydrated /\ lastHash' = lastHash
      /\ loadFailed' = loadFailed /\ reloading' = reloading /\ faults' = faults
      /\ \A o \in Servers \ {s} : queue'[o] = queue[o]
  BY DEF WriteAuditLog, NextTask, TypeOK, Candidate
<1>2. phase[s] # "down"
  BY <1>1, AtWork
<1>3. /\ q \in Seq(Event) /\ n \in Nat \ {0} /\ DOMAIN q = 1..n /\ Head(q) = q[1]
  BY <1>1, EmptySeq, LenProperties DEF TypeOK
<1>4. /\ q1 \in Seq(Event) /\ Len(q1) = n - 1 /\ DOMAIN q1 = 1..(n - 1)
      /\ \A i \in 1..(n - 1) : q1[i] = q[i + 1]
  <2>1. /\ Tail(q) \in Seq(Event) /\ Len(Tail(q)) = n - 1
        /\ \A i \in 1..Len(Tail(q)) : Tail(q)[i] = q[i + 1]
    BY <1>1, <1>3, HeadTailProperties
  <2> QED
    BY <1>1, <2>1, LenProperties
<1>5. row.event = q[1]
  BY <1>3 DEF Candidate
<1>6. Cardinality(rows') = Cardinality(rows) + 1
  <2>1. row \notin rows
    BY <1>1 DEF Conflicts
  <2> QED
    BY <1>1, <2>1, FS_AddElement DEF Inv, Numbered
<1>7. Events(s)' = Events(s)
  BY <1>1 DEF Events
<1> HIDE DEF q1, n, row
<1>8. \A i \in 1..(n - 1) : i + 1 \in 1..n /\ q1[i] = q[i + 1] /\ 1 < i + 1
  BY <1>3, <1>4
<1>9. 1 \in 1..n
  BY <1>3
<1>10. ASSUME Distinct(s) PROVE Distinct(s)'
  <2>1. /\ \A i, j \in 1..n : i < j => Id(q[i]) # Id(q[j])
        /\ \A r \in rows, i \in 1..n : Id(r.event) # Id(q[i])
        /\ \A i \in 1..n : q[i].n = 0 \/ q[i] \in Events(s)
        /\ \A r \in rows : r.event.n = 0 \/ r.event \in Events(s)
    BY <1>3, <1>10 DEF Distinct, Known
  <2> HIDE DEF q
  <2>2. ASSUME NEW i \in 1..(n - 1), NEW j \in 1..(n - 1), i < j PROVE Id(q1[i]) # Id(q1[j])
    <3>1. i + 1 \in 1..n /\ j + 1 \in 1..n /\ i + 1 < j + 1
      BY <1>3, <1>8, <2>2
    <3> QED
      BY <1>8, <2>1, <3>1
  <2>3. ASSUME NEW r \in rows', NEW i \in 1..(n - 1) PROVE Id(r.event) # Id(q1[i])
    <3>1. i + 1 \in 1..n /\ q1[i] = q[i + 1] /\ 1 < i + 1
      BY <1>8
    <3>2. CASE r \in rows
      BY <2>1, <3>1, <3>2
    <3>3. CASE r = row
      BY <1>5, <1>9, <2>1, <3>1, <3>3
    <3> QED
      BY <1>1, <3>2, <3>3
  <2>4. \A i \in 1..(n - 1) : q1[i].n = 0 \/ q1[i] \in Events(s)'
    BY <1>7, <1>8, <2>1
  <2>5. \A r \in rows' : r.event.n = 0 \/ r.event \in Events(s)'
    BY <1>1, <1>5, <1>7, <1>9, <2>1
  <2> QED
    BY <1>4, <2>2, <2>3, <2>4, <2>5 DEF Distinct, Known, q1
<1>11. ASSUME Sealing(s) PROVE Sealing(s)'
  <2>1. Len(q) <= 1 /\ (\A i \in DOMAIN q : q[i].n = 0) /\ rows = {}
    BY <1>1, <1>11 DEF Sealing
  <2>2. n = 1 /\ q[1].n = 0
    <3>1. n <= 1
      BY <2>1 DEF n
    <3>2. 1 \in DOMAIN q
      BY <1>3, <1>9
    <3> QED
      BY <1>3, <2>1, <3>1, <3>2
  <2>3. DOMAIN q1 = {} /\ Len(q1) = 0 /\ q1 = << >>
    BY <1>4, <2>2, EmptySeq
  <2>4. \A r \in rows' : r.event.n = 0
    BY <1>1, <1>5, <2>1, <2>2
  <2> HIDE DEF q
  <2> QED
    BY <2>3, <2>4 DEF Sealing, q1
<1>12. ASSUME NothingLost(s) PROVE NothingLost(s)'
  <2>1. Durable' = Durable \union {q[1]}
    BY <1>1, <1>5 DEF Durable
  <2>2. Pending(s) = {q[i] : i \in 1..n} /\ Pending(s)' = {q1[i] : i \in 1..(n - 1)}
    BY <1>3, <1>4 DEF Pending, q1
  <2> HIDE DEF q
  <2>3. ASSUME NEW i \in 1..n PROVE q[i] \in Durable' \union Pending(s)'
    <3>1. i = 1 \/ (i - 1 \in 1..(n - 1) /\ (i - 1) + 1 = i)
      BY <1>3
    <3> QED
      BY <1>4, <2>1, <2>2, <3>1
  <2>4. Durable \union Pending(s) \subseteq Durable' \union Pending(s)'
    BY <2>1, <2>2, <2>3
  <2>5. (\E r \in rows : r.event.n = 0) => \E r \in rows' : r.event.n = 0
    BY <1>1
  <2> QED
    BY <1>1, <1>12, <2>4, <2>5 DEF NothingLost
<1>13. ASSUME Lone(s)'
       PROVE  /\ ~reloading[s] /\ ~loadFailed[s] /\ phase[s] \notin {"connecting", "offline"}
              /\ tip'[s].seq = Cardinality(rows') /\ Distinct(s)'
              /\ phase[s] = "backfilling" => Sealing(s)'
              /\ phase[s] \in {"hydrating", "up"} => NothingLost(s)'
  <2>1. phase[s] \in Phases \ {"down"}
    BY <1>2 DEF TypeOK
  <2>2. /\ ~reloading[s] /\ ~loadFailed[s]
        /\ phase[s] \in {"connecting", "offline"} => rows = {} /\ queue[s] = << >>
        /\ phase[s] \in {"backfilling", "hydrating", "up"} =>
             tip[s].seq = Cardinality(rows) /\ Distinct(s)
        /\ phase[s] = "backfilling" => Sealing(s)
        /\ phase[s] \in {"hydrating", "up"} => NothingLost(s)
    BY <1>1, <1>2, <1>13, LoneBefore
  <2>3. phase[s] \in {"backfilling", "hydrating", "up"}
    BY <1>1, <2>1, <2>2 DEF Phases
  <2> QED
    BY <1>1, <1>6, <1>10, <1>11, <1>12, <2>2, <2>3
<1>14. LoneInv(s)'
  BY <1>1, <1>13 DEF LoneInv
<1> QED
  BY <1>1, <1>2, <1>14, TaskKeeps

(* A server that is alone meets no conflict, and has no end to read again.   *)
LEMMA IgnoredKeeps ==
  ASSUME Inv, KeptInv, TypeOK, NEW s \in Servers, WriteIgnored(s)
  PROVE  KeptInv'
<1> DEFINE q   == queue[s]
           row == Candidate(s)
<1>1. /\ q # << >> /\ Conflicts(row) /\ rows' = rows
      /\ phase' = phase /\ memory' = memory /\ hydrated' = hydrated /\ lastHash' = lastHash
      /\ loadFailed' = loadFailed /\ faults' = faults
      /\ \A o \in Servers \ {s} : queue'[o] = queue[o] /\ reloading'[o] = reloading[o]
  BY DEF WriteIgnored, NextTask, TypeOK
<1>2. phase[s] # "down"
  BY <1>1, AtWork
<1>3. 1 \in DOMAIN q /\ Head(q) = q[1]
  <2>1. q \in Seq(Event) /\ Len(q) \in Nat \ {0} /\ DOMAIN q = 1..Len(q)
    BY <1>1, EmptySeq, LenProperties DEF TypeOK
  <2> QED
    BY <2>1
<1>4. row.event = q[1] /\ row.seq = tip[s].seq + 1
  BY <1>3 DEF Candidate
<1>5. ASSUME Lone(s)' PROVE FALSE
  <2>1. phase[s] \in Phases \ {"down"}
    BY <1>2 DEF TypeOK
  <2>2. /\ phase[s] \in {"connecting", "offline"} => queue[s] = << >>
        /\ phase[s] \in {"backfilling", "hydrating", "up"} =>
             tip[s].seq = Cardinality(rows) /\ Distinct(s)
    BY <1>1, <1>2, <1>5, LoneBefore
  <2>3. tip[s].seq = Cardinality(rows) /\ Distinct(s)
    BY <1>1, <2>1, <2>2 DEF Phases
  <2>4. PICK r \in rows : r.seq = row.seq \/ Id(r.event) = Id(row.event)
    BY <1>1 DEF Conflicts
  <2>5. Id(r.event) # Id(row.event)
    BY <1>3, <1>4, <2>3 DEF Distinct
  <2>6. r.seq \in 1..Cardinality(rows) /\ Cardinality(rows) \in Nat
    BY RowsCounted DEF Inv
  <2> HIDE DEF row
  <2> QED
    BY <1>4, <2>3, <2>4, <2>5, <2>6
<1>6. LoneInv(s)'
  BY <1>5 DEF LoneInv
<1> QED
  BY <1>1, <1>2, <1>6, TaskKeeps

LEMMA FailsKeeps ==
  ASSUME KeptInv, TypeOK, NEW s \in Servers, WriteFails(s)
  PROVE  KeptInv'
<1>1. /\ queue[s] # << >> /\ faults' = faults + 1
      /\ phase' = phase /\ memory' = memory /\ hydrated' = hydrated /\ lastHash' = lastHash
      /\ loadFailed' = loadFailed /\ reloading' = reloading
      /\ \A o \in Servers \ {s} : queue'[o] = queue[o]
  BY DEF WriteFails, NextTask, Fault, TypeOK
<1>2. phase[s] # "down"
  BY <1>1, AtWork
<1>3. LoneInv(s)'
  BY <1>1 DEF LoneInv, Lone, TypeOK
<1> QED
  BY <1>1, <1>2, <1>3, TaskKeeps

LEMMA ReloadKeeps ==
  ASSUME KeptInv, TypeOK, NEW s \in Servers, ReloadTip(s)
  PROVE  KeptInv'
<1>1. /\ faults' = faults \/ faults' = faults + 1
      /\ phase' = phase /\ memory' = memory /\ hydrated' = hydrated /\ lastHash' = lastHash
      /\ \A o \in Servers \ {s} : reloading'[o] = reloading[o]
      /\ \A o \in Servers \ {s} : loadFailed'[o] = loadFailed[o] /\ queue'[o] = queue[o]
  BY DEF ReloadTip, Fault, TypeOK
<1>2. reloading[s]
  BY DEF ReloadTip
<1>3. phase[s] # "down"
  BY <1>2, AtWork
<1>4. ~Lone(s)'
  BY <1>1, <1>2, <1>3, LoneBefore
<1>5. LoneInv(s)'
  BY <1>4 DEF LoneInv
<1> QED
  BY <1>1, <1>3, <1>5, TaskKeeps

LEMMA CrashKeeps ==
  ASSUME KeptInv, TypeOK, NEW s \in Servers, Crash(s)
  PROVE  KeptInv'
<1>1. /\ phase'[s] = "down" /\ faults' # 0
      /\ memory'[s] = << >> /\ hydrated'[s] = 0 /\ lastHash'[s] = Genesis
      /\ queue'[s] = << >> /\ ~reloading'[s] /\ ~loadFailed'[s]
      /\ \A o \in Servers \ {s} : Same(o)
  BY DEF Crash, Fault, Same, TypeOK
<1>2. DOMAIN << >> = {} /\ 1..Len(<< >>) = {}
  OBVIOUS
<1>3. Resting(s)' /\ Counted(s)' /\ LoggedInv(s)' /\ LoneInv(s)'
  BY <1>1, <1>2 DEF Resting, Counted, LoggedInv, LoneInv, Lone
<1> QED
  BY <1>1, <1>3, ServerStep

LEMMA KeptStep == Inv /\ ClockInv /\ KeptInv /\ [Next]_vars => KeptInv'
<1> SUFFICES ASSUME Inv, ClockInv, KeptInv, [Next]_vars PROVE KeptInv'
  OBVIOUS
<1>1. TypeOK /\ TypeOK'
  BY TypesStep DEF ClockInv
<1>2. CASE UNCHANGED vars \/ Tick
  <2>1. UNCHANGED <<rows, local, faults>>
    BY <1>2 DEF Tick, vars, local
  <2>2. /\ rows' = rows /\ phase' = phase /\ memory' = memory /\ hydrated' = hydrated
        /\ lastHash' = lastHash /\ tip' = tip /\ loadFailed' = loadFailed
        /\ queue' = queue /\ reloading' = reloading /\ faults' = faults
    BY <2>1 DEF local
  <2>3. ASSUME NEW s \in Servers
        PROVE  Resting(s)' /\ Counted(s)' /\ LoggedInv(s)' /\ LoneInv(s)'
    <3>1. Resting(s) /\ Counted(s) /\ LoggedInv(s) /\ LoneInv(s)
      BY DEF KeptInv
    <3>2. Resting(s)' /\ Counted(s)' /\ LoggedInv(s)'
      BY <2>2, <3>1, SameKeeps DEF Same
    <3>3. Lone(s)' = Lone(s) /\ Distinct(s)' = Distinct(s) /\ Sealing(s)' = Sealing(s)
      BY <2>2 DEF Lone, Distinct, Known, Events, Sealing
    <3>4. NothingLost(s)' = NothingLost(s)
      BY <2>2 DEF NothingLost, Durable, Pending
    <3> QED
      BY <2>2, <3>1, <3>2, <3>3, <3>4 DEF LoneInv
  <2> QED
    BY <2>2, <2>3 DEF KeptInv
<1>3. ASSUME NEW s \in Servers, Boot(s) PROVE KeptInv'
  BY <1>1, <1>3, StartKeeps, ConnectKeeps, OfflineKeeps, BackfillKeeps, HydrateKeeps DEF Boot
<1>4. ASSUME NEW s \in Servers, RecordAudit(s) PROVE KeptInv'
  BY <1>4, RecordKeeps
<1>5. ASSUME NEW s \in Servers, Queue(s) PROVE KeptInv'
  BY <1>1, <1>5, WriteKeeps, IgnoredKeeps, FailsKeeps, ReloadKeeps DEF Queue
<1>6. ASSUME NEW s \in Servers, Crash(s) PROVE KeptInv'
  BY <1>1, <1>6, CrashKeeps
<1> QED
  BY <1>2, <1>3, <1>4, <1>5, <1>6 DEF Next

LEMMA KeptIsEnough == ClockInv /\ KeptInv => LogsAreKept
<1> SUFFICES ASSUME ClockInv, KeptInv PROVE LogsAreKept
  OBVIOUS
<1>1. TypeOK
  BY DEF ClockInv
<1>2. LoneServerLosesNothing
  <2> SUFFICES ASSUME NEW s \in Servers, Alone(s) PROVE NothingLost(s)
    BY DEF LoneServerLosesNothing, NothingLost
  <2>1. Lone(s) /\ phase[s] = "up"
    BY DEF Alone, Lone
  <2> QED
    BY <2>1 DEF KeptInv, LoneInv
<1>3. MemoryVerifies
  <2> SUFFICES ASSUME NEW s \in Servers, phase[s] = "offline"
               PROVE  VerifyMemory(s) <=>
                        \A i, k \in DOMAIN memory[s] :
                          memory[s][i].event.time = memory[s][k].event.time => i = k
    BY DEF MemoryVerifies
  <2>1. LoggedInv(s) /\ ChainOf(memory[s], lastHash[s])
    BY DEF KeptInv, LoggedInv
  <2> QED
    BY <1>1, <2>1, VerifiesIfApart
<1> QED
  BY <1>2, <1>3 DEF LogsAreKept

(* What a lone server records reaches the table or waits for it, and what an *)
(* offline one records verifies just when no two events share a millisecond: *)
(* for any number of servers, and any number of events.                      *)
THEOREM LogsStayKept == Spec => []LogsAreKept
<1> QED
  BY InvHolds, ClockHolds, KeptInit, KeptStep, KeptIsEnough, PTL DEF Spec

-----------------------------------------------------------------------------
(* The elements of a queue that are in a set.                                *)
OnlyUp(h, q, S) ==
    h = [s \in SUBSET DOMAIN q |->
           IF s = {} THEN << >>
           ELSE LET x == Max(s)
                IN  IF q[x] \in S THEN Append(h[s \ {x}], q[x]) ELSE h[s \ {x}]]

LEMMA OnlyUnfolds ==
  ASSUME NEW q, NEW S, \E h : OnlyUp(h, q, S)
  PROVE  \E h : OnlyUp(h, q, S) /\ Only(q, S) = h[DOMAIN q]
<1> DEFINE g == CHOOSE h : OnlyUp(h, q, S)
<1>1. OnlyUp(g, q, S)
  OBVIOUS
<1>2. Only(q, S) = g[DOMAIN q]
  BY DEF Only, FoldLeft, MapThenFoldSet, OnlyUp
<1> QED
  BY <1>1, <1>2

KeptByPrefix(g, q, S) ==
    /\ g[0] = << >> /\ Only(q, S) = g[Len(q)]
    /\ \A i \in 1..Len(q) : g[i] = IF q[i] \in S THEN Append(g[i - 1], q[i]) ELSE g[i - 1]

LEMMA OnlyByPrefix ==
  ASSUME NEW V, NEW q \in Seq(V), NEW S
  PROVE  \E g : KeptByPrefix(g, q, S)
<1> DEFINE n == Len(q)
           step == [p \in (1..n) \X Seq(V) |->
                      IF q[p[1]] \in S THEN Append(p[2], q[p[1]]) ELSE p[2]]
<1>1. n \in Nat /\ DOMAIN q = 1..n /\ \A i \in 1..n : q[i] \in V
  OBVIOUS
<1> HIDE DEF n
<1>2. step \in [(1..n) \X Seq(V) -> Seq(V)] /\ << >> \in Seq(V)
  BY <1>1
<1>3. \A i \in 1..n, x \in Seq(V) : step[<<i, x>>] = IF q[i] \in S THEN Append(x, q[i]) ELSE x
  OBVIOUS
<1> HIDE DEF step
<1>4. PICK k \in [SUBSET (1..n) -> Seq(V)] : FoldsUp(k, step, << >>, n)
  BY <1>1, <1>2, FoldExists
<1>5. OnlyUp(k, q, S)
  <2>1. \A s \in SUBSET (1..n) : s # {} => Max(s) \in 1..n /\ k[s \ {Max(s)}] \in Seq(V)
    BY <1>1, <1>4, MaxOf
  <2>2. \A s \in SUBSET (1..n) :
          s # {} => step[<<Max(s), k[s \ {Max(s)}]>>] =
                      IF q[Max(s)] \in S THEN Append(k[s \ {Max(s)}], q[Max(s)]) ELSE k[s \ {Max(s)}]
    BY <1>3, <2>1
  <2>3. k = [s \in SUBSET (1..n) |-> IF s = {} THEN << >> ELSE step[<<Max(s), k[s \ {Max(s)}]>>]]
    BY <1>4 DEF FoldsUp
  <2>4. \A s \in SUBSET (1..n) :
          k[s] = IF s = {} THEN << >>
                 ELSE IF q[Max(s)] \in S THEN Append(k[s \ {Max(s)}], q[Max(s)]) ELSE k[s \ {Max(s)}]
    BY <2>2, <2>3
  <2>5. k = [s \in SUBSET (1..n) |-> k[s]]
    BY <1>4
  <2> QED
    BY <1>1, <2>4, <2>5 DEF OnlyUp
<1>6. PICK h : OnlyUp(h, q, S) /\ Only(q, S) = h[1..n]
  BY <1>1, <1>5, OnlyUnfolds
<1>7. \A s \in SUBSET (1..n) :
        h[s] = IF s = {} THEN << >>
               ELSE IF q[Max(s)] \in S THEN Append(h[s \ {Max(s)}], q[Max(s)]) ELSE h[s \ {Max(s)}]
  BY <1>1, <1>6 DEF OnlyUp
<1> DEFINE g == [i \in 0..n |-> h[1..i]]
<1>8. g[0] = << >>
  <2>1. 1..0 = {} /\ 0 \in 0..n /\ {} \in SUBSET (1..n)
    BY <1>1
  <2> QED
    BY <1>7, <2>1
<1>9. ASSUME NEW i \in 1..n
      PROVE  g[i] = IF q[i] \in S THEN Append(g[i - 1], q[i]) ELSE g[i - 1]
  <2>i. i \in 1..n /\ n \in Nat
    BY <1>1
  <2> HIDE DEF g
  <2>0. /\ i \in Nat \ {0} /\ i \in 0..n /\ i - 1 \in 0..n
        /\ \A x \in 1..i : x \in 1..n
    BY ONLY <2>i
  <2>1. 1..i \in SUBSET (1..n) /\ 1..i # {}
    BY <2>0
  <2>2. Max(1..i) = i /\ (1..i) \ {i} = 1..(i - 1)
    BY <2>0, MaxOfPrefix
  <2>3. h[1..i] = IF q[i] \in S THEN Append(h[1..(i - 1)], q[i]) ELSE h[1..(i - 1)]
    BY <1>7, <2>1, <2>2
  <2> QED
    BY <2>0, <2>3 DEF g
<1>10. g[n] = Only(q, S)
  BY <1>1, <1>6
<1> HIDE DEF g
<1> QED
  BY <1>8, <1>9, <1>10 DEF n, KeptByPrefix

LEMMA OnlyFacts ==
  ASSUME NEW V, NEW q \in Seq(V), IsInjective(q), NEW S
  PROVE  /\ Only(q, S) \in Seq(V) /\ IsInjective(Only(q, S))
         /\ ToSet(Only(q, S)) = ToSet(q) \intersect S
<1>0. PICK g : KeptByPrefix(g, q, S)
  BY OnlyByPrefix
<1> DEFINE n == Len(q)
           Have(i) == {q[k] : k \in 1..i} \intersect S
           Good(x, i) == /\ x \in Seq(V) /\ IsInjective(x) /\ ToSet(x) = Have(i)
<1>1. n \in Nat /\ DOMAIN q = 1..n /\ \A i \in 1..n : q[i] \in V
  OBVIOUS
<1>2. /\ g[0] = << >> /\ Only(q, S) = g[n]
      /\ \A i \in 1..n : g[i] = IF q[i] \in S THEN Append(g[i - 1], q[i]) ELSE g[i - 1]
  BY <1>0 DEF KeptByPrefix
<1> HIDE DEF n
<1> DEFINE Bad == {i \in Nat : i <= n /\ ~Good(g[i], i)}
<1>3. Bad = {}
  <2> SUFFICES ASSUME Bad # {} PROVE FALSE
    OBVIOUS
  <2>1. PICK i \in Bad : \A j \in Bad : i <= j
    BY LeastOf
  <2>i. i \in Nat /\ i <= n /\ ~Good(g[i], i)
    BY <2>1
  <2>2. i # 0
    <3>1. << >> \in Seq(V) /\ IsInjective(<< >>) /\ ToSet(<< >>) = {} /\ Have(0) = {}
      BY DEF IsInjective, ToSet
    <3> QED
      BY <1>2, <2>i, <3>1
  <2>3. i - 1 \in Nat /\ i - 1 <= n /\ i - 1 \notin Bad /\ i \in 1..n
    <3>1. i - 1 \in Nat /\ i - 1 <= n /\ i \in 1..n /\ ~(i <= i - 1)
      BY <1>1, <2>i, <2>2
    <3> QED
      BY <2>1, <3>1
  <2> DEFINE x == g[i - 1]
  <2>4. Good(x, i - 1)
    BY <2>3
  <2>5. Have(i) = Have(i - 1) \union ({q[i]} \intersect S)
    <3>1. 1..i = 1..(i - 1) \union {i}
      BY <2>3
    <3> QED
      BY <3>1
  <2>6. g[i] = IF q[i] \in S THEN Append(x, q[i]) ELSE x
    BY <1>2, <2>3
  <2>7. q[i] \in V /\ q[i] \notin Have(i - 1)
    BY <1>1, <2>3 DEF IsInjective
  <2> HIDE DEF x, Have
  <2>8. Good(g[i], i)
    <3>1. CASE q[i] \notin S
      BY <2>4, <2>5, <2>6, <3>1
    <3>2. CASE q[i] \in S
      <4> DEFINE m == Len(x)
                 y == Append(x, q[i])
      <4>1. m \in Nat /\ DOMAIN x = 1..m
        BY <2>4
      <4>2. /\ y \in Seq(V) /\ DOMAIN y = 1..(m + 1) /\ y[m + 1] = q[i]
            /\ \A k \in 1..m : y[k] = x[k]
        BY <2>4, <2>7, AppendProperties
      <4> HIDE DEF m, y
      <4>3. ToSet(y) = ToSet(x) \union {q[i]}
        <5>1. 1..(m + 1) = 1..m \union {m + 1}
          BY <4>1
        <5> QED
          BY <4>1, <4>2, <5>1 DEF ToSet
      <4>4. \A k \in 1..m : x[k] # q[i]
        BY <2>4, <2>7, <4>1 DEF ToSet
      <4>5. IsInjective(y)
        <5>1. \A k, l \in 1..(m + 1) : y[k] = y[l] => k = l
          <6> SUFFICES ASSUME NEW k \in 1..(m + 1), NEW l \in 1..(m + 1), y[k] = y[l] PROVE k = l
            OBVIOUS
          <6>1. \A c \in 1..(m + 1) : c # m + 1 => c \in 1..m
            BY <4>1
          <6>2. \A c, d \in 1..m : x[c] = x[d] => c = d
            BY <2>4, <4>1 DEF IsInjective
          <6> QED
            BY <4>2, <4>4, <6>1, <6>2
        <5> QED
          BY <4>2, <5>1 DEF IsInjective
      <4> QED
        BY <2>4, <2>5, <2>6, <3>2, <4>2, <4>3, <4>5 DEF y
    <3> QED
      BY <3>1, <3>2
  <2> QED
    BY <2>1, <2>8
<1>4. Good(g[n], n)
  <2>1. n <= n
    BY <1>1
  <2>2. n \notin Bad
    BY <1>3
  <2> QED
    BY <1>1, <2>1, <2>2
<1>5. Have(n) = ToSet(q) \intersect S
  BY <1>1 DEF ToSet
<1> QED
  BY <1>2, <1>4, <1>5

-----------------------------------------------------------------------------
(* The offline queue. localStorage holds the items of the queue, each as it  *)
(* is or as it was before it was handled.                                    *)
RetriesLeft(item) == item.status = "PENDING" => item.retries < RetryLimit

Stores(written, q, its) ==
    /\ written \in [DOMAIN q -> [id: Items, item: ItemStates]]
    /\ \A k \in DOMAIN q :
         /\ written[k].id = q[k] /\ RetriesLeft(written[k].item)
         /\ ~(written[k].item.status = "PENDING") => written[k].item.status = its[q[k]].status

TypedSweep(sw, fl) ==
    /\ sw \in [on: BOOLEAN, detached: BOOLEAN, list: Seq(Items), pos: Nat]
    /\ fl \in {"none", "sent", "created", "refused"}
    /\ sw.on <=> fl # "none"

TypedQueue(q, its) ==
    /\ q \in Seq(Items) /\ IsInjective(q)
    /\ its \in [Items -> ItemStates] /\ \A i \in Items : RetriesLeft(its[i])

ArrayOf(sw, q) == IF sw.detached THEN sw.list ELSE q

(* What is being sent is an item of the array, still pending.                *)
SendsPending(sw, fl, q, its) ==
    fl # "none" => sw.pos \in DOMAIN ArrayOf(sw, q) /\ IsPending(its, ArrayOf(sw, q)[sw.pos])

OfflineTypes ==
    /\ TypedQueue(offlineQueue, items) /\ TypedSweep(sweep, flight)
    /\ online \in BOOLEAN /\ reloads \in 0..MaxReloads
    /\ received \in [Items -> Nat] /\ unknown \in [Items -> Nat]
    /\ fate \in [Items -> {"unissued", "queued", "cleared", "removed"}]

(* Each creation is one the client does not know of, the one that made the   *)
(* item SYNCED, or the one whose answer is under way.                        *)
CreationsCounted ==
    \A i \in Items :
        received[i] = unknown[i] + (IF items[i].status = "SYNCED" THEN 1 ELSE 0)
                                 + (IF flight = "created" /\ Sending = i THEN 1 ELSE 0)

Issued ==
    \A i \in Items : /\ fate[i] = "queued" <=> i \in ToSet(offlineQueue)
                     /\ fate[i] = "unissued" => IsPending(items, i) /\ i \notin ToSet(sweep.list)

OfflineInv ==
    /\ OfflineTypes
    /\ Stores(stored, offlineQueue, items)
    /\ SendsPending(sweep, flight, offlineQueue, items)
    /\ CreationsCounted
    /\ Issued

LEMMA StoredItems ==
  ASSUME OfflineTypes, Stores(stored, offlineQueue, items)
  PROVE  OfflineTypeOK
<1>1. stored \in Seq([id: Items, item: ItemStates])
  <2>1. DOMAIN offlineQueue = 1..Len(offlineQueue) /\ Len(offlineQueue) \in Nat
    BY DEF OfflineTypes, TypedQueue
  <2> DEFINE n == Len(offlineQueue)
             R == [id: Items, item: ItemStates]
  <2>2. n \in Nat /\ stored \in [1..n -> R]
    BY <2>1 DEF Stores
  <2> HIDE DEF n, R
  <2>3. stored \in Seq(R)
    BY <2>2
  <2> QED
    BY <2>3 DEF R
<1> QED
  BY <1>1 DEF OfflineTypes, OfflineTypeOK, TypedQueue, TypedSweep

LEMMA SavedStores ==
  ASSUME NEW q, NEW its, TypedQueue(q, its)
  PROVE  Stores(Saved(q, its), q, its)
<1>1. \A k \in DOMAIN q : q[k] \in Items /\ its[q[k]] \in ItemStates /\ RetriesLeft(its[q[k]])
  BY DEF TypedQueue
<1> QED
  BY <1>1 DEF Stores, Saved

(* What the loop comes to.                                                   *)
LEMMA ProceedFacts ==
  ASSUME NEW q, NEW its, NEW detached \in BOOLEAN, NEW list \in Seq(Items), NEW p \in Nat, NEW written,
         TypedQueue(q, its), Proceed(q, its, detached, list, p, written)
  PROVE  /\ TypedSweep(sweep', flight') /\ SendsPending(sweep', flight', q, its)
         /\ flight' \in {"none", "sent"} /\ sweep'.list \in {<< >>, list}
         /\ stored' \in {written, Saved(q, its)}
<1> DEFINE array == IF detached THEN list ELSE q
           ahead == {k \in DOMAIN array : k > p /\ IsPending(its, array[k])}
           least == CHOOSE k \in ahead : \A l \in ahead : k <= l
<1>1. \A k \in ahead : k \in Nat
  BY DEF TypedQueue
<1>2. /\ sweep' = IF ahead = {} THEN NoSweep
                  ELSE [on |-> TRUE, detached |-> detached, list |-> list, pos |-> least]
      /\ flight' = IF ahead = {} THEN "none" ELSE "sent"
      /\ stored' = IF ahead = {} THEN Saved(q, its) ELSE written
  BY DEF Proceed
<1>3. \A k \in ahead : k \in DOMAIN array /\ IsPending(its, array[k])
  OBVIOUS
<1>4. ahead # {} => least \in ahead
  <2> HIDE DEF ahead
  <2>1. ahead # {} => \E t \in ahead : \A x \in ahead : t <= x
    <3>1. ahead \subseteq Nat
      BY <1>1
    <3> QED
      BY <3>1, LeastOf
  <2> QED
    BY <2>1
<1> HIDE DEF ahead, least
<1>5. CASE ahead = {}
  <2>1. sweep' = NoSweep /\ flight' = "none" /\ stored' = Saved(q, its)
    BY <1>2, <1>5
  <2> QED
    BY <2>1 DEF NoSweep, TypedSweep, SendsPending
<1>6. CASE ahead # {}
  <2>1. /\ sweep' = [on |-> TRUE, detached |-> detached, list |-> list, pos |-> least]
        /\ flight' = "sent" /\ stored' = written
    BY <1>2, <1>6
  <2>2. least \in Nat /\ least \in DOMAIN array /\ IsPending(its, array[least])
    BY <1>1, <1>3, <1>4, <1>6
  <2>3. ArrayOf(sweep', q) = array /\ sweep'.pos = least /\ sweep'.list = list
    BY <2>1 DEF ArrayOf
  <2>4. TypedSweep(sweep', flight')
    BY <2>1, <2>2 DEF TypedSweep
  <2> HIDE DEF array
  <2>5. SendsPending(sweep', flight', q, its)
    BY <2>2, <2>3 DEF SendsPending
  <2> QED
    BY <2>1, <2>3, <2>4, <2>5
<1> QED
  BY <1>5, <1>6

LEMMA SyncNowFacts ==
  ASSUME NEW q, NEW conn, NEW written, TypedQueue(q, items), TypedSweep(sweep, flight),
         SendsPending(sweep, flight, q, items), SyncNow(q, conn, written)
  PROVE  /\ TypedSweep(sweep', flight') /\ SendsPending(sweep', flight', q, items)
         /\ (flight = "none" /\ flight' \in {"none", "sent"}) \/ (sweep' = sweep /\ flight' = flight)
         /\ sweep'.list \in {<< >>, sweep.list}
         /\ stored' \in {written, Saved(q, items)}
<1>1. CASE conn /\ ~sweep.on
  <2>1. Proceed(q, items, FALSE, <<>>, 0, written)
    BY <1>1 DEF SyncNow
  <2>2. <<>> \in Seq(Items)
    OBVIOUS
  <2>3. /\ TypedSweep(sweep', flight') /\ SendsPending(sweep', flight', q, items)
        /\ flight' \in {"none", "sent"} /\ sweep'.list \in {<< >>, << >>}
        /\ stored' \in {written, Saved(q, items)}
    BY <2>1, <2>2, ProceedFacts
  <2>4. flight = "none"
    BY <1>1 DEF TypedSweep
  <2> QED
    BY <2>3, <2>4
<1>2. CASE ~(conn /\ ~sweep.on)
  <2>1. stored' = written /\ sweep' = sweep /\ flight' = flight
    BY <1>2 DEF SyncNow
  <2> QED
    BY <2>1
<1> QED
  BY <1>1, <1>2

(* Whether the loop saved or not, localStorage holds the queue.              *)
LEMMA StoresEither ==
  ASSUME NEW q, NEW its, NEW written, TypedQueue(q, its), Stores(written, q, its),
         stored' \in {written, Saved(q, its)}
  PROVE  Stores(stored', q, its)
BY SavedStores

LEMMA EnqueueKeeps ==
  ASSUME OfflineInv, NEW i \in Items, NEW done \in BOOLEAN, Enqueue(i, done)
  PROVE  OfflineInv'
<1> DEFINE q == Append(offlineQueue, i)
           n == Len(offlineQueue)
<1>1. /\ fate[i] = "unissued" /\ offlineQueue' = q /\ SyncNow(q, online, Saved(q, items))
      /\ fate' = [fate EXCEPT ![i] = "queued"]
      /\ received' = [received EXCEPT ![i] = IF done THEN 1 ELSE 0]
      /\ unknown' = [unknown EXCEPT ![i] = IF done THEN 1 ELSE 0]
      /\ items' = items /\ online' = online /\ reloads' = reloads
  BY DEF Enqueue
<1>2. /\ TypedQueue(offlineQueue, items) /\ TypedSweep(sweep, flight)
      /\ online \in BOOLEAN /\ reloads \in 0..MaxReloads
      /\ received \in [Items -> Nat] /\ unknown \in [Items -> Nat]
      /\ fate \in [Items -> {"unissued", "queued", "cleared", "removed"}]
  BY DEF OfflineInv, OfflineTypes
<1>3. i \notin ToSet(offlineQueue) /\ IsPending(items, i) /\ i \notin ToSet(sweep.list)
  BY <1>1 DEF OfflineInv, Issued
<1>4. /\ offlineQueue \in Seq(Items) /\ IsInjective(offlineQueue)
      /\ n \in Nat /\ DOMAIN offlineQueue = 1..n
  BY <1>2 DEF TypedQueue
<1>5. /\ q \in Seq(Items) /\ DOMAIN q = 1..(n + 1) /\ q[n + 1] = i
      /\ \A k \in 1..n : q[k] = offlineQueue[k]
  BY <1>4, AppendProperties
<1> HIDE DEF q, n
<1>6. \A k \in 1..(n + 1) : k # n + 1 => k \in 1..n
  BY <1>4
<1>7. 1..(n + 1) = 1..n \union {n + 1}
  BY <1>4
<1>8. ToSet(q) = ToSet(offlineQueue) \union {i}
  BY <1>4, <1>5, <1>7 DEF ToSet
<1>9. IsInjective(q)
  <2>1. \A k \in 1..n : offlineQueue[k] # i
    BY <1>3, <1>4 DEF ToSet
  <2>2. \A k, l \in 1..n : offlineQueue[k] = offlineQueue[l] => k = l
    BY <1>4 DEF IsInjective
  <2>3. \A k, l \in 1..(n + 1) : q[k] = q[l] => k = l
    BY <1>5, <1>6, <2>1, <2>2
  <2> QED
    BY <1>5, <2>3 DEF IsInjective
<1>10. TypedQueue(q, items)
  BY <1>2, <1>5, <1>9 DEF TypedQueue
<1>11. flight # "none" => /\ sweep.pos \in DOMAIN ArrayOf(sweep, offlineQueue)
                          /\ sweep.pos \in DOMAIN ArrayOf(sweep, q)
                          /\ ArrayOf(sweep, q)[sweep.pos] = ArrayOf(sweep, offlineQueue)[sweep.pos]
                          /\ IsPending(items, ArrayOf(sweep, q)[sweep.pos])
                          /\ ArrayOf(sweep, q)[sweep.pos] # i
  <2> SUFFICES ASSUME flight # "none"
               PROVE  /\ sweep.pos \in DOMAIN ArrayOf(sweep, offlineQueue)
                      /\ sweep.pos \in DOMAIN ArrayOf(sweep, q)
                      /\ ArrayOf(sweep, q)[sweep.pos] = ArrayOf(sweep, offlineQueue)[sweep.pos]
                      /\ IsPending(items, ArrayOf(sweep, q)[sweep.pos])
                      /\ ArrayOf(sweep, q)[sweep.pos] # i
    OBVIOUS
  <2>1. /\ sweep.pos \in DOMAIN ArrayOf(sweep, offlineQueue)
        /\ IsPending(items, ArrayOf(sweep, offlineQueue)[sweep.pos])
    BY DEF OfflineInv, SendsPending
  <2>2. CASE sweep.detached
    <3>1. ArrayOf(sweep, q) = sweep.list /\ ArrayOf(sweep, offlineQueue) = sweep.list
      BY <2>2 DEF ArrayOf
    <3> QED
      BY <1>3, <2>1, <3>1 DEF ToSet
  <2>3. CASE ~sweep.detached
    <3>1. ArrayOf(sweep, q) = q /\ ArrayOf(sweep, offlineQueue) = offlineQueue
      BY <2>3 DEF ArrayOf
    <3>2. sweep.pos \in 1..n /\ sweep.pos \in 1..(n + 1) /\ q[sweep.pos] = offlineQueue[sweep.pos]
      BY <1>4, <1>5, <1>7, <2>1, <3>1
    <3> QED
      BY <1>3, <1>4, <1>5, <2>1, <3>1, <3>2 DEF ToSet
  <2> QED
    BY <2>2, <2>3
<1>12. SendsPending(sweep, flight, q, items)
  BY <1>11 DEF SendsPending
<1>13. /\ TypedSweep(sweep', flight') /\ SendsPending(sweep', flight', q, items)
       /\ (flight = "none" /\ flight' \in {"none", "sent"}) \/ (sweep' = sweep /\ flight' = flight)
       /\ sweep'.list \in {<< >>, sweep.list}
       /\ stored' \in {Saved(q, items), Saved(q, items)}
  BY <1>1, <1>2, <1>10, <1>12, SyncNowFacts
<1>14. Stores(stored', q, items)
  BY <1>10, <1>13, SavedStores
<1>15. OfflineTypes'
  BY <1>1, <1>2, <1>10, <1>13 DEF OfflineTypes
<1>16. CreationsCounted'
  <2> SUFFICES ASSUME NEW j \in Items
               PROVE  received'[j] = unknown'[j] + (IF items'[j].status = "SYNCED" THEN 1 ELSE 0)
                                   + (IF flight' = "created" /\ Sending' = j THEN 1 ELSE 0)
    BY DEF CreationsCounted
  <2>1. flight' = "created" => flight = "created" /\ Sending' = Sending /\ Sending # i
    <3>1. Sending = ArrayOf(sweep, offlineQueue)[sweep.pos] /\ Sending' = ArrayOf(sweep', offlineQueue')[sweep'.pos]
      BY DEF Sending, ArrayOf
    <3> QED
      BY <1>1, <1>11, <1>13, <3>1
  <2>2. CASE j = i
    <3>1. received'[j] = unknown'[j] /\ unknown'[j] \in Nat
      BY <1>1, <1>2, <2>2
    <3>2. items'[j].status # "SYNCED"
      BY <1>1, <1>3, <2>2 DEF IsPending
    <3> QED
      BY <2>1, <2>2, <3>1, <3>2
  <2>3. CASE j # i
    <3>1. received'[j] = received[j] /\ unknown'[j] = unknown[j] /\ items'[j] = items[j]
      BY <1>1, <1>2, <2>3
    <3>2. received[j] = unknown[j] + (IF items[j].status = "SYNCED" THEN 1 ELSE 0)
                                   + (IF flight = "created" /\ Sending = j THEN 1 ELSE 0)
      BY DEF OfflineInv, CreationsCounted
    <3>3. flight = "created" => flight' = "created"
      BY <1>13
    <3> QED
      BY <2>1, <3>1, <3>2, <3>3
  <2> QED
    BY <2>2, <2>3
<1> QED
  <2>0. Stores(stored', offlineQueue', items') /\ SendsPending(sweep', flight', offlineQueue', items')
    BY <1>1, <1>13, <1>14
  <2>1. Issued'
    <3> SUFFICES ASSUME NEW j \in Items
                 PROVE  /\ fate'[j] = "queued" <=> j \in ToSet(offlineQueue')
                        /\ fate'[j] = "unissued" => IsPending(items', j) /\ j \notin ToSet(sweep'.list)
      BY DEF Issued
    <3>1. /\ fate[j] = "queued" <=> j \in ToSet(offlineQueue)
          /\ fate[j] = "unissued" => IsPending(items, j) /\ j \notin ToSet(sweep.list)
      BY DEF OfflineInv, Issued
    <3>2. fate'[j] = IF j = i THEN "queued" ELSE fate[j]
      BY <1>1, <1>2
    <3>3. ToSet(<< >>) = {}
      BY DEF ToSet
    <3> QED
      BY <1>1, <1>8, <1>13, <3>1, <3>2, <3>3
  <2> QED
    BY <1>15, <1>16, <2>0, <2>1 DEF OfflineInv

(* The interval, the button and the event that the connection is back.       *)
LEMMA SyncKeeps ==
  ASSUME OfflineInv, NEW conn, SyncNow(offlineQueue, conn, stored), online' \in BOOLEAN,
         UNCHANGED <<offlineQueue, items, reloads, received, unknown, fate>>
  PROVE  OfflineInv'
<1>1. /\ TypedQueue(offlineQueue, items) /\ TypedSweep(sweep, flight)
      /\ SendsPending(sweep, flight, offlineQueue, items) /\ Stores(stored, offlineQueue, items)
  BY DEF OfflineInv, OfflineTypes
<1>2. /\ TypedSweep(sweep', flight') /\ SendsPending(sweep', flight', offlineQueue, items)
      /\ (flight = "none" /\ flight' \in {"none", "sent"}) \/ (sweep' = sweep /\ flight' = flight)
      /\ sweep'.list \in {<< >>, sweep.list}
      /\ stored' \in {stored, Saved(offlineQueue, items)}
  BY <1>1, SyncNowFacts
<1>3. Stores(stored', offlineQueue, items)
  BY <1>1, <1>2, SavedStores
<1>4. OfflineTypes'
  BY <1>1, <1>2 DEF OfflineTypes, OfflineInv
<1>5. CreationsCounted'
  <2>1. (flight' = "created" <=> flight = "created") /\ (flight' = "created" => sweep' = sweep)
    BY <1>2
  <2>2. flight' = "created" => Sending' = Sending
    BY <2>1 DEF Sending
  <2> QED
    BY <2>1, <2>2 DEF CreationsCounted, OfflineInv
<1>6. Issued'
  <2>1. ToSet(<< >>) = {}
    BY DEF ToSet
  <2> QED
    BY <1>2, <2>1 DEF Issued, OfflineInv
<1> QED
  BY <1>2, <1>3, <1>4, <1>5, <1>6 DEF OfflineInv

LEMMA SendingIs ==
  ASSUME OfflineInv, flight # "none"
  PROVE  /\ Sending = ArrayOf(sweep, offlineQueue)[sweep.pos] /\ Sending \in Items
         /\ sweep.pos \in DOMAIN ArrayOf(sweep, offlineQueue)
         /\ IsPending(items, Sending) /\ items[Sending] \in ItemStates
         /\ RetriesLeft(items[Sending])
<1>1. Sending = ArrayOf(sweep, offlineQueue)[sweep.pos]
  BY DEF Sending, ArrayOf
<1>2. /\ sweep.pos \in DOMAIN ArrayOf(sweep, offlineQueue)
      /\ IsPending(items, ArrayOf(sweep, offlineQueue)[sweep.pos])
  BY DEF OfflineInv, SendsPending
<1>3. TypedQueue(offlineQueue, items) /\ TypedSweep(sweep, flight)
  BY DEF OfflineInv, OfflineTypes
<1>4. ArrayOf(sweep, offlineQueue) \in Seq(Items)
  BY <1>3 DEF ArrayOf, TypedQueue, TypedSweep
<1>5. Sending \in Items
  BY <1>1, <1>2, <1>4
<1>6. items[Sending] \in ItemStates /\ RetriesLeft(items[Sending])
  BY <1>3, <1>5 DEF TypedQueue
<1> QED
  BY <1>1, <1>2, <1>5, <1>6

LEMMA ServerKeeps ==
  ASSUME OfflineInv, ServerCreates \/ ServerRefuses
  PROVE  OfflineInv'
<1>1. /\ flight = "sent" /\ flight' \in {"created", "refused"}
      /\ offlineQueue' = offlineQueue /\ items' = items /\ stored' = stored /\ sweep' = sweep
      /\ online' = online /\ reloads' = reloads /\ unknown' = unknown /\ fate' = fate
      /\ received' = IF flight' = "created" THEN [received EXCEPT ![Sending] = @ + 1] ELSE received
  BY DEF ServerCreates, ServerRefuses
<1>2. Sending \in Items /\ Sending' = Sending /\ IsPending(items, Sending)
  <2>1. flight # "none"
    BY <1>1
  <2>2. Sending' = Sending
    BY <1>1 DEF Sending
  <2> QED
    BY <2>1, <2>2, SendingIs
<1>3. OfflineTypes'
  <2>1. TypedSweep(sweep', flight') /\ received \in [Items -> Nat]
    BY <1>1 DEF OfflineInv, OfflineTypes, TypedSweep
  <2>2. received' \in [Items -> Nat]
    BY <1>1, <1>2, <2>1
  <2> QED
    BY <1>1, <2>1, <2>2 DEF OfflineInv, OfflineTypes
<1>4. CreationsCounted'
  <2> SUFFICES ASSUME NEW j \in Items
               PROVE  received'[j] = unknown'[j] + (IF items'[j].status = "SYNCED" THEN 1 ELSE 0)
                                   + (IF flight' = "created" /\ Sending' = j THEN 1 ELSE 0)
    BY DEF CreationsCounted
  <2>1. received[j] = unknown[j] + (IF items[j].status = "SYNCED" THEN 1 ELSE 0)
                                 + (IF flight = "created" /\ Sending = j THEN 1 ELSE 0)
    BY DEF OfflineInv, CreationsCounted
  <2>2. received \in [Items -> Nat] /\ unknown[j] \in Nat
    BY DEF OfflineInv, OfflineTypes
  <2>3. received'[j] = received[j] + IF flight' = "created" /\ Sending = j THEN 1 ELSE 0
    BY <1>1, <1>2, <2>2
  <2> QED
    BY <1>1, <1>2, <2>1, <2>2, <2>3
<1>5. SendsPending(sweep', flight', offlineQueue', items') /\ Stores(stored', offlineQueue', items')
  BY <1>1 DEF OfflineInv, SendsPending
<1>6. Issued'
  BY <1>1 DEF OfflineInv, Issued
<1> QED
  BY <1>3, <1>4, <1>5, <1>6 DEF OfflineInv

(* The answer to a request, or its loss: the creation it stands for becomes  *)
(* known, as the item becomes SYNCED, or one the client does not know of.    *)
LEMMA HandledKeeps ==
  ASSUME OfflineInv, flight # "none", NEW outcome \in ItemStates, RetriesLeft(outcome),
         Handled(outcome), NEW d \in {0, 1}, unknown' = [unknown EXCEPT ![Sending] = @ + d],
         (IF flight = "created" THEN 1 ELSE 0) = d + IF outcome.status = "SYNCED" THEN 1 ELSE 0
  PROVE  OfflineInv'
<1>1. /\ items' = [items EXCEPT ![Sending] = outcome]
      /\ Proceed(offlineQueue, items', sweep.detached, sweep.list, sweep.pos, stored)
      /\ offlineQueue' = offlineQueue /\ online' = online /\ reloads' = reloads
      /\ received' = received /\ fate' = fate
  BY DEF Handled
<1>2. Sending \in Items /\ IsPending(items, Sending)
  BY SendingIs
<1>3. /\ TypedQueue(offlineQueue, items) /\ TypedSweep(sweep, flight)
      /\ Stores(stored, offlineQueue, items) /\ unknown \in [Items -> Nat]
  BY DEF OfflineInv, OfflineTypes
<1>4. TypedQueue(offlineQueue, items')
  <2>1. items \in [Items -> ItemStates] /\ \A i \in Items : RetriesLeft(items[i])
    BY <1>3 DEF TypedQueue
  <2>2. \A i \in Items : items'[i] = IF i = Sending THEN outcome ELSE items[i]
    BY <1>1, <2>1
  <2>3. items' \in [Items -> ItemStates]
    BY <1>1, <2>1
  <2> QED
    BY <1>3, <2>1, <2>2, <2>3 DEF TypedQueue
<1>5. /\ sweep.detached \in BOOLEAN /\ sweep.list \in Seq(Items) /\ sweep.pos \in Nat
  BY <1>3 DEF TypedSweep
<1>6. /\ TypedSweep(sweep', flight') /\ SendsPending(sweep', flight', offlineQueue, items')
      /\ flight' \in {"none", "sent"} /\ sweep'.list \in {<< >>, sweep.list}
      /\ stored' \in {stored, Saved(offlineQueue, items')}
  BY <1>1, <1>4, <1>5, ProceedFacts
<1>7. \A i \in Items : items'[i] = IF i = Sending THEN outcome ELSE items[i]
  BY <1>1, <1>3 DEF TypedQueue
<1>8. Stores(stored', offlineQueue, items')
  <2>1. Stores(stored, offlineQueue, items')
    <3>1. \A k \in DOMAIN offlineQueue : offlineQueue[k] \in Items
      BY <1>3 DEF TypedQueue
    <3> QED
      BY <1>2, <1>3, <1>7, <3>1 DEF Stores, IsPending
  <2> QED
    BY <1>4, <1>6, <2>1, SavedStores
<1>9. OfflineTypes'
  <2>1. unknown' \in [Items -> Nat]
    <3>1. unknown[Sending] + d \in Nat
      BY <1>2, <1>3
    <3> QED
      BY <1>3, <3>1
  <2> QED
    BY <1>1, <1>4, <1>6, <2>1 DEF OfflineInv, OfflineTypes
<1>10. CreationsCounted'
  <2> SUFFICES ASSUME NEW j \in Items
               PROVE  received'[j] = unknown'[j] + (IF items'[j].status = "SYNCED" THEN 1 ELSE 0)
                                   + (IF flight' = "created" /\ Sending' = j THEN 1 ELSE 0)
    BY DEF CreationsCounted
  <2>1. received[j] = unknown[j] + (IF items[j].status = "SYNCED" THEN 1 ELSE 0)
                                 + (IF flight = "created" /\ Sending = j THEN 1 ELSE 0)
    BY DEF OfflineInv, CreationsCounted
  <2>2. unknown'[j] = unknown[j] + IF j = Sending THEN d ELSE 0
    BY <1>3
  <2>3. unknown[j] \in Nat
    BY <1>3
  <2>4. CASE j = Sending
    <3>1. items[j].status = "PENDING" /\ items'[j] = outcome
      BY <1>2, <1>7, <2>4 DEF IsPending
    <3> QED
      BY <1>1, <1>6, <2>1, <2>2, <2>3, <2>4, <3>1
  <2>5. CASE j # Sending
    <3>1. items'[j] = items[j]
      BY <1>7, <2>5
    <3> QED
      BY <1>1, <1>6, <2>1, <2>2, <2>3, <2>5, <3>1
  <2> QED
    BY <2>4, <2>5
<1>11. Issued'
  <2> SUFFICES ASSUME NEW j \in Items
               PROVE  /\ fate'[j] = "queued" <=> j \in ToSet(offlineQueue')
                      /\ fate'[j] = "unissued" => IsPending(items', j) /\ j \notin ToSet(sweep'.list)
    BY DEF Issued
  <2>1. /\ fate[j] = "queued" <=> j \in ToSet(offlineQueue)
        /\ fate[j] = "unissued" => IsPending(items, j) /\ j \notin ToSet(sweep.list)
    BY DEF OfflineInv, Issued
  <2>2. fate[j] = "unissued" => j # Sending
    <3>1. Sending \in ToSet(offlineQueue) \/ Sending \in ToSet(sweep.list)
      BY SendingIs DEF ArrayOf, ToSet
    <3> QED
      BY <2>1, <3>1
  <2>3. ToSet(<< >>) = {}
    BY DEF ToSet
  <2> QED
    BY <1>1, <1>6, <1>7, <2>1, <2>2, <2>3 DEF IsPending
<1>12. SendsPending(sweep', flight', offlineQueue', items') /\ Stores(stored', offlineQueue', items')
  BY <1>1, <1>6, <1>8
<1> QED
  BY <1>9, <1>10, <1>11, <1>12 DEF OfflineInv

LEMMA FailedItem ==
  ASSUME NEW item \in ItemStates, item.status = "PENDING", RetriesLeft(item)
  PROVE  Failed(item) \in ItemStates /\ RetriesLeft(Failed(item)) /\ Failed(item).status # "SYNCED"
<1>1. item.retries \in Nat /\ item.retries < RetryLimit /\ RetryLimit \in Nat
  BY OfflineAssumption DEF ItemStates, RetriesLeft
<1>2. item.retries + 1 \in 0..RetryLimit
  BY <1>1
<1> QED
  BY <1>1, <1>2 DEF Failed, ItemStates, RetriesLeft

LEMMA OutcomesKeep ==
  ASSUME OfflineInv, AnswerArrives \/ RefusalArrives \/ RequestLost
  PROVE  OfflineInv'
<1>1. flight # "none"
  BY DEF AnswerArrives, RefusalArrives, RequestLost
<1> DEFINE item == items[Sending]
<1>2. /\ item \in ItemStates /\ item.status = "PENDING" /\ RetriesLeft(item)
      /\ unknown \in [Items -> Nat]
  BY <1>1, SendingIs DEF IsPending, OfflineInv, OfflineTypes
<1>3. unknown' = unknown => unknown' = [unknown EXCEPT ![Sending] = @ + 0]
  BY <1>2
<1>4. Failed(item) \in ItemStates /\ RetriesLeft(Failed(item)) /\ Failed(item).status # "SYNCED"
  BY <1>2, FailedItem
<1>5. CASE AnswerArrives
  <2>1. flight = "created" /\ Handled(Synced(item)) /\ unknown' = unknown
    BY <1>5 DEF AnswerArrives
  <2>2. /\ Synced(item) \in ItemStates /\ RetriesLeft(Synced(item)) /\ Synced(item).status = "SYNCED"
    BY <1>2 DEF Synced, ItemStates, RetriesLeft
  <2> HIDE DEF item
  <2>3. (IF flight = "created" THEN 1 ELSE 0) = 0 + IF Synced(item).status = "SYNCED" THEN 1 ELSE 0
    BY <2>1, <2>2
  <2> QED
    BY <1>1, <1>3, <2>1, <2>2, <2>3, HandledKeeps
<1>6. CASE RefusalArrives
  <2>1. flight = "refused" /\ Handled(Failed(item)) /\ unknown' = unknown
    BY <1>6 DEF RefusalArrives
  <2> HIDE DEF item
  <2>2. (IF flight = "created" THEN 1 ELSE 0) = 0 + IF Failed(item).status = "SYNCED" THEN 1 ELSE 0
    BY <1>4, <2>1
  <2> QED
    BY <1>1, <1>3, <1>4, <2>1, <2>2, HandledKeeps
<1>7. CASE RequestLost
  <2> DEFINE d == IF flight = "created" THEN 1 ELSE 0
  <2>1. Handled(Failed(item)) /\ unknown' = [unknown EXCEPT ![Sending] = @ + d] /\ d \in {0, 1}
    BY <1>7 DEF RequestLost
  <2> HIDE DEF item
  <2>2. (IF flight = "created" THEN 1 ELSE 0) = d + IF Failed(item).status = "SYNCED" THEN 1 ELSE 0
    BY <1>4
  <2> HIDE DEF d
  <2> QED
    BY <1>1, <1>4, <2>1, <2>2, HandledKeeps
<1> QED
  BY <1>5, <1>6, <1>7

(* The queue becomes another array, of some of its items.                    *)
LEMMA KeepKeeps ==
  ASSUME OfflineInv, NEW kept \in Seq(Items), IsInjective(kept), ToSet(kept) \subseteq ToSet(offlineQueue),
         NEW why \in {"cleared", "removed"}, Keep(kept, why)
  PROVE  OfflineInv'
<1>1. /\ offlineQueue' = kept
      /\ fate' = [i \in Items |-> IF i \in ToSet(offlineQueue) \ ToSet(kept) THEN why ELSE fate[i]]
      /\ sweep' = IF sweep.on /\ ~sweep.detached
                  THEN [sweep EXCEPT !.detached = TRUE, !.list = offlineQueue] ELSE sweep
      /\ stored' = Saved(kept, items)
      /\ items' = items /\ flight' = flight /\ online' = online /\ reloads' = reloads
      /\ received' = received /\ unknown' = unknown
  BY DEF Keep
<1>2. TypedQueue(offlineQueue, items) /\ TypedSweep(sweep, flight)
  BY DEF OfflineInv, OfflineTypes
<1>3. TypedQueue(kept, items)
  BY <1>2 DEF TypedQueue
<1>4. Stores(stored', kept, items)
  BY <1>1, <1>3, SavedStores
<1>5. /\ TypedSweep(sweep', flight') /\ sweep'.list \in {sweep.list, offlineQueue}
      /\ flight # "none" => /\ sweep'.pos = sweep.pos
                            /\ ArrayOf(sweep', kept) = ArrayOf(sweep, offlineQueue)
  BY <1>1, <1>2 DEF TypedSweep, TypedQueue, ArrayOf
<1>6. SendsPending(sweep', flight', kept, items)
  <2>1. SendsPending(sweep, flight, offlineQueue, items)
    BY DEF OfflineInv
  <2> QED
    BY <1>1, <1>5, <2>1 DEF SendsPending
<1>7. OfflineTypes'
  <2>1. fate' \in [Items -> {"unissued", "queued", "cleared", "removed"}]
    BY <1>1 DEF OfflineInv, OfflineTypes
  <2> QED
    BY <1>1, <1>3, <1>5, <2>1 DEF OfflineInv, OfflineTypes
<1>8. CreationsCounted'
  <2>1. Sending = ArrayOf(sweep, offlineQueue)[sweep.pos] /\ Sending' = ArrayOf(sweep', kept)[sweep'.pos]
    BY <1>1 DEF Sending, ArrayOf
  <2>2. flight = "created" => Sending' = Sending
    BY <1>5, <2>1
  <2> QED
    BY <1>1, <2>2 DEF OfflineInv, CreationsCounted
<1>9. Issued'
  <2> SUFFICES ASSUME NEW j \in Items
               PROVE  /\ fate'[j] = "queued" <=> j \in ToSet(offlineQueue')
                      /\ fate'[j] = "unissued" => IsPending(items', j) /\ j \notin ToSet(sweep'.list)
    BY DEF Issued
  <2>1. /\ fate[j] = "queued" <=> j \in ToSet(offlineQueue)
        /\ fate[j] = "unissued" => IsPending(items, j) /\ j \notin ToSet(sweep.list)
    BY DEF OfflineInv, Issued
  <2>2. fate'[j] = IF j \in ToSet(offlineQueue) \ ToSet(kept) THEN why ELSE fate[j]
    BY <1>1
  <2> QED
    BY <1>1, <1>5, <2>1, <2>2
<1> QED
  BY <1>1, <1>4, <1>6, <1>7, <1>8, <1>9 DEF OfflineInv

LEMMA ClearingKeeps ==
  ASSUME OfflineInv, ClearCompleted \/ \E i \in Items : RemoveQueueItem(i)
  PROVE  OfflineInv'
<1>1. PICK S, why : why \in {"cleared", "removed"} /\ Keep(Only(offlineQueue, S), why)
  <2>1. CASE ClearCompleted
    <3>1. Keep(Only(offlineQueue, {i \in Items : IsPending(items, i)}), "cleared")
      BY <2>1 DEF ClearCompleted
    <3> QED
      BY <3>1
  <2>2. CASE \E i \in Items : RemoveQueueItem(i)
    <3>1. PICK i \in Items : Keep(Only(offlineQueue, Items \ {i}), "removed")
      BY <2>2 DEF RemoveQueueItem
    <3> QED
      BY <3>1
  <2> QED
    BY <2>1, <2>2
<1>2. offlineQueue \in Seq(Items) /\ IsInjective(offlineQueue)
  BY DEF OfflineInv, OfflineTypes, TypedQueue
<1> DEFINE kept == Only(offlineQueue, S)
<1>3. kept \in Seq(Items) /\ IsInjective(kept) /\ ToSet(kept) = ToSet(offlineQueue) \intersect S
  BY <1>2, OnlyFacts
<1> HIDE DEF kept
<1>4. ToSet(kept) \subseteq ToSet(offlineQueue)
  BY <1>3
<1>5. Keep(kept, why)
  BY <1>1 DEF kept
<1> QED
  BY <1>1, <1>3, <1>4, <1>5, KeepKeeps

(* The page is opened again: the queue is what localStorage holds. A         *)
(* creation that was known and not saved joins those that are not known.     *)
LEMMA PageOpensAgain ==
  ASSUME OfflineInv, Reload
  PROVE  OfflineInv'
<1> DEFINE q == offlineQueue
           Read(i) == stored[CHOOSE k \in DOMAIN stored : stored[k].id = i].item
<1>1. /\ reloads < MaxReloads /\ reloads' = reloads + 1
      /\ offlineQueue' = [k \in DOMAIN stored |-> stored[k].id]
      /\ items' = [i \in Items |->
                     IF \E k \in DOMAIN stored : stored[k].id = i THEN Read(i) ELSE items[i]]
      /\ unknown' = [i \in Items |->
                       unknown[i] + IF \/ flight = "created" /\ Sending = i
                                       \/ items[i].status = "SYNCED" /\ IsPending(items', i)
                                    THEN 1 ELSE 0]
      /\ sweep' = NoSweep /\ flight' = "none"
      /\ stored' = stored /\ online' = online /\ received' = received /\ fate' = fate
  BY DEF Reload
<1>2. TypedQueue(q, items) /\ TypedSweep(sweep, flight) /\ Stores(stored, q, items)
  BY DEF OfflineInv, OfflineTypes
<1>3. /\ DOMAIN stored = DOMAIN q
      /\ \A k \in DOMAIN q :
           /\ stored[k].id = q[k] /\ q[k] \in Items
           /\ stored[k].item \in ItemStates /\ RetriesLeft(stored[k].item)
           /\ stored[k].item.status # "PENDING" => stored[k].item.status = items[q[k]].status
  BY <1>2 DEF TypedQueue, Stores
<1>4. offlineQueue' = q
  <2>1. q = [k \in DOMAIN q |-> q[k]]
    BY <1>2 DEF TypedQueue
  <2> QED
    BY <1>1, <1>3, <2>1
<1>5. \A k \in DOMAIN q : Read(q[k]) = stored[k].item
  <2> SUFFICES ASSUME NEW k \in DOMAIN q PROVE Read(q[k]) = stored[k].item
    OBVIOUS
  <2> DEFINE c == CHOOSE l \in DOMAIN stored : stored[l].id = q[k]
  <2>1. c \in DOMAIN q /\ stored[c].id = q[k]
    BY <1>3
  <2> HIDE DEF c
  <2>2. c = k
    BY <1>2, <1>3, <2>1 DEF TypedQueue, IsInjective
  <2> QED
    BY <2>2 DEF c
<1> HIDE DEF Read
<1>6. /\ \A k \in DOMAIN q : items'[q[k]] = stored[k].item
      /\ \A i \in Items : i \notin ToSet(q) => items'[i] = items[i]
  BY <1>1, <1>3, <1>5 DEF ToSet
<1>7. \A i \in Items : i \in ToSet(q) => \E k \in DOMAIN q : i = q[k]
  BY DEF ToSet
<1>8. \A i \in Items : /\ items[i] \in ItemStates /\ items'[i] \in ItemStates /\ RetriesLeft(items'[i])
                       /\ items'[i].status # "PENDING" => items'[i].status = items[i].status
  BY <1>2, <1>3, <1>6, <1>7 DEF TypedQueue
<1>9. TypedQueue(q, items')
  <2>1. items' \in [Items -> ItemStates]
    <3>1. items' = [i \in Items |-> items'[i]]
      BY <1>1
    <3> QED
      BY <1>8, <3>1
  <2> QED
    BY <1>2, <1>8, <2>1 DEF TypedQueue
<1>10. Stores(stored', q, items')
  BY <1>1, <1>2, <1>3, <1>6 DEF Stores
<1>11. TypedSweep(sweep', flight') /\ SendsPending(sweep', flight', q, items')
  BY <1>1 DEF TypedSweep, NoSweep, SendsPending
<1>12. OfflineTypes'
  <2>1. unknown' \in [Items -> Nat]
    <3>1. unknown \in [Items -> Nat]
      BY DEF OfflineInv, OfflineTypes
    <3> QED
      BY <1>1, <3>1
  <2>2. reloads' \in 0..MaxReloads
    BY <1>1, OfflineAssumption DEF OfflineInv, OfflineTypes
  <2> QED
    BY <1>1, <1>4, <1>9, <1>11, <2>1, <2>2 DEF OfflineInv, OfflineTypes
<1>13. CreationsCounted'
  <2> SUFFICES ASSUME NEW j \in Items
               PROVE  received'[j] = unknown'[j] + (IF items'[j].status = "SYNCED" THEN 1 ELSE 0)
                                   + (IF flight' = "created" /\ Sending' = j THEN 1 ELSE 0)
    BY DEF CreationsCounted
  <2>1. received[j] = unknown[j] + (IF items[j].status = "SYNCED" THEN 1 ELSE 0)
                                 + (IF flight = "created" /\ Sending = j THEN 1 ELSE 0)
    BY DEF OfflineInv, CreationsCounted
  <2>2. /\ unknown[j] \in Nat
        /\ unknown'[j] = unknown[j] + IF \/ flight = "created" /\ Sending = j
                                         \/ items[j].status = "SYNCED" /\ IsPending(items', j)
                                      THEN 1 ELSE 0
    BY <1>1 DEF OfflineInv, OfflineTypes
  <2>3. flight = "created" /\ Sending = j => items[j].status = "PENDING"
    BY SendingIs DEF IsPending
  <2>4. /\ items[j].status \in {"PENDING", "SYNCED", "FAILED"}
        /\ items'[j].status # "PENDING" => items'[j].status = items[j].status
    BY <1>8 DEF ItemStates
  <2> QED
    BY <1>1, <2>1, <2>2, <2>3, <2>4 DEF IsPending
<1>14. Issued'
  <2> SUFFICES ASSUME NEW j \in Items
               PROVE  /\ fate'[j] = "queued" <=> j \in ToSet(offlineQueue')
                      /\ fate'[j] = "unissued" => IsPending(items', j) /\ j \notin ToSet(sweep'.list)
    BY DEF Issued
  <2>1. /\ fate[j] = "queued" <=> j \in ToSet(q)
        /\ fate[j] = "unissued" => IsPending(items, j)
    BY DEF OfflineInv, Issued
  <2>2. ToSet(sweep'.list) = {}
    BY <1>1 DEF NoSweep, ToSet
  <2>3. fate[j] = "unissued" => items'[j] = items[j]
    BY <1>6, <2>1
  <2> QED
    BY <1>1, <1>4, <2>1, <2>2, <2>3 DEF IsPending
<1> QED
  BY <1>4, <1>10, <1>11, <1>12, <1>13, <1>14 DEF OfflineInv

LEMMA OfflineStarts == OfflineInit => OfflineInv
<1> SUFFICES ASSUME OfflineInit PROVE OfflineInv
  OBVIOUS
<1>1. /\ offlineQueue = <<>> /\ items = [i \in Items |-> NewItem] /\ stored = <<>>
      /\ sweep = NoSweep /\ flight = "none" /\ online \in BOOLEAN /\ reloads = 0
      /\ received = [i \in Items |-> 0] /\ unknown = [i \in Items |-> 0]
      /\ fate = [i \in Items |-> "unissued"]
  BY DEF OfflineInit
<1>2. NewItem \in ItemStates /\ RetriesLeft(NewItem) /\ NewItem.status = "PENDING"
  BY OfflineAssumption DEF NewItem, ItemStates, RetriesLeft
<1>3. TypedQueue(offlineQueue, items)
  BY <1>1, <1>2 DEF TypedQueue, IsInjective
<1>4. TypedSweep(sweep, flight) /\ SendsPending(sweep, flight, offlineQueue, items)
  BY <1>1 DEF TypedSweep, NoSweep, SendsPending
<1>5. Stores(stored, offlineQueue, items)
  BY <1>1 DEF Stores
<1>6. OfflineTypes
  BY <1>1, <1>3, <1>4, OfflineAssumption DEF OfflineTypes
<1>7. CreationsCounted
  BY <1>1, <1>2 DEF CreationsCounted
<1>8. Issued
  <2>1. ToSet(offlineQueue) = {} /\ ToSet(sweep.list) = {}
    BY <1>1 DEF ToSet, NoSweep
  <2> QED
    BY <1>1, <1>2, <2>1 DEF Issued, IsPending
<1> QED
  BY <1>4, <1>5, <1>6, <1>7, <1>8 DEF OfflineInv

LEMMA OfflineSteps == OfflineInv /\ [OfflineNext]_offlineVars => OfflineInv'
<1> SUFFICES ASSUME OfflineInv, [OfflineNext]_offlineVars PROVE OfflineInv'
  OBVIOUS
<1>1. CASE \E i \in Items, done \in BOOLEAN : Enqueue(i, done)
  BY <1>1, EnqueueKeeps
<1>2. CASE ClearCompleted \/ \E i \in Items : RemoveQueueItem(i)
  BY <1>2, ClearingKeeps
<1>3. CASE SyncPending
  <2>1. SyncNow(offlineQueue, online, stored) /\ online' = online /\ online \in BOOLEAN
    BY <1>3 DEF SyncPending, OfflineInv, OfflineTypes
  <2> QED
    BY <1>3, <2>1, SyncKeeps DEF SyncPending
<1>4. CASE OnlineEvent
  <2>1. SyncNow(offlineQueue, TRUE, stored) /\ online' = TRUE
    BY <1>4 DEF OnlineEvent
  <2> QED
    BY <1>4, <2>1, SyncKeeps DEF OnlineEvent
<1>5. CASE ServerCreates \/ ServerRefuses
  BY <1>5, ServerKeeps
<1>6. CASE AnswerArrives \/ RefusalArrives \/ RequestLost
  BY <1>6, OutcomesKeep
<1>7. CASE Reload
  BY <1>7, PageOpensAgain
<1>8. CASE OfflineEvent \/ UNCHANGED offlineVars
  <2>1. /\ online' \in BOOLEAN
        /\ UNCHANGED <<offlineQueue, items, stored, sweep, flight, reloads, received, unknown, fate>>
    BY <1>8 DEF OfflineEvent, offlineVars, OfflineInv, OfflineTypes
  <2>2. Sending' = Sending
    BY <2>1 DEF Sending
  <2> QED
    BY <2>1, <2>2 DEF OfflineInv, OfflineTypes, CreationsCounted, Issued
<1> QED
  BY <1>1, <1>2, <1>3, <1>4, <1>5, <1>6, <1>7, <1>8 DEF OfflineNext, RequestStep

LEMMA OfflineInvIsReliable == OfflineInv => OfflineTypeOK /\ QueueIsReliable
<1> SUFFICES ASSUME OfflineInv PROVE OfflineTypeOK /\ QueueIsReliable
  OBVIOUS
<1>1. OfflineTypeOK
  BY StoredItems DEF OfflineInv
<1>2. ASSUME NEW i \in Items, items[i].status = "SYNCED" PROVE received[i] = unknown[i] + 1
  <2>1. received[i] = unknown[i] + (IF items[i].status = "SYNCED" THEN 1 ELSE 0)
                                 + (IF flight = "created" /\ Sending = i THEN 1 ELSE 0)
    BY DEF OfflineInv, CreationsCounted
  <2>2. ~(flight = "created" /\ Sending = i)
    BY <1>2, SendingIs DEF IsPending
  <2>3. unknown[i] \in Nat
    BY DEF OfflineInv, OfflineTypes
  <2> QED
    BY <1>2, <2>1, <2>2, <2>3
<1>3. KeptUntilReceived
  <2> SUFFICES ASSUME NEW i \in Items, fate[i] = "queued"
               PROVE  \E k \in DOMAIN stored : /\ stored[k].id = i
                                               /\ stored[k].item.status = "SYNCED" => received[i] > 0
    BY DEF KeptUntilReceived
  <2>1. PICK k \in DOMAIN offlineQueue : i = offlineQueue[k]
    BY DEF OfflineInv, Issued, ToSet
  <2>2. k \in DOMAIN stored /\ stored[k].id = i
        /\ (stored[k].item.status = "SYNCED" => items[i].status = "SYNCED")
    BY <2>1 DEF OfflineInv, Stores
  <2>3. items[i].status = "SYNCED" => received[i] > 0
    <3>1. unknown[i] \in Nat
      BY DEF OfflineInv, OfflineTypes
    <3> QED
      BY <1>2, <3>1
  <2> QED
    BY <2>2, <2>3
<1>4. OnceBarLostAnswers
  <2> SUFFICES ASSUME NEW i \in Items PROVE received[i] <= unknown[i] + 1
    BY <1>2 DEF OnceBarLostAnswers
  <2>1. received[i] = unknown[i] + (IF items[i].status = "SYNCED" THEN 1 ELSE 0)
                                 + (IF flight = "created" /\ Sending = i THEN 1 ELSE 0)
    BY DEF OfflineInv, CreationsCounted
  <2>2. flight = "created" /\ Sending = i => items[i].status # "SYNCED"
    BY SendingIs DEF IsPending
  <2>3. unknown[i] \in Nat
    BY DEF OfflineInv, OfflineTypes
  <2> QED
    BY <2>1, <2>2, <2>3
<1> QED
  BY <1>1, <1>3, <1>4 DEF QueueIsReliable

(* Whatever is issued, lost, cleared and removed, and however often the page *)
(* is closed: an operation is in localStorage until the server has created   *)
(* it, and is created once more than the client lost what it was told of it  *)
(* at most (enqueueAction, syncQueueNow, loadQueue).                         *)
THEOREM OfflineQueueIsReliable == OfflineSpec => [](OfflineTypeOK /\ QueueIsReliable)
<1>1. OfflineInv => OfflineTypeOK /\ QueueIsReliable
  BY OfflineInvIsReliable
<1>2. OfflineSpec => []OfflineInv
  BY OfflineStarts, OfflineSteps, PTL DEF OfflineSpec
<1> QED
  BY <1>1, <1>2, PTL

(* The types of both queues, however many servers and windows' operations    *)
(* there are.                                                                *)
THEOREM QueuesAreTyped == QueuesSpec => []QueuesTypeOK
<1> DEFINE I == Inv /\ TypeOK /\ OfflineInv
<1>1. QueuesInit => I
  BY InitInv, TypesInit, OfflineStarts DEF QueuesInit
<1>2. I /\ [QueuesNext]_queuesVars => I'
  <2> SUFFICES ASSUME I, [QueuesNext]_queuesVars PROVE I'
    OBVIOUS
  <2>1. [Next]_vars /\ [OfflineNext]_offlineVars
    BY DEF QueuesNext, queuesVars
  <2> QED
    BY <2>1, InvStep, TypesStep, OfflineSteps
<1>3. I => QueuesTypeOK
  BY OfflineInvIsReliable DEF QueuesTypeOK
<1> QED
  BY <1>1, <1>2, <1>3, PTL DEF QueuesSpec
=============================================================================
