---------------------------- MODULE ServiceProofs ----------------------------
(***************************************************************************)
(* Proofs about the services beside the journal, for any of their bounds:  *)
(* nothing asked of Jules is carried out twice within its life, and what   *)
(* an approval starts is what was reviewed; the plans of the tool swarm    *)
(* settle; the report cache stays fresh; each but for the exceptions       *)
(* named. The second accounting engine reconciles. All four stay of their  *)
(* types, side by side.                                                    *)
(***************************************************************************)
EXTENDS MCServices, SequenceTheorems, FiniteFacts

(***************************************************************************)
(* The requests to Jules                                                   *)
(***************************************************************************)
(* What an operation is, whatever is written as its id and its payload. *)
Phases == Running \union {"success", "refused", "unknown", "dead"}
IsOperation(o) ==
    o \in [id: {o.id}, kind: Kinds, payload: {o.payload}, start: Nat, run: Nat, phase: Phases,
           google: {"no", "inflight", "accepted"}, before: {o.before}, started: {o.started},
           cause: {o.cause}, late: {o.late}]

Shape ==
    /\ Len(operations) \in Nat
    /\ operations = [i \in 1..Len(operations) |-> operations[i]]
    /\ \A i \in DOMAIN operations : IsOperation(operations[i])
    /\ julesClock \in Nat /\ julesRun \in Nat

(* An operation that was not definitely refused: Google may carry it out. *)
MayCount(i) == operations[i].phase \in Running \/ operations[i].google # "no"

(* Only the operations of this start of the server run. *)
OfThisRun ==
    \A i \in DOMAIN operations :
        /\ operations[i].run <= julesRun
        /\ operations[i].phase \in Running => operations[i].run = julesRun

(* Such an operation is remembered for as long as it should. *)
IsRemembered(i) ==
    LET id == operations[i].id
    IN  id \in DOMAIN mutations /\ mutations[id].op = i
                                /\ mutations[id].expires = operations[i].start + KeepFor

RememberedInTime ==
    \A i \in DOMAIN operations :
        operations[i].run = julesRun /\ MayCount(i) =>
            IsRemembered(i) \/ julesClock >= operations[i].start + KeepFor

Spaced ==
    \A i, j \in DOMAIN operations :
        /\ i < j /\ operations[i].id = operations[j].id /\ operations[i].run = operations[j].run
        /\ MayCount(i)
        => operations[j].start >= operations[i].start + KeepFor

OnceInv == Shape /\ OfThisRun /\ RememberedInTime /\ Spaced

LEMMA AppendAny ==
  ASSUME NEW s, NEW n \in Nat, s = [k \in 1..n |-> s[k]], NEW e
  PROVE  Len(s) = n /\ Append(s, e) = [k \in 1..(n + 1) |-> IF k = n + 1 THEN e ELSE s[k]]
<1> DEFINE S == {s[k] : k \in 1..n} \union {e}
<1>1. s \in Seq(S) /\ e \in S
  OBVIOUS
<1> QED
  BY <1>1

LEMMA AppendTo ==
  ASSUME NEW s, Len(s) \in Nat, s = [k \in 1..Len(s) |-> s[k]], NEW e
  PROVE  Append(s, e) = [k \in 1..(Len(s) + 1) |-> IF k = Len(s) + 1 THEN e ELSE s[k]]
<1>1. ASSUME NEW n \in Nat, n = Len(s)
      PROVE  Append(s, e) = [k \in 1..(Len(s) + 1) |-> IF k = Len(s) + 1 THEN e ELSE s[k]]
  <2>1. s = [k \in 1..n |-> s[k]]
    BY <1>1
  <2>2. Append(s, e) = [k \in 1..(n + 1) |-> IF k = n + 1 THEN e ELSE s[k]]
    BY <2>1, AppendAny
  <2> QED
    BY <1>1, <2>2
<1> QED
  BY <1>1

LEMMA AppendOperation ==
  ASSUME Shape, NEW e
  PROVE  Append(operations, e)
           = [k \in 1..(Len(operations) + 1) |->
                 IF k = Len(operations) + 1 THEN e ELSE operations[k]]
<1>1. Len(operations) \in Nat /\ operations = [k \in 1..Len(operations) |-> operations[k]]
  BY DEF Shape
<1> QED
  BY <1>1, AppendTo, Zenon

(* An operation that goes on keeps what it is: its id, kind, payload, start *)
(* and run. Google may count it only if it might before.                    *)
GoesOn(i) ==
    /\ IsOperation(operations'[i])
    /\ operations'[i].id = operations[i].id /\ operations'[i].kind = operations[i].kind
    /\ operations'[i].payload = operations[i].payload
    /\ operations'[i].start = operations[i].start /\ operations'[i].run = operations[i].run
    /\ MayCount(i)' => MayCount(i)
    /\ operations'[i].phase \in Running => operations[i].phase \in Running

AllGoOn ==
    /\ Len(operations') = Len(operations)
    /\ operations' = [i \in 1..Len(operations) |-> operations'[i]]
    /\ \A i \in DOMAIN operations : GoesOn(i)

LEMMA ShapeGoesOn ==
  ASSUME OnceInv, AllGoOn, julesRun' = julesRun, julesClock' \in Nat
  PROVE  Shape' /\ OfThisRun' /\ Spaced' /\ DOMAIN operations' = DOMAIN operations
<1>1. DOMAIN operations' = DOMAIN operations
  BY DEF OnceInv, Shape, AllGoOn
<1>2. Shape'
  BY <1>1 DEF OnceInv, Shape, AllGoOn, GoesOn
<1>3. OfThisRun'
  BY <1>1 DEF OnceInv, OfThisRun, AllGoOn, GoesOn
<1>4. Spaced'
  BY <1>1 DEF OnceInv, Spaced, AllGoOn, GoesOn
<1> QED
  BY <1>1, <1>2, <1>3, <1>4

(* One operation changes. *)
LEMMA OneChanges ==
  ASSUME Shape, NEW i \in DOMAIN operations, NEW new, operations' = [operations EXCEPT ![i] = new]
  PROVE  /\ Len(operations') = Len(operations) /\ DOMAIN operations' = DOMAIN operations
         /\ operations' = [k \in 1..Len(operations) |-> operations'[k]]
         /\ \A k \in DOMAIN operations : operations'[k] = IF k = i THEN new ELSE operations[k]
<1>1. operations' = [k \in 1..Len(operations) |-> IF k = i THEN new ELSE operations[k]]
  BY DEF Shape
<1>2. Len(operations') = Len(operations)
  BY <1>1 DEF Shape
<1> QED
  BY <1>1, <1>2 DEF Shape

LEMMA PostsToGoesOn ==
  ASSUME OnceInv, NEW i \in DOMAIN operations, PostsTo(i), operations[i].phase \in Running
  PROVE  OnceInv'
<1> DEFINE new == [operations[i] EXCEPT !.phase = "sent", !.google = "inflight",
                      !.before = IF operations[i].kind = "approve" THEN Unplanned ELSE {}]
<1>0. IsOperation(operations[i])
  BY DEF OnceInv, Shape
<1>1. operations' = [operations EXCEPT ![i] = new]
  BY DEF PostsTo
<1>2. /\ IsOperation(new) /\ new.phase = "sent" /\ new.google = "inflight"
      /\ new.id = operations[i].id /\ new.kind = operations[i].kind
      /\ new.payload = operations[i].payload
      /\ new.start = operations[i].start /\ new.run = operations[i].run
  BY <1>0 DEF IsOperation, Phases, Running
<1> HIDE DEF new
<1>3. AllGoOn
  BY <1>1, <1>2, OneChanges DEF OnceInv, Shape, AllGoOn, GoesOn, MayCount, Running
<1>4. UNCHANGED <<mutations, julesClock, julesRun>> /\ julesClock' \in Nat
  BY DEF PostsTo, OnceInv, Shape
<1>5. RememberedInTime'
  BY <1>3, <1>4, ShapeGoesOn DEF OnceInv, RememberedInTime, IsRemembered, AllGoOn, GoesOn
<1> QED
  BY <1>3, <1>4, <1>5, ShapeGoesOn DEF OnceInv

Outcomes == {"refused", "unknown", "success"}

LEMMA SettleGoesOn ==
  ASSUME OnceInv, NEW i \in DOMAIN operations, NEW outcome \in Outcomes, Settle(i, outcome),
         operations[i].phase \in Running
  PROVE  OnceInv'
<1> DEFINE new == [operations[i] EXCEPT !.phase = outcome,
                      !.google = IF outcome = "refused" THEN "no" ELSE @]
<1>0. IsOperation(operations[i])
  BY DEF OnceInv, Shape
<1>1. operations' = [operations EXCEPT ![i] = new]
  BY DEF Settle
<1>2. /\ IsOperation(new) /\ new.phase = outcome
      /\ new.google = IF outcome = "refused" THEN "no" ELSE operations[i].google
      /\ new.id = operations[i].id /\ new.kind = operations[i].kind
      /\ new.payload = operations[i].payload
      /\ new.start = operations[i].start /\ new.run = operations[i].run
  BY <1>0 DEF IsOperation, Phases, Outcomes, Running
<1> HIDE DEF new
<1>3. /\ Len(operations') = Len(operations) /\ DOMAIN operations' = DOMAIN operations
      /\ operations' = [k \in 1..Len(operations) |-> operations'[k]]
      /\ \A k \in DOMAIN operations : operations'[k] = IF k = i THEN new ELSE operations[k]
  BY <1>1, OneChanges DEF OnceInv
<1>4. AllGoOn
  BY <1>2, <1>3 DEF OnceInv, Shape, AllGoOn, GoesOn, MayCount, Running, Outcomes
<1>5. UNCHANGED <<julesClock, julesRun>> /\ julesClock' \in Nat
  BY DEF Settle, OnceInv, Shape
<1>6. ASSUME NEW k \in DOMAIN operations, MayCount(k)', IsRemembered(k)
      PROVE  IsRemembered(k)'
  <2>1. operations'[k].id = operations[k].id /\ operations'[k].start = operations[k].start
    BY <1>4 DEF AllGoOn, GoesOn
  <2>2. CASE Forgotten(i, outcome)
    <3>1. outcome = "refused" /\ mutations[operations[i].id].op = i
      BY <2>2 DEF Forgotten
    <3>2. k # i
      BY <1>2, <1>3, <1>6, <3>1 DEF MayCount, Running
    <3>3. operations[k].id # operations[i].id
      BY <1>6, <3>1, <3>2 DEF IsRemembered
    <3>4. mutations' = [x \in DOMAIN mutations \ {operations[i].id} |-> mutations[x]]
      BY <2>2 DEF Settle, Restrict
    <3> QED
      BY <1>6, <2>1, <3>3, <3>4 DEF IsRemembered
  <2>3. CASE ~Forgotten(i, outcome)
    BY <1>6, <2>1, <2>3 DEF Settle, IsRemembered
  <2> QED
    BY <2>2, <2>3
<1>7. RememberedInTime'
  BY <1>3, <1>4, <1>5, <1>6 DEF OnceInv, RememberedInTime, AllGoOn, GoesOn
<1> QED
  BY <1>4, <1>5, <1>7, ShapeGoesOn DEF OnceInv

(* The operations, the cache, the time and the start stay. *)
LEMMA OnceUntouched ==
  ASSUME OnceInv, UNCHANGED <<mutations, operations, julesClock, julesRun>>
  PROVE  OnceInv'
BY DEF OnceInv, Shape, OfThisRun, RememberedInTime, Spaced, IsRemembered, MayCount, IsOperation,
       Phases, Running

LEMMA AcceptOnce ==
  ASSUME OnceInv, NEW i \in DOMAIN operations, GoogleAccepts(i)
  PROVE  OnceInv'
<1> DEFINE new == [operations[i] EXCEPT
             !.google = "accepted",
             !.started = IF operations[i].kind = "approve" THEN julesSession.plan ELSE 0,
             !.cause = IF operations[i].kind = "approve" THEN julesSession.cause ELSE 0,
             !.late = operations[i].phase # "sent"]
<1>0. IsOperation(operations[i])
  BY DEF OnceInv, Shape
<1>1. operations' = [operations EXCEPT ![i] = new] /\ operations[i].google = "inflight"
  BY DEF GoogleAccepts
<1>2. /\ IsOperation(new) /\ new.phase = operations[i].phase /\ new.google = "accepted"
      /\ new.id = operations[i].id /\ new.kind = operations[i].kind
      /\ new.payload = operations[i].payload
      /\ new.start = operations[i].start /\ new.run = operations[i].run
  BY <1>0 DEF IsOperation
<1> HIDE DEF new
<1>3. AllGoOn
  BY <1>1, <1>2, OneChanges DEF OnceInv, Shape, AllGoOn, GoesOn, MayCount
<1>4. UNCHANGED <<mutations, julesClock, julesRun>> /\ julesClock' \in Nat
  BY DEF GoogleAccepts, OnceInv, Shape
<1>5. RememberedInTime'
  BY <1>3, <1>4, ShapeGoesOn DEF OnceInv, RememberedInTime, IsRemembered, AllGoOn, GoesOn
<1> QED
  BY <1>3, <1>4, <1>5, ShapeGoesOn DEF OnceInv

LEMMA StateOnce ==
  ASSUME OnceInv, NEW i \in DOMAIN operations, ReadState(i)
  PROVE  OnceInv'
<1>0. operations[i].phase \in Running
  BY DEF ReadState, Running
<1>1. CASE Settle(i, "refused")
  BY <1>0, <1>1, SettleGoesOn DEF Outcomes
<1>2. CASE ~Settle(i, "refused")
  <2> DEFINE new == [operations[i] EXCEPT !.phase = "stated"]
  <2>1. operations' = [operations EXCEPT ![i] = new]
    BY <1>2 DEF ReadState
  <2>2. /\ IsOperation(new) /\ new.phase = "stated" /\ new.google = operations[i].google
        /\ new.id = operations[i].id /\ new.kind = operations[i].kind
        /\ new.payload = operations[i].payload
        /\ new.start = operations[i].start /\ new.run = operations[i].run
    BY DEF OnceInv, Shape, IsOperation, Phases, Running
  <2> HIDE DEF new
  <2>3. AllGoOn
    BY <1>0, <2>1, <2>2, OneChanges DEF OnceInv, Shape, AllGoOn, GoesOn, MayCount
  <2>4. UNCHANGED <<mutations, julesClock, julesRun>> /\ julesClock' \in Nat
    BY <1>2 DEF ReadState, OnceInv, Shape
  <2>5. RememberedInTime'
    BY <2>3, <2>4, ShapeGoesOn DEF OnceInv, RememberedInTime, IsRemembered, AllGoOn, GoesOn
  <2> QED
    BY <2>3, <2>4, <2>5, ShapeGoesOn DEF OnceInv
<1> QED
  BY <1>1, <1>2

LEMMA RestartOnce ==
  ASSUME OnceInv, RestartServer
  PROVE  OnceInv'
<1> DEFINE new(k) == IF operations[k].phase \in Running
                     THEN [operations[k] EXCEPT !.phase = "dead"] ELSE operations[k]
<1>1. DOMAIN operations = 1..Len(operations) /\ Len(operations) \in Nat
  BY DEF OnceInv, Shape
<1>2. operations' = [k \in 1..Len(operations) |-> new(k)]
  BY <1>1 DEF RestartServer
<1>3. Len(operations') = Len(operations) /\ DOMAIN operations' = DOMAIN operations
  BY <1>1, <1>2
<1>4. ASSUME NEW k \in DOMAIN operations
      PROVE  /\ IsOperation(operations'[k])
             /\ operations'[k].id = operations[k].id /\ operations'[k].run = operations[k].run
             /\ operations'[k].start = operations[k].start
             /\ operations'[k].phase \notin Running
             /\ operations'[k].google = operations[k].google
  <2>1. IsOperation(operations[k]) /\ operations'[k] = new(k)
    BY <1>1, <1>2, <1>4 DEF OnceInv, Shape
  <2> QED
    BY <2>1 DEF IsOperation, Phases, Running
<1>5. julesRun' = julesRun + 1 /\ julesClock' = julesClock /\ julesRun \in Nat
  BY DEF RestartServer, OnceInv, Shape
<1>6. Shape'
  BY <1>1, <1>2, <1>3, <1>4, <1>5 DEF OnceInv, Shape
<1>7. \A k \in DOMAIN operations : operations[k].run \in Nat /\ operations[k].run <= julesRun
  BY DEF OnceInv, Shape, OfThisRun, IsOperation
<1>8. OfThisRun'
  BY <1>3, <1>4, <1>5, <1>7 DEF OfThisRun
<1>9. RememberedInTime'
  BY <1>3, <1>4, <1>5, <1>7 DEF RememberedInTime
<1>10. Spaced'
  BY <1>3, <1>4 DEF OnceInv, Spaced, MayCount
<1> QED
  BY <1>6, <1>8, <1>9, <1>10 DEF OnceInv

LEMMA TimeOnce ==
  ASSUME OnceInv, PassTime
  PROVE  OnceInv'
<1>1. /\ UNCHANGED <<mutations, operations, julesRun>>
      /\ julesClock' = julesClock + 1 /\ julesClock \in Nat
  BY DEF PassTime, OnceInv, Shape
<1>2. Shape' /\ OfThisRun' /\ Spaced'
  BY <1>1 DEF OnceInv, Shape, OfThisRun, Spaced, MayCount, IsOperation, Phases, Running
<1>3. \A i \in DOMAIN operations : operations[i].start \in Nat
  BY DEF OnceInv, Shape, IsOperation
<1>4. RememberedInTime'
  BY <1>1, <1>3, JulesAssumption DEF OnceInv, RememberedInTime, IsRemembered, MayCount
<1> QED
  BY <1>2, <1>4 DEF OnceInv

(* What the cache drops first is out of time. *)
LEMMA StillRemembered ==
  ASSUME OnceInv, NEW i \in DOMAIN operations,
         operations[i].run = julesRun, MayCount(i), julesClock < operations[i].start + KeepFor
  PROVE  LET id == operations[i].id
         IN  /\ id \in DOMAIN Remembered /\ Remembered[id] = mutations[id]
             /\ mutations[id].op = i /\ mutations[id].expires = operations[i].start + KeepFor
<1> DEFINE id == operations[i].id
<1>1. operations[i].start + KeepFor \in Nat /\ julesClock \in Nat
  BY JulesAssumption DEF OnceInv, Shape, IsOperation
<1>2. IsRemembered(i)
  BY <1>1 DEF OnceInv, RememberedInTime
<1>3. id \in DOMAIN mutations /\ mutations[id].op = i
      /\ mutations[id].expires = operations[i].start + KeepFor
  BY <1>2 DEF IsRemembered
<1>4. Remembered = [x \in {y \in DOMAIN mutations : mutations[y].expires > julesClock}
                      |-> mutations[x]]
  BY DEF Remembered, Restrict
<1>5. mutations[id].expires > julesClock
  BY <1>1, <1>3
<1> QED
  BY <1>3, <1>4, <1>5

LEMMA RunOnce ==
  ASSUME OnceInv, NEW w \in Windows, NEW kind \in Kinds, NEW payload, Run(w, kind, payload),
         UNCHANGED <<julesClock, julesRun>>
  PROVE  OnceInv'
<1> DEFINE id == <<kind, RequestId(pages[w], kind)>>
<1>0. julesClock \in Nat /\ julesRun \in Nat /\ Len(operations) \in Nat /\ KeepFor \in Nat
      /\ DOMAIN operations = 1..Len(operations)
      /\ \A i \in DOMAIN operations : operations[i].start \in Nat
  BY JulesAssumption DEF OnceInv, Shape, IsOperation
<1>1. CASE mutations' = Remembered /\ UNCHANGED operations
  <2>1. Shape' /\ OfThisRun' /\ Spaced'
    BY <1>1 DEF OnceInv, Shape, OfThisRun, Spaced, MayCount, IsOperation, Phases, Running
  <2>2. RememberedInTime'
    BY <1>0, <1>1, StillRemembered DEF RememberedInTime, IsRemembered, MayCount
  <2> QED
    BY <2>1, <2>2 DEF OnceInv
<1>2. CASE /\ id \notin DOMAIN Remembered
           /\ operations' = Append(operations,
                 [id |-> id, kind |-> kind, payload |-> payload, start |-> julesClock,
                  run |-> julesRun, phase |-> "begun", google |-> "no",
                  before |-> {}, started |-> 0, cause |-> 0, late |-> FALSE])
           /\ mutations' = WithRequest(id, [payload |-> payload,
                 expires |-> julesClock + KeepFor, op |-> Len(operations) + 1])
  <2> DEFINE j == Len(operations) + 1
             new == [id |-> id, kind |-> kind, payload |-> payload, start |-> julesClock,
                  run |-> julesRun, phase |-> "begun", google |-> "no",
                  before |-> {}, started |-> 0, cause |-> 0, late |-> FALSE]
             entry == [payload |-> payload, expires |-> julesClock + KeepFor, op |-> j]
  <2>1. /\ IsOperation(new) /\ new.phase \in Running /\ new.id = id
        /\ new.start = julesClock /\ new.run = julesRun
    BY <1>0 DEF IsOperation, Phases, Running, Kinds
  <2>2. entry.expires = julesClock + KeepFor /\ entry.op = j
    OBVIOUS
  <2>3. operations' = Append(operations, new) /\ mutations' = WithRequest(id, entry)
    BY <1>2
  <2> HIDE DEF new, entry
  <2>4. operations' = [k \in 1..j |-> IF k = j THEN new ELSE operations[k]]
    BY <2>3, AppendOperation DEF OnceInv
  <2>5. Len(operations') = j /\ DOMAIN operations' = 1..j
    BY <1>0, <2>4
  <2>6. /\ \A k \in 1..j : operations'[k] = IF k = j THEN new ELSE operations[k]
        /\ \A k \in 1..j : k # j => k \in DOMAIN operations
    BY <1>0, <2>4
  <2>7. Shape'
    BY <1>0, <2>1, <2>4, <2>5, <2>6 DEF OnceInv, Shape
  <2>8. OfThisRun'
    BY <1>0, <2>1, <2>5, <2>6 DEF OnceInv, OfThisRun
  <2>9. \A k \in DOMAIN operations :
           operations[k].run = julesRun /\ MayCount(k) /\ operations[k].id = id
           => julesClock >= operations[k].start + KeepFor
    <3> SUFFICES ASSUME NEW k \in DOMAIN operations, operations[k].run = julesRun,
                        MayCount(k), operations[k].id = id,
                        julesClock < operations[k].start + KeepFor
                 PROVE  FALSE
      BY <1>0
    <3>1. operations[k].id \in DOMAIN Remembered
      BY StillRemembered
    <3> QED
      BY <1>2, <3>1
  <2>10. mutations' = [x \in DOMAIN Remembered \union {id} |->
                         IF x = id THEN entry ELSE Remembered[x]]
    BY <2>3 DEF WithRequest
  <2>11. RememberedInTime'
    <3> SUFFICES ASSUME NEW k \in 1..j, operations'[k].run = julesRun, MayCount(k)',
                        ~(julesClock >= operations'[k].start + KeepFor)
                 PROVE  IsRemembered(k)'
      BY <2>5 DEF RememberedInTime
    <3>1. CASE k = j
      BY <2>1, <2>2, <2>6, <2>10, <3>1 DEF IsRemembered
    <3>2. CASE k # j
      <4>1. k \in DOMAIN operations /\ operations'[k] = operations[k] /\ MayCount(k)
        BY <2>6, <3>2 DEF MayCount
      <4>2. operations[k].id # id
        BY <2>9, <4>1
      <4>3. operations[k].id \in DOMAIN Remembered
            /\ Remembered[operations[k].id] = mutations[operations[k].id]
            /\ mutations[operations[k].id].op = k
            /\ mutations[operations[k].id].expires = operations[k].start + KeepFor
        BY <1>0, <4>1, StillRemembered
      <4> QED
        BY <2>10, <4>1, <4>2, <4>3 DEF IsRemembered
    <3> QED
      BY <3>1, <3>2
  <2>12. Spaced'
    <3> SUFFICES ASSUME NEW i \in 1..j, NEW k \in 1..j, i < k,
                        operations'[i].id = operations'[k].id,
                        operations'[i].run = operations'[k].run, MayCount(i)'
                 PROVE  operations'[k].start >= operations'[i].start + KeepFor
      BY <2>5 DEF Spaced
    <3>1. i # j /\ operations'[i] = operations[i] /\ i \in DOMAIN operations /\ MayCount(i)
      BY <1>0, <2>6 DEF MayCount
    <3>2. CASE k = j
      BY <2>1, <2>6, <2>9, <3>1, <3>2
    <3>3. CASE k # j
      BY <2>6, <3>1, <3>3 DEF OnceInv, Spaced
    <3> QED
      BY <3>2, <3>3
  <2> QED
    BY <2>7, <2>8, <2>11, <2>12 DEF OnceInv
<1> QED
  BY <1>1, <1>2 DEF Run

LEMMA OnceStarts == JulesInit => OnceInv
BY DEF JulesInit, OnceInv, Shape, OfThisRun, RememberedInTime, Spaced

LEMMA OnceKept == OnceInv /\ [JulesNext]_julesVars => OnceInv'
<1> SUFFICES ASSUME OnceInv, [JulesNext]_julesVars PROVE OnceInv'
  OBVIOUS
<1>1. ASSUME NEW w \in Windows,
             \/ LoadDetails(w) \/ Create(w) \/ Approve(w) \/ SendMessage(w) \/ LoseAnswer(w)
      PROVE  OnceInv'
  <2>1. CASE LoadDetails(w) \/ LoseAnswer(w)
    BY <2>1, OnceUntouched DEF LoadDetails, LoseAnswer
  <2>2. CASE Create(w)
    BY <2>2, RunOnce DEF Create, Press, Kinds
  <2>3. CASE Approve(w)
    BY <2>3, RunOnce DEF Approve, Press, Kinds
  <2>4. CASE SendMessage(w)
    BY <2>4, RunOnce DEF SendMessage, Press, Kinds
  <2> QED
    BY <1>1, <2>1, <2>2, <2>3, <2>4
<1>2. ASSUME NEW i \in DOMAIN operations,
             \/ ReadAndPost(i) \/ ReadState(i) \/ ReadPlan(i) \/ ReadFails(i)
             \/ JulesAnswers(i) \/ GiveUp(i) \/ GoogleAccepts(i) \/ PlanAgain(i)
      PROVE  OnceInv'
  <2>1. CASE ReadAndPost(i)
    BY <2>1, PostsToGoesOn DEF ReadAndPost, Running
  <2>2. CASE ReadState(i)
    BY <2>2, StateOnce
  <2>3. CASE ReadPlan(i)
    BY <2>3, PostsToGoesOn, SettleGoesOn DEF ReadPlan, Running, Outcomes
  <2>4. CASE ReadFails(i) \/ JulesAnswers(i) \/ GiveUp(i)
    BY <2>4, SettleGoesOn DEF ReadFails, JulesAnswers, GiveUp, Running, Outcomes
  <2>5. CASE GoogleAccepts(i)
    BY <2>5, AcceptOnce
  <2>6. CASE PlanAgain(i)
    BY <2>6, OnceUntouched DEF PlanAgain
  <2> QED
    BY <1>2, <2>1, <2>2, <2>3, <2>4, <2>5, <2>6
<1>3. CASE RestartServer
  BY <1>3, RestartOnce
<1>4. CASE PassTime
  BY <1>4, TimeOnce
<1>5. CASE UNCHANGED julesVars
  BY <1>5, OnceUntouched DEF julesVars
<1> QED
  BY <1>1, <1>2, <1>3, <1>4, <1>5 DEF JulesNext

(* A request is not sent twice under one id while the server remembers it,   *)
(* unless the first was definitely refused (JulesMutationCache): whatever    *)
(* may have reached Google is remembered for as long as it should be.        *)
THEOREM OnceSafe == JulesSpec => []OncePerWindow
<1>1. OnceInv => OncePerWindow
  BY DEF OnceInv, Spaced, OncePerWindow, MayCount
<1> QED
  BY <1>1, OnceStarts, OnceKept, PTL DEF JulesSpec

-----------------------------------------------------------------------------
(* Approvals. Whoever needs the lock and still runs holds it; Google changes *)
(* the plan for messages only; nothing is approved before it was sent; and   *)
(* while an approval is on its way, the plan is the one it names or comes    *)
(* from a message that went before it, as will every later one.              *)
LockHeld ==
    \A i \in DOMAIN operations :
        operations[i].phase \in Running /\ operations[i].kind # "create" => locked = i

PendingMessages ==
    \A m \in julesSession.pending : m \in DOMAIN operations /\ operations[m].kind = "message"

NotYetSent ==
    \A i \in DOMAIN operations :
        operations[i].phase \in {"begun", "stated"} =>
            operations[i].google = "no" /\ operations[i].started = 0

OnItsWay(i) ==
    operations[i].kind = "approve" /\ operations[i].phase = "sent"
                                   /\ operations[i].google = "inflight"

PlanIsKnown ==
    \A i \in DOMAIN operations : OnItsWay(i) =>
        /\ julesSession.plan = operations[i].payload.plan
           \/ julesSession.cause \in operations[i].before
        /\ Unplanned \subseteq operations[i].before

Reviewed(o) ==
    o.started # 0 /\ ~o.late => o.started = o.payload.plan \/ o.cause \in o.before

ReviewInv ==
    /\ Shape /\ LockHeld /\ PendingMessages /\ NotYetSent /\ PlanIsKnown
    /\ \A i \in DOMAIN operations : Reviewed(operations[i])

(* What the proofs need of the operation that a step writes. *)
SameRequest(new, o) ==
    /\ IsOperation(new) /\ new.kind = o.kind /\ new.payload = o.payload
    /\ new.id = o.id /\ new.start = o.start /\ new.run = o.run
SameApproval(new, o) ==
    new.before = o.before /\ new.started = o.started /\ new.cause = o.cause /\ new.late = o.late

(* One operation changes: all that is said of each operation alone. *)
LEMMA ReviewEach ==
  ASSUME ReviewInv, NEW i \in DOMAIN operations, NEW new,
         operations' = [operations EXCEPT ![i] = new],
         SameRequest(new, operations[i]), Reviewed(new),
         new.phase \in {"begun", "stated"} => new.google = "no" /\ new.started = 0,
         new.phase \in Running => operations[i].phase \in Running,
         locked' = locked \/ (locked = i /\ new.phase \notin Running),
         PendingMessages', UNCHANGED <<julesClock, julesRun>>
  PROVE  /\ Shape' /\ LockHeld' /\ NotYetSent'
         /\ \A k \in DOMAIN operations' : Reviewed(operations'[k])
         /\ DOMAIN operations' = DOMAIN operations
         /\ \A k \in DOMAIN operations : operations'[k] = IF k = i THEN new ELSE operations[k]
<1>1. /\ Len(operations') = Len(operations) /\ DOMAIN operations' = DOMAIN operations
      /\ operations' = [k \in 1..Len(operations) |-> operations'[k]]
      /\ \A k \in DOMAIN operations : operations'[k] = IF k = i THEN new ELSE operations[k]
  BY OneChanges DEF ReviewInv
<1>2. Shape'
  BY <1>1 DEF ReviewInv, Shape, SameRequest
<1>3. LockHeld'
  BY <1>1 DEF ReviewInv, LockHeld, SameRequest
<1>4. NotYetSent'
  BY <1>1 DEF ReviewInv, NotYetSent
<1>5. \A k \in DOMAIN operations' : Reviewed(operations'[k])
  BY <1>1 DEF ReviewInv
<1> QED
  BY <1>1, <1>2, <1>3, <1>4, <1>5

LEMMA PostsToReviewed ==
  ASSUME ReviewInv, NEW i \in DOMAIN operations, PostsTo(i),
         operations[i].phase \in {"begun", "stated"},
         operations[i].kind = "approve" => IsLatestPlan(i)
  PROVE  ReviewInv'
<1> DEFINE new == [operations[i] EXCEPT !.phase = "sent", !.google = "inflight",
                      !.before = IF operations[i].kind = "approve" THEN Unplanned ELSE {}]
<1>0. IsOperation(operations[i])
  BY DEF ReviewInv, Shape
<1>1. operations' = [operations EXCEPT ![i] = new]
  BY DEF PostsTo
<1>2. /\ SameRequest(new, operations[i]) /\ new.phase = "sent" /\ new.google = "inflight"
      /\ new.started = operations[i].started
      /\ new.before = IF operations[i].kind = "approve" THEN Unplanned ELSE {}
  BY <1>0 DEF IsOperation, SameRequest, Phases, Running
<1> HIDE DEF new
<1>3. UNCHANGED <<pages, mutations, locked, julesClock, julesRun, julesSession>>
  BY DEF PostsTo
<1>4. Reviewed(new) /\ operations[i].phase \in Running
  BY <1>2 DEF ReviewInv, NotYetSent, Reviewed, Running
<1>5. /\ Len(operations') = Len(operations) /\ DOMAIN operations' = DOMAIN operations
      /\ \A k \in DOMAIN operations : operations'[k] = IF k = i THEN new ELSE operations[k]
  BY <1>1, OneChanges DEF ReviewInv
<1>6. PendingMessages'
  BY <1>2, <1>3, <1>5 DEF ReviewInv, PendingMessages, SameRequest
<1>7. /\ Shape' /\ LockHeld' /\ NotYetSent'
      /\ \A k \in DOMAIN operations' : Reviewed(operations'[k])
  BY <1>1, <1>2, <1>3, <1>4, <1>6, ReviewEach
<1>8. CASE operations[i].kind = "approve"
  <2>1. Unplanned' = Unplanned
    BY <1>2, <1>3, <1>5, <1>8 DEF Unplanned, SameRequest
  <2>2. PlanIsKnown'
    BY <1>2, <1>3, <1>5, <1>8, <2>1
    DEF ReviewInv, PlanIsKnown, OnItsWay, IsLatestPlan, SameRequest
  <2> QED
    BY <1>6, <1>7, <2>2 DEF ReviewInv
<1>9. CASE operations[i].kind = "create"
  <2>1. Unplanned' = Unplanned
    BY <1>2, <1>3, <1>5, <1>9 DEF Unplanned, SameRequest
  <2>2. PlanIsKnown'
    BY <1>2, <1>3, <1>5, <1>9, <2>1 DEF ReviewInv, PlanIsKnown, OnItsWay, SameRequest
  <2> QED
    BY <1>6, <1>7, <2>2 DEF ReviewInv
<1>10. CASE operations[i].kind = "message"
  <2>1. locked = i
    BY <1>4, <1>10 DEF ReviewInv, LockHeld
  <2>2. \A k \in DOMAIN operations : ~OnItsWay(k)'
    BY <1>2, <1>5, <1>10, <2>1 DEF ReviewInv, LockHeld, OnItsWay, SameRequest, Running
  <2>3. PlanIsKnown'
    BY <1>5, <2>2 DEF PlanIsKnown
  <2> QED
    BY <1>6, <1>7, <2>3 DEF ReviewInv
<1> QED
  BY <1>8, <1>9, <1>10 DEF ReviewInv, Shape, IsOperation, Kinds

(* An operation that ends, or moves on, without a word from Google. *)
LEMMA QuietlyReviewed ==
  ASSUME ReviewInv, NEW i \in DOMAIN operations, NEW new,
         operations' = [operations EXCEPT ![i] = new],
         SameRequest(new, operations[i]), SameApproval(new, operations[i]),
         new.google \in {"no", operations[i].google},
         new.phase \in {"success", "refused", "unknown"}
            \/ (new.phase = "stated" /\ operations[i].phase = "begun"),
         locked' = locked \/ (locked = i /\ new.phase \notin Running),
         UNCHANGED <<julesClock, julesRun, julesSession>>
  PROVE  ReviewInv'
<1>1. /\ Len(operations') = Len(operations) /\ DOMAIN operations' = DOMAIN operations
      /\ \A k \in DOMAIN operations : operations'[k] = IF k = i THEN new ELSE operations[k]
  BY OneChanges DEF ReviewInv
<1>2. PendingMessages'
  BY <1>1 DEF ReviewInv, PendingMessages, SameRequest
<1>3. /\ Reviewed(new)
      /\ new.phase \in {"begun", "stated"} => new.google = "no" /\ new.started = 0
      /\ new.phase \in Running => operations[i].phase \in Running
  BY DEF ReviewInv, NotYetSent, Reviewed, Running, SameRequest, SameApproval
<1>4. /\ Shape' /\ LockHeld' /\ NotYetSent'
      /\ \A k \in DOMAIN operations' : Reviewed(operations'[k])
  BY <1>2, <1>3, ReviewEach
<1>5. Unplanned' \subseteq Unplanned
  BY <1>1 DEF Unplanned, SameRequest
<1>6. \A k \in DOMAIN operations : OnItsWay(k)' => OnItsWay(k) /\ operations'[k] = operations[k]
  BY <1>1 DEF OnItsWay
<1>7. PlanIsKnown'
  BY <1>1, <1>5, <1>6 DEF ReviewInv, PlanIsKnown
<1> QED
  BY <1>2, <1>4, <1>7 DEF ReviewInv

LEMMA SettleReviewed ==
  ASSUME ReviewInv, NEW i \in DOMAIN operations, NEW outcome \in Outcomes, Settle(i, outcome)
  PROVE  ReviewInv'
<1> DEFINE new == [operations[i] EXCEPT !.phase = outcome,
                      !.google = IF outcome = "refused" THEN "no" ELSE @]
<1>1. operations' = [operations EXCEPT ![i] = new]
  BY DEF Settle
<1>0. IsOperation(operations[i])
  BY DEF ReviewInv, Shape
<1>2. /\ SameRequest(new, operations[i]) /\ SameApproval(new, operations[i])
      /\ new.phase = outcome /\ new.google \in {"no", operations[i].google}
  BY <1>0 DEF IsOperation, SameRequest, SameApproval, Phases, Outcomes, Running
<1> HIDE DEF new
<1>3. new.phase \in {"success", "refused", "unknown"} /\ new.phase \notin Running
  BY <1>2 DEF Outcomes, Running
<1>4. UNCHANGED <<julesClock, julesRun, julesSession>>
  BY DEF Settle
<1>5. locked' = locked \/ locked = i
  BY DEF Settle, Unlocked
<1> QED
  BY <1>1, <1>2, <1>3, <1>4, <1>5, QuietlyReviewed

LEMMA StateReviewed ==
  ASSUME ReviewInv, NEW i \in DOMAIN operations, ReadState(i)
  PROVE  ReviewInv'
<1>1. CASE Settle(i, "refused")
  BY <1>1, SettleReviewed DEF Outcomes
<1>2. CASE ~Settle(i, "refused")
  <2> DEFINE new == [operations[i] EXCEPT !.phase = "stated"]
  <2>1. operations' = [operations EXCEPT ![i] = new]
    BY <1>2 DEF ReadState
  <2>2. /\ SameRequest(new, operations[i]) /\ SameApproval(new, operations[i])
        /\ new.phase = "stated" /\ new.google = operations[i].google
    BY DEF ReviewInv, Shape, IsOperation, SameRequest, SameApproval, Phases, Running
  <2> HIDE DEF new
  <2>3. UNCHANGED <<locked, julesClock, julesRun, julesSession>> /\ operations[i].phase = "begun"
    BY <1>2 DEF ReadState
  <2> QED
    BY <2>1, <2>2, <2>3, QuietlyReviewed
<1> QED
  BY <1>1, <1>2

LEMMA AcceptReviewed ==
  ASSUME ReviewInv, NEW i \in DOMAIN operations, GoogleAccepts(i)
  PROVE  ReviewInv'
<1> DEFINE new == [operations[i] EXCEPT
             !.google = "accepted",
             !.started = IF operations[i].kind = "approve" THEN julesSession.plan ELSE 0,
             !.cause = IF operations[i].kind = "approve" THEN julesSession.cause ELSE 0,
             !.late = operations[i].phase # "sent"]
<1>1. operations' = [operations EXCEPT ![i] = new] /\ operations[i].google = "inflight"
  BY DEF GoogleAccepts
<1>0. IsOperation(operations[i])
  BY DEF ReviewInv, Shape
<1>2. /\ SameRequest(new, operations[i]) /\ new.phase = operations[i].phase
      /\ new.google = "accepted" /\ new.before = operations[i].before
      /\ new.started = IF operations[i].kind = "approve" THEN julesSession.plan ELSE 0
      /\ new.cause = IF operations[i].kind = "approve" THEN julesSession.cause ELSE 0
  BY <1>0 DEF IsOperation, SameRequest, Phases, Running
<1>2a. new.late = (operations[i].phase # "sent")
  BY <1>0 DEF IsOperation
<1> HIDE DEF new
<1>3. UNCHANGED <<locked, julesClock, julesRun>>
  BY DEF GoogleAccepts
<1>4. /\ julesSession'.plan = julesSession.plan /\ julesSession'.cause = julesSession.cause
      /\ julesSession'.pending = IF operations[i].kind = "message"
                                 THEN julesSession.pending \union {i} ELSE julesSession.pending
  BY DEF GoogleAccepts, ReviewInv, Shape, IsOperation, Kinds
<1>5. /\ Len(operations') = Len(operations) /\ DOMAIN operations' = DOMAIN operations
      /\ \A k \in DOMAIN operations : operations'[k] = IF k = i THEN new ELSE operations[k]
  BY <1>1, OneChanges DEF ReviewInv
<1>6. PendingMessages'
  BY <1>2, <1>4, <1>5 DEF ReviewInv, PendingMessages, SameRequest
<1>7. Reviewed(new)
  <2> SUFFICES ASSUME new.started # 0, ~new.late
               PROVE  new.started = new.payload.plan \/ new.cause \in new.before
    BY DEF Reviewed
  <2>1. OnItsWay(i)
    BY <1>1, <1>2, <1>2a DEF OnItsWay
  <2> QED
    BY <1>2, <2>1 DEF ReviewInv, PlanIsKnown, OnItsWay, SameRequest
<1>8. /\ new.phase \in {"begun", "stated"} => new.google = "no" /\ new.started = 0
      /\ new.phase \in Running => operations[i].phase \in Running
  BY <1>1, <1>2 DEF ReviewInv, NotYetSent
<1>9. /\ Shape' /\ LockHeld' /\ NotYetSent'
      /\ \A k \in DOMAIN operations' : Reviewed(operations'[k])
  BY <1>1, <1>2, <1>3, <1>6, <1>7, <1>8, ReviewEach
<1>10. Unplanned' \subseteq Unplanned
  BY <1>1, <1>2, <1>4, <1>5 DEF Unplanned, SameRequest
<1>11. \A k \in DOMAIN operations : OnItsWay(k)' => OnItsWay(k) /\ operations'[k] = operations[k]
  BY <1>2, <1>5 DEF OnItsWay
<1>12. PlanIsKnown'
  BY <1>4, <1>5, <1>10, <1>11 DEF ReviewInv, PlanIsKnown
<1> QED
  BY <1>6, <1>9, <1>12 DEF ReviewInv

LEMMA PlanReviewed ==
  ASSUME ReviewInv, NEW m, PlanAgain(m)
  PROVE  ReviewInv'
<1>1. /\ m \in julesSession.pending /\ julesSession'.cause = m
      /\ julesSession'.pending = julesSession.pending \ {m}
      /\ UNCHANGED <<operations, locked, julesClock, julesRun>>
  BY DEF PlanAgain
<1>2. m \in Unplanned /\ Unplanned' \subseteq Unplanned
  BY <1>1 DEF ReviewInv, PendingMessages, Unplanned
<1>3. PlanIsKnown'
  BY <1>1, <1>2 DEF ReviewInv, PlanIsKnown, OnItsWay
<1> QED
  BY <1>1, <1>3
  DEF ReviewInv, Shape, IsOperation, Phases, LockHeld, PendingMessages, NotYetSent, Reviewed,
      Running

(* Steps that leave the operations, the lock and the session alone. *)
LEMMA ReviewUntouched ==
  ASSUME ReviewInv, UNCHANGED <<operations, locked, julesSession, julesRun>>, julesClock' \in Nat
  PROVE  ReviewInv'
BY DEF ReviewInv, Shape, IsOperation, Phases, LockHeld, PendingMessages, NotYetSent, Reviewed,
       PlanIsKnown, OnItsWay, Unplanned, Running

LEMMA RestartReviewed ==
  ASSUME ReviewInv, RestartServer
  PROVE  ReviewInv'
<1> DEFINE new(k) == IF operations[k].phase \in Running
                     THEN [operations[k] EXCEPT !.phase = "dead"] ELSE operations[k]
<1>1. DOMAIN operations = 1..Len(operations) /\ Len(operations) \in Nat
  BY DEF ReviewInv, Shape
<1>2. operations' = [k \in 1..Len(operations) |-> new(k)]
  BY <1>1 DEF RestartServer
<1>3. Len(operations') = Len(operations) /\ DOMAIN operations' = DOMAIN operations
  BY <1>1, <1>2
<1>4. ASSUME NEW k \in DOMAIN operations
      PROVE  /\ SameRequest(operations'[k], operations[k])
             /\ SameApproval(operations'[k], operations[k])
             /\ operations'[k].phase \notin Running
  <2>1. IsOperation(operations[k]) /\ operations'[k] = new(k)
    BY <1>1, <1>2, <1>4 DEF ReviewInv, Shape
  <2> QED
    BY <2>1 DEF IsOperation, Phases, Running, SameRequest, SameApproval
<1>5. julesRun' = julesRun + 1 /\ UNCHANGED <<julesClock, julesSession>> /\ julesRun \in Nat
  BY DEF RestartServer, ReviewInv, Shape
<1>6. Shape'
  BY <1>1, <1>2, <1>3, <1>4, <1>5 DEF ReviewInv, Shape, SameRequest
<1>7. LockHeld' /\ NotYetSent' /\ PlanIsKnown'
  BY <1>3, <1>4 DEF LockHeld, NotYetSent, PlanIsKnown, OnItsWay, Running
<1>8. PendingMessages'
  BY <1>3, <1>4, <1>5 DEF ReviewInv, PendingMessages, SameRequest
<1>9. \A k \in DOMAIN operations' : Reviewed(operations'[k])
  BY <1>3, <1>4 DEF ReviewInv, Reviewed, SameRequest, SameApproval
<1> QED
  BY <1>6, <1>7, <1>8, <1>9 DEF ReviewInv

LEMMA RunReviewed ==
  ASSUME ReviewInv, NEW w \in Windows, NEW kind \in Kinds, NEW payload, Run(w, kind, payload),
         UNCHANGED <<julesClock, julesRun, julesSession>>
  PROVE  ReviewInv'
<1> DEFINE id == <<kind, RequestId(pages[w], kind)>>
<1>0. julesClock \in Nat /\ julesRun \in Nat /\ Len(operations) \in Nat
      /\ DOMAIN operations = 1..Len(operations)
  BY DEF ReviewInv, Shape
<1>1. CASE UNCHANGED <<operations, locked>>
  BY <1>0, <1>1, ReviewUntouched
<1>2. CASE /\ id \notin DOMAIN Remembered /\ ~TurnedAway(pages[w], kind, payload)
           /\ operations' = Append(operations,
                 [id |-> id, kind |-> kind, payload |-> payload, start |-> julesClock,
                  run |-> julesRun, phase |-> "begun", google |-> "no",
                  before |-> {}, started |-> 0, cause |-> 0, late |-> FALSE])
           /\ locked' = IF NeedsLock(kind) THEN Len(operations) + 1 ELSE locked
  <2> DEFINE j == Len(operations) + 1
             new == [id |-> id, kind |-> kind, payload |-> payload, start |-> julesClock,
                  run |-> julesRun, phase |-> "begun", google |-> "no",
                  before |-> {}, started |-> 0, cause |-> 0, late |-> FALSE]
  <2>1. /\ IsOperation(new) /\ new.phase = "begun" /\ new.google = "no" /\ new.started = 0
        /\ new.kind = kind
    BY <1>0 DEF IsOperation, Phases, Running, Kinds
  <2>2. operations' = Append(operations, new)
    BY <1>2
  <2> HIDE DEF new
  <2>3. operations' = [k \in 1..j |-> IF k = j THEN new ELSE operations[k]]
    BY <2>2, AppendOperation DEF ReviewInv
  <2>4. Len(operations') = j /\ DOMAIN operations' = 1..j
    BY <1>0, <2>3
  <2>5. /\ \A k \in 1..j : operations'[k] = IF k = j THEN new ELSE operations[k]
        /\ \A k \in 1..j : k # j => k \in DOMAIN operations
        /\ DOMAIN operations \subseteq 1..j /\ j \notin DOMAIN operations
    BY <1>0, <2>3
  <2>6. Shape'
    BY <1>0, <2>1, <2>3, <2>4, <2>5 DEF ReviewInv, Shape
  <2>7. LockHeld'
    <3>1. CASE NeedsLock(kind)
      <4>1. locked = 0 /\ locked' = j
        BY <1>2, <3>1 DEF TurnedAway
      <4>2. \A k \in DOMAIN operations :
               ~(operations[k].phase \in Running /\ operations[k].kind # "create")
        BY <1>0, <4>1 DEF ReviewInv, LockHeld
      <4> QED
        BY <2>4, <2>5, <4>1, <4>2 DEF LockHeld
    <3>2. CASE ~NeedsLock(kind)
      BY <1>2, <2>1, <2>4, <2>5, <3>2 DEF ReviewInv, LockHeld, NeedsLock, Kinds
    <3> QED
      BY <3>1, <3>2
  <2>8. PendingMessages' /\ NotYetSent'
    BY <2>1, <2>4, <2>5 DEF ReviewInv, PendingMessages, NotYetSent
  <2>9. Unplanned' = Unplanned
    BY <2>1, <2>4, <2>5 DEF Unplanned, ReviewInv, PendingMessages
  <2>10. PlanIsKnown'
    BY <2>1, <2>4, <2>5, <2>9 DEF ReviewInv, PlanIsKnown, OnItsWay
  <2>11. \A k \in DOMAIN operations' : Reviewed(operations'[k])
    BY <2>1, <2>4, <2>5 DEF ReviewInv, Reviewed
  <2> QED
    BY <2>6, <2>7, <2>8, <2>10, <2>11 DEF ReviewInv
<1> QED
  BY <1>1, <1>2 DEF Run

(* What an approval starts is the plan the administrator has reviewed, but   *)
(* for a plan from a message sent before it, and for an approval that Google *)
(* accepts after the server gave it up (approvePlan): the lock of the        *)
(* session keeps every later message away while an approval is under way.    *)
THEOREM ReviewSafe == JulesSpec => []ApprovedAsReviewed
<1>1. JulesInit => ReviewInv
  BY DEF JulesInit, ReviewInv, Shape, LockHeld, PendingMessages, NotYetSent, PlanIsKnown
<1>2. ReviewInv /\ [JulesNext]_julesVars => ReviewInv'
  <2> SUFFICES ASSUME ReviewInv, [JulesNext]_julesVars PROVE ReviewInv'
    OBVIOUS
  <2>0. julesClock \in Nat
    BY DEF ReviewInv, Shape
  <2>1. ASSUME NEW w \in Windows,
               \/ LoadDetails(w) \/ Create(w) \/ Approve(w) \/ SendMessage(w) \/ LoseAnswer(w)
        PROVE  ReviewInv'
    <3>1. CASE LoadDetails(w) \/ LoseAnswer(w)
      BY <2>0, <3>1, ReviewUntouched DEF LoadDetails, LoseAnswer
    <3>2. CASE Create(w)
      BY <3>2, RunReviewed DEF Create, Press, Kinds
    <3>3. CASE Approve(w)
      BY <3>3, RunReviewed DEF Approve, Press, Kinds
    <3>4. CASE SendMessage(w)
      BY <3>4, RunReviewed DEF SendMessage, Press, Kinds
    <3> QED
      BY <2>1, <3>1, <3>2, <3>3, <3>4
  <2>2. ASSUME NEW i \in DOMAIN operations,
               \/ ReadAndPost(i) \/ ReadState(i) \/ ReadPlan(i) \/ ReadFails(i)
               \/ JulesAnswers(i) \/ GiveUp(i) \/ GoogleAccepts(i) \/ PlanAgain(i)
        PROVE  ReviewInv'
    <3>1. CASE ReadAndPost(i)
      BY <3>1, PostsToReviewed DEF ReadAndPost
    <3>2. CASE ReadState(i)
      BY <3>2, StateReviewed
    <3>3. CASE ReadPlan(i)
      BY <3>3, PostsToReviewed, SettleReviewed DEF ReadPlan, Outcomes
    <3>4. CASE ReadFails(i) \/ JulesAnswers(i) \/ GiveUp(i)
      BY <3>4, SettleReviewed DEF ReadFails, JulesAnswers, GiveUp, Outcomes
    <3>5. CASE GoogleAccepts(i)
      BY <3>5, AcceptReviewed
    <3>6. CASE PlanAgain(i)
      BY <3>6, PlanReviewed
    <3> QED
      BY <2>2, <3>1, <3>2, <3>3, <3>4, <3>5, <3>6
  <2>3. CASE RestartServer
    BY <2>3, RestartReviewed
  <2>4. CASE PassTime
    BY <2>0, <2>4, ReviewUntouched DEF PassTime
  <2>5. CASE UNCHANGED julesVars
    BY <2>0, <2>5, ReviewUntouched DEF julesVars
  <2> QED
    BY <2>1, <2>2, <2>3, <2>4, <2>5 DEF JulesNext
<1>3. ReviewInv => ApprovedAsReviewed
  BY DEF ReviewInv, Reviewed, ApprovedAsReviewed
<1> QED
  BY <1>1, <1>2, <1>3, PTL DEF JulesSpec

-----------------------------------------------------------------------------
(***************************************************************************)
(* The tasks of the tool swarm                                             *)
(***************************************************************************)
(* What is known of a task.                                                *)
Task == [plan: Seq(Step),
         status: {"ABSENT", "GONE", "PLANNED", "VERIFIED", "FAILED", "BLOCKED"},
         verification: {"PENDING", "PASSED", "FAILED"}, evidence: BOOLEAN, replans: Nat]

Call == [task: {0} \union TaskIds, step: Nat, all: BOOLEAN]

ReplannedSteps(plan) == {i \in DOMAIN plan : plan[i].replanned}

Identified(plan) ==
    /\ \A i \in DOMAIN plan : plan[i].id \in 1..Len(plan)
    /\ \A i, j \in DOMAIN plan : plan[i].id = plan[j].id => i = j

Limited(task) ==
    /\ Cardinality(ReplannedSteps(task.plan)) <= task.replans
    /\ task.replans <= MaxReplans

Ended(task) ==
    Settled(task) /\ ~Stuck(task) /\ (\E i \in DOMAIN task.plan : task.plan[i].attempts > 0)
        => task.status \in {Verdict(task), "BLOCKED"}

(* A verdict is recorded where the status is, so the end of a run of all     *)
(* steps, which sets what has none to FAILED, leaves a VERIFIED task alone.  *)
TaskOk(task) ==
    /\ task \in Task
    /\ task.status = "ABSENT" => task.plan = << >>
    /\ Identified(task.plan) /\ Limited(task) /\ Ended(task)
    /\ task.status = "VERIFIED" => task.verification # "PENDING"

HasStep(task, id) == \E i \in DOMAIN task.plan : task.plan[i].id = id

CallOk(c, ts) ==
    /\ c \in Call
    /\ c.step # NoStep => c.task \in TaskIds /\ HasStep(ts[c.task], c.step)
    /\ c.all => c.task \in TaskIds

SwarmInv ==
    /\ tasks \in [TaskIds -> Task] /\ calls \in [Sessions -> Call]
    /\ \A t \in TaskIds : TaskOk(tasks[t])
    /\ \A s \in Sessions : CallOk(calls[s], tasks)

LEMMA PlanFacts ==
  ASSUME NEW plan \in Seq(Step)
  PROVE  /\ Len(plan) \in Nat /\ DOMAIN plan = 1..Len(plan) /\ IsFiniteSet(DOMAIN plan)
         /\ IsFiniteSet(ReplannedSteps(plan)) /\ Cardinality(ReplannedSteps(plan)) \in Nat
<1>1. Len(plan) \in Nat /\ DOMAIN plan = 1..Len(plan)
  OBVIOUS
<1>2. IsFiniteSet(DOMAIN plan)
  BY <1>1, FS_Interval
<1>3. ReplannedSteps(plan) \subseteq DOMAIN plan
  BY DEF ReplannedSteps
<1> QED
  BY <1>1, <1>2, <1>3, FS_Subset, FS_CardinalityType

LEMMA EmptyPlan ==
  ASSUME NEW task \in Task, task.plan = << >>, task.replans = 0,
         task.status \in {"ABSENT", "GONE", "BLOCKED"}
  PROVE  TaskOk(task)
<1>1. DOMAIN task.plan = {} /\ ReplannedSteps(task.plan) = {}
  BY DEF ReplannedSteps
<1>2. Limited(task)
  <2>1. Cardinality(ReplannedSteps(task.plan)) = 0
    BY <1>1, FS_EmptySet
  <2>2. MaxReplans \in Nat
    BY SwarmAssumption
  <2> QED
    BY <2>1, <2>2 DEF Limited
<1> QED
  BY <1>1, <1>2 DEF TaskOk, Identified, Ended

(* A step that changes in a plan keeps its id and its origin.                *)
LEMMA StepChanged ==
  ASSUME NEW task \in Task, Identified(task.plan), Limited(task), NEW i \in DOMAIN task.plan,
         NEW st \in Step, st.id = task.plan[i].id, st.replanned = task.plan[i].replanned,
         NEW new \in Task, new.plan = [task.plan EXCEPT ![i] = st], new.replans = task.replans
  PROVE  /\ Identified(new.plan) /\ Limited(new)
         /\ \A id : HasStep(task, id) => HasStep(new, id)
<1>1. task.plan \in Seq(Step) /\ new.plan \in Seq(Step)
  BY DEF Task
<1>2. DOMAIN new.plan = DOMAIN task.plan /\ Len(new.plan) = Len(task.plan)
  BY <1>1
<1>3. \A j \in DOMAIN task.plan : /\ new.plan[j].id = task.plan[j].id
                                  /\ new.plan[j].replanned = task.plan[j].replanned
  BY <1>2
<1>4. ReplannedSteps(new.plan) = ReplannedSteps(task.plan)
  BY <1>2, <1>3 DEF ReplannedSteps
<1>5. Identified(new.plan)
  BY <1>2, <1>3 DEF Identified
<1>6. Limited(new)
  BY <1>4 DEF Limited
<1> QED
  BY <1>2, <1>3, <1>5, <1>6 DEF HasStep

LEMMA StepInPlan ==
  ASSUME NEW task \in Task, NEW i \in DOMAIN task.plan, NEW st \in Step
  PROVE  /\ task.plan[i] \in Step
         /\ [task.plan EXCEPT ![i] = st] \in Seq(Step)
         /\ i \in 1..Len(task.plan)
BY DEF Task

-----------------------------------------------------------------------------
(* Where a step goes that takes the place of a failed one                    *)
GrownBy(new, plan, i, st) ==
    /\ new \in Seq(Step) /\ Identified(new)
    /\ Cardinality(ReplannedSteps(new)) <= Cardinality(ReplannedSteps(plan)) + 1
    /\ \A id : (\E j \in DOMAIN plan : plan[j].id = id) => \E j \in DOMAIN new : new[j].id = id
    /\ i + 1 \in DOMAIN new /\ new[i + 1] = st

LEMMA PlanGrows ==
  ASSUME NEW plan \in Seq(Step), Identified(plan), NEW i \in DOMAIN plan,
         NEW st \in Step, st.id = Len(plan) + 1
  PROVE  GrownBy(InsertAt(plan, i + 1, st), plan, i, st)
<1> DEFINE n == Len(plan)
           new == InsertAt(plan, i + 1, st)
           shift(j) == IF j <= i THEN j ELSE j + 1
<1>1. n \in Nat /\ DOMAIN plan = 1..n /\ i \in 1..n
  BY PlanFacts
<1>2. /\ new \in Seq(Step) /\ Len(new) = n + 1
      /\ \A j \in 1..i : new[j] = plan[j]
      /\ new[i + 1] = st
      /\ \A j \in (i + 1)..n : new[j + 1] = plan[j]
  <2> DEFINE head == SubSeq(plan, 1, i)
             tail == SubSeq(plan, i + 1, n)
  <2>1. new = head \o <<st>> \o tail
    <3>1. (i + 1) - 1 = i
      BY <1>1
    <3> QED
      BY <3>1 DEF InsertAt
  <2>2. head \in Seq(Step) /\ Len(head) = i /\ \A j \in 1..i : head[j] = plan[j]
    BY <1>1, SubSeqProperties
  <2>3. tail \in Seq(Step) /\ Len(tail) = n - i /\ \A j \in 1..(n - i) : tail[j] = plan[i + j]
    BY <1>1, SubSeqProperties
  <2> HIDE DEF head, tail, new, n
  <2>4. LET two == head \o <<st>>
        IN  /\ two \in Seq(Step) /\ Len(two) = i + 1
            /\ \A j \in 1..i : two[j] = plan[j]
            /\ two[i + 1] = st
    BY <1>1, <2>2
  <2> DEFINE two == head \o <<st>>
  <2>5. new = two \o tail
    BY <2>1
  <2>6. two \in Seq(Step) /\ Len(two) = i + 1 /\ (\A j \in 1..i : two[j] = plan[j]) /\ two[i + 1] = st
    BY <2>4
  <2> HIDE DEF two
  <2>12. two \in Seq(Step) /\ tail \in Seq(Step)
    BY <2>3, <2>6
  <2>13. /\ two \o tail \in Seq(Step) /\ Len(two \o tail) = Len(two) + Len(tail)
         /\ \A k \in 1..(Len(two) + Len(tail)) :
              (two \o tail)[k] = IF k <= Len(two) THEN two[k] ELSE tail[k - Len(two)]
    BY ONLY <2>12, ConcatProperties
  <2>7. new \in Seq(Step) /\ Len(new) = n + 1
    <3>1. new \in Seq(Step) /\ Len(new) = Len(two) + Len(tail)
      BY <2>5, <2>13
    <3> QED
      BY <1>1, <2>3, <2>6, <3>1
  <2>8. ASSUME NEW j \in 1..(i + 1) PROVE new[j] = two[j]
    <3>1. j \in 1..(Len(two) + Len(tail)) /\ j <= Len(two)
      BY <1>1, <2>3, <2>6
    <3>2. new[j] = IF j <= Len(two) THEN two[j] ELSE tail[j - Len(two)]
      BY <2>5, <2>13, <3>1
    <3> QED
      BY <3>1, <3>2
  <2>9. ASSUME NEW j \in (i + 1)..n PROVE new[j + 1] = plan[j]
    <3>1. j - i \in 1..(n - i) /\ i + (j - i) = j
      BY <1>1
    <3>2. /\ j + 1 \in 1..(Len(two) + Len(tail)) /\ ~(j + 1 <= Len(two))
          /\ (j + 1) - Len(two) = j - i
      BY <1>1, <2>3, <2>6
    <3>3. new[j + 1] = tail[(j + 1) - Len(two)]
      BY <2>5, <2>13, <3>2
    <3>4. tail[j - i] = plan[j]
      BY <2>3, <3>1
    <3> QED
      BY <3>2, <3>3, <3>4
  <2>10. \A j \in 1..i : new[j] = plan[j]
    <3>1. \A j \in 1..i : j \in 1..(i + 1)
      BY <1>1
    <3> QED
      BY <2>6, <2>8, <3>1
  <2>11. new[i + 1] = st
    <3>1. i + 1 \in 1..(i + 1)
      BY <1>1
    <3> QED
      BY <2>6, <2>8, <3>1
  <2> QED
    BY <2>7, <2>9, <2>10, <2>11
<1> HIDE DEF new, n
<1>3. DOMAIN new = 1..(n + 1)
  BY <1>1, <1>2
<1>4. \A j \in 1..n : shift(j) \in (1..(n + 1)) \ {i + 1} /\ new[shift(j)] = plan[j]
  BY <1>1, <1>2
<1>5. ASSUME NEW k \in 1..(n + 1), k # i + 1 PROVE \E j \in 1..n : k = shift(j)
  <2>1. CASE k <= i
    BY <1>1, <2>1
  <2>2. CASE k > i + 1
    <3>1. k - 1 \in 1..n /\ shift(k - 1) = k
      BY <1>1, <2>2
    <3> QED
      BY <3>1
  <2> QED
    BY <1>1, <1>5, <2>1, <2>2
<1>6. \A j, k \in 1..n : shift(j) = shift(k) => j = k
  BY <1>1
<1> HIDE DEF shift
<1>7. Identified(new)
  <2>1. \A j \in 1..n : plan[j].id \in 1..n
    BY <1>1 DEF Identified, n
  <2>2. st.id = n + 1
    BY DEF n
  <2>3. \A k \in 1..(n + 1) : k # i + 1 => new[k].id \in 1..n
    BY <1>4, <1>5, <2>1
  <2>4. \A k \in 1..(n + 1) : new[k].id \in 1..(n + 1)
    BY <1>1, <1>2, <2>2, <2>3
  <2>5. ASSUME NEW k \in 1..(n + 1), NEW l \in 1..(n + 1), new[k].id = new[l].id
        PROVE  k = l
    <3>1. CASE k = i + 1 \/ l = i + 1
      BY <1>1, <1>2, <2>2, <2>3, <2>5, <3>1
    <3>2. CASE k # i + 1 /\ l # i + 1
      <4>1. PICK j \in 1..n : k = shift(j)
        BY <1>5, <3>2
      <4>2. PICK m \in 1..n : l = shift(m)
        BY <1>5, <3>2
      <4>3. plan[j].id = plan[m].id
        BY <1>4, <2>5, <4>1, <4>2
      <4>4. j = m
        BY <1>1, <4>3 DEF Identified
      <4> QED
        BY <4>1, <4>2, <4>4
    <3> QED
      BY <3>1, <3>2
  <2> QED
    BY <1>2, <1>3, <2>4, <2>5 DEF Identified
<1>8. Cardinality(ReplannedSteps(new)) <= Cardinality(ReplannedSteps(plan)) + 1
  <2> DEFINE R == ReplannedSteps(plan)
             f == [j \in R |-> shift(j)]
             S == {shift(j) : j \in R}
  <2>1. IsFiniteSet(R) /\ Cardinality(R) \in Nat
    BY PlanFacts
  <2>2. f \in Surjection(R, S)
    BY DEF Surjection
  <2>3. IsFiniteSet(S) /\ Cardinality(S) <= Cardinality(R)
    BY <2>1, <2>2, FS_Surjection
  <2>4. ReplannedSteps(new) \subseteq S \union {i + 1}
    <3>1. ASSUME NEW k \in ReplannedSteps(new), k # i + 1
          PROVE  k \in S
      <4>1. k \in 1..(n + 1) /\ new[k].replanned
        BY <1>3 DEF ReplannedSteps
      <4>2. PICK j \in 1..n : k = shift(j)
        BY <1>5, <3>1, <4>1
      <4>3. j \in R
        BY <1>1, <1>4, <4>1, <4>2 DEF ReplannedSteps
      <4> QED
        BY <4>2, <4>3
    <3> QED
      BY <3>1
  <2> HIDE DEF R, S
  <2>5. IsFiniteSet(S \union {i + 1}) /\ Cardinality(S \union {i + 1}) <= Cardinality(S) + 1
        /\ Cardinality(S) \in Nat
    <3>1. Cardinality(S) \in Nat
      BY <2>3, FS_CardinalityType
    <3>2. /\ IsFiniteSet(S \union {i + 1})
          /\ Cardinality(S \union {i + 1}) = IF i + 1 \in S THEN Cardinality(S) ELSE Cardinality(S) + 1
      BY <2>3, FS_AddElement
    <3> QED
      BY <3>1, <3>2
  <2>6. Cardinality(ReplannedSteps(new)) <= Cardinality(S \union {i + 1})
        /\ Cardinality(ReplannedSteps(new)) \in Nat /\ Cardinality(S \union {i + 1}) \in Nat
    BY <2>4, <2>5, FS_Subset, FS_CardinalityType
  <2> QED
    BY <2>1, <2>3, <2>5, <2>6 DEF R
<1>9. \A id : (\E j \in DOMAIN plan : plan[j].id = id) => \E j \in DOMAIN new : new[j].id = id
  BY <1>1, <1>3, <1>4
<1>10. i + 1 \in DOMAIN new /\ new[i + 1] = st
  BY <1>1, <1>2, <1>3
<1> QED
  BY <1>2, <1>7, <1>8, <1>9, <1>10 DEF new, GrownBy

-----------------------------------------------------------------------------
(* A task takes the place of another, and the rest stays or leaves memory    *)
LEMMA NoTaskIs ==
  /\ NoTask \in Task /\ NoTask.plan = << >> /\ NoTask.replans = 0
  /\ NoTask.status = "ABSENT" /\ NoTask.verification = "PENDING"
BY DEF NoTask, Task

LEMMA GoneIsOk == Gone \in Task /\ TaskOk(Gone)
<1>1. Gone \in Task
  BY NoTaskIs DEF Gone, Task
<1>2. Gone.plan = << >> /\ Gone.replans = 0 /\ Gone.status = "GONE"
  BY NoTaskIs DEF Gone, Task
<1> QED
  BY <1>1, <1>2, EmptyPlan

LEMMA TaskReplaced ==
  ASSUME SwarmInv, NEW s0 \in Sessions, NEW t0 \in TaskIds,
         NEW new, TaskOk(new), \A id : HasStep(tasks[t0], id) => HasStep(new, id),
         NEW ts, ts = [tasks EXCEPT ![t0] = new],
         NEW c, CallOk(c, ts), calls' = [calls EXCEPT ![s0] = c],
         tasks' = ts \/ tasks' = Kept(ts, calls')
  PROVE  SwarmInv'
<1>1. new \in Task /\ c \in Call
  BY DEF TaskOk, CallOk
<1>2. ts \in [TaskIds -> Task] /\ \A t \in TaskIds : TaskOk(ts[t])
  BY <1>1 DEF SwarmInv
<1>3. calls' \in [Sessions -> Call] /\ \A s \in Sessions : CallOk(calls'[s], ts)
  <2>1. calls' \in [Sessions -> Call]
    BY <1>1 DEF SwarmInv
  <2>2. calls'[s0] = c
    BY DEF SwarmInv
  <2>3. ASSUME NEW s \in Sessions, s # s0 PROVE CallOk(calls'[s], ts)
    <3>1. calls'[s] = calls[s] /\ CallOk(calls[s], tasks)
      BY <2>3 DEF SwarmInv
    <3>2. \A t \in TaskIds, id \in Nat : HasStep(tasks[t], id) => HasStep(ts[t], id)
      BY DEF SwarmInv
    <3> QED
      BY <3>1, <3>2 DEF CallOk, Call
  <2> QED
    BY <2>1, <2>2, <2>3
<1>4. ASSUME NEW t \in TaskIds
      PROVE  /\ tasks'[t] \in {Gone, ts[t]}
             /\ (\E s \in Sessions : calls'[s].task = t) => tasks'[t] = ts[t]
  <2>1. CASE tasks' = ts
    BY <2>1
  <2>2. CASE tasks' = Kept(ts, calls')
    BY <2>2 DEF Kept
  <2> QED
    BY <2>1, <2>2
<1>5. tasks' \in [TaskIds -> Task]
  <2>1. CASE tasks' = ts
    BY <1>2, <2>1
  <2>2. CASE tasks' = Kept(ts, calls')
    <3>1. tasks' = [t \in TaskIds |-> tasks'[t]]
      BY <2>2 DEF Kept
    <3> QED
      BY <1>2, <1>4, <3>1, GoneIsOk
  <2> QED
    BY <2>1, <2>2
<1>6. \A t \in TaskIds : TaskOk(tasks'[t])
  BY <1>2, <1>4, GoneIsOk
<1>7. ASSUME NEW s \in Sessions PROVE CallOk(calls'[s], tasks')
  <2>1. CallOk(calls'[s], ts)
    BY <1>3
  <2>2. calls'[s].task \in TaskIds => tasks'[calls'[s].task] = ts[calls'[s].task]
    BY <1>4
  <2> QED
    BY <2>1, <2>2 DEF CallOk
<1>8. \A t \in TaskIds : TaskOk(tasks[t])'
  BY <1>6 DEF TaskOk, Identified, Limited, Ended, Settled, Stuck, StepsWith, Verdict,
              ReplannedSteps
<1>9. \A s \in Sessions : CallOk(calls[s], tasks)'
  BY <1>7 DEF CallOk, HasStep
<1> QED
  BY <1>3, <1>5, <1>8, <1>9 DEF SwarmInv

-----------------------------------------------------------------------------
(* A plan is made with the ids in order, and nothing in it replaced          *)
LEMMA NewSteps ==
  ASSUME NEW s \in Sessions, NEW tool \in Tools, NEW i \in Nat \ {0}, NEW r \in BOOLEAN
  PROVE  /\ NewStep(s, tool, i, r) \in Step
         /\ NewStep(s, tool, i, r).id = i /\ NewStep(s, tool, i, r).replanned = r
         /\ NewStep(s, tool, i, r).attempts = 0
         /\ NewStep(s, tool, i, r).status \in {"PENDING", "SKIPPED"}
<1>1. 0 \in 0..MaxAttempts
  BY SwarmAssumption
<1> QED
  BY <1>1 DEF NewStep, StatusFor, Step

LEMMA PlanMade ==
  ASSUME NEW s \in Sessions, NEW q \in Selections
  PROVE  /\ PlanOf(s, q) \in Seq(Step)
         /\ \A i \in DOMAIN PlanOf(s, q) : /\ PlanOf(s, q)[i].id = i
                                            /\ PlanOf(s, q)[i].replanned = FALSE
                                            /\ PlanOf(s, q)[i].attempts = 0
<1> DEFINE plan == [i \in DOMAIN q |-> NewStep(s, q[i], i, FALSE)]
           last == NewStep(s, ChainCheck, Len(q) + 1, FALSE)
<1>1. q \in Seq(Tools) /\ Len(q) \in Nat /\ DOMAIN q = 1..Len(q)
  BY SwarmAssumption
<1>2. \A i \in DOMAIN q : q[i] \in Tools /\ i \in Nat \ {0}
  BY <1>1
<1>3. \A i \in DOMAIN q : plan[i] \in Step /\ plan[i].id = i /\ plan[i].replanned = FALSE
                          /\ plan[i].attempts = 0
  <2>1. ASSUME NEW i \in DOMAIN q
        PROVE  LET st == NewStep(s, q[i], i, FALSE)
               IN  st \in Step /\ st.id = i /\ st.replanned = FALSE /\ st.attempts = 0
    <3>1. q[i] \in Tools /\ i \in Nat \ {0} /\ FALSE \in BOOLEAN
      BY <1>2
    <3> QED
      BY <3>1, NewSteps
  <2>2. \A i \in DOMAIN q : plan[i] = NewStep(s, q[i], i, FALSE)
    OBVIOUS
  <2> QED
    BY <2>1, <2>2
<1>4. last \in Step /\ last.id = Len(q) + 1 /\ last.replanned = FALSE /\ last.attempts = 0
  <2>1. ChainCheck \in Tools /\ Len(q) + 1 \in Nat \ {0}
    BY <1>1, SwarmAssumption
  <2> QED
    BY <2>1, NewSteps
<1>5. DOMAIN plan = DOMAIN q
  OBVIOUS
<1>6. PlanOf(s, q) \in {plan, Append(plan, last)}
  BY DEF PlanOf
<1>7. \A i \in DOMAIN plan : plan[i] \in Step
  BY <1>3, <1>5
<1> HIDE DEF last
<1>8. plan \in [1..Len(q) -> Step]
  BY <1>1, <1>7
<1> HIDE DEF plan
<1>9. plan \in Seq(Step) /\ Len(plan) = Len(q)
  BY <1>1, <1>8
<1>10. Append(plan, last) \in Seq(Step) /\ DOMAIN Append(plan, last) = 1..(Len(q) + 1)
      /\ Append(plan, last)[Len(q) + 1] = last
      /\ \A i \in 1..Len(q) : Append(plan, last)[i] = plan[i]
  BY <1>1, <1>4, <1>9
<1> QED
  BY <1>1, <1>3, <1>4, <1>5, <1>6, <1>9, <1>10

LEMMA CreateKeeps ==
  ASSUME SwarmInv, NEW s \in Sessions, NEW q \in Selections, CreateSwarmTask(s, q)
  PROVE  SwarmInv'
<1> DEFINE new == NewTask(s, q)
           plan == PlanOf(s, q)
<1>1. PICK t \in TaskIds \ Created : tasks' = Kept([tasks EXCEPT ![t] = new], calls)
  BY DEF CreateSwarmTask
<1>2. new = [NoTask EXCEPT !.plan = plan, !.status = IF q = << >> THEN "BLOCKED" ELSE "PLANNED"]
  BY DEF NewTask
<1>3. plan \in Seq(Step)
      /\ \A i \in DOMAIN plan : plan[i].id = i /\ plan[i].replanned = FALSE /\ plan[i].attempts = 0
  BY PlanMade
<1>4. DOMAIN plan = 1..Len(plan) /\ Len(plan) \in Nat
  BY <1>3, PlanFacts
<1> HIDE DEF new, plan
<1>5. new \in Task /\ new.plan = plan /\ new.replans = 0 /\ new.status \in {"BLOCKED", "PLANNED"}
  BY <1>2, <1>3, NoTaskIs DEF Task
<1>6. Identified(plan)
  BY <1>3, <1>4 DEF Identified
<1>7. Limited(new)
  <2>1. ReplannedSteps(plan) = {}
    BY <1>3 DEF ReplannedSteps
  <2>2. Cardinality(ReplannedSteps(plan)) = 0
    BY <2>1, FS_EmptySet
  <2>3. MaxReplans \in Nat
    BY SwarmAssumption
  <2> QED
    BY <1>5, <2>2, <2>3 DEF Limited
<1>8. Ended(new)
  <2>1. ~ \E i \in DOMAIN plan : plan[i].attempts > 0
    BY <1>3
  <2> QED
    BY <1>5, <2>1 DEF Ended
<1>9. TaskOk(new)
  BY <1>5, <1>6, <1>7, <1>8 DEF TaskOk
<1>10. \A id : ~HasStep(tasks[t], id)
  <2>1. tasks[t].plan = << >>
    BY DEF SwarmInv, TaskOk, Created
  <2> QED
    BY <2>1 DEF HasStep
<1> DEFINE ts == [tasks EXCEPT ![t] = new]
<1>11. CallOk(calls[s], ts)
  <2>1. CallOk(calls[s], tasks)
    BY DEF SwarmInv
  <2>2. calls[s].step = NoStep
    BY DEF CreateSwarmTask, NoCall
  <2> QED
    BY <2>1, <2>2 DEF CallOk
<1>12. calls' = [calls EXCEPT ![s] = calls[s]] /\ calls' = calls
  BY DEF CreateSwarmTask, SwarmInv
<1> HIDE DEF ts
<1>13. tasks' = Kept(ts, calls')
  BY <1>1, <1>12 DEF ts
<1>14. ts = [tasks EXCEPT ![t] = new]
  BY DEF ts
<1> QED
  BY <1>9, <1>10, <1>11, <1>12, <1>13, <1>14, TaskReplaced

-----------------------------------------------------------------------------
(* A step begins, or is skipped. No step ran more often than all of them.    *)
LEMMA AttemptsCount ==
  ASSUME NEW task \in Task, NEW i \in DOMAIN task.plan
  PROVE  /\ task.plan[i].attempts \in Nat /\ Attempts(task) \in Nat
         /\ task.plan[i].attempts <= Attempts(task)
<1> DEFINE f == [j \in DOMAIN task.plan |-> task.plan[j].attempts]
           D == DOMAIN task.plan
<1>1. task.plan \in Seq(Step) /\ IsFiniteSet(D) /\ MaxAttempts \in Nat
  BY PlanFacts, SwarmAssumption DEF Task
<1>2. \A j \in D : f[j] \in Nat /\ f[j] = task.plan[j].attempts
  <2>1. \A j \in D : task.plan[j] \in Step
    BY <1>1
  <2> QED
    BY <1>1, <2>1 DEF Step
<1>3. Attempts(task) = SumOver(f, D)
  BY DEF Attempts, SumOver
<1> HIDE DEF f, D
<1>4. i \in D /\ \A j \in D : f[j] \in Int
  BY <1>2 DEF D
<1>5. SumOver(f, D) = f[i] + SumOver(f, D \ {i})
  BY <1>1, <1>4, SumRemove
<1>6. SumOver(f, D \ {i}) \in Nat
  <2>1. IsFiniteSet(D \ {i})
    BY <1>1, FS_RemoveElement
  <2> QED
    BY <1>2, <2>1, SumAtLeastZero
<1> QED
  BY <1>2, <1>3, <1>4, <1>5, <1>6

LEMMA BeginKeeps ==
  ASSUME SwarmInv, NEW s \in Sessions, NEW t \in TaskIds, NEW i \in DOMAIN tasks[t].plan,
         NEW all \in BOOLEAN, Begin(s, t, i, all)
  PROVE  SwarmInv'
<1> DEFINE task == tasks[t]
           plan == tasks[t].plan
<1>1. task \in Task /\ TaskOk(task) /\ tasks \in [TaskIds -> Task]
  BY DEF SwarmInv
<1>2. plan[i] \in Step /\ plan \in Seq(Step) /\ plan[i].attempts \in Nat
      /\ plan[i].id \in Nat
  <2>1. plan \in Seq(Step)
    BY <1>1 DEF Task
  <2>2. plan[i] \in Step
    BY <2>1
  <2>3. plan[i].attempts \in Nat
    BY <1>1, AttemptsCount
  <2> QED
    BY <2>1, <2>2, <2>3 DEF Step
<1>3. Identified(plan) /\ Limited(task)
  BY <1>1 DEF TaskOk
<1>4. CASE plan[i].tool \in Permitted[s]
  <2> DEFINE st == [[plan[i] EXCEPT !.status = "RUNNING"] EXCEPT !.attempts = @ + 1]
             new == [task EXCEPT !.plan = [plan EXCEPT ![i] = st]]
             ts == [tasks EXCEPT ![t] = new]
             c == [task |-> t, step |-> plan[i].id, all |-> all]
  <2>1. st \in Step /\ st.id = plan[i].id /\ st.replanned = plan[i].replanned
        /\ st.status = "RUNNING"
    <3> DEFINE one == [plan[i] EXCEPT !.status = "RUNNING"]
    <3>1. one \in Step /\ one.id = plan[i].id /\ one.replanned = plan[i].replanned
          /\ one.status = "RUNNING" /\ one.attempts = plan[i].attempts
      <4> DEFINE was == plan[i]
      <4>1. was \in Step
        BY <1>2
      <4> HIDE DEF was
      <4>2. /\ [was EXCEPT !.status = "RUNNING"] \in Step
            /\ [was EXCEPT !.status = "RUNNING"].id = was.id
            /\ [was EXCEPT !.status = "RUNNING"].replanned = was.replanned
            /\ [was EXCEPT !.status = "RUNNING"].status = "RUNNING"
            /\ [was EXCEPT !.status = "RUNNING"].attempts = was.attempts
        BY <4>1 DEF Step
      <4> QED
        BY <4>2 DEF was
    <3>2. st = [one EXCEPT !.attempts = one.attempts + 1]
      OBVIOUS
    <3>3. one.attempts + 1 \in 0..MaxAttempts
      <4>1. Attempts(task) < MaxAttempts
        BY <1>4 DEF Begin
      <4>2. plan[i].attempts <= Attempts(task)
        BY <1>1, AttemptsCount
      <4> HIDE DEF one
      <4> QED
        BY <1>2, <3>1, <4>1, <4>2, AttemptsCount, <1>1, SwarmAssumption
    <3> HIDE DEF one, st
    <3> QED
      BY <3>1, <3>2, <3>3 DEF Step
  <2>2. tasks' = [[tasks EXCEPT ![t].plan[i].status = "RUNNING"] EXCEPT ![t].plan[i].attempts = @ + 1]
        /\ calls' = [calls EXCEPT ![s] = c]
    BY <1>4 DEF Begin
  <2>3. tasks' = ts
    <3> DEFINE one == [plan[i] EXCEPT !.status = "RUNNING"]
               plan1 == [plan EXCEPT ![i] = one]
               task1 == [task EXCEPT !.plan = plan1]
               ts1 == [tasks EXCEPT ![t] = task1]
    <3>1. tasks' = [ts1 EXCEPT ![t] = [ts1[t] EXCEPT !.plan =
                     [ts1[t].plan EXCEPT ![i] = [ts1[t].plan[i] EXCEPT !.attempts =
                       ts1[t].plan[i].attempts + 1]]]]
      BY <2>2
    <3>2. plan1[i] = one /\ [plan1 EXCEPT ![i] = st] = [plan EXCEPT ![i] = st]
      OBVIOUS
    <3>3. st = [one EXCEPT !.attempts = one.attempts + 1]
      OBVIOUS
    <3> HIDE DEF one, st, plan1
    <3>4. task1.plan = plan1 /\ [task1 EXCEPT !.plan = [plan1 EXCEPT ![i] = st]] = new
      BY <1>1, <3>2 DEF Task
    <3> HIDE DEF task1, new
    <3>5. ts1[t] = task1 /\ [ts1 EXCEPT ![t] = new] = ts
      BY <1>1
    <3> HIDE DEF ts1, ts
    <3> QED
      BY <3>1, <3>2, <3>3, <3>4, <3>5
  <2> HIDE DEF st
  <2>4. [plan EXCEPT ![i] = st] \in Seq(Step) /\ i \in DOMAIN [plan EXCEPT ![i] = st]
        /\ [plan EXCEPT ![i] = st][i] = st
    BY <1>1, <1>2, <2>1, StepInPlan
  <2>5. new \in Task /\ new.plan = [plan EXCEPT ![i] = st] /\ new.replans = task.replans
        /\ new.status = task.status /\ new.verification = task.verification
    BY <1>1, <2>4 DEF Task
  <2> HIDE DEF new
  <2>6. Identified(new.plan) /\ Limited(new) /\ \A id : HasStep(task, id) => HasStep(new, id)
    BY <1>1, <1>3, <2>1, <2>5, StepChanged
  <2>7. Ended(new)
    <3>1. i \in StepsWith(new, "RUNNING")
      BY <2>1, <2>4, <2>5 DEF StepsWith
    <3> QED
      BY <3>1 DEF Ended, Settled
  <2>8. TaskOk(new)
    <3>1. new.status # "ABSENT"
      BY <1>1, <2>5 DEF TaskOk
    <3> QED
      BY <1>1, <2>5, <2>6, <2>7, <3>1 DEF TaskOk
  <2>9. CallOk(c, ts)
    <3>1. HasStep(task, plan[i].id)
      BY DEF HasStep
    <3>2. HasStep(ts[t], plan[i].id)
      BY <1>1, <2>6, <3>1
    <3> QED
      BY <1>2, <3>2 DEF CallOk, Call
  <2>10. ts = [tasks EXCEPT ![t] = new]
    OBVIOUS
  <2> HIDE DEF ts, c
  <2> QED
    BY <2>2, <2>3, <2>6, <2>8, <2>9, <2>10, TaskReplaced
<1>5. CASE plan[i].tool \notin Permitted[s]
  <2> DEFINE st == [plan[i] EXCEPT !.status = "SKIPPED"]
             new == [[task EXCEPT !.plan = [plan EXCEPT ![i] = st]] EXCEPT !.status = "BLOCKED"]
             ts == [tasks EXCEPT ![t] = new]
             c == IF all THEN [task |-> t, step |-> NoStep, all |-> TRUE] ELSE NoCall
  <2>1. st \in Step /\ st.id = plan[i].id /\ st.replanned = plan[i].replanned
    BY <1>2 DEF Step
  <2>2. tasks' = [[tasks EXCEPT ![t].plan[i].status = "SKIPPED"] EXCEPT ![t].status = "BLOCKED"]
        /\ calls' = [calls EXCEPT ![s] = c]
    BY <1>5 DEF Begin
  <2>3. tasks' = ts
    BY <1>1, <1>2, <2>2 DEF Task, Step
  <2> HIDE DEF st
  <2>4. [plan EXCEPT ![i] = st] \in Seq(Step)
    BY <1>1, <1>2, <2>1, StepInPlan
  <2>5. new \in Task /\ new.plan = [plan EXCEPT ![i] = st] /\ new.replans = task.replans
        /\ new.status = "BLOCKED"
    BY <1>1, <2>4 DEF Task
  <2> HIDE DEF new
  <2>6. Identified(new.plan) /\ Limited(new) /\ \A id : HasStep(task, id) => HasStep(new, id)
    BY <1>1, <1>3, <2>1, <2>5, StepChanged
  <2>7. TaskOk(new)
    BY <2>5, <2>6 DEF TaskOk, Ended
  <2>8. CallOk(c, ts)
    BY DEF CallOk, Call, NoCall, NoStep
  <2>9. ts = [tasks EXCEPT ![t] = new]
    OBVIOUS
  <2> HIDE DEF ts, c
  <2> QED
    BY <2>2, <2>3, <2>6, <2>7, <2>8, <2>9, TaskReplaced
<1> QED
  BY <1>4, <1>5

LEMMA RunStepKeeps ==
  ASSUME SwarmInv, NEW s \in Sessions, NEW t \in TaskIds, RunStep(s, t)
  PROVE  SwarmInv'
<1>1. PICK i \in DOMAIN tasks[t].plan : Begin(s, t, i, FALSE)
  BY DEF RunStep
<1> QED
  BY <1>1, BeginKeeps

LEMMA RunNextKeeps ==
  ASSUME SwarmInv, NEW s \in Sessions, RunNext(s)
  PROVE  SwarmInv'
<1> DEFINE t == calls[s].task
           pending == PendingSteps(tasks[t])
           first == FirstPending(tasks[t])
<1>1. t \in TaskIds /\ pending # {} /\ Begin(s, t, first, TRUE)
  BY DEF RunNext, Continues, SwarmInv, CallOk
<1>2. pending \subseteq Nat /\ pending \subseteq DOMAIN tasks[t].plan
  BY <1>1, PlanFacts DEF PendingSteps, SwarmInv, Task
<1>3. \E i \in pending : \A j \in pending : i <= j
  BY <1>1, <1>2, LeastOf
<1>4. first \in pending
  BY <1>3 DEF FirstPending
<1>5. first \in DOMAIN tasks[t].plan
  BY <1>2, <1>4
<1> HIDE DEF first, t
<1> QED
  BY <1>1, <1>5, BeginKeeps DEF t

-----------------------------------------------------------------------------
(* A tool answers                                                            *)
LEMMA FinalizedOk ==
  ASSUME NEW task \in Task, Identified(task.plan), Limited(task), task.status # "ABSENT",
         task.status = "VERIFIED" => task.verification # "PENDING"
  PROVE  TaskOk(Finalized(task)) /\ Finalized(task).plan = task.plan
<1>1. CASE PendingSteps(task) # {}
  <2>1. ~Settled(task)
    BY <1>1 DEF Settled, StepsWith, PendingSteps
  <2> QED
    BY <1>1, <2>1 DEF Finalized, TaskOk, Ended
<1>2. CASE PendingSteps(task) = {}
  <2> DEFINE v == Verdict(task)
             new == Finalized(task)
  <2>1. v \in {"VERIFIED", "FAILED"}
    BY DEF Verdict
  <2>2. new = [[task EXCEPT !.status = v]
                    EXCEPT !.verification = IF v = "VERIFIED" THEN "PASSED" ELSE "FAILED"]
    BY <1>2 DEF Finalized
  <2> HIDE DEF v, new
  <2>3. new \in Task /\ new.plan = task.plan /\ new.replans = task.replans
        /\ new.evidence = task.evidence /\ new.status = v /\ new.verification # "PENDING"
    BY <2>1, <2>2 DEF Task
  <2>4. Verdict(new) = v
    BY <2>3 DEF v, Verdict, StepsWith
  <2>5. Identified(new.plan) /\ Limited(new)
    BY <2>3 DEF Limited
  <2> QED
    BY <2>1, <2>3, <2>4, <2>5 DEF TaskOk, Ended, new
<1> QED
  BY <1>1, <1>2

LEMMA ReplannedOk ==
  ASSUME NEW s \in Sessions, NEW task \in Task, Identified(task.plan), Limited(task),
         task.status # "ABSENT", task.status = "VERIFIED" => task.verification # "PENDING",
         NEW i \in DOMAIN task.plan, MayReplan(task, task.plan[i])
  PROVE  /\ TaskOk(Replanned(s, task, i))
         /\ \A id : HasStep(task, id) => HasStep(Replanned(s, task, i), id)
<1> DEFINE plan == task.plan
           st == NewStep(s, Fallback[task.plan[i].tool], Len(task.plan) + 1, TRUE)
           grown == InsertAt(task.plan, i + 1, st)
           new == Replanned(s, task, i)
<1>1. plan \in Seq(Step) /\ Len(plan) \in Nat /\ Cardinality(ReplannedSteps(plan)) \in Nat
  <2>1. plan \in Seq(Step)
    BY DEF Task
  <2> QED
    BY <2>1, PlanFacts
<1>2. st \in Step /\ st.id = Len(plan) + 1 /\ st.replanned = TRUE
      /\ st.status \in {"PENDING", "SKIPPED"}
  <2>1. Fallback[task.plan[i].tool] \in Tools
    BY SwarmAssumption DEF MayReplan
  <2>2. Len(task.plan) + 1 \in Nat \ {0} /\ TRUE \in BOOLEAN
    BY <1>1
  <2> QED
    BY <2>1, <2>2, NewSteps
<1>3. new = [[task EXCEPT !.replans = @ + 1] EXCEPT !.plan = grown]
  BY DEF Replanned
<1> HIDE DEF st, new
<1>4. /\ grown \in Seq(Step) /\ Identified(grown)
      /\ Cardinality(ReplannedSteps(grown)) <= Cardinality(ReplannedSteps(plan)) + 1
      /\ \A id : (\E j \in DOMAIN plan : plan[j].id = id) => \E j \in DOMAIN grown : grown[j].id = id
      /\ i + 1 \in DOMAIN grown /\ grown[i + 1] = st
  <2>1. plan \in Seq(Step) /\ Identified(plan) /\ i \in DOMAIN plan /\ st.id = Len(plan) + 1
    BY <1>1, <1>2
  <2> HIDE DEF plan
  <2>2. grown = InsertAt(plan, i + 1, st)
    BY DEF plan
  <2> HIDE DEF grown
  <2>3. GrownBy(grown, plan, i, st)
    BY <1>2, <2>1, <2>2, PlanGrows
  <2> QED
    BY <2>3 DEF GrownBy
<1> HIDE DEF grown
<1>5. new \in Task /\ new.plan = grown /\ new.replans = task.replans + 1
      /\ new.status = task.status /\ new.verification = task.verification
  <2> DEFINE one == [task EXCEPT !.replans = task.replans + 1]
  <2>1. one \in Task /\ one.replans = task.replans + 1 /\ one.status = task.status
        /\ one.verification = task.verification
    <3>1. task.replans \in Nat
      BY DEF Task
    <3>2. task.replans + 1 \in Nat
      BY <3>1
    <3> QED
      BY <3>2 DEF Task
  <2>2. new = [one EXCEPT !.plan = grown]
    BY <1>3
  <2> HIDE DEF one
  <2> QED
    BY <1>4, <2>1, <2>2 DEF Task
<1>6. Limited(new)
  <2>1. MaxReplans \in Nat /\ task.replans \in Nat
    BY SwarmAssumption DEF Task
  <2>2. Cardinality(ReplannedSteps(grown)) \in Nat
    BY <1>4, PlanFacts
  <2>3. Cardinality(ReplannedSteps(plan)) <= task.replans /\ task.replans < MaxReplans
    BY DEF Limited, MayReplan
  <2> QED
    BY <1>1, <1>4, <1>5, <2>1, <2>2, <2>3 DEF Limited
<1>7. Ended(new)
  <2>1. CASE st.status = "PENDING"
    <3>1. i + 1 \in StepsWith(new, "PENDING")
      BY <1>4, <1>5, <2>1 DEF StepsWith
    <3> QED
      BY <3>1 DEF Ended, Settled
  <2>2. CASE st.status = "SKIPPED"
    <3>1. i + 1 \in StepsWith(new, "SKIPPED") /\ new.plan[i + 1].replanned
      BY <1>2, <1>4, <1>5, <2>2 DEF StepsWith
    <3> QED
      BY <3>1 DEF Ended, Stuck
  <2> QED
    BY <1>2, <2>1, <2>2
<1>8. TaskOk(new)
  BY <1>4, <1>5, <1>6, <1>7 DEF TaskOk
<1> QED
  BY <1>4, <1>5, <1>8 DEF HasStep, new

LEMMA AnsweredOk ==
  ASSUME NEW s \in Sessions, NEW task, TaskOk(task), NEW i \in DOMAIN task.plan,
         NEW ok \in BOOLEAN, NEW evidence \in BOOLEAN
  PROVE  /\ TaskOk(Answered(s, task, i, ok, evidence))
         /\ \A id : HasStep(task, id) => HasStep(Answered(s, task, i, ok, evidence), id)
<1> DEFINE believed == task.plan[i].tool \in Verifiers /\ ~task.plan[i].replanned
           passed == ok /\ (believed \/ evidence)
           result == IF passed THEN "DONE" ELSE "FAILED"
           st == [task.plan[i] EXCEPT !.status = result]
           after == [[task EXCEPT !.plan = [task.plan EXCEPT ![i] = st]]
                                  EXCEPT !.evidence = task.evidence \/ evidence]
<1>1. task \in Task /\ Identified(task.plan) /\ Limited(task)
      /\ task.plan \in Seq(Step) /\ task.plan[i] \in Step
  <2>1. task \in Task /\ Identified(task.plan) /\ Limited(task) /\ task.plan \in Seq(Step)
    BY DEF TaskOk, Task
  <2> QED
    BY <2>1
<1>2. Answered(s, task, i, ok, evidence) =
        IF ~passed /\ MayReplan(task, task.plan[i]) THEN Replanned(s, after, i) ELSE Finalized(after)
  <2>1. after = [[task EXCEPT !.plan[i].status = result]
                               EXCEPT !.evidence = task.evidence \/ evidence]
    OBVIOUS
  <2>2. [task EXCEPT !.plan[i].status = result].evidence = task.evidence
    BY <1>1 DEF Task
  <2> QED
    BY <2>1, <2>2 DEF Answered
<1>3. result \in {"DONE", "FAILED"}
  OBVIOUS
<1> HIDE DEF result, passed
<1>4. st \in Step /\ st.id = task.plan[i].id /\ st.replanned = task.plan[i].replanned
      /\ st.tool = task.plan[i].tool
  <2> DEFINE was == task.plan[i]
  <2>1. was \in Step
    BY <1>1
  <2> HIDE DEF was
  <2>2. /\ [was EXCEPT !.status = result] \in Step
        /\ [was EXCEPT !.status = result].id = was.id
        /\ [was EXCEPT !.status = result].replanned = was.replanned
        /\ [was EXCEPT !.status = result].tool = was.tool
    BY <1>3, <2>1 DEF Step
  <2> QED
    BY <2>2 DEF was
<1> HIDE DEF st
<1>5. [task.plan EXCEPT ![i] = st] \in Seq(Step)
      /\ [task.plan EXCEPT ![i] = st][i] = st /\ i \in DOMAIN [task.plan EXCEPT ![i] = st]
  BY <1>1, <1>4, StepInPlan
<1>6. after \in Task /\ after.plan = [task.plan EXCEPT ![i] = st] /\ after.replans = task.replans
      /\ after.status = task.status /\ after.verification = task.verification
  BY <1>1, <1>5 DEF Task
<1> HIDE DEF after
<1>7. Identified(after.plan) /\ Limited(after) /\ \A id : HasStep(task, id) => HasStep(after, id)
  BY <1>1, <1>4, <1>6, StepChanged
<1>8. after.status # "ABSENT" /\ (after.status = "VERIFIED" => after.verification # "PENDING")
  <2>1. task.plan # << >>
    BY <1>1
  <2> QED
    BY <1>6, <2>1 DEF TaskOk
<1>9. CASE ~passed /\ MayReplan(task, task.plan[i])
  <2>1. i \in DOMAIN after.plan /\ after.plan[i] = st
    BY <1>5, <1>6
  <2>2. MayReplan(after, after.plan[i])
    BY <1>4, <1>6, <1>9, <2>1 DEF MayReplan
  <2>3. /\ TaskOk(Replanned(s, after, i))
        /\ \A id : HasStep(after, id) => HasStep(Replanned(s, after, i), id)
    BY <1>6, <1>7, <1>8, <2>1, <2>2, ReplannedOk
  <2> QED
    BY <1>2, <1>7, <1>9, <2>3
<1>10. CASE ~(~passed /\ MayReplan(task, task.plan[i]))
  <2>1. TaskOk(Finalized(after)) /\ Finalized(after).plan = after.plan
    BY <1>6, <1>7, <1>8, FinalizedOk
  <2>2. \A id : HasStep(after, id) => HasStep(Finalized(after), id)
    BY <2>1 DEF HasStep
  <2> QED
    BY <1>2, <1>7, <1>10, <2>1, <2>2
<1> QED
  BY <1>9, <1>10

LEMMA ToolAnswersKeeps ==
  ASSUME SwarmInv, NEW s \in Sessions, ToolAnswers(s)
  PROVE  SwarmInv'
<1> DEFINE c == calls[s]
           t == c.task
           i == At(tasks[t], c.step)
           next == IF c.all THEN [c EXCEPT !.step = NoStep] ELSE NoCall
<1>1. c \in Call /\ t \in TaskIds /\ HasStep(tasks[t], c.step) /\ (c.all => c.task \in TaskIds)
  BY DEF ToolAnswers, SwarmInv, CallOk
<1>2. i \in DOMAIN tasks[t].plan
  BY <1>1 DEF HasStep, At
<1>3. calls' = [calls EXCEPT ![s] = next]
  BY DEF ToolAnswers
<1>4. PICK ok, evidence \in BOOLEAN :
        tasks' = Kept([tasks EXCEPT ![t] = Answered(s, tasks[t], i, ok, evidence)], calls')
  BY DEF ToolAnswers
<1> DEFINE new == Answered(s, tasks[t], i, ok, evidence)
           ts == [tasks EXCEPT ![t] = new]
<1>5. TaskOk(tasks[t])
  BY <1>1 DEF SwarmInv
<1> HIDE DEF i
<1>6. TaskOk(new) /\ \A id : HasStep(tasks[t], id) => HasStep(new, id)
  BY <1>2, <1>5, AnsweredOk
<1>7. CallOk(next, ts)
  <2>1. CASE c.all
    BY <1>1, <2>1 DEF CallOk, Call, NoStep
  <2>2. CASE ~c.all
    BY <2>2 DEF CallOk, Call, NoCall, NoStep
  <2> QED
    BY <2>1, <2>2
<1>8. ts = [tasks EXCEPT ![t] = new] /\ tasks' = Kept(ts, calls')
  BY <1>4
<1> HIDE DEF ts, new, next, t
<1> QED
  BY <1>1, <1>3, <1>6, <1>7, <1>8, TaskReplaced DEF t

-----------------------------------------------------------------------------
(* A run of all steps begins and ends                                        *)
LEMMA RunAllKeeps ==
  ASSUME SwarmInv, NEW s \in Sessions, NEW t \in TaskIds, RunAll(s, t)
  PROVE  SwarmInv'
<1> DEFINE c == [task |-> t, step |-> NoStep, all |-> TRUE]
<1>1. CallOk(c, tasks)
  BY DEF CallOk, Call, NoStep
<1>2. calls' = [calls EXCEPT ![s] = c] /\ tasks' = tasks /\ tasks = [tasks EXCEPT ![t] = tasks[t]]
  BY DEF RunAll, SwarmInv
<1>3. TaskOk(tasks[t]) /\ \A id : HasStep(tasks[t], id) => HasStep(tasks[t], id)
  BY DEF SwarmInv
<1> HIDE DEF c
<1> QED
  BY <1>1, <1>2, <1>3, TaskReplaced

LEMMA EndRunAllKeeps ==
  ASSUME SwarmInv, NEW s \in Sessions, EndRunAll(s)
  PROVE  SwarmInv'
<1> DEFINE t == calls[s].task
           task == tasks[t]
           open == /\ PendingSteps(tasks[t]) = {}
                   /\ tasks[t].status # "BLOCKED"
                   /\ tasks[t].verification = "PENDING"
           failed == [[task EXCEPT !.status = "FAILED"] EXCEPT !.verification = "FAILED"]
           new == IF open THEN failed ELSE task
           ts == [tasks EXCEPT ![t] = new]
<1>1. t \in TaskIds /\ calls' = [calls EXCEPT ![s] = NoCall]
  BY DEF EndRunAll, SwarmInv, CallOk
<1>2. task \in Task /\ TaskOk(task) /\ tasks \in [TaskIds -> Task]
  BY <1>1 DEF SwarmInv
<1>3. failed \in Task /\ failed.plan = task.plan /\ failed.replans = task.replans
      /\ failed.evidence = task.evidence /\ failed.status = "FAILED"
  BY <1>2 DEF Task
<1>4. tasks' = Kept(ts, calls')
  <2>1. CASE open
    <3>1. tasks' = Kept([[tasks EXCEPT ![t].status = "FAILED"] EXCEPT ![t].verification = "FAILED"], calls')
      BY <2>1 DEF EndRunAll
    <3>2. [[tasks EXCEPT ![t].status = "FAILED"] EXCEPT ![t].verification = "FAILED"] = ts
      BY <1>1, <1>2, <2>1
    <3> QED
      BY <3>1, <3>2
  <2>2. CASE ~open
    <3>1. tasks' = Kept(tasks, calls')
      BY <2>2 DEF EndRunAll
    <3>2. ts = tasks
      BY <1>1, <1>2, <2>2
    <3> QED
      BY <3>1, <3>2
  <2> QED
    BY <2>1, <2>2
<1> HIDE DEF failed
<1>5. ASSUME open PROVE TaskOk(failed)
  <2>1. Identified(failed.plan) /\ Limited(failed)
    BY <1>2, <1>3 DEF TaskOk, Limited
  <2>2. Verdict(failed) = Verdict(task)
    BY <1>3 DEF Verdict, StepsWith
  <2>3. Settled(failed) = Settled(task) /\ Stuck(failed) = Stuck(task)
    BY <1>3 DEF Settled, Stuck, StepsWith
  <2>4. Ended(failed)
    <3>1. SUFFICES ASSUME Settled(failed), ~Stuck(failed),
                          \E i \in DOMAIN failed.plan : failed.plan[i].attempts > 0
                   PROVE  Verdict(failed) = "FAILED"
      BY <1>3 DEF Ended
    <3>2. task.status \in {Verdict(task), "BLOCKED"}
      BY <1>2, <1>3, <2>3, <3>1 DEF TaskOk, Ended
    <3>3. task.status # "VERIFIED" /\ task.status # "BLOCKED"
      BY <1>2, <1>5 DEF TaskOk
    <3>4. Verdict(task) \in {"VERIFIED", "FAILED"}
      BY DEF Verdict
    <3> QED
      BY <2>2, <3>2, <3>3, <3>4
  <2> QED
    BY <1>3, <2>1, <2>4 DEF TaskOk
<1>6. TaskOk(new) /\ \A id : HasStep(task, id) => HasStep(new, id)
  BY <1>2, <1>3, <1>5 DEF HasStep
<1>7. CallOk(NoCall, ts)
  BY DEF CallOk, Call, NoCall, NoStep
<1>8. ts = [tasks EXCEPT ![t] = new]
  OBVIOUS
<1> HIDE DEF new, ts, t
<1> QED
  BY <1>1, <1>4, <1>6, <1>7, <1>8, TaskReplaced DEF t

-----------------------------------------------------------------------------
LEMMA SwarmInvHolds == SwarmSpec => []SwarmInv
<1>1. SwarmInit => SwarmInv
  <2> SUFFICES ASSUME SwarmInit PROVE SwarmInv
    OBVIOUS
  <2>1. NoTask \in Task /\ TaskOk(NoTask)
    BY NoTaskIs, EmptyPlan
  <2>2. \A s \in Sessions : CallOk(NoCall, tasks) /\ NoCall \in Call
    BY DEF CallOk, Call, NoCall, NoStep
  <2> QED
    BY <2>1, <2>2 DEF SwarmInit, SwarmInv
<1>2. SwarmInv /\ [SwarmNext]_swarmVars => SwarmInv'
  <2> SUFFICES ASSUME SwarmInv, [SwarmNext]_swarmVars PROVE SwarmInv'
    OBVIOUS
  <2>1. CASE UNCHANGED swarmVars
    <3>1. tasks' = tasks /\ calls' = calls
      BY <2>1 DEF swarmVars
    <3>2. \A t \in TaskIds : TaskOk(tasks'[t])
      BY <3>1 DEF SwarmInv
    <3>3. \A s \in Sessions : CallOk(calls'[s], tasks')
      BY <3>1 DEF SwarmInv
    <3>4. \A t \in TaskIds : TaskOk(tasks[t])'
      BY <3>2 DEF TaskOk, Identified, Limited, Ended, Settled, Stuck, StepsWith, Verdict,
                  ReplannedSteps
    <3>5. \A s \in Sessions : CallOk(calls[s], tasks)'
      BY <3>3 DEF CallOk, HasStep
    <3> QED
      BY <3>1, <3>4, <3>5 DEF SwarmInv
  <2>2. CASE SwarmNext
    <3>1. PICK s \in Sessions :
            \/ \E q \in Selections : CreateSwarmTask(s, q)
            \/ \E t \in TaskIds : RunStep(s, t) \/ RunAll(s, t)
            \/ ToolAnswers(s) \/ RunNext(s) \/ EndRunAll(s)
      BY <2>2 DEF SwarmNext
    <3> QED
      BY <3>1, CreateKeeps, RunStepKeeps, RunAllKeeps, ToolAnswersKeeps, RunNextKeeps,
         EndRunAllKeeps
  <2> QED
    BY <2>1, <2>2
<1> QED
  BY <1>1, <1>2, PTL DEF SwarmSpec

(* However the runs of a task's steps overlap, fail and are repeated, for     *)
(* any tools, permissions, limits and numbers of clients: the plan of a task  *)
(* in memory grows by no more than the limit, each of its steps keeps an id   *)
(* of its own, and when nothing of it is pending or running the task has the  *)
(* verdict its plan deserves, or was blocked, but for the exception named     *)
(* (createSwarmTask, runSwarmStep, runAllPending, finalizeTask).              *)
THEOREM PlansAreSettled == SwarmSpec => []PlansSettle
<1>1. SwarmInv => PlansSettle
  <2> SUFFICES ASSUME SwarmInv PROVE PlansSettle
    OBVIOUS
  <2>1. ASSUME NEW t \in Created
        PROVE  /\ Identified(tasks[t].plan) /\ Ended(tasks[t])
               /\ Cardinality({i \in DOMAIN tasks[t].plan : tasks[t].plan[i].replanned}) <= MaxReplans
    <3>1. t \in TaskIds /\ TaskOk(tasks[t]) /\ tasks[t] \in Task
      BY DEF Created, SwarmInv
    <3>2. Cardinality(ReplannedSteps(tasks[t].plan)) \in Nat /\ tasks[t].replans \in Nat
      BY <3>1, PlanFacts DEF Task
    <3>3. MaxReplans \in Nat
      BY SwarmAssumption
    <3>4. Cardinality(ReplannedSteps(tasks[t].plan)) <= MaxReplans
      BY <3>1, <3>2, <3>3 DEF TaskOk, Limited
    <3> QED
      BY <3>1, <3>4 DEF TaskOk, ReplannedSteps
  <2>2. ReplansBounded
    BY <2>1 DEF ReplansBounded, Identified
  <2>3. PlanEndsInVerdict
    BY <2>1 DEF PlanEndsInVerdict, Ended
  <2> QED
    BY <2>2, <2>3 DEF PlansSettle
<1> QED
  BY <1>1, SwarmInvHolds, PTL

-----------------------------------------------------------------------------
(***************************************************************************)
(* The report cache                                                        *)
(***************************************************************************)
(* What an entry was made of may be old by as much as its parts were, and    *)
(* grows older as it loses life; n is the version of the books, ages the age *)
(* of each write.                                                            *)
NotOlder(v, bound, n, ages) == \A w \in 1..n : w > v.report => ages[w] <= bound

AnyValue == [live: Nat, report: Nat, race: BOOLEAN]
AnyEntry == [value: AnyValue, left: Nat]

EntryOk(k, x, n, ages) ==
    /\ x \in AnyEntry /\ x.left <= Ttls[k]
    /\ Valid(x) => NotOlder(x.value, ReportAge(k) + 1 - x.left, n, ages)

(* Only a summary is made of a report that was in use when it was emptied.   *)
Since(v, f) == v.live >= f /\ v.report >= f

MapOk(map, n, ages, f) ==
    /\ map = [k \in Keys |-> map[k]]
    /\ \A k \in Keys : EntryOk(k, map[k], n, ages)
    /\ \A k \in Keys \ {"summary"} : Valid(map[k]) => Since(map[k].value, f)
    /\ Valid(map["summary"]) => Covers(map["summary"].value, f)

Sets(c)        == c.cmd = "set"
Invalidates(c) == c.cmd \in {"keys", "del"}

AnyCommand == [cmd: {"get", "set", "keys", "del"}, reader: Readers \union {"none"},
               value: AnyValue, version: Nat, waited: Nat]

(* A summary on its way to Redis covers what is done, and what is under way  *)
(* before it.                                                                *)
SetOk(c, n, ages, f) ==
    Sets(c) => NotOlder(c.value, Ttls["report"] - 1 + c.waited, n, ages) /\ Covers(c.value, f)

Behind(p, i) ==
    Sets(p[i]) => \A j \in 1..(i - 1) : Invalidates(p[j]) => Covers(p[i].value, p[j].version)

PipeOk(p, n, ages, f) ==
    /\ p \in Seq(AnyCommand)
    /\ \A i \in 1..Len(p) : /\ p[i].waited <= Latency /\ p[i].version <= n
                            /\ SetOk(p[i], n, ages, f)
                            /\ Behind(p, i)

Counts ==
    /\ version \in 0..MaxWrites
    /\ age \in [1..MaxWrites -> Nat] /\ \A w \in 1..MaxWrites : w > version => age[w] = 0
    /\ flushed = [x \in {"local", "remote"} |-> flushed[x]]
    /\ flushed["local"] \in 0..version /\ flushed["remote"] \in 0..flushed["local"]

CacheInv ==
    /\ Counts
    /\ MapOk(local, version, age, flushed["local"])
    /\ EntryOk("summary", remote, version, age)
    /\ Valid(remote) => Covers(remote.value, flushed["remote"])
    /\ PipeOk(pipe, version, age, flushed["local"])
    /\ ~connected => pipe = << >>

-----------------------------------------------------------------------------
LEMMA Lives ==
  /\ Latency \in Nat \ {0} /\ MaxWrites \in Nat
  /\ \A k \in Keys : Ttls[k] \in Nat \ {0} /\ ReportAge(k) \in Nat
  /\ ReportAge("report") = Ttls["report"] - 1
  /\ ReportAge("snapshot") = Ttls["snapshot"] - 1 + (Ttls["report"] - 1)
  /\ ReportAge("context") = Ttls["context"] - 1 + (Ttls["snapshot"] - 1) + (Ttls["report"] - 1)
  /\ ReportAge("summary") = Ttls["summary"] - 1 + Latency + (Ttls["report"] - 1)
<1>1. Latency \in Nat \ {0} /\ MaxWrites \in Nat /\ \A k \in Keys : Ttls[k] \in Nat \ {0}
  BY CacheAssumption
<1>2. /\ Ttls["report"] \in Nat \ {0} /\ Ttls["snapshot"] \in Nat \ {0}
      /\ Ttls["context"] \in Nat \ {0} /\ Ttls["summary"] \in Nat \ {0}
  BY <1>1 DEF Keys
<1>3. /\ ReportAge("report") = Ttls["report"] - 1
      /\ ReportAge("snapshot") = Ttls["snapshot"] - 1 + (Ttls["report"] - 1)
      /\ ReportAge("context") = Ttls["context"] - 1 + (Ttls["snapshot"] - 1) + (Ttls["report"] - 1)
      /\ ReportAge("summary") = Ttls["summary"] - 1 + Latency + (Ttls["report"] - 1)
  BY <1>1, <1>2 DEF ReportAge
<1>4. \A k \in Keys : ReportAge(k) \in Nat
  BY <1>1, <1>2, <1>3 DEF Keys
<1> QED
  BY <1>1, <1>3, <1>4

LEMMA NoneIs == None \in AnyEntry /\ ~Valid(None) /\ None.left = 0 /\ None.value \in AnyValue
BY DEF None, AnyEntry, AnyValue, Valid

LEMMA NoneOk == ASSUME NEW k \in Keys, NEW n, NEW ages PROVE EntryOk(k, None, n, ages)
BY NoneIs, Lives DEF EntryOk

LEMMA EmptyMap ==
  ASSUME NEW n, NEW ages, NEW f
  PROVE  MapOk([k \in Keys |-> None], n, ages, f)
BY NoneOk, NoneIs DEF MapOk, Keys

(* A tick makes an entry older and takes from its life                       *)
LEMMA EntryAges ==
  ASSUME NEW k \in Keys, NEW x, NEW n \in Nat, NEW ages, NEW older, EntryOk(k, x, n, ages),
         \A w \in 1..n : ages[w] \in Nat /\ older[w] \in Nat /\ older[w] <= ages[w] + 1
  PROVE  /\ EntryOk(k, Less(x), n, older)
         /\ Valid(Less(x)) => Valid(x) /\ Less(x).value = x.value
<1>1. x \in AnyEntry /\ x.left \in Nat /\ x.value \in AnyValue
  BY DEF EntryOk, AnyEntry
<1>2. CASE x.left <= 1
  BY <1>2, NoneOk, NoneIs DEF Less
<1>3. CASE x.left > 1
  <2>1. Less(x) = [x EXCEPT !.left = x.left - 1]
    BY <1>1, <1>3 DEF Less
  <2>2. Less(x) \in AnyEntry /\ Less(x).left = x.left - 1 /\ Less(x).value = x.value
    <3>1. x.left - 1 \in Nat
      BY <1>1, <1>3
    <3> QED
      BY <1>1, <2>1, <3>1 DEF AnyEntry
  <2>3. Valid(x)
    BY <1>1, <1>3 DEF Valid
  <2>4. NotOlder(x.value, ReportAge(k) + 1 - Less(x).left, n, older)
    <3>1. NotOlder(x.value, ReportAge(k) + 1 - x.left, n, ages)
      BY <2>3 DEF EntryOk
    <3>2. ReportAge(k) \in Nat
      BY Lives
    <3> QED
      BY <1>1, <2>2, <3>1, <3>2 DEF NotOlder
  <2>5. Less(x).left <= Ttls[k]
    <3>1. Ttls[k] \in Nat /\ x.left <= Ttls[k]
      BY Lives DEF EntryOk
    <3> QED
      BY <1>1, <2>2, <3>1
  <2> QED
    BY <2>2, <2>3, <2>4, <2>5 DEF EntryOk
<1> QED
  BY <1>1, <1>2, <1>3

(* A write of now is not old                                                 *)
LEMMA EntryMisses ==
  ASSUME NEW k \in Keys, NEW x, NEW n \in Nat, NEW ages, EntryOk(k, x, n, ages), ages[n + 1] = 0
  PROVE  EntryOk(k, x, n + 1, ages)
<1>1. x.left \in Nat /\ x.left <= Ttls[k] /\ Ttls[k] \in Nat /\ ReportAge(k) \in Nat
  BY Lives DEF EntryOk, AnyEntry
<1>2. ReportAge(k) >= Ttls[k] - 1
  <2>1. \A j \in Keys : Ttls[j] \in Nat \ {0}
    BY Lives
  <2>2. /\ Ttls["report"] \in Nat \ {0} /\ Ttls["snapshot"] \in Nat \ {0}
        /\ Ttls["context"] \in Nat \ {0} /\ Ttls["summary"] \in Nat \ {0}
        /\ Latency \in Nat
    BY <2>1, Lives DEF Keys
  <2> QED
    BY <2>2, Lives DEF Keys
<1>3. ASSUME NEW w \in 1..(n + 1), Valid(x), w > x.value.report
      PROVE  ages[w] <= ReportAge(k) + 1 - x.left
  <2>1. CASE w = n + 1
    BY <1>1, <1>2, <2>1
  <2>2. CASE w \in 1..n
    BY <1>3, <2>2 DEF EntryOk, NotOlder
  <2> QED
    BY <2>1, <2>2
<1> QED
  BY <1>3 DEF EntryOk, NotOlder

-----------------------------------------------------------------------------
(* What is read is made of entries that are valid                            *)
LEMMA MadeAnew ==
  ASSUME NEW k \in Keys, NEW v \in AnyValue, NEW n, NEW ages,
         NotOlder(v, ReportAge(k) + 1 - Ttls[k], n, ages)
  PROVE  /\ EntryOk(k, EntryFor(k, v), n, ages)
         /\ Valid(EntryFor(k, v)) /\ EntryFor(k, v).value = v
<1>1. Ttls[k] \in Nat \ {0}
  BY Lives
<1> QED
  BY <1>1 DEF EntryOk, EntryFor, AnyEntry, Valid

LEMMA KeyRead ==
  ASSUME NEW n, NEW ages, NEW f, NEW map, MapOk(map, n, ages, f), NEW k \in Keys \ {"summary"},
         NEW v \in AnyValue, NotOlder(v, ReportAge(k) + 1 - Ttls[k], n, ages), Since(v, f)
  PROVE  MapOk([map EXCEPT ![k] = EntryFor(k, v)], n, ages, f)
<1> DEFINE new == [map EXCEPT ![k] = EntryFor(k, v)]
           x == EntryFor(k, v)
<1>1. EntryOk(k, x, n, ages) /\ x.value = v
  BY MadeAnew
<1> HIDE DEF x
<1>2. new = [j \in Keys |-> new[j]] /\ new[k] = x /\ \A j \in Keys : j # k => new[j] = map[j]
  BY DEF MapOk, x
<1> HIDE DEF new
<1>3. "summary" \in Keys /\ k # "summary"
  BY DEF Keys
<1>4. new["summary"] = map["summary"]
  BY <1>2, <1>3
<1>5. \A j \in Keys : EntryOk(j, new[j], n, ages)
  BY <1>1, <1>2 DEF MapOk
<1>6. \A j \in Keys \ {"summary"} : Valid(new[j]) => Since(new[j].value, f)
  BY <1>1, <1>2 DEF MapOk
<1>7. MapOk(new, n, ages, f)
  BY <1>2, <1>4, <1>5, <1>6 DEF MapOk
<1> QED
  BY <1>7 DEF new, x

(* A value made now of a report.                                             *)
LEMMA MadeNow ==
  ASSUME Counts, NEW r \in Nat
  PROVE  Derived(r) \in AnyValue /\ Derived(r).live = version /\ Derived(r).report = r
         /\ Derived(r).race = Invalidating
BY DEF Derived, AnyValue, Counts, Invalidating

LEMMA CountsAre ==
  ASSUME Counts
  PROVE  /\ version \in Nat /\ MaxWrites \in Nat /\ version <= MaxWrites
         /\ \A w \in 1..MaxWrites : age[w] \in Nat
         /\ \A w \in 1..version : w \in 1..MaxWrites /\ age[w] \in Nat
<1>1. MaxWrites \in Nat
  BY Lives
<1>2. version \in 0..MaxWrites /\ age \in [1..MaxWrites -> Nat]
  BY DEF Counts
<1>3. \A w \in 1..version : w \in 1..MaxWrites
  BY <1>1, <1>2
<1> QED
  BY <1>1, <1>2, <1>3

LEMMA ReportRead ==
  ASSUME Counts, NEW f \in 0..version, NEW map, MapOk(map, version, age, f)
  PROVE  MapOk(WithReport(map), version, age, f) /\ Valid(WithReport(map)["report"])
<1>1. CASE Valid(map["report"])
  BY <1>1 DEF WithReport
<1>2. CASE ~Valid(map["report"])
  <2> DEFINE v == Derived(version)
  <2>1. version \in Nat /\ f \in Nat /\ f <= version
    BY DEF Counts
  <2>2. v \in AnyValue /\ v.live = version /\ v.report = version
    BY <2>1, MadeNow
  <2>3. "report" \in Keys \ {"summary"}
    BY DEF Keys
  <2>4. WithReport(map) = [map EXCEPT !["report"] = EntryFor("report", v)]
    BY <1>2 DEF WithReport
  <2> HIDE DEF v
  <2>5. NotOlder(v, ReportAge("report") + 1 - Ttls["report"], version, age)
    BY <2>1, <2>2 DEF NotOlder
  <2>6. Since(v, f)
    BY <2>1, <2>2 DEF Since
  <2>7. MapOk([map EXCEPT !["report"] = EntryFor("report", v)], version, age, f)
    BY <2>2, <2>3, <2>5, <2>6, KeyRead
  <2>8. WithReport(map)["report"] = EntryFor("report", v) /\ Valid(EntryFor("report", v))
    BY <2>2, <2>3, <2>4, <2>5, MadeAnew DEF MapOk
  <2> QED
    BY <2>4, <2>7, <2>8
<1> QED
  BY <1>1, <1>2

(* What a valid entry says of the age of its report.                         *)
LEMMA KnownEntry ==
  ASSUME NEW n, NEW ages, NEW f, NEW map, MapOk(map, n, ages, f), NEW k \in Keys, Valid(map[k]),
         \A w \in 1..n : ages[w] \in Nat
  PROVE  /\ map[k].value \in AnyValue /\ NotOlder(map[k].value, ReportAge(k), n, ages)
         /\ k # "summary" => Since(map[k].value, f)
<1>1. EntryOk(k, map[k], n, ages) /\ map[k] \in AnyEntry /\ map[k].left \in Nat
      /\ map[k].value \in AnyValue /\ map[k].left >= 1 /\ ReportAge(k) \in Nat
  BY Lives DEF MapOk, EntryOk, AnyEntry, Valid
<1>2. NotOlder(map[k].value, ReportAge(k) + 1 - map[k].left, n, ages)
  BY <1>1 DEF EntryOk
<1>3. NotOlder(map[k].value, ReportAge(k), n, ages)
  BY <1>1, <1>2 DEF NotOlder
<1> QED
  BY <1>1, <1>3 DEF MapOk

LEMMA SnapshotRead ==
  ASSUME Counts, NEW f \in 0..version, NEW map, MapOk(map, version, age, f)
  PROVE  MapOk(WithSnapshot(map), version, age, f) /\ Valid(WithSnapshot(map)["snapshot"])
         /\ (Valid(map["report"]) => Valid(WithSnapshot(map)["report"]))
<1>1. CASE Valid(map["snapshot"])
  BY <1>1 DEF WithSnapshot
<1>2. CASE ~Valid(map["snapshot"])
  <2> DEFINE m == WithReport(map)
             v == m["report"].value
  <2>1. MapOk(m, version, age, f) /\ Valid(m["report"])
    BY ReportRead
  <2>2. WithSnapshot(map) = [m EXCEPT !["snapshot"] = EntryFor("snapshot", v)]
    BY <1>2 DEF WithSnapshot
  <2>3. "report" \in Keys /\ "snapshot" \in Keys \ {"summary"} /\ "report" # "summary"
    BY DEF Keys
  <2>4. \A w \in 1..version : age[w] \in Nat
    BY CountsAre
  <2> HIDE DEF m
  <2>5. v \in AnyValue /\ NotOlder(v, ReportAge("report"), version, age) /\ Since(v, f)
    BY <2>1, <2>3, <2>4, KnownEntry
  <2>6. ReportAge("snapshot") + 1 - Ttls["snapshot"] = ReportAge("report")
    <3>1. Ttls["snapshot"] \in Nat /\ Ttls["report"] \in Nat
      BY <2>3, Lives
    <3> QED
      BY <3>1, Lives
  <2> HIDE DEF v
  <2>7. MapOk([m EXCEPT !["snapshot"] = EntryFor("snapshot", v)], version, age, f)
    BY <2>1, <2>3, <2>5, <2>6, KeyRead
  <2>8. /\ WithSnapshot(map)["snapshot"] = EntryFor("snapshot", v) /\ Valid(EntryFor("snapshot", v))
        /\ WithSnapshot(map)["report"] = m["report"]
    BY <2>1, <2>2, <2>3, <2>5, <2>6, MadeAnew DEF MapOk
  <2> QED
    BY <2>1, <2>2, <2>7, <2>8
<1> QED
  BY <1>1, <1>2

LEMMA ContextRead ==
  ASSUME Counts, NEW f \in 0..version, NEW map, MapOk(map, version, age, f)
  PROVE  MapOk(WithContext(map), version, age, f)
<1>1. CASE Valid(map["context"])
  BY <1>1 DEF WithContext
<1>2. CASE ~Valid(map["context"])
  <2> DEFINE m == WithSnapshot(WithReport(map))
             r == m["report"].value
             s == m["snapshot"].value
             v == Derived(OldestOf(r, s))
  <2>1. MapOk(m, version, age, f) /\ Valid(m["report"]) /\ Valid(m["snapshot"])
    BY ReportRead, SnapshotRead
  <2>2. WithContext(map) = [m EXCEPT !["context"] = EntryFor("context", v)]
    BY <1>2 DEF WithContext
  <2>3. "report" \in Keys /\ "snapshot" \in Keys /\ "context" \in Keys \ {"summary"}
        /\ "report" # "summary" /\ "snapshot" # "summary"
    BY DEF Keys
  <2>4. (\A w \in 1..version : age[w] \in Nat) /\ version \in Nat
    BY CountsAre
  <2> HIDE DEF m
  <2>5. r \in AnyValue /\ NotOlder(r, ReportAge("report"), version, age) /\ Since(r, f)
    BY <2>1, <2>3, <2>4, KnownEntry
  <2>6. s \in AnyValue /\ NotOlder(s, ReportAge("snapshot"), version, age) /\ Since(s, f)
    BY <2>1, <2>3, <2>4, KnownEntry
  <2> DEFINE oldest == OldestOf(r, s)
  <2>7. oldest \in {r.report, s.report} /\ oldest \in Nat
    BY <2>5, <2>6 DEF OldestOf, AnyValue
  <2> HIDE DEF oldest, r, s
  <2>8. Derived(oldest) \in AnyValue /\ Derived(oldest).live = version
        /\ Derived(oldest).report = oldest
    BY <2>7, MadeNow
  <2>9. v = Derived(oldest)
    BY DEF oldest
  <2> HIDE DEF v
  <2>10. NotOlder(v, ReportAge("snapshot"), version, age)
    <3>1. ReportAge("report") <= ReportAge("snapshot") /\ ReportAge("report") \in Nat
          /\ ReportAge("snapshot") \in Nat
      <4>1. Ttls["snapshot"] \in Nat \ {0} /\ Ttls["report"] \in Nat \ {0}
        BY <2>3, Lives
      <4>2. ReportAge("report") = Ttls["report"] - 1
            /\ ReportAge("snapshot") = Ttls["snapshot"] - 1 + (Ttls["report"] - 1)
        BY Lives
      <4> QED
        BY <4>1, <4>2
    <3>2. SUFFICES ASSUME NEW w \in 1..version, w > oldest PROVE age[w] <= ReportAge("snapshot")
      BY <2>8, <2>9 DEF NotOlder
    <3>3. CASE oldest = r.report
      BY <2>4, <2>5, <3>1, <3>2, <3>3 DEF NotOlder
    <3>4. CASE oldest = s.report
      BY <2>6, <3>2, <3>4 DEF NotOlder
    <3> QED
      BY <2>7, <3>3, <3>4
  <2>11. Since(v, f)
    BY <2>4, <2>5, <2>6, <2>7, <2>8, <2>9 DEF Since
  <2>12. ReportAge("context") + 1 - Ttls["context"] = ReportAge("snapshot")
    <3>1. Ttls["snapshot"] \in Nat /\ Ttls["report"] \in Nat /\ Ttls["context"] \in Nat
      BY <2>3, Lives
    <3> QED
      BY <3>1, Lives
  <2>13. MapOk([m EXCEPT !["context"] = EntryFor("context", v)], version, age, f)
    BY <2>1, <2>3, <2>8, <2>9, <2>10, <2>11, <2>12, KeyRead
  <2> QED
    BY <2>2, <2>13
<1> QED
  BY <1>1, <1>2

LEMMA ReadKeeps ==
  ASSUME CacheInv, NEW k \in Keys \ {"summary"}, ReadSync(k)
  PROVE  CacheInv'
<1>1. flushed["local"] \in 0..version
  BY DEF CacheInv, Counts
<1>2. MapOk(WithKey(k), version, age, flushed["local"])
  BY <1>1, ReportRead, SnapshotRead, ContextRead DEF CacheInv, WithKey, Keys
<1> QED
  BY <1>2 DEF ReadSync, CacheInv, Counts, MapOk

-----------------------------------------------------------------------------
(* The summary, and the commands to Redis                                    *)
LEMMA SummaryMade ==
  ASSUME Counts, NEW f \in 0..version, MapOk(local, version, age, f)
  PROVE  /\ Summary \in AnyValue /\ NotOlder(Summary, Ttls["report"] - 1, version, age)
         /\ Summary.live = version /\ Covers(Summary, f)
         /\ Summary.race = Invalidating
<1> DEFINE r == WithReport(local)["report"].value
<1>1. "report" \in Keys /\ "report" # "summary"
  BY DEF Keys
<1>2. \A w \in 1..version : age[w] \in Nat
  BY CountsAre
<1>3. MapOk(WithReport(local), version, age, f) /\ Valid(WithReport(local)["report"])
  BY ReportRead
<1>4. r \in AnyValue /\ NotOlder(r, ReportAge("report"), version, age) /\ Since(r, f)
  BY <1>1, <1>2, <1>3, KnownEntry
<1>5. Summary = Derived(r.report)
  BY DEF Summary
<1> HIDE DEF r
<1>6. r.report \in Nat
  BY <1>4 DEF AnyValue
<1>7. /\ Summary \in AnyValue /\ Summary.live = version /\ Summary.report = r.report
      /\ Summary.race = Invalidating
  BY <1>5, <1>6, MadeNow
<1>8. NotOlder(Summary, Ttls["report"] - 1, version, age)
  <2>1. ReportAge("report") = Ttls["report"] - 1
    BY Lives
  <2> QED
    BY <1>4, <1>7, <2>1 DEF NotOlder
<1>9. Covers(Summary, f)
  BY <1>4, <1>7 DEF Covers, Since, Counts
<1> QED
  BY <1>7, <1>8, <1>9

LEMMA SummaryFits ==
  ASSUME NEW n, NEW ages, NEW v \in AnyValue, NEW d \in 0..Latency,
         NotOlder(v, Ttls["report"] - 1 + d, n, ages), \A w \in 1..n : ages[w] \in Nat
  PROVE  EntryOk("summary", EntryFor("summary", v), n, ages)
         /\ EntryFor("summary", v).value = v
<1>1. "summary" \in Keys /\ "report" \in Keys
  BY DEF Keys
<1>2. Ttls["summary"] \in Nat /\ Ttls["report"] \in Nat /\ Latency \in Nat
  BY <1>1, Lives
<1>3. ReportAge("summary") = Ttls["summary"] - 1 + Latency + (Ttls["report"] - 1)
  BY Lives
<1>4. NotOlder(v, ReportAge("summary") + 1 - Ttls["summary"], n, ages)
  BY <1>2, <1>3 DEF NotOlder
<1> QED
  BY <1>1, <1>4, MadeAnew

LEMMA SummaryKept ==
  ASSUME NEW n, NEW ages, NEW f, NEW map, MapOk(map, n, ages, f), NEW v \in AnyValue,
         EntryOk("summary", EntryFor("summary", v), n, ages), Covers(v, f)
  PROVE  MapOk([map EXCEPT !["summary"] = EntryFor("summary", v)], n, ages, f)
<1> DEFINE new == [map EXCEPT !["summary"] = EntryFor("summary", v)]
           x == EntryFor("summary", v)
<1>1. "summary" \in Keys /\ x.value = v
  BY DEF Keys, EntryFor
<1> HIDE DEF x
<1>2. new = [j \in Keys |-> new[j]] /\ new["summary"] = x
      /\ \A j \in Keys : j # "summary" => new[j] = map[j]
  BY <1>1 DEF MapOk, x
<1> HIDE DEF new
<1>3. EntryOk("summary", x, n, ages)
  BY DEF x
<1>4. \A j \in Keys : EntryOk(j, new[j], n, ages)
  BY <1>2, <1>3 DEF MapOk
<1>5. \A j \in Keys \ {"summary"} : Valid(new[j]) => Since(new[j].value, f)
  BY <1>2 DEF MapOk
<1>6. MapOk(new, n, ages, f)
  BY <1>1, <1>2, <1>4, <1>5 DEF MapOk
<1> QED
  BY <1>6 DEF new, x

LEMMA PipeElements ==
  ASSUME NEW p \in Seq(AnyCommand)
  PROVE  /\ Len(p) \in Nat /\ DOMAIN p = 1..Len(p)
         /\ \A i \in 1..Len(p) : /\ p[i] \in AnyCommand /\ p[i].value \in AnyValue
                                 /\ p[i].waited \in Nat /\ p[i].version \in Nat
<1>1. Len(p) \in Nat /\ DOMAIN p = 1..Len(p)
  OBVIOUS
<1>2. \A i \in 1..Len(p) : p[i] \in AnyCommand
  OBVIOUS
<1> QED
  BY <1>1, <1>2 DEF AnyCommand

LEMMA PipeSent ==
  ASSUME NEW n, NEW ages, NEW f, NEW p, PipeOk(p, n, ages, f), NEW c \in AnyCommand,
         c.waited <= Latency, c.version <= n, SetOk(c, n, ages, f),
         Sets(c) => \A j \in 1..Len(p) : Invalidates(p[j]) => Covers(c.value, p[j].version)
  PROVE  PipeOk(Append(p, c), n, ages, f)
<1> DEFINE q == Append(p, c)
<1>1. p \in Seq(AnyCommand) /\ Len(p) \in Nat
  BY DEF PipeOk
<1>2. /\ q \in Seq(AnyCommand) /\ Len(q) = Len(p) + 1 /\ q[Len(p) + 1] = c
      /\ \A i \in 1..Len(p) : q[i] = p[i]
  BY <1>1
<1> HIDE DEF q
<1>3. ASSUME NEW i \in 1..Len(q)
      PROVE  q[i].waited <= Latency /\ q[i].version <= n /\ SetOk(q[i], n, ages, f) /\ Behind(q, i)
  <2>1. CASE i = Len(p) + 1
    <3>1. Behind(q, i)
      <4>1. \A j \in 1..(i - 1) : j \in 1..Len(p)
        BY <1>1, <2>1
      <4> QED
        BY <1>2, <2>1, <4>1 DEF Behind
    <3> QED
      BY <1>2, <2>1, <3>1
  <2>2. CASE i \in 1..Len(p)
    <3>1. \A j \in 1..(i - 1) : j \in 1..Len(p)
      BY <1>1, <2>2
    <3>2. Behind(p, i)
      BY <2>2 DEF PipeOk
    <3>3. Behind(q, i)
      BY <1>2, <2>2, <3>1, <3>2 DEF Behind
    <3> QED
      BY <1>2, <2>2, <3>3 DEF PipeOk
  <2> QED
    BY <1>1, <1>2, <2>1, <2>2
<1> QED
  BY <1>2, <1>3 DEF PipeOk, q

(* What was behind the first command covers what it invalidates              *)
LEMMA PipeGoesOn ==
  ASSUME NEW n, NEW ages, NEW f, NEW p, PipeOk(p, n, ages, f), p # << >>
  PROVE  /\ PipeOk(Tail(p), n, ages, f)
         /\ Head(p) = p[1] /\ 1 \in 1..Len(p) /\ Head(p) \in AnyCommand
         /\ \A i \in 1..Len(Tail(p)) : Tail(p)[i] = p[i + 1] /\ i + 1 \in 1..Len(p)
         /\ Invalidates(Head(p)) => \A i \in 1..Len(Tail(p)) :
               Sets(Tail(p)[i]) => Covers(Tail(p)[i].value, Head(p).version)
<1> DEFINE q == Tail(p)
<1>1. p \in Seq(AnyCommand) /\ Len(p) \in Nat /\ Len(p) >= 1
  BY DEF PipeOk
<1>2. /\ q \in Seq(AnyCommand) /\ Len(q) = Len(p) - 1 /\ Head(p) = p[1]
      /\ \A i \in 1..Len(q) : q[i] = p[i + 1]
  BY <1>1
<1> HIDE DEF q
<1>3. \A i \in 1..Len(q) : i + 1 \in 1..Len(p)
  BY <1>1, <1>2
<1>4. 1 \in 1..Len(p) /\ p[1] \in AnyCommand
  BY <1>1
<1>5. ASSUME NEW i \in 1..Len(q)
      PROVE  q[i].waited <= Latency /\ q[i].version <= n /\ SetOk(q[i], n, ages, f) /\ Behind(q, i)
             /\ (Invalidates(p[1]) /\ Sets(q[i]) => Covers(q[i].value, p[1].version))
  <2>1. q[i] = p[i + 1] /\ i + 1 \in 1..Len(p)
    BY <1>2, <1>3
  <2>2. \A j \in 1..(i - 1) : j \in 1..Len(q) /\ j + 1 \in 1..((i + 1) - 1)
    BY <1>1, <1>2
  <2>3. Behind(p, i + 1)
    BY <2>1 DEF PipeOk
  <2>4. 1 \in 1..((i + 1) - 1)
    BY <1>1, <1>2
  <2>5. \A j \in 1..(i - 1) : q[j] = p[j + 1]
    BY <1>2, <2>2
  <2>6. Behind(q, i)
    BY <2>1, <2>2, <2>3, <2>5 DEF Behind
  <2>7. Invalidates(p[1]) /\ Sets(q[i]) => Covers(q[i].value, p[1].version)
    BY <2>1, <2>3, <2>4 DEF Behind
  <2> QED
    BY <2>1, <2>6, <2>7 DEF PipeOk
<1>6. PipeOk(q, n, ages, f)
  BY <1>2, <1>5 DEF PipeOk
<1> QED
  BY <1>2, <1>3, <1>4, <1>5, <1>6 DEF q

LEMMA CommandSent ==
  ASSUME Counts, NEW cmd \in {"get", "set", "keys", "del"}, NEW r \in Readers \union {"none"},
         NEW v \in AnyValue
  PROVE  /\ Send(cmd, r, v) \in AnyCommand /\ Send(cmd, r, v).waited = 0
         /\ Send(cmd, r, v).cmd = cmd /\ Send(cmd, r, v).value = v
         /\ Send(cmd, r, v).version = version
BY CountsAre DEF Send, AnyCommand

LEMMA AskKeeps ==
  ASSUME CacheInv, NEW r \in Readers, AskSummary(r)
  PROVE  CacheInv'
<1> DEFINE f == flushed["local"]
           c == Send("get", r, None.value)
<1>1. f \in 0..version /\ MapOk(local, version, age, f) /\ PipeOk(pipe, version, age, f) /\ Counts
  BY DEF CacheInv, Counts
<1>2. UNCHANGED <<version, age, remote, connected, flushed>>
  BY DEF AskSummary
<1>3. MapOk(local', version, age, f)
  <2>1. CASE local' = local
    BY <1>1, <2>1
  <2>2. CASE local' = [WithReport(local) EXCEPT !["summary"] = EntryFor("summary", Summary)]
    <3>1. MapOk(WithReport(local), version, age, f)
      BY <1>1, ReportRead
    <3>2. Summary \in AnyValue /\ NotOlder(Summary, Ttls["report"] - 1, version, age)
          /\ Covers(Summary, f)
      BY <1>1, SummaryMade
    <3>3. EntryOk("summary", EntryFor("summary", Summary), version, age)
      <4>1. 0 \in 0..Latency /\ (\A w \in 1..version : age[w] \in Nat)
        BY <1>1, Lives, CountsAre
      <4>2. Ttls["report"] - 1 + 0 = Ttls["report"] - 1
        <5>1. Ttls["report"] \in Nat
          BY Lives DEF Keys
        <5> QED
          BY <5>1
      <4> QED
        BY <3>2, <4>1, <4>2, SummaryFits
    <3>4. MapOk([WithReport(local) EXCEPT !["summary"] = EntryFor("summary", Summary)], version, age, f)
      BY <3>1, <3>2, <3>3, SummaryKept
    <3> QED
      BY <2>2, <3>4
  <2> QED
    BY <2>1, <2>2 DEF AskSummary
<1>4. PipeOk(pipe', version, age, f) /\ (~connected => pipe' = pipe)
  <2>1. CASE connected
    <3>1. c \in AnyCommand /\ c.waited = 0 /\ c.cmd = "get" /\ c.version = version
      BY <1>1, NoneIs, CommandSent
    <3>2. pipe' = Append(pipe, c)
      BY <2>1 DEF AskSummary
    <3>3. ~Sets(c) /\ c.waited <= Latency /\ c.version <= version /\ SetOk(c, version, age, f)
      BY <1>1, <3>1, Lives, CountsAre DEF Sets, SetOk
    <3> HIDE DEF c
    <3>4. PipeOk(Append(pipe, c), version, age, f)
      BY <1>1, <3>1, <3>3, PipeSent
    <3> QED
      BY <2>1, <3>2, <3>4
  <2>2. CASE ~connected
    BY <1>1, <2>2 DEF AskSummary
  <2> QED
    BY <2>1, <2>2
<1> QED
  BY <1>2, <1>3, <1>4 DEF CacheInv, Counts, MapOk, PipeOk

-----------------------------------------------------------------------------
(* Writes                                                                    *)
LEMMA WrittenKeeps ==
  ASSUME CacheInv, Written
  PROVE  LET f == flushed["local"]
         IN  /\ version' = version + 1 /\ version' \in 0..MaxWrites /\ version \in Nat
             /\ age' = age /\ \A w \in 1..MaxWrites : w > version' => age[w] = 0
             /\ MapOk(local, version', age, f)
             /\ EntryOk("summary", remote, version', age)
             /\ PipeOk(pipe, version', age, f)
<1> DEFINE f == flushed["local"]
           n == version
<1>1. version' = n + 1 /\ age' = age /\ n < MaxWrites
  BY DEF Written
<1>2. n \in Nat /\ MaxWrites \in Nat /\ \A w \in 1..n : age[w] \in Nat
  BY CountsAre DEF CacheInv
<1>3. \A w \in 1..MaxWrites : w > n => age[w] = 0
  BY DEF CacheInv, Counts
<1>4. age[n + 1] = 0
  <2>1. n + 1 \in 1..MaxWrites /\ n + 1 > n
    BY <1>1, <1>2
  <2> QED
    BY <1>3, <2>1
<1>5. \A w \in 1..MaxWrites : w > n + 1 => age[w] = 0
  BY <1>2, <1>3
<1>6. MapOk(local, n, age, f) /\ EntryOk("summary", remote, n, age) /\ PipeOk(pipe, n, age, f)
  BY DEF CacheInv
<1>7. MapOk(local, n + 1, age, f)
  BY <1>2, <1>4, <1>6, EntryMisses DEF MapOk
<1>8. EntryOk("summary", remote, n + 1, age)
  <2>1. "summary" \in Keys
    BY DEF Keys
  <2> QED
    BY <1>2, <1>4, <1>6, <2>1, EntryMisses
<1>9. PipeOk(pipe, n + 1, age, f)
  <2>1. pipe \in Seq(AnyCommand)
    BY <1>6 DEF PipeOk
  <2>2. ASSUME NEW i \in 1..Len(pipe)
        PROVE  pipe[i].version <= n + 1 /\ SetOk(pipe[i], n + 1, age, f)
    <3>1. pipe[i].version <= n /\ pipe[i].version \in Nat /\ pipe[i].waited \in Nat
          /\ SetOk(pipe[i], n, age, f)
      BY <1>6, <2>1, PipeElements DEF PipeOk
    <3>2. Ttls["report"] \in Nat \ {0}
      BY Lives DEF Keys
    <3>3. ASSUME Sets(pipe[i]), NEW w \in 1..(n + 1), w > pipe[i].value.report
          PROVE  age[w] <= Ttls["report"] - 1 + pipe[i].waited
      <4>1. CASE w = n + 1
        BY <1>4, <3>1, <3>2, <4>1
      <4>2. CASE w \in 1..n
        BY <3>1, <3>3, <4>2 DEF SetOk, NotOlder
      <4> QED
        BY <1>2, <4>1, <4>2
    <3>4. SetOk(pipe[i], n + 1, age, f)
      BY <3>1, <3>3 DEF SetOk, NotOlder
    <3> QED
      BY <1>2, <3>1, <3>4
  <2> QED
    BY <1>6, <2>1, <2>2 DEF PipeOk
<1>10. n + 1 \in 0..MaxWrites
  BY <1>1, <1>2
<1> QED
  BY <1>1, <1>2, <1>5, <1>7, <1>8, <1>9, <1>10

LEMMA WriteOnlyKeeps ==
  ASSUME CacheInv, WriteOnly
  PROVE  CacheInv'
<1>1. Written /\ UNCHANGED <<local, remote, connected, pipe, flushed>>
  BY DEF WriteOnly
<1>2. /\ version' = version + 1 /\ version' \in 0..MaxWrites /\ version \in Nat
      /\ age' = age /\ \A w \in 1..MaxWrites : w > version' => age[w] = 0
      /\ MapOk(local, version', age, flushed["local"])
      /\ EntryOk("summary", remote, version', age)
      /\ PipeOk(pipe, version', age, flushed["local"])
  BY <1>1, WrittenKeeps
<1>3. Counts'
  BY <1>1, <1>2 DEF CacheInv, Counts
<1>4. /\ MapOk(local', version', age', flushed'["local"]) /\ PipeOk(pipe', version', age', flushed'["local"])
      /\ EntryOk("summary", remote', version', age')
  BY <1>1, <1>2
<1>5. /\ Valid(remote') => Covers(remote'.value, flushed'["remote"])
      /\ ~connected' => pipe' = << >>
  BY <1>1 DEF CacheInv
<1> QED
  BY <1>3, <1>4, <1>5 DEF CacheInv

LEMMA InvalidateKeeps ==
  ASSUME CacheInv, WriteAndInvalidate
  PROVE  CacheInv'
<1> DEFINE f == flushed["local"]
           c == [Send("keys", "none", None.value) EXCEPT !.version = version + 1]
<1>1. Written /\ InvalidatePrefix /\ UNCHANGED <<remote, connected>>
  BY DEF WriteAndInvalidate
<1>2. /\ version' = version + 1 /\ version' \in 0..MaxWrites /\ version \in Nat
      /\ age' = age /\ \A w \in 1..MaxWrites : w > version' => age[w] = 0
      /\ MapOk(local, version', age, f)
      /\ EntryOk("summary", remote, version', age)
      /\ PipeOk(pipe, version', age, f)
  BY <1>1, WrittenKeeps
<1>3. Counts /\ (Valid(remote) => Covers(remote.value, flushed["remote"])) /\ (~connected => pipe = << >>)
  BY DEF CacheInv
<1>4. CASE connected
  <2>1. pipe' = Append(pipe, c) /\ UNCHANGED <<local, flushed>>
    BY <1>1, <1>4 DEF InvalidatePrefix
  <2>2. c \in AnyCommand /\ c.waited = 0 /\ c.version = version + 1 /\ c.cmd = "keys"
    <3> DEFINE sent == Send("keys", "none", None.value)
    <3>1. sent \in AnyCommand /\ sent.waited = 0 /\ sent.cmd = "keys"
      <4>1. "keys" \in {"get", "set", "keys", "del"} /\ "none" \in Readers \union {"none"}
            /\ None.value \in AnyValue
        BY NoneIs
      <4> DEFINE r == "none"
                 v == None.value
      <4> HIDE DEF r, v
      <4>2. /\ Send("keys", r, v) \in AnyCommand /\ Send("keys", r, v).waited = 0
            /\ Send("keys", r, v).cmd = "keys"
        BY <1>3, <4>1, CommandSent DEF r, v
      <4> QED
        BY <4>2 DEF r, v
    <3>2. version + 1 \in Nat
      BY <1>2
    <3> HIDE DEF sent
    <3>3. LET new == [sent EXCEPT !.version = version + 1]
          IN  new \in AnyCommand /\ new.waited = 0 /\ new.version = version + 1 /\ new.cmd = "keys"
      BY <3>1, <3>2 DEF AnyCommand
    <3> QED
      BY <3>3 DEF sent
  <2>3. ~Sets(c) /\ c.waited <= Latency /\ c.version <= version' /\ SetOk(c, version', age, f)
    BY <1>2, <2>2, Lives DEF Sets, SetOk
  <2> HIDE DEF c
  <2>4. PipeOk(Append(pipe, c), version', age, f)
    BY <1>2, <2>2, <2>3, PipeSent
  <2>5. Counts'
    BY <1>2, <1>3, <2>1 DEF Counts
  <2>6. /\ MapOk(local', version', age', flushed'["local"]) /\ PipeOk(pipe', version', age', flushed'["local"])
        /\ EntryOk("summary", remote', version', age')
    BY <1>1, <1>2, <2>1, <2>4
  <2>7. /\ Valid(remote') => Covers(remote'.value, flushed'["remote"])
        /\ ~connected' => pipe' = << >>
    BY <1>1, <1>3, <1>4, <2>1
  <2> QED
    BY <2>5, <2>6, <2>7 DEF CacheInv
<1>5. CASE ~connected
  <2>1. /\ local' = [k \in Keys |-> None] /\ flushed' = [flushed EXCEPT !["local"] = version + 1]
        /\ pipe' = << >> /\ pipe = << >>
    BY <1>1, <1>3, <1>5 DEF InvalidatePrefix
  <2>2. flushed'["local"] = version + 1 /\ flushed'["remote"] = flushed["remote"]
        /\ flushed' = [x \in {"local", "remote"} |-> flushed'[x]]
    BY <1>3, <2>1 DEF Counts
  <2>3. MapOk(local', version', age', flushed'["local"])
    BY <2>1, EmptyMap
  <2>4. PipeOk(pipe', version', age', flushed'["local"])
    <3>1. Len(pipe') = 0 /\ pipe' \in Seq(AnyCommand)
      BY <2>1
    <3> QED
      BY <3>1 DEF PipeOk
  <2>5. Counts'
    <3>1. flushed["remote"] \in 0..(version + 1) /\ version + 1 \in 0..(version + 1)
      BY <1>2, <1>3 DEF Counts
    <3> QED
      BY <1>2, <1>3, <2>2, <3>1 DEF Counts
  <2>6. /\ EntryOk("summary", remote', version', age')
        /\ Valid(remote') => Covers(remote'.value, flushed'["remote"])
    BY <1>1, <1>2, <1>3, <2>2
  <2> QED
    BY <2>1, <2>3, <2>4, <2>5, <2>6 DEF CacheInv
<1> QED
  BY <1>4, <1>5

-----------------------------------------------------------------------------
(* A command is answered, or fails                                           *)
LEMMA GetKeeps ==
  ASSUME CacheInv, pipe # << >>, NEW ok, GetAnswered(Head(pipe), ok),
         UNCHANGED <<version, age, connected>>
  PROVE  CacheInv'
<1> DEFINE f == flushed["local"]
           first == Head(pipe)
           c == Send("set", first.reader, Summary)
<1>1. f \in 0..version /\ MapOk(local, version, age, f) /\ PipeOk(pipe, version, age, f) /\ Counts
  BY DEF CacheInv, Counts
<1>2. UNCHANGED <<remote, flushed>>
  BY DEF GetAnswered
<1>3. PipeOk(Tail(pipe), version, age, f) /\ first \in AnyCommand
      /\ \A i \in 1..Len(Tail(pipe)) : Tail(pipe)[i] = pipe[i + 1] /\ i + 1 \in 1..Len(pipe)
  BY <1>1, PipeGoesOn
<1>4. MapOk(local', version, age, f)
  <2>1. local' = local \/ local' = WithReport(local)
    BY DEF GetAnswered
  <2> QED
    BY <1>1, <2>1, ReportRead
<1>5. PipeOk(pipe', version, age, f)
  <2>1. CASE pipe' = Tail(pipe)
    BY <1>3, <2>1
  <2>2. CASE pipe' = Append(Tail(pipe), c)
    <3>1. /\ Summary \in AnyValue /\ NotOlder(Summary, Ttls["report"] - 1, version, age)
          /\ Summary.live = version /\ Covers(Summary, f)
          /\ Summary.race = Invalidating
      BY <1>1, SummaryMade
    <3>2. first.reader \in Readers \union {"none"}
      BY <1>3 DEF AnyCommand
    <3>3. c \in AnyCommand /\ c.waited = 0 /\ c.version = version /\ c.cmd = "set" /\ c.value = Summary
      <4>1. "set" \in {"get", "set", "keys", "del"}
        OBVIOUS
      <4> DEFINE r == first.reader
                 v == Summary
      <4>2. r \in Readers \union {"none"} /\ v \in AnyValue /\ c = Send("set", r, v)
        BY <3>1, <3>2
      <4> HIDE DEF r, v, c
      <4>3. /\ Send("set", r, v) \in AnyCommand /\ Send("set", r, v).waited = 0
            /\ Send("set", r, v).cmd = "set" /\ Send("set", r, v).value = v
            /\ Send("set", r, v).version = version
        BY <1>1, <4>1, <4>2, CommandSent
      <4> QED
        BY <4>2, <4>3 DEF v
    <3>4. c.waited <= Latency /\ c.version <= version
      BY <1>1, <3>3, Lives, CountsAre
    <3>5. SetOk(c, version, age, f)
      <4>1. Ttls["report"] - 1 + 0 = Ttls["report"] - 1
        <5>1. Ttls["report"] \in Nat
          BY Lives DEF Keys
        <5> QED
          BY <5>1
      <4> QED
        BY <3>1, <3>3, <4>1 DEF SetOk
    <3>6. ASSUME NEW j \in 1..Len(Tail(pipe)), Invalidates(Tail(pipe)[j])
          PROVE  Covers(c.value, Tail(pipe)[j].version)
      <4>1. Tail(pipe)[j] = pipe[j + 1] /\ j + 1 \in 1..Len(pipe)
        BY <1>3
      <4>2. Invalidating
        <5>1. j + 1 \in DOMAIN pipe
          BY <1>1, <4>1, PipeElements DEF PipeOk
        <5> QED
          BY <3>6, <4>1, <5>1 DEF Invalidating, Invalidates
      <4>3. Tail(pipe)[j].version <= version /\ Tail(pipe)[j].version \in Nat /\ version \in Nat
        BY <1>1, <4>1, PipeElements, CountsAre DEF PipeOk
      <4>4. Summary.race
        BY <3>1, <4>2
      <4> QED
        BY <3>1, <3>3, <4>3, <4>4 DEF Covers
    <3> HIDE DEF c
    <3>7. PipeOk(Append(Tail(pipe), c), version, age, f)
      BY <1>3, <3>3, <3>4, <3>5, <3>6, PipeSent
    <3> QED
      BY <2>2, <3>7
  <2> QED
    BY <2>1, <2>2 DEF GetAnswered
<1>6. /\ MapOk(local', version', age', flushed'["local"]) /\ PipeOk(pipe', version', age', flushed'["local"])
      /\ EntryOk("summary", remote', version', age') /\ Counts'
      /\ Valid(remote') => Covers(remote'.value, flushed'["remote"])
  BY <1>1, <1>2, <1>4, <1>5 DEF CacheInv, Counts
<1>7. connected'
  BY <1>1 DEF CacheInv
<1> QED
  BY <1>6, <1>7 DEF CacheInv

(* A value covers what is older than what it covers.                         *)
LEMMA CoversLess ==
  ASSUME NEW v \in AnyValue, NEW f \in Nat, NEW g \in Nat, g <= f, Covers(v, f)
  PROVE  Covers(v, g)
BY DEF Covers, AnyValue

LEMMA SetKeeps ==
  ASSUME CacheInv, pipe # << >>, NEW ok, SetAnswered(Head(pipe), ok),
         UNCHANGED <<version, age, connected>>
  PROVE  CacheInv'
<1> DEFINE f == flushed["local"]
           c == Head(pipe)
           x == EntryFor("summary", c.value)
<1>1. f \in 0..version /\ MapOk(local, version, age, f) /\ PipeOk(pipe, version, age, f) /\ Counts
      /\ flushed["remote"] \in Nat /\ flushed["remote"] <= f /\ f \in Nat
  BY DEF CacheInv, Counts
<1>2. flushed' = flushed /\ pipe' = Tail(pipe) /\ Sets(c)
  BY DEF SetAnswered, Sets
<1>3. PipeOk(Tail(pipe), version, age, f) /\ c = pipe[1] /\ 1 \in 1..Len(pipe)
  BY <1>1, PipeGoesOn
<1>4. c.value \in AnyValue /\ c.waited \in Nat /\ c.waited <= Latency
  BY <1>1, <1>3, PipeElements DEF PipeOk
<1>5. NotOlder(c.value, Ttls["report"] - 1 + c.waited, version, age) /\ Covers(c.value, f)
  BY <1>1, <1>2, <1>3 DEF PipeOk, SetOk
<1> HIDE DEF c
<1>6. EntryOk("summary", x, version, age) /\ x.value = c.value
  <2>1. c.waited \in 0..Latency /\ \A w \in 1..version : age[w] \in Nat
    BY <1>1, <1>4, Lives, CountsAre
  <2> QED
    BY <1>4, <1>5, <2>1, SummaryFits
<1>7. CASE remote' = x /\ local' = local
  <2>1. Covers(x.value, flushed["remote"])
    BY <1>1, <1>4, <1>5, <1>6, CoversLess
  <2> HIDE DEF x
  <2>2. /\ MapOk(local', version', age', flushed'["local"]) /\ PipeOk(pipe', version', age', flushed'["local"])
        /\ EntryOk("summary", remote', version', age') /\ Counts'
        /\ Covers(remote'.value, flushed'["remote"])
    BY <1>1, <1>2, <1>3, <1>6, <1>7, <2>1 DEF Counts
  <2>3. connected'
    BY DEF CacheInv
  <2> QED
    BY <2>2, <2>3 DEF CacheInv
<1>8. CASE local' = [local EXCEPT !["summary"] = x] /\ remote' = remote
  <2>1. MapOk(local', version, age, f)
    BY <1>1, <1>4, <1>5, <1>6, <1>8, SummaryKept
  <2>2. /\ MapOk(local', version', age', flushed'["local"]) /\ PipeOk(pipe', version', age', flushed'["local"])
        /\ EntryOk("summary", remote', version', age') /\ Counts'
        /\ Valid(remote') => Covers(remote'.value, flushed'["remote"])
    BY <1>1, <1>2, <1>3, <1>8, <2>1 DEF CacheInv, Counts
  <2>3. connected'
    BY DEF CacheInv
  <2> QED
    BY <2>2, <2>3 DEF CacheInv
<1> QED
  BY <1>7, <1>8 DEF SetAnswered, c

(* The Map is emptied: what is on its way to Redis covers the write.         *)
LEMMA EmptiedOk ==
  ASSUME CacheInv, pipe # << >>, Invalidates(Head(pipe)), NEW done \in BOOLEAN,
         Emptied(Head(pipe), done), pipe' = Tail(pipe), UNCHANGED <<version, age>>
  PROVE  /\ Counts' /\ MapOk(local', version', age', flushed'["local"])
         /\ PipeOk(pipe', version', age', flushed'["local"])
         /\ ~done => flushed'["remote"] = flushed["remote"]
<1> DEFINE f == flushed["local"]
           g == flushed["remote"]
           c == Head(pipe)
           f2 == Larger(f, c.version)
           g2 == IF done THEN Larger(g, c.version) ELSE g
<1>1. Counts /\ PipeOk(pipe, version, age, f) /\ version \in Nat
  BY CountsAre DEF CacheInv
<1>2. f \in Nat /\ f <= version /\ g \in Nat /\ g <= f
  BY <1>1 DEF Counts
<1>3. PipeOk(Tail(pipe), version, age, f) /\ c = pipe[1] /\ 1 \in 1..Len(pipe)
      /\ \A i \in 1..Len(Tail(pipe)) :
            Sets(Tail(pipe)[i]) => Covers(Tail(pipe)[i].value, c.version)
  BY <1>1, PipeGoesOn
<1>4. c.version \in Nat /\ c.version <= version
  BY <1>1, <1>3, PipeElements DEF PipeOk
<1>5. local' = [k \in Keys |-> None]
      /\ flushed' = [[flushed EXCEPT !["local"] = Larger(f, c.version)]
                              EXCEPT !["remote"] = IF done THEN Larger(g, c.version) ELSE g]
  BY DEF Emptied, Counts
<1>6. flushed'["local"] = f2 /\ flushed'["remote"] = g2
      /\ flushed' = [x \in {"local", "remote"} |-> flushed'[x]]
  BY <1>1, <1>5 DEF Counts
<1> HIDE DEF c
<1>7. f2 \in {f, c.version} /\ f2 \in 0..version /\ g2 \in 0..f2
  BY <1>1, <1>2, <1>4 DEF Larger
<1>8. Counts'
  BY <1>1, <1>6, <1>7 DEF Counts
<1>9. MapOk(local', version', age', flushed'["local"])
  BY <1>5, EmptyMap
<1> HIDE DEF f2, g2
<1>10. PipeOk(Tail(pipe), version, age, f2)
  BY <1>3, <1>7 DEF PipeOk, SetOk
<1>11. ~done => g2 = g
  BY DEF g2
<1> QED
  BY <1>6, <1>8, <1>9, <1>10, <1>11

LEMMA KeysKeeps ==
  ASSUME CacheInv, pipe # << >>, NEW ok \in BOOLEAN, KeysAnswered(Head(pipe), ok),
         UNCHANGED <<version, age, connected>>
  PROVE  CacheInv'
<1> DEFINE f == flushed["local"]
           first == Head(pipe)
           c == [[first EXCEPT !.cmd = "del"] EXCEPT !.waited = 0]
<1>1. Counts /\ MapOk(local, version, age, f) /\ PipeOk(pipe, version, age, f)
      /\ EntryOk("summary", remote, version, age)
      /\ (Valid(remote) => Covers(remote.value, flushed["remote"]))
  BY DEF CacheInv
<1>2. remote' = remote /\ first.cmd = "keys" /\ connected'
  BY DEF KeysAnswered, CacheInv
<1>3. CASE ok /\ Valid(remote)
  <2>1. pipe' = Append(Tail(pipe), c) /\ UNCHANGED <<local, flushed>>
    BY <1>3 DEF KeysAnswered
  <2>2. PipeOk(Tail(pipe), version, age, f) /\ first \in AnyCommand /\ first = pipe[1]
        /\ 1 \in 1..Len(pipe)
    BY <1>1, PipeGoesOn
  <2>3. first.version <= version
    BY <1>1, <2>2 DEF PipeOk
  <2> HIDE DEF first
  <2>4. c \in AnyCommand /\ c.waited = 0 /\ c.cmd = "del" /\ c.version = first.version
    BY <2>2 DEF AnyCommand
  <2>5. ~Sets(c) /\ c.waited <= Latency /\ c.version <= version /\ SetOk(c, version, age, f)
    BY <2>3, <2>4, Lives DEF Sets, SetOk
  <2> HIDE DEF c
  <2>6. PipeOk(Append(Tail(pipe), c), version, age, f)
    BY <2>2, <2>4, <2>5, PipeSent
  <2>7. /\ MapOk(local', version', age', flushed'["local"]) /\ PipeOk(pipe', version', age', flushed'["local"])
        /\ EntryOk("summary", remote', version', age') /\ Counts'
        /\ Valid(remote') => Covers(remote'.value, flushed'["remote"])
    BY <1>1, <1>2, <2>1, <2>6 DEF Counts
  <2> QED
    BY <1>2, <2>7 DEF CacheInv
<1>4. CASE ~(ok /\ Valid(remote))
  <2>1. pipe' = Tail(pipe) /\ Emptied(first, ok)
    BY <1>4 DEF KeysAnswered
  <2>2. Invalidates(first)
    BY <1>2 DEF Invalidates
  <2>3. /\ Counts' /\ MapOk(local', version', age', flushed'["local"])
        /\ PipeOk(pipe', version', age', flushed'["local"])
        /\ ~ok => flushed'["remote"] = flushed["remote"]
    BY <2>1, <2>2, EmptiedOk
  <2>4. Valid(remote') => Covers(remote'.value, flushed'["remote"])
    BY <1>1, <1>2, <1>4, <2>3
  <2>5. EntryOk("summary", remote', version', age')
    BY <1>1, <1>2
  <2> QED
    BY <1>2, <2>3, <2>4, <2>5 DEF CacheInv
<1> QED
  BY <1>3, <1>4

LEMMA DelKeeps ==
  ASSUME CacheInv, pipe # << >>, NEW ok \in BOOLEAN, DelAnswered(Head(pipe), ok),
         UNCHANGED <<version, age, connected>>
  PROVE  CacheInv'
<1>1. Invalidates(Head(pipe)) /\ pipe' = Tail(pipe) /\ Emptied(Head(pipe), ok)
      /\ remote' = IF ok THEN None ELSE remote
  BY DEF DelAnswered, Invalidates
<1>2. /\ Counts' /\ MapOk(local', version', age', flushed'["local"])
      /\ PipeOk(pipe', version', age', flushed'["local"])
      /\ ~ok => flushed'["remote"] = flushed["remote"]
  BY <1>1, EmptiedOk
<1>3. /\ EntryOk("summary", remote', version', age')
      /\ Valid(remote') => Covers(remote'.value, flushed'["remote"])
  <2>1. "summary" \in Keys
    BY DEF Keys
  <2>2. CASE ok
    BY <1>1, <2>1, <2>2, NoneOk, NoneIs
  <2>3. CASE ~ok
    BY <1>1, <1>2, <2>3 DEF CacheInv
  <2> QED
    BY <2>2, <2>3
<1>4. connected'
  BY DEF CacheInv
<1> QED
  BY <1>2, <1>3, <1>4 DEF CacheInv

-----------------------------------------------------------------------------
LEMMA TickKeeps ==
  ASSUME CacheInv, Tick
  PROVE  CacheInv'
<1> DEFINE f == flushed["local"]
           n == version
<1>1. Counts /\ MapOk(local, n, age, f) /\ PipeOk(pipe, n, age, f)
      /\ EntryOk("summary", remote, n, age)
  BY DEF CacheInv
<1>2. n \in Nat /\ MaxWrites \in Nat /\ n <= MaxWrites
      /\ \A w \in 1..MaxWrites : age[w] \in Nat
  BY <1>1, CountsAre
<1>3. UNCHANGED <<version, connected, flushed>> /\ remote' = Less(remote)
      /\ local' = [k \in Keys |-> Less(local[k])]
  BY DEF Tick
<1>4. age' \in [1..MaxWrites -> Nat]
      /\ \A w \in 1..MaxWrites : age'[w] <= age[w] + 1 /\ (w > n => age'[w] = age[w])
  <2>1. age' = [w \in 1..MaxWrites |-> IF w <= n /\ age[w] < OldAge THEN age[w] + 1 ELSE age[w]]
    BY DEF Tick
  <2>2. ASSUME NEW w \in 1..MaxWrites
        PROVE  age'[w] \in {age[w], age[w] + 1} /\ (w > n => age'[w] = age[w])
    <3>1. w > n => ~(w <= n)
      BY <1>2
    <3> QED
      BY <2>1, <3>1
  <2>3. \A w \in 1..MaxWrites : age'[w] \in Nat /\ age'[w] <= age[w] + 1
    BY <1>2, <2>2
  <2>4. age' = [w \in 1..MaxWrites |-> age'[w]]
    BY <2>1
  <2> QED
    BY <2>2, <2>3, <2>4
<1>5. \A w \in 1..n : age[w] \in Nat /\ age'[w] \in Nat /\ age'[w] <= age[w] + 1
  <2>1. \A w \in 1..n : w \in 1..MaxWrites
    BY <1>2
  <2> QED
    BY <1>2, <1>4, <2>1
<1>6. Counts'
  BY <1>1, <1>3, <1>4 DEF Counts
<1>7. ASSUME NEW k \in Keys
      PROVE  /\ EntryOk(k, local'[k], n, age')
             /\ Valid(local'[k]) => Valid(local[k]) /\ local'[k].value = local[k].value
  <2>1. local'[k] = Less(local[k]) /\ EntryOk(k, local[k], n, age)
    BY <1>1, <1>3 DEF MapOk
  <2> QED
    BY <1>2, <1>5, <2>1, EntryAges
<1>8. MapOk(local', n, age', f)
  <2>1. local' = [k \in Keys |-> local'[k]] /\ "summary" \in Keys
    BY <1>3 DEF Keys
  <2> QED
    BY <1>1, <1>7, <2>1 DEF MapOk
<1>9. /\ EntryOk("summary", remote', n, age')
      /\ Valid(remote') => Valid(remote) /\ remote'.value = remote.value
  <2>1. "summary" \in Keys
    BY DEF Keys
  <2> QED
    BY <1>1, <1>2, <1>3, <1>5, <2>1, EntryAges
<1>10. PipeOk(pipe', n, age', f)
  <2>1. pipe \in Seq(AnyCommand) /\ Len(pipe) \in Nat /\ DOMAIN pipe = 1..Len(pipe)
    BY <1>1, PipeElements DEF PipeOk
  <2>2. pipe' = [i \in 1..Len(pipe) |-> [pipe[i] EXCEPT !.waited = pipe[i].waited + 1]]
        /\ \A i \in 1..Len(pipe) : pipe[i].waited < Latency
    BY <2>1 DEF Tick
  <2>3. ASSUME NEW i \in 1..Len(pipe)
        PROVE  /\ pipe'[i] \in AnyCommand /\ pipe'[i].waited = pipe[i].waited + 1
               /\ pipe'[i].cmd = pipe[i].cmd /\ pipe'[i].value = pipe[i].value
               /\ pipe'[i].version = pipe[i].version
    <3> DEFINE c == pipe[i]
    <3>1. c \in AnyCommand /\ c.waited \in Nat
      BY <2>1, PipeElements
    <3>2. pipe'[i] = [c EXCEPT !.waited = c.waited + 1]
      BY <2>2
    <3> HIDE DEF c
    <3>3. c.waited + 1 \in Nat
      BY <3>1
    <3>4. /\ pipe'[i] \in AnyCommand /\ pipe'[i].waited = c.waited + 1
          /\ pipe'[i].cmd = c.cmd /\ pipe'[i].value = c.value /\ pipe'[i].version = c.version
      BY <3>1, <3>2, <3>3 DEF AnyCommand
    <3> QED
      BY <3>4 DEF c
  <2>4. pipe' \in Seq(AnyCommand) /\ Len(pipe') = Len(pipe)
    <3>1. pipe' \in [1..Len(pipe) -> AnyCommand]
      BY <2>2, <2>3
    <3> QED
      BY <2>1, <3>1
  <2>5. ASSUME NEW i \in 1..Len(pipe)
        PROVE  /\ pipe'[i].waited <= Latency /\ pipe'[i].version <= n
               /\ SetOk(pipe'[i], n, age', f) /\ Behind(pipe', i)
    <3>1. pipe[i].waited \in Nat /\ pipe[i].waited < Latency /\ Latency \in Nat
          /\ pipe[i].version <= n /\ SetOk(pipe[i], n, age, f) /\ Behind(pipe, i)
      BY <1>1, <2>1, <2>2, PipeElements, Lives DEF PipeOk
    <3>2. pipe'[i].waited <= Latency /\ pipe'[i].version <= n
      BY <2>3, <3>1
    <3>3. SetOk(pipe'[i], n, age', f)
      <4>1. Ttls["report"] \in Nat
        BY Lives DEF Keys
      <4>2. ASSUME Sets(pipe[i]), NEW w \in 1..n, w > pipe[i].value.report
            PROVE  age'[w] <= Ttls["report"] - 1 + (pipe[i].waited + 1)
        <5>1. age[w] <= Ttls["report"] - 1 + pipe[i].waited
          BY <3>1, <4>2 DEF SetOk, NotOlder
        <5>2. age[w] \in Nat /\ age'[w] \in Nat /\ age'[w] <= age[w] + 1
          BY <1>5
        <5>3. pipe[i].waited \in Nat
          BY <3>1
        <5> DEFINE was == age[w]
                   is == age'[w]
                   ttl == Ttls["report"]
                   held == pipe[i].waited
        <5>4. /\ was \in Nat /\ is \in Nat /\ ttl \in Nat /\ held \in Nat
              /\ was <= ttl - 1 + held /\ is <= was + 1
          BY <4>1, <5>1, <5>2, <5>3
        <5> HIDE DEF was, is, ttl, held
        <5>5. is <= ttl - 1 + (held + 1)
          BY ONLY <5>4
        <5> QED
          BY <5>5 DEF is, ttl, held
      <4> QED
        BY <2>3, <3>1, <4>2 DEF SetOk, NotOlder, Sets
    <3>4. Behind(pipe', i)
      <4>1. \A j \in 1..(i - 1) : j \in 1..Len(pipe)
        BY <2>1
      <4> QED
        BY <2>3, <3>1, <4>1 DEF Behind, Sets, Invalidates
    <3> QED
      BY <3>2, <3>3, <3>4
  <2> QED
    BY <2>4, <2>5 DEF PipeOk
<1>11. ~connected' => pipe' = << >>
  <2>1. CASE pipe = << >>
    BY <2>1 DEF Tick
  <2>2. CASE pipe # << >>
    BY <1>3, <2>2 DEF CacheInv
  <2> QED
    BY <2>1, <2>2
<1>12. Valid(remote') => Covers(remote'.value, flushed'["remote"])
  BY <1>3, <1>9 DEF CacheInv
<1> QED
  BY <1>3, <1>6, <1>8, <1>9, <1>10, <1>11, <1>12 DEF CacheInv

-----------------------------------------------------------------------------
LEMMA CacheInvHolds == CacheSpec => []CacheInv
<1>1. CacheInit => CacheInv
  <2> SUFFICES ASSUME CacheInit PROVE CacheInv
    OBVIOUS
  <2>1. MapOk(local, version, age, flushed["local"])
    BY EmptyMap DEF CacheInit
  <2>2. EntryOk("summary", remote, version, age) /\ ~Valid(remote)
    <3>1. "summary" \in Keys
      BY DEF Keys
    <3> QED
      BY <3>1, NoneOk, NoneIs DEF CacheInit
  <2>3. PipeOk(pipe, version, age, flushed["local"])
    <3>1. Len(pipe) = 0 /\ pipe \in Seq(AnyCommand)
      BY DEF CacheInit
    <3> QED
      BY <3>1 DEF PipeOk
  <2>4. Counts
    <3>1. 0 \in 0..MaxWrites
      BY Lives
    <3> QED
      BY <3>1 DEF CacheInit, Counts
  <2> QED
    BY <2>1, <2>2, <2>3, <2>4 DEF CacheInv, CacheInit
<1>2. CacheInv /\ [CacheNext]_cacheVars => CacheInv'
  <2> SUFFICES ASSUME CacheInv, [CacheNext]_cacheVars PROVE CacheInv'
    OBVIOUS
  <2>1. ASSUME UNCHANGED <<version, age, local, remote, pipe, flushed>>, connected' = connected \/ connected'
        PROVE  CacheInv'
    <3>1. /\ MapOk(local', version', age', flushed'["local"]) /\ PipeOk(pipe', version', age', flushed'["local"])
          /\ EntryOk("summary", remote', version', age') /\ Counts'
          /\ Valid(remote') => Covers(remote'.value, flushed'["remote"])
      BY <2>1 DEF CacheInv, Counts
    <3>2. ~connected' => pipe' = << >>
      BY <2>1 DEF CacheInv
    <3> QED
      BY <3>1, <3>2 DEF CacheInv
  <2>2. CASE UNCHANGED cacheVars
    BY <2>1, <2>2 DEF cacheVars
  <2>3. CASE Connect
    BY <2>1, <2>3 DEF Connect
  <2>4. CASE Answer
    <3>1. PICK ok \in BOOLEAN : \/ GetAnswered(Head(pipe), ok)  \/ SetAnswered(Head(pipe), ok)
                                \/ KeysAnswered(Head(pipe), ok) \/ DelAnswered(Head(pipe), ok)
      BY <2>4 DEF Answer
    <3>2. pipe # << >> /\ UNCHANGED <<version, age, connected>>
      BY <2>4 DEF Answer
    <3> QED
      BY <3>1, <3>2, GetKeeps, SetKeeps, KeysKeeps, DelKeeps
  <2> QED
    BY <2>2, <2>3, <2>4, ReadKeeps, AskKeeps, InvalidateKeeps, WriteOnlyKeeps, TickKeeps
    DEF CacheNext
<1> QED
  BY <1>1, <1>2, PTL DEF CacheSpec

(* For any lives of the entries, any number of readers, writes and failed    *)
(* commands: no reader is served a report older than the lives of the nested *)
(* entries add up to, and nothing that misses a write survives the end of    *)
(* its invalidation, but for a summary made meanwhile and a Redis that       *)
(* failed (getSync, wrap, invalidatePrefix).                                 *)
THEOREM CacheIsFresh == CacheSpec => []CacheStaysFresh
<1>1. CacheInv => CacheStaysFresh
  <2> SUFFICES ASSUME CacheInv PROVE CacheStaysFresh
    OBVIOUS
  <2>1. \A w \in 1..version : age[w] \in Nat
    BY CountsAre DEF CacheInv
  <2>2. "summary" \in Keys /\ flushed["local"] \in Nat /\ version \in Nat
    BY CountsAre DEF Keys, CacheInv, Counts
  <2>3. ASSUME NEW k \in Keys, NEW x, EntryOk(k, x, version, age), Valid(x)
        PROVE  NotOlder(x.value, ReportAge(k), version, age)
    <3>1. x.left \in Nat /\ x.left >= 1 /\ ReportAge(k) \in Nat
      BY <2>3, Lives DEF EntryOk, AnyEntry, Valid
    <3>2. NotOlder(x.value, ReportAge(k) + 1 - x.left, version, age)
      BY <2>3 DEF EntryOk
    <3> QED
      BY <2>1, <3>1, <3>2 DEF NotOlder
  <2>4. StalenessBounded
    <3>1. ASSUME NEW y \in Entries, Valid(y[2])
          PROVE  NotOlder(y[2].value, ReportAge(y[1]), version, age)
      <4>1. CASE \E k \in Keys : y = <<k, local[k]>>
        BY <2>3, <3>1, <4>1 DEF CacheInv, MapOk
      <4>2. CASE y = <<"summary", remote>>
        BY <2>2, <2>3, <3>1, <4>2 DEF CacheInv
      <4> QED
        BY <4>1, <4>2 DEF Entries
    <3> QED
      BY <3>1 DEF StalenessBounded, NotOlder
  <2>5. InvalidationHolds
    <3>1. ASSUME NEW k \in Keys, Valid(local[k]) PROVE Covers(local[k].value, flushed["local"])
      BY <3>1 DEF CacheInv, MapOk, Since, Covers
    <3> QED
      BY <3>1 DEF InvalidationHolds, CacheInv
  <2> QED
    BY <2>4, <2>5 DEF CacheStaysFresh
<1> QED
  BY <1>1, CacheInvHolds, PTL

(***************************************************************************)
(* The second accounting engine                                            *)
(***************************************************************************)
(* Lines an entry may have: a side each, in piasters, and balanced.        *)
Balanced(ls) ==
    /\ DOMAIN ls \subseteq CoreAccounts /\ ls \in [DOMAIN ls -> [debit: Nat, credit: Nat]]
    /\ SideTotal(ls, "debit") = SideTotal(ls, "credit")

(* An entry, whatever its reference is; a reversal is posted, so is what it *)
(* reverses, and their lines are each other's with the sides exchanged.     *)
CoreEntryInv(i) ==
    LET e == coreEntries[i]
        o == e.reversalOf
    IN  /\ e \in [reference: {e.reference}, type: {"MANUAL", "RECEIPT", "REVERSAL"},
                  status: {"DRAFT", "POSTED"}, lines: {e.lines}, reversalOf: {o}]
        /\ Balanced(e.lines)
        /\ e.type = "REVERSAL" => /\ {i, o} \subseteq PostedIn
                                  /\ e.lines = Exchanged(coreEntries[o].lines)

(* The rows of an account in any history, and that they end in its balance. *)
Traces(h, a) ==
    LET has(k) == \E row \in h[k] : row.account = a
    IN  [k \in {k \in DOMAIN h : has(k)} |-> CHOOSE r \in h[k] : r.account = a]

Connected(rows) ==
    LET before(k) == {j \in DOMAIN rows : j < k}
    IN  \A k \in DOMAIN rows :
            rows[k].before = IF before(k) = {} THEN 0 ELSE rows[Max(before(k))].after

EndsIn(rows, amount) ==
    IF DOMAIN rows = {} THEN amount = 0 ELSE amount = rows[Max(DOMAIN rows)].after

IsList(s) == Len(s) \in Nat /\ s = [k \in 1..Len(s) |-> s[k]]

CoreInv ==
    /\ IsList(coreEntries) /\ IsList(coreHistory)
    /\ coreBalances \in [CoreAccounts -> Int]
    /\ \A i \in DOMAIN coreEntries : CoreEntryInv(i)
    /\ \A a \in CoreAccounts :
         /\ coreBalances[a] = CoreTotal([i \in PostedIn |-> Delta(coreEntries[i].lines, a)])
         /\ Connected(Traces(coreHistory, a))
         /\ EndsIn(Traces(coreHistory, a), coreBalances[a])

-----------------------------------------------------------------------------
(* Lines                                                                   *)
LEMMA CoreTotals ==
  ASSUME NEW f
  PROVE  CoreTotal(f) = SumOver(f, DOMAIN f)
BY DEF CoreTotal, SumOver

LEMMA SideTotals ==
  ASSUME NEW ls, Balanced(ls), NEW side \in {"debit", "credit"}
  PROVE  /\ IsFiniteSet(DOMAIN ls)
         /\ SideTotal(ls, side) = SumOver([a \in DOMAIN ls |-> ls[a][side]], DOMAIN ls)
         /\ SideTotal(ls, side) \in Int
<1>1. IsFiniteSet(DOMAIN ls)
  BY CoreAssumption, FS_Subset DEF Balanced
<1> DEFINE f == [a \in DOMAIN ls |-> ls[a][side]]
<1>2. DOMAIN f = DOMAIN ls /\ \A a \in DOMAIN ls : f[a] \in Int
  BY DEF Balanced
<1>3. SideTotal(ls, side) = SumOver(f, DOMAIN ls)
  BY <1>2, CoreTotals DEF SideTotal
<1> HIDE DEF f
<1>4. SumOver(f, DOMAIN ls) \in Int
  BY <1>1, <1>2, SumType
<1> QED
  BY <1>1, <1>3, <1>4 DEF f

LEMMA ExchangedBalance ==
  ASSUME NEW ls, Balanced(ls)
  PROVE  Balanced(Exchanged(ls))
<1> DEFINE ms == Exchanged(ls)
<1>1. /\ DOMAIN ms = DOMAIN ls /\ ms \in [DOMAIN ls -> [debit: Nat, credit: Nat]]
      /\ \A a \in DOMAIN ls : ms[a].debit = ls[a].credit /\ ms[a].credit = ls[a].debit
  BY DEF Exchanged, Balanced
<1>2. /\ [a \in DOMAIN ms |-> ms[a]["debit"]] = [a \in DOMAIN ls |-> ls[a]["credit"]]
      /\ [a \in DOMAIN ms |-> ms[a]["credit"]] = [a \in DOMAIN ls |-> ls[a]["debit"]]
  BY <1>1
<1>3. SideTotal(ms, "debit") = SideTotal(ls, "credit")
      /\ SideTotal(ms, "credit") = SideTotal(ls, "debit")
  BY <1>2 DEF SideTotal
<1> QED
  BY <1>1, <1>3 DEF Balanced

LEMMA RequestBalances ==
  ASSUME NEW r \in CoreRequests
  PROVE  Balanced(Minor(r.lines))
<1> DEFINE ls == Minor(r.lines)
<1>1. /\ ValidEntry(ls) /\ r.lines \in [DOMAIN r.lines -> [debit: Int, credit: Int]]
  BY CoreAssumption
<1>2. /\ DOMAIN ls = DOMAIN r.lines
      /\ \A a \in DOMAIN ls : ls[a] = [debit |-> ToMinor(r.lines[a].debit), credit |-> ToMinor(r.lines[a].credit)]
  BY DEF Minor
<1>3. ASSUME NEW a \in DOMAIN ls
      PROVE  ls[a] \in [debit: Nat, credit: Nat] /\ a \in CoreAccounts
  <2>1. r.lines[a].debit \in Int /\ r.lines[a].credit \in Int
    BY <1>1, <1>2
  <2>2. ToMinor(r.lines[a].debit) \in Int /\ ToMinor(r.lines[a].credit) \in Int
    BY <2>1 DEF ToMinor
  <2>3. ls[a].debit >= 0 /\ ls[a].credit >= 0 /\ a \in CoreAccounts
    BY <1>1 DEF ValidEntry
  <2> DEFINE d == ToMinor(r.lines[a].debit)
             c == ToMinor(r.lines[a].credit)
  <2>4. ls[a] = [debit |-> d, credit |-> c] /\ d \in Int /\ c \in Int
    BY <1>2, <2>2
  <2> HIDE DEF d, c, ls
  <2> QED
    BY <2>3, <2>4
<1>4. ls = [a \in DOMAIN ls |-> ls[a]]
  BY DEF Minor
<1>5. SideTotal(ls, "debit") = SideTotal(ls, "credit")
  BY <1>1 DEF ValidEntry
<1> QED
  BY <1>3, <1>4, <1>5 DEF Balanced

LEMMA Deltas ==
  ASSUME NEW ls, Balanced(ls), NEW a \in CoreAccounts
  PROVE  /\ Delta(ls, a) \in Int /\ Delta(Exchanged(ls), a) + Delta(ls, a) = 0
         /\ a \notin DOMAIN ls => Delta(ls, a) = 0
<1>1. CoreSense(a) \in {1, -1}
  BY DEF CoreSense
<1>2. CASE a \notin DOMAIN ls
  BY <1>2 DEF Delta, Exchanged
<1>3. CASE a \in DOMAIN ls
  <2>1. /\ ls[a].debit \in Nat /\ ls[a].credit \in Nat /\ a \in DOMAIN Exchanged(ls)
        /\ Exchanged(ls)[a].debit = ls[a].credit /\ Exchanged(ls)[a].credit = ls[a].debit
    BY <1>3 DEF Balanced, Exchanged
  <2>2. /\ Delta(ls, a) = CoreSense(a) * (ls[a].debit - ls[a].credit)
        /\ Delta(Exchanged(ls), a) = CoreSense(a) * (ls[a].credit - ls[a].debit)
    BY <1>3, <2>1 DEF Delta
  <2> QED
    BY <1>1, <1>3, <2>1, <2>2
<1> QED
  BY <1>2, <1>3

(* Nothing that is derived from lines alone is blocked: it has no level.    *)
LEMMA NothingBlocked == \A type, ls : ~Blocked(type, ls)
BY DEF Blocked, Payload

-----------------------------------------------------------------------------
(* The rows of the history                                                 *)
LEMMA TracesAre == \A a : RowsOf(a) = Traces(coreHistory, a)
BY DEF RowsOf, Traces

(* The last of a set of numbers.                                           *)
LEMMA GreatestIs ==
  ASSUME NEW T, T \subseteq Nat, NEW n \in T, \A x \in T : x <= n
  PROVE  Max(T) = n
<1>1. n \in T /\ \A y \in T : n >= y
  OBVIOUS
<1>2. \A x \in T : (\A y \in T : x >= y) => x = n
  OBVIOUS
<1> QED
  BY <1>1, <1>2 DEF Max

LEMMA GreatestExists ==
  ASSUME NEW T, T \subseteq Nat, IsFiniteSet(T), T # {}
  PROVE  \E n \in T : \A x \in T : x <= n
<1> DEFINE R == {p \in T \X T : p[1] < p[2]}
<1>1. \A x, y \in T : <<x, y>> \in R <=> x < y
  OBVIOUS
<1> HIDE DEF R
<1>2. Ordered(R, T)
  BY <1>1 DEF Ordered
<1>3. PICK m \in T : \A x \in T \ {m} : <<x, m>> \in R
  <2>1. \A U \in SUBSET T : U # {} => \E m \in U : \A x \in U \ {m} : <<x, m>> \in R
    BY <1>2, HasGreatest
  <2> QED
    BY <2>1
<1>4. ASSUME NEW x \in T PROVE x <= m
  <2>1. x \in Nat /\ m \in Nat /\ (x # m => x < m)
    BY <1>1, <1>3
  <2> QED
    BY <2>1
<1> QED
  BY <1>4

LEMMA GreatestUpTo ==
  ASSUME NEW n \in Nat, NEW T, T \subseteq 1..n, T # {}
  PROVE  Max(T) \in T
<1>1. IsFiniteSet(T)
  <2>1. IsFiniteSet(1..n) /\ T \in SUBSET (1..n)
    BY FS_Interval
  <2> QED
    BY <2>1, FS_Subset
<1>3. T \subseteq Nat
  OBVIOUS
<1>2. PICK m \in T : \A x \in T : x <= m
  BY <1>1, <1>3, GreatestExists
<1>4. Max(T) = m
  BY <1>2, <1>3, GreatestIs
<1> QED
  BY <1>4

(* A posting adds a row to each of its accounts, from the balance before to *)
(* the balance after.                                                       *)
LEMMA TraceGrows ==
  ASSUME CoreInv, NEW i, NEW ls, Balanced(ls), NEW a \in CoreAccounts,
         NEW h, h = Append(coreHistory, HistoryRows(i, ls)),
         NEW b \in Int, b = coreBalances[a] + Delta(ls, a)
  PROVE  Connected(Traces(h, a)) /\ EndsIn(Traces(h, a), b)
<1> DEFINE n    == Len(coreHistory)
           rows == Traces(coreHistory, a)
           D    == DOMAIN rows
           new  == [entry |-> i, account |-> a, before |-> coreBalances[a], after |-> b]
           next == Traces(h, a)
<1>1. /\ n \in Nat /\ coreHistory = [k \in 1..n |-> coreHistory[k]]
      /\ h = [k \in 1..(n + 1) |-> IF k = n + 1 THEN HistoryRows(i, ls) ELSE coreHistory[k]]
  <2> DEFINE e == HistoryRows(i, ls)
  <2>1. n \in Nat /\ coreHistory = [k \in 1..n |-> coreHistory[k]]
    BY DEF CoreInv, IsList
  <2> HIDE DEF n, e
  <2>2. Append(coreHistory, e) = [k \in 1..(n + 1) |-> IF k = n + 1 THEN e ELSE coreHistory[k]]
    BY <2>1, AppendAny
  <2> QED
    BY <2>1, <2>2 DEF e
<1>2. Connected(rows) /\ EndsIn(rows, coreBalances[a]) /\ coreBalances[a] \in Int
  BY DEF CoreInv
<1>3. /\ \A k \in 1..n : h[k] = coreHistory[k]
      /\ h[n + 1] = HistoryRows(i, ls) /\ DOMAIN h = 1..(n + 1)
      /\ DOMAIN coreHistory = 1..n
  BY <1>1
<1>4. /\ D = {k \in 1..n : \E row \in coreHistory[k] : row.account = a}
      /\ \A k \in D : rows[k] = CHOOSE r \in coreHistory[k] : r.account = a
  BY <1>3 DEF Traces
<1>5. /\ DOMAIN next = {k \in 1..(n + 1) : \E row \in h[k] : row.account = a}
      /\ \A k \in DOMAIN next : next[k] = CHOOSE r \in h[k] : r.account = a
      /\ next = [k \in DOMAIN next |-> next[k]]
      /\ rows = [k \in D |-> rows[k]]
  BY <1>3 DEF Traces
<1> HIDE DEF n, D, rows, next
<1>6. ASSUME NEW k \in D PROVE k \in DOMAIN next /\ next[k] = rows[k]
  <2>1. k \in 1..n /\ k \in 1..(n + 1) /\ h[k] = coreHistory[k]
    BY <1>1, <1>3, <1>4
  <2>2. k \in DOMAIN next
    BY <1>4, <1>5, <2>1
  <2> QED
    <3>1. next[k] = CHOOSE r \in h[k] : r.account = a
      BY <1>5, <2>2
    <3>2. rows[k] = CHOOSE r \in coreHistory[k] : r.account = a
      BY <1>4
    <3> QED
      BY <2>1, <2>2, <3>1, <3>2
<1>7. \A k \in DOMAIN next : k # n + 1 => k \in D
  BY <1>1, <1>3, <1>4, <1>5
<1>8. n + 1 \in DOMAIN next <=> \E row \in HistoryRows(i, ls) : row.account = a
  <2>1. n + 1 \in 1..(n + 1)
    BY <1>1
  <2> QED
    BY <1>3, <1>5, <2>1
<1>9. D \subseteq 1..n /\ DOMAIN rows = D
  BY <1>4, <1>5
<1>10. CASE a \notin DOMAIN ls
  <2>1. n + 1 \notin DOMAIN next
    BY <1>8, <1>10 DEF HistoryRows
  <2>2. next = rows
    <3>1. DOMAIN next = D
      BY <1>6, <1>7, <2>1
    <3> QED
      BY <1>5, <1>6, <3>1
  <2>3. b = coreBalances[a]
    BY <1>2, <1>10, Deltas
  <2> QED
    BY <1>2, <2>2, <2>3 DEF next
<1>11. CASE a \in DOMAIN ls
  <2>1. /\ new \in HistoryRows(i, ls)
        /\ \A r \in HistoryRows(i, ls) : r.account = a => r = new
    BY <1>11 DEF HistoryRows
  <2>2. new.account = a /\ new.before = coreBalances[a] /\ new.after = b
    OBVIOUS
  <2> HIDE DEF new
  <2>3. n + 1 \in DOMAIN next /\ next[n + 1] = new
    <3>1. n + 1 \in DOMAIN next
      BY <1>8, <2>1, <2>2
    <3> QED
      BY <1>3, <1>5, <2>1, <2>2, <3>1
  <2>0. Connected(rows) /\ EndsIn(rows, coreBalances[a]) /\ DOMAIN rows = D
    BY <1>2, <1>9
  <2>4. DOMAIN next = D \union {n + 1}
    BY <1>6, <1>7, <2>3
  <2>5. Max(DOMAIN next) = n + 1
    <3>1. DOMAIN next \subseteq Nat /\ n + 1 \in DOMAIN next /\ \A x \in DOMAIN next : x <= n + 1
      BY <1>1, <1>9, <2>4
    <3> QED
      BY <3>1, GreatestIs
  <2>6. EndsIn(next, b)
    BY <2>2, <2>3, <2>5 DEF EndsIn
  <2>7. ASSUME NEW k \in DOMAIN next
        PROVE  next[k].before = IF {j \in DOMAIN next : j < k} = {} THEN 0
                                ELSE next[Max({j \in DOMAIN next : j < k})].after
    <3>1. CASE k = n + 1
      <4>1. {j \in DOMAIN next : j < k} = D
        BY <1>1, <1>9, <2>4, <3>1
      <4>2. D # {} => Max(D) \in D
        BY <1>1, <1>9, GreatestUpTo
      <4>3. coreBalances[a] = IF D = {} THEN 0 ELSE next[Max(D)].after
        BY <2>0, <1>6, <4>2 DEF EndsIn
      <4> QED
        BY <2>2, <2>3, <3>1, <4>1, <4>3
    <3>2. CASE k # n + 1
      <4>1. k \in D /\ next[k] = rows[k]
        BY <1>6, <1>7, <3>2
      <4>2. {j \in DOMAIN next : j < k} = {j \in D : j < k}
        BY <1>1, <1>9, <2>4, <4>1
      <4> DEFINE B == {j \in D : j < k}
      <4>3. rows[k].before = IF B = {} THEN 0 ELSE rows[Max(B)].after
        BY <2>0, <4>1 DEF Connected
      <4>4. B # {} => Max(B) \in D
        <5>1. B \subseteq 1..n /\ B \subseteq D
          BY <1>9
        <5> HIDE DEF B
        <5> QED
          BY <1>1, <5>1, GreatestUpTo
      <4> QED
        BY <1>6, <4>1, <4>2, <4>3, <4>4
    <3> QED
      BY <3>1, <3>2
  <2> QED
    BY <2>6, <2>7 DEF Connected, next
<1> QED
  BY <1>10, <1>11

-----------------------------------------------------------------------------
(* The entries                                                             *)
LEMMA ListAppended ==
  ASSUME NEW s, IsList(s), NEW e
  PROVE  /\ IsList(Append(s, e)) /\ Len(s) \in Nat
         /\ DOMAIN s = 1..Len(s) /\ DOMAIN Append(s, e) = 1..(Len(s) + 1)
         /\ Append(s, e)[Len(s) + 1] = e
         /\ \A k \in 1..Len(s) : Append(s, e)[k] = s[k]
<1> DEFINE n == Len(s)
           t == Append(s, e)
<1>1. n \in Nat /\ s = [k \in 1..n |-> s[k]]
  BY DEF IsList
<1> HIDE DEF n
<1>2. t = [k \in 1..(n + 1) |-> IF k = n + 1 THEN e ELSE s[k]]
  BY <1>1, AppendAny
<1> HIDE DEF t
<1> DEFINE S == {t[k] : k \in 1..(n + 1)}
<1>3. t \in Seq(S) /\ DOMAIN t = 1..(n + 1)
  <2>1. DOMAIN t = 1..(n + 1) /\ t = [k \in DOMAIN t |-> t[k]] /\ \A k \in 1..(n + 1) : t[k] \in S
    BY <1>2
  <2> HIDE DEF S
  <2>2. t \in [1..(n + 1) -> S]
    BY <2>1
  <2> QED
    BY <1>1, <2>1, <2>2
<1> HIDE DEF S
<1>4. Len(t) = n + 1 /\ t = [k \in 1..(n + 1) |-> t[k]]
  BY <1>1, <1>2, <1>3, LenProperties
<1>5. IsList(t)
  BY <1>1, <1>4 DEF IsList
<1>6. DOMAIN s = 1..n
  BY <1>1
<1>7. n + 1 \in 1..(n + 1) /\ \A k \in 1..n : k \in 1..(n + 1) /\ k # n + 1
  BY <1>1
<1>8. t[n + 1] = e /\ \A k \in 1..n : t[k] = s[k]
  BY <1>2, <1>7
<1> QED
  BY <1>1, <1>3, <1>5, <1>6, <1>8 DEF n, t

LEMMA CoreFacts ==
  ASSUME CoreInv
  PROVE  /\ Len(coreEntries) \in Nat /\ DOMAIN coreEntries = 1..Len(coreEntries)
         /\ coreEntries = [k \in 1..Len(coreEntries) |-> coreEntries[k]]
         /\ IsFiniteSet(PostedIn) /\ PostedIn \subseteq DOMAIN coreEntries
<1>1. /\ Len(coreEntries) \in Nat
      /\ coreEntries = [k \in 1..Len(coreEntries) |-> coreEntries[k]]
  BY DEF CoreInv, IsList
<1>2. DOMAIN coreEntries = 1..Len(coreEntries)
  BY <1>1
<1>3. IsFiniteSet(1..Len(coreEntries)) /\ PostedIn \in SUBSET (1..Len(coreEntries))
  <2>1. IsFiniteSet(1..Len(coreEntries))
    BY <1>1, FS_Interval
  <2>2. PostedIn \subseteq DOMAIN coreEntries
    BY DEF PostedIn
  <2> QED
    BY <1>2, <2>1, <2>2
<1> QED
  BY <1>1, <1>2, <1>3, FS_Subset

Posts(i, ls) ==
    /\ coreBalances' = [a \in CoreAccounts |-> coreBalances[a] + Delta(ls, a)]
    /\ coreHistory' = Append(coreHistory, HistoryRows(i, ls))

(* A step that posts one entry, whether it was there before or is new.     *)
LEMMA PostingKept ==
  ASSUME CoreInv, NEW i, NEW ls, Balanced(ls), Posts(i, ls),
         i \notin PostedIn, PostedIn' = PostedIn \union {i}, coreEntries'[i].lines = ls,
         \A j \in PostedIn : coreEntries'[j].lines = coreEntries[j].lines,
         IsList(coreEntries)', \A j \in DOMAIN coreEntries' : CoreEntryInv(j)'
  PROVE  CoreInv'
<1>1. IsList(coreHistory)'
  <2>1. IsList(Append(coreHistory, HistoryRows(i, ls)))
    BY ListAppended DEF CoreInv
  <2> QED
    BY <2>1 DEF IsList, Posts
<1>2. ASSUME NEW a \in CoreAccounts
      PROVE  Delta(ls, a) \in Int /\ \A j \in PostedIn : Delta(coreEntries[j].lines, a) \in Int
  BY <1>2, CoreFacts, Deltas DEF CoreInv, CoreEntryInv
<1>3. coreBalances' \in [CoreAccounts -> Int] /\ coreBalances \in [CoreAccounts -> Int]
  BY <1>2 DEF CoreInv, Posts
<1>4. ASSUME NEW a \in CoreAccounts
      PROVE  /\ Connected(Traces(coreHistory', a))
             /\ EndsIn(Traces(coreHistory', a), coreBalances'[a])
  <2>1. coreBalances'[a] = coreBalances[a] + Delta(ls, a) /\ coreBalances'[a] \in Int
    BY <1>3 DEF Posts
  <2> QED
    BY <2>1, TraceGrows DEF Posts
<1>5. ASSUME NEW a \in CoreAccounts
      PROVE  coreBalances'[a] = CoreTotal([j \in PostedIn' |-> Delta(coreEntries'[j].lines, a)])
  <2> DEFINE f == [j \in PostedIn |-> Delta(coreEntries[j].lines, a)]
             g == [j \in PostedIn' |-> Delta(coreEntries'[j].lines, a)]
  <2>1. /\ DOMAIN f = PostedIn /\ \A j \in PostedIn : f[j] \in Int
        /\ DOMAIN g = PostedIn \union {i} /\ g[i] = Delta(ls, a)
        /\ \A j \in PostedIn : g[j] = f[j]
    BY <1>2
  <2>2. coreBalances[a] = CoreTotal(f) /\ coreBalances'[a] = coreBalances[a] + Delta(ls, a)
    BY DEF CoreInv, Posts
  <2>3. IsFiniteSet(PostedIn) /\ Delta(ls, a) \in Int
    BY <1>2, CoreFacts
  <2> HIDE DEF f, g
  <2> DEFINE P == PostedIn
             Q == P \union {i}
  <2>4. CoreTotal(f) = SumOver(f, P) /\ CoreTotal(g) = SumOver(g, Q)
    BY <2>1, CoreTotals
  <2>5. /\ IsFiniteSet(P) /\ IsFiniteSet(Q) /\ i \in Q /\ Q \ {i} = P
        /\ \A j \in Q : g[j] \in Int
        /\ \A j \in P : g[j] = f[j] /\ f[j] \in Int
    BY <2>1, <2>3, FS_AddElement
  <2> HIDE DEF P, Q
  <2>6. SumOver(g, Q) = g[i] + SumOver(g, P)
    <3>1. SumOver(g, Q) = g[i] + SumOver(g, Q \ {i})
      BY <2>5, SumRemove
    <3> QED
      BY <2>5, <3>1
  <2>7. SumOver(g, P) = SumOver(f, P) /\ SumOver(f, P) \in Int
    BY <2>5, SumSame, SumType
  <2>8. CoreTotal(g) = CoreTotal(f) + g[i]
    BY <2>1, <2>3, <2>4, <2>6, <2>7
  <2> QED
    BY <2>1, <2>2, <2>8 DEF g
<1> QED
  BY <1>1, <1>3, <1>4, <1>5 DEF CoreInv

(* A step that posts nothing.                                              *)
LEMMA NothingPosted ==
  ASSUME CoreInv, coreBalances' = coreBalances, coreHistory' = coreHistory,
         PostedIn' = PostedIn,
         \A j \in PostedIn : coreEntries'[j].lines = coreEntries[j].lines,
         IsList(coreEntries)', \A j \in DOMAIN coreEntries' : CoreEntryInv(j)'
  PROVE  CoreInv'
<1>1. ASSUME NEW a \in CoreAccounts
      PROVE  coreBalances'[a] = CoreTotal([j \in PostedIn' |-> Delta(coreEntries'[j].lines, a)])
  <2>1. [j \in PostedIn' |-> Delta(coreEntries'[j].lines, a)]
           = [j \in PostedIn |-> Delta(coreEntries[j].lines, a)]
    OBVIOUS
  <2> QED
    BY <2>1 DEF CoreInv
<1> QED
  BY <1>1 DEF CoreInv, IsList

(* An entry that is there stays as sound as it was while it and what it     *)
(* reverses keep their contents.                                            *)
LEMMA EntryKept ==
  ASSUME CoreInv, NEW j \in DOMAIN coreEntries, coreEntries'[j] = coreEntries[j],
         PostedIn \subseteq PostedIn',
         \A k \in PostedIn : coreEntries'[k].lines = coreEntries[k].lines
  PROVE  CoreEntryInv(j)'
<1>1. CoreEntryInv(j)
  BY DEF CoreInv
<1> DEFINE e == coreEntries[j]
<1>2. e.type = "REVERSAL" =>
        /\ {j, e.reversalOf} \subseteq PostedIn'
        /\ e.lines = Exchanged(coreEntries'[e.reversalOf].lines)
  BY <1>1 DEF CoreEntryInv
<1> QED
  BY <1>1, <1>2 DEF CoreEntryInv

(* A new entry comes behind the others; what it is decides the rest.       *)
LEMMA EntryAdded ==
  ASSUME CoreInv, NEW type \in {"MANUAL", "RECEIPT", "REVERSAL"}, NEW status \in {"DRAFT", "POSTED"},
         NEW ls, Balanced(ls), NEW original, NEW reference, NEW e,
         e = [reference |-> reference, type |-> type, status |-> status,
              lines |-> ls, reversalOf |-> original],
         coreEntries' = Append(coreEntries, e),
         type = "REVERSAL" => /\ status = "POSTED" /\ original \in PostedIn
                              /\ ls = Exchanged(coreEntries[original].lines)
  PROVE  LET n == Len(coreEntries) + 1
         IN  /\ IsList(coreEntries)' /\ n \notin PostedIn /\ coreEntries'[n].lines = ls
             /\ \A j \in PostedIn : coreEntries'[j].lines = coreEntries[j].lines
             /\ PostedIn' = IF status = "POSTED" THEN PostedIn \union {n} ELSE PostedIn
             /\ \A j \in DOMAIN coreEntries' : CoreEntryInv(j)'
<1> DEFINE m  == Len(coreEntries)
           n  == m + 1
           es == coreEntries'
<1>1. /\ IsList(es) /\ m \in Nat /\ DOMAIN coreEntries = 1..m /\ DOMAIN es = 1..n
      /\ es[n] = e /\ \A k \in 1..m : es[k] = coreEntries[k]
  <2>1. IsList(coreEntries) /\ es = Append(coreEntries, e)
    BY DEF CoreInv
  <2> HIDE DEF es
  <2> HIDE DEF m, n
  <2>2. /\ IsList(Append(coreEntries, e)) /\ Len(coreEntries) \in Nat
        /\ DOMAIN coreEntries = 1..Len(coreEntries)
        /\ DOMAIN Append(coreEntries, e) = 1..(Len(coreEntries) + 1)
        /\ Append(coreEntries, e)[Len(coreEntries) + 1] = e
        /\ \A k \in 1..Len(coreEntries) : Append(coreEntries, e)[k] = coreEntries[k]
    BY <2>1, ListAppended
  <2> QED
    BY <2>1, <2>2 DEF m, n
<1>2. IsList(coreEntries)'
  BY <1>1
<1>3. /\ e.type = type /\ e.status = status /\ e.lines = ls /\ e.reversalOf = original
      /\ e \in [reference: {e.reference}, type: {"MANUAL", "RECEIPT", "REVERSAL"},
                status: {"DRAFT", "POSTED"}, lines: {e.lines}, reversalOf: {e.reversalOf}]
  OBVIOUS
<1>4. /\ PostedIn = {k \in 1..m : coreEntries[k].status = "POSTED"}
      /\ PostedIn' = {k \in 1..n : es[k].status = "POSTED"}
  BY <1>1 DEF PostedIn
<1> HIDE DEF m, es
<1>5. n \notin PostedIn /\ \A k \in 1..n : k = n \/ k \in 1..m
  BY <1>1, <1>4
<1>6. PostedIn' = IF status = "POSTED" THEN PostedIn \union {n} ELSE PostedIn
  <2>1. n \in 1..n /\ \A k \in 1..m : k \in 1..n
    BY <1>1
  <2> HIDE DEF n
  <2> QED
    BY <1>1, <1>3, <1>4, <1>5, <2>1
<1>7. \A j \in PostedIn : es[j] = coreEntries[j]
  BY <1>1, <1>4
<1>8. ASSUME NEW j \in 1..n PROVE CoreEntryInv(j)'
  <2>1. CASE j = n
    <3>1. type = "REVERSAL" =>
            /\ {n, original} \subseteq PostedIn' /\ ls = Exchanged(es[original].lines)
      BY <1>6, <1>7
    <3>2. es[j] = e /\ (e.type = "REVERSAL" => /\ {j, e.reversalOf} \subseteq PostedIn'
                                              /\ e.lines = Exchanged(es[e.reversalOf].lines))
      BY <1>1, <1>3, <2>1, <3>1
    <3>3. Balanced(e.lines)
      BY <1>3
    <3> QED
      BY <1>3, <3>2, <3>3 DEF CoreEntryInv, es
  <2>2. CASE j # n
    <3>1. j \in DOMAIN coreEntries /\ coreEntries'[j] = coreEntries[j]
      BY <1>1, <1>5, <2>2 DEF es
    <3>2. PostedIn \subseteq PostedIn'
      BY <1>6
    <3> QED
      BY <1>7, <3>1, <3>2, EntryKept DEF es
  <2> QED
    BY <2>1, <2>2
<1> QED
  BY <1>1, <1>2, <1>3, <1>5, <1>6, <1>7, <1>8 DEF m, es

LEMMA CoreInvInit == CoreInit => CoreInv
<1> SUFFICES ASSUME CoreInit PROVE CoreInv
  OBVIOUS
<1>1. IsList(<< >>) /\ DOMAIN << >> = {}
  <2>1. Len(<< >>) = 0 /\ << >> = [k \in 1..0 |-> << >>[k]]
    BY EmptySeq
  <2> QED
    BY <2>1 DEF IsList
<1>2. PostedIn = {}
  BY <1>1 DEF CoreInit, PostedIn
<1>3. ASSUME NEW a \in CoreAccounts
      PROVE  /\ coreBalances[a] = CoreTotal([i \in PostedIn |-> Delta(coreEntries[i].lines, a)])
             /\ Connected(Traces(coreHistory, a))
             /\ EndsIn(Traces(coreHistory, a), coreBalances[a])
  <2> DEFINE f == [i \in PostedIn |-> Delta(coreEntries[i].lines, a)]
  <2>1. DOMAIN f = {} /\ IsFiniteSet({})
    BY <1>2, FS_EmptySet
  <2> HIDE DEF f
  <2>2. CoreTotal(f) = 0
    BY <2>1, CoreTotals, SumZero
  <2>3. DOMAIN Traces(coreHistory, a) = {}
    BY <1>1 DEF CoreInit, Traces
  <2>4. coreBalances[a] = 0
    BY DEF CoreInit
  <2> QED
    BY <2>2, <2>3, <2>4 DEF Connected, EndsIn, f
<1> QED
  BY <1>1, <1>3 DEF CoreInit, CoreInv

LEMMA CoreStep == CoreInv /\ [CoreNext]_coreVars => CoreInv'
<1> SUFFICES ASSUME CoreInv, [CoreNext]_coreVars PROVE CoreInv'
  OBVIOUS
<1>1. ASSUME coreEntries' = coreEntries, coreBalances' = coreBalances, coreHistory' = coreHistory
      PROVE  CoreInv'
  BY <1>1 DEF CoreInv, IsList, CoreEntryInv, PostedIn
<1>2. ASSUME NEW r \in CoreRequests, CreateCoreEntry(r)
      PROVE  CoreInv'
  <2> DEFINE e == NewCoreEntry(r.type, Minor(r.lines), 0)
  <2>1. /\ Balanced(Minor(r.lines)) /\ r.type \in {"MANUAL", "RECEIPT"}
        /\ coreEntries' = Append(coreEntries, e)
        /\ coreBalances' = coreBalances /\ coreHistory' = coreHistory
    BY <1>2, CoreAssumption, RequestBalances DEF CreateCoreEntry
  <2>2. e = [reference |-> referenceSeq + 1, type |-> r.type, status |-> "DRAFT",
             lines |-> Minor(r.lines), reversalOf |-> 0]
    BY DEF NewCoreEntry
  <2> HIDE DEF e
  <2>3. /\ IsList(coreEntries)' /\ PostedIn' = PostedIn
        /\ \A j \in PostedIn : coreEntries'[j].lines = coreEntries[j].lines
        /\ \A j \in DOMAIN coreEntries' : CoreEntryInv(j)'
    BY <2>1, <2>2, EntryAdded
  <2> QED
    BY <2>1, <2>3, NothingPosted
<1>3. ASSUME NEW i \in DOMAIN coreEntries, PostCoreEntry(i)
      PROVE  CoreInv'
  <2> DEFINE e == coreEntries[i]
             d == [e EXCEPT !.status = "POSTED"]
  <2>1. /\ e.status = "DRAFT" /\ Posts(i, e.lines) /\ CoreEntryInv(i)
        /\ coreEntries' = [coreEntries EXCEPT ![i] = d]
    BY <1>3 DEF PostCoreEntry, Postable, Posts, CoreInv
  <2>2. /\ d.lines = e.lines /\ d.type = e.type /\ d.reversalOf = e.reversalOf
        /\ d.status = "POSTED" /\ Balanced(e.lines)
        /\ e.type # "REVERSAL"
        /\ d \in [reference: {d.reference}, type: {"MANUAL", "RECEIPT", "REVERSAL"},
                  status: {"DRAFT", "POSTED"}, lines: {d.lines}, reversalOf: {d.reversalOf}]
    BY <2>1 DEF CoreEntryInv, PostedIn
  <2>3. /\ IsList(coreEntries)' /\ DOMAIN coreEntries' = DOMAIN coreEntries
        /\ coreEntries'[i] = d /\ \A j \in DOMAIN coreEntries \ {i} : coreEntries'[j] = coreEntries[j]
    <3> DEFINE n  == Len(coreEntries)
               es == coreEntries'
               S  == {es[k] : k \in 1..n}
    <3>1. n \in Nat /\ coreEntries = [k \in 1..n |-> coreEntries[k]] /\ DOMAIN coreEntries = 1..n
      BY CoreFacts
    <3>2. es = [k \in 1..n |-> IF k = i THEN d ELSE coreEntries[k]]
      BY <2>1, <3>1
    <3> HIDE DEF n, es, d
    <3>3. es \in Seq(S) /\ DOMAIN es = 1..n
      BY <3>1, <3>2
    <3> HIDE DEF S
    <3>4. Len(es) = n /\ es = [k \in 1..n |-> es[k]]
      BY <3>1, <3>2, <3>3, LenProperties
    <3> QED
      BY <3>1, <3>2, <3>3, <3>4 DEF IsList, es
  <2>4. i \notin PostedIn
    BY <2>1 DEF PostedIn
  <2> HIDE DEF d, e
  <2>5. PostedIn' = PostedIn \union {i}
    BY <2>2, <2>3 DEF PostedIn
  <2>6. \A j \in PostedIn : coreEntries'[j] = coreEntries[j]
    BY <2>3, <2>4, CoreFacts
  <2>7. ASSUME NEW j \in DOMAIN coreEntries PROVE CoreEntryInv(j)'
    <3>1. CASE j = i
      BY <2>2, <2>3, <3>1 DEF CoreEntryInv
    <3>2. CASE j # i
      BY <2>3, <2>5, <2>6, <3>2, EntryKept
    <3> QED
      BY <3>1, <3>2
  <2> QED
    BY <2>1, <2>2, <2>3, <2>4, <2>5, <2>6, <2>7, PostingKept
<1>4. ASSUME NEW i \in DOMAIN coreEntries, ReverseCoreEntry(i)
      PROVE  CoreInv'
  <2> DEFINE ls == Exchanged(coreEntries[i].lines)
             e  == [NewCoreEntry("REVERSAL", ls, i) EXCEPT !.status = "POSTED"]
             n  == Len(coreEntries) + 1
  <2>1. Postable(NewCoreEntry("REVERSAL", ls, i))
    BY NothingBlocked DEF Postable, NewCoreEntry
  <2>2. /\ i \in PostedIn /\ Posts(n, ls) /\ coreEntries' = Append(coreEntries, e)
    BY <1>4, <2>1 DEF ReverseCoreEntry, Posts, PostedIn
  <2>3. Balanced(ls)
    BY ExchangedBalance DEF CoreInv, CoreEntryInv
  <2>4. e = [reference |-> referenceSeq + 1, type |-> "REVERSAL", status |-> "POSTED",
             lines |-> ls, reversalOf |-> i]
    BY DEF NewCoreEntry
  <2>5. ls = Exchanged(coreEntries[i].lines)
    OBVIOUS
  <2> HIDE DEF e, ls
  <2>6. /\ IsList(coreEntries)' /\ n \notin PostedIn /\ coreEntries'[n].lines = ls
        /\ \A j \in PostedIn : coreEntries'[j].lines = coreEntries[j].lines
        /\ PostedIn' = PostedIn \union {n}
        /\ \A j \in DOMAIN coreEntries' : CoreEntryInv(j)'
    BY <2>2, <2>3, <2>4, <2>5, EntryAdded
  <2> HIDE DEF n
  <2> QED
    BY <2>2, <2>3, <2>6, PostingKept
<1>5. ASSUME \/ \E r \in CoreRequests : RefuseCoreEntry(r)
             \/ \E m \in PartyNames : CreateCoreParty(m)
             \/ UNCHANGED coreVars
      PROVE  CoreInv'
  BY <1>1, <1>5 DEF RefuseCoreEntry, CreateCoreParty, coreVars
<1> QED
  BY <1>2, <1>3, <1>4, <1>5 DEF CoreNext

(* The second engine reconciles: balances, posted lines and history agree,  *)
(* the trial balance balances, and a reversal cancels what it reverses,     *)
(* although nobody looks at the verdict of its posting; for any accounts,   *)
(* requests and bounds (postEntry, reverseEntry, trialBalance).             *)
THEOREM CoreBooksReconcile == CoreSpec => []CoreReconciles
<1>1. CoreInv => CoreReconciles
  <2> SUFFICES ASSUME CoreInv PROVE CoreReconciles
    OBVIOUS
  <2>1. \A i \in PostedIn : SideTotal(coreEntries[i].lines, "debit")
                                = SideTotal(coreEntries[i].lines, "credit")
    BY CoreFacts DEF CoreInv, CoreEntryInv, Balanced
  <2>2. [i \in PostedIn |-> SideTotal(coreEntries[i].lines, "debit")]
          = [i \in PostedIn |-> SideTotal(coreEntries[i].lines, "credit")]
    BY <2>1
  <2>3. CoreBalancesReconcile
    BY <2>2, TracesAre DEF CoreInv, CoreBalancesReconcile, Connected, EndsIn
  <2>4. ASSUME NEW i \in DOMAIN coreEntries, coreEntries[i].type = "REVERSAL"
        PROVE  LET o == coreEntries[i].reversalOf
               IN  /\ {i, o} \subseteq PostedIn
                   /\ \A a \in CoreAccounts :
                        Delta(coreEntries[i].lines, a) + Delta(coreEntries[o].lines, a) = 0
    <3> DEFINE o == coreEntries[i].reversalOf
    <3>1. {i, o} \subseteq PostedIn /\ coreEntries[i].lines = Exchanged(coreEntries[o].lines)
      BY <2>4 DEF CoreInv, CoreEntryInv
    <3>2. Balanced(coreEntries[o].lines)
      BY <3>1, CoreFacts DEF CoreInv, CoreEntryInv
    <3> QED
      BY <3>1, <3>2, Deltas
  <2> QED
    BY <2>3, <2>4 DEF CoreReconciles, CoreReversalsCancel
<1> QED
  BY <1>1, CoreInvInit, CoreStep, PTL DEF CoreSpec

-----------------------------------------------------------------------------
(***************************************************************************)
(* The types of these services                                             *)
(***************************************************************************)
(* A service rests while another one runs: a behaviour of them all is one   *)
(* of each.                                                                *)
LEMMA EachOnItsOwn == Spec => CoreSpec /\ CacheSpec /\ SwarmSpec /\ JulesSpec
<1>1. Init => CoreInit /\ CacheInit /\ SwarmInit /\ JulesInit
  BY DEF Init
<1>2. [Next]_servicesVars =>
        [CoreNext]_coreVars /\ [CacheNext]_cacheVars /\ [SwarmNext]_swarmVars /\ [JulesNext]_julesVars
  BY DEF Next, servicesVars
<1> QED
  BY <1>1, <1>2, PTL DEF Spec, CoreSpec, CacheSpec, SwarmSpec, JulesSpec

(* An accepted request has lines of one side each; so has its reversal.     *)
OneSided(ls) ==
    /\ \E a, b \in DOMAIN ls : a # b
    /\ \A a \in DOMAIN ls : ls[a].debit = 0 <=> ls[a].credit # 0

LEMMA SidedIsValid ==
  ASSUME NEW ls, Balanced(ls)
  PROVE  OneSided(ls) <=> ValidEntry(ls)
<1>1. \A a \in DOMAIN ls : /\ a \in CoreAccounts
                           /\ ls[a].debit \in Nat /\ ls[a].credit \in Nat
  BY DEF Balanced
<1>2. \A a \in DOMAIN ls : ls[a].debit >= 0 /\ ls[a].credit >= 0
  BY <1>1
<1>3. SideTotal(ls, "debit") = SideTotal(ls, "credit")
  BY DEF Balanced
<1> QED
  BY <1>1, <1>2, <1>3 DEF OneSided, ValidEntry

CoreTyped ==
    /\ CoreInv
    /\ \A i \in DOMAIN coreEntries :
         /\ coreEntries[i].reference \in 1..referenceSeq
         /\ OneSided(coreEntries[i].lines)
         /\ coreEntries[i].reversalOf \in 0..(i - 1)
    /\ referenceSeq \in 0..MaxReferences
    /\ coreParties \subseteq PartyNames

LEMMA CoreEntryAppended ==
  ASSUME CoreTyped, CoreInv', NEW e, coreEntries' = Append(coreEntries, e),
         referenceSeq' = referenceSeq + 1, referenceSeq < MaxReferences,
         e.reference = referenceSeq + 1, OneSided(e.lines),
         e.reversalOf \in {0} \union DOMAIN coreEntries, coreParties' = coreParties
  PROVE  CoreTyped'
<1> DEFINE n == Len(coreEntries)
<1>1. n \in Nat /\ DOMAIN coreEntries = 1..n
  BY CoreFacts DEF CoreTyped
<1>2. /\ DOMAIN coreEntries' = 1..(n + 1) /\ coreEntries'[n + 1] = e
      /\ \A k \in 1..n : coreEntries'[k] = coreEntries[k]
  BY ListAppended DEF CoreTyped, CoreInv
<1>3. referenceSeq \in 0..MaxReferences /\ MaxReferences \in Nat
  BY CoreAssumption DEF CoreTyped
<1> HIDE DEF n
<1>4. ASSUME NEW i \in 1..(n + 1)
      PROVE  /\ coreEntries'[i].reference \in 1..referenceSeq'
             /\ OneSided(coreEntries'[i].lines)
             /\ coreEntries'[i].reversalOf \in 0..(i - 1)
  <2>1. CASE i = n + 1
    BY <1>1, <1>2, <1>3, <2>1
  <2>2. CASE i # n + 1
    <3>1. i \in 1..n
      BY <1>1, <2>2
    <3>2. /\ coreEntries[i].reference \in 1..referenceSeq /\ OneSided(coreEntries[i].lines)
          /\ coreEntries[i].reversalOf \in 0..(i - 1)
      BY <1>1, <3>1 DEF CoreTyped
    <3>3. coreEntries'[i] = coreEntries[i]
      BY <1>2, <3>1
    <3>4. 1..referenceSeq \subseteq 1..referenceSeq'
      BY <1>3
    <3> QED
      BY <3>2, <3>3, <3>4
  <2> QED
    BY <2>1, <2>2
<1>5. referenceSeq' \in 0..MaxReferences
  BY <1>3
<1> QED
  BY <1>2, <1>4, <1>5 DEF CoreTyped, OneSided

LEMMA CoreTypedStep == CoreTyped /\ [CoreNext]_coreVars => CoreTyped'
<1> SUFFICES ASSUME CoreTyped, [CoreNext]_coreVars PROVE CoreTyped'
  OBVIOUS
<1>1. CoreInv /\ CoreInv'
  BY CoreStep DEF CoreTyped
<1>2. ASSUME NEW r \in CoreRequests, CreateCoreEntry(r)
      PROVE  CoreTyped'
  <2> DEFINE ls == Minor(r.lines)
  <2>1. Balanced(ls) /\ ValidEntry(ls)
    BY CoreAssumption, RequestBalances
  <2>2. OneSided(ls)
    BY <2>1, SidedIsValid
  <2> HIDE DEF ls
  <2>3. /\ coreEntries' = Append(coreEntries, NewCoreEntry(r.type, ls, 0))
        /\ referenceSeq' = referenceSeq + 1 /\ referenceSeq < MaxReferences
        /\ coreParties' = coreParties
    BY <1>2 DEF CreateCoreEntry, ls
  <2> QED
    BY <1>1, <2>2, <2>3, CoreEntryAppended DEF NewCoreEntry
<1>3. ASSUME NEW i \in DOMAIN coreEntries, PostCoreEntry(i)
      PROVE  CoreTyped'
  <2>1. coreEntries' = [coreEntries EXCEPT ![i] = [coreEntries[i] EXCEPT !.status = "POSTED"]]
        /\ UNCHANGED <<referenceSeq, coreParties>>
    BY <1>3 DEF PostCoreEntry
  <2>2. DOMAIN coreEntries' = DOMAIN coreEntries
    BY <2>1
  <2>3. ASSUME NEW j \in DOMAIN coreEntries
        PROVE  /\ coreEntries'[j].reference = coreEntries[j].reference
               /\ coreEntries'[j].lines = coreEntries[j].lines
               /\ coreEntries'[j].reversalOf = coreEntries[j].reversalOf
    BY <2>1
  <2> QED
    BY <1>1, <2>1, <2>2, <2>3 DEF CoreTyped
<1>4. ASSUME NEW i \in DOMAIN coreEntries, ReverseCoreEntry(i)
      PROVE  CoreTyped'
  <2> DEFINE ls == Exchanged(coreEntries[i].lines)
             e  == [NewCoreEntry("REVERSAL", ls, i) EXCEPT !.status = "POSTED"]
  <2>1. Postable(NewCoreEntry("REVERSAL", ls, i))
    BY NothingBlocked DEF Postable, NewCoreEntry
  <2>2. /\ coreEntries' = Append(coreEntries, e) /\ referenceSeq' = referenceSeq + 1
        /\ referenceSeq < MaxReferences /\ coreParties' = coreParties
    BY <1>4, <2>1 DEF ReverseCoreEntry
  <2>3. OneSided(ls)
    <3>1. OneSided(coreEntries[i].lines) /\ Balanced(coreEntries[i].lines)
      BY <1>1 DEF CoreTyped, CoreInv, CoreEntryInv
    <3>2. \A a \in DOMAIN ls : /\ a \in DOMAIN coreEntries[i].lines
                               /\ ls[a].debit = coreEntries[i].lines[a].credit
                               /\ ls[a].credit = coreEntries[i].lines[a].debit
                               /\ coreEntries[i].lines[a].debit \in Nat
                               /\ coreEntries[i].lines[a].credit \in Nat
      BY <3>1 DEF Exchanged, Balanced
    <3>3. DOMAIN ls = DOMAIN coreEntries[i].lines
      BY DEF Exchanged
    <3> QED
      BY <3>1, <3>2, <3>3 DEF OneSided
  <2> HIDE DEF ls
  <2>4. e.reference = referenceSeq + 1 /\ e.lines = ls /\ e.reversalOf = i
    BY DEF NewCoreEntry
  <2> HIDE DEF e
  <2> QED
    BY <1>1, <2>2, <2>3, <2>4, CoreEntryAppended
<1>5. ASSUME \/ \E r \in CoreRequests : RefuseCoreEntry(r)
             \/ \E m \in PartyNames : CreateCoreParty(m)
             \/ UNCHANGED coreVars
      PROVE  CoreTyped'
  <2>1. /\ coreEntries' = coreEntries
        /\ referenceSeq' = referenceSeq \/ (referenceSeq' = referenceSeq + 1 /\ referenceSeq < MaxReferences)
        /\ coreParties' \subseteq coreParties \union PartyNames
    BY <1>5 DEF RefuseCoreEntry, CreateCoreParty, coreVars
  <2>2. referenceSeq \in 0..MaxReferences /\ MaxReferences \in Nat /\ coreParties \subseteq PartyNames
    BY CoreAssumption DEF CoreTyped
  <2>3. referenceSeq' \in 0..MaxReferences /\ 1..referenceSeq \subseteq 1..referenceSeq'
    BY <2>1, <2>2
  <2> QED
    BY <1>1, <2>1, <2>2, <2>3 DEF CoreTyped, OneSided
<1> QED
  BY <1>2, <1>3, <1>4, <1>5 DEF CoreNext

LEMMA CoreIsTyped == CoreSpec => []CoreTypeOK
<1>1. CoreInit => CoreTyped
  <2> SUFFICES ASSUME CoreInit PROVE CoreTyped
    OBVIOUS
  <2>1. CoreInv /\ DOMAIN coreEntries = {} /\ referenceSeq \in 0..MaxReferences
    <3>1. DOMAIN coreEntries = {}
      BY DEF CoreInit
    <3>2. referenceSeq \in 0..MaxReferences
      BY CoreAssumption DEF CoreInit
    <3> QED
      BY <3>1, <3>2, CoreInvInit
  <2> QED
    BY <2>1 DEF CoreTyped, CoreInit
<1>2. CoreTyped => CoreTypeOK
  <2> SUFFICES ASSUME CoreTyped PROVE CoreTypeOK
    OBVIOUS
  <2>1. ASSUME NEW i \in DOMAIN coreEntries
        PROVE  LET e == coreEntries[i]
               IN  /\ e.reference \in 1..referenceSeq
                   /\ e.type \in {"MANUAL", "RECEIPT", "REVERSAL"}
                   /\ e.status \in {"DRAFT", "POSTED"}
                   /\ ValidEntry(e.lines)
                   /\ e.reversalOf \in 0..(i - 1)
    <3>1. CoreEntryInv(i) /\ OneSided(coreEntries[i].lines)
      BY DEF CoreTyped, CoreInv
    <3>2. ValidEntry(coreEntries[i].lines)
      BY <3>1, SidedIsValid DEF CoreEntryInv
    <3>3. coreEntries[i].type \in {"MANUAL", "RECEIPT", "REVERSAL"}
          /\ coreEntries[i].status \in {"DRAFT", "POSTED"}
      BY <3>1 DEF CoreEntryInv
    <3> QED
      BY <3>2, <3>3 DEF CoreTyped
  <2> QED
    BY <2>1 DEF CoreTyped, CoreInv, CoreTypeOK
<1> QED
  BY <1>1, <1>2, CoreTypedStep, PTL DEF CoreSpec

-----------------------------------------------------------------------------
(* A window waits for an operation there is, the cache names none but such, *)
(* and one that still runs holds the lock.                                 *)
IsPage(p) ==
    p \in [nonce: {p.nonce}, approvalFor: {p.approvalFor}, plan: {p.plan},
           awaiting: {p.awaiting}, waits: {p.waits}]

PagesTyped ==
    /\ pages = [w \in Windows |-> pages[w]]
    /\ \A w \in Windows : IsPage(pages[w]) /\ pages[w].waits \in 0..Len(operations)

CacheNames == \A x \in DOMAIN mutations : mutations[x].op \in DOMAIN operations

LockRuns ==
    \/ locked = 0
    \/ locked \in DOMAIN operations /\ operations[locked].phase \in Running

JulesTyped == OnceInv /\ PagesTyped /\ CacheNames /\ LockRuns

LEMMA OperationCount ==
  ASSUME OnceInv
  PROVE  Len(operations) \in Nat /\ DOMAIN operations = 1..Len(operations)
BY DEF OnceInv, Shape

LEMMA PageUnsettles ==
  ASSUME NEW page, IsPage(page)
  PROVE  IsPage(Unsettled(page)) /\ Unsettled(page).waits = 0
BY DEF IsPage, Unsettled

LEMMA PageSettles ==
  ASSUME NEW page, IsPage(page), NEW kind, NEW outcome
  PROVE  IsPage(PageAnswered(page, kind, outcome)) /\ PageAnswered(page, kind, outcome).waits = 0
<1>1. /\ IsPage(Unsettled(page)) /\ Unsettled(page).waits = 0
  BY PageUnsettles
<1> DEFINE u == Unsettled(page)
           message == [u.nonce EXCEPT !["message"] = IF kind = "approve" THEN @ ELSE 0]
           both    == [message EXCEPT !["create"] = IF kind = "create" THEN 0 ELSE @]
<1>2. Succeeded(page, kind) = [[u EXCEPT !.nonce = message] EXCEPT !.nonce = both]
  BY <1>1 DEF Succeeded, IsPage
<1> HIDE DEF u, message, both
<1>3. IsPage(Succeeded(page, kind)) /\ Succeeded(page, kind).waits = u.waits
  <2>1. IsPage(u)
    BY <1>1 DEF u
  <2> QED
    BY <1>2, <2>1 DEF IsPage
<1> QED
  BY <1>1, <1>3 DEF PageAnswered, u

LEMMA PageRequests ==
  ASSUME NEW page, IsPage(page), NEW kind
  PROVE  IsPage(Requested(page, kind)) /\ Requested(page, kind).waits = page.waits
<1> DEFINE nonce == [page.nonce EXCEPT ![kind] = RequestId(page, kind)]
<1>1. Requested(page, kind)
        = [[page EXCEPT !.nonce = nonce] EXCEPT !.approvalFor = IF kind = "approve" THEN page.plan ELSE @]
  BY DEF Requested, IsPage
<1> HIDE DEF nonce
<1> QED
  BY <1>1 DEF IsPage

(* One window changes, and no operation goes away.                         *)
LEMMA WindowChanged ==
  ASSUME PagesTyped, OnceInv, OnceInv', Len(operations') >= Len(operations),
         NEW w \in Windows, NEW page, pages' = [pages EXCEPT ![w] = page],
         IsPage(page), page.waits \in 0..Len(operations')
  PROVE  PagesTyped'
<1>1. Len(operations) \in Nat /\ Len(operations') \in Nat
  BY DEF OnceInv, Shape
<1>2. 0..Len(operations) \subseteq 0..Len(operations')
  BY <1>1
<1>3. pages' = [v \in Windows |-> IF v = w THEN page ELSE pages[v]]
  BY DEF PagesTyped
<1>4. \A v \in Windows : pages'[v] = IF v = w THEN page ELSE pages[v]
  BY <1>3
<1>5. \A v \in Windows : IsPage(pages'[v]) /\ pages'[v].waits \in 0..Len(operations')
  BY <1>2, <1>4 DEF PagesTyped
<1>6. pages' = [v \in Windows |-> pages'[v]]
  BY <1>3
<1> QED
  BY <1>5, <1>6 DEF PagesTyped, IsPage

LEMMA RunTyped ==
  ASSUME JulesTyped, OnceInv', NEW w \in Windows, NEW kind, NEW payload, Run(w, kind, payload)
  PROVE  JulesTyped'
<1> DEFINE id   == <<kind, RequestId(pages[w], kind)>>
           page == Requested(pages[w], kind)
           n    == Len(operations)
<1>1. n \in Nat /\ DOMAIN operations = 1..n
  BY OperationCount DEF JulesTyped
<1>2. IsPage(page) /\ IsPage(pages[w])
  BY PageRequests DEF JulesTyped, PagesTyped
<1>3. /\ DOMAIN Remembered \subseteq DOMAIN mutations
      /\ \A x \in DOMAIN Remembered : Remembered[x] = mutations[x]
  BY DEF Remembered, Restrict
<1>4. \A x \in DOMAIN Remembered : Remembered[x].op \in 1..n
  BY <1>1, <1>3 DEF JulesTyped, CacheNames
<1> HIDE DEF page, n, id
<1>5. ASSUME NEW new, pages' = [pages EXCEPT ![w] = new], IsPage(new), new.waits \in 0..n,
             mutations' = Remembered, UNCHANGED <<operations, locked>>
      PROVE  JulesTyped'
  <2>1. Len(operations') = n /\ n >= n
    BY <1>1, <1>5 DEF n
  <2>2. PagesTyped'
    BY <1>5, <2>1, WindowChanged DEF JulesTyped, n
  <2>3. CacheNames'
    BY <1>1, <1>4, <1>5 DEF CacheNames
  <2>4. LockRuns'
    BY <1>5 DEF JulesTyped, LockRuns, Running
  <2> QED
    BY <2>2, <2>3, <2>4 DEF JulesTyped
<1>6. CASE /\ TurnedAway(pages[w], kind, payload)
           /\ pages' = [pages EXCEPT ![w] = Unsettled(page)]
           /\ mutations' = Remembered
           /\ UNCHANGED <<operations, locked>>
  <2>1. IsPage(Unsettled(page)) /\ Unsettled(page).waits \in 0..n
    BY <1>1, <1>2, PageUnsettles
  <2> QED
    BY <1>5, <1>6, <2>1
<1>7. CASE /\ id \in DOMAIN Remembered
           /\ LET i == Remembered[id].op
              IN  pages' = [pages EXCEPT ![w] =
                      IF operations[i].phase \in Running THEN [page EXCEPT !.waits = i]
                      ELSE PageAnswered(page, kind, operations[i].phase)]
           /\ mutations' = Remembered
           /\ UNCHANGED <<operations, locked>>
  <2> DEFINE i == Remembered[id].op
             new == IF operations[i].phase \in Running THEN [page EXCEPT !.waits = i]
                    ELSE PageAnswered(page, kind, operations[i].phase)
  <2>1. i \in 1..n
    BY <1>4, <1>7
  <2>2. /\ IsPage([page EXCEPT !.waits = i]) /\ [page EXCEPT !.waits = i].waits = i
    BY <1>2 DEF IsPage
  <2>3. IsPage(new) /\ new.waits \in 0..n
    BY <1>1, <1>2, <2>1, <2>2, PageSettles
  <2> QED
    BY <1>5, <1>7, <2>3
<1>8. CASE /\ id \notin DOMAIN Remembered
           /\ LET i == Len(operations) + 1
              IN  /\ operations' = Append(operations,
                         [id |-> id, kind |-> kind, payload |-> payload, start |-> julesClock,
                          run |-> julesRun, phase |-> "begun", google |-> "no",
                          before |-> {}, started |-> 0, cause |-> 0, late |-> FALSE])
                  /\ mutations' = WithRequest(id, [payload |-> payload,
                         expires |-> julesClock + KeepFor, op |-> i])
                  /\ pages' = [pages EXCEPT ![w] = [page EXCEPT !.waits = i]]
                  /\ locked' = IF NeedsLock(kind) THEN i ELSE locked
  <2> DEFINE i == n + 1
             o == [id |-> id, kind |-> kind, payload |-> payload, start |-> julesClock,
                   run |-> julesRun, phase |-> "begun", google |-> "no",
                   before |-> {}, started |-> 0, cause |-> 0, late |-> FALSE]
             entry == [payload |-> payload, expires |-> julesClock + KeepFor, op |-> i]
  <2>1. o.phase \in Running /\ entry.op = i
    BY DEF Running
  <2>2. /\ operations' = Append(operations, o) /\ mutations' = WithRequest(id, entry)
        /\ pages' = [pages EXCEPT ![w] = [page EXCEPT !.waits = i]]
        /\ locked' \in {i, locked}
    BY <1>8 DEF n
  <2> HIDE DEF o, entry
  <2>3. operations' = [k \in 1..i |-> IF k = i THEN o ELSE operations[k]]
    BY <2>2, AppendOperation DEF JulesTyped, OnceInv, n
  <2>4. /\ Len(operations') = i /\ DOMAIN operations' = 1..i /\ operations'[i] = o
        /\ \A k \in 1..n : operations'[k] = operations[k] /\ k \in 1..i
    BY <1>1, <2>3
  <2>5. PagesTyped'
    <3>1. IsPage([page EXCEPT !.waits = i]) /\ [page EXCEPT !.waits = i].waits = i
      BY <1>2 DEF IsPage
    <3>2. i \in 0..Len(operations') /\ Len(operations') >= Len(operations)
      BY <1>1, <2>4 DEF n
    <3> QED
      BY <2>2, <3>1, <3>2, WindowChanged DEF JulesTyped
  <2>6. CacheNames'
    <3>1. mutations' = [x \in DOMAIN Remembered \union {id} |-> IF x = id THEN entry ELSE Remembered[x]]
      BY <2>2 DEF WithRequest
    <3>2. i \in 1..i
      BY <1>1
    <3> QED
      BY <1>4, <2>1, <2>4, <3>1, <3>2 DEF CacheNames
  <2>7. LockRuns'
    <3>1. i \in 1..i
      BY <1>1
    <3> QED
      BY <1>1, <2>1, <2>2, <2>4, <3>1 DEF JulesTyped, LockRuns, Running
  <2> QED
    BY <2>5, <2>6, <2>7 DEF JulesTyped
<1> QED
  BY <1>6, <1>7, <1>8 DEF Run, page, id

(* An operation goes on: no window and no entry of the cache is concerned. *)
LEMMA OperationTyped ==
  ASSUME JulesTyped, OnceInv', NEW i \in DOMAIN operations, NEW new,
         operations' = [operations EXCEPT ![i] = new],
         operations[i].phase \in Running => new.phase \in Running,
         UNCHANGED <<pages, mutations, locked>>
  PROVE  JulesTyped'
<1>1. /\ Len(operations') = Len(operations) /\ DOMAIN operations' = DOMAIN operations
      /\ \A k \in DOMAIN operations : operations'[k] = IF k = i THEN new ELSE operations[k]
  BY OneChanges DEF JulesTyped, OnceInv
<1>2. PagesTyped'
  BY <1>1 DEF JulesTyped, PagesTyped, IsPage
<1>3. CacheNames'
  BY <1>1 DEF JulesTyped, CacheNames
<1>4. LockRuns'
  BY <1>1 DEF JulesTyped, LockRuns, Running
<1> QED
  BY <1>2, <1>3, <1>4 DEF JulesTyped

LEMMA SettleTyped ==
  ASSUME JulesTyped, OnceInv', NEW i \in DOMAIN operations, NEW outcome, Settle(i, outcome)
  PROVE  JulesTyped'
<1> DEFINE new == [operations[i] EXCEPT !.phase = outcome,
                      !.google = IF outcome = "refused" THEN "no" ELSE @]
<1>1. operations' = [operations EXCEPT ![i] = new]
  BY DEF Settle
<1> HIDE DEF new
<1>2. /\ Len(operations') = Len(operations) /\ DOMAIN operations' = DOMAIN operations
      /\ \A k \in DOMAIN operations : k # i => operations'[k] = operations[k]
  BY <1>1, OneChanges DEF JulesTyped, OnceInv
<1>3. Len(operations) \in Nat /\ 0 \in 0..Len(operations)
  BY OperationCount DEF JulesTyped
<1>4. pages' = [w \in Windows |->
           IF pages[w].waits = i THEN PageAnswered(pages[w], operations[i].kind, outcome)
           ELSE pages[w]]
  BY DEF Settle
<1>5. ASSUME NEW w \in Windows
      PROVE  IsPage(pages'[w]) /\ pages'[w].waits \in 0..Len(operations)
  <2>1. IsPage(pages[w]) /\ pages[w].waits \in 0..Len(operations)
    BY DEF JulesTyped, PagesTyped
  <2>2. pages'[w] \in {PageAnswered(pages[w], operations[i].kind, outcome), pages[w]}
    BY <1>4
  <2> QED
    BY <1>3, <2>1, <2>2, PageSettles
<1>6. pages' = [w \in Windows |-> pages'[w]]
  BY <1>4
<1>7. PagesTyped'
  BY <1>2, <1>5, <1>6 DEF PagesTyped, IsPage
<1>8. CacheNames'
  <2>1. \A x \in DOMAIN mutations' : x \in DOMAIN mutations /\ mutations'[x] = mutations[x]
    BY DEF Settle, Restrict
  <2> QED
    BY <1>2, <2>1 DEF JulesTyped, CacheNames
<1>9. LockRuns'
  <2>1. locked' = IF locked = i THEN 0 ELSE locked
    BY DEF Settle, Unlocked
  <2> QED
    BY <1>2, <2>1 DEF JulesTyped, LockRuns, Running
<1> QED
  BY <1>7, <1>8, <1>9 DEF JulesTyped

LEMMA RestartTyped ==
  ASSUME JulesTyped, OnceInv', RestartServer
  PROVE  JulesTyped'
<1>1. Len(operations) \in Nat /\ DOMAIN operations = 1..Len(operations)
  BY OperationCount DEF JulesTyped
<1>2. DOMAIN operations' = DOMAIN operations
  BY DEF RestartServer
<1>3. Len(operations') = Len(operations) /\ 0 \in 0..Len(operations)
  <2>1. Len(operations') \in Nat /\ DOMAIN operations' = 1..Len(operations')
    BY DEF OnceInv, Shape
  <2> QED
    BY <1>1, <1>2, <2>1
<1>4. pages' = [w \in Windows |->
           IF pages[w].waits # 0 THEN Unsettled(pages[w]) ELSE pages[w]]
  BY DEF RestartServer
<1>5. ASSUME NEW w \in Windows
      PROVE  IsPage(pages'[w]) /\ pages'[w].waits \in 0..Len(operations)
  <2>1. IsPage(pages[w]) /\ pages[w].waits \in 0..Len(operations)
    BY DEF JulesTyped, PagesTyped
  <2>2. pages'[w] \in {Unsettled(pages[w]), pages[w]}
    BY <1>4
  <2> QED
    BY <1>3, <2>1, <2>2, PageUnsettles
<1>6. PagesTyped'
  <2>1. pages' = [w \in Windows |-> pages'[w]]
    BY <1>4
  <2> QED
    BY <1>3, <1>5, <2>1 DEF PagesTyped, IsPage
<1>7. CacheNames' /\ LockRuns'
  <2>1. mutations' = << >> /\ locked' = 0 /\ DOMAIN << >> = {}
    BY DEF RestartServer
  <2> QED
    BY <2>1 DEF CacheNames, LockRuns
<1> QED
  BY <1>6, <1>7 DEF JulesTyped

LEMMA JulesTypedStep == JulesTyped /\ [JulesNext]_julesVars => JulesTyped'
<1> SUFFICES ASSUME JulesTyped, [JulesNext]_julesVars PROVE JulesTyped'
  OBVIOUS
<1>0. OnceInv /\ OnceInv'
  BY OnceKept DEF JulesTyped
<1>1. ASSUME UNCHANGED <<pages, mutations, operations, locked>>
      PROVE  JulesTyped'
  BY <1>0, <1>1 DEF JulesTyped, PagesTyped, CacheNames, LockRuns, IsPage, Running
<1>2. ASSUME NEW w \in Windows,
             \/ LoadDetails(w) \/ Create(w) \/ Approve(w) \/ SendMessage(w) \/ LoseAnswer(w)
      PROVE  JulesTyped'
  <2>1. Len(operations) \in Nat /\ IsPage(pages[w]) /\ pages[w].waits \in 0..Len(operations)
    BY <1>0, OperationCount DEF JulesTyped, PagesTyped
  <2>2. ASSUME NEW page, pages' = [pages EXCEPT ![w] = page], IsPage(page),
               page.waits \in 0..Len(operations), UNCHANGED <<mutations, operations, locked>>
        PROVE  JulesTyped'
    <3>1. Len(operations') = Len(operations) /\ Len(operations) >= Len(operations)
      BY <2>1, <2>2
    <3>2. PagesTyped'
      BY <1>0, <2>2, <3>1, WindowChanged DEF JulesTyped
    <3> QED
      BY <1>0, <2>2, <3>2 DEF JulesTyped, CacheNames, LockRuns, Running
  <2>3. CASE LoadDetails(w)
    <3> DEFINE page == [[pages[w] EXCEPT !.plan = julesSession.plan]
                                  EXCEPT !.awaiting = julesSession.awaiting]
    <3>1. pages' = [pages EXCEPT ![w] = page] /\ UNCHANGED <<mutations, operations, locked>>
      BY <2>3 DEF LoadDetails, JulesTyped, PagesTyped
    <3>2. IsPage(page) /\ page.waits = pages[w].waits
      BY <2>1 DEF IsPage
    <3> HIDE DEF page
    <3> QED
      BY <2>1, <2>2, <3>1, <3>2
  <2>4. CASE LoseAnswer(w)
    <3>1. pages' = [pages EXCEPT ![w] = Unsettled(pages[w])]
          /\ UNCHANGED <<mutations, operations, locked>>
      BY <2>4 DEF LoseAnswer
    <3>2. IsPage(Unsettled(pages[w])) /\ Unsettled(pages[w]).waits \in 0..Len(operations)
      BY <2>1, PageUnsettles
    <3> QED
      BY <2>2, <3>1, <3>2
  <2>5. CASE Create(w) \/ Approve(w) \/ SendMessage(w)
    <3>1. \E kind, payload : Run(w, kind, payload)
      BY <2>5 DEF Create, Approve, SendMessage, Press
    <3> QED
      BY <1>0, <3>1, RunTyped
  <2> QED
    BY <1>2, <2>3, <2>4, <2>5
<1>3. ASSUME NEW i \in DOMAIN operations,
             \/ ReadAndPost(i) \/ ReadState(i) \/ ReadPlan(i) \/ ReadFails(i)
             \/ JulesAnswers(i) \/ GiveUp(i) \/ GoogleAccepts(i) \/ PlanAgain(i)
      PROVE  JulesTyped'
  <2>1. CASE \E outcome : Settle(i, outcome)
    BY <1>0, <2>1, SettleTyped
  <2>2. CASE PostsTo(i)
    <3> DEFINE new == [operations[i] EXCEPT !.phase = "sent", !.google = "inflight",
                          !.before = IF operations[i].kind = "approve" THEN Unplanned ELSE {}]
    <3>1. operations' = [operations EXCEPT ![i] = new] /\ UNCHANGED <<pages, mutations, locked>>
      BY <2>2 DEF PostsTo
    <3>2. new.phase \in Running
      BY <1>0 DEF OnceInv, Shape, IsOperation, Running
    <3> HIDE DEF new
    <3> QED
      BY <1>0, <3>1, <3>2, OperationTyped
  <2>3. CASE ReadState(i) /\ ~Settle(i, "refused")
    <3> DEFINE new == [operations[i] EXCEPT !.phase = "stated"]
    <3>1. operations' = [operations EXCEPT ![i] = new] /\ UNCHANGED <<pages, mutations, locked>>
      BY <2>3 DEF ReadState
    <3>2. new.phase \in Running
      BY <1>0 DEF OnceInv, Shape, IsOperation, Running
    <3> HIDE DEF new
    <3> QED
      BY <1>0, <3>1, <3>2, OperationTyped
  <2>4. CASE GoogleAccepts(i)
    <3> DEFINE new == [operations[i] EXCEPT
             !.google = "accepted",
             !.started = IF operations[i].kind = "approve" THEN julesSession.plan ELSE 0,
             !.cause = IF operations[i].kind = "approve" THEN julesSession.cause ELSE 0,
             !.late = operations[i].phase # "sent"]
    <3>1. operations' = [operations EXCEPT ![i] = new] /\ UNCHANGED <<pages, mutations, locked>>
      BY <2>4 DEF GoogleAccepts
    <3>2. new.phase = operations[i].phase
      BY <1>0 DEF OnceInv, Shape, IsOperation
    <3> HIDE DEF new
    <3> QED
      BY <1>0, <3>1, <3>2, OperationTyped
  <2>5. CASE PlanAgain(i)
    BY <1>1, <2>5 DEF PlanAgain
  <2> QED
    BY <1>3, <2>1, <2>2, <2>3, <2>4, <2>5
    DEF ReadAndPost, ReadState, ReadPlan, ReadFails, JulesAnswers, GiveUp
<1>4. CASE RestartServer
  BY <1>0, <1>4, RestartTyped
<1>5. CASE PassTime \/ UNCHANGED julesVars
  BY <1>1, <1>5 DEF PassTime, julesVars
<1> QED
  BY <1>2, <1>3, <1>4, <1>5 DEF JulesNext

LEMMA JulesIsTyped == JulesSpec => []JulesTypeOK
<1>1. JulesInit => JulesTyped
  <2> SUFFICES ASSUME JulesInit PROVE JulesTyped
    OBVIOUS
  <2>1. IsPage(NewPage) /\ NewPage.waits = 0
    BY DEF NewPage, IsPage
  <2>2. OnceInv /\ Len(operations) = 0 /\ DOMAIN mutations = {}
    BY OnceStarts DEF JulesInit
  <2>3. PagesTyped
    BY <2>1, <2>2 DEF JulesInit, PagesTyped
  <2> QED
    BY <2>2, <2>3 DEF JulesTyped, CacheNames, LockRuns, JulesInit
<1>2. JulesTyped => JulesTypeOK
  <2> SUFFICES ASSUME JulesTyped PROVE JulesTypeOK
    OBVIOUS
  <2>1. \A i \in DOMAIN operations :
           /\ operations[i].phase \in Running \union {"success", "refused", "unknown", "dead"}
           /\ operations[i].google \in {"no", "inflight", "accepted"}
    BY DEF JulesTyped, OnceInv, Shape, IsOperation, Phases
  <2> QED
    BY <2>1 DEF JulesTyped, PagesTyped, CacheNames, LockRuns, JulesTypeOK
<1> QED
  BY <1>1, <1>2, JulesTypedStep, PTL DEF JulesSpec

LEMMA SwarmIsTyped == SwarmSpec => []SwarmTypeOK
<1>1. SwarmInv => SwarmTypeOK
  BY DEF SwarmInv, SwarmTypeOK, Task, Call
<1> QED
  BY <1>1, SwarmInvHolds, PTL

(* What the cache is made of stays within its bounds.                       *)
LEMMA CacheBounds ==
  /\ MaxWrites \in Nat /\ MaxFailures \in Nat /\ Latency \in Nat \ {0}
  /\ \A k \in Keys : Ttls[k] \in Nat
  /\ OldAge \in Nat
<1>1. /\ MaxWrites \in Nat /\ MaxFailures \in Nat /\ Latency \in Nat \ {0}
      /\ \A k \in Keys : Ttls[k] \in Nat
  BY CacheAssumption
<1>2. IsFiniteSet(Keys)
  <2>1. IsFiniteSet({"report"})
    BY FS_Singleton
  <2>2. IsFiniteSet({"report"} \union {"snapshot"})
    BY <2>1, FS_AddElement
  <2>3. IsFiniteSet({"report"} \union {"snapshot"} \union {"context"})
    BY <2>2, FS_AddElement
  <2>4. IsFiniteSet({"report"} \union {"snapshot"} \union {"context"} \union {"summary"})
    BY <2>3, FS_AddElement
  <2>5. Keys = {"report"} \union {"snapshot"} \union {"context"} \union {"summary"}
    BY DEF Keys
  <2> QED
    BY <2>4, <2>5
<1>3. SumOver(Ttls, Keys) \in Nat
  BY <1>1, <1>2, SumAtLeastZero
<1>4. OldAge = SumOver(Ttls, Keys) + Latency
  BY DEF OldAge, SumOver
<1> QED
  BY <1>1, <1>3, <1>4

LEMMA NoneCached == None \in Cached /\ None.value \in Value
<1>1. 0 \in Versions
  BY CacheBounds DEF Versions
<1> QED
  BY <1>1 DEF None, Cached, Value

LEMMA EntryCached ==
  ASSUME NEW k \in Keys, NEW v \in Value
  PROVE  EntryFor(k, v) \in Cached
BY CacheBounds DEF EntryFor, Cached

LEMMA EntryValue == \A e \in Cached : e.value \in Value /\ e.left \in Nat /\ e.value.report \in Versions
BY DEF Cached, Value

LEMMA DerivedValue ==
  ASSUME version \in Versions, NEW r \in Versions
  PROVE  Derived(r) \in Value
BY DEF Derived, Value, Invalidating

LEMMA ReportCached ==
  ASSUME version \in Versions, NEW map \in [Keys -> Cached]
  PROVE  WithReport(map) \in [Keys -> Cached]
<1>1. "report" \in Keys
  BY DEF Keys
<1>2. EntryFor("report", Derived(version)) \in Cached
  BY <1>1, DerivedValue, EntryCached
<1> QED
  BY <1>1, <1>2 DEF WithReport

LEMMA SnapshotCached ==
  ASSUME version \in Versions, NEW map \in [Keys -> Cached]
  PROVE  WithSnapshot(map) \in [Keys -> Cached]
<1> DEFINE m == WithReport(map)
           v == m["report"].value
<1>1. "report" \in Keys /\ "snapshot" \in Keys
  BY DEF Keys
<1>2. m \in [Keys -> Cached]
  BY ReportCached
<1>3. v \in Value
  BY <1>1, <1>2, EntryValue
<1>4. EntryFor("snapshot", v) \in Cached
  BY <1>1, <1>3, EntryCached
<1>5. WithSnapshot(map) \in {map, [m EXCEPT !["snapshot"] = EntryFor("snapshot", v)]}
  BY DEF WithSnapshot
<1> HIDE DEF m, v
<1> QED
  BY <1>1, <1>2, <1>4, <1>5

LEMMA ContextCached ==
  ASSUME version \in Versions, NEW map \in [Keys -> Cached]
  PROVE  WithContext(map) \in [Keys -> Cached]
<1> DEFINE m == WithSnapshot(WithReport(map))
           r == OldestOf(m["report"].value, m["snapshot"].value)
           v == Derived(r)
<1>1. "report" \in Keys /\ "snapshot" \in Keys /\ "context" \in Keys
  BY DEF Keys
<1>2. m \in [Keys -> Cached]
  BY ReportCached, SnapshotCached
<1>3. r \in Versions
  BY <1>1, <1>2, EntryValue DEF OldestOf
<1>4. EntryFor("context", v) \in Cached
  BY <1>1, <1>3, DerivedValue, EntryCached
<1>5. WithContext(map) \in {map, [m EXCEPT !["context"] = EntryFor("context", v)]}
  BY DEF WithContext
<1> HIDE DEF m, r, v
<1> QED
  BY <1>1, <1>2, <1>4, <1>5

LEMMA SummaryValue ==
  ASSUME CacheTypeOK
  PROVE  Summary \in Value /\ EntryFor("summary", Summary) \in Cached
<1>1. "report" \in Keys /\ "summary" \in Keys
  BY DEF Keys
<1>2. WithReport(local) \in [Keys -> Cached] /\ version \in Versions
  BY ReportCached DEF CacheTypeOK
<1>3. WithReport(local)["report"].value.report \in Versions
  BY <1>1, <1>2, EntryValue
<1>4. Summary \in Value
  BY <1>2, <1>3, DerivedValue DEF Summary
<1> QED
  BY <1>1, <1>4, EntryCached

LEMMA SentCommand ==
  ASSUME version \in Versions, NEW cmd \in {"get", "set", "keys", "del"},
         NEW r \in Readers \union {"none"}, NEW v \in Value
  PROVE  Send(cmd, r, v) \in Command
BY CacheBounds DEF Send, Command

LEMMA HeadAndTail ==
  ASSUME CacheTypeOK, pipe # << >>
  PROVE  Head(pipe) \in Command /\ Tail(pipe) \in Seq(Command)
BY DEF CacheTypeOK

LEMMA EmptiedTyped ==
  ASSUME CacheTypeOK, NEW c \in Command, NEW done \in BOOLEAN, Emptied(c, done)
  PROVE  local' \in [Keys -> Cached] /\ flushed' \in [{"local", "remote"} -> Versions]
<1>1. c.version \in Versions
  BY DEF Command
<1>2. \A x \in Versions : Larger(x, c.version) \in Versions
  BY <1>1 DEF Larger
<1> QED
  BY <1>2, NoneCached DEF Emptied, CacheTypeOK

LEMMA AnswerTyped ==
  ASSUME CacheTypeOK, Answer
  PROVE  CacheTypeOK'
<1>1. pipe # << >> /\ UNCHANGED <<version, age, connected>>
  BY DEF Answer
<1>2. PICK ok \in BOOLEAN :
        /\ failures' = IF ok THEN failures ELSE failures + 1
        /\ failures' <= MaxFailures
        /\ \/ GetAnswered(Head(pipe), ok)  \/ SetAnswered(Head(pipe), ok)
           \/ KeysAnswered(Head(pipe), ok) \/ DelAnswered(Head(pipe), ok)
  BY DEF Answer
<1> DEFINE c == Head(pipe)
<1>3. c \in Command /\ Tail(pipe) \in Seq(Command)
  BY <1>1, HeadAndTail
<1>4. /\ c.reader \in Readers \union {"none"} /\ c.value \in Value
      /\ c.version \in Versions /\ c.waited \in 0..Latency
  BY <1>3 DEF Command
<1>5. failures' \in 0..MaxFailures
  BY <1>2, CacheBounds DEF CacheTypeOK
<1>6. \A d \in Command : Append(Tail(pipe), d) \in Seq(Command)
  BY <1>3
<1> HIDE DEF c
<1>7. SUFFICES /\ local' \in [Keys -> Cached] /\ remote' \in Cached
               /\ pipe' \in Seq(Command) /\ flushed' \in [{"local", "remote"} -> Versions]
  BY <1>1, <1>5 DEF CacheTypeOK
<1>8. CASE GetAnswered(c, ok)
  <2>1. Send("set", c.reader, Summary) \in Command
    BY <1>4, SummaryValue, SentCommand DEF CacheTypeOK
  <2>2. WithReport(local) \in [Keys -> Cached]
    BY ReportCached DEF CacheTypeOK
  <2>3. /\ local' \in {local, WithReport(local)}
        /\ pipe' \in {Tail(pipe), Append(Tail(pipe), Send("set", c.reader, Summary))}
        /\ UNCHANGED <<remote, flushed>>
    BY <1>8 DEF GetAnswered
  <2> QED
    BY <1>3, <1>6, <2>1, <2>2, <2>3 DEF CacheTypeOK
<1>9. CASE SetAnswered(c, ok)
  <2>1. "summary" \in Keys
    BY DEF Keys
  <2>2. EntryFor("summary", c.value) \in Cached
    BY <1>4, <2>1, EntryCached
  <2>3. /\ pipe' = Tail(pipe) /\ flushed' = flushed
        /\ remote' \in {remote, EntryFor("summary", c.value)}
        /\ local' \in {local, [local EXCEPT !["summary"] = EntryFor("summary", c.value)]}
    BY <1>9 DEF SetAnswered
  <2> QED
    BY <1>3, <2>1, <2>2, <2>3 DEF CacheTypeOK
<1>10. CASE KeysAnswered(c, ok)
  <2>1. [c EXCEPT !.cmd = "del", !.waited = 0] \in Command
    <3>1. 0 \in 0..Latency
      BY CacheBounds
    <3> QED
      BY <1>3, <3>1 DEF Command
  <2>2. \/ UNCHANGED <<local, flushed>>
        \/ local' \in [Keys -> Cached] /\ flushed' \in [{"local", "remote"} -> Versions]
    BY <1>3, <1>10, EmptiedTyped DEF KeysAnswered
  <2>3. /\ pipe' \in {Tail(pipe), Append(Tail(pipe), [c EXCEPT !.cmd = "del", !.waited = 0])}
        /\ remote' = remote
    BY <1>10 DEF KeysAnswered
  <2> QED
    BY <1>3, <1>6, <2>1, <2>2, <2>3 DEF CacheTypeOK
<1>11. CASE DelAnswered(c, ok)
  <2>1. local' \in [Keys -> Cached] /\ flushed' \in [{"local", "remote"} -> Versions]
    BY <1>3, <1>11, EmptiedTyped DEF DelAnswered
  <2>2. pipe' = Tail(pipe) /\ remote' \in {None, remote}
    BY <1>11 DEF DelAnswered
  <2> QED
    BY <1>3, <2>1, <2>2, NoneCached DEF CacheTypeOK
<1> QED
  BY <1>2, <1>8, <1>9, <1>10, <1>11 DEF c

LEMMA WriteTyped ==
  ASSUME CacheTypeOK, WriteAndInvalidate
  PROVE  CacheTypeOK'
<1>1. version' \in Versions /\ version + 1 \in Versions /\ UNCHANGED <<age, remote, connected, failures>>
  BY CacheBounds DEF WriteAndInvalidate, Written, CacheTypeOK, Versions
<1>2. CASE connected
  <2>1. Send("keys", "none", None.value) \in Command
    BY NoneCached, SentCommand DEF CacheTypeOK
  <2>2. [Send("keys", "none", None.value) EXCEPT !.version = version + 1] \in Command
    BY <1>1, <2>1 DEF Command
  <2>3. /\ pipe' = Append(pipe, [Send("keys", "none", None.value) EXCEPT !.version = version + 1])
        /\ UNCHANGED <<local, flushed>>
    BY <1>2 DEF WriteAndInvalidate, InvalidatePrefix
  <2>4. pipe' \in Seq(Command)
    BY <2>2, <2>3 DEF CacheTypeOK
  <2> QED
    BY <1>1, <2>3, <2>4 DEF CacheTypeOK
<1>3. CASE ~connected
  <2>1. /\ local' = [k \in Keys |-> None]
        /\ flushed' = [flushed EXCEPT !["local"] = version + 1]
        /\ UNCHANGED pipe
    BY <1>3 DEF WriteAndInvalidate, InvalidatePrefix
  <2> QED
    BY <1>1, <2>1, NoneCached DEF CacheTypeOK
<1> QED
  BY <1>2, <1>3

LEMMA TickTyped ==
  ASSUME CacheTypeOK, Tick
  PROVE  CacheTypeOK'
<1>1. UNCHANGED <<version, connected, flushed, failures>>
  BY DEF Tick
<1>2. \A e \in Cached : Less(e) \in Cached
  <2>1. ASSUME NEW e \in Cached, e.left > 1
        PROVE  [e EXCEPT !.left = @ - 1] \in Cached
    BY <2>1 DEF Cached
  <2>2. \A e \in Cached : e.left \in Nat
    BY EntryValue
  <2>3. \A e \in Cached : ~(e.left <= 1) => e.left > 1
    BY <2>2
  <2> QED
    BY <2>1, <2>3, NoneCached DEF Less
<1>3. local' \in [Keys -> Cached] /\ remote' \in Cached
  BY <1>2 DEF Tick, CacheTypeOK
<1>4. pipe' \in Seq(Command)
  <2>1. pipe \in Seq(Command) /\ Len(pipe) \in Nat /\ DOMAIN pipe = 1..Len(pipe)
    BY DEF CacheTypeOK
  <2>2. ASSUME NEW i \in 1..Len(pipe)
        PROVE  [pipe[i] EXCEPT !.waited = @ + 1] \in Command
    <3>1. pipe[i] \in Command
      BY <2>1
    <3>2. pipe[i].waited \in 0..Latency /\ pipe[i].waited < Latency
      BY <2>1, <3>1 DEF Tick, Command
    <3>3. pipe[i].waited + 1 \in 0..Latency
      BY <3>2, CacheBounds
    <3> QED
      BY <3>1, <3>3 DEF Command
  <2>3. pipe' = [i \in 1..Len(pipe) |-> [pipe[i] EXCEPT !.waited = @ + 1]]
    BY <2>1 DEF Tick
  <2> QED
    BY <2>1, <2>2, <2>3
<1>5. age' \in [1..MaxWrites -> 0..OldAge]
  <2>1. ASSUME NEW w \in 1..MaxWrites
        PROVE  (IF w <= version /\ age[w] < OldAge THEN age[w] + 1 ELSE age[w]) \in 0..OldAge
    <3>1. age[w] \in 0..OldAge
      BY DEF CacheTypeOK
    <3> QED
      BY <3>1, CacheBounds
  <2> QED
    BY <2>1 DEF Tick
<1> QED
  BY <1>1, <1>3, <1>4, <1>5 DEF CacheTypeOK

LEMMA AskTyped ==
  ASSUME CacheTypeOK, NEW r \in Readers, AskSummary(r)
  PROVE  CacheTypeOK'
<1>1. UNCHANGED <<version, age, remote, connected, flushed, failures>>
  BY DEF AskSummary
<1>2. "summary" \in Keys
  BY DEF Keys
<1>3. Send("get", r, None.value) \in Command
  BY NoneCached, SentCommand DEF CacheTypeOK
<1>4. WithReport(local) \in [Keys -> Cached] /\ EntryFor("summary", Summary) \in Cached
  BY ReportCached, SummaryValue DEF CacheTypeOK
<1>5. /\ pipe' \in {pipe, Append(pipe, Send("get", r, None.value))}
      /\ local' \in {local, [WithReport(local) EXCEPT !["summary"] = EntryFor("summary", Summary)]}
  BY DEF AskSummary
<1>6. pipe' \in Seq(Command)
  BY <1>3, <1>5 DEF CacheTypeOK
<1>7. local' \in [Keys -> Cached]
  BY <1>2, <1>4, <1>5 DEF CacheTypeOK
<1> QED
  BY <1>1, <1>6, <1>7 DEF CacheTypeOK

LEMMA CacheIsTyped == CacheSpec => []CacheTypeOK
<1>1. CacheInit => CacheTypeOK
  <2> SUFFICES ASSUME CacheInit PROVE CacheTypeOK
    OBVIOUS
  <2>1. 0 \in Versions /\ 0 \in 0..OldAge /\ 0 \in 0..MaxFailures
    BY CacheBounds DEF Versions
  <2>2. pipe \in Seq(Command)
    BY DEF CacheInit
  <2> QED
    BY <2>1, <2>2, NoneCached DEF CacheInit, CacheTypeOK
<1>2. CacheTypeOK /\ [CacheNext]_cacheVars => CacheTypeOK'
  <2> SUFFICES ASSUME CacheTypeOK, [CacheNext]_cacheVars PROVE CacheTypeOK'
    OBVIOUS
  <2>1. ASSUME NEW k \in Keys \ {"summary"}, ReadSync(k)
        PROVE  CacheTypeOK'
    <3>1. WithKey(k) \in [Keys -> Cached]
      BY ReportCached, SnapshotCached, ContextCached DEF WithKey, Keys, CacheTypeOK
    <3> QED
      BY <2>1, <3>1 DEF ReadSync, CacheTypeOK
  <2>2. CASE WriteOnly
    BY <2>2, CacheBounds DEF WriteOnly, Written, CacheTypeOK, Versions
  <2>3. CASE Connect
    BY <2>3 DEF Connect, CacheTypeOK
  <2>4. CASE UNCHANGED cacheVars
    BY <2>4 DEF cacheVars, CacheTypeOK
  <2> QED
    BY <2>1, <2>2, <2>3, <2>4, AskTyped, WriteTyped, AnswerTyped, TickTyped DEF CacheNext
<1> QED
  BY <1>1, <1>2, PTL DEF CacheSpec

(* For any requests, lives of entries, tools, sessions, texts and delays, the *)
(* four services stay well-formed however they run: an entry refers back to  *)
(* an earlier one, under a reference that was drawn; what the cache keeps    *)
(* and sends is of versions the books had; a task keeps its plan and its     *)
(* status; a page of the console waits only for operations there are, the    *)
(* cache of mutations names only such, and the one that has the lock runs.   *)
THEOREM ServicesAreTyped == Spec => []ServicesTypeOK
BY EachOnItsOwn, CoreIsTyped, CacheIsTyped, SwarmIsTyped, JulesIsTyped, PTL
DEF ServicesTypeOK
=============================================================================
