---------------------------- MODULE JulesRequests ----------------------------
(***************************************************************************)
(* Tasks sent to Jules, a coding agent of Google: a task is created, its   *)
(* plan approved and messages are sent from the windows of one             *)
(* administrator (JulesDashboard), through a cache that keeps a request    *)
(* from being carried out twice (JulesMutationCache) and a lock per        *)
(* session (withSessionLock), over a connection that may lose answers.     *)
(*                                                                         *)
(* One session of Jules is followed. Paging, the checks of repository,     *)
(* branch and roles, the limits of requests per minute and the texts are   *)
(* left out. Jules itself is external: it approves whatever plan is the    *)
(* latest, since the call names none, and a message makes it plan again.   *)
(***************************************************************************)
EXTENDS Naturals, Sequences, FiniteSets, FiniteSetsExt, Functions

CONSTANTS
    Windows,          \* windows of the administrator
    Texts,            \* what may be written as a task or a message
    KeepFor,          \* time a request is remembered (10 minutes)
    MaxEntries,       \* requests remembered at once (200)
    MaxOperations,    \* bound: requests carried out
    MaxJulesClock,    \* bound: time
    MaxJulesRestarts  \* bound: restarts of the server

ASSUME JulesAssumption ==
    KeepFor \in Nat \ {0} /\ MaxEntries \in Nat \ {0} /\ MaxOperations \in Nat

VARIABLES
    pages,        \* windows: ids of requests, details shown, request waited for
    mutations,    \* the cache: requests by id
    operations,   \* what the server carries out, in the order it began
    locked,       \* the operation that holds the lock of the session, or 0
    julesClock,
    julesRun,     \* starts of the server
    julesSession  \* at Google: latest plan and message that made it

julesVars == <<pages, mutations, operations, locked, julesClock, julesRun, julesSession>>

Kinds      == {"create", "approve", "message"}
Operations == 1..MaxOperations
Running    == {"begun", "stated", "sent"}
NoPayload  == [plan |-> 0, text |-> "none"]

NewPage == [nonce |-> [k \in Kinds |-> 0], approvalFor |-> 0,
            plan |-> 0, awaiting |-> FALSE, waits |-> 0]

JulesTypeOK ==
    /\ \A w \in Windows : pages[w].waits \in 0..Len(operations)
    /\ \A i \in DOMAIN mutations : mutations[i].op \in DOMAIN operations
    /\ \A i \in DOMAIN operations :
         /\ operations[i].phase \in Running \union {"success", "refused", "unknown", "dead"}
         /\ operations[i].google \in {"no", "inflight", "accepted"}
    /\ locked = 0 \/ operations[locked].phase \in Running

JulesInit ==
    /\ pages = [w \in Windows |-> NewPage]
    /\ mutations = << >>
    /\ operations = << >>
    /\ locked = 0
    /\ julesClock = 0
    /\ julesRun = 0
    /\ julesSession = [plan |-> 1, cause |-> 0, awaiting |-> TRUE, pending |-> {}]

-----------------------------------------------------------------------------
(* The page. NewId: an id no window or operation has. Only requests of one *)
(* kind share ids, so each kind counts its own.                            *)
NewId(kind) == 1 + Max({0} \union {pages[w].nonce[kind] : w \in Windows}
    \union {operations[i].id[2] : i \in {j \in DOMAIN operations : operations[j].kind = kind}})

(* A request keeps its id until it succeeds; that of an approval goes with *)
(* the plan it approves.                                                   *)
RequestId(page, kind) ==
    IF page.nonce[kind] = 0 \/ (kind = "approve" /\ page.approvalFor # page.plan)
    THEN NewId(kind) ELSE page.nonce[kind]

Requested(page, kind) ==
    [page EXCEPT !.nonce[kind] = RequestId(page, kind),
                 !.approvalFor = IF kind = "approve" THEN page.plan ELSE @]

(* The end of a request. The details shown are out of date (detailFresh)   *)
(* and count for nothing until they are loaded again.                      *)
Unsettled(page) == [page EXCEPT !.waits = 0, !.plan = 0, !.awaiting = FALSE]
Succeeded(page, kind) ==
    [Unsettled(page) EXCEPT !.nonce["message"] = IF kind = "approve" THEN @ ELSE 0,
                          !.nonce["create"] = IF kind = "create" THEN 0 ELSE @]
PageAnswered(page, kind, outcome) ==
    IF outcome = "success" THEN Succeeded(page, kind) ELSE Unsettled(page)

LoadDetails(w) ==
    /\ pages[w].waits = 0
    /\ pages' = [pages EXCEPT ![w].plan = julesSession.plan, ![w].awaiting = julesSession.awaiting]
    /\ UNCHANGED <<mutations, operations, locked, julesClock, julesRun, julesSession>>

-----------------------------------------------------------------------------
(* The cache: entries of more than KeepFor ago are dropped first. *)
Remembered == Restrict(mutations, {i \in DOMAIN mutations : mutations[i].expires > julesClock})

WithRequest(id, entry) ==
    [x \in DOMAIN Remembered \union {id} |-> IF x = id THEN entry ELSE Remembered[x]]

HasRoom == Cardinality(DOMAIN Remembered) < MaxEntries

(* Slip: messages do not take the lock. *)
ApprovalsOnly(kind) == kind = "approve"
NeedsLock(kind) == kind \in {"approve", "message"}

(* A request the cache, or the lock, turns away at once. *)
TurnedAway(page, kind, payload) ==
    LET id == <<kind, RequestId(page, kind)>>
    IN  IF id \in DOMAIN Remembered THEN Remembered[id].payload # payload
        ELSE ~HasRoom \/ (NeedsLock(kind) /\ locked # 0)

(* mutations.run: a request with a known id gets the outcome of the one    *)
(* under way or carried out, another one is begun.                         *)
Run(w, kind, payload) ==
    LET id   == <<kind, RequestId(pages[w], kind)>>
        page == Requested(pages[w], kind)
        known == id \in DOMAIN Remembered
    IN  \/ /\ TurnedAway(pages[w], kind, payload)
           /\ pages' = [pages EXCEPT ![w] = Unsettled(page)]
           /\ mutations' = Remembered
           /\ UNCHANGED <<operations, locked>>
        \/ /\ known /\ ~TurnedAway(pages[w], kind, payload)
           /\ LET i == Remembered[id].op
              IN  pages' = [pages EXCEPT ![w] =
                      IF operations[i].phase \in Running THEN [page EXCEPT !.waits = i]
                      ELSE PageAnswered(page, kind, operations[i].phase)]
           /\ mutations' = Remembered
           /\ UNCHANGED <<operations, locked>>
        \/ /\ ~known /\ ~TurnedAway(pages[w], kind, payload)
           /\ Len(operations) < MaxOperations
           /\ LET i == Len(operations) + 1
              IN  /\ operations' = Append(operations,
                         [id |-> id, kind |-> kind, payload |-> payload, start |-> julesClock,
                          run |-> julesRun, phase |-> "begun", google |-> "no",
                          before |-> {}, started |-> 0, cause |-> 0, late |-> FALSE])
                  /\ mutations' = WithRequest(id, [payload |-> payload,
                         expires |-> julesClock + KeepFor, op |-> i])
                  /\ pages' = [pages EXCEPT ![w] = [page EXCEPT !.waits = i]]
                  /\ locked' = IF NeedsLock(kind) THEN i ELSE locked

Press(w, kind, payload) ==
    /\ pages[w].waits = 0
    /\ Run(w, kind, payload)
    /\ UNCHANGED <<julesClock, julesRun, julesSession>>

Create(w) == \E t \in Texts : Press(w, "create", [NoPayload EXCEPT !.text = t])

(* The plan on the page, which the administrator has reviewed. *)
Approve(w) ==
    /\ pages[w].awaiting
    /\ Press(w, "approve", [NoPayload EXCEPT !.plan = pages[w].plan])

SendMessage(w) ==
    /\ pages[w].plan # 0
    /\ \E t \in Texts : Press(w, "message", [NoPayload EXCEPT !.text = t])

-----------------------------------------------------------------------------
(* Slip: a request with an unknown outcome is forgotten too. *)
ForgottenUnlessDone(i, outcome) ==
    outcome # "success" /\ operations[i].id \in DOMAIN mutations
                        /\ mutations[operations[i].id].op = i

(* Operations of the server. A definite refusal is forgotten, so that the  *)
(* request may be made again under its id; any other outcome is kept.      *)
Forgotten(i, outcome) ==
    outcome = "refused" /\ operations[i].id \in DOMAIN mutations
                        /\ mutations[operations[i].id].op = i

(* Slip: the lock is kept. *)
StillLocked(i) == locked
Unlocked(i) == IF locked = i THEN 0 ELSE locked

Settle(i, outcome) ==
    /\ operations' = [operations EXCEPT
           ![i].phase = outcome, ![i].google = IF outcome = "refused" THEN "no" ELSE @]
    /\ mutations' = IF Forgotten(i, outcome)
                    THEN Restrict(mutations, DOMAIN mutations \ {operations[i].id})
                    ELSE mutations
    /\ locked' = Unlocked(i)
    /\ pages' = [w \in Windows |->
           IF pages[w].waits = i THEN PageAnswered(pages[w], operations[i].kind, outcome)
           ELSE pages[w]]
    /\ UNCHANGED <<julesClock, julesRun, julesSession>>

(* The POST leaves as soon as the reads before it have come back. With an  *)
(* approval go the messages that may still change the plan.                *)
Unplanned == {m \in DOMAIN operations : operations[m].kind = "message" /\
                 (operations[m].google = "inflight" \/ m \in julesSession.pending)}

PostsTo(i) ==
    /\ operations' = [operations EXCEPT
           ![i].phase = "sent", ![i].google = "inflight",
           ![i].before = IF operations[i].kind = "approve" THEN Unplanned ELSE {}]
    /\ UNCHANGED <<pages, mutations, locked, julesClock, julesRun, julesSession>>

(* The reads of a creation or a message, then the POST. *)
ReadAndPost(i) ==
    /\ operations[i].phase = "begun" /\ operations[i].kind # "approve"
    /\ PostsTo(i)

(* An approval: the session must wait for one, and the plan of the request *)
(* must still be its latest.                                               *)
ReadState(i) ==
    /\ operations[i].phase = "begun" /\ operations[i].kind = "approve"
    /\ \/ /\ julesSession.awaiting
          /\ operations' = [operations EXCEPT ![i].phase = "stated"]
          /\ UNCHANGED <<pages, mutations, locked, julesClock, julesRun, julesSession>>
       \/ ~julesSession.awaiting /\ Settle(i, "refused")

IsLatestPlan(i) == operations[i].payload.plan = julesSession.plan

ReadPlan(i) ==
    /\ operations[i].phase = "stated"
    /\ \/ IsLatestPlan(i) /\ PostsTo(i)
       \/ ~IsLatestPlan(i) /\ Settle(i, "refused")

(* A read fails or times out: nothing was sent. *)
ReadFails(i) == operations[i].phase \in {"begun", "stated"} /\ Settle(i, "refused")

(* The answer to the POST: success, or an error that says it was refused. *)
JulesAnswers(i) ==
    /\ operations[i].phase = "sent"
    /\ Settle(i, IF operations[i].google = "accepted" THEN "success" ELSE "refused")

(* A timeout, a lost connection, an error of the server at Google or an    *)
(* unreadable answer: nobody knows whether the POST was accepted.          *)
GiveUp(i) == operations[i].phase = "sent" /\ Settle(i, "unknown")

-----------------------------------------------------------------------------
(* Google (external). *)
GoogleAccepts(i) ==
    /\ operations[i].google = "inflight"
    /\ operations[i].kind = "approve" => julesSession.awaiting
    /\ operations' = [operations EXCEPT
           ![i].google = "accepted",
           ![i].started = IF operations[i].kind = "approve" THEN julesSession.plan ELSE 0,
           ![i].cause = IF operations[i].kind = "approve" THEN julesSession.cause ELSE 0,
           ![i].late = operations[i].phase # "sent"]
    /\ julesSession' = CASE operations[i].kind = "approve" -> [julesSession EXCEPT !.awaiting = FALSE]
                    [] operations[i].kind = "message" -> [julesSession EXCEPT !.pending = @ \union {i}]
                    [] operations[i].kind = "create"  -> julesSession
    /\ UNCHANGED <<pages, mutations, locked, julesClock, julesRun>>

PlanAgain(i) ==
    /\ i \in julesSession.pending
    /\ julesSession' = [plan |-> julesSession.plan + 1, cause |-> i, awaiting |-> TRUE,
                   pending |-> julesSession.pending \ {i}]
    /\ UNCHANGED <<pages, mutations, operations, locked, julesClock, julesRun>>

-----------------------------------------------------------------------------
(* Faults, and the passing of time. *)
LoseAnswer(w) ==
    /\ pages[w].waits # 0
    /\ pages' = [pages EXCEPT ![w] = Unsettled(@)]
    /\ UNCHANGED <<mutations, operations, locked, julesClock, julesRun, julesSession>>

RestartServer ==
    /\ julesRun < MaxJulesRestarts
    /\ julesRun' = julesRun + 1
    /\ mutations' = << >> /\ locked' = 0
    /\ operations' = [i \in DOMAIN operations |->
           IF operations[i].phase \in Running
           THEN [operations[i] EXCEPT !.phase = "dead"] ELSE operations[i]]
    /\ pages' = [w \in Windows |->
           IF pages[w].waits # 0 THEN Unsettled(pages[w]) ELSE pages[w]]
    /\ UNCHANGED <<julesClock, julesSession>>

PassTime ==
    /\ julesClock < MaxJulesClock
    /\ julesClock' = julesClock + 1
    /\ UNCHANGED <<pages, mutations, operations, locked, julesRun, julesSession>>

JulesNext ==
    \/ \E w \in Windows : \/ LoadDetails(w) \/ Create(w) \/ Approve(w) \/ SendMessage(w)
                          \/ LoseAnswer(w)
    \/ \E i \in DOMAIN operations :
          \/ ReadAndPost(i) \/ ReadState(i) \/ ReadPlan(i) \/ ReadFails(i)
          \/ JulesAnswers(i) \/ GiveUp(i)
          \/ GoogleAccepts(i) \/ PlanAgain(i)
    \/ RestartServer
    \/ PassTime

JulesSpec == JulesInit /\ [][JulesNext]_julesVars

-----------------------------------------------------------------------------
(* A request is not sent twice under one id while the server remembers it, *)
(* unless the first was definitely refused: neither an unknown outcome,    *)
(* nor a full cache, nor a window that gave up waiting and asks again      *)
(* makes it be repeated (JulesMutationCache). A restart of the server      *)
(* forgets the ids.                                                        *)
OncePerWindow ==
    \A i, j \in DOMAIN operations :
        /\ i < j /\ operations[i].id = operations[j].id /\ operations[i].run = operations[j].run
        /\ operations[i].google # "no" /\ operations[j].google # "no"
        => operations[j].start >= operations[i].start + KeepFor

(* The call that approves a plan does not name it. Still the plan it       *)
(* starts is the one the administrator has reviewed (approvePlan), but     *)
(* for a plan made after the check from a message sent before it, and for  *)
(* an approval accepted after the server had given it up.                  *)
ApprovedAsReviewed ==
    \A i \in DOMAIN operations :
        operations[i].started # 0 /\ ~operations[i].late =>
            \/ operations[i].started = operations[i].payload.plan
            \/ operations[i].cause \in operations[i].before
=============================================================================
