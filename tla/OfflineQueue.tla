---------------------------- MODULE OfflineQueue -----------------------------
(***************************************************************************)
(* The offline queue of the client (OfflineSyncManager): operations issued *)
(* without a connection are kept in memory and in localStorage, and sent   *)
(* one after the other when the server can be reached. One window, as the  *)
(* desktop application has; the page may be closed and opened again.       *)
(*                                                                         *)
(* The loop of syncQueueNow runs over the array that was the queue when it *)
(* began: what is pushed meanwhile joins it, but clearing or removing      *)
(* replaces the queue and leaves the loop with the old array. Between two  *)
(* awaits the code is atomic, so a step of the loop is the answer to a     *)
(* request, its bookkeeping and the sending of the next one.               *)
(***************************************************************************)
EXTENDS Naturals, Sequences, SequencesExt

CONSTANTS
    Items,        \* operations the user may issue
    RetryLimit,   \* failures after which an item is FAILED (5)
    MaxReloads    \* bound: times the page is closed and opened

ASSUME OfflineAssumption == RetryLimit \in Nat \ {0} /\ MaxReloads \in Nat

VARIABLES
    offlineQueue,      \* ids in memory, in the order they were pushed
    items,      \* the objects: their status and retryCount
    stored,     \* what localStorage holds
    sweep,      \* the running syncQueueNow
    flight,     \* its request
    online,     \* navigator.onLine
    reloads,
    received,   \* times the server created each operation
    unknown,    \* of these, times the client does not know of
    fate        \* where each operation is for the user

offlineVars == <<offlineQueue, items, stored, sweep, flight, online, reloads,
                 received, unknown, fate>>

NoSweep == [on |-> FALSE, detached |-> FALSE, list |-> <<>>, pos |-> 0]
NewItem == [status |-> "PENDING", retries |-> 0]

OfflineInit ==
    /\ offlineQueue = <<>>
    /\ items = [i \in Items |-> NewItem]
    /\ stored = <<>>
    /\ sweep = NoSweep
    /\ flight = "none"
    /\ online \in BOOLEAN
    /\ reloads = 0
    /\ received = [i \in Items |-> 0]
    /\ unknown = [i \in Items |-> 0]
    /\ fate = [i \in Items |-> "unissued"]

-----------------------------------------------------------------------------
IsPending(its, i) == its[i].status = "PENDING"

(* saveQueue. Slip: localStorage is left as it was. *)
NotSaved(q, its) == stored
Saved(q, its) == [k \in DOMAIN q |-> [id |-> q[k], item |-> its[q[k]]]]

(* The loop sends the next pending item after position p of its array, or, *)
(* when there is none, ends the sweep and saves the queue. Unless detached,*)
(* its array is the queue itself. written is what localStorage holds now.  *)
Proceed(q, its, detached, list, p, written) ==
    LET array == IF detached THEN list ELSE q
        ahead == {k \in DOMAIN array : k > p /\ IsPending(its, array[k])}
    IN  /\ sweep' = IF ahead = {} THEN NoSweep
                    ELSE [on |-> TRUE, detached |-> detached, list |-> list,
                          pos |-> CHOOSE k \in ahead : \A l \in ahead : k <= l]
        /\ flight' = IF ahead = {} THEN "none" ELSE "sent"
        /\ stored' = IF ahead = {} THEN Saved(q, its) ELSE written

(* syncQueueNow: nothing when a sweep is running or the client is offline. *)
SyncNow(q, conn, written) ==
    IF conn /\ ~sweep.on THEN Proceed(q, items, FALSE, <<>>, 0, written)
    ELSE stored' = written /\ UNCHANGED <<sweep, flight>>

Sending == (IF sweep.detached THEN sweep.list ELSE offlineQueue)[sweep.pos]

-----------------------------------------------------------------------------
(* The page issues an operation while offline, or its own request failed   *)
(* with a network error, after the server carried it out or not.           *)
Enqueue(i, done) ==
    /\ fate[i] = "unissued"
    /\ offlineQueue' = Append(offlineQueue, i)
    /\ SyncNow(offlineQueue', online, Saved(offlineQueue', items))
    /\ fate' = [fate EXCEPT ![i] = "queued"]
    /\ received' = [received EXCEPT ![i] = IF done THEN 1 ELSE 0]
    /\ unknown' = [unknown EXCEPT ![i] = IF done THEN 1 ELSE 0]
    /\ UNCHANGED <<items, online, reloads>>

(* The interval, or the button of the window when a sweep would do         *)
(* something.                                                              *)
SyncPending ==
    /\ online /\ ~sweep.on
    /\ \E i \in ToSet(offlineQueue) : IsPending(items, i)
    /\ SyncNow(offlineQueue, online, stored)
    /\ UNCHANGED <<offlineQueue, items, online, reloads, received, unknown, fate>>

(* The server takes the request, or refuses it. *)
ServerCreates ==
    /\ flight = "sent"
    /\ flight' = "created"
    /\ received' = [received EXCEPT ![Sending] = @ + 1]
    /\ UNCHANGED <<offlineQueue, items, stored, sweep, online, reloads, unknown, fate>>

ServerRefuses ==
    /\ flight = "sent"
    /\ flight' = "refused"
    /\ UNCHANGED <<offlineQueue, items, stored, sweep, online, reloads, received, unknown, fate>>

(* The loop goes on with what became of the item; it saves only at the end.*)
Handled(outcome) ==
    /\ items' = [items EXCEPT ![Sending] = outcome]
    /\ Proceed(offlineQueue, items', sweep.detached, sweep.list, sweep.pos, stored)
    /\ UNCHANGED <<offlineQueue, online, reloads, received, fate>>

(* Slip: an item that was created stays pending. *)
StillPending(item) == item
Synced(item) == [item EXCEPT !.status = "SYNCED"]

(* Slip: an item is tried without end. *)
RetriedForever(item) == [item EXCEPT !.retries = 1]

Failed(item) ==
    [status  |-> IF item.retries + 1 >= RetryLimit THEN "FAILED" ELSE "PENDING",
     retries |-> item.retries + 1]

AnswerArrives ==
    /\ flight = "created"
    /\ Handled(Synced(items[Sending]))
    /\ UNCHANGED unknown

RefusalArrives ==
    /\ flight = "refused"
    /\ Handled(Failed(items[Sending]))
    /\ UNCHANGED unknown

(* The request or its answer is lost. *)
RequestLost ==
    /\ flight # "none"
    /\ Handled(Failed(items[Sending]))
    /\ unknown' = [unknown EXCEPT ![Sending] = @ + IF flight = "created" THEN 1 ELSE 0]

-----------------------------------------------------------------------------
OnlineEvent ==
    /\ ~online
    /\ online' = TRUE
    /\ SyncNow(offlineQueue, TRUE, stored)
    /\ UNCHANGED <<offlineQueue, items, reloads, received, unknown, fate>>

OfflineEvent ==
    /\ online
    /\ online' = FALSE
    /\ UNCHANGED <<offlineQueue, items, stored, sweep, flight, reloads, received, unknown, fate>>

(* filter: what is in S, in the order of the queue. *)
Only(q, S) == FoldLeft(LAMBDA kept, i : IF i \in S THEN Append(kept, i) ELSE kept, <<>>, q)

(* The queue becomes a new array; a running loop keeps the old one. *)
Keep(kept, why) ==
    /\ offlineQueue' = kept
    /\ fate' = [i \in Items |-> IF i \in ToSet(offlineQueue) \ ToSet(kept) THEN why ELSE fate[i]]
    /\ sweep' = IF sweep.on /\ ~sweep.detached
                THEN [sweep EXCEPT !.detached = TRUE, !.list = offlineQueue] ELSE sweep
    /\ stored' = Saved(kept, items)
    /\ UNCHANGED <<items, flight, online, reloads, received, unknown>>

(* The button shows once an item is SYNCED. *)
ClearCompleted ==
    /\ \E i \in ToSet(offlineQueue) : items[i].status = "SYNCED"
    /\ Keep(Only(offlineQueue, {i \in Items : IsPending(items, i)}), "cleared")

RemoveQueueItem(i) ==
    /\ i \in ToSet(offlineQueue)
    /\ Keep(Only(offlineQueue, Items \ {i}), "removed")

(* The page is closed, with its loop and its request, and opened again.    *)
(* What it had learned since it last saved is forgotten.                   *)
Reload ==
    /\ reloads < MaxReloads
    /\ reloads' = reloads + 1
    /\ offlineQueue' = [k \in DOMAIN stored |-> stored[k].id]
    /\ items' = [i \in Items |->
          IF \E k \in DOMAIN stored : stored[k].id = i
          THEN stored[CHOOSE k \in DOMAIN stored : stored[k].id = i].item ELSE items[i]]
    /\ unknown' = [i \in Items |->
          unknown[i] + IF \/ flight = "created" /\ Sending = i
                          \/ items[i].status = "SYNCED" /\ IsPending(items', i)
                       THEN 1 ELSE 0]
    /\ sweep' = NoSweep
    /\ flight' = "none"
    /\ UNCHANGED <<stored, online, received, fate>>

-----------------------------------------------------------------------------
RequestStep == ServerCreates \/ ServerRefuses \/ AnswerArrives \/ RefusalArrives \/ RequestLost

OfflineNext ==
    \/ \E i \in Items : \/ \E done \in BOOLEAN : Enqueue(i, done)
                        \/ RemoveQueueItem(i)
    \/ SyncPending
    \/ RequestStep
    \/ OnlineEvent \/ OfflineEvent
    \/ ClearCompleted
    \/ Reload

(* The interval fires every 15 seconds, and a request is answered, refused *)
(* or fails in the end.                                                    *)
OfflineFairness == WF_offlineVars(SyncPending) /\ WF_offlineVars(RequestStep)

OfflineSpec == OfflineInit /\ [][OfflineNext]_offlineVars /\ OfflineFairness

-----------------------------------------------------------------------------
(* Properties *)

ItemStates == [status: {"PENDING", "SYNCED", "FAILED"}, retries: 0..RetryLimit]

OfflineTypeOK ==
    /\ offlineQueue \in Seq(Items) /\ IsInjective(offlineQueue)
    /\ items \in [Items -> ItemStates]
    /\ stored \in Seq([id: Items, item: ItemStates])
    /\ sweep \in [on: BOOLEAN, detached: BOOLEAN, list: Seq(Items), pos: Nat]
    /\ sweep.on <=> flight # "none"
    /\ flight \in {"none", "sent", "created", "refused"}
    /\ online \in BOOLEAN /\ reloads \in 0..MaxReloads
    /\ received \in [Items -> Nat] /\ unknown \in [Items -> Nat]
    /\ fate \in [Items -> {"unissued", "queued", "cleared", "removed"}]

(* An operation the user has issued and not taken off the queue is in      *)
(* localStorage at every moment, also in the middle of a sweep, until the  *)
(* server has created it: closing the page loses nothing (enqueueAction,   *)
(* syncQueueNow, loadQueue).                                               *)
KeptUntilReceived ==
    \A i \in Items : fate[i] = "queued" =>
        \E k \in DOMAIN stored :
            /\ stored[k].id = i
            /\ stored[k].item.status = "SYNCED" => received[i] > 0

(* The server creates an operation once more than the number of times the  *)
(* client lost what it was told of it, and never again once the client     *)
(* knows: the loop, the interval, the online event and the button never    *)
(* send an item twice by themselves (syncQueueNow and its guard).          *)
OnceBarLostAnswers ==
    \A i \in Items :
        /\ received[i] <= unknown[i] + 1
        /\ i \in ToSet(offlineQueue) /\ items[i].status = "SYNCED" => received[i] = unknown[i] + 1

(* No operation is lost, and none is sent again without a reason. *)
QueueIsReliable == KeptUntilReceived /\ OnceBarLostAnswers

(* Once the connection comes back again and again, an operation does not   *)
(* stay pending: it is synced, fails for good or is taken off the queue,   *)
(* whatever is pushed, cleared or removed during the sweeps                *)
(* (setupEventListeners, syncQueueNow).                                    *)
Waiting(i) == i \in ToSet(offlineQueue) /\ IsPending(items, i)

QueueIsWorkedOff == ([]<>online) => \A i \in Items : Waiting(i) ~> ~Waiting(i)
=============================================================================
