------------------------------ MODULE MCQueues -------------------------------
(***************************************************************************)
(* The two queues of the system on small instances: the one of the server  *)
(* that writes the audit log to its table, and the one of the client that  *)
(* sends what was issued offline. They share no state, so they are checked *)
(* side by side: a behaviour is a behaviour of one while the other rests.  *)
(***************************************************************************)
EXTENDS AuditLog, OfflineQueue

VARIABLE side   \* the queue that runs

queuesVars == <<side, vars, offlineVars>>

QueuesInit ==
    /\ side \in {"server", "client"}
    /\ Init /\ OfflineInit
    /\ online => side = "client"   \* the server does not depend on it

QueuesNext ==
    \/ side = "server" /\ Next /\ UNCHANGED <<side, offlineVars>>
    \/ side = "client" /\ OfflineNext /\ UNCHANGED <<side, vars>>

QueuesSpec == QueuesInit /\ [][QueuesNext]_queuesVars /\ Fairness /\ OfflineFairness

(* The types of both queues. *)
QueuesTypeOK == TypeOK /\ OfflineTypeOK
=============================================================================
