----------------------------- MODULE MCServices ------------------------------
(***************************************************************************)
(* The engines beside the journal on small instances: the second accounting *)
(* engine, the report cache, the tool swarm and the requests to Jules. They *)
(* run in one process but share no state, so they are checked side by side: *)
(* a behaviour is a behaviour of one of them while the others rest.         *)
(***************************************************************************)
EXTENDS AccountingCore, ReportCache, SwarmTasks, JulesRequests

VARIABLE part   \* the service that runs

(* A receipt, an entry that names its action wrongly, and a payment whose   *)
(* lines have to be rounded to balance.                                     *)
MCLine(d, c) == [debit |-> d, credit |-> c]
MCCash(d, c) == [a \in {"cash", "dues"} |-> IF a = "cash" THEN MCLine(d, 0) ELSE MCLine(0, c)]
MCCoreRequests ==
    {[type |-> "RECEIPT", named |-> FALSE, lines |-> MCCash(30000, 30000)],
     [type |-> "MANUAL", named |-> TRUE, lines |-> MCCash(30000, 30000)],
     [type |-> "MANUAL", named |-> FALSE,
      lines |-> [a \in {"cash", "dues", "fees"} |->
          CASE a = "cash" -> MCLine(0, 1000)
            [] a = "dues" -> MCLine(504, 0)
            [] a = "fees" -> MCLine(496, 0)]]}

MCTtls == [k \in Keys |-> IF k \in {"report", "summary"} THEN 2 ELSE 1]

(* The clerk may not read the audit log or verify chains. *)
MCFallback   == [x \in {"entries", "document"} |-> IF x = "entries" THEN "events" ELSE "rag"]
MCPermitted  == [s \in {"auditor", "clerk"} |->
    IF s = "auditor" THEN {"entries", "document", "rag", "events", "chain"}
                     ELSE {"entries", "document", "rag"}]
MCSelections == {<<"entries">>, << >>}

(* The texts of tasks and messages are only compared. *)
TextSymmetry == Permutations(Texts)

-----------------------------------------------------------------------------
servicesVars == <<part, coreVars, cacheVars, swarmVars, julesVars>>

Init ==
    /\ part \in {"core", "cache", "swarm", "jules"}
    /\ CoreInit /\ CacheInit /\ SwarmInit /\ JulesInit

Next ==
    \/ part = "core"  /\ CoreNext  /\ UNCHANGED <<part, cacheVars, swarmVars, julesVars>>
    \/ part = "cache" /\ CacheNext /\ UNCHANGED <<part, coreVars, swarmVars, julesVars>>
    \/ part = "swarm" /\ SwarmNext /\ UNCHANGED <<part, coreVars, cacheVars, julesVars>>
    \/ part = "jules" /\ JulesNext /\ UNCHANGED <<part, coreVars, cacheVars, swarmVars>>

Spec == Init /\ [][Next]_servicesVars

(* The types of these services. *)
ServicesTypeOK == CoreTypeOK /\ CacheTypeOK /\ SwarmTypeOK /\ JulesTypeOK
=============================================================================
