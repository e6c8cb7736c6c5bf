------------------------------ MODULE AuditTrail ------------------------------
(* What the durable audit log promises: a trail of events that only grows,  *)
(* in which no event appears twice and the events of one server never go    *)
(* back in time.                                                            *)
EXTENDS Sequences, Naturals, SequencesExt

CONSTANT Event   \* records with the fields server and time

VARIABLE trail

Init == trail = << >>

Add(e) ==
    /\ e \notin ToSet(trail)
    /\ \A i \in DOMAIN trail : trail[i].server = e.server => trail[i].time <= e.time
    /\ trail' = Append(trail, e)

(* The event of a step is the last one of the trail it leads to. *)
Next == trail' # << >> /\ Last(trail') \in Event /\ Add(Last(trail'))

Spec == Init /\ [][Next]_trail
=============================================================================
