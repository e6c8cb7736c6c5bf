------------------------- MODULE OneTimeConfirmation -------------------------
(***************************************************************************)
(* What the confirmation of AI drafts promises: a draft is open once, is   *)
(* used at most once and then makes at most one journal entry, and a draft *)
(* that was lost (expired, evicted, forgotten by a restart) stays lost.    *)
(***************************************************************************)
EXTENDS Naturals

CONSTANTS Drafts

VARIABLES
    fate,   \* what became of each draft
    made    \* journal entries made from each draft

vars == <<fate, made>>

Init == /\ fate = [d \in Drafts |-> "UNISSUED"]
        /\ made = [d \in Drafts |-> 0]

Lost(S) == [d \in Drafts |-> IF d \in S THEN "LOST" ELSE fate[d]]

(* Issuing a draft, and time, may lose others. *)
Lose(S)  == fate' = Lost(S) /\ UNCHANGED made
Issue(d, S) == /\ fate[d] = "UNISSUED"
               /\ fate' = [Lost(S) EXCEPT ![d] = "OPEN"]
               /\ UNCHANGED made

Use(d, entries) ==
    /\ fate[d] = "OPEN"
    /\ fate' = [fate EXCEPT ![d] = "USED"]
    /\ made' = [made EXCEPT ![d] = @ + entries]

Next == \/ \E S \in SUBSET {d \in Drafts : fate[d] = "OPEN"} :
               Lose(S) \/ \E d \in Drafts \ S : Issue(d, S)
        \/ \E d \in Drafts, entries \in {0, 1} : Use(d, entries)

Spec == Init /\ [][Next]_vars
=============================================================================
