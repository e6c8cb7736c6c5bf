------------------------------ MODULE AiDrafts -------------------------------
(***************************************************************************)
(* The drafts of journal entries the assistant proposes and the one-time   *)
(* tokens that confirm them (AiDraftStore, the route execute-entry). The   *)
(* store lives in memory, is bounded, and forgets at a restart; the token  *)
(* is the client's, who may send it as often as it likes, also after a     *)
(* lost answer. A token is taken to be unforgeable, so it is its draft.    *)
(***************************************************************************)
EXTENDS Integers, Sequences, FiniteSets

CONSTANTS
    DraftUsers,   \* users with the permission journal:create
    SelfPosting,  \* those of them who may approve and post their own entry
    MaxRecords,   \* MAX_RECORDS
    Ttl,          \* life of a token
    MaxDrafts,    \* bound: drafts ever issued
    MaxClock,     \* bound: last instant
    MaxSessions   \* bound: restarts

DraftIds == 1..MaxDrafts   \* in the order they are issued

ASSUME DraftsAssumption ==
    /\ DraftUsers # {} /\ SelfPosting \subseteq DraftUsers
    /\ MaxRecords \in Nat \ {0} /\ Ttl \in Nat \ {0}
    /\ MaxDrafts \in Nat /\ MaxClock \in Nat /\ MaxSessions \in Nat

VARIABLES
    records,    \* the ids in the store; the order of the Map is that of the ids
    drafts,     \* what each draft says
    outcome,    \* journal entries made of each draft, with their status
    session,    \* number of restarts so far
    clock

draftVars == <<records, drafts, outcome, session, clock>>

Unissued == [issued |-> FALSE, userId |-> CHOOSE u \in DraftUsers : TRUE,
             expiresAt |-> 0, consumed |-> FALSE, session |-> 0]

DraftsInit ==
    /\ records = {}
    /\ drafts = [d \in DraftIds |-> Unissued]
    /\ outcome = [d \in DraftIds |-> <<>>]
    /\ session = 0
    /\ clock = 1

Expired(d) == drafts[d].expiresAt <= clock

-----------------------------------------------------------------------------
(* Slip: only expired drafts are evicted. *)
ExpiredOnly(kept) == kept

(* The oldest go while there are more than MAX_RECORDS. *)
WithinBound(kept) == {d \in kept : Cardinality({c \in kept : c > d}) < MaxRecords}

EvictExpired == WithinBound({d \in records : ~Expired(d)})

(* The eviction comes first, so one draft more than the bound is stored. *)
IssueDraft(u) ==
    /\ \E d \in DraftIds :
         /\ ~drafts[d].issued
         /\ \A c \in DraftIds : c < d => drafts[c].issued
         /\ drafts' = [drafts EXCEPT ![d] =
              [issued |-> TRUE, userId |-> u, expiresAt |-> clock + Ttl,
               consumed |-> FALSE, session |-> session]]
         /\ records' = EvictExpired \union {d}
    /\ UNCHANGED <<outcome, session, clock>>

(* Slip: the use of a token is not looked at. *)
UsableAgain(u, d) == d \in records /\ ~Expired(d) /\ drafts[d].userId = u

(* verify, in the order of its refusals. *)
Usable(u, d) ==
    /\ d \in records
    /\ ~Expired(d)
    /\ drafts[d].userId = u
    /\ ~drafts[d].consumed

Consume(d) == drafts' = [drafts EXCEPT ![d].consumed = TRUE]

(* An expired draft is removed by the attempt to use it; any other refusal *)
(* changes nothing.                                                        *)
RefuseExpired(d) ==
    /\ d \in records
    /\ Expired(d)
    /\ records' = records \ {d}
    /\ UNCHANGED <<drafts, outcome, session, clock>>

(* The token is used up although nothing is created: the client's copy     *)
(* differs from the server's, the draft is incomplete or unbalanced, or    *)
(* createJournalEntry refuses it.                                          *)
ExecutionFails(u, d) ==
    /\ Usable(u, d)
    /\ Consume(d)
    /\ UNCHANGED <<records, outcome, session, clock>>

(* Consumed, created, then posted for those who may, else submitted. *)
ExecuteEntry(u, d) ==
    /\ Usable(u, d)
    /\ Consume(d)
    /\ outcome' = [outcome EXCEPT ![d] =
         Append(@, IF u \in SelfPosting THEN "POSTED" ELSE "SUBMITTED")]
    /\ UNCHANGED <<records, session, clock>>

(* A restart forgets the store; the entries made stay. *)
RestartDrafts ==
    /\ session < MaxSessions
    /\ records' = {}
    /\ session' = session + 1
    /\ UNCHANGED <<drafts, outcome, clock>>

Pass ==
    /\ clock < MaxClock
    /\ clock' = clock + 1
    /\ UNCHANGED <<records, drafts, outcome, session>>

DraftsNext ==
    \/ \E u \in DraftUsers : IssueDraft(u)
    \/ \E u \in DraftUsers, d \in DraftIds : ExecuteEntry(u, d) \/ ExecutionFails(u, d)
    \/ \E d \in DraftIds : RefuseExpired(d)
    \/ RestartDrafts
    \/ Pass

DraftsSpec == DraftsInit /\ [][DraftsNext]_draftVars

-----------------------------------------------------------------------------
(* Properties *)

DraftsTypeOK ==
    /\ records \subseteq DraftIds
    /\ drafts \in [DraftIds -> [issued: BOOLEAN, userId: DraftUsers, expiresAt: Nat,
                                consumed: BOOLEAN, session: Nat]]
    /\ outcome \in [DraftIds -> Seq({"POSTED", "SUBMITTED"})]
    /\ session \in Nat /\ clock \in Nat

(* A draft becomes an entry at most once, and only while it is open: not   *)
(* after its use, its expiry, its eviction or a restart, however often and *)
(* by whomever the token is sent (consume, execute-entry). The store       *)
(* implements OneTimeConfirmation.                                         *)
Fate(d) ==
    IF ~drafts[d].issued THEN "UNISSUED"
    ELSE IF drafts[d].consumed THEN "USED"
    ELSE IF d \in records /\ ~Expired(d) THEN "OPEN" ELSE "LOST"

Once == INSTANCE OneTimeConfirmation WITH
            Drafts <- DraftIds,
            fate <- [d \in DraftIds |-> Fate(d)],
            made <- [d \in DraftIds |-> Len(outcome[d])]

ImplementsOnce == Once!Spec

(* The bound takes the oldest drafts only: a draft of this session that    *)
(* has not expired is forgotten only once MAX_RECORDS younger ones have    *)
(* been issued, and never more than one draft above the bound is stored    *)
(* (evictExpired, issue).                                                  *)
Younger(d) ==
    {c \in DraftIds : drafts[c].issued /\ drafts[c].session = session /\ c > d}

RecentDraftsKept ==
    /\ Cardinality(records) <= MaxRecords + 1
    /\ \A d \in DraftIds :
         drafts[d].issued /\ drafts[d].session = session /\ ~Expired(d) /\ d \notin records =>
             Cardinality(Younger(d)) > MaxRecords
=============================================================================
