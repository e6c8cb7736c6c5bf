----------------------------- MODULE PeopleProofs -----------------------------
(* Proofs about the entries an assistant makes, attendance and payroll. For any *)
(* users, bounds and contents: drafts are confirmed once at most, the store  *)
(* forgets none but the oldest of too many, and a dictation is posted once.  *)
(* For a month of any length, any leaves and settings, and any number of     *)
(* corrections, lost writes and restarts: presence is punched, the link is   *)
(* as decided, and what a run withholds is the days missed less the          *)
(* presences that make up for them.                                          *)
(* For any workers, contracts and months: payroll runs and advances agree.   *)
EXTENDS MCPeople, FiniteFacts, SequenceTheorems

(* The largest of a finite set of numbers, as many as the bound. *)
LEMMA LargestFew ==
  ASSUME NEW K, K \subseteq Nat, IsFiniteSet(K)
  PROVE  WithinBound(K) \subseteq K /\ Cardinality(WithinBound(K)) <= MaxRecords
<1> DEFINE Above(d) == {c \in K : c > d}
           Kept == WithinBound(K)
<1>1. Kept = {d \in K : Cardinality(Above(d)) < MaxRecords}
  BY DEF WithinBound
<1>2. Kept \subseteq K /\ IsFiniteSet(Kept) /\ Cardinality(Kept) \in Nat
  BY <1>1, FS_Subset, FS_CardinalityType
<1> HIDE DEF Kept
<1>3. CASE Kept = {}
  BY <1>2, <1>3, FS_EmptySet, DraftsAssumption DEF Kept
<1>4. CASE Kept # {}
  <2>1. PICK t \in Kept : \A x \in Kept : t <= x
    BY <1>2, <1>4, LeastOf
  <2>2. Kept \ {t} \subseteq Above(t)
    BY <1>2, <2>1
  <2>3. IsFiniteSet(Above(t)) /\ Cardinality(Above(t)) \in Nat
    BY FS_Subset, FS_CardinalityType
  <2>4. Cardinality(Kept \ {t}) <= Cardinality(Above(t))
    BY <2>2, <2>3, FS_Subset
  <2>5. Cardinality(Kept \ {t}) = Cardinality(Kept) - 1
    BY <1>2, <2>1, FS_RemoveElement
  <2>6. Cardinality(Above(t)) < MaxRecords
    BY <1>1, <2>1
  <2>7. Cardinality(Kept) <= MaxRecords
    BY <1>2, <2>3, <2>4, <2>5, <2>6, DraftsAssumption
  <2> QED
    BY <1>2, <2>7 DEF Kept
<1> QED
  BY <1>3, <1>4


-----------------------------------------------------------------------------
(* The store of drafts.                                                      *)
IsDraft(r) ==
    r \in [issued: BOOLEAN, userId: {r.userId}, expiresAt: Nat, consumed: BOOLEAN, session: Nat]

DraftsShape ==
    /\ records \subseteq DraftIds
    /\ drafts = [d \in DraftIds |-> drafts[d]]
    /\ \A d \in DraftIds : IsDraft(drafts[d])
    /\ outcome \in [DraftIds -> Seq({"POSTED", "SUBMITTED"})]
    /\ session \in Nat /\ clock \in Nat

StoredNow == \A d \in records : drafts[d].issued /\ drafts[d].session = session
IssuedInOrder == \A c, d \in DraftIds : drafts[d].issued /\ c < d => drafts[c].issued
SessionsSoFar == \A d \in DraftIds : drafts[d].session <= session

StoreInv == DraftsShape /\ StoredNow /\ IssuedInOrder /\ SessionsSoFar

(* Every draft but d keeps what it says; d keeps it, but for its use.        *)
LEMMA OneDraftChanges ==
  ASSUME DraftsShape, NEW d \in DraftIds, NEW new, drafts' = [drafts EXCEPT ![d] = new]
  PROVE  /\ drafts' = [c \in DraftIds |-> drafts'[c]]
         /\ \A c \in DraftIds : drafts'[c] = IF c = d THEN new ELSE drafts[c]
<1>1. drafts' = [c \in DraftIds |-> IF c = d THEN new ELSE drafts[c]]
  BY DEF DraftsShape
<1> QED
  BY <1>1

LEMMA ConsumeChanges ==
  ASSUME DraftsShape, NEW d \in DraftIds, Consume(d)
  PROVE  /\ drafts' = [c \in DraftIds |-> drafts'[c]]
         /\ \A c \in DraftIds : IsDraft(drafts'[c])
         /\ \A c \in DraftIds :
              /\ drafts'[c].issued = drafts[c].issued
              /\ drafts'[c].userId = drafts[c].userId
              /\ drafts'[c].expiresAt = drafts[c].expiresAt
              /\ drafts'[c].session = drafts[c].session
              /\ c # d => drafts'[c].consumed = drafts[c].consumed
         /\ drafts'[d].consumed
<1> DEFINE new == [drafts[d] EXCEPT !.consumed = TRUE]
<1>1. drafts' = [drafts EXCEPT ![d] = new]
  BY DEF Consume
<1>2. IsDraft(drafts[d])
  BY DEF DraftsShape
<1>3. /\ IsDraft(new) /\ new.issued = drafts[d].issued /\ new.userId = drafts[d].userId
      /\ new.expiresAt = drafts[d].expiresAt /\ new.session = drafts[d].session
      /\ new.consumed = TRUE
  BY <1>2 DEF IsDraft
<1> HIDE DEF new
<1>4. /\ drafts' = [c \in DraftIds |-> drafts'[c]]
      /\ \A c \in DraftIds : drafts'[c] = IF c = d THEN new ELSE drafts[c]
  BY <1>1, OneDraftChanges
<1> QED
  BY <1>3, <1>4 DEF DraftsShape

LEMMA StoreStep ==
  ASSUME StoreInv, [DraftsNext]_draftVars
  PROVE  StoreInv'
<1>1. ASSUME NEW u \in DraftUsers, IssueDraft(u)
      PROVE  StoreInv'
  <2> DEFINE new == [issued |-> TRUE, userId |-> u, expiresAt |-> clock + Ttl,
                     consumed |-> FALSE, session |-> session]
  <2>1. PICK d \in DraftIds : /\ ~drafts[d].issued
                              /\ \A c \in DraftIds : c < d => drafts[c].issued
                              /\ drafts' = [drafts EXCEPT ![d] = new]
                              /\ records' = EvictExpired \union {d}
    BY <1>1 DEF IssueDraft
  <2>2. IsDraft(new) /\ new.issued /\ new.session = session
    BY DraftsAssumption DEF IsDraft, StoreInv, DraftsShape
  <2> HIDE DEF new
  <2>3. /\ drafts' = [c \in DraftIds |-> drafts'[c]]
        /\ \A c \in DraftIds : drafts'[c] = IF c = d THEN new ELSE drafts[c]
    BY <2>1, OneDraftChanges DEF StoreInv
  <2>4. EvictExpired \subseteq records
    BY DEF EvictExpired, WithinBound
  <2>5. UNCHANGED <<outcome, session, clock>>
    BY <1>1 DEF IssueDraft
  <2>6. DraftsShape'
    BY <2>1, <2>2, <2>3, <2>4, <2>5 DEF StoreInv, DraftsShape
  <2>7. StoredNow'
    BY <2>1, <2>2, <2>3, <2>4, <2>5 DEF StoreInv, StoredNow, DraftsShape
  <2>8. IssuedInOrder'
    BY <2>1, <2>2, <2>3 DEF StoreInv, IssuedInOrder, DraftIds
  <2>9. SessionsSoFar'
    BY <2>2, <2>3, <2>5 DEF StoreInv, SessionsSoFar, DraftsShape
  <2> QED
    BY <2>6, <2>7, <2>8, <2>9 DEF StoreInv
<1>2. ASSUME NEW d \in DraftIds, Consume(d), UNCHANGED <<records, session, clock>>,
             outcome' \in [DraftIds -> Seq({"POSTED", "SUBMITTED"})]
      PROVE  StoreInv'
  BY <1>2, ConsumeChanges
  DEF StoreInv, DraftsShape, StoredNow, IssuedInOrder, SessionsSoFar
<1>3. ASSUME NEW u \in DraftUsers, NEW d \in DraftIds, ExecuteEntry(u, d)
      PROVE  StoreInv'
  <2>1. outcome' \in [DraftIds -> Seq({"POSTED", "SUBMITTED"})]
    BY <1>3 DEF ExecuteEntry, StoreInv, DraftsShape
  <2> QED
    BY <1>2, <1>3, <2>1 DEF ExecuteEntry
<1>4. ASSUME NEW u \in DraftUsers, NEW d \in DraftIds, ExecutionFails(u, d)
      PROVE  StoreInv'
  BY <1>2, <1>4 DEF ExecutionFails, StoreInv, DraftsShape
<1>5. ASSUME NEW d \in DraftIds, RefuseExpired(d)
      PROVE  StoreInv'
  BY <1>5 DEF RefuseExpired, StoreInv, DraftsShape, IsDraft, StoredNow, IssuedInOrder,
              SessionsSoFar
<1>6. CASE RestartDrafts
  <2>1. records' = {} /\ session' = session + 1 /\ UNCHANGED <<drafts, outcome, clock>>
    BY <1>6 DEF RestartDrafts
  <2>2. \A d \in DraftIds : drafts[d].session \in Nat
    BY DEF StoreInv, DraftsShape, IsDraft
  <2>3. SessionsSoFar'
    BY <2>1, <2>2 DEF StoreInv, SessionsSoFar, DraftsShape
  <2> QED
    BY <2>1, <2>3 DEF StoreInv, DraftsShape, IsDraft, StoredNow, IssuedInOrder
<1>7. CASE Pass
  <2>1. /\ UNCHANGED <<records, drafts, outcome, session>>
        /\ clock' \in Nat
    BY <1>7 DEF Pass, StoreInv, DraftsShape
  <2> QED
    BY <2>1 DEF StoreInv, DraftsShape, IsDraft, StoredNow, IssuedInOrder, SessionsSoFar
<1>8. CASE UNCHANGED draftVars
  BY <1>8 DEF draftVars, StoreInv, DraftsShape, IsDraft, StoredNow, IssuedInOrder,
              SessionsSoFar
<1> QED
  BY <1>1, <1>3, <1>4, <1>5, <1>6, <1>7, <1>8 DEF DraftsNext

LEMMA IdsAreFinite ==
  /\ DraftIds \subseteq Nat
  /\ \A S \in SUBSET DraftIds : IsFiniteSet(S) /\ Cardinality(S) \in Nat
<1>1. IsFiniteSet(DraftIds) /\ DraftIds \subseteq Nat
  BY FS_Interval, DraftsAssumption DEF DraftIds
<1> QED
  BY <1>1, FS_Subset, FS_CardinalityType

(* More drafts, more younger ones. *)
LEMMA YoungerGrow ==
  ASSUME NEW d, Younger(d) \subseteq Younger(d)'
  PROVE  Cardinality(Younger(d)) <= Cardinality(Younger(d)')
<1>1. Younger(d)' \subseteq DraftIds
  BY DEF Younger
<1>2. IsFiniteSet(Younger(d)')
  BY <1>1, IdsAreFinite
<1> QED
  BY <1>2, FS_Subset

LEMMA IssueKeepsRecent ==
  ASSUME StoreInv, RecentDraftsKept, NEW u \in DraftUsers, IssueDraft(u)
  PROVE  RecentDraftsKept'
<1> DEFINE new == [issued |-> TRUE, userId |-> u, expiresAt |-> clock + Ttl,
                   consumed |-> FALSE, session |-> session]
           K == {c \in records : ~Expired(c)}
<1>1. PICK d \in DraftIds : /\ ~drafts[d].issued
                            /\ \A c \in DraftIds : c < d => drafts[c].issued
                            /\ drafts' = [drafts EXCEPT ![d] = new]
                            /\ records' = WithinBound(K) \union {d}
  BY DEF IssueDraft, EvictExpired
<1>2. new.issued /\ new.session = session
  OBVIOUS
<1> HIDE DEF new
<1>3. \A c \in DraftIds : drafts'[c] = IF c = d THEN new ELSE drafts[c]
  BY <1>1, OneDraftChanges DEF StoreInv
<1>4. UNCHANGED <<session, clock>>
  BY DEF IssueDraft
<1>5. /\ K \subseteq DraftIds /\ K \subseteq Nat /\ IsFiniteSet(K)
      /\ \A c \in K : drafts[c].issued /\ drafts[c].session = session
  BY IdsAreFinite DEF StoreInv, DraftsShape, StoredNow
<1> HIDE DEF K
<1>6. Cardinality(records') <= MaxRecords + 1
  <2>1. WithinBound(K) \subseteq DraftIds /\ Cardinality(WithinBound(K)) <= MaxRecords
    BY <1>5, LargestFew
  <2>2. IsFiniteSet(WithinBound(K)) /\ Cardinality(WithinBound(K)) \in Nat
    BY <2>1, IdsAreFinite
  <2>3. Cardinality(WithinBound(K) \union {d})
          \in {Cardinality(WithinBound(K)), Cardinality(WithinBound(K)) + 1}
    BY <2>2, FS_AddElement
  <2> QED
    BY <1>1, <2>1, <2>2, <2>3, DraftsAssumption
<1>7. ASSUME NEW c \in DraftIds, drafts'[c].issued, drafts'[c].session = session',
             ~Expired(c)', c \notin records'
      PROVE  Cardinality(Younger(c)') > MaxRecords
  <2>1. /\ c # d /\ drafts'[c] = drafts[c] /\ drafts[c].issued
        /\ drafts[c].session = session /\ ~Expired(c)
    BY <1>1, <1>3, <1>4, <1>7 DEF Expired
  <2>2. Younger(c) \subseteq Younger(c)'
    BY <1>1, <1>3, <1>4 DEF Younger
  <2>3. Cardinality(Younger(c)) \in Nat /\ Cardinality(Younger(c)') \in Nat
    BY IdsAreFinite DEF Younger
  <2>4. CASE c \notin records
    BY <2>1, <2>2, <2>3, <2>4, YoungerGrow, DraftsAssumption DEF RecentDraftsKept
  <2>5. CASE c \in records
    <3> DEFINE Above == {x \in K : x > c}
    <3>1. c \in K /\ c \notin WithinBound(K)
      BY <1>1, <1>7, <2>1, <2>5 DEF K
    <3>2. ~(Cardinality(Above) < MaxRecords)
      BY <3>1 DEF WithinBound
    <3>3. c \in Nat /\ d \in Nat /\ ~(d < c)
      BY <1>1, <2>1, IdsAreFinite DEF StoreInv, IssuedInOrder
    <3>4. d > c /\ d \notin Above
      BY <1>1, <1>5, <2>1, <3>3
    <3>5. Above \union {d} \subseteq Younger(c)'
      BY <1>1, <1>2, <1>3, <1>4, <1>5, <3>4 DEF Younger
    <3>6. Above \subseteq DraftIds
      BY <1>5
    <3> HIDE DEF Above
    <3>7. IsFiniteSet(Above) /\ Cardinality(Above) \in Nat
      BY <3>6, IdsAreFinite
    <3>8. Cardinality(Above \union {d}) = Cardinality(Above) + 1
      BY <3>4, <3>7, FS_AddElement
    <3>9. Younger(c)' \subseteq DraftIds
      BY DEF Younger
    <3>10. IsFiniteSet(Younger(c)')
      BY <3>9, IdsAreFinite
    <3>11. Cardinality(Above \union {d}) <= Cardinality(Younger(c)')
      BY <3>5, <3>10, FS_Subset
    <3> QED
      BY <2>3, <3>2, <3>7, <3>8, <3>11, DraftsAssumption
  <2> QED
    BY <2>4, <2>5
<1> QED
  BY <1>6, <1>7 DEF RecentDraftsKept

LEMMA RecentStep ==
  ASSUME StoreInv, RecentDraftsKept, [DraftsNext]_draftVars
  PROVE  RecentDraftsKept'
<1>1. ASSUME NEW u \in DraftUsers, IssueDraft(u)
      PROVE  RecentDraftsKept'
  BY <1>1, IssueKeepsRecent
<1>2. ASSUME NEW d \in DraftIds, Consume(d), UNCHANGED <<records, session, clock>>
      PROVE  RecentDraftsKept'
  <2>1. \A c \in DraftIds : /\ drafts'[c].issued = drafts[c].issued
                            /\ drafts'[c].session = drafts[c].session
                            /\ Expired(c)' = Expired(c)
    BY <1>2, ConsumeChanges DEF StoreInv, Expired
  <2>2. \A c : Younger(c)' = Younger(c)
    BY <1>2, <2>1 DEF Younger
  <2> QED
    BY <1>2, <2>1, <2>2 DEF RecentDraftsKept
<1>3. ASSUME NEW d \in DraftIds, RefuseExpired(d)
      PROVE  RecentDraftsKept'
  <2>1. /\ d \in records /\ Expired(d) /\ records' = records \ {d}
        /\ UNCHANGED <<drafts, session, clock>>
    BY <1>3 DEF RefuseExpired
  <2>2. IsFiniteSet(records) /\ Cardinality(records) \in Nat
    BY IdsAreFinite DEF StoreInv, DraftsShape
  <2>3. Cardinality(records') = Cardinality(records) - 1
    BY <2>1, <2>2, FS_RemoveElement
  <2>4. Cardinality(records') <= MaxRecords + 1
    BY <2>2, <2>3, DraftsAssumption DEF RecentDraftsKept
  <2>5. \A c : Younger(c)' = Younger(c)
    BY <2>1 DEF Younger
  <2> QED
    BY <2>1, <2>4, <2>5 DEF RecentDraftsKept, Expired
<1>4. CASE RestartDrafts
  <2>1. records' = {} /\ session' = session + 1 /\ drafts' = drafts
    BY <1>4 DEF RestartDrafts
  <2>2. \A d \in DraftIds : drafts[d].session # session + 1
    BY DEF StoreInv, DraftsShape, IsDraft, SessionsSoFar
  <2>3. Cardinality(records') <= MaxRecords + 1
    BY <2>1, FS_EmptySet, DraftsAssumption
  <2> QED
    BY <2>1, <2>2, <2>3 DEF RecentDraftsKept
<1>5. CASE Pass
  <2>1. clock' = clock + 1 /\ UNCHANGED <<records, drafts, session>>
    BY <1>5 DEF Pass
  <2>2. \A d \in DraftIds : Expired(d) => Expired(d)'
    BY <2>1 DEF StoreInv, DraftsShape, IsDraft, Expired
  <2>3. \A d : Younger(d)' = Younger(d)
    BY <2>1 DEF Younger
  <2> QED
    BY <2>1, <2>2, <2>3 DEF RecentDraftsKept
<1>6. CASE UNCHANGED draftVars
  BY <1>6 DEF draftVars, RecentDraftsKept, Expired, Younger
<1> QED
  BY <1>1, <1>2, <1>3, <1>4, <1>5, <1>6 DEF DraftsNext, ExecuteEntry, ExecutionFails


-----------------------------------------------------------------------------
(* The drafts implement a one-time confirmation.                             *)
Fates == [d \in DraftIds |-> Fate(d)]
Made  == [d \in DraftIds |-> Len(outcome[d])]

(* What a step makes of the fates of the drafts: those in S are lost.        *)
LEMMA LoseSome ==
  ASSUME NEW S \in SUBSET {d \in DraftIds : Fate(d) = "OPEN"},
         \A d \in DraftIds : Fate(d)' = IF d \in S THEN "LOST" ELSE Fate(d),
         \A d \in DraftIds : Len(outcome[d])' = Len(outcome[d])
  PROVE  Once!Next
<1>1. Fates' = Once!Lost(S) /\ Made' = Made
  BY DEF Fates, Made, Once!Lost
<1>2. Once!Lose(S)
  BY <1>1 DEF Fates, Made, Once!Lose
<1>3. S \in SUBSET {d \in DraftIds : [c \in DraftIds |-> Fate(c)][d] = "OPEN"}
  OBVIOUS
<1> QED
  BY <1>2, <1>3 DEF Once!Next

LEMMA UseOne ==
  ASSUME NEW d \in DraftIds, NEW n \in {0, 1}, Fate(d) = "OPEN", Fate(d)' = "USED",
         \A c \in DraftIds \ {d} : Fate(c)' = Fate(c),
         \A c \in DraftIds : Len(outcome[c])' = IF c = d THEN Len(outcome[c]) + n
                                                ELSE Len(outcome[c])
  PROVE  Once!Next
<1>1. /\ Fates' = [Fates EXCEPT ![d] = "USED"]
      /\ Made' = [Made EXCEPT ![d] = @ + n]
  BY DEF Fates, Made
<1>2. Once!Use(d, n)
  BY <1>1 DEF Fates, Made, Once!Use
<1> QED
  BY <1>2 DEF Once!Next

(* Drafts that say the same, and are stored or not and expired or not as     *)
(* before, fare the same.                                                    *)
LEMMA FateOf ==
  ASSUME StoreInv, NEW d \in DraftIds
  PROVE  /\ Fate(d) \in {"UNISSUED", "USED", "OPEN", "LOST"}
         /\ Fate(d) = "UNISSUED" <=> ~drafts[d].issued
         /\ Fate(d) = "USED" <=> drafts[d].issued /\ drafts[d].consumed
         /\ Fate(d) = "OPEN" <=> drafts[d].issued /\ ~drafts[d].consumed
                                 /\ d \in records /\ ~Expired(d)
         /\ Fate(d) = "LOST" <=> drafts[d].issued /\ ~drafts[d].consumed
                                 /\ ~(d \in records /\ ~Expired(d))
<1>1. drafts[d].issued \in BOOLEAN /\ drafts[d].consumed \in BOOLEAN
  BY DEF StoreInv, DraftsShape, IsDraft
<1> QED
  BY <1>1 DEF Fate, Expired

LEMMA OnceStep ==
  ASSUME StoreInv, [DraftsNext]_draftVars
  PROVE  [Once!Next]_<<Fates, Made>>
<1> DEFINE Gone == {d \in DraftIds : Fate(d) = "OPEN" /\ Fate(d)' # "OPEN"}
<1>0. StoreInv'
  BY StoreStep
<1>f. \A d \in DraftIds :
         /\ Fate(d)' \in {"UNISSUED", "USED", "OPEN", "LOST"}
         /\ Fate(d)' = "UNISSUED" <=> ~drafts'[d].issued
         /\ Fate(d)' = "USED" <=> drafts'[d].issued /\ drafts'[d].consumed
         /\ Fate(d)' = "OPEN" <=> drafts'[d].issued /\ ~drafts'[d].consumed
                                 /\ d \in records' /\ ~Expired(d)'
         /\ Fate(d)' = "LOST" <=> drafts'[d].issued /\ ~drafts'[d].consumed
                                 /\ ~(d \in records' /\ ~Expired(d)')
  <2>1. \A d \in DraftIds : drafts'[d].issued \in BOOLEAN /\ drafts'[d].consumed \in BOOLEAN
    BY <1>0 DEF StoreInv, DraftsShape, IsDraft
  <2> QED
    BY <2>1 DEF Fate, Expired
<1>1. ASSUME NEW u \in DraftUsers, IssueDraft(u)
      PROVE  Once!Next
  <2> DEFINE new == [issued |-> TRUE, userId |-> u, expiresAt |-> clock + Ttl,
                     consumed |-> FALSE, session |-> session]
  <2>1. PICK d \in DraftIds : /\ ~drafts[d].issued
                              /\ drafts' = [drafts EXCEPT ![d] = new]
                              /\ records' = EvictExpired \union {d}
    BY <1>1 DEF IssueDraft
  <2>2. new.issued /\ ~new.consumed /\ new.expiresAt = clock + Ttl
    OBVIOUS
  <2> HIDE DEF new
  <2>3. \A c \in DraftIds : drafts'[c] = IF c = d THEN new ELSE drafts[c]
    BY <2>1, OneDraftChanges DEF StoreInv
  <2>4. EvictExpired \subseteq records
    BY DEF EvictExpired, WithinBound
  <2>5. UNCHANGED <<outcome, clock>> /\ clock \in Nat
    BY <1>1 DEF IssueDraft, StoreInv, DraftsShape
  <2>6. Fate(d) = "UNISSUED" /\ Fate(d)' = "OPEN"
    BY <1>f, <2>1, <2>2, <2>3, <2>5, FateOf, DraftsAssumption DEF Expired
  <2>7. \A c \in DraftIds \ {d} : Fate(c)' = IF c \in Gone THEN "LOST" ELSE Fate(c)
    BY <1>f, <2>1, <2>3, <2>4, <2>5, FateOf DEF Expired
  <2>8. d \notin Gone
    BY <2>6
  <2> HIDE DEF Gone
  <2>9. Fates' = [Once!Lost(Gone) EXCEPT ![d] = "OPEN"] /\ Made' = Made
    BY <2>5, <2>6, <2>7 DEF Fates, Made, Once!Lost
  <2>10. Once!Issue(d, Gone)
    BY <2>6, <2>9 DEF Fates, Made, Once!Issue
  <2>11. Gone \in SUBSET {c \in DraftIds : [x \in DraftIds |-> Fate(x)][c] = "OPEN"}
    BY DEF Gone
  <2> QED
    BY <2>8, <2>10, <2>11 DEF Once!Next
<1>2. ASSUME NEW u \in DraftUsers, NEW d \in DraftIds, NEW n \in {0, 1},
             Usable(u, d), Consume(d), UNCHANGED <<records, clock>>,
             \A c \in DraftIds : Len(outcome[c])' = IF c = d THEN Len(outcome[c]) + n
                                                    ELSE Len(outcome[c])
      PROVE  Once!Next
  <2>1. \A c \in DraftIds : /\ drafts'[c].issued = drafts[c].issued
                            /\ c # d => drafts'[c].consumed = drafts[c].consumed
                            /\ Expired(c)' = Expired(c)
    BY <1>2, ConsumeChanges DEF StoreInv, Expired
  <2>2. drafts'[d].consumed /\ drafts[d].issued
    BY <1>2, ConsumeChanges DEF StoreInv, StoredNow, Usable
  <2>3. Fate(d) = "OPEN"
    BY <1>2, <2>2, FateOf DEF Usable
  <2>4. Fate(d)' = "USED"
    BY <1>f, <2>1, <2>2
  <2>5. ASSUME NEW c \in DraftIds \ {d}
        PROVE  Fate(c)' = Fate(c)
    BY <1>2, <1>f, <2>1, FateOf
  <2> QED
    BY <1>2, <2>3, <2>4, <2>5, UseOne
<1>3. ASSUME NEW u \in DraftUsers, NEW d \in DraftIds, ExecuteEntry(u, d)
      PROVE  Once!Next
  <2>1. Usable(u, d) /\ Consume(d) /\ UNCHANGED <<records, clock>>
    BY <1>3 DEF ExecuteEntry
  <2>2. \A c \in DraftIds : outcome[c] \in Seq({"POSTED", "SUBMITTED"})
    BY DEF StoreInv, DraftsShape
  <2>3. \A c \in DraftIds : Len(outcome[c])' = IF c = d THEN Len(outcome[c]) + 1
                                               ELSE Len(outcome[c])
    BY <1>3, <2>2 DEF ExecuteEntry, StoreInv, DraftsShape
  <2> QED
    BY <1>2, <2>1, <2>3
<1>4. ASSUME NEW u \in DraftUsers, NEW d \in DraftIds, ExecutionFails(u, d)
      PROVE  Once!Next
  <2>1. Usable(u, d) /\ Consume(d) /\ UNCHANGED <<records, clock, outcome>>
    BY <1>4 DEF ExecutionFails
  <2>2. \A c \in DraftIds : Len(outcome[c])' = IF c = d THEN Len(outcome[c]) + 0
                                               ELSE Len(outcome[c])
    BY <2>1 DEF StoreInv, DraftsShape
  <2> QED
    BY <1>2, <2>1, <2>2
<1>5. ASSUME drafts' = drafts, records' \subseteq records, outcome' = outcome,
             \A d \in DraftIds : Expired(d) => Expired(d)'
      PROVE  Once!Next
  <2>1. \A d \in DraftIds : Fate(d)' = IF d \in Gone THEN "LOST" ELSE Fate(d)
    BY <1>5, <1>f, FateOf
  <2>2. Gone \in SUBSET {d \in DraftIds : Fate(d) = "OPEN"}
    OBVIOUS
  <2>3. \A d \in DraftIds : Len(outcome[d])' = Len(outcome[d])
    BY <1>5
  <2> QED
    BY <2>1, <2>2, <2>3, LoseSome
<1>6. ASSUME NEW d \in DraftIds, RefuseExpired(d)
      PROVE  Once!Next
  BY <1>5, <1>6 DEF RefuseExpired, Expired
<1>7. CASE RestartDrafts
  BY <1>5, <1>7 DEF RestartDrafts, Expired
<1>8. CASE Pass
  <2>1. clock' = clock + 1 /\ UNCHANGED <<records, drafts, outcome>>
    BY <1>8 DEF Pass
  <2>2. \A d \in DraftIds : Expired(d) => Expired(d)'
    BY <2>1 DEF StoreInv, DraftsShape, IsDraft, Expired
  <2> QED
    BY <1>5, <2>1, <2>2
<1>9. CASE UNCHANGED draftVars
  BY <1>5, <1>9 DEF draftVars, Expired
<1> QED
  BY <1>1, <1>3, <1>4, <1>6, <1>7, <1>8, <1>9 DEF DraftsNext

LEMMA StoreInit == DraftsInit => StoreInv
BY DEF DraftsInit, Unissued, StoreInv, DraftsShape, IsDraft, StoredNow, IssuedInOrder,
       SessionsSoFar

(* A draft becomes an entry at most once, and only while it is open: not     *)
(* after its use, its expiry, its eviction or a restart, however often and   *)
(* by whomever the token is sent (verify, consume, execute-entry). Every     *)
(* step of the store is a step of OneTimeConfirmation, or leaves it alone.   *)
THEOREM DraftsImplementOnce == DraftsSpec => ImplementsOnce
<1>1. DraftsInit => Once!Init
  <2> SUFFICES ASSUME DraftsInit PROVE Once!Init
    OBVIOUS
  <2>1. \A d \in DraftIds : Fate(d) = "UNISSUED" /\ Len(outcome[d]) = 0
    BY DEF DraftsInit, Unissued, Fate
  <2> QED
    BY <2>1 DEF Once!Init
<1>2. StoreInv /\ [DraftsNext]_draftVars => [Once!Next]_(Once!vars)
  BY OnceStep DEF Fates, Made, Once!vars
<1>3. StoreInv /\ [DraftsNext]_draftVars => StoreInv'
  BY StoreStep
<1> QED
  BY <1>1, <1>2, <1>3, StoreInit, PTL DEF DraftsSpec, ImplementsOnce, Once!Spec


-----------------------------------------------------------------------------
(* Dictations. Of the entries of a draft, those whose maker may approve his  *)
(* own are none until the draft is posted, and then the one it names.        *)
OwnOf(d) == {e \in DOMAIN voiceEntries :
               voiceEntries[e].draft = d /\ voiceEntries[e].maker \in OwnApproval}

IsVoiceDraft(r) ==
    r \in [status: {"PENDING_REVIEW", "APPROVED", "POSTED", "REJECTED"},
           owner: {r.owner}, content: {r.content}, entry: Nat]
IsVoiceEntry(r) ==
    r \in [draft: {r.draft}, content: {r.content}, maker: {r.maker}, status: {r.status}]

VoiceShape ==
    /\ Len(voiceDrafts) \in Nat
    /\ voiceDrafts = [d \in 1..Len(voiceDrafts) |-> voiceDrafts[d]]
    /\ \A d \in DOMAIN voiceDrafts : IsVoiceDraft(voiceDrafts[d])
    /\ Len(voiceEntries) \in Nat
    /\ voiceEntries = [e \in 1..Len(voiceEntries) |-> voiceEntries[e]]
    /\ \A e \in DOMAIN voiceEntries :
         /\ voiceEntries[e].draft \in DOMAIN voiceDrafts
         /\ IsVoiceEntry(voiceEntries[e])

DraftFollowed(d) ==
    LET draft == voiceDrafts[d]
    IN  /\ draft.status # "POSTED" => OwnOf(d) = {}
        /\ draft.status = "POSTED" =>
             /\ draft.entry \in DOMAIN voiceEntries /\ OwnOf(d) = {draft.entry}
             /\ voiceEntries[draft.entry].content = draft.content
        /\ draft.status = "PENDING_REVIEW" => EntriesOf(d) = {}
        /\ draft.entry # NoVoiceEntry => \A e \in EntriesOf(d) : e <= draft.entry

VoiceInv == VoiceShape /\ \A d \in DOMAIN voiceDrafts : DraftFollowed(d)

LEMMA AppendAny ==
  ASSUME NEW s, NEW n \in Nat, s = [k \in 1..n |-> s[k]], NEW e
  PROVE  /\ Len(s) = n /\ Len(Append(s, e)) = n + 1
         /\ Append(s, e) = [k \in 1..(n + 1) |-> IF k = n + 1 THEN e ELSE s[k]]
<1> DEFINE S == {s[k] : k \in 1..n} \union {e}
<1>1. s \in Seq(S) /\ e \in S
  OBVIOUS
<1> QED
  BY <1>1

LEMMA AppendTo ==
  ASSUME NEW s, Len(s) \in Nat, s = [k \in 1..Len(s) |-> s[k]], NEW e
  PROVE  /\ Len(Append(s, e)) = Len(s) + 1
         /\ Append(s, e) = [k \in 1..(Len(s) + 1) |-> IF k = Len(s) + 1 THEN e ELSE s[k]]
<1>1. ASSUME NEW n \in Nat, n = Len(s)
      PROVE  /\ Len(Append(s, e)) = Len(s) + 1
             /\ Append(s, e)
                  = [k \in 1..(Len(s) + 1) |-> IF k = Len(s) + 1 THEN e ELSE s[k]]
  <2>1. s = [k \in 1..n |-> s[k]]
    BY <1>1
  <2>2. /\ Len(Append(s, e)) = n + 1
        /\ Append(s, e) = [k \in 1..(n + 1) |-> IF k = n + 1 THEN e ELSE s[k]]
    BY <2>1, AppendAny
  <2> QED
    BY <1>1, <2>2
<1> QED
  BY <1>1

(* A draft changes, in a field of its own; the entries stay.                 *)
LEMMA DraftChanges ==
  ASSUME VoiceShape, NEW d \in DOMAIN voiceDrafts, NEW new,
         voiceDrafts' = [voiceDrafts EXCEPT ![d] = new]
  PROVE  /\ Len(voiceDrafts') = Len(voiceDrafts) /\ DOMAIN voiceDrafts' = DOMAIN voiceDrafts
         /\ voiceDrafts' = [k \in 1..Len(voiceDrafts) |-> voiceDrafts'[k]]
         /\ \A k \in DOMAIN voiceDrafts : voiceDrafts'[k] = IF k = d THEN new ELSE voiceDrafts[k]
<1>1. voiceDrafts' = [k \in 1..Len(voiceDrafts) |-> IF k = d THEN new ELSE voiceDrafts[k]]
  BY DEF VoiceShape
<1>2. Len(voiceDrafts') = Len(voiceDrafts)
  BY <1>1 DEF VoiceShape
<1> QED
  BY <1>1, <1>2 DEF VoiceShape

LEMMA SaveKeeps ==
  ASSUME VoiceInv, NEW u, NEW content, SaveVoiceDraft(u, content)
  PROVE  VoiceInv'
<1> DEFINE j == Len(voiceDrafts) + 1
           new == [status |-> "PENDING_REVIEW", owner |-> u, content |-> content,
                   entry |-> NoVoiceEntry]
<1>1. voiceDrafts' = Append(voiceDrafts, new) /\ voiceEntries' = voiceEntries
  BY DEF SaveVoiceDraft
<1>2. IsVoiceDraft(new) /\ new.status = "PENDING_REVIEW" /\ new.entry = 0
  BY DEF NoVoiceEntry, IsVoiceDraft
<1> HIDE DEF new
<1>3. /\ Len(voiceDrafts) \in Nat /\ DOMAIN voiceDrafts = 1..Len(voiceDrafts)
      /\ \A e \in DOMAIN voiceEntries : voiceEntries[e].draft \in DOMAIN voiceDrafts
  BY DEF VoiceInv, VoiceShape
<1>4. /\ Len(voiceDrafts') = j
      /\ voiceDrafts' = [k \in 1..j |-> IF k = j THEN new ELSE voiceDrafts[k]]
  BY <1>1, AppendTo DEF VoiceInv, VoiceShape
<1>5. /\ DOMAIN voiceDrafts' = 1..j
      /\ \A k \in 1..j : voiceDrafts'[k] = IF k = j THEN new ELSE voiceDrafts[k]
      /\ \A k \in 1..j : k # j => k \in DOMAIN voiceDrafts
      /\ DOMAIN voiceDrafts \subseteq 1..j /\ j \notin DOMAIN voiceDrafts
  BY <1>3, <1>4
<1>6. VoiceShape'
  BY <1>1, <1>2, <1>3, <1>4, <1>5 DEF VoiceInv, VoiceShape
<1>7. EntriesOf(j) = {} /\ OwnOf(j) = {}
  BY <1>3, <1>5 DEF EntriesOf, OwnOf
<1>8. \A k : EntriesOf(k)' = EntriesOf(k) /\ OwnOf(k)' = OwnOf(k)
  BY <1>1 DEF EntriesOf, OwnOf
<1>9. ASSUME NEW k, k = j
      PROVE  DraftFollowed(k)'
  <2>1. voiceDrafts'[k] = new /\ EntriesOf(k) = {} /\ OwnOf(k) = {}
    BY <1>3, <1>5, <1>7, <1>9
  <2> QED
    BY <1>2, <1>8, <2>1 DEF DraftFollowed, NoVoiceEntry
<1>10. ASSUME NEW k \in DOMAIN voiceDrafts
       PROVE  DraftFollowed(k)'
  <2>1. voiceDrafts'[k] = voiceDrafts[k] /\ DraftFollowed(k)
    BY <1>5, <1>10 DEF VoiceInv
  <2> QED
    BY <1>1, <1>8, <2>1 DEF DraftFollowed
<1> QED
  BY <1>5, <1>6, <1>9, <1>10 DEF VoiceInv

(* Another content, or a rejection, before the draft is posted.              *)
LEMMA RevisionKeeps ==
  ASSUME VoiceInv, NEW d \in DOMAIN voiceDrafts, NEW new,
         voiceDrafts' = [voiceDrafts EXCEPT ![d] = new], voiceEntries' = voiceEntries,
         new \in [status: {voiceDrafts[d].status, "REJECTED"}, owner: {voiceDrafts[d].owner},
                  content: {new.content}, entry: {voiceDrafts[d].entry}],
         voiceDrafts[d].status # "POSTED"
  PROVE  VoiceInv'
<1>1. /\ Len(voiceDrafts') = Len(voiceDrafts) /\ DOMAIN voiceDrafts' = DOMAIN voiceDrafts
      /\ voiceDrafts' = [k \in 1..Len(voiceDrafts) |-> voiceDrafts'[k]]
      /\ \A k \in DOMAIN voiceDrafts : voiceDrafts'[k] = IF k = d THEN new ELSE voiceDrafts[k]
  BY DraftChanges DEF VoiceInv
<1>2. /\ IsVoiceDraft(new)
      /\ new.status \in {voiceDrafts[d].status, "REJECTED"} /\ new.entry = voiceDrafts[d].entry
  <2>1. IsVoiceDraft(voiceDrafts[d])
    BY DEF VoiceInv, VoiceShape
  <2> QED
    BY <2>1 DEF IsVoiceDraft
<1>3. VoiceShape'
  BY <1>1, <1>2 DEF VoiceInv, VoiceShape
<1>4. \A k : EntriesOf(k)' = EntriesOf(k) /\ OwnOf(k)' = OwnOf(k)
  BY DEF EntriesOf, OwnOf
<1>5. \A k \in DOMAIN voiceDrafts : DraftFollowed(k)'
  BY <1>1, <1>2, <1>4 DEF VoiceInv, DraftFollowed
<1> QED
  BY <1>1, <1>3, <1>5 DEF VoiceInv

LEMMA ApproveKeeps ==
  ASSUME VoiceInv, NEW u, NEW d \in DOMAIN voiceDrafts, ApproveAndPost(u, d)
  PROVE  VoiceInv'
<1> DEFINE own == u \in OwnApproval
           j == Len(voiceEntries) + 1
           entry == [draft |-> d, content |-> voiceDrafts[d].content, maker |-> u,
                     status |-> IF own THEN "POSTED" ELSE "SUBMITTED"]
           new == [voiceDrafts[d] EXCEPT !.status = IF own THEN "POSTED" ELSE "APPROVED",
                                         !.entry = j]
<1>0. /\ Len(voiceEntries) \in Nat /\ DOMAIN voiceEntries = 1..Len(voiceEntries)
      /\ DOMAIN voiceDrafts = 1..Len(voiceDrafts)
      /\ voiceDrafts[d].status # "POSTED"
  BY DEF VoiceInv, VoiceShape, ApproveAndPost, Approvable
<1>1. voiceEntries' = Append(voiceEntries, entry)
  BY DEF ApproveAndPost
<1>2. /\ Len(voiceEntries') = j
      /\ voiceEntries' = [e \in 1..j |-> IF e = j THEN entry ELSE voiceEntries[e]]
  BY <1>1, AppendTo DEF VoiceInv, VoiceShape
<1>3. voiceDrafts' = [voiceDrafts EXCEPT ![d] = new]
  BY <1>2 DEF ApproveAndPost
<1>4. /\ IsVoiceDraft(new) /\ new.content = voiceDrafts[d].content
      /\ new.status = (IF own THEN "POSTED" ELSE "APPROVED") /\ new.entry = j
  <2>1. IsVoiceDraft(voiceDrafts[d]) /\ j \in Nat
    BY <1>0 DEF VoiceInv, VoiceShape
  <2> HIDE DEF j
  <2>2. /\ new.content = voiceDrafts[d].content
        /\ new.status = (IF own THEN "POSTED" ELSE "APPROVED") /\ new.entry = j
    BY <2>1 DEF IsVoiceDraft
  <2> QED
    BY <2>1, <2>2 DEF IsVoiceDraft
<1>5. /\ IsVoiceEntry(entry)
      /\ entry.draft = d /\ entry.maker = u /\ entry.content = voiceDrafts[d].content
  BY DEF IsVoiceEntry
<1> HIDE DEF new, entry
<1>6. /\ DOMAIN voiceEntries' = 1..j
      /\ \A e \in 1..j : voiceEntries'[e] = IF e = j THEN entry ELSE voiceEntries[e]
      /\ \A e \in 1..j : e # j => e \in DOMAIN voiceEntries
      /\ DOMAIN voiceEntries \subseteq 1..j /\ j \notin DOMAIN voiceEntries /\ j \in 1..j
      /\ \A e \in DOMAIN voiceEntries : e <= j
  BY <1>0, <1>2
<1>7. /\ Len(voiceDrafts') = Len(voiceDrafts) /\ DOMAIN voiceDrafts' = DOMAIN voiceDrafts
      /\ voiceDrafts' = [k \in 1..Len(voiceDrafts) |-> voiceDrafts'[k]]
      /\ \A k \in DOMAIN voiceDrafts : voiceDrafts'[k] = IF k = d THEN new ELSE voiceDrafts[k]
  BY <1>3, DraftChanges DEF VoiceInv
<1>8. VoiceShape'
  BY <1>0, <1>2, <1>4, <1>5, <1>6, <1>7 DEF VoiceInv, VoiceShape
<1>9. ASSUME NEW k \in DOMAIN voiceDrafts, k # d
      PROVE  EntriesOf(k)' = EntriesOf(k) /\ OwnOf(k)' = OwnOf(k)
  BY <1>5, <1>6, <1>9 DEF EntriesOf, OwnOf
<1>10. /\ EntriesOf(d)' = EntriesOf(d) \union {j}
       /\ OwnOf(d)' = IF own THEN OwnOf(d) \union {j} ELSE OwnOf(d)
  BY <1>5, <1>6 DEF EntriesOf, OwnOf
<1>11. DraftFollowed(d)'
  <2>1. OwnOf(d) = {} /\ EntriesOf(d) \subseteq DOMAIN voiceEntries
    BY <1>0 DEF VoiceInv, DraftFollowed, EntriesOf
  <2>2. \A e \in EntriesOf(d)' : e <= j
    BY <1>0, <1>6, <1>10, <2>1
  <2> QED
    BY <1>4, <1>5, <1>6, <1>7, <1>10, <2>1, <2>2 DEF DraftFollowed
<1>12. ASSUME NEW k \in DOMAIN voiceDrafts, k # d
       PROVE  DraftFollowed(k)'
  BY <1>6, <1>7, <1>9, <1>12 DEF VoiceInv, DraftFollowed
<1> QED
  BY <1>7, <1>8, <1>11, <1>12 DEF VoiceInv

LEMMA FollowUpKeeps ==
  ASSUME VoiceInv, NEW u, NEW e \in DOMAIN voiceEntries, FollowUp(u, e)
  PROVE  VoiceInv'
<1>1. PICK status : voiceEntries' = [voiceEntries EXCEPT ![e].status = status]
  BY DEF FollowUp
<1>2. voiceDrafts' = voiceDrafts
  BY DEF FollowUp
<1> DEFINE new == [voiceEntries[e] EXCEPT !.status = status]
<1>3. /\ IsVoiceEntry(new) /\ new.content = voiceEntries[e].content
      /\ new.draft = voiceEntries[e].draft /\ new.maker = voiceEntries[e].maker
  <2>1. IsVoiceEntry(voiceEntries[e])
    BY DEF VoiceInv, VoiceShape
  <2> QED
    BY <2>1 DEF IsVoiceEntry
<1>4. voiceEntries' = [voiceEntries EXCEPT ![e] = new]
  BY <1>1
<1> HIDE DEF new
<1>5. voiceEntries' = [k \in 1..Len(voiceEntries) |-> IF k = e THEN new ELSE voiceEntries[k]]
  BY <1>4 DEF VoiceInv, VoiceShape
<1>6. /\ Len(voiceEntries') = Len(voiceEntries) /\ DOMAIN voiceEntries' = DOMAIN voiceEntries
      /\ \A k \in DOMAIN voiceEntries :
           voiceEntries'[k] = IF k = e THEN new ELSE voiceEntries[k]
  BY <1>5 DEF VoiceInv, VoiceShape
<1>7. VoiceShape'
  BY <1>2, <1>3, <1>5, <1>6 DEF VoiceInv, VoiceShape
<1>8. \A k : EntriesOf(k)' = EntriesOf(k) /\ OwnOf(k)' = OwnOf(k)
  BY <1>3, <1>6 DEF EntriesOf, OwnOf
<1>9. \A k \in DOMAIN voiceDrafts : DraftFollowed(k)'
  BY <1>2, <1>3, <1>6, <1>8 DEF VoiceInv, DraftFollowed
<1> QED
  BY <1>2, <1>7, <1>9 DEF VoiceInv

LEMMA VoiceStep ==
  ASSUME VoiceInv, [VoiceNext]_voiceVars
  PROVE  VoiceInv'
<1>1. ASSUME NEW u \in Speakers \union Reviewers, NEW c \in VoiceContents, SaveVoiceDraft(u, c)
      PROVE  VoiceInv'
  BY <1>1, SaveKeeps
<1>2. ASSUME NEW u \in Speakers \union Reviewers, NEW c \in VoiceContents,
             NEW d \in DOMAIN voiceDrafts, UpdateVoiceDraft(u, d, c)
      PROVE  VoiceInv'
  <2> DEFINE new == [voiceDrafts[d] EXCEPT !.content = c]
  <2>1. new \in [status: {voiceDrafts[d].status, "REJECTED"}, owner: {voiceDrafts[d].owner},
                 content: {new.content}, entry: {voiceDrafts[d].entry}]
    <3>1. IsVoiceDraft(voiceDrafts[d])
      BY DEF VoiceInv, VoiceShape
    <3> QED
      BY <3>1 DEF IsVoiceDraft
  <2>2. /\ voiceDrafts' = [voiceDrafts EXCEPT ![d] = new] /\ voiceEntries' = voiceEntries
        /\ voiceDrafts[d].status # "POSTED"
    BY <1>2 DEF UpdateVoiceDraft
  <2> HIDE DEF new
  <2> QED
    BY <2>1, <2>2, RevisionKeeps
<1>3. ASSUME NEW u \in Speakers \union Reviewers, NEW d \in DOMAIN voiceDrafts,
             RejectVoiceDraft(u, d)
      PROVE  VoiceInv'
  <2> DEFINE new == [voiceDrafts[d] EXCEPT !.status = "REJECTED"]
  <2>1. new \in [status: {voiceDrafts[d].status, "REJECTED"}, owner: {voiceDrafts[d].owner},
                 content: {new.content}, entry: {voiceDrafts[d].entry}]
    <3>1. IsVoiceDraft(voiceDrafts[d])
      BY DEF VoiceInv, VoiceShape
    <3> QED
      BY <3>1 DEF IsVoiceDraft
  <2>2. /\ voiceDrafts' = [voiceDrafts EXCEPT ![d] = new] /\ voiceEntries' = voiceEntries
        /\ voiceDrafts[d].status # "POSTED"
    BY <1>3 DEF RejectVoiceDraft
  <2> HIDE DEF new
  <2> QED
    BY <2>1, <2>2, RevisionKeeps
<1>4. ASSUME NEW u \in Speakers \union Reviewers, NEW d \in DOMAIN voiceDrafts,
             ApproveAndPost(u, d)
      PROVE  VoiceInv'
  BY <1>4, ApproveKeeps
<1>5. ASSUME NEW u \in Speakers \union Reviewers, NEW e \in DOMAIN voiceEntries, FollowUp(u, e)
      PROVE  VoiceInv'
  BY <1>5, FollowUpKeeps
<1>6. CASE UNCHANGED voiceVars
  BY <1>6 DEF voiceVars, VoiceInv, VoiceShape, DraftFollowed, EntriesOf, OwnOf
<1> QED
  BY <1>1, <1>2, <1>3, <1>4, <1>5, <1>6 DEF VoiceNext

LEMMA VoiceInvGivesOnce ==
  ASSUME VoiceInv
  PROVE  VoicePostsOnce
<1>1. \A d : EntriesOf(d) \ LeftBehind(d) = OwnOf(d)
  BY DEF EntriesOf, LeftBehind, OwnOf
<1>2. ASSUME NEW d \in DOMAIN voiceDrafts
      PROVE  Cardinality(OwnOf(d)) = IF voiceDrafts[d].status = "POSTED" THEN 1 ELSE 0
  BY FS_EmptySet, FS_Singleton DEF VoiceInv, DraftFollowed
<1> QED
  BY <1>1, <1>2 DEF VoiceInv, DraftFollowed, VoicePostsOnce

(* The users of drafts, and the contents and makers of dictations.           *)
UsersKnown == \A d \in DraftIds : drafts[d].userId \in DraftUsers

LEMMA DraftsTyped ==
  ASSUME StoreInv, UsersKnown
  PROVE  DraftsTypeOK
BY DEF StoreInv, DraftsShape, IsDraft, UsersKnown, DraftsTypeOK

LEMMA UsersStep ==
  ASSUME StoreInv, UsersKnown, [DraftsNext]_draftVars
  PROVE  UsersKnown'
<1>1. ASSUME NEW u \in DraftUsers, IssueDraft(u)
      PROVE  UsersKnown'
  <2> DEFINE new == [issued |-> TRUE, userId |-> u, expiresAt |-> clock + Ttl,
                     consumed |-> FALSE, session |-> session]
  <2>1. PICK d \in DraftIds : drafts' = [drafts EXCEPT ![d] = new]
    BY <1>1 DEF IssueDraft
  <2>2. new.userId = u
    OBVIOUS
  <2> HIDE DEF new
  <2>3. \A c \in DraftIds : drafts'[c] = IF c = d THEN new ELSE drafts[c]
    BY <2>1, OneDraftChanges DEF StoreInv
  <2> QED
    BY <1>1, <2>2, <2>3 DEF UsersKnown
<1>2. ASSUME NEW d \in DraftIds, Consume(d)
      PROVE  UsersKnown'
  BY <1>2, ConsumeChanges DEF StoreInv, UsersKnown
<1>3. CASE UNCHANGED drafts
  BY <1>3 DEF UsersKnown
<1> QED
  BY <1>1, <1>2, <1>3
  DEF DraftsNext, draftVars, ExecuteEntry, ExecutionFails, RefuseExpired, RestartDrafts, Pass

Dictated     == [status: {"PENDING_REVIEW", "APPROVED", "POSTED", "REJECTED"},
                 owner: Speakers, content: VoiceContents, entry: Nat]
EntriesOn(D) == [draft: D, content: Balanced, maker: Reviewers,
                 status: {"SUBMITTED", "POSTED", "REVERSED", "DELETED"}]

LEMMA OneOfSeq ==
  ASSUME NEW A, NEW s \in Seq(A), NEW d \in DOMAIN s, NEW x \in A
  PROVE  /\ [s EXCEPT ![d] = x] \in Seq(A) /\ DOMAIN [s EXCEPT ![d] = x] = DOMAIN s
         /\ s[d] \in A
OBVIOUS

LEMMA OneMoreOf ==
  ASSUME NEW A, NEW s \in Seq(A), NEW x \in A
  PROVE  Append(s, x) \in Seq(A) /\ DOMAIN s \subseteq DOMAIN Append(s, x)
OBVIOUS

LEMMA WiderSeq ==
  ASSUME NEW A, NEW B, A \subseteq B, NEW s \in Seq(A)
  PROVE  s \in Seq(B)
OBVIOUS

LEMMA VoiceTyped ==
  ASSUME VoiceTypeOK, [VoiceNext]_voiceVars
  PROVE  VoiceTypeOK'
<1>1. voiceDrafts \in Seq(Dictated) /\ voiceEntries \in Seq(EntriesOn(DOMAIN voiceDrafts))
  BY DEF VoiceTypeOK, Dictated, EntriesOn
<1>2. SUFFICES /\ voiceDrafts' \in Seq(Dictated)
               /\ voiceEntries' \in Seq(EntriesOn(DOMAIN voiceDrafts'))
  BY DEF VoiceTypeOK, Dictated, EntriesOn
<1>3. ASSUME NEW u, NEW c \in VoiceContents, SaveVoiceDraft(u, c)
      PROVE  /\ voiceDrafts' \in Seq(Dictated)
             /\ voiceEntries' \in Seq(EntriesOn(DOMAIN voiceDrafts'))
  <2> DEFINE new == [status |-> "PENDING_REVIEW", owner |-> u, content |-> c, entry |-> NoVoiceEntry]
  <2>1. new \in Dictated /\ voiceDrafts' = Append(voiceDrafts, new) /\ voiceEntries' = voiceEntries
    BY <1>3 DEF SaveVoiceDraft, Dictated, NoVoiceEntry
  <2> HIDE DEF new
  <2>2. voiceDrafts' \in Seq(Dictated) /\ DOMAIN voiceDrafts \subseteq DOMAIN voiceDrafts'
    BY <1>1, <2>1, OneMoreOf
  <2>3. EntriesOn(DOMAIN voiceDrafts) \subseteq EntriesOn(DOMAIN voiceDrafts')
    BY <2>2 DEF EntriesOn
  <2> QED
    BY <1>1, <2>1, <2>2, <2>3, WiderSeq
<1>4. ASSUME NEW d \in DOMAIN voiceDrafts, NEW new, new \in Dictated,
             voiceDrafts' = [voiceDrafts EXCEPT ![d] = new]
      PROVE  voiceDrafts' \in Seq(Dictated) /\ DOMAIN voiceDrafts' = DOMAIN voiceDrafts
  BY <1>1, <1>4, OneOfSeq
<1>5. \A d \in DOMAIN voiceDrafts : voiceDrafts[d] \in Dictated
  BY <1>1
<1>6. ASSUME NEW u, NEW d \in DOMAIN voiceDrafts, NEW c \in VoiceContents,
             UpdateVoiceDraft(u, d, c) \/ RejectVoiceDraft(u, d)
      PROVE  /\ voiceDrafts' \in Seq(Dictated)
             /\ voiceEntries' \in Seq(EntriesOn(DOMAIN voiceDrafts'))
  <2>1. PICK new : /\ voiceDrafts' = [voiceDrafts EXCEPT ![d] = new] /\ voiceEntries' = voiceEntries
                   /\ \/ new = [voiceDrafts[d] EXCEPT !.content = c]
                      \/ new = [voiceDrafts[d] EXCEPT !.status = "REJECTED"]
    BY <1>6 DEF UpdateVoiceDraft, RejectVoiceDraft
  <2>2. new \in Dictated
    BY <1>5, <2>1 DEF Dictated
  <2> QED
    BY <1>1, <1>4, <2>1, <2>2
<1>7. ASSUME NEW u, NEW d \in DOMAIN voiceDrafts, ApproveAndPost(u, d)
      PROVE  /\ voiceDrafts' \in Seq(Dictated)
             /\ voiceEntries' \in Seq(EntriesOn(DOMAIN voiceDrafts'))
  <2> DEFINE own == u \in OwnApproval
             entry == [draft |-> d, content |-> voiceDrafts[d].content, maker |-> u,
                       status |-> IF own THEN "POSTED" ELSE "SUBMITTED"]
             new == [voiceDrafts[d] EXCEPT !.status = IF own THEN "POSTED" ELSE "APPROVED",
                                           !.entry = Len(voiceEntries')]
  <2>1. /\ voiceEntries' = Append(voiceEntries, entry) /\ u \in Reviewers
        /\ voiceDrafts[d].content \in Balanced /\ voiceDrafts' = [voiceDrafts EXCEPT ![d] = new]
    BY <1>7 DEF ApproveAndPost, Approvable
  <2>2. entry \in EntriesOn(DOMAIN voiceDrafts)
    BY <2>1 DEF EntriesOn
  <2> HIDE DEF entry
  <2>3. voiceEntries' \in Seq(EntriesOn(DOMAIN voiceDrafts))
    BY <1>1, <2>1, <2>2, OneMoreOf
  <2>4. new \in Dictated
    <3>1. Len(voiceEntries') \in Nat
      BY <2>3
    <3> QED
      BY <1>5, <3>1 DEF Dictated
  <2> HIDE DEF new
  <2> QED
    BY <1>4, <2>1, <2>3, <2>4
<1>8. ASSUME NEW u, NEW e \in DOMAIN voiceEntries, FollowUp(u, e)
      PROVE  /\ voiceDrafts' \in Seq(Dictated)
             /\ voiceEntries' \in Seq(EntriesOn(DOMAIN voiceDrafts'))
  <2>1. PICK t \in {"POSTED", "DELETED", "REVERSED"} :
           voiceEntries' = [voiceEntries EXCEPT ![e] = [voiceEntries[e] EXCEPT !.status = t]]
    BY <1>8 DEF FollowUp
  <2>2. voiceDrafts' = voiceDrafts
    BY <1>8 DEF FollowUp
  <2> DEFINE new == [voiceEntries[e] EXCEPT !.status = t]
  <2>3. new \in EntriesOn(DOMAIN voiceDrafts)
    <3>1. voiceEntries[e] \in EntriesOn(DOMAIN voiceDrafts)
      BY <1>1
    <3> QED
      BY <3>1 DEF EntriesOn
  <2>4. voiceEntries' = [voiceEntries EXCEPT ![e] = new]
    BY <2>1
  <2> HIDE DEF new
  <2>5. voiceEntries' \in Seq(EntriesOn(DOMAIN voiceDrafts))
    BY <1>1, <2>3, <2>4, OneOfSeq
  <2> QED
    BY <1>1, <2>2, <2>5
<1>9. CASE UNCHANGED voiceVars
  BY <1>1, <1>9 DEF voiceVars
<1>10. ASSUME NEW u, NEW d \in DOMAIN voiceDrafts, RejectVoiceDraft(u, d)
       PROVE  /\ voiceDrafts' \in Seq(Dictated)
              /\ voiceEntries' \in Seq(EntriesOn(DOMAIN voiceDrafts'))
  <2>1. voiceDrafts[d].content \in VoiceContents
    BY <1>5 DEF Dictated
  <2> QED
    BY <1>6, <1>10, <2>1
<1> QED
  BY <1>3, <1>6, <1>7, <1>8, <1>9, <1>10 DEF VoiceNext

(* What an assistant drafted or took from dictation is entered once. The     *)
(* store of drafts forgets a live draft only for MAX_RECORDS younger ones,   *)
(* since it keeps the largest ids of those it holds (evictExpired, issue); a *)
(* posted dictation has one entry, but for those left to another user        *)
(* (approveAndPost).                                                         *)
THEOREM AssistedSafe == AssistedSpec => []AssistedEntriesOnce
<1> DEFINE Inv == StoreInv /\ RecentDraftsKept /\ VoiceInv
<1>1. AssistedInit => Inv
  <2> SUFFICES ASSUME AssistedInit PROVE Inv
    OBVIOUS
  <2>1. StoreInv
    BY StoreInit DEF AssistedInit
  <2>2. RecentDraftsKept
    BY FS_EmptySet, DraftsAssumption
    DEF AssistedInit, DraftsInit, Unissued, RecentDraftsKept
  <2>3. VoiceInv
    BY DEF AssistedInit, VoiceInit, VoiceInv, VoiceShape
  <2> QED
    BY <2>1, <2>2, <2>3
<1>2. Inv /\ [AssistedNext]_AssistedVars => Inv'
  <2> SUFFICES ASSUME Inv, [AssistedNext]_AssistedVars PROVE Inv'
    OBVIOUS
  <2>1. [DraftsNext]_draftVars /\ [VoiceNext]_voiceVars
    BY DEF AssistedNext, AssistedVars
  <2> QED
    BY <2>1, StoreStep, RecentStep, VoiceStep
<1>3. Inv => AssistedEntriesOnce
  BY VoiceInvGivesOnce DEF AssistedEntriesOnce
<1> QED
  BY <1>1, <1>2, <1>3, PTL DEF AssistedSpec

-------------------------------------------------------------------------------
(* Attendance. *)

(* Every record there may be, and what a record nobody corrected shows.      *)
Records == [made: BOOLEAN, in: BOOLEAN, out: BOOLEAN, status: Statuses]
Proper(r) == r.in \/ r.out \/ r.status = "PRESENT" => r.made
Shows(r)  == (r.status = "PRESENT" => r.in) /\ (r.out => r.in)

RecordsInv ==
    /\ attendance \in [Days -> Records] /\ corrected \subseteq Days
    /\ \A d \in Days : /\ Proper(attendance[d])
                       /\ d \in corrected => attendance[d].made
                       /\ d \notin corrected => Shows(attendance[d])

(* As long as no write was lost, the file says what memory says.             *)
LinkInv ==
    /\ link \in Links /\ linkFile \in Links
    /\ decision \in {"NONE", "APPROVED", "REJECTED"}
    /\ losses \in Nat
    /\ losses = 0 => linkFile = link
    /\ LinkAsDecided

PlainInv ==
    /\ weekend \in Weekends /\ leaves \subseteq Leaves /\ today \in 1..(LastDay + 1)
    /\ withheld \in 0..LastDay

AttendanceInv == RecordsInv /\ LinkInv /\ PlainInv

LEMMA RecordFacts ==
  /\ \A i, o \in BOOLEAN, s \in Statuses :
       /\ Record(i, o, s) \in Records
       /\ Record(i, o, s).made = TRUE /\ Record(i, o, s).in = i
       /\ Record(i, o, s).out = o /\ Record(i, o, s).status = s
  /\ NoAttendance \in Records /\ Complete \in Records
  /\ Proper(NoAttendance) /\ Shows(NoAttendance)
  /\ Proper(Complete) /\ Shows(Complete)
BY DEF Record, Records, NoAttendance, Complete, Proper, Shows, Statuses

(* A type that names no set of records says the same.                        *)
LEMMA ProperRecords ==
  ASSUME NEW r \in Records, Proper(r)
  PROVE  r \in {NoAttendance} \union {Record(i, o, s) : i, o \in BOOLEAN, s \in Statuses}
<1>1. CASE r.made
  <2>1. r = Record(r.in, r.out, r.status)
    BY <1>1 DEF Records, Record
  <2> QED
    BY <2>1 DEF Records
<1>2. CASE ~r.made
  BY <1>2 DEF Records, Proper, NoAttendance, Statuses
<1> QED
  BY <1>1, <1>2

LEMMA DemonstrationFacts ==
  ASSUME NEW now
  PROVE  /\ Demonstration(now) \in [Days -> Records]
         /\ \A d \in Days : Proper(Demonstration(now)[d]) /\ Shows(Demonstration(now)[d])
BY RecordFacts DEF Demonstration

(* The record of one day changes.                                            *)
LEMMA DayChanges ==
  ASSUME RecordsInv, NEW d \in Days, NEW new \in Records, Proper(new),
         attendance' = [attendance EXCEPT ![d] = new],
         corrected' \in {corrected, corrected \union {d}, corrected \ {d}},
         d \in corrected' => new.made,
         d \notin corrected' => Shows(new)
  PROVE  RecordsInv'
<1>1. attendance' \in [Days -> Records] /\ corrected' \subseteq Days
  BY DEF RecordsInv
<1>2. ASSUME NEW x \in Days
      PROVE  /\ Proper(attendance'[x])
             /\ x \in corrected' => attendance'[x].made
             /\ x \notin corrected' => Shows(attendance'[x])
  <2>1. CASE x = d
    <3>1. attendance'[x] = new
      BY <2>1 DEF RecordsInv
    <3> QED
      BY <2>1, <3>1
  <2>2. CASE x # d
    <3>1. attendance'[x] = attendance[x] /\ (x \in corrected' <=> x \in corrected)
      BY <2>2 DEF RecordsInv
    <3> QED
      BY <3>1 DEF RecordsInv
  <2> QED
    BY <2>1, <2>2
<1> QED
  BY <1>1, <1>2 DEF RecordsInv

LEMMA PunchKeeps ==
  ASSUME RecordsInv, NEW d \in Days, NEW given \in {"TOGGLE", "IN", "OUT"}, Punch(d, given)
  PROVE  RecordsInv'
<1> DEFINE r == attendance[d]
           way == Direction(attendance[d], given)
           new == Punched(r, way)
<1>1. /\ r \in Records /\ Proper(r) /\ way \in {"IN", "OUT"} /\ MayPunch(r, way)
      /\ attendance' = [attendance EXCEPT ![d] = new] /\ corrected' = corrected
      /\ d \in corrected => r.made
      /\ d \notin corrected => Shows(r)
  BY DEF Punch, RecordsInv, Direction
<1>2. new \in Records /\ Proper(new) /\ new.made /\ Shows(new)
  <2>1. CASE way = "IN"
    <3>1. new = Record(TRUE, r.out, "PRESENT") /\ r.out \in BOOLEAN
      BY <1>1, <2>1 DEF Punched, Records
    <3> QED
      BY <3>1, RecordFacts DEF Proper, Shows, Statuses
  <2>2. CASE way = "OUT"
    <3>1. new = [r EXCEPT !.out = TRUE] /\ r.in /\ r.made
      BY <1>1, <2>2 DEF Punched, MayPunch, Proper
    <3> QED
      BY <1>1, <3>1 DEF Records, Proper, Shows
  <2> QED
    BY <1>1, <2>1, <2>2
<1> QED
  BY <1>1, <1>2, DayChanges

LEMMA CorrectionsKeep ==
  ASSUME RecordsInv, NEW d \in Days
  PROVE  /\ \A o \in BOOLEAN : ImportFromDevice(d, o) => RecordsInv'
         /\ SetDayStatus(d) => RecordsInv'
         /\ \A i, o \in BOOLEAN, s \in Statuses : UpdateRecord(d, i, o, s) => RecordsInv'
         /\ DeleteRecord(d) => RecordsInv'
<1>1. attendance[d] \in Records /\ Proper(attendance[d])
      /\ (d \notin corrected => Shows(attendance[d]))
  BY DEF RecordsInv
<1>2. ASSUME NEW o \in BOOLEAN, ImportFromDevice(d, o)
      PROVE  RecordsInv'
  <2> DEFINE new == Record(TRUE, o, "PRESENT")
  <2>1. new \in Records /\ Proper(new) /\ new.made /\ Shows(new)
    BY RecordFacts DEF Proper, Shows, Statuses
  <2> QED
    BY <1>2, <2>1, DayChanges DEF ImportFromDevice
<1>3. ASSUME SetDayStatus(d)
      PROVE  RecordsInv'
  <2> DEFINE r == attendance[d]
             new == IF r.made THEN [r EXCEPT !.status = "OTHER"] ELSE Record(FALSE, FALSE, "OTHER")
  <2>1. new \in Records /\ Proper(new) /\ new.made
    BY <1>1, RecordFacts DEF Proper, Records, Statuses
  <2>2. d \notin corrected => Shows(new)
    BY <1>1, RecordFacts DEF Shows, Records, Statuses
  <2>3. attendance' = [attendance EXCEPT ![d] = new] /\ corrected' = corrected
    BY <1>3 DEF SetDayStatus
  <2> QED
    BY <2>1, <2>2, <2>3, DayChanges
<1>4. ASSUME NEW i \in BOOLEAN, NEW o \in BOOLEAN, NEW s \in Statuses, UpdateRecord(d, i, o, s)
      PROVE  RecordsInv'
  <2> DEFINE new == Record(i, o, s)
  <2>1. new \in Records /\ Proper(new) /\ new.made
    BY RecordFacts DEF Proper
  <2>2. attendance' = [attendance EXCEPT ![d] = new] /\ corrected' = corrected \union {d}
    BY <1>4 DEF UpdateRecord
  <2> QED
    BY <2>1, <2>2, DayChanges
<1>5. ASSUME DeleteRecord(d)
      PROVE  RecordsInv'
  <2>1. attendance' = [attendance EXCEPT ![d] = NoAttendance] /\ corrected' = corrected \ {d}
    BY <1>5 DEF DeleteRecord
  <2> QED
    BY <2>1, RecordFacts, DayChanges
<1> QED
  BY <1>2, <1>3, <1>4, <1>5

(* A write of the file, whether it succeeds or not.                          *)
LEMMA PersistKeeps ==
  ASSUME LinkInv, Persist, link' \in Links,
         decision' \in {"NONE", "APPROVED", "REJECTED"},
         link' = "APPROVED" => (link = "APPROVED" /\ decision' = decision) \/ decision' = "APPROVED"
  PROVE  LinkInv'
BY DEF LinkInv, Persist, LinkAsDecided

(* The days that a run counts, and those of them missed or made up for.      *)
LEMMA DaysCount ==
  ASSUME AttendanceInv
  PROVE  /\ AbsentDays \in 0..LastDay
         /\ AbsentDays <= Cardinality(Missed) \/ AbsentDays = 0
         /\ Cardinality(Missed) \in Nat
         /\ AbsentDays >= Cardinality(Missed) - Cardinality(MakingUp)
<1> DEFINE W == WorkingDays
           P == PresentDays
           L == LeaveDays
           Left == W \ L
<1>1. LastDay \in Nat /\ today \in Int /\ UpTo \in Nat /\ UpTo <= LastDay
  BY AttendanceAssumption DEF AttendanceInv, PlainInv, UpTo
<1>2. IsFiniteSet(1..UpTo) /\ Cardinality(1..UpTo) = UpTo
  BY <1>1, FS_Interval
<1>3. W \subseteq 1..UpTo /\ P \subseteq 1..UpTo /\ L \subseteq W
  BY DEF WorkingDays, PresentDays, LeaveDays
<1>4. /\ IsFiniteSet(W) /\ Cardinality(W) <= UpTo /\ IsFiniteSet(P)
      /\ Cardinality(W) \in Nat /\ Cardinality(P) \in Nat
  BY <1>2, <1>3, FS_Subset, FS_CardinalityType
<1>5. IsFiniteSet(L) /\ Cardinality(L) \in Nat
  BY <1>3, <1>4, FS_Subset, FS_CardinalityType
<1>6. /\ IsFiniteSet(Left) /\ Cardinality(Left) = Cardinality(W) - Cardinality(L)
      /\ Cardinality(Left) \in Nat
  <2>1. W \cap L = L
    BY <1>3
  <2> QED
    BY <2>1, <1>4, FS_Difference, FS_CardinalityType
<1>7. Missed = Left \ P /\ MakingUp = P \ Left
  <2>1. \A d \in 1..UpTo : \A l \in leaves :
           (l.from <= d /\ (l.to = Open \/ d <= l.to))
             <=> d \in l.from..(IF l.to = Open THEN LastDay ELSE l.to)
    <3> SUFFICES ASSUME NEW d \in 1..UpTo, NEW l \in leaves
                 PROVE  (l.from <= d /\ (l.to = Open \/ d <= l.to))
                          <=> d \in l.from..(IF l.to = Open THEN LastDay ELSE l.to)
      OBVIOUS
    <3>1. l.from \in Int /\ (l.to # Open => l.to \in Int) /\ d \in Int /\ d <= LastDay
      BY <1>1, AttendanceAssumption DEF AttendanceInv, PlainInv, Days
    <3> QED
      BY <1>1, <3>1
  <2>2. \A d \in W : (\E l \in leaves : d \in l.from..(IF l.to = Open THEN LastDay ELSE l.to))
                       <=> d \in L
    BY <1>3, <2>1 DEF LeaveDays, OnLeave
  <2>3. \A d \in W : attendance[d].status = "PRESENT" <=> d \in P
    BY <1>3 DEF PresentDays
  <2>4. Missed = Left \ P
    BY <2>2, <2>3 DEF Missed
  <2> QED
    BY <2>4 DEF MakingUp, PresentDays
<1>8. Left \cap P = P \cap Left
  OBVIOUS
<1>9. /\ Cardinality(Missed) = Cardinality(Left) - Cardinality(Left \cap P)
      /\ Cardinality(MakingUp) = Cardinality(P) - Cardinality(Left \cap P)
      /\ IsFiniteSet(Missed) /\ IsFiniteSet(MakingUp) /\ IsFiniteSet(Left \cap P)
  BY <1>4, <1>6, <1>7, <1>8, FS_Difference, FS_Intersection
<1>10. /\ Cardinality(Missed) \in Nat /\ Cardinality(MakingUp) \in Nat
       /\ Cardinality(Left \cap P) \in Nat
  BY <1>9, FS_CardinalityType
<1>11. AbsentDays = IF Cardinality(W) - Cardinality(P) - Cardinality(L) > 0
                    THEN Cardinality(W) - Cardinality(P) - Cardinality(L) ELSE 0
  BY DEF AbsentDays
<1> HIDE DEF W, P, L, Left
<1> QED
  BY <1>1, <1>4, <1>5, <1>6, <1>9, <1>10, <1>11

LEMMA RecordStepsKeep ==
  ASSUME AttendanceInv, NEW d \in Days,
         \/ \E given \in {"TOGGLE", "IN", "OUT"} : Punch(d, given)
         \/ \E o \in BOOLEAN : ImportFromDevice(d, o)
         \/ SetDayStatus(d) \/ DeleteRecord(d)
         \/ \E i, o \in BOOLEAN, s \in Statuses : UpdateRecord(d, i, o, s)
  PROVE  AttendanceInv'
<1>1. RecordsInv'
  BY PunchKeeps, CorrectionsKeep DEF AttendanceInv
<1>2. UNCHANGED <<weekend, leaves, today, biometricVars, withheld, losses>>
  BY DEF Punch, ImportFromDevice, SetDayStatus, DeleteRecord, UpdateRecord
<1>3. LinkInv'
  BY <1>2 DEF AttendanceInv, LinkInv, LinkAsDecided, biometricVars
<1>4. PlainInv'
  BY <1>2 DEF AttendanceInv, PlainInv
<1> QED
  BY <1>1, <1>3, <1>4 DEF AttendanceInv

LEMMA LinkStepsKeep ==
  ASSUME AttendanceInv,
         \/ Enroll \/ RequestPayrollLink
         \/ \E approved \in BOOLEAN : DecidePayrollLink(approved)
  PROVE  AttendanceInv'
<1>1. /\ Persist /\ UNCHANGED <<recordVars, weekend, leaves, today, withheld>>
      /\ link' \in Links /\ decision' \in {"NONE", "APPROVED", "REJECTED"}
      /\ link' = "APPROVED" => (link = "APPROVED" /\ decision' = decision) \/ decision' = "APPROVED"
  BY DEF Enroll, RequestPayrollLink, DecidePayrollLink, AttendanceInv, LinkInv, Links
<1>2. LinkInv'
  BY <1>1, PersistKeeps DEF AttendanceInv
<1>3. RecordsInv' /\ PlainInv'
  BY <1>1 DEF AttendanceInv, RecordsInv, PlainInv, recordVars
<1> QED
  BY <1>2, <1>3 DEF AttendanceInv

LEMMA StartKeeps ==
  ASSUME AttendanceInv, StartAgain
  PROVE  AttendanceInv'
<1>1. RecordsInv'
  BY DemonstrationFacts DEF StartAgain, RecordsInv
<1>2. LinkInv'
  BY DEF StartAgain, AttendanceInv, LinkInv, LinkAsDecided
<1>3. PlainInv'
  BY AttendanceAssumption DEF StartAgain, AttendanceInv, PlainInv
<1> QED
  BY <1>1, <1>2, <1>3 DEF AttendanceInv

LEMMA AttendanceInitKeeps ==
  ASSUME AttendanceInit
  PROVE  AttendanceInv
<1>1. RecordsInv
  BY DemonstrationFacts DEF AttendanceInit, RecordsInv
<1>2. LinkInv
  BY DEF AttendanceInit, LinkInv, LinkAsDecided, Links
<1>3. PlainInv
  BY AttendanceAssumption DEF AttendanceInit, PlainInv
<1> QED
  BY <1>1, <1>2, <1>3 DEF AttendanceInv

LEMMA AttendanceNextKeeps ==
  ASSUME AttendanceInv, [AttendanceNext]_attendanceVars
  PROVE  AttendanceInv'
<1>1. ASSUME NEW d \in Days,
             \/ \E given \in {"TOGGLE", "IN", "OUT"} : Punch(d, given)
             \/ \E o \in BOOLEAN : ImportFromDevice(d, o)
             \/ SetDayStatus(d) \/ DeleteRecord(d)
             \/ \E i, o \in BOOLEAN, s \in Statuses : UpdateRecord(d, i, o, s)
      PROVE  AttendanceInv'
  BY <1>1, RecordStepsKeep
<1>2. ASSUME NEW w \in Weekends, UpdateSettings(w)
      PROVE  AttendanceInv'
  BY <1>2 DEF UpdateSettings, AttendanceInv, RecordsInv, LinkInv, LinkAsDecided, PlainInv,
              recordVars, biometricVars
<1>3. ASSUME NEW l \in Leaves, ApproveLeave(l)
      PROVE  AttendanceInv'
  BY <1>3 DEF ApproveLeave, AttendanceInv, RecordsInv, LinkInv, LinkAsDecided, PlainInv,
              recordVars, biometricVars
<1>4. CASE Enroll \/ RequestPayrollLink \/ \E approved \in BOOLEAN : DecidePayrollLink(approved)
  BY <1>4, LinkStepsKeep
<1>5. ASSUME NEW u \in BOOLEAN, NEW others \in BOOLEAN, WithholdAbsence(u, others)
      PROVE  AttendanceInv'
  <2>1. withheld' \in 0..LastDay
    BY <1>5, DaysCount, AttendanceAssumption DEF WithholdAbsence
  <2> QED
    BY <1>5, <2>1 DEF WithholdAbsence, AttendanceInv, RecordsInv, LinkInv, LinkAsDecided,
                      PlainInv, recordVars, biometricVars
<1>6. CASE NextDay
  <2>1. today' \in 1..(LastDay + 1)
    BY <1>6, AttendanceAssumption DEF NextDay, AttendanceInv, PlainInv
  <2> QED
    BY <1>6, <2>1 DEF NextDay, AttendanceInv, RecordsInv, LinkInv, LinkAsDecided,
                      PlainInv, recordVars, biometricVars
<1>7. CASE StartAgain
  BY <1>7, StartKeeps
<1>8. CASE UNCHANGED attendanceVars
  BY <1>8 DEF attendanceVars, AttendanceInv, RecordsInv, LinkInv, LinkAsDecided, PlainInv
<1> QED
  BY <1>1, <1>2, <1>3, <1>4, <1>5, <1>6, <1>7, <1>8 DEF AttendanceNext

LEMMA AttendanceInvHolds == AttendanceSpec => []AttendanceInv
<1>1. AttendanceInit => AttendanceInv
  BY AttendanceInitKeeps
<1>2. AttendanceInv /\ [AttendanceNext]_attendanceVars => AttendanceInv'
  BY AttendanceNextKeeps
<1> QED
  BY <1>1, <1>2, PTL DEF AttendanceSpec

LEMMA AttendanceInvGives ==
  ASSUME AttendanceInv
  PROVE  AttendanceTypeOK /\ AttendanceSound
<1>1. \A d \in Days : attendance[d] \in {NoAttendance}
          \union {Record(i, o, s) : i, o \in BOOLEAN, s \in Statuses}
  BY ProperRecords DEF AttendanceInv, RecordsInv
<1>2. AttendanceTypeOK
  BY <1>1 DEF AttendanceInv, RecordsInv, LinkInv, PlainInv, AttendanceTypeOK
<1>3. PresenceIsPunched
  BY DEF AttendanceInv, RecordsInv, PresenceIsPunched, Shows
<1> QED
  BY <1>2, <1>3 DEF AttendanceSound, AttendanceInv, LinkInv

(* A record nobody corrected shows presence only with a punch of coming, and *)
(* the link is in force only by the last decision unless a write was lost:   *)
(* whatever is punched, imported, corrected, requested, lost or restarted.   *)
THEOREM AttendanceIsSound == AttendanceSpec => [](AttendanceTypeOK /\ AttendanceSound)
<1>1. AttendanceInv => AttendanceTypeOK /\ AttendanceSound
  BY AttendanceInvGives
<1> QED
  BY <1>1, AttendanceInvHolds, PTL

(* Whatever a run comes to withhold, the link is in force then, and it is    *)
(* between the days missed and these less the presences that make up.        *)
THEOREM WithholdsWhatWasMissed == AttendanceSpec => WithheldForAbsence
<1> DEFINE Justly == withheld' > 0 /\ withheld' # withheld =>
                       /\ link = "APPROVED"
                       /\ withheld' <= Cardinality(Missed)
                       /\ withheld' >= Cardinality(Missed) - Cardinality(MakingUp)
<1>1. AttendanceInv /\ [AttendanceNext]_attendanceVars => [Justly]_attendanceVars
  <2> SUFFICES ASSUME AttendanceInv, AttendanceNext, withheld' > 0, withheld' # withheld
               PROVE  /\ link = "APPROVED"
                      /\ withheld' <= Cardinality(Missed)
                      /\ withheld' >= Cardinality(Missed) - Cardinality(MakingUp)
    OBVIOUS
  <2>1. withheld' = 0 \/ (link = "APPROVED" /\ withheld' = AbsentDays)
    BY DEF AttendanceNext, Punch, ImportFromDevice, SetDayStatus, DeleteRecord, UpdateRecord,
           UpdateSettings, ApproveLeave, DecidePayrollLink, Enroll, RequestPayrollLink,
           WithholdAbsence, NextDay, StartAgain
  <2> QED
    BY <2>1, DaysCount
<1>2. AttendanceSpec => [][AttendanceInv /\ [AttendanceNext]_attendanceVars]_attendanceVars
  BY AttendanceInvHolds, PTL DEF AttendanceSpec
<1> QED
  BY <1>1, <1>2, PTL DEF WithheldForAbsence

-----------------------------------------------------------------------------
(* Payroll. The amounts are multiples of a piaster after Round, at most half *)
(* a piaster away from what is rounded.                                      *)
LEMMA RoundFacts ==
  ASSUME NEW x \in Int
  PROVE  /\ Round(x) \in Int /\ x - 4 <= Round(x) /\ Round(x) <= x + 5
         /\ \E k \in Int : Round(x) = 10 * k
         /\ x >= 0 => Round(x) >= 0
<1> DEFINE q == (x + 5) \div 10
           r == (x + 5) % 10
<1>1. q \in Int /\ r \in 0..9 /\ x + 5 = 10 * q + r
  OBVIOUS
<1>2. Round(x) = 10 * q
  BY DEF Round
<1> HIDE DEF q, r
<1>3. Round(x) = x + 5 - r
  BY <1>1, <1>2
<1>4. ASSUME x >= 0 PROVE Round(x) >= 0
  BY <1>1, <1>2, <1>4
<1> QED
  BY <1>1, <1>2, <1>3, <1>4

LEMMA SumOfIs ==
  ASSUME NEW f, NEW S
  PROVE  SumOf(f, S) = SumOver(f, S)
BY DEF SumOf, SumOver

LEMMA IdsAndMonths ==
  /\ IsFiniteSet(AdvanceIds) /\ MaxAdvances \in Nat /\ AdvanceIds = 1..MaxAdvances
  /\ IsFiniteSet(PayMonths) /\ Cardinality(PayMonths) \in Nat
BY PayrollAssumption, FS_Interval, FS_CardinalityType DEF AdvanceIds

(* An advance agrees with its payments; a mill too much is paid only by the  *)
(* last of them.                                                             *)
ProperAdvance(adv) ==
    /\ adv \in [status: AdvanceStatuses, worker: Workers, amount: Nat, instalment: Nat,
                paid: Nat, byPayroll: Nat, byCash: Nat]
    /\ adv.paid <= adv.amount
    /\ adv.byPayroll + adv.byCash - adv.paid \in {0, 1}
    /\ adv.byPayroll + adv.byCash - adv.paid = 1 => adv.paid = adv.amount
    /\ adv.status = "ACTIVE" => /\ adv.amount > 0
                                /\ adv.paid < adv.amount - 1 \/ adv.paid = 0
    /\ adv.status = "SETTLED" => adv.paid >= adv.amount - 1
    /\ adv.status = "ABSENT" => adv.byPayroll = 0

(* The parts of a line and its net differ by a piaster at most.              *)
ProperRun(r) ==
    /\ r \in [status: {"NONE", "DRAFT", "APPROVED", "POSTED"}, base: RunParts,
              bonus: RunParts, deduction: RunParts, withheld: RunParts, net: RunParts]
    /\ \A w \in Workers :
         /\ r.withheld[w] \in Nat
         /\ r.base[w] + r.bonus[w] - r.deduction[w] - r.withheld[w] - r.net[w] \in {-10, 0, 10}

PostedMonths == {m \in PayMonths : runs[m].status = "POSTED"}

(* What the runs withheld covers what they credited, but for the rounding of *)
(* the runs that are posted.                                                 *)
Covered ==
    \A w \in Workers :
        CreditedTo(w) <= WithheldFrom(w) + 5 * MaxAdvances * Cardinality(PostedMonths)

AdvancesProper == \A a \in AdvanceIds : ProperAdvance(advances[a])
RunsProper     == \A m \in PayMonths : ProperRun(runs[m])

PayrollInv ==
    /\ advances = [a \in AdvanceIds |-> advances[a]] /\ AdvancesProper
    /\ affairs \in [AffairForms -> {"ABSENT", "PENDING", "APPROVED", "REJECTED"}]
    /\ runs = [m \in PayMonths |-> runs[m]] /\ RunsProper
    /\ Covered

LEMMA NoAdvanceIsProper == ProperAdvance(NoAdvance) /\ NoAdvance.byPayroll = 0
<1>1. (CHOOSE w \in Workers : TRUE) \in Workers
  BY PayrollAssumption
<1> QED
  BY <1>1 DEF ProperAdvance, NoAdvance, AdvanceStatuses

LEMMA NoRunIsProper == ProperRun(NoRun)
<1>1. ZeroPay \in RunParts /\ \A w \in Workers : ZeroPay[w] = 0
  BY DEF ZeroPay, RunParts
<1> QED
  BY <1>1 DEF ProperRun, NoRun

(* A payment of what is owed, or a mill more. *)
LEMMA PaymentsKeep ==
  ASSUME NEW adv, ProperAdvance(adv), adv.status = "ACTIVE",
         NEW x \in Nat \ {0}, x <= adv.amount - adv.paid + 1
  PROVE  /\ ProperAdvance(PaidInCash(adv, x))
         /\ x <= adv.amount - adv.paid => ProperAdvance(PaidByRun(adv, x))
         /\ PaidInCash(adv, x).byPayroll = adv.byPayroll
         /\ PaidByRun(adv, x).byPayroll = adv.byPayroll + x
         /\ PaidInCash(adv, x).worker = adv.worker
         /\ PaidByRun(adv, x).worker = adv.worker
<1> DEFINE then == Repaid(adv, x)
<1> DEFINE more == [adv EXCEPT !.paid = Lesser(adv.amount, @ + x)]
<1>1. /\ adv \in [status: AdvanceStatuses, worker: Workers, amount: Nat, instalment: Nat,
                  paid: Nat, byPayroll: Nat, byCash: Nat]
      /\ adv.paid <= adv.amount /\ adv.byPayroll + adv.byCash - adv.paid = 0
  BY DEF ProperAdvance
<1>2. /\ more \in [status: AdvanceStatuses, worker: Workers, amount: Nat, instalment: Nat,
                   paid: Nat, byPayroll: Nat, byCash: Nat]
      /\ more.paid = Lesser(adv.amount, adv.paid + x) /\ more.amount = adv.amount
      /\ more.byPayroll = adv.byPayroll /\ more.byCash = adv.byCash
      /\ more.worker = adv.worker /\ more.status = "ACTIVE"
  BY <1>1 DEF Lesser
<1>3. then = [more EXCEPT !.status = IF more.paid >= more.amount - 1 THEN "SETTLED" ELSE @]
  BY DEF Repaid, SettledIfPaid
<1> HIDE DEF more, then
<1>4. /\ then \in [status: AdvanceStatuses, worker: Workers, amount: Nat, instalment: Nat,
                   paid: Nat, byPayroll: Nat, byCash: Nat]
      /\ then.paid = Lesser(adv.amount, adv.paid + x) /\ then.amount = adv.amount
      /\ then.byPayroll = adv.byPayroll /\ then.byCash = adv.byCash
      /\ then.worker = adv.worker
      /\ then.status = IF then.paid >= then.amount - 1 THEN "SETTLED" ELSE "ACTIVE"
  BY <1>2, <1>3 DEF AdvanceStatuses
<1>5. /\ then.paid <= adv.amount
      /\ then.paid = adv.paid + x \/ (then.paid = adv.amount /\ adv.paid + x = adv.amount + 1)
      /\ then.status = "ACTIVE" => then.paid < adv.amount - 1 /\ adv.amount > 0
      /\ then.status = "SETTLED" => then.paid >= adv.amount - 1
      /\ then.status # "ABSENT"
      /\ x <= adv.amount - adv.paid => then.paid = adv.paid + x
  BY <1>1, <1>4 DEF Lesser
<1> DEFINE cash == [then EXCEPT !.byCash = @ + x]
           run  == [then EXCEPT !.byPayroll = @ + x]
<1>6. /\ cash \in [status: AdvanceStatuses, worker: Workers, amount: Nat, instalment: Nat,
                   paid: Nat, byPayroll: Nat, byCash: Nat]
      /\ cash.paid = then.paid /\ cash.amount = then.amount /\ cash.status = then.status
      /\ cash.byPayroll = adv.byPayroll /\ cash.byCash = adv.byCash + x
      /\ cash.worker = adv.worker
  BY <1>4
<1>7. /\ run \in [status: AdvanceStatuses, worker: Workers, amount: Nat, instalment: Nat,
                  paid: Nat, byPayroll: Nat, byCash: Nat]
      /\ run.paid = then.paid /\ run.amount = then.amount /\ run.status = then.status
      /\ run.byPayroll = adv.byPayroll + x /\ run.byCash = adv.byCash
      /\ run.worker = adv.worker
  BY <1>4
<1>9. PaidInCash(adv, x) = cash /\ PaidByRun(adv, x) = run
  BY DEF PaidInCash, PaidByRun, then
<1> HIDE DEF cash, run
<1>8. ProperAdvance(cash)
  BY <1>1, <1>4, <1>5, <1>6 DEF ProperAdvance
<1>10. x <= adv.amount - adv.paid => ProperAdvance(run)
  BY <1>1, <1>4, <1>5, <1>7 DEF ProperAdvance
<1> QED
  BY <1>6, <1>7, <1>8, <1>9, <1>10

(* What is still owed is taken as a number; nothing else of it matters here. *)
LEMMA DueFacts ==
  ASSUME NEW a \in AdvanceIds, ProperAdvance(advances[a])
  PROVE  Due(a) \in Nat /\ Due(a) <= advances[a].amount - advances[a].paid
<1>1. /\ advances[a].amount \in Nat /\ advances[a].paid \in Nat
      /\ advances[a].instalment \in Nat /\ advances[a].paid <= advances[a].amount
  BY DEF ProperAdvance
<1> QED
  BY <1>1 DEF Due, Lesser

(* The rounded parts of a line, and what their rounding leaves.              *)
LEMMA LinesBalance ==
  ASSUME NEW s \in Int, NEW b \in Int, NEW d \in Int, NEW h \in Int
  PROVE  LET net == NetPayable(Round(s), b, d, h)
         IN  /\ net \in Int
             /\ Round(s) + Round(b) - Round(d) - Round(h) - net \in {-10, 0, 10}
<1>1. PICK i \in Int, j \in Int, k \in Int, l \in Int :
         Round(s) = 10 * i /\ Round(b) = 10 * j /\ Round(d) = 10 * k /\ Round(h) = 10 * l
  <2>1. \A x \in Int : \E k \in Int : Round(x) = 10 * k
    BY RoundFacts
  <2>2. PICK i \in Int : Round(s) = 10 * i
    BY <2>1
  <2>3. PICK j \in Int : Round(b) = 10 * j
    BY <2>1
  <2>4. PICK k \in Int : Round(d) = 10 * k
    BY <2>1
  <2>5. PICK l \in Int : Round(h) = 10 * l
    BY <2>1
  <2> QED
    BY <2>2, <2>3, <2>4, <2>5
<1> DEFINE all == Round(s) + b - d - h
<1>2. all \in Int
  BY <1>1
<1> HIDE DEF all
<1>3. PICK n \in Int : Round(all) = 10 * n
  BY <1>2, RoundFacts
<1>4. /\ b - 4 <= Round(b) /\ Round(b) <= b + 5 /\ d - 4 <= Round(d) /\ Round(d) <= d + 5
      /\ h - 4 <= Round(h) /\ Round(h) <= h + 5 /\ all - 4 <= Round(all) /\ Round(all) <= all + 5
  BY <1>2, RoundFacts
<1>5. Round(s) + Round(b) - Round(d) - Round(h) - Round(all) \in {-10, 0, 10}
  <2>1. all = 10 * i + b - d - h
    BY <1>1 DEF all
  <2> DEFINE e == i + j - k - l - n
  <2>2. Round(s) + Round(b) - Round(d) - Round(h) - Round(all) = 10 * e
    BY <1>1, <1>3
  <2>3. -20 < 10 * e /\ 10 * e < 20
    BY <1>1, <1>2, <1>3, <1>4, <2>1
  <2>4. e \in Int
    OBVIOUS
  <2> HIDE DEF e
  <2>5. e = -1 \/ e = 0 \/ e = 1
    BY <2>3, <2>4
  <2> QED
    BY <2>2, <2>5
<1>6. NetPayable(Round(s), b, d, h) = Round(all)
  BY DEF NetPayable, all
<1>7. Round(all) \in Int
  BY <1>3
<1> QED
  BY <1>5, <1>6, <1>7

(* A run is proper when it is computed.                                      *)
LEMMA DraftsAreProper ==
  ASSUME \A a \in AdvanceIds : ProperAdvance(advances[a]), NEW m \in PayMonths
  PROVE  ProperRun(DraftRun(m)) /\ DraftRun(m).status = "DRAFT"
<1> DEFINE bonus     == [w \in Workers |-> Affair(w, m, "BONUS")]
           deduction == [w \in Workers |-> Affair(w, m, "DEDUCTION")]
           owed      == [a \in AdvanceIds |-> Due(a)]
           taken     == [w \in Workers |-> SumOf(owed, ActiveOf(w))]
           r         == DraftRun(m)
<1>1. \A w \in Workers, type \in {"BONUS", "DEDUCTION"} : Affair(w, m, type) \in Int
  <2> SUFFICES ASSUME NEW w \in Workers, NEW type \in {"BONUS", "DEDUCTION"} PROVE Affair(w, m, type) \in Int
    OBVIOUS
  <2> DEFINE of == {f \in AffairForms : /\ affairs[f] = "APPROVED"
                                        /\ f.worker = w /\ f.month = m /\ f.type = type}
             amount == [f \in AffairForms |-> f.amount]
  <2>1. IsFiniteSet(of)
    BY PayrollAssumption, FS_Subset
  <2>2. \A f \in of : amount[f] \in Int
    BY PayrollAssumption
  <2>3. Affair(w, m, type) = SumOver(amount, of)
    BY SumOfIs DEF Affair
  <2> HIDE DEF of, amount
  <2> QED
    BY <2>1, <2>2, <2>3, SumType
<1>2. \A w \in Workers : SumOf(owed, ActiveOf(w)) \in Nat
  <2> SUFFICES ASSUME NEW w \in Workers PROVE SumOf(owed, ActiveOf(w)) \in Nat
    OBVIOUS
  <2>1. IsFiniteSet(ActiveOf(w)) /\ ActiveOf(w) \subseteq AdvanceIds
    BY IdsAndMonths, FS_Subset DEF ActiveOf
  <2>2. \A a \in ActiveOf(w) : owed[a] \in Nat
    BY <2>1, DueFacts
  <2> HIDE DEF owed
  <2> QED
    BY <2>1, <2>2, SumAtLeastZero, SumOfIs
<1>3. \A w \in Workers : Salary[w] \in Int
  BY PayrollAssumption
<1>4. r = [status    |-> "DRAFT",
           base      |-> [w \in Workers |-> Round(Salary[w])],
           bonus     |-> [w \in Workers |-> Round(bonus[w])],
           deduction |-> [w \in Workers |-> Round(deduction[w])],
           withheld  |-> [w \in Workers |-> Round(taken[w])],
           net       |-> [w \in Workers |->
               NetPayable(Round(Salary[w]), bonus[w], deduction[w], taken[w])]]
  BY DEF DraftRun
<1>5. \A w \in Workers : bonus[w] \in Int /\ deduction[w] \in Int /\ taken[w] \in Nat
  BY <1>1, <1>2
<1> HIDE DEF bonus, deduction, taken, r
<1>6. \A w \in Workers : /\ Round(Salary[w]) \in Int /\ Round(bonus[w]) \in Int
                         /\ Round(deduction[w]) \in Int /\ Round(taken[w]) \in Nat
  <2>1. \A x \in Int : Round(x) \in Int /\ (x >= 0 => Round(x) >= 0)
    BY RoundFacts
  <2> QED
    BY <1>3, <1>5, <2>1
<1>7. \A w \in Workers : LET net == NetPayable(Round(Salary[w]), bonus[w], deduction[w], taken[w])
                         IN  /\ net \in Int
                             /\ Round(Salary[w]) + Round(bonus[w]) - Round(deduction[w])
                                   - Round(taken[w]) - net \in {-10, 0, 10}
  <2> TAKE w \in Workers
  <2> DEFINE s == Salary[w]
             b == bonus[w]
             d == deduction[w]
             h == taken[w]
  <2>1. s \in Int /\ b \in Int /\ d \in Int /\ h \in Int
    BY <1>3, <1>5
  <2> HIDE DEF s, b, d, h
  <2>2. LET net == NetPayable(Round(s), b, d, h)
        IN  /\ net \in Int
            /\ Round(s) + Round(b) - Round(d) - Round(h) - net \in {-10, 0, 10}
    BY <2>1, LinesBalance
  <2> QED
    BY <2>2 DEF s, b, d, h
<1>8. /\ r.status = "DRAFT"
      /\ r \in [status: {"NONE", "DRAFT", "APPROVED", "POSTED"}, base: RunParts,
                bonus: RunParts, deduction: RunParts, withheld: RunParts, net: RunParts]
  BY <1>4, <1>6, <1>7 DEF RunParts
<1>9. \A w \in Workers :
         /\ r.base[w] = Round(Salary[w]) /\ r.bonus[w] = Round(bonus[w])
         /\ r.deduction[w] = Round(deduction[w]) /\ r.withheld[w] = Round(taken[w])
         /\ r.net[w] = NetPayable(Round(Salary[w]), bonus[w], deduction[w], taken[w])
  BY <1>4
<1>10. ProperRun(r)
  BY <1>6, <1>7, <1>8, <1>9 DEF ProperRun
<1> QED
  BY <1>8, <1>10 DEF r

(* What is left of a deduction after the advances down to i.                 *)
IsRest(left, w, h) ==
    left = [i \in 0..MaxAdvances |->
              IF i = MaxAdvances THEN h
              ELSE LET rest == left[i + 1]
                       paid == IF i + 1 \in ActiveOf(w) THEN Credit(i + 1, rest) ELSE 0
                   IN  IF paid > 0 THEN Round(rest - paid) ELSE rest]

LEMMA RestUnfolds ==
  ASSUME NEW w, NEW h, \E left : IsRest(left, w, h)
  PROVE  IsRest(RestAfter(w, h), w, h)
<1> DEFINE rest == CHOOSE left : IsRest(left, w, h)
<1>1. IsRest(rest, w, h)
  OBVIOUS
<1>2. RestAfter(w, h) = rest
  BY DEF RestAfter, IsRest
<1> QED
  BY <1>1, <1>2

(* A credit is at most what is owed and what is left of the deduction.       *)
LEMMA CreditFacts ==
  ASSUME NEW a \in AdvanceIds, ProperAdvance(advances[a]), NEW x \in Nat
  PROVE  /\ Credit(a, x) \in Nat /\ Credit(a, x) <= x
         /\ Credit(a, x) <= advances[a].amount - advances[a].paid
<1>1. Due(a) \in Nat /\ Due(a) <= advances[a].amount - advances[a].paid
  BY DueFacts
<1>2. advances[a].amount \in Nat /\ advances[a].paid \in Nat
  BY DEF ProperAdvance
<1> QED
  BY <1>1, <1>2 DEF Credit, Lesser

NextRest(i, rest, w) ==
    LET paid == IF i \in ActiveOf(w) THEN Credit(i, rest) ELSE 0
    IN  IF paid > 0 THEN Round(rest - paid) ELSE rest

LEMMA NextRestFacts ==
  ASSUME \A a \in AdvanceIds : ProperAdvance(advances[a]),
         NEW w, NEW i \in 1..MaxAdvances, NEW x \in Nat
  PROVE  /\ NextRest(i, x, w) \in Nat
         /\ i \in ActiveOf(w) => Credit(i, x) + NextRest(i, x, w) <= x + 5
         /\ i \notin ActiveOf(w) => NextRest(i, x, w) = x
<1> DEFINE paid == IF i \in ActiveOf(w) THEN Credit(i, x) ELSE 0
<1>1. paid \in Nat /\ paid <= x
  BY CreditFacts DEF AdvanceIds
<1>2. NextRest(i, x, w) = IF paid > 0 THEN Round(x - paid) ELSE x
  BY DEF NextRest
<1>3. (i \in ActiveOf(w) => Credit(i, x) = paid) /\ (i \notin ActiveOf(w) => paid = 0)
  OBVIOUS
<1> HIDE DEF paid
<1>4. x - paid \in Int /\ x - paid >= 0
  BY <1>1
<1>5. Round(x - paid) \in Int /\ Round(x - paid) >= 0 /\ Round(x - paid) <= (x - paid) + 5
  BY <1>4, RoundFacts
<1> QED
  BY <1>1, <1>2, <1>3, <1>5

(* Such a function exists, and is one of numbers.                            *)
LEMMA RestExists ==
  ASSUME \A a \in AdvanceIds : ProperAdvance(advances[a]), NEW w, NEW h \in Nat
  PROVE  LET left == RestAfter(w, h)
         IN  /\ \A i \in 0..MaxAdvances : left[i] \in Nat
             /\ left[MaxAdvances] = h
             /\ \A i \in 1..MaxAdvances : left[i - 1] = NextRest(i, left[i], w)
<1> DEFINE DownTo(left, k) ==
             /\ left \in [0..MaxAdvances -> Nat] /\ left[MaxAdvances] = h
             /\ \A i \in 1..MaxAdvances :
                  MaxAdvances - i < k => left[i - 1] = NextRest(i, left[i], w)
           Bad == {k \in Nat : ~\E left : DownTo(left, k)}
<1>0. MaxAdvances \in Nat
  BY IdsAndMonths
<1>1. Bad = {}
  <2> SUFFICES ASSUME Bad # {} PROVE FALSE
    OBVIOUS
  <2>1. PICK k \in Bad : \A j \in Bad : k <= j
    BY LeastOf
  <2>2. k # 0
    <3> DEFINE zero == [i \in 0..MaxAdvances |-> h]
    <3>1. zero \in [0..MaxAdvances -> Nat] /\ zero[MaxAdvances] = h
      BY <1>0
    <3>2. \A i \in 1..MaxAdvances : ~(MaxAdvances - i < 0)
      BY <1>0
    <3>3. DownTo(zero, 0)
      BY <3>1, <3>2
    <3> QED
      BY <2>1, <3>3
  <2>3. k - 1 \in Nat /\ k - 1 \notin Bad
    BY <2>1, <2>2
  <2>4. PICK left : DownTo(left, k - 1)
    BY <2>3
  <2> DEFINE e == MaxAdvances - (k - 1)
  <2>5. CASE e \notin 1..MaxAdvances
    <3>1. \A i \in 1..MaxAdvances : MaxAdvances - i < k => MaxAdvances - i < k - 1
      BY <1>0, <2>1, <2>5
    <3>2. DownTo(left, k)
      BY <2>4, <3>1
    <3> QED
      BY <2>1, <3>2
  <2>6. CASE e \in 1..MaxAdvances
    <3> DEFINE next == [left EXCEPT ![e - 1] = NextRest(e, left[e], w)]
    <3>1. left \in [0..MaxAdvances -> Nat] /\ left[MaxAdvances] = h
      BY <2>4
    <3>2. e \in 0..MaxAdvances /\ e - 1 \in 0..MaxAdvances /\ e - 1 # MaxAdvances /\ left[e] \in Nat
      BY <1>0, <2>6, <3>1
    <3>3. NextRest(e, left[e], w) \in Nat
      BY <2>6, <3>2, NextRestFacts
    <3>4. /\ next \in [0..MaxAdvances -> Nat] /\ next[e - 1] = NextRest(e, left[e], w)
          /\ \A i \in 0..MaxAdvances : i # e - 1 => next[i] = left[i]
      BY <3>1, <3>2, <3>3
    <3> HIDE DEF next
    <3>5. ASSUME NEW i \in 1..MaxAdvances, MaxAdvances - i < k
          PROVE  next[i - 1] = NextRest(i, next[i], w)
      <4>1. CASE i = e
        <5>1. next[i] = left[i]
          BY <1>0, <3>4, <4>1
        <5> QED
          BY <3>4, <4>1, <5>1
      <4>2. CASE i # e
        <5>1. MaxAdvances - i < k - 1 /\ i > e
          BY <1>0, <2>1, <3>5, <4>2
        <5>2. i - 1 # e - 1 /\ i # e - 1 /\ i - 1 \in 0..MaxAdvances /\ i \in 0..MaxAdvances
          BY <1>0, <2>6, <5>1
        <5>3. next[i - 1] = left[i - 1] /\ next[i] = left[i]
          BY <3>4, <5>2
        <5> QED
          BY <2>4, <5>1, <5>3
      <4> QED
        BY <4>1, <4>2
    <3>6. next[MaxAdvances] = h
      BY <1>0, <3>1, <3>2, <3>4
    <3>7. DownTo(next, k)
      BY <3>4, <3>5, <3>6
    <3> QED
      BY <2>1, <3>7
  <2> QED
    BY <2>5, <2>6
<1>2. PICK left : DownTo(left, MaxAdvances)
  BY <1>0, <1>1
<1>3. /\ left \in [0..MaxAdvances -> Nat] /\ left[MaxAdvances] = h
      /\ \A i \in 1..MaxAdvances : left[i - 1] = NextRest(i, left[i], w)
  <2>1. \A i \in 1..MaxAdvances : MaxAdvances - i < MaxAdvances
    BY <1>0
  <2> QED
    BY <1>2, <2>1
<1> HIDE DEF DownTo, Bad
<1>4. IsRest(left, w, h)
  <2>1. \A i \in 0..MaxAdvances :
          left[i] = IF i = MaxAdvances THEN h ELSE NextRest(i + 1, left[i + 1], w)
    <3> TAKE i \in 0..MaxAdvances
    <3>1. CASE i = MaxAdvances
      BY <1>3, <3>1
    <3>2. CASE i # MaxAdvances
      <4>1. i + 1 \in 1..MaxAdvances /\ (i + 1) - 1 = i
        BY <1>0, <3>2
      <4> QED
        BY <1>3, <3>2, <4>1
    <3> QED
      BY <3>1, <3>2
  <2>2. left = [i \in 0..MaxAdvances |-> left[i]]
    BY <1>3
  <2> QED
    BY <2>1, <2>2 DEF IsRest, NextRest
<1> DEFINE rest == RestAfter(w, h)
<1>5. IsRest(rest, w, h)
  BY <1>4, RestUnfolds
<1> HIDE DEF rest
<1>6. /\ rest[MaxAdvances] = h
      /\ \A i \in 1..MaxAdvances : rest[i - 1] = NextRest(i, rest[i], w)
  <2>1. \A i \in 0..MaxAdvances :
          rest[i] = IF i = MaxAdvances THEN h ELSE NextRest(i + 1, rest[i + 1], w)
    BY <1>5 DEF IsRest, NextRest
  <2>2. \A i \in 1..MaxAdvances : /\ i - 1 \in 0..MaxAdvances /\ i - 1 # MaxAdvances
                                   /\ (i - 1) + 1 = i
    BY <1>0
  <2>3. MaxAdvances \in 0..MaxAdvances
    BY <1>0
  <2> QED
    BY <2>1, <2>2, <2>3
<1>7. \A i \in 0..MaxAdvances : rest[i] \in Nat
  <2> DEFINE Odd == {k \in Nat : k <= MaxAdvances /\ rest[MaxAdvances - k] \notin Nat}
  <2>1. Odd = {}
    <3> SUFFICES ASSUME Odd # {} PROVE FALSE
      OBVIOUS
    <3>1. PICK k \in Odd : \A j \in Odd : k <= j
      BY LeastOf
    <3>2. k # 0
      BY <1>0, <1>6, <3>1
    <3>3. k - 1 \in Nat /\ k - 1 <= MaxAdvances /\ k - 1 \notin Odd
      BY <1>0, <3>1, <3>2
    <3> DEFINE i == MaxAdvances - (k - 1)
    <3>4. i \in 1..MaxAdvances /\ i - 1 = MaxAdvances - k /\ rest[i] \in Nat
      BY <1>0, <3>1, <3>2, <3>3
    <3>5. rest[i - 1] \in Nat
      BY <1>6, <3>4, NextRestFacts
    <3> QED
      BY <3>1, <3>4, <3>5
  <2>2. \A i \in 0..MaxAdvances : /\ MaxAdvances - i \in Nat /\ MaxAdvances - i <= MaxAdvances
                                   /\ MaxAdvances - (MaxAdvances - i) = i
    BY <1>0
  <2> QED
    BY <2>1, <2>2
<1> QED
  BY <1>6, <1>7 DEF rest

(* What a run credits to the advances of a worker is at most what it         *)
(* withheld from him, but for the rounding.                                  *)
CreditsOf(r, w) == [a \in AdvanceIds |-> IF a \in ActiveOf(w) THEN Credited(r, a) ELSE 0]

LEMMA CreditsAreCovered ==
  ASSUME \A a \in AdvanceIds : ProperAdvance(advances[a]), NEW w \in Workers,
         NEW r, r.withheld[w] \in Nat
  PROVE  /\ \A a \in AdvanceIds : CreditsOf(r, w)[a] \in Nat
         /\ \A a \in ActiveOf(w) : Credited(r, a) <= advances[a].amount - advances[a].paid
         /\ SumOver(CreditsOf(r, w), AdvanceIds) <= r.withheld[w] + 5 * MaxAdvances
<1> DEFINE h    == r.withheld[w]
           left == RestAfter(w, h)
           c    == CreditsOf(r, w)
           Down(i) == (i + 1)..MaxAdvances
<1>0. MaxAdvances \in Nat /\ AdvanceIds = 1..MaxAdvances /\ IsFiniteSet(AdvanceIds) /\ h \in Nat
  BY IdsAndMonths
<1>1. /\ \A i \in 0..MaxAdvances : left[i] \in Nat
      /\ left[MaxAdvances] = h
      /\ \A i \in 1..MaxAdvances : left[i - 1] = NextRest(i, left[i], w)
  BY <1>0, RestExists
<1>2. \A a \in ActiveOf(w) : a \in AdvanceIds /\ Credited(r, a) = Credit(a, left[a])
  BY DEF ActiveOf, Credited
<1> HIDE DEF left
<1>3. \A a \in AdvanceIds : c[a] = IF a \in ActiveOf(w) THEN Credit(a, left[a]) ELSE 0
  BY <1>2 DEF CreditsOf
<1> HIDE DEF c, h
<1>4. \A a \in AdvanceIds : /\ left[a] \in Nat /\ c[a] \in Nat /\ c[a] + left[a - 1] <= left[a] + 5
  <2> TAKE a \in AdvanceIds
  <2>1. a \in 1..MaxAdvances /\ left[a] \in Nat /\ left[a - 1] = NextRest(a, left[a], w)
    BY <1>0, <1>1
  <2>2. CASE a \in ActiveOf(w)
    <3>1. c[a] = Credit(a, left[a]) /\ Credit(a, left[a]) \in Nat
      BY <1>3, <2>1, <2>2, CreditFacts
    <3>2. Credit(a, left[a]) + NextRest(a, left[a], w) <= left[a] + 5
      BY <2>1, <2>2, NextRestFacts
    <3> QED
      BY <2>1, <3>1, <3>2
  <2>3. CASE a \notin ActiveOf(w)
    <3>1. c[a] = 0 /\ NextRest(a, left[a], w) = left[a]
      BY <1>3, <2>1, <2>3, NextRestFacts
    <3> QED
      BY <2>1, <3>1
  <2> QED
    BY <2>2, <2>3
<1>5. \A a \in ActiveOf(w) : Credited(r, a) <= advances[a].amount - advances[a].paid
  BY <1>2, <1>4, CreditFacts
<1>6. SumOver(c, Down(0)) + left[0] <= h + 5 * MaxAdvances
  <2> DEFINE Bound(k) == SumOver(c, Down(MaxAdvances - k)) + left[MaxAdvances - k] <= h + 5 * k
             Bad == {k \in Nat : k <= MaxAdvances /\ ~Bound(k)}
  <2>1. Bad = {}
    <3> SUFFICES ASSUME Bad # {} PROVE FALSE
      OBVIOUS
    <3>1. PICK k \in Bad : \A j \in Bad : k <= j
      BY LeastOf
    <3>2. k # 0
      <4>1. SumOver(c, {}) = 0
        BY FS_EmptySet, SumZero
      <4>2. Down(MaxAdvances - 0) = {} /\ MaxAdvances - 0 = MaxAdvances
        BY <1>0
      <4>3. Bound(0)
        BY <1>0, <1>1, <4>1, <4>2
      <4> QED
        BY <3>1, <4>3
    <3>3. k - 1 \in Nat /\ k - 1 <= MaxAdvances /\ k - 1 \notin Bad
      BY <1>0, <3>1, <3>2
    <3> DEFINE i == MaxAdvances - (k - 1)
               D == Down(i)
               sum == SumOver(c, D)
    <3>4. i \in AdvanceIds /\ i - 1 = MaxAdvances - k /\ i \in Int
      BY <1>0, <3>1, <3>2, <3>3
    <3>5. Down(i - 1) = D \union {i} /\ i \notin D /\ D \subseteq AdvanceIds
      BY <1>0, <3>4
    <3>6. sum + left[i] <= h + 5 * (k - 1)
      BY <3>3
    <3> HIDE DEF D, i, Down
    <3>7. IsFiniteSet(D) /\ IsFiniteSet(D \union {i})
      BY <1>0, <3>4, <3>5, FS_Subset
    <3>8. \A x \in D \union {i} : c[x] \in Int
      BY <1>4, <3>4, <3>5
    <3>9. SumOver(c, D \union {i}) = c[i] + SumOver(c, (D \union {i}) \ {i})
      BY <3>7, <3>8, SumRemove
    <3>10. (D \union {i}) \ {i} = D
      BY <3>5
    <3>11. sum \in Int
      BY <3>7, <3>8, SumType
    <3> HIDE DEF sum
    <3>12. SumOver(c, Down(i - 1)) = c[i] + sum
      BY <3>5, <3>9, <3>10 DEF sum
    <3>13. c[i] + left[i - 1] <= left[i] + 5 /\ c[i] \in Nat /\ left[i] \in Nat
      BY <1>4, <3>4
    <3>14. left[i - 1] \in Nat
      BY <1>0, <1>1, <3>4
    <3>15. SumOver(c, Down(i - 1)) + left[i - 1] <= h + 5 * k
      <4> DEFINE ci == c[i]
                 before == left[i]
                 after == left[i - 1]
      <4>1. /\ ci + after <= before + 5 /\ sum + before <= h + 5 * (k - 1)
            /\ ci \in Nat /\ before \in Nat /\ after \in Nat /\ sum \in Int /\ k \in Int
        BY <3>1, <3>6, <3>11, <3>13, <3>14
      <4>2. SumOver(c, Down(i - 1)) = ci + sum
        BY <3>12
      <4> HIDE DEF ci, before, after
      <4>3. ci + sum + after <= h + 5 * k
        BY <1>0, <4>1
      <4> QED
        BY <4>2, <4>3 DEF after
    <3> QED
      BY <3>1, <3>4, <3>15
  <2>2. Bound(MaxAdvances)
    BY <1>0, <2>1
  <2>3. MaxAdvances - MaxAdvances = 0
    BY <1>0
  <2> QED
    BY <2>2, <2>3
<1>7. Down(0) = AdvanceIds
  BY <1>0
<1>8. SumOver(c, AdvanceIds) \in Int
  BY <1>0, <1>4, SumType
<1>9. left[0] \in Nat
  BY <1>0, <1>1
<1> HIDE DEF Down
<1>10. SumOver(c, AdvanceIds) <= h + 5 * MaxAdvances
  BY <1>0, <1>6, <1>7, <1>8, <1>9
<1> QED
  BY <1>4, <1>5, <1>10 DEF c, h

(* What was credited to a worker, summed over all advances.                  *)
AllCredited(w) ==
    [a \in AdvanceIds |-> IF advances[a].worker = w THEN advances[a].byPayroll ELSE 0]

CreditedFacts ==
    \A w \in Workers : /\ CreditedTo(w) = SumOver(AllCredited(w), AdvanceIds)
                       /\ CreditedTo(w) \in Int
                       /\ \A a \in AdvanceIds : AllCredited(w)[a] \in Int

LEMMA CreditedOverAll == AdvancesProper => CreditedFacts
<1> SUFFICES ASSUME AdvancesProper, NEW w \in Workers
             PROVE  /\ CreditedTo(w) = SumOver(AllCredited(w), AdvanceIds)
                    /\ CreditedTo(w) \in Int
                    /\ \A a \in AdvanceIds : AllCredited(w)[a] \in Int
  BY DEF CreditedFacts
<1> DEFINE f == AllCredited(w)
           g == [a \in AdvanceIds |-> advances[a].byPayroll]
           D == {a \in AdvanceIds : advances[a].worker = w}
<1>1. IsFiniteSet(D) /\ D \subseteq AdvanceIds /\ IsFiniteSet(AdvanceIds)
  BY IdsAndMonths, FS_Subset
<1>2. \A a \in AdvanceIds : f[a] \in Int /\ g[a] \in Int
  BY DEF ProperAdvance, AdvancesProper, AllCredited
<1>3. (\A a \in AdvanceIds \ D : f[a] = 0) /\ \A a \in D : g[a] = f[a]
  BY DEF AllCredited
<1>4. CreditedTo(w) = SumOver(g, D)
  BY SumOfIs DEF CreditedTo
<1> HIDE DEF f, g, D
<1>5. SumOver(g, D) = SumOver(f, D)
  BY <1>1, <1>2, <1>3, SumSame
<1>6. SumOver(f, AdvanceIds) = SumOver(f, D)
  BY <1>1, <1>2, <1>3, SumWithin
<1>7. SumOver(f, AdvanceIds) \in Int
  BY <1>1, <1>2, SumType
<1> QED
  BY <1>2, <1>4, <1>5, <1>6, <1>7 DEF f

Withheld(w) == [m \in PayMonths |-> runs[m].withheld[w]]

WithheldFacts ==
    /\ IsFiniteSet(PostedMonths) /\ PostedMonths \subseteq PayMonths
    /\ Cardinality(PostedMonths) \in Nat
    /\ Cardinality(PostedMonths) <= Cardinality(PayMonths)
    /\ \A w \in Workers : /\ WithheldFrom(w) = SumOver(Withheld(w), PostedMonths)
                          /\ WithheldFrom(w) \in Int
                          /\ \A m \in PayMonths : Withheld(w)[m] \in Nat

LEMMA MonthsWithheld == RunsProper => WithheldFacts
<1> SUFFICES ASSUME RunsProper PROVE WithheldFacts
  OBVIOUS
<1>1. /\ IsFiniteSet(PostedMonths) /\ PostedMonths \subseteq PayMonths
      /\ Cardinality(PostedMonths) \in Nat
      /\ Cardinality(PostedMonths) <= Cardinality(PayMonths)
  BY IdsAndMonths, FS_Subset, FS_CardinalityType DEF PostedMonths
<1>2. ASSUME NEW w \in Workers
      PROVE  /\ WithheldFrom(w) = SumOver(Withheld(w), PostedMonths)
             /\ WithheldFrom(w) \in Int
             /\ \A m \in PayMonths : Withheld(w)[m] \in Nat
  <2> DEFINE f == Withheld(w)
  <2>1. \A m \in PayMonths : f[m] \in Nat
    BY DEF ProperRun, RunsProper, Withheld
  <2>2. WithheldFrom(w) = SumOver(f, PostedMonths)
    BY SumOfIs DEF WithheldFrom, PostedMonths, Withheld
  <2> HIDE DEF f
  <2>3. \A m \in PostedMonths : f[m] \in Int
    BY <1>1, <2>1
  <2>4. SumOver(f, PostedMonths) \in Int
    BY <1>1, <2>3, SumType
  <2> QED
    BY <2>1, <2>2, <2>4 DEF f
<1> QED
  BY <1>1, <1>2 DEF WithheldFacts

LEMMA FactsNext ==
  /\ AdvancesProper' => CreditedFacts'
  /\ RunsProper' => WithheldFacts'
<1>1. AdvancesProper' => CreditedFacts'
  BY CreditedOverAll, PTL
<1>2. RunsProper' => WithheldFacts'
  BY MonthsWithheld, PTL
<1> QED
  BY <1>1, <1>2

-----------------------------------------------------------------------------
(* A run that is not posted changes: nothing is withheld or credited.        *)
LEMMA UnpostedRunChanges ==
  ASSUME PayrollInv, NEW m \in PayMonths, NEW r, ProperRun(r), r.status # "POSTED",
         runs[m].status # "POSTED", runs' = [runs EXCEPT ![m] = r],
         UNCHANGED <<advances, affairs>>
  PROVE  PayrollInv'
<1>1. /\ runs' = [k \in PayMonths |-> IF k = m THEN r ELSE runs[k]] /\ RunsProper
      /\ AdvancesProper /\ Covered
  BY DEF PayrollInv
<1>2. RunsProper'
  BY <1>1 DEF RunsProper
<1>3. PostedMonths' = PostedMonths
  BY <1>1 DEF PostedMonths
<1>4. WithheldFacts /\ WithheldFacts'
  BY <1>1, <1>2, MonthsWithheld, FactsNext
<1>5. \A w \in Workers : WithheldFrom(w)' = WithheldFrom(w) /\ CreditedTo(w)' = CreditedTo(w)
  <2> TAKE w \in Workers
  <2>1. \A k \in PostedMonths : Withheld(w)'[k] = Withheld(w)[k] /\ Withheld(w)[k] \in Int
    <3> TAKE k \in PostedMonths
    <3>1. k \in PayMonths /\ k # m /\ Withheld(w)[k] \in Int
      <4>1. k \in PayMonths /\ runs[k].status = "POSTED"
        BY DEF PostedMonths
      <4>2. Withheld(w)[k] \in Nat
        BY <1>4, <4>1 DEF WithheldFacts
      <4> QED
        BY <4>1, <4>2
    <3>2. runs'[k] = runs[k]
      BY <1>1, <3>1
    <3> QED
      BY <3>1, <3>2 DEF Withheld
  <2>2. WithheldFrom(w) = SumOver(Withheld(w), PostedMonths)
    BY <1>4 DEF WithheldFacts
  <2>3. WithheldFrom(w)' = SumOver(Withheld(w)', PostedMonths)
    BY <1>3, <1>4 DEF WithheldFacts
  <2> DEFINE f == Withheld(w)
             g == Withheld(w)'
  <2> HIDE DEF f, g
  <2>4. SumOver(g, PostedMonths) = SumOver(f, PostedMonths)
    <3>1. IsFiniteSet(PostedMonths) /\ \A k \in PostedMonths : g[k] = f[k] /\ f[k] \in Int
      BY <1>4, <2>1 DEF WithheldFacts, f, g
    <3> QED
      BY <3>1, SumSame
  <2>5. CreditedTo(w)' = CreditedTo(w)
    BY DEF CreditedTo
  <2> QED
    BY <2>2, <2>3, <2>4, <2>5 DEF f, g
<1>6. Covered'
  BY <1>1, <1>3, <1>5 DEF Covered
<1> QED
  BY <1>1, <1>2, <1>6 DEF PayrollInv, AdvancesProper

(* One advance changes, and nothing is credited to it.                       *)
LEMMA OneAdvanceChanges ==
  ASSUME PayrollInv, NEW a \in AdvanceIds, NEW adv, ProperAdvance(adv),
         adv.byPayroll = advances[a].byPayroll,
         adv.byPayroll = 0 \/ adv.worker = advances[a].worker,
         advances' = [advances EXCEPT ![a] = adv], UNCHANGED <<affairs, runs>>
  PROVE  PayrollInv'
<1>1. /\ advances' = [b \in AdvanceIds |-> IF b = a THEN adv ELSE advances[b]]
      /\ AdvancesProper /\ RunsProper /\ Covered
  BY DEF PayrollInv
<1>2. AdvancesProper'
  BY <1>1 DEF AdvancesProper
<1>3. CreditedFacts /\ CreditedFacts'
  BY <1>1, <1>2, CreditedOverAll, FactsNext
<1>4. \A w \in Workers : CreditedTo(w)' = CreditedTo(w) /\ WithheldFrom(w)' = WithheldFrom(w)
  <2> TAKE w \in Workers
  <2>1. \A b \in AdvanceIds : AllCredited(w)'[b] = AllCredited(w)[b]
    BY <1>1 DEF AllCredited
  <2>2. AllCredited(w)' = AllCredited(w)
    BY <2>1 DEF AllCredited
  <2>3. WithheldFrom(w)' = WithheldFrom(w)
    BY DEF WithheldFrom
  <2> QED
    BY <1>3, <2>2, <2>3 DEF CreditedFacts
<1>5. PostedMonths' = PostedMonths
  BY DEF PostedMonths
<1>6. Covered'
  BY <1>1, <1>4, <1>5 DEF Covered
<1> QED
  BY <1>1, <1>2, <1>6 DEF PayrollInv, RunsProper

(* Posting a run: every active advance of a worker takes what Credited says. *)
LEMMA AdvancesArePaid ==
  ASSUME PayrollInv, NEW m \in PayMonths, PostRun(m)
  PROVE  /\ advances' = [a \in AdvanceIds |-> advances'[a]] /\ AdvancesProper'
         /\ \A w \in Workers, a \in AdvanceIds :
              /\ CreditsOf(runs[m], w)[a] \in Nat
              /\ AllCredited(w)'[a] = AllCredited(w)[a] + CreditsOf(runs[m], w)[a]
<1> DEFINE r == runs[m]
           x(a) == Credited(r, a)
           paid(a) == PaidByRun(advances[a], x(a))
<1>1. /\ advances' = [a \in AdvanceIds |-> IF x(a) > 0 THEN paid(a) ELSE advances[a]]
      /\ AdvancesProper /\ \A w \in Workers : r.withheld[w] \in Nat
  BY DEF PostRun, PayrollInv, RunsProper, ProperRun
<1>2. \A w \in Workers : /\ \A a \in AdvanceIds : CreditsOf(r, w)[a] \in Nat
                         /\ \A a \in ActiveOf(w) : x(a) <= advances[a].amount - advances[a].paid
  BY <1>1, CreditsAreCovered DEF AdvancesProper
<1>3. ASSUME NEW a \in AdvanceIds
      PROVE  /\ ProperAdvance(advances'[a]) /\ advances'[a].worker = advances[a].worker
             /\ x(a) \in Nat /\ advances'[a].byPayroll = advances[a].byPayroll + x(a)
             /\ advances[a].status # "ACTIVE" => x(a) = 0
  <2> DEFINE adv == advances[a]
  <2>1. ProperAdvance(adv) /\ adv.worker \in Workers /\ adv.byPayroll \in Nat
    BY <1>1 DEF AdvancesProper, ProperAdvance
  <2>2. CASE adv.status # "ACTIVE"
    <3>1. x(a) = 0
      BY <2>2 DEF Credited
    <3> HIDE DEF x
    <3>2. advances'[a] = adv
      BY <1>1, <3>1
    <3> QED
      BY <2>1, <2>2, <3>1, <3>2
  <2>3. CASE adv.status = "ACTIVE"
    <3>1. a \in ActiveOf(adv.worker)
      BY <2>3 DEF ActiveOf
    <3>2. x(a) \in Nat /\ x(a) <= adv.amount - adv.paid
      <4>1. CreditsOf(r, adv.worker)[a] = x(a)
        BY <3>1 DEF CreditsOf
      <4> QED
        BY <1>2, <2>1, <3>1, <4>1
    <3> DEFINE n == x(a)
    <3>3. CASE n = 0
      <4>1. advances'[a] = adv
        BY <1>1, <3>3
      <4> QED
        BY <2>1, <2>3, <3>3, <4>1
    <3>4. CASE n # 0
      <4>1. advances'[a] = PaidByRun(adv, n)
        BY <1>1, <3>2, <3>4
      <4>2. n \in Nat \ {0} /\ n <= adv.amount - adv.paid
        BY <3>2, <3>4
      <4>3. adv.amount \in Nat /\ adv.paid \in Nat /\ adv.status = "ACTIVE" /\ ProperAdvance(adv)
        BY <2>1, <2>3 DEF ProperAdvance
      <4> HIDE DEF n, adv
      <4>4. n <= adv.amount - adv.paid + 1
        BY <4>2, <4>3
      <4>5. /\ ProperAdvance(PaidByRun(adv, n))
            /\ PaidByRun(adv, n).byPayroll = adv.byPayroll + n
            /\ PaidByRun(adv, n).worker = adv.worker
        BY <4>2, <4>3, <4>4, PaymentsKeep
      <4> QED
        BY <2>3, <4>1, <4>2, <4>5 DEF n, adv
    <3> QED
      BY <3>3, <3>4
  <2> QED
    BY <2>2, <2>3
<1>4. AdvancesProper'
  BY <1>3 DEF AdvancesProper
<1>5. ASSUME NEW w \in Workers, NEW a \in AdvanceIds
      PROVE  AllCredited(w)'[a] = AllCredited(w)[a] + CreditsOf(r, w)[a]
  <2>1. /\ AllCredited(w)[a] = IF advances[a].worker = w THEN advances[a].byPayroll ELSE 0
        /\ AllCredited(w)'[a] = IF advances'[a].worker = w THEN advances'[a].byPayroll ELSE 0
    BY DEF AllCredited
  <2>2. CreditsOf(r, w)[a] = IF advances[a].worker = w THEN x(a) ELSE 0
    BY <1>3 DEF CreditsOf, ActiveOf
  <2> HIDE DEF x
  <2>3. advances[a].byPayroll \in Nat
    BY <1>1 DEF AdvancesProper, ProperAdvance
  <2> QED
    BY <1>3, <2>1, <2>2, <2>3
<1> HIDE DEF x
<1>6. advances' = [a \in AdvanceIds |-> advances'[a]]
  BY <1>1
<1> QED
  BY <1>2, <1>4, <1>5, <1>6

LEMMA PostRunKeeps ==
  ASSUME PayrollInv, NEW m \in PayMonths, PostRun(m)
  PROVE  PayrollInv'
<1> DEFINE P == PostedMonths
           n == Cardinality(P)
<1>1. /\ runs' = [k \in PayMonths |-> IF k = m THEN [runs[m] EXCEPT !.status = "POSTED"] ELSE runs[k]]
      /\ runs[m].status = "APPROVED" /\ RunsProper /\ AdvancesProper /\ Covered
      /\ UNCHANGED affairs
  BY DEF PostRun, PayrollInv
<1>2. /\ RunsProper' /\ runs'[m].status = "POSTED"
      /\ \A k \in PayMonths : runs'[k].withheld = runs[k].withheld
  <2>1. ASSUME NEW k \in PayMonths
        PROVE  ProperRun(runs'[k]) /\ runs'[k].withheld = runs[k].withheld
    <3>1. ProperRun(runs[k])
      BY <1>1 DEF RunsProper
    <3>2. CASE k = m
      <4>1. runs'[k] = [runs[k] EXCEPT !.status = "POSTED"]
        BY <1>1, <3>2
      <4>2. /\ runs'[k] \in [status: {"NONE", "DRAFT", "APPROVED", "POSTED"}, base: RunParts,
                             bonus: RunParts, deduction: RunParts, withheld: RunParts, net: RunParts]
            /\ runs'[k].base = runs[k].base /\ runs'[k].bonus = runs[k].bonus
            /\ runs'[k].deduction = runs[k].deduction /\ runs'[k].net = runs[k].net
            /\ runs'[k].withheld = runs[k].withheld
        BY <3>1, <4>1 DEF ProperRun
      <4> QED
        BY <3>1, <4>2 DEF ProperRun
    <3>3. CASE k # m
      BY <1>1, <3>1, <3>3
    <3> QED
      BY <3>2, <3>3
  <2>2. runs'[m].status = "POSTED"
    <3>1. runs[m] \in [status: {"NONE", "DRAFT", "APPROVED", "POSTED"}, base: RunParts,
                      bonus: RunParts, deduction: RunParts, withheld: RunParts, net: RunParts]
      BY <1>1 DEF RunsProper, ProperRun
    <3> QED
      BY <1>1, <3>1
  <2> QED
    BY <2>1, <2>2 DEF RunsProper
<1>3. P' = P \union {m} /\ m \notin P
  BY <1>1, <1>2 DEF PostedMonths
<1>4. WithheldFacts /\ WithheldFacts' /\ CreditedFacts
  BY <1>1, <1>2, MonthsWithheld, CreditedOverAll, FactsNext
<1>5. /\ advances' = [a \in AdvanceIds |-> advances'[a]] /\ AdvancesProper'
      /\ \A w \in Workers, a \in AdvanceIds :
           /\ CreditsOf(runs[m], w)[a] \in Nat
           /\ AllCredited(w)'[a] = AllCredited(w)[a] + CreditsOf(runs[m], w)[a]
  BY AdvancesArePaid
<1>6. CreditedFacts'
  BY <1>5, FactsNext
<1>7. n \in Nat /\ Cardinality(P') = n + 1 /\ IsFiniteSet(P)
  BY <1>3, <1>4, FS_AddElement DEF WithheldFacts
<1>8. ASSUME NEW w \in Workers
      PROVE  CreditedTo(w)' <= WithheldFrom(w)' + 5 * MaxAdvances * (n + 1)
  <2> DEFINE f == AllCredited(w)
             g == AllCredited(w)'
             c == CreditsOf(runs[m], w)
             h == runs[m].withheld[w]
             u == Withheld(w)
             v == Withheld(w)'
  <2>1. \A a \in AdvanceIds : f[a] \in Int /\ c[a] \in Int /\ g[a] = f[a] + c[a]
    BY <1>4, <1>5 DEF CreditedFacts
  <2>2. CreditedTo(w) = SumOver(f, AdvanceIds) /\ CreditedTo(w)' = SumOver(g, AdvanceIds)
    BY <1>4, <1>6 DEF CreditedFacts
  <2>3. WithheldFrom(w) = SumOver(u, P) /\ WithheldFrom(w)' = SumOver(v, P \union {m})
    BY <1>3, <1>4 DEF WithheldFacts
  <2>4. /\ \A k \in PayMonths : u[k] \in Int /\ v[k] = u[k]
        /\ u[m] = h /\ P \subseteq PayMonths
    <3>1. /\ \A k \in PayMonths : u[k] \in Nat
          /\ P \subseteq PayMonths
      BY <1>4 DEF WithheldFacts
    <3>2. (\A k \in PayMonths : v[k] = u[k]) /\ u[m] = h
      BY <1>2 DEF Withheld
    <3> QED
      BY <3>1, <3>2
  <2>5. h \in Nat
    BY <1>1 DEF RunsProper, ProperRun
  <2>6. SumOver(c, AdvanceIds) <= h + 5 * MaxAdvances
    BY <1>1, <2>5, CreditsAreCovered DEF AdvancesProper
  <2>7. CreditedTo(w) <= WithheldFrom(w) + 5 * MaxAdvances * n
    BY <1>1 DEF Covered
  <2> HIDE DEF f, g, c, h, u, v, P
  <2>8. /\ SumOver(g, AdvanceIds) = SumOver(f, AdvanceIds) + SumOver(c, AdvanceIds)
        /\ SumOver(f, AdvanceIds) \in Int /\ SumOver(c, AdvanceIds) \in Int
    <3>1. IsFiniteSet(AdvanceIds)
      BY IdsAndMonths
    <3>2. SumOver(f, AdvanceIds) \in Int /\ SumOver(c, AdvanceIds) \in Int
      BY <2>1, <3>1, SumType
    <3>3. SumOver(g, AdvanceIds) = SumOver(f, AdvanceIds) + SumOver(c, AdvanceIds)
      BY <2>1, <3>1, SumAdd
    <3> QED
      BY <3>2, <3>3
  <2>9. SumOver(v, P \union {m}) = h + SumOver(u, P) /\ SumOver(u, P) \in Int
    <3>1. IsFiniteSet(P \union {m}) /\ (P \union {m}) \ {m} = P
      BY <1>3, <1>7, FS_AddElement
    <3>2. \A k \in P \union {m} : v[k] \in Int
      BY <2>4
    <3>3. SumOver(v, P \union {m}) = v[m] + SumOver(v, (P \union {m}) \ {m})
      BY <3>1, <3>2, SumRemove
    <3>4. SumOver(v, P) = SumOver(u, P)
      BY <1>7, <2>4, SumSame
    <3>5. SumOver(u, P) \in Int
      BY <1>7, <2>4, SumType
    <3> QED
      BY <2>4, <3>1, <3>3, <3>4, <3>5
  <2> DEFINE before == SumOver(f, AdvanceIds)
             more == SumOver(c, AdvanceIds)
             had == SumOver(u, P)
             bound == 5 * MaxAdvances
  <2>10. bound \in Int /\ 5 * MaxAdvances * (n + 1) = bound * n + bound /\ bound * n \in Int
    BY <1>7, IdsAndMonths
  <2>11. /\ before <= had + bound * n /\ more <= h + bound
         /\ before \in Int /\ more \in Int /\ had \in Int
    BY <2>2, <2>3, <2>6, <2>7, <2>8, <2>9
  <2>12. CreditedTo(w)' = before + more /\ WithheldFrom(w)' = h + had
    BY <2>2, <2>3, <2>8, <2>9
  <2> DEFINE rest == bound * n
  <2> HIDE DEF before, more, had, n
  <2>13. before + more <= (h + had) + (rest + bound)
    <3> HIDE DEF rest, bound
    <3> QED
      BY <2>5, <2>10, <2>11 DEF rest
  <2> QED
    BY <2>10, <2>12, <2>13
<1>9. Covered'
  BY <1>7, <1>8 DEF Covered
<1>10. runs' = [k \in PayMonths |-> runs'[k]]
  BY <1>1
<1> QED
  BY <1>1, <1>2, <1>5, <1>9, <1>10 DEF PayrollInv

-----------------------------------------------------------------------------
LEMMA MonthStepKeeps ==
  ASSUME PayrollInv, NEW m \in PayMonths, MonthStep(m)
  PROVE  PayrollInv'
<1>1. AdvancesProper /\ ProperRun(runs[m])
  BY DEF PayrollInv, RunsProper
<1>2. CASE GenerateRun(m)
  <2>1. ProperRun(DraftRun(m)) /\ DraftRun(m).status = "DRAFT"
    BY <1>1, DraftsAreProper DEF AdvancesProper
  <2>2. /\ runs[m].status # "POSTED" /\ runs' = [runs EXCEPT ![m] = DraftRun(m)]
        /\ UNCHANGED <<advances, affairs>>
    BY <1>2 DEF GenerateRun
  <2> DEFINE r == DraftRun(m)
  <2> HIDE DEF r
  <2>3. ProperRun(r) /\ r.status # "POSTED" /\ runs' = [runs EXCEPT ![m] = r]
    BY <2>1, <2>2 DEF r
  <2> QED
    BY <2>2, <2>3, UnpostedRunChanges
<1>3. CASE ApproveRun(m)
  <2> DEFINE r == [runs[m] EXCEPT !.status = "APPROVED"]
  <2>1. /\ runs[m].status # "POSTED" /\ runs' = [runs EXCEPT ![m] = r]
        /\ UNCHANGED <<advances, affairs>>
    BY <1>3 DEF ApproveRun
  <2>2. /\ r \in [status: {"NONE", "DRAFT", "APPROVED", "POSTED"}, base: RunParts,
                  bonus: RunParts, deduction: RunParts, withheld: RunParts, net: RunParts]
        /\ r.base = runs[m].base /\ r.bonus = runs[m].bonus /\ r.net = runs[m].net
        /\ r.deduction = runs[m].deduction /\ r.withheld = runs[m].withheld
        /\ r.status = "APPROVED"
    BY <1>1 DEF ProperRun
  <2> HIDE DEF r
  <2>3. ProperRun(r)
    BY <1>1, <2>2 DEF ProperRun
  <2> QED
    BY <2>1, <2>2, <2>3, UnpostedRunChanges
<1>4. CASE DeleteDraftRun(m)
  <2>1. /\ runs[m].status # "POSTED" /\ runs' = [runs EXCEPT ![m] = NoRun]
        /\ UNCHANGED <<advances, affairs>>
    BY <1>4 DEF DeleteDraftRun
  <2>2. NoRun.status # "POSTED"
    BY DEF NoRun
  <2> QED
    BY <2>1, <2>2, NoRunIsProper, UnpostedRunChanges
<1>5. CASE PostRun(m)
  BY <1>5, PostRunKeeps
<1> QED
  BY <1>2, <1>3, <1>4, <1>5 DEF MonthStep

LEMMA AdvanceStepKeeps ==
  ASSUME PayrollInv, AdvanceStep
  PROVE  PayrollInv'
<1>1. \A a \in AdvanceIds : ProperAdvance(advances[a])
  BY DEF PayrollInv, AdvancesProper
<1>2. ASSUME NEW c \in Contracts, AddAdvance(c) PROVE PayrollInv'
  <2> DEFINE adv == [NoAdvance EXCEPT !.status = "ACTIVE", !.worker = c.worker,
                                      !.amount = c.amount, !.instalment = c.instalment]
  <2>1. PICK a \in AdvanceIds : /\ advances[a].status = "ABSENT"
                                /\ advances' = [advances EXCEPT ![a] = adv]
    BY <1>2 DEF AddAdvance
  <2>2. UNCHANGED <<affairs, runs>>
    BY <1>2 DEF AddAdvance
  <2>3. c.worker \in Workers /\ c.amount \in Nat \ {0} /\ c.instalment \in Nat
    BY PayrollAssumption
  <2>4. /\ NoAdvance \in [status: AdvanceStatuses, worker: Workers, amount: Nat, instalment: Nat,
                          paid: Nat, byPayroll: Nat, byCash: Nat]
        /\ NoAdvance.paid = 0 /\ NoAdvance.byPayroll = 0 /\ NoAdvance.byCash = 0
    BY NoAdvanceIsProper DEF ProperAdvance, NoAdvance
  <2>7. /\ adv \in [status: AdvanceStatuses, worker: Workers, amount: Nat, instalment: Nat,
                    paid: Nat, byPayroll: Nat, byCash: Nat]
        /\ adv.status = "ACTIVE" /\ adv.amount = c.amount
        /\ adv.paid = 0 /\ adv.byPayroll = 0 /\ adv.byCash = 0
    BY <2>3, <2>4 DEF AdvanceStatuses
  <2> HIDE DEF adv
  <2>5. ProperAdvance(adv) /\ adv.byPayroll = 0
    BY <2>3, <2>7 DEF ProperAdvance
  <2>6. advances[a].byPayroll = 0
    BY <1>1, <2>1 DEF ProperAdvance
  <2> QED
    BY <2>1, <2>2, <2>5, <2>6, OneAdvanceChanges
<1>3. ASSUME NEW a \in AdvanceIds, DeleteAdvance(a) PROVE PayrollInv'
  <2> DEFINE adv == [advances[a] EXCEPT !.status = "DELETED"]
  <2>1. advances' = [advances EXCEPT ![a] = adv] /\ UNCHANGED <<affairs, runs>>
    BY <1>3 DEF DeleteAdvance
  <2>2. ProperAdvance(advances[a])
    BY <1>1
  <2>3. /\ adv \in [status: AdvanceStatuses, worker: Workers, amount: Nat, instalment: Nat,
                    paid: Nat, byPayroll: Nat, byCash: Nat]
        /\ adv.status = "DELETED" /\ adv.amount = advances[a].amount
        /\ adv.paid = advances[a].paid /\ adv.byPayroll = advances[a].byPayroll
        /\ adv.byCash = advances[a].byCash /\ adv.worker = advances[a].worker
    BY <2>2 DEF ProperAdvance, AdvanceStatuses
  <2> HIDE DEF adv
  <2>4. ProperAdvance(adv)
    BY <2>2, <2>3 DEF ProperAdvance
  <2> QED
    BY <2>1, <2>3, <2>4, OneAdvanceChanges
<1>4. ASSUME NEW a \in AdvanceIds, NEW x \in CashAmounts, PayInstallment(a, x) PROVE PayrollInv'
  <2> DEFINE adv == PaidInCash(advances[a], x)
  <2>1. /\ advances' = [advances EXCEPT ![a] = adv]
        /\ UNCHANGED <<affairs, runs>> /\ advances[a].status = "ACTIVE"
        /\ x <= advances[a].amount - advances[a].paid + 1 /\ x \in Nat \ {0}
    BY <1>4, PayrollAssumption DEF PayInstallment
  <2>2. ProperAdvance(advances[a])
    BY <1>1
  <2>3. /\ ProperAdvance(adv) /\ adv.byPayroll = advances[a].byPayroll
        /\ adv.worker = advances[a].worker
    BY <2>1, <2>2, PaymentsKeep
  <2> HIDE DEF adv
  <2> QED
    BY <2>1, <2>3, OneAdvanceChanges
<1> QED
  BY <1>2, <1>3, <1>4 DEF AdvanceStep

LEMMA AffairStepKeeps ==
  ASSUME PayrollInv, AffairStep
  PROVE  PayrollInv'
<1>1. /\ affairs' \in [AffairForms -> {"ABSENT", "PENDING", "APPROVED", "REJECTED"}]
      /\ UNCHANGED <<advances, runs>>
  BY DEF PayrollInv, AffairStep, AddAffair, DecideAffair, DeleteAffair
<1>2. Covered' = Covered
  BY <1>1 DEF Covered, CreditedTo, WithheldFrom, PostedMonths
<1> QED
  BY <1>1, <1>2 DEF PayrollInv, AdvancesProper, RunsProper

LEMMA PayrollInitKeeps == PayrollInit => PayrollInv
<1> SUFFICES ASSUME PayrollInit PROVE PayrollInv
  OBVIOUS
<1>1. /\ \A a \in AdvanceIds : advances[a] = NoAdvance
      /\ \A m \in PayMonths : runs[m] = NoRun
      /\ advances = [a \in AdvanceIds |-> advances[a]]
      /\ runs = [m \in PayMonths |-> runs[m]]
      /\ affairs \in [AffairForms -> {"ABSENT", "PENDING", "APPROVED", "REJECTED"}]
  BY DEF PayrollInit
<1>2. AdvancesProper /\ RunsProper
  BY <1>1, NoAdvanceIsProper, NoRunIsProper DEF AdvancesProper, RunsProper
<1>3. CreditedFacts /\ WithheldFacts
  BY <1>2, CreditedOverAll, MonthsWithheld
<1>4. ASSUME NEW w \in Workers
      PROVE  CreditedTo(w) <= WithheldFrom(w) + 5 * MaxAdvances * Cardinality(PostedMonths)
  <2>1. CreditedTo(w) = 0
    <3> DEFINE f == AllCredited(w)
    <3>1. \A a \in AdvanceIds : f[a] = 0
      BY <1>1, NoAdvanceIsProper DEF AllCredited
    <3>2. CreditedTo(w) = SumOver(f, AdvanceIds)
      BY <1>3 DEF CreditedFacts
    <3> HIDE DEF f
    <3> QED
      BY <3>1, <3>2, IdsAndMonths, SumZero
  <2>2. PostedMonths = {}
    BY <1>1 DEF PostedMonths, NoRun
  <2>3. Cardinality(PostedMonths) = 0
    BY <2>2, FS_EmptySet
  <2>4. WithheldFrom(w) = 0
    <3>1. WithheldFrom(w) = SumOver(Withheld(w), {})
      BY <1>3, <2>2 DEF WithheldFacts
    <3>2. SumOver(Withheld(w), {}) = 0
      BY FS_EmptySet, SumZero
    <3> QED
      BY <3>1, <3>2
  <2> QED
    BY <2>1, <2>3, <2>4, IdsAndMonths
<1>5. Covered
  BY <1>4 DEF Covered
<1> QED
  BY <1>1, <1>2, <1>5 DEF PayrollInv

LEMMA PayrollNextKeeps ==
  ASSUME PayrollInv, [PayrollNext]_payrollVars
  PROVE  PayrollInv'
<1>1. CASE \E m \in PayMonths : MonthStep(m)
  BY <1>1, MonthStepKeeps
<1>2. CASE AdvanceStep
  BY <1>2, AdvanceStepKeeps
<1>3. CASE AffairStep
  BY <1>3, AffairStepKeeps
<1>4. CASE UNCHANGED payrollVars
  BY <1>4 DEF payrollVars, PayrollInv, AdvancesProper, RunsProper, Covered, CreditedTo,
              WithheldFrom, PostedMonths
<1> QED
  BY <1>1, <1>2, <1>3, <1>4 DEF PayrollNext

LEMMA PayrollInvHolds == PayrollSpec => []PayrollInv
<1>1. PayrollInv /\ [PayrollNext]_payrollVars => PayrollInv'
  BY PayrollNextKeeps
<1> QED
  BY <1>1, PayrollInitKeeps, PTL DEF PayrollSpec

LEMMA PayrollInvGives == PayrollInv => PayrollTypeOK /\ PayrollReconciles
<1> SUFFICES ASSUME PayrollInv PROVE PayrollTypeOK /\ PayrollReconciles
  OBVIOUS
<1>1. AdvancesProper /\ RunsProper /\ Covered
  BY DEF PayrollInv
<1>2. PayrollTypeOK
  BY DEF PayrollInv, AdvancesProper, RunsProper, ProperAdvance, ProperRun, PayrollTypeOK
<1>3. AdvancesAddUp
  BY <1>1 DEF AdvancesProper, ProperAdvance, AdvancesAddUp
<1>4. LinesAlmostBalance
  BY <1>1 DEF RunsProper, ProperRun, LinesAlmostBalance
<1>5. CreditedAtMostWithheld
  <2>1. CreditedFacts /\ WithheldFacts
    BY <1>1, CreditedOverAll, MonthsWithheld
  <2> SUFFICES ASSUME NEW w \in Workers
               PROVE  CreditedTo(w) <= WithheldFrom(w) + 5 * MaxAdvances * Cardinality(PayMonths)
    BY DEF CreditedAtMostWithheld
  <2> DEFINE k == Cardinality(PostedMonths)
             n == Cardinality(PayMonths)
             c == CreditedTo(w)
             h == WithheldFrom(w)
  <2>2. /\ k \in Nat /\ n \in Nat /\ k <= n /\ c \in Int /\ h \in Int
        /\ c <= h + 5 * MaxAdvances * k /\ MaxAdvances \in Nat
    BY <1>1, <2>1, IdsAndMonths DEF WithheldFacts, CreditedFacts, Covered
  <2> HIDE DEF k, n, c, h
  <2>3. 5 * MaxAdvances * n = 5 * MaxAdvances * k + 5 * MaxAdvances * (n - k)
    BY <2>2
  <2>4. 5 * MaxAdvances * (n - k) >= 0 /\ 5 * MaxAdvances * k \in Int
    BY <2>2
  <2>5. c <= h + 5 * MaxAdvances * n
    BY <2>2, <2>3, <2>4
  <2> QED
    BY <2>5 DEF c, h, n
<1> QED
  BY <1>2, <1>3, <1>4, <1>5 DEF PayrollReconciles

(* For any workers, salaries, contracts and months: an advance and its       *)
(* payments agree whatever order the runs of several months and the cash     *)
(* instalments come in, no run credits more than it withheld but for the     *)
(* rounding of the rest, and the parts of every line differ from its net by  *)
(* a piaster at most (generateRun, postRun, payInstallment).                 *)
THEOREM PayrollIsSound == PayrollSpec => [](PayrollTypeOK /\ PayrollReconciles)
BY PayrollInvHolds, PayrollInvGives, PTL

-----------------------------------------------------------------------------
(* A batch is committed month by month.                                      *)
ImportedEntry == [month: SheetMonths, loan: Nat, status: {"DRAFT", "POSTED", "REVERSED"},
                  marked: BOOLEAN, inMemory: BOOLEAN, stored: BOOLEAN, session: Nat]
LoanStates == [status: {"ABSENT", "ACTIVE", "SETTLED"}, paid: Nat]

Books == [refused: BOOLEAN, imported: Seq(ImportedEntry), filed: [SheetMonths -> Nat],
          loans: [LoanIds -> LoanStates]]

LEMMA GrantedFacts ==
  /\ Len(Granted) \in Nat /\ LoanIds = 1..Len(Granted)
  /\ \A a \in LoanIds : Granted[a] \in Nat \ {0}
BY PayrollImportAssumption DEF LoanIds

LEMMA LoanIdsFinite == IsFiniteSet(LoanIds)
<1> DEFINE n == Len(Granted)
<1>1. n \in Nat /\ LoanIds = 1..n
  BY GrantedFacts
<1> HIDE DEF n
<1>2. IsFiniteSet(1..n)
  BY <1>1, FS_Interval
<1> QED
  BY <1>1, <1>2

LEMMA SheetFacts ==
  ASSUME NEW batch \in Batches
  PROVE  /\ Len(batch) \in Nat /\ DOMAIN batch = 1..Len(batch)
         /\ \A i \in 1..Len(batch) :
              batch[i].month \in SheetMonths /\ batch[i].loan \in Nat /\ batch[i].sound \in BOOLEAN
<1>1. batch \in Seq([month: Nat, loan: Nat, sound: BOOLEAN])
  BY PayrollImportAssumption
<1>2. \A i \in 1..Len(batch) : batch[i] \in Range(batch)
  BY <1>1 DEF Range
<1>3. \A i \in 1..Len(batch) : batch[i].month \in SheetMonths
  BY <1>2 DEF SheetMonths
<1> DEFINE n == Len(batch)
           S == [month: Nat, loan: Nat, sound: BOOLEAN]
<1>3a. \A s \in S : s.loan \in Nat /\ s.sound \in BOOLEAN
  OBVIOUS
<1>4. n \in Nat /\ DOMAIN batch = 1..n /\ \A i \in 1..n : batch[i] \in S
  <2> HIDE DEF S
  <2>1. batch \in Seq(S)
    BY <1>1 DEF S
  <2> QED
    BY <2>1
<1> HIDE DEF n, S
<1>5. \A i \in 1..n : batch[i].loan \in Nat /\ batch[i].sound \in BOOLEAN
  BY <1>3a, <1>4
<1> QED
  BY <1>3, <1>4, <1>5 DEF n

(* What the newest active advance receives: nothing, or due.                 *)
DueOf(ls, a, x) == SmallerOf(x, Granted[a] - ls[a].paid)

LEMMA DeductedFacts ==
  ASSUME NEW ls \in [LoanIds -> LoanStates], NEW x \in Nat
  PROVE  \/ Deducted(ls, x) = ls
         \/ \E a \in LoanIds :
              /\ ls[a].status = "ACTIVE" /\ DueOf(ls, a, x) > 1
              /\ DueOf(ls, a, x) \in Nat /\ DueOf(ls, a, x) <= x
              /\ ls[a].paid + DueOf(ls, a, x) <= Granted[a]
              /\ Deducted(ls, x) =
                   [ls EXCEPT ![a] = [status |-> IF ls[a].paid + DueOf(ls, a, x) >= Granted[a] - 1
                                                 THEN "SETTLED" ELSE "ACTIVE",
                                      paid   |-> ls[a].paid + DueOf(ls, a, x)]]
<1> DEFINE active == {a \in LoanIds : ls[a].status = "ACTIVE"}
           b == Max(active)
<1>1. CASE x <= 0 \/ active = {}
  BY <1>1 DEF Deducted
<1>2. CASE ~(x <= 0 \/ active = {}) /\ DueOf(ls, b, x) <= 1
  BY <1>2 DEF Deducted, DueOf
<1>3. CASE ~(x <= 0 \/ active = {}) /\ ~(DueOf(ls, b, x) <= 1)
  <2>1. b \in active
    <3>1. Len(Granted) \in Nat /\ active \in SUBSET (1..Len(Granted)) /\ active # {}
      BY <1>3, GrantedFacts
    <3> HIDE DEF active
    <3> QED
      BY <3>1, MaxOf
  <2>2. Deducted(ls, x) =
          [ls EXCEPT ![b] = [status |-> IF ls[b].paid + DueOf(ls, b, x) >= Granted[b] - 1
                                        THEN "SETTLED" ELSE "ACTIVE",
                             paid   |-> ls[b].paid + DueOf(ls, b, x)]]
    BY <1>3 DEF Deducted, DueOf
  <2>3. b \in LoanIds /\ ls[b].status = "ACTIVE"
    BY <2>1
  <2> HIDE DEF b
  <2>4. ls[b].paid \in Nat /\ Granted[b] \in Nat
    BY <2>3, GrantedFacts DEF LoanStates
  <2>5. /\ DueOf(ls, b, x) > 1 /\ DueOf(ls, b, x) \in Nat /\ DueOf(ls, b, x) <= x
        /\ ls[b].paid + DueOf(ls, b, x) <= Granted[b]
    BY <1>3, <2>4 DEF DueOf, SmallerOf
  <2> QED
    BY <2>2, <2>3, <2>5
<1> QED
  BY <1>1, <1>2, <1>3

LEMMA DeductedType ==
  ASSUME NEW ls \in [LoanIds -> LoanStates], NEW x \in Nat
  PROVE  Deducted(ls, x) \in [LoanIds -> LoanStates]
<1>1. CASE Deducted(ls, x) = ls
  BY <1>1
<1>2. CASE Deducted(ls, x) # ls
  <2>1. PICK a \in LoanIds :
          /\ DueOf(ls, a, x) \in Nat
          /\ Deducted(ls, x) =
               [ls EXCEPT ![a] = [status |-> IF ls[a].paid + DueOf(ls, a, x) >= Granted[a] - 1
                                             THEN "SETTLED" ELSE "ACTIVE",
                                  paid   |-> ls[a].paid + DueOf(ls, a, x)]]
    BY <1>2, DeductedFacts
  <2>2. ls[a].paid + DueOf(ls, a, x) \in Nat
    BY <2>1 DEF LoanStates
  <2> QED
    BY <2>1, <2>2 DEF LoanStates
<1> QED
  BY <1>1, <1>2

LEMMA CommitMonthType ==
  ASSUME restarted \in Nat, NEW book \in Books, NEW sheet,
         sheet.month \in SheetMonths, sheet.loan \in Nat, sheet.sound \in BOOLEAN
  PROVE  CommitMonth(book, sheet) \in Books
<1>1. CASE book.refused \/ Entered(book.imported, sheet.month)
  BY <1>1 DEF CommitMonth
<1>2. CASE ~(book.refused \/ Entered(book.imported, sheet.month)) /\ ~sheet.sound
  <2>1. CommitMonth(book, sheet) = [book EXCEPT !.refused = TRUE]
    BY <1>2 DEF CommitMonth
  <2> QED
    BY <2>1 DEF Books
<1>3. CASE ~(book.refused \/ Entered(book.imported, sheet.month)) /\ sheet.sound
  <2>1. CommitMonth(book, sheet) =
          [refused  |-> FALSE,
           imported |-> Append(book.imported, NewImport(sheet)),
           filed    |-> [book.filed EXCEPT ![sheet.month] = @ + 1],
           loans    |-> Deducted(book.loans, sheet.loan)]
    BY <1>3 DEF CommitMonth
  <2>2. /\ book.imported \in Seq(ImportedEntry) /\ book.filed \in [SheetMonths -> Nat]
        /\ book.loans \in [LoanIds -> LoanStates]
    BY DEF Books
  <2>3. NewImport(sheet) \in ImportedEntry
    BY DEF NewImport, ImportedEntry
  <2>4. Append(book.imported, NewImport(sheet)) \in Seq(ImportedEntry)
    BY <2>2, <2>3
  <2>5. Deducted(book.loans, sheet.loan) \in [LoanIds -> LoanStates]
    BY <2>2, DeductedType
  <2>6. [book.filed EXCEPT ![sheet.month] = @ + 1] \in [SheetMonths -> Nat]
    BY <2>2
  <2> QED
    BY <2>1, <2>4, <2>5, <2>6 DEF Books
<1> QED
  BY <1>1, <1>2, <1>3

CommitsUp(h, base, batch) ==
    h = [s \in SUBSET DOMAIN batch |->
           IF s = {} THEN base
           ELSE LET x == Max(s) IN CommitMonth(h[s \ {x}], batch[x])]

LEMMA CommitUnfolds ==
  ASSUME NEW base, NEW batch, \E h : CommitsUp(h, base, batch)
  PROVE  \E h : CommitsUp(h, base, batch) /\ FoldLeft(CommitMonth, base, batch) = h[DOMAIN batch]
<1> DEFINE g == CHOOSE h : CommitsUp(h, base, batch)
<1>1. CommitsUp(g, base, batch)
  OBVIOUS
<1>2. FoldLeft(CommitMonth, base, batch) = g[DOMAIN batch]
  BY DEF FoldLeft, MapThenFoldSet, CommitsUp
<1> QED
  BY <1>1, <1>2

CommitsByPrefix(g, base, batch) ==
    /\ g[0] = base /\ FoldLeft(CommitMonth, base, batch) = g[Len(batch)]
    /\ \A i \in 1..Len(batch) : g[i] = CommitMonth(g[i - 1], batch[i])

LEMMA CommitStepByStep ==
  ASSUME restarted \in Nat, NEW batch \in Batches, NEW base \in Books
  PROVE  \E g : CommitsByPrefix(g, base, batch)
<1> DEFINE n == Len(batch)
           step == [p \in (1..n) \X Books |-> CommitMonth(p[2], batch[p[1]])]
<1>1. /\ n \in Nat /\ DOMAIN batch = 1..n
      /\ \A i \in 1..n : batch[i].month \in SheetMonths /\ batch[i].loan \in Nat
                         /\ batch[i].sound \in BOOLEAN
  BY SheetFacts
<1> HIDE DEF n
<1>2. step \in [(1..n) \X Books -> Books]
  <2>1. \A i \in 1..n, b \in Books : CommitMonth(b, batch[i]) \in Books
    BY <1>1, CommitMonthType
  <2> QED
    BY <2>1
<1>3. \A i \in 1..n, b \in Books : step[<<i, b>>] = CommitMonth(b, batch[i])
  OBVIOUS
<1> HIDE DEF step
<1>4. PICK k \in [SUBSET (1..n) -> Books] : FoldsUp(k, step, base, n)
  BY <1>1, <1>2, FoldExists
<1>5. CommitsUp(k, base, batch)
  <2>1. \A s \in SUBSET (1..n) : s # {} => Max(s) \in 1..n /\ k[s \ {Max(s)}] \in Books
    BY <1>1, <1>4, MaxOf
  <2>2. \A s \in SUBSET (1..n) :
          s # {} => step[<<Max(s), k[s \ {Max(s)}]>>] = CommitMonth(k[s \ {Max(s)}], batch[Max(s)])
    BY <1>3, <2>1
  <2>3. k = [s \in SUBSET (1..n) |-> IF s = {} THEN base ELSE step[<<Max(s), k[s \ {Max(s)}]>>]]
    BY <1>4 DEF FoldsUp
  <2>4. \A s \in SUBSET (1..n) :
          k[s] = IF s = {} THEN base ELSE CommitMonth(k[s \ {Max(s)}], batch[Max(s)])
    BY <2>2, <2>3
  <2>5. k = [s \in SUBSET (1..n) |-> k[s]]
    BY <1>4
  <2> QED
    BY <1>1, <2>4, <2>5 DEF CommitsUp
<1>6. PICK h : CommitsUp(h, base, batch) /\ FoldLeft(CommitMonth, base, batch) = h[1..n]
  BY <1>1, <1>5, CommitUnfolds
<1>7. \A s \in SUBSET (1..n) :
        h[s] = IF s = {} THEN base ELSE CommitMonth(h[s \ {Max(s)}], batch[Max(s)])
  BY <1>1, <1>6 DEF CommitsUp
<1> DEFINE g == [i \in 0..n |-> h[1..i]]
<1>8. /\ 1..0 = {} /\ {} \in SUBSET (1..n)
      /\ \A i \in 1..n : /\ 1..i \in SUBSET (1..n) /\ 1..i # {} /\ i - 1 \in 0..n /\ i \in 0..n
                         /\ Max(1..i) = i /\ (1..i) \ {i} = 1..(i - 1)
  BY <1>1, PrefixFacts
<1>9. g[0] = base /\ g[n] = h[1..n]
  <2>1. 0 \in 0..n /\ n \in 0..n
    BY <1>1
  <2> QED
    BY <1>7, <1>8, <2>1
<1>10. ASSUME NEW i \in 1..n PROVE g[i] = CommitMonth(g[i - 1], batch[i])
  <2>1. h[1..i] = CommitMonth(h[1..(i - 1)], batch[i])
    BY <1>7, <1>8
  <2> QED
    BY <1>8, <2>1
<1> HIDE DEF g
<1> QED
  BY <1>6, <1>9, <1>10 DEF n, CommitsByPrefix

-----------------------------------------------------------------------------
(* The inductive invariant. Of the entries in memory that carry a mark there *)
(* is one for each month; what is stored and posted was posted in its batch, *)
(* so that there is one for each month and session as well.                  *)
Live(e)  == e.inMemory /\ e.marked
Final(e) == e.stored /\ e.status = "POSTED"

EntriesOk(es, r) ==
    /\ es \in Seq(ImportedEntry)
    /\ \A i, j \in DOMAIN es : Live(es[i]) /\ Live(es[j]) /\ es[i].month = es[j].month => i = j
    /\ \A i \in DOMAIN es : /\ es[i].session <= r /\ (es[i].marked <=> es[i].session = r)
                            /\ es[i].stored => es[i].status # "DRAFT"
                            /\ Final(es[i]) => es[i].inMemory
    /\ \A i, j \in DOMAIN es :
         Final(es[i]) /\ Final(es[j]) /\ es[i].session = es[j].session /\ es[i].month = es[j].month
         => i = j

LoansOk(ls) ==
    /\ ls \in [LoanIds -> LoanStates]
    /\ \A a \in LoanIds :
         /\ ls[a].paid <= Granted[a]
         /\ ls[a].status = "SETTLED" <=> ls[a].paid > 0 /\ ls[a].paid >= Granted[a] - 1

OfRun(es, r)   == {i \in DOMAIN es : es[i].session = r}
LoanIn(es)     == [i \in DOMAIN es |-> es[i].loan]
PaidIn(ls)     == [a \in LoanIds |-> ls[a].paid]
OfMonth(es, m) == {i \in DOMAIN es : es[i].month = m}

Covers(es, ls, r) == SumOver(PaidIn(ls), LoanIds) <= SumOver(LoanIn(es), OfRun(es, r))

FiledOk(es, file) ==
    /\ file \in [SheetMonths -> Nat]
    /\ \A m \in SheetMonths : file[m] = Cardinality(OfMonth(es, m))

PayrollImportInv ==
    /\ EntriesOk(imported, restarted) /\ FiledOk(imported, filed)
    /\ LoansOk(loans) /\ Covers(imported, loans, restarted)
    /\ restarted \in Nat

LEMMA EntriesAreFinite ==
  ASSUME NEW es \in Seq(ImportedEntry)
  PROVE  /\ Len(es) \in Nat /\ DOMAIN es = 1..Len(es) /\ IsFiniteSet(DOMAIN es)
         /\ \A i \in DOMAIN es : es[i] \in ImportedEntry
<1> DEFINE n == Len(es)
<1>1. n \in Nat /\ DOMAIN es = 1..n /\ \A i \in 1..n : es[i] \in ImportedEntry
  OBVIOUS
<1> HIDE DEF n
<1>2. IsFiniteSet(1..n)
  BY <1>1, FS_Interval
<1> QED
  BY <1>1, <1>2 DEF n

(* Months, loans and sessions of entries do not change.                      *)
LEMMA AlikeEntries ==
  ASSUME NEW es, NEW fs, DOMAIN fs = DOMAIN es,
         \A i \in DOMAIN es : /\ fs[i].month = es[i].month /\ fs[i].loan = es[i].loan
                              /\ fs[i].session = es[i].session
  PROVE  /\ \A file : FiledOk(es, file) => FiledOk(fs, file)
         /\ \A ls, r : Covers(es, ls, r) => Covers(fs, ls, r)
<1>1. \A r : OfRun(fs, r) = OfRun(es, r)
  BY DEF OfRun
<1>2. LoanIn(fs) = LoanIn(es)
  BY DEF LoanIn
<1>3. \A m : OfMonth(fs, m) = OfMonth(es, m)
  BY DEF OfMonth
<1> QED
  BY <1>1, <1>2, <1>3 DEF FiledOk, Covers

LEMMA AppendedIs ==
  ASSUME NEW es \in Seq(ImportedEntry), NEW e \in ImportedEntry
  PROVE  LET n == Len(es)
             fs == Append(es, e)
         IN  /\ n \in Nat /\ fs \in Seq(ImportedEntry) /\ fs[n + 1] = e
             /\ DOMAIN es = 1..n /\ n + 1 \notin DOMAIN es
             /\ DOMAIN fs = DOMAIN es \union {n + 1}
             /\ \A i \in DOMAIN es : fs[i] = es[i] /\ i # n + 1
<1> DEFINE n == Len(es)
           fs == Append(es, e)
<1>1. n \in Nat /\ DOMAIN es = 1..n
  OBVIOUS
<1>2. fs \in Seq(ImportedEntry) /\ DOMAIN fs = 1..(n + 1) /\ fs[n + 1] = e /\ \A i \in 1..n : fs[i] = es[i]
  BY AppendProperties
<1> HIDE DEF n, fs
<1>3. 1..(n + 1) = 1..n \union {n + 1} /\ n + 1 \notin 1..n /\ \A i \in 1..n : i # n + 1
  BY <1>1
<1> QED
  BY <1>1, <1>2, <1>3 DEF n, fs

LEMMA AppendedEntry ==
  ASSUME NEW r, NEW es, EntriesOk(es, r), NEW e \in ImportedEntry,
         Live(e), e.session = r, ~e.stored, r \in Nat,
         \A i \in DOMAIN es : ~(Live(es[i]) /\ es[i].month = e.month)
  PROVE  EntriesOk(Append(es, e), r)
<1> DEFINE n == Len(es)
           fs == Append(es, e)
<1>1. /\ fs \in Seq(ImportedEntry) /\ fs[n + 1] = e
      /\ DOMAIN fs = DOMAIN es \union {n + 1}
      /\ \A i \in DOMAIN es : fs[i] = es[i] /\ i # n + 1
  BY AppendedIs DEF EntriesOk
<1> HIDE DEF n, fs
<1>2. ~Final(e) /\ e.marked /\ r <= r
  BY DEF Final, Live
<1>3. \A i, j \in DOMAIN fs : Live(fs[i]) /\ Live(fs[j]) /\ fs[i].month = fs[j].month => i = j
  BY <1>1 DEF EntriesOk
<1>4. \A i \in DOMAIN fs : /\ fs[i].session <= r /\ (fs[i].marked <=> fs[i].session = r)
                           /\ fs[i].stored => fs[i].status # "DRAFT"
                           /\ Final(fs[i]) => fs[i].inMemory
  BY <1>1, <1>2 DEF EntriesOk
<1>5. ASSUME NEW i \in DOMAIN fs, NEW j \in DOMAIN fs, Final(fs[i]), Final(fs[j]),
             fs[i].session = fs[j].session, fs[i].month = fs[j].month
      PROVE  i = j
  <2>1. i \in DOMAIN es /\ j \in DOMAIN es
    BY <1>1, <1>2, <1>5
  <2>2. fs[i] = es[i] /\ fs[j] = es[j]
    BY <1>1, <2>1
  <2> QED
    BY <1>5, <2>1, <2>2 DEF EntriesOk
<1>6. \A i, j \in DOMAIN fs :
        Final(fs[i]) /\ Final(fs[j]) /\ fs[i].session = fs[j].session /\ fs[i].month = fs[j].month
        => i = j
  BY <1>5
<1>7. EntriesOk(fs, r)
  BY <1>1, <1>3, <1>4, <1>6 DEF EntriesOk
<1> QED
  BY <1>7 DEF fs

LEMMA AppendedFile ==
  ASSUME NEW es \in Seq(ImportedEntry), NEW file, FiledOk(es, file), NEW e \in ImportedEntry
  PROVE  FiledOk(Append(es, e), [file EXCEPT ![e.month] = @ + 1])
<1> DEFINE n == Len(es)
           fs == Append(es, e)
           new == [file EXCEPT ![e.month] = @ + 1]
<1>1. /\ fs[n + 1] = e /\ DOMAIN fs = DOMAIN es \union {n + 1} /\ n + 1 \notin DOMAIN es
      /\ \A i \in DOMAIN es : fs[i] = es[i]
  BY AppendedIs
<1> HIDE DEF n, fs
<1>2. e.month \in SheetMonths /\ file \in [SheetMonths -> Nat]
  BY DEF ImportedEntry, FiledOk
<1>3. new \in [SheetMonths -> Nat]
  BY <1>2
<1>4. ASSUME NEW m \in SheetMonths PROVE new[m] = Cardinality(OfMonth(fs, m))
  <2>1. IsFiniteSet(OfMonth(es, m)) /\ file[m] = Cardinality(OfMonth(es, m))
    BY EntriesAreFinite, FS_Subset DEF OfMonth, FiledOk
  <2>2. CASE m = e.month
    <3>1. OfMonth(fs, m) = OfMonth(es, m) \union {n + 1} /\ n + 1 \notin OfMonth(es, m)
      BY <1>1, <2>2 DEF OfMonth
    <3>2. Cardinality(OfMonth(fs, m)) = Cardinality(OfMonth(es, m)) + 1
      BY <2>1, <3>1, FS_AddElement
    <3> QED
      BY <1>2, <2>1, <2>2, <3>2
  <2>3. CASE m # e.month
    <3>1. OfMonth(fs, m) = OfMonth(es, m)
      BY <1>1, <2>3 DEF OfMonth
    <3> QED
      BY <1>2, <2>1, <2>3, <3>1
  <2> QED
    BY <2>2, <2>3
<1> QED
  BY <1>3, <1>4 DEF FiledOk, fs

LEMMA PaidIsInt ==
  ASSUME NEW ls \in [LoanIds -> LoanStates]
  PROVE  /\ \A a \in LoanIds : PaidIn(ls)[a] = ls[a].paid /\ PaidIn(ls)[a] \in Nat
         /\ SumOver(PaidIn(ls), LoanIds) \in Int
<1>1. \A a \in LoanIds : PaidIn(ls)[a] = ls[a].paid /\ PaidIn(ls)[a] \in Nat
  BY DEF PaidIn, LoanStates
<1>2. \A a \in LoanIds : PaidIn(ls)[a] \in Int
  BY <1>1
<1> QED
  BY <1>1, <1>2, SumType, LoanIdsFinite

LEMMA AppendedCover ==
  ASSUME NEW r, NEW es \in Seq(ImportedEntry), NEW ls, LoansOk(ls), Covers(es, ls, r),
         NEW e \in ImportedEntry, e.session = r
  PROVE  LoansOk(Deducted(ls, e.loan)) /\ Covers(Append(es, e), Deducted(ls, e.loan), r)
<1> DEFINE n == Len(es)
           fs == Append(es, e)
           x == e.loan
           after == Deducted(ls, x)
           old == SumOver(LoanIn(es), OfRun(es, r))
<1>1. /\ fs[n + 1] = e /\ DOMAIN fs = DOMAIN es \union {n + 1} /\ n + 1 \notin DOMAIN es
      /\ \A i \in DOMAIN es : fs[i] = es[i]
      /\ fs \in Seq(ImportedEntry)
  BY AppendedIs
<1> HIDE DEF n, fs
<1>2. x \in Nat /\ ls \in [LoanIds -> LoanStates]
  BY DEF ImportedEntry, LoansOk
<1>3. SumOver(LoanIn(fs), OfRun(fs, r)) = x + old /\ old \in Int
  <2>1. /\ OfRun(fs, r) \ {n + 1} = OfRun(es, r) /\ n + 1 \in OfRun(fs, r)
        /\ LoanIn(fs)[n + 1] = x
    BY <1>1 DEF OfRun, LoanIn
  <2>2. IsFiniteSet(OfRun(fs, r)) /\ IsFiniteSet(OfRun(es, r))
    BY <1>1, EntriesAreFinite, FS_Subset DEF OfRun
  <2>a. /\ \A i \in DOMAIN fs : LoanIn(fs)[i] = fs[i].loan /\ fs[i].loan \in Int
        /\ \A i \in DOMAIN es : LoanIn(es)[i] = es[i].loan /\ es[i].loan \in Int
    <3>1. /\ \A i \in DOMAIN fs : fs[i] \in ImportedEntry
          /\ \A i \in DOMAIN es : es[i] \in ImportedEntry
      BY <1>1, EntriesAreFinite
    <3>2. \A y \in ImportedEntry : y.loan \in Int
      BY DEF ImportedEntry
    <3> QED
      BY <3>1, <3>2 DEF LoanIn
  <2>b. OfRun(fs, r) \subseteq DOMAIN fs /\ OfRun(es, r) \subseteq DOMAIN es
    BY DEF OfRun
  <2>3. \A i \in OfRun(fs, r) : LoanIn(fs)[i] \in Int
    BY <2>a, <2>b
  <2>4. \A i \in OfRun(es, r) : LoanIn(fs)[i] = LoanIn(es)[i] /\ LoanIn(es)[i] \in Int
    BY <1>1, <2>a, <2>b
  <2>5. SumOver(LoanIn(fs), OfRun(fs, r)) = x + SumOver(LoanIn(fs), OfRun(es, r))
    BY <2>1, <2>2, <2>3, SumRemove
  <2>6. SumOver(LoanIn(fs), OfRun(es, r)) = old
    BY <2>2, <2>4, SumSame
  <2>7. old \in Int
    BY <2>2, <2>4, SumType
  <2> QED
    BY <2>5, <2>6, <2>7
<1> HIDE DEF old, x
<1>4. SumOver(PaidIn(ls), LoanIds) <= old /\ SumOver(PaidIn(ls), LoanIds) \in Int
  BY <1>2, PaidIsInt DEF Covers, old
<1>5. CASE after = ls
  BY <1>2, <1>3, <1>4, <1>5 DEF Covers, fs, x
<1>6. CASE after # ls
  <2>1. PICK a \in LoanIds :
          /\ ls[a].status = "ACTIVE" /\ DueOf(ls, a, x) > 1
          /\ DueOf(ls, a, x) \in Nat /\ DueOf(ls, a, x) <= x
          /\ ls[a].paid + DueOf(ls, a, x) <= Granted[a]
          /\ after = [ls EXCEPT ![a] = [status |-> IF ls[a].paid + DueOf(ls, a, x) >= Granted[a] - 1
                                                   THEN "SETTLED" ELSE "ACTIVE",
                                        paid   |-> ls[a].paid + DueOf(ls, a, x)]]
    BY <1>2, <1>6, DeductedFacts
  <2> DEFINE due == DueOf(ls, a, x)
  <2> HIDE DEF due, after
  <2>2. /\ after \in [LoanIds -> LoanStates]
        /\ after[a] = [status |-> IF ls[a].paid + due >= Granted[a] - 1 THEN "SETTLED" ELSE "ACTIVE",
                       paid   |-> ls[a].paid + due]
        /\ \A b \in LoanIds \ {a} : after[b] = ls[b]
        /\ due > 1 /\ due \in Nat /\ due <= x /\ ls[a].paid + due <= Granted[a] /\ ls[a].paid \in Nat
    <3>1. after \in [LoanIds -> LoanStates]
      BY <1>2, DeductedType DEF after
    <3>2. ls[a].paid \in Nat
      BY <1>2 DEF LoanStates
    <3> QED
      BY <1>2, <2>1, <3>1, <3>2 DEF due
  <2>3. LoansOk(after)
    <3>1. \A b \in LoanIds : Granted[b] \in Nat
      BY GrantedFacts
    <3>2. /\ after[a].paid <= Granted[a]
          /\ after[a].status = "SETTLED" <=> after[a].paid > 0 /\ after[a].paid >= Granted[a] - 1
      BY <2>2, <3>1
    <3> QED
      BY <2>2, <3>2 DEF LoansOk
  <2>4. SumOver(PaidIn(after), LoanIds) = SumOver(PaidIn(ls), LoanIds) + due
    <3>1. \A b \in LoanIds : PaidIn(after)[b] = after[b].paid /\ PaidIn(after)[b] \in Nat
      BY <2>2, PaidIsInt
    <3>2. \A b \in LoanIds : PaidIn(ls)[b] = ls[b].paid /\ PaidIn(ls)[b] \in Nat
      BY <1>2, PaidIsInt
    <3>3. \A b \in LoanIds : PaidIn(after)[b] \in Int /\ PaidIn(ls)[b] \in Int
      BY <3>1, <3>2
    <3>4. \A b \in LoanIds \ {a} : PaidIn(after)[b] = PaidIn(ls)[b]
      BY <2>2, <3>1, <3>2
    <3> DEFINE f == PaidIn(after)
               k == PaidIn(ls)
    <3>5. SumOver(f, LoanIds) = SumOver(k, LoanIds) + (f[a] - k[a])
      <4>1. \A b \in LoanIds : f[b] \in Int /\ k[b] \in Int
        BY <3>3
      <4>2. \A b \in LoanIds \ {a} : f[b] = k[b]
        BY <3>4
      <4> HIDE DEF f, k
      <4>3. a \in LoanIds /\ IsFiniteSet(LoanIds)
        BY LoanIdsFinite
      <4> QED
        BY ONLY <4>1, <4>2, <4>3, SumChange
    <3>6. PaidIn(after)[a] - PaidIn(ls)[a] = due
      BY <2>2, <3>1, <3>2
    <3> QED
      BY <3>5, <3>6
  <2>5. SumOver(PaidIn(after), LoanIds) <= x + old
    BY <1>2, <1>3, <1>4, <2>2, <2>4
  <2>6. Covers(fs, after, r)
    BY <1>3, <2>5 DEF Covers
  <2> QED
    BY <2>3, <2>6 DEF fs, after, x
<1> QED
  BY <1>5, <1>6

-----------------------------------------------------------------------------
(* The book of a batch holds the entries there were, and behind them those   *)
(* of the batch, which carry their marks.                                    *)
Grown(es) ==
    /\ Len(imported) <= Len(es)
    /\ \A i \in DOMAIN es : IF i <= Len(imported) THEN es[i] = imported[i]
                            ELSE Live(es[i]) /\ es[i].session = restarted

BookOk(book) ==
    /\ book \in Books
    /\ EntriesOk(book.imported, restarted) /\ FiledOk(book.imported, book.filed)
    /\ LoansOk(book.loans) /\ Covers(book.imported, book.loans, restarted)
    /\ Grown(book.imported)

LEMMA MonthKeeps ==
  ASSUME PayrollImportInv, NEW book, BookOk(book), NEW sheet,
         sheet.month \in SheetMonths, sheet.loan \in Nat, sheet.sound \in BOOLEAN
  PROVE  BookOk(CommitMonth(book, sheet))
<1> DEFINE new == CommitMonth(book, sheet)
           e == NewImport(sheet)
           es == book.imported
<1>0. /\ es \in Seq(ImportedEntry) /\ EntriesOk(es, restarted) /\ FiledOk(es, book.filed)
      /\ LoansOk(book.loans) /\ Covers(es, book.loans, restarted) /\ Grown(es)
      /\ restarted \in Nat /\ imported \in Seq(ImportedEntry)
  BY DEF BookOk, Books, PayrollImportInv, EntriesOk
<1>1. new \in Books
  BY <1>0, CommitMonthType DEF BookOk
<1>2. CASE book.refused \/ Entered(es, sheet.month)
  BY <1>2 DEF CommitMonth
<1>3. CASE ~(book.refused \/ Entered(es, sheet.month)) /\ ~sheet.sound
  <2>1. new = [book EXCEPT !.refused = TRUE]
    BY <1>3 DEF CommitMonth
  <2>2. new.imported = es /\ new.filed = book.filed /\ new.loans = book.loans
    BY <2>1 DEF BookOk, Books
  <2> QED
    BY <1>0, <1>1, <2>2 DEF BookOk
<1>4. CASE ~(book.refused \/ Entered(es, sheet.month)) /\ sheet.sound
  <2>1. new = [refused  |-> FALSE,
               imported |-> Append(es, e),
               filed    |-> [book.filed EXCEPT ![sheet.month] = @ + 1],
               loans    |-> Deducted(book.loans, sheet.loan)]
    BY <1>4 DEF CommitMonth
  <2>2. /\ e \in ImportedEntry /\ Live(e) /\ e.session = restarted /\ ~e.stored
        /\ e.month = sheet.month /\ e.loan = sheet.loan
    BY <1>0 DEF NewImport, ImportedEntry, Live
  <2> HIDE DEF e, new, es
  <2>3. \A i \in DOMAIN es : ~(Live(es[i]) /\ es[i].month = e.month)
    BY <1>4, <2>2 DEF Entered, Live
  <2>4. /\ new.imported = Append(es, e) /\ new.loans = Deducted(book.loans, e.loan)
        /\ new.filed = [book.filed EXCEPT ![e.month] = @ + 1]
    BY <2>1, <2>2
  <2>5. EntriesOk(new.imported, restarted)
    BY <1>0, <2>2, <2>3, <2>4, AppendedEntry
  <2>6. FiledOk(new.imported, new.filed)
    BY <1>0, <2>2, <2>4, AppendedFile
  <2>7. LoansOk(new.loans) /\ Covers(new.imported, new.loans, restarted)
    BY <1>0, <2>2, <2>4, AppendedCover
  <2>8. Grown(new.imported)
    <3> DEFINE n == Len(es)
               fs == Append(es, e)
               k == Len(imported)
    <3>1. /\ n \in Nat /\ fs[n + 1] = e /\ DOMAIN es = 1..n
          /\ DOMAIN fs = DOMAIN es \union {n + 1} /\ \A i \in DOMAIN es : fs[i] = es[i]
          /\ fs \in Seq(ImportedEntry)
      BY <1>0, <2>2, AppendedIs
    <3>2. k \in Nat /\ Len(fs) = n + 1
      BY <1>0, <2>2
    <3>3. k <= n /\ \A i \in DOMAIN es : IF i <= k THEN es[i] = imported[i]
                                         ELSE Live(es[i]) /\ es[i].session = restarted
      BY <1>0 DEF Grown
    <3> HIDE DEF n, k, fs
    <3>4. k <= n + 1 /\ ~(n + 1 <= k)
      BY <3>1, <3>2, <3>3
    <3>5. \A i \in DOMAIN fs : IF i <= k THEN fs[i] = imported[i]
                               ELSE Live(fs[i]) /\ fs[i].session = restarted
      BY <2>2, <3>1, <3>3, <3>4
    <3> QED
      BY <2>4, <3>2, <3>4, <3>5 DEF Grown, fs, k
  <2> QED
    BY <1>1, <2>5, <2>6, <2>7, <2>8 DEF BookOk, new
<1> QED
  BY <1>2, <1>3, <1>4

LEMMA BatchKeeps ==
  ASSUME PayrollImportInv, NEW batch \in Batches, NEW base, BookOk(base)
  PROVE  BookOk(FoldLeft(CommitMonth, base, batch))
<1> DEFINE n == Len(batch)
<1>1. /\ n \in Nat
      /\ \A i \in 1..n : batch[i].month \in SheetMonths /\ batch[i].loan \in Nat
                         /\ batch[i].sound \in BOOLEAN
  BY SheetFacts
<1>2. restarted \in Nat /\ base \in Books
  BY DEF PayrollImportInv, BookOk
<1>3. PICK g : CommitsByPrefix(g, base, batch)
  BY <1>2, CommitStepByStep
<1>4. /\ g[0] = base /\ FoldLeft(CommitMonth, base, batch) = g[n]
      /\ \A i \in 1..n : g[i] = CommitMonth(g[i - 1], batch[i])
  BY <1>3 DEF CommitsByPrefix
<1> HIDE DEF n
<1> DEFINE G == {i \in 0..n : BookOk(g[i])}
<1>5. 0 \in G
  BY <1>1, <1>4
<1>6. \A i \in 1..n : i - 1 \in G => i \in G
  <2> SUFFICES ASSUME NEW i \in 1..n, i - 1 \in G PROVE i \in G
    OBVIOUS
  <2>1. BookOk(g[i - 1])
    OBVIOUS
  <2>2. BookOk(g[i])
    BY <1>1, <1>4, <2>1, MonthKeeps
  <2>3. i \in 0..n
    BY <1>1
  <2> QED
    BY <2>2, <2>3
<1> HIDE DEF G
<1>7. n \in G
  <2>1. n \in 0..n
    BY <1>1
  <2> QED
    BY <1>1, <1>5, <1>6, <2>1, StepByStep
<1> QED
  BY <1>4, <1>7 DEF G

LEMMA CommitKeeps ==
  ASSUME PayrollImportInv, NEW batch \in Batches, Commit(batch)
  PROVE  PayrollImportInv'
<1> DEFINE base == [refused |-> FALSE, imported |-> imported, filed |-> filed, loans |-> loans]
           book == FoldLeft(CommitMonth, base, batch)
           es == book.imported
           k == Len(imported)
<1>1. /\ imported \in Seq(ImportedEntry) /\ filed \in [SheetMonths -> Nat]
      /\ loans \in [LoanIds -> LoanStates] /\ restarted \in Nat
  BY DEF PayrollImportInv, EntriesOk, FiledOk, LoansOk
<1>2. k \in Nat /\ DOMAIN imported = 1..k
  BY <1>1
<1>3. BookOk(base)
  <2>1. base \in Books
    BY <1>1 DEF Books
  <2>2. Grown(imported)
    BY <1>2 DEF Grown
  <2> QED
    BY <2>1, <2>2 DEF BookOk, PayrollImportInv
<1>4. BookOk(book)
  BY <1>3, BatchKeeps
<1>5. /\ imported' = [i \in DOMAIN es |->
                        IF i > k /\ ~book.refused
                        THEN [es[i] EXCEPT !.status = "POSTED", !.stored = TRUE] ELSE es[i]]
      /\ filed' = book.filed /\ loans' = book.loans /\ restarted' = restarted
  BY DEF Commit
<1> HIDE DEF book, base, k
<1>6. /\ EntriesOk(es, restarted) /\ FiledOk(es, book.filed) /\ LoansOk(book.loans)
      /\ Covers(es, book.loans, restarted) /\ Grown(es) /\ es \in Seq(ImportedEntry)
  BY <1>4 DEF BookOk, Books
<1> DEFINE fs == [i \in DOMAIN es |->
                    IF i > k /\ ~book.refused
                    THEN [es[i] EXCEPT !.status = "POSTED", !.stored = TRUE] ELSE es[i]]
<1>7. /\ Len(es) \in Nat /\ DOMAIN es = 1..Len(es) /\ \A i \in DOMAIN es : es[i] \in ImportedEntry
  BY <1>6, EntriesAreFinite
<1> HIDE DEF es
<1>8. \A i \in DOMAIN es : fs[i] = IF i > k /\ ~book.refused
                                   THEN [es[i] EXCEPT !.status = "POSTED", !.stored = TRUE] ELSE es[i]
  OBVIOUS
<1>9. ASSUME NEW i \in DOMAIN es
      PROVE  /\ fs[i] \in ImportedEntry
             /\ fs[i].month = es[i].month /\ fs[i].loan = es[i].loan /\ fs[i].session = es[i].session
             /\ fs[i].marked = es[i].marked /\ fs[i].inMemory = es[i].inMemory
             /\ \/ fs[i].stored = es[i].stored /\ fs[i].status = es[i].status
                \/ i > k /\ fs[i].stored /\ fs[i].status = "POSTED"
  <2>1. es[i] \in ImportedEntry
    BY <1>7
  <2> QED
    BY <1>8, <2>1 DEF ImportedEntry
<1>10. DOMAIN fs = DOMAIN es /\ fs \in Seq(ImportedEntry)
  <2>1. DOMAIN fs = DOMAIN es
    OBVIOUS
  <2>2. fs \in [1..Len(es) -> ImportedEntry]
    BY <1>7, <1>9
  <2> HIDE DEF fs
  <2> QED
    BY <1>7, <2>1, <2>2
<1> HIDE DEF fs
<1>11. \A i \in DOMAIN es : i > k => Live(es[i]) /\ es[i].session = restarted
  BY <1>2, <1>6, <1>7 DEF Grown, k
<1>12. EntriesOk(fs, restarted)
  <2>1. \A i \in DOMAIN fs : Live(fs[i]) <=> Live(es[i])
    BY <1>9, <1>10 DEF Live
  <2>2. \A i, j \in DOMAIN fs : Live(fs[i]) /\ Live(fs[j]) /\ fs[i].month = fs[j].month => i = j
    BY <1>6, <1>9, <1>10, <2>1 DEF EntriesOk
  <2>3. \A i \in DOMAIN fs : /\ fs[i].session <= restarted /\ (fs[i].marked <=> fs[i].session = restarted)
                             /\ fs[i].stored => fs[i].status # "DRAFT"
                             /\ Final(fs[i]) => fs[i].inMemory
    BY <1>6, <1>9, <1>10, <1>11 DEF EntriesOk, Final, Live
  <2>4. ASSUME NEW i \in DOMAIN fs, NEW j \in DOMAIN fs, Final(fs[i]), Final(fs[j]),
               fs[i].session = fs[j].session, fs[i].month = fs[j].month
        PROVE  i = j
    <3>1. CASE fs[i].session = restarted
      BY <2>2, <2>3, <2>4, <3>1 DEF Live
    <3>2. CASE fs[i].session # restarted
      <4>1. Final(es[i]) /\ Final(es[j])
        BY <1>9, <1>10, <1>11, <2>4, <3>2 DEF Final
      <4> QED
        BY <1>6, <1>9, <1>10, <2>4, <4>1 DEF EntriesOk
    <3> QED
      BY <3>1, <3>2
  <2>5. \A i, j \in DOMAIN fs :
          Final(fs[i]) /\ Final(fs[j]) /\ fs[i].session = fs[j].session /\ fs[i].month = fs[j].month
          => i = j
    BY <2>4
  <2> HIDE DEF Final, Live
  <2> QED
    BY <1>10, <2>2, <2>3, <2>5 DEF EntriesOk
<1>13. FiledOk(fs, book.filed) /\ Covers(fs, book.loans, restarted)
  BY <1>6, <1>9, <1>10, AlikeEntries
<1>14. imported' = fs
  BY <1>5 DEF fs, es
<1> QED
  BY <1>1, <1>5, <1>6, <1>12, <1>13, <1>14 DEF PayrollImportInv

-----------------------------------------------------------------------------
(* A row changes by hand: what was not Final does not become so.             *)
LEMMA ChangedEntry ==
  ASSUME NEW r, NEW es, EntriesOk(es, r), NEW k \in DOMAIN es, NEW e \in ImportedEntry,
         e.month = es[k].month, e.session = es[k].session, e.marked = es[k].marked,
         e.inMemory => es[k].inMemory, e.stored => e.status # "DRAFT",
         Final(e) => e.inMemory /\ Final(es[k])
  PROVE  EntriesOk([es EXCEPT ![k] = e], r)
<1> DEFINE fs == [es EXCEPT ![k] = e]
<1>1. /\ fs \in Seq(ImportedEntry) /\ DOMAIN fs = DOMAIN es /\ fs[k] = e
      /\ \A i \in DOMAIN es \ {k} : fs[i] = es[i]
  <2>1. es \in Seq(ImportedEntry)
    BY DEF EntriesOk
  <2>2. fs \in Seq(ImportedEntry)
    BY <2>1
  <2> QED
    BY <2>1, <2>2
<1> HIDE DEF fs
<1>2. \A i \in DOMAIN es : /\ fs[i].month = es[i].month /\ fs[i].session = es[i].session
                           /\ fs[i].marked = es[i].marked
                           /\ (fs[i].inMemory => es[i].inMemory)
                           /\ (fs[i].stored => fs[i].status # "DRAFT")
                           /\ (Final(fs[i]) => fs[i].inMemory /\ Final(es[i]))
  BY <1>1 DEF EntriesOk
<1>3. \A i \in DOMAIN es : Live(fs[i]) => Live(es[i])
  BY <1>2 DEF Live
<1> HIDE DEF Final, Live
<1>4. \A i, j \in DOMAIN fs : Live(fs[i]) /\ Live(fs[j]) /\ fs[i].month = fs[j].month => i = j
  BY <1>1, <1>2, <1>3 DEF EntriesOk
<1>5. \A i \in DOMAIN fs : /\ fs[i].session <= r /\ (fs[i].marked <=> fs[i].session = r)
                           /\ fs[i].stored => fs[i].status # "DRAFT"
                           /\ Final(fs[i]) => fs[i].inMemory
  BY <1>1, <1>2 DEF EntriesOk
<1>6. \A i, j \in DOMAIN fs :
        Final(fs[i]) /\ Final(fs[j]) /\ fs[i].session = fs[j].session /\ fs[i].month = fs[j].month
        => i = j
  BY <1>1, <1>2 DEF EntriesOk
<1>7. EntriesOk(fs, r)
  BY <1>1, <1>4, <1>5, <1>6 DEF EntriesOk
<1> QED
  BY <1>7 DEF fs

LEMMA ByHandKeeps ==
  ASSUME PayrollImportInv, NEW k \in DOMAIN imported, ByHand(k)
  PROVE  PayrollImportInv'
<1> DEFINE e == imported'[k]
<1>1. /\ imported \in Seq(ImportedEntry) /\ imported[k] \in ImportedEntry
      /\ EntriesOk(imported, restarted)
  <2>1. imported \in Seq(ImportedEntry) /\ EntriesOk(imported, restarted)
    BY DEF PayrollImportInv, EntriesOk
  <2> QED
    BY <2>1, EntriesAreFinite
<1>2. /\ UNCHANGED <<filed, loans, restarted>>
      /\ imported' = [imported EXCEPT ![k] = e]
      /\ e \in ImportedEntry
      /\ e.month = imported[k].month /\ e.session = imported[k].session
      /\ e.marked = imported[k].marked /\ e.loan = imported[k].loan
      /\ (e.inMemory => imported[k].inMemory) /\ (e.stored => e.status # "DRAFT")
      /\ (Final(e) => e.inMemory /\ Final(imported[k]))
  <2>1. imported[k].stored => imported[k].status # "DRAFT"
    BY <1>1 DEF EntriesOk
  <2>2. Final(imported[k]) => imported[k].inMemory
    BY <1>1 DEF EntriesOk
  <2> DEFINE f == imported[k]
  <2>0. f \in ImportedEntry /\ (f.stored => f.status # "DRAFT")
    BY <1>1, <2>1
  <2>3. CASE PostByHand(k)
    <3>1. /\ imported' = [imported EXCEPT ![k] = [f EXCEPT !.status = "POSTED"]]
          /\ f.status = "DRAFT" /\ f.inMemory /\ UNCHANGED <<filed, loans, restarted>>
      BY <2>3 DEF PostByHand
    <3>2. e = [f EXCEPT !.status = "POSTED"]
      BY <1>1, <3>1
    <3> HIDE DEF e, f
    <3> QED
      BY <2>0, <3>1, <3>2 DEF ImportedEntry, Final, f
  <2>4. CASE ReverseByHand(k)
    <3>1. /\ imported' = [imported EXCEPT ![k] = [f EXCEPT !.status = "REVERSED"]]
          /\ f.inMemory /\ UNCHANGED <<filed, loans, restarted>>
      BY <2>4 DEF ReverseByHand
    <3>2. e = [f EXCEPT !.status = "REVERSED"]
      BY <1>1, <3>1
    <3> HIDE DEF e, f
    <3> QED
      BY <2>0, <3>1, <3>2 DEF ImportedEntry, Final, f
  <2>5. CASE DeleteByHand(k)
    <3>1. /\ imported' = [imported EXCEPT ![k] = [f EXCEPT !.inMemory = FALSE]]
          /\ f.status # "POSTED" /\ f.inMemory /\ UNCHANGED <<filed, loans, restarted>>
      BY <2>5 DEF DeleteByHand
    <3>2. e = [f EXCEPT !.inMemory = FALSE]
      BY <1>1, <3>1
    <3> HIDE DEF e, f
    <3> QED
      BY <2>0, <3>1, <3>2 DEF ImportedEntry, Final, f
  <2> QED
    BY <2>3, <2>4, <2>5 DEF ByHand
<1> HIDE DEF e
<1>3. EntriesOk(imported', restarted)
  BY <1>1, <1>2, ChangedEntry
<1>4. DOMAIN imported' = DOMAIN imported /\ \A i \in DOMAIN imported :
        /\ imported'[i].month = imported[i].month /\ imported'[i].loan = imported[i].loan
        /\ imported'[i].session = imported[i].session
  BY <1>1, <1>2
<1>5. FiledOk(imported', filed) /\ Covers(imported', loans, restarted)
  BY <1>4, AlikeEntries DEF PayrollImportInv
<1> QED
  BY <1>2, <1>3, <1>5 DEF PayrollImportInv

LEMMA GrantKeeps ==
  ASSUME PayrollImportInv, GrantAdvance
  PROVE  PayrollImportInv'
<1>1. PICK a \in LoanIds : /\ loans[a].status = "ABSENT"
                           /\ loans' = [loans EXCEPT ![a].status = "ACTIVE"]
                           /\ UNCHANGED <<imported, filed, restarted>>
  BY DEF GrantAdvance
<1>2. LoansOk(loans) /\ loans \in [LoanIds -> LoanStates]
  BY DEF PayrollImportInv, LoansOk
<1>3. /\ loans' \in [LoanIds -> LoanStates]
      /\ \A b \in LoanIds : /\ loans'[b].paid = loans[b].paid
                            /\ loans'[b].status = "SETTLED" <=> loans[b].status = "SETTLED"
  BY <1>1, <1>2 DEF LoanStates
<1>4. LoansOk(loans')
  BY <1>2, <1>3 DEF LoansOk
<1>5. PaidIn(loans') = PaidIn(loans)
  BY <1>3 DEF PaidIn
<1> QED
  BY <1>1, <1>4, <1>5 DEF PayrollImportInv, Covers

LEMMA NothingPaid ==
  ASSUME NEW ls, ls = [a \in LoanIds |-> [status |-> "ABSENT", paid |-> 0]],
         NEW es, NEW r, OfRun(es, r) = {}
  PROVE  LoansOk(ls) /\ Covers(es, ls, r)
<1>1. /\ ls \in [LoanIds -> LoanStates]
      /\ \A a \in LoanIds : ls[a].paid = 0 /\ ls[a].status = "ABSENT"
  BY DEF LoanStates
<1>2. LoansOk(ls)
  BY <1>1, GrantedFacts DEF LoansOk
<1>3. \A a \in LoanIds : PaidIn(ls)[a] = 0
  BY <1>1 DEF PaidIn
<1>4. SumOver(PaidIn(ls), LoanIds) = 0
  BY <1>3, LoanIdsFinite, SumZero
<1>5. SumOver(LoanIn(es), {}) = 0
  BY SumZero, FS_EmptySet
<1> QED
  BY <1>2, <1>4, <1>5 DEF Covers

LEMMA LossKeeps ==
  ASSUME PayrollImportInv, LoseMemory
  PROVE  PayrollImportInv'
<1> DEFINE r == restarted + 1
           fs == [i \in DOMAIN imported |->
                    [imported[i] EXCEPT !.inMemory = imported[i].stored, !.marked = FALSE]]
<1>1. /\ restarted' = r /\ imported' = fs /\ filed' = filed
      /\ loans' = [a \in LoanIds |-> [status |-> "ABSENT", paid |-> 0]]
  BY DEF LoseMemory
<1>2. EntriesOk(imported, restarted) /\ imported \in Seq(ImportedEntry) /\ restarted \in Nat
  BY DEF PayrollImportInv, EntriesOk
<1>3. /\ Len(imported) \in Nat /\ DOMAIN imported = 1..Len(imported)
      /\ \A i \in DOMAIN imported : imported[i] \in ImportedEntry
  BY <1>2, EntriesAreFinite
<1>4. \A i \in DOMAIN imported :
        /\ fs[i] \in ImportedEntry
        /\ fs[i].month = imported[i].month /\ fs[i].loan = imported[i].loan
        /\ fs[i].session = imported[i].session /\ ~fs[i].marked
        /\ fs[i].stored = imported[i].stored /\ fs[i].status = imported[i].status
        /\ (fs[i].stored => fs[i].inMemory)
  BY <1>3 DEF ImportedEntry
<1>5. DOMAIN fs = DOMAIN imported /\ fs \in Seq(ImportedEntry)
  <2>1. DOMAIN fs = DOMAIN imported
    OBVIOUS
  <2>2. fs \in [1..Len(imported) -> ImportedEntry]
    BY <1>3, <1>4
  <2> HIDE DEF fs
  <2> QED
    BY <1>3, <2>1, <2>2
<1> HIDE DEF fs
<1>6. \A i \in DOMAIN fs : ~Live(fs[i]) /\ (Final(fs[i]) <=> Final(imported[i]))
  BY <1>4, <1>5 DEF Live, Final
<1>7. \A i \in DOMAIN fs : fs[i].session \in Nat /\ fs[i].session <= restarted
  BY <1>2, <1>4, <1>5 DEF EntriesOk, ImportedEntry
<1>8. \A i \in DOMAIN fs : fs[i].session <= r /\ fs[i].session # r
  BY <1>2, <1>7
<1>9. \A i \in DOMAIN fs : Final(fs[i]) => fs[i].inMemory
  BY <1>4, <1>5 DEF Final
<1>10. EntriesOk(fs, r)
  <2> HIDE DEF r, Final, Live
  <2>1. \A i, j \in DOMAIN fs : Live(fs[i]) /\ Live(fs[j]) /\ fs[i].month = fs[j].month => i = j
    BY <1>6
  <2>2. \A i \in DOMAIN fs : /\ fs[i].session <= r /\ (fs[i].marked <=> fs[i].session = r)
                             /\ fs[i].stored => fs[i].status # "DRAFT"
                             /\ Final(fs[i]) => fs[i].inMemory
    BY <1>2, <1>4, <1>5, <1>8, <1>9 DEF EntriesOk
  <2>3. \A i, j \in DOMAIN fs :
          Final(fs[i]) /\ Final(fs[j]) /\ fs[i].session = fs[j].session /\ fs[i].month = fs[j].month
          => i = j
    BY <1>2, <1>4, <1>5, <1>6 DEF EntriesOk
  <2> QED
    BY <1>5, <2>1, <2>2, <2>3 DEF EntriesOk
<1>11. FiledOk(fs, filed)
  BY <1>4, <1>5, AlikeEntries DEF PayrollImportInv
<1>12. OfRun(fs, r) = {}
  BY <1>8 DEF OfRun
<1>13. LoansOk(loans') /\ Covers(fs, loans', r)
  BY <1>1, <1>12, NothingPaid
<1>14. r \in Nat
  BY <1>2
<1> QED
  BY <1>1, <1>10, <1>11, <1>13, <1>14 DEF PayrollImportInv

LEMMA ImportInitOk ==
  ASSUME PayrollImportInit
  PROVE  PayrollImportInv
<1>1. /\ imported = << >> /\ filed = [m \in SheetMonths |-> 0] /\ restarted = 0
      /\ loans = [a \in LoanIds |-> [status |-> "ABSENT", paid |-> 0]]
  BY DEF PayrollImportInit
<1>2. imported \in Seq(ImportedEntry) /\ DOMAIN imported = {}
  BY <1>1
<1>3. EntriesOk(imported, restarted)
  BY <1>2 DEF EntriesOk
<1>4. \A m : OfMonth(imported, m) = {}
  BY <1>2 DEF OfMonth
<1>5. FiledOk(imported, filed)
  BY <1>1, <1>4, FS_EmptySet DEF FiledOk
<1>6. OfRun(imported, restarted) = {}
  BY <1>2 DEF OfRun
<1>7. LoansOk(loans) /\ Covers(imported, loans, restarted)
  BY <1>1, <1>6, NothingPaid
<1> QED
  BY <1>1, <1>3, <1>5, <1>7 DEF PayrollImportInv

LEMMA ImportNextKeeps ==
  ASSUME PayrollImportInv, [PayrollImportNext]_payrollImportVars
  PROVE  PayrollImportInv'
<1>1. ASSUME NEW b \in Batches, Commit(b) PROVE PayrollImportInv'
  BY <1>1, CommitKeeps
<1>2. ASSUME NEW i \in DOMAIN imported, ByHand(i) PROVE PayrollImportInv'
  BY <1>2, ByHandKeeps
<1>3. ASSUME GrantAdvance PROVE PayrollImportInv'
  BY <1>3, GrantKeeps
<1>4. ASSUME LoseMemory PROVE PayrollImportInv'
  BY <1>4, LossKeeps
<1>5. ASSUME UNCHANGED payrollImportVars PROVE PayrollImportInv'
  BY <1>5 DEF payrollImportVars, PayrollImportInv
<1> QED
  BY <1>1, <1>2, <1>3, <1>4, <1>5 DEF PayrollImportNext

LEMMA ImportedOnce ==
  ASSUME PayrollImportInv
  PROVE  MonthsOnce
<1>1. EntriesOk(imported, restarted) /\ imported \in Seq(ImportedEntry) /\ restarted \in Nat
  BY DEF PayrollImportInv, EntriesOk
<1> SUFFICES ASSUME NEW m \in SheetMonths
             PROVE  /\ Cardinality({i \in OfSession : InLedger(i) /\ imported[i].month = m}) <= 1
                    /\ Cardinality({i \in DOMAIN imported : imported[i].stored /\ InLedger(i)
                                      /\ imported[i].month = m}) <= 1 + restarted
  BY DEF MonthsOnce
<1> DEFINE S == {i \in OfSession : InLedger(i) /\ imported[i].month = m}
           T == {i \in DOMAIN imported : imported[i].stored /\ InLedger(i) /\ imported[i].month = m}
<1>2. Cardinality(S) <= 1
  <2>1. \A i \in S : i \in DOMAIN imported /\ Live(imported[i]) /\ imported[i].month = m
    BY <1>1 DEF EntriesOk, OfSession, InLedger, Live
  <2>2. \A i, j \in S : i = j
    BY <1>1, <2>1 DEF EntriesOk
  <2> HIDE DEF S
  <2> QED
    BY <2>2, OneAtMost
<1>3. Cardinality(T) <= 1 + restarted
  <2> DEFINE f == [i \in T |-> imported[i].session]
  <2>1. \A i \in T : i \in DOMAIN imported /\ Final(imported[i]) /\ imported[i].month = m
    BY DEF Final, InLedger
  <2>2. \A i \in DOMAIN imported : imported[i].session \in Nat /\ imported[i].session <= restarted
    <3>1. \A i \in DOMAIN imported : imported[i] \in ImportedEntry
      BY <1>1, EntriesAreFinite
    <3> QED
      BY <1>1, <3>1 DEF EntriesOk, ImportedEntry
  <2>3. \A i, j \in T : imported[i].session = imported[j].session => i = j
    BY <1>1, <2>1 DEF EntriesOk
  <2> HIDE DEF T
  <2>4. f \in [T -> 0..restarted]
    BY <1>1, <2>1, <2>2
  <2>5. f \in Injection(T, 0..restarted)
    BY <2>3, <2>4 DEF Injection, IsInjective
  <2>6. IsFiniteSet(0..restarted) /\ Cardinality(0..restarted) = restarted + 1
    BY <1>1, FS_Interval
  <2> HIDE DEF f
  <2>7. Cardinality(T) <= Cardinality(0..restarted) /\ Cardinality(T) \in Nat
    BY <2>5, <2>6, FS_Injection, FS_CardinalityType
  <2> QED
    BY <1>1, <2>6, <2>7
<1> QED
  BY <1>2, <1>3

LEMMA ImportTyped ==
  ASSUME PayrollImportInv
  PROVE  PayrollImportTypeOK
BY DEF PayrollImportInv, PayrollImportTypeOK, EntriesOk, FiledOk, LoansOk, ImportedEntry, LoanStates

LEMMA ImportSafe ==
  ASSUME PayrollImportInv
  PROVE  PayrollImportSound
<1>1. MonthsOnce
  BY ImportedOnce
<1>2. PaidBack = SumOver(PaidIn(loans), LoanIds)
  BY DEF PaidBack, SumOver, PaidIn
<1>3. DeductedInSession = SumOver(LoanIn(imported), OfRun(imported, restarted))
  BY DEF DeductedInSession, SumOver, LoanIn, OfRun, OfSession
<1>4. LoansCovered
  BY <1>2, <1>3 DEF LoansCovered, PayrollImportInv, Covers, LoansOk
<1>5. RecordsOfAll
  <2>1. \A i \in DOMAIN imported : imported[i].status = "DRAFT" => ~imported[i].stored
    BY DEF PayrollImportInv, EntriesOk
  <2>2. \A m \in SheetMonths : filed[m] = Cardinality({i \in DOMAIN imported : imported[i].month = m})
    BY DEF PayrollImportInv, FiledOk, OfMonth
  <2> QED
    BY <2>1, <2>2 DEF RecordsOfAll
<1> QED
  BY <1>1, <1>4, <1>5 DEF PayrollImportSound

-----------------------------------------------------------------------------
GroupsUp(h, base, gs) ==
    h = [s \in SUBSET DOMAIN gs |->
           IF s = {} THEN base
           ELSE LET x == Max(s) IN ImportGroup(h[s \ {x}], gs[x])]

LEMMA GroupsUnfold ==
  ASSUME NEW base, NEW gs, \E h : GroupsUp(h, base, gs)
  PROVE  \E h : GroupsUp(h, base, gs) /\ FoldLeft(ImportGroup, base, gs) = h[DOMAIN gs]
<1> DEFINE g == CHOOSE h : GroupsUp(h, base, gs)
<1>1. GroupsUp(g, base, gs)
  OBVIOUS
<1>2. FoldLeft(ImportGroup, base, gs) = g[DOMAIN gs]
  BY DEF FoldLeft, MapThenFoldSet, GroupsUp
<1> QED
  BY <1>1, <1>2

LEMMA GroupsStayWithin ==
  ASSUME NEW n \in Nat, NEW gs, DOMAIN gs = 1..n, NEW A, NEW base \in A,
         \A i \in 1..n, b \in A : ImportGroup(b, gs[i]) \in A
  PROVE  FoldLeft(ImportGroup, base, gs) \in A
<1> DEFINE step == [p \in (1..n) \X A |-> ImportGroup(p[2], gs[p[1]])]
<1>1. step \in [(1..n) \X A -> A]
  OBVIOUS
<1>2. \A i \in 1..n, b \in A : step[<<i, b>>] = ImportGroup(b, gs[i])
  OBVIOUS
<1> HIDE DEF step
<1>3. PICK k \in [SUBSET (1..n) -> A] : FoldsUp(k, step, base, n)
  BY <1>1, FoldExists
<1>4. GroupsUp(k, base, gs)
  <2>1. \A s \in SUBSET (1..n) : s # {} => Max(s) \in 1..n /\ k[s \ {Max(s)}] \in A
    BY <1>3, MaxOf
  <2>2. \A s \in SUBSET (1..n) :
          s # {} => step[<<Max(s), k[s \ {Max(s)}]>>] = ImportGroup(k[s \ {Max(s)}], gs[Max(s)])
    BY <1>2, <2>1
  <2>3. k = [s \in SUBSET (1..n) |-> IF s = {} THEN base ELSE step[<<Max(s), k[s \ {Max(s)}]>>]]
    BY <1>3 DEF FoldsUp
  <2>4. \A s \in SUBSET (1..n) :
          k[s] = IF s = {} THEN base ELSE ImportGroup(k[s \ {Max(s)}], gs[Max(s)])
    BY <2>2, <2>3
  <2>5. k = [s \in SUBSET (1..n) |-> k[s]]
    BY <1>3
  <2> QED
    BY <2>4, <2>5 DEF GroupsUp
<1>5. PICK h : GroupsUp(h, base, gs) /\ FoldLeft(ImportGroup, base, gs) = h[1..n]
  BY <1>4, GroupsUnfold
<1>6. \A s \in SUBSET (1..n) :
        h[s] = IF s = {} THEN base ELSE ImportGroup(h[s \ {Max(s)}], gs[Max(s)])
  BY <1>5 DEF GroupsUp
<1>7. h[{}] = base
  BY <1>6, PrefixFacts
<1>8. \A i \in 1..n : h[1..i] = ImportGroup(h[1..(i - 1)], gs[i])
  <2> SUFFICES ASSUME NEW i \in 1..n PROVE h[1..i] = ImportGroup(h[1..(i - 1)], gs[i])
    OBVIOUS
  <2>1. 1..i \in SUBSET (1..n) /\ 1..i # {} /\ Max(1..i) = i /\ (1..i) \ {i} = 1..(i - 1)
    BY PrefixFacts
  <2>2. h[1..i] = ImportGroup(h[(1..i) \ {Max(1..i)}], gs[Max(1..i)])
    BY <1>6, <2>1
  <2> QED
    BY <2>1, <2>2
<1>9. \A i \in 1..n : h[1..(i - 1)] \in A => h[1..i] \in A
  BY <1>8
<1> QED
  BY <1>5, <1>7, <1>9, FoldWithin

-----------------------------------------------------------------------------
(* The files of a folder, one after the other. *)
LoadFile(first, book, i) ==
    IF i \in first THEN ImportFile(book.journal, book.periods, FileOrder[i]) ELSE book

FirstOf(files) ==
    {i \in DOMAIN FileOrder :
        /\ FileOrder[i] \in files
        /\ \A k \in DOMAIN FileOrder :
             FileOrder[k] \in files /\ k < i => Contents[FileOrder[k]].bytes # Contents[FileOrder[i]].bytes}

Places == [i \in DOMAIN FileOrder |-> i]
NoBook == [journal |-> {}, periods |-> {}, known |-> {}]

FilesUp(h, first) ==
    h = [s \in SUBSET DOMAIN FileOrder |->
           IF s = {} THEN NoBook
           ELSE LET x == Max(s)
                IN  LoadFile(first, h[s \ {x}], Places[x])]

LEMMA FilesUnfold ==
  ASSUME NEW files, \E h : FilesUp(h, FirstOf(files))
  PROVE  \E h : FilesUp(h, FirstOf(files)) /\ Loaded(files) = h[DOMAIN FileOrder]
<1> DEFINE first == FirstOf(files)
           g == CHOOSE h : FilesUp(h, first)
<1>1. FilesUp(g, first)
  OBVIOUS
<1>2. Loaded(files) = FoldLeft(LAMBDA book, i : LoadFile(first, book, i), NoBook, Places)
  BY DEF Loaded, FirstOf, LoadFile, NoBook, Places
<1>3. FoldLeft(LAMBDA book, i : LoadFile(first, book, i), NoBook, Places) = g[DOMAIN FileOrder]
  BY DEF FoldLeft, MapThenFoldSet, FilesUp, Places
<1> QED
  BY <1>1, <1>2, <1>3

LEMMA FileFacts ==
  /\ Len(FileOrder) \in Nat /\ DOMAIN FileOrder = 1..Len(FileOrder)
  /\ \A i \in DOMAIN FileOrder : FileOrder[i] \in FileNames
  /\ \A f \in FileNames :
       /\ Len(Contents[f].groups) \in Nat /\ DOMAIN Contents[f].groups = 1..Len(Contents[f].groups)
       /\ \A i \in DOMAIN Contents[f].groups : Contents[f].groups[i] \in Group
<1>1. FileOrder \in Seq(FileNames) /\ \A f \in FileNames : Contents[f].groups \in Seq(Group)
  BY CsvAssumption
<1>2. \A S : \A q \in Seq(S) : /\ Len(q) \in Nat /\ DOMAIN q = 1..Len(q)
                               /\ \A i \in DOMAIN q : q[i] \in S
  OBVIOUS
<1> QED
  BY <1>1, <1>2

LEMMA FilesStayWithin ==
  ASSUME NEW files, NEW A, NoBook \in A,
         \A i \in DOMAIN FileOrder, b \in A : ImportFile(b.journal, b.periods, FileOrder[i]) \in A
  PROVE  Loaded(files) \in A
<1> DEFINE n == Len(FileOrder)
           first == FirstOf(files)
           step == [p \in (1..n) \X A |-> LoadFile(first, p[2], p[1])]
<1>1. n \in Nat /\ DOMAIN FileOrder = 1..n
  BY FileFacts
<1> HIDE DEF n
<1>2. \A i \in 1..n, b \in A : LoadFile(first, b, i) \in A
  BY <1>1 DEF LoadFile
<1> HIDE DEF first
<1>3. step \in [(1..n) \X A -> A] /\ \A i \in 1..n, b \in A : step[<<i, b>>] = LoadFile(first, b, i)
  BY <1>2
<1> HIDE DEF step
<1>4. PICK k \in [SUBSET (1..n) -> A] : FoldsUp(k, step, NoBook, n)
  BY <1>1, <1>3, FoldExists
<1>5. FilesUp(k, first)
  <2>1. \A s \in SUBSET (1..n) : s # {} => Max(s) \in 1..n /\ k[s \ {Max(s)}] \in A
    BY <1>1, <1>4, MaxOf
  <2>2. \A s \in SUBSET (1..n) :
          s # {} => /\ step[<<Max(s), k[s \ {Max(s)}]>>] = LoadFile(first, k[s \ {Max(s)}], Max(s))
                    /\ Places[Max(s)] = Max(s)
    BY <1>1, <1>3, <2>1 DEF Places
  <2>3. k = [s \in SUBSET (1..n) |-> IF s = {} THEN NoBook ELSE step[<<Max(s), k[s \ {Max(s)}]>>]]
    BY <1>4 DEF FoldsUp
  <2>4. \A s \in SUBSET (1..n) :
          k[s] = IF s = {} THEN NoBook ELSE LoadFile(first, k[s \ {Max(s)}], Places[Max(s)])
    BY <2>2, <2>3
  <2>5. k = [s \in SUBSET (1..n) |-> k[s]]
    BY <1>4
  <2> QED
    BY <1>1, <2>4, <2>5 DEF FilesUp
<1>6. PICK h : FilesUp(h, first) /\ Loaded(files) = h[1..n]
  BY <1>1, <1>5, FilesUnfold DEF first
<1>7. \A s \in SUBSET (1..n) :
        h[s] = IF s = {} THEN NoBook ELSE LoadFile(first, h[s \ {Max(s)}], Places[Max(s)])
  BY <1>1, <1>6 DEF FilesUp
<1>8. h[{}] = NoBook
  BY <1>1, <1>7, PrefixFacts
<1>9. \A i \in 1..n : h[1..i] = LoadFile(first, h[1..(i - 1)], i)
  <2> SUFFICES ASSUME NEW i \in 1..n PROVE h[1..i] = LoadFile(first, h[1..(i - 1)], i)
    OBVIOUS
  <2>1. 1..i \in SUBSET (1..n) /\ 1..i # {} /\ Max(1..i) = i /\ (1..i) \ {i} = 1..(i - 1)
    BY <1>1, PrefixFacts
  <2>2. h[1..i] = LoadFile(first, h[(1..i) \ {Max(1..i)}], Places[Max(1..i)])
    BY <1>7, <2>1
  <2>3. Places[i] = i
    BY <1>1 DEF Places
  <2> QED
    BY <2>1, <2>2, <2>3
<1>10. \A i \in 1..n : h[1..(i - 1)] \in A => h[1..i] \in A
  BY <1>2, <1>9
<1> QED
  BY <1>1, <1>6, <1>8, <1>10, FoldWithin

-----------------------------------------------------------------------------
(* Among one identifier more than are in use one is free. *)
LEMMA ClaimFacts ==
  ASSUME NEW base, NEW used, IsFiniteSet(used)
  PROVE  /\ ClaimIdentifier(base, used) \notin used
         /\ \E n \in Nat \ {0} : ClaimIdentifier(base, used) = <<base, n>>
<1> DEFINE c == Cardinality(used)
           free == {n \in 1..c + 1 : <<base, n>> \notin used}
<1>1. c \in Nat
  BY FS_CardinalityType
<1>2. free # {}
  <2> SUFFICES ASSUME free = {} PROVE FALSE
    OBVIOUS
  <2> DEFINE T == 1..c + 1
             f == [n \in T |-> <<base, n>>]
  <2>1. \A n \in T : <<base, n>> \in used
    OBVIOUS
  <2>2. f \in Injection(T, used)
    <3> HIDE DEF T
    <3>1. f \in [T -> used] /\ \A m, n \in T : f[m] = f[n] => m = n
      BY <2>1
    <3> QED
      BY <3>1 DEF Injection, IsInjective
  <2> HIDE DEF c
  <2>3. Cardinality(T) = c + 1
    BY <1>1, FS_Interval
  <2> HIDE DEF f, T
  <2>4. Cardinality(T) <= Cardinality(used)
    BY <2>2, FS_Injection
  <2> QED
    BY <1>1, <2>3, <2>4 DEF c
<1>3. \A n \in free : n \in Nat /\ n \in Nat \ {0} /\ <<base, n>> \notin used
  BY <1>1
<1>4. ClaimIdentifier(base, used) = <<base, Min(free)>>
  BY DEF ClaimIdentifier
<1> HIDE DEF free, c
<1>5. PICK m \in free : \A n \in free : m <= n
  BY <1>2, <1>3, LeastOf
<1>6. Min(free) \in free
  BY <1>5 DEF Min
<1> QED
  BY <1>3, <1>4, <1>6

UniqueIds(J)     == \A e, f \in J : e.id = f.id => e = f
UniqueNumbers(J) == \A e, f \in J : e.number = f.number => e = f

EntryKeys == ((Nat \X Nat) \X (Nat \ {0})) \X (STRING \X Nat)
CsvBooks  == [journal: SUBSET EntryOfFile, periods: SUBSET Nat, known: SUBSET EntryKeys]

GrownFrom(J) ==
    {b \in CsvBooks : /\ IsFiniteSet(b.journal) /\ J \subseteq b.journal /\ UniqueIds(b.journal)
                      /\ UniqueNumbers(J) => UniqueNumbers(b.journal)}

LEMMA GroupKeeps ==
  ASSUME NEW J, NEW b \in GrownFrom(J), NEW g \in Group
  PROVE  ImportGroup(b, g) \in GrownFrom(J)
<1> DEFINE ids     == {e.id : e \in b.journal}
           numbers == {e.number : e \in b.journal}
           key     == <<<<Base(g), 1>>, Signature(g)>>
           id      == ClaimIdentifier(Base(g), ids)
           number  == ClaimIdentifier(g.serial, numbers)
           entry   == [id |-> id, number |-> number, text |-> g.text,
                       amount |-> g.amount, posted |-> g.posted]
           new     == [journal |-> b.journal \union {entry}, periods |-> b.periods \union {g.month},
                       known   |-> b.known \union {key}]
<1>1. /\ b \in CsvBooks /\ IsFiniteSet(b.journal) /\ J \subseteq b.journal /\ UniqueIds(b.journal)
      /\ UniqueNumbers(J) => UniqueNumbers(b.journal)
  BY DEF GrownFrom
<1>2. \/ ImportGroup(b, g) = b
      \/ ImportGroup(b, g) = [b EXCEPT !.periods = @ \union {g.month}]
      \/ ImportGroup(b, g) = new
  BY DEF ImportGroup
<1>3. /\ g.month \in Nat /\ g.serial \in Nat /\ g.text \in STRING /\ g.amount \in Nat
      /\ g.posted \in BOOLEAN
  BY DEF Group
<1>4. CASE ImportGroup(b, g) = [b EXCEPT !.periods = @ \union {g.month}]
  BY <1>1, <1>3, <1>4 DEF GrownFrom, CsvBooks
<1>5. CASE ImportGroup(b, g) = new
  <2>1. IsFiniteSet(ids) /\ IsFiniteSet(numbers)
    <3> DEFINE J2 == b.journal
               f == [e \in J2 |-> e.id]
               h == [e \in J2 |-> e.number]
    <3>1. f \in Surjection(J2, ids) /\ h \in Surjection(J2, numbers)
      BY DEF Surjection
    <3> HIDE DEF f, h, ids, numbers
    <3> QED
      BY <1>1, <3>1, FS_Surjection
  <2>2. Base(g) \in Nat \X Nat /\ key \in EntryKeys
    BY <1>3 DEF Base, Signature, EntryKeys
  <2>3. id \notin ids /\ id \in (Nat \X Nat) \X (Nat \ {0})
    BY <2>1, <2>2, ClaimFacts
  <2>4. number \notin numbers /\ number \in Nat \X (Nat \ {0})
    BY <1>3, <2>1, ClaimFacts
  <2>5. entry \in EntryOfFile
    BY <1>3, <2>3, <2>4 DEF EntryOfFile
  <2>6. entry.id = id /\ entry.number = number
    OBVIOUS
  <2>7. \A e \in b.journal : e.id # id /\ e.number # number
    BY <2>3, <2>4
  <2> HIDE DEF entry, id, number, key, ids, numbers
  <2> DEFINE K == b.journal \union {entry}
  <2>8. UniqueIds(K)
    BY <1>1, <2>6, <2>7 DEF UniqueIds
  <2>9. UniqueNumbers(J) => UniqueNumbers(K)
    BY <1>1, <2>6, <2>7 DEF UniqueNumbers
  <2>10. IsFiniteSet(K)
    BY <1>1, FS_AddElement
  <2>11. new \in CsvBooks
    BY <1>1, <1>3, <2>2, <2>5 DEF CsvBooks
  <2>12. new.journal = K /\ J \subseteq K
    BY <1>1
  <2> HIDE DEF new, K
  <2> QED
    BY <1>5, <2>8, <2>9, <2>10, <2>11, <2>12 DEF GrownFrom
<1> HIDE DEF new
<1> QED
  BY <1>2, <1>4, <1>5

ProperJournal(J) == J \in SUBSET EntryOfFile /\ IsFiniteSet(J) /\ UniqueIds(J)

LEMMA FileKeeps ==
  ASSUME NEW J, ProperJournal(J), NEW ps \in SUBSET Nat, NEW f \in FileNames
  PROVE  ImportFile(J, ps, f) \in GrownFrom(J)
<1> DEFINE gs == Contents[f].groups
           n == Len(gs)
           base == [journal |-> J, periods |-> ps, known |-> KnownSignatures(J)]
<1>1. n \in Nat /\ DOMAIN gs = 1..n /\ \A i \in 1..n : gs[i] \in Group
  BY FileFacts
<1>2. base \in GrownFrom(J)
  <2>1. \A e \in EntryOfFile : <<e.id, Signature(e)>> \in EntryKeys
    BY DEF EntryOfFile, EntryKeys, Signature
  <2>2. KnownSignatures(J) \in SUBSET EntryKeys
    BY <2>1 DEF KnownSignatures, ProperJournal
  <2>3. base \in CsvBooks
    BY <2>2 DEF CsvBooks, ProperJournal
  <2> QED
    BY <2>3 DEF GrownFrom, ProperJournal
<1>3. ImportFile(J, ps, f) = FoldLeft(ImportGroup, base, gs)
  BY DEF ImportFile
<1> DEFINE A == GrownFrom(J)
<1> HIDE DEF base, n, gs
<1>4. \A i \in 1..n, b \in A : ImportGroup(b, gs[i]) \in A
  BY <1>1, GroupKeeps
<1>5. base \in A
  BY <1>2
<1> HIDE DEF A
<1>6. FoldLeft(ImportGroup, base, gs) \in A
  BY <1>1, <1>4, <1>5, GroupsStayWithin
<1> QED
  BY <1>3, <1>6 DEF A

LEMMA FileKeepsAll ==
  ASSUME NEW J, ProperJournal(J), NEW ps \in SUBSET Nat, NEW f \in FileNames
  PROVE  LET b == ImportFile(J, ps, f)
         IN  /\ ProperJournal(b.journal) /\ J \subseteq b.journal /\ b.periods \in SUBSET Nat
             /\ UniqueNumbers(J) => UniqueNumbers(b.journal)
BY FileKeeps DEF GrownFrom, CsvBooks, ProperJournal

LoadedBooks ==
    {b \in CsvBooks : ProperJournal(b.journal) /\ UniqueNumbers(b.journal)}

LEMMA LoadedFacts ==
  ASSUME NEW files
  PROVE  LET b == Loaded(files)
         IN  ProperJournal(b.journal) /\ UniqueNumbers(b.journal) /\ b.periods \in SUBSET Nat
<1>1. NoBook \in LoadedBooks
  BY FS_EmptySet DEF NoBook, LoadedBooks, CsvBooks, ProperJournal, UniqueIds, UniqueNumbers
<1>2. ASSUME NEW i \in DOMAIN FileOrder, NEW b \in LoadedBooks
      PROVE  ImportFile(b.journal, b.periods, FileOrder[i]) \in LoadedBooks
  <2>1. /\ ProperJournal(b.journal) /\ UniqueNumbers(b.journal) /\ b.periods \in SUBSET Nat
        /\ FileOrder[i] \in FileNames
    BY FileFacts DEF LoadedBooks, CsvBooks
  <2>2. ImportFile(b.journal, b.periods, FileOrder[i]) \in GrownFrom(b.journal)
    BY <2>1, FileKeeps
  <2> QED
    BY <2>1, <2>2 DEF GrownFrom, LoadedBooks, ProperJournal, CsvBooks
<1>3. Loaded(files) \in LoadedBooks
  BY <1>1, <1>2, FilesStayWithin
<1> QED
  BY <1>3 DEF LoadedBooks, CsvBooks

(* A file whose entries are there under their own names adds none. *)
LEMMA PlainFileAddsNone ==
  ASSUME NEW J, ProperJournal(J), NEW ps \in SUBSET Nat, NEW f \in FileNames,
         \A g \in Sound(f) : Holds(J, g, {1})
  PROVE  ImportFile(J, ps, f).journal = J
<1> DEFINE gs == Contents[f].groups
           n == Len(gs)
           base == [journal |-> J, periods |-> ps, known |-> KnownSignatures(J)]
           A == {[journal |-> J, periods |-> p, known |-> KnownSignatures(J)] : p \in SUBSET Nat}
<1>1. n \in Nat /\ DOMAIN gs = 1..n /\ \A i \in 1..n : gs[i] \in Group
  BY FileFacts
<1>2. base \in A
  OBVIOUS
<1>3. ImportFile(J, ps, f) = FoldLeft(ImportGroup, base, gs)
  BY DEF ImportFile
<1>4. ASSUME NEW i \in 1..n, NEW b \in A PROVE ImportGroup(b, gs[i]) \in A
  <2> DEFINE g == gs[i]
             key == <<<<Base(g), 1>>, Signature(g)>>
  <2>1. PICK p \in SUBSET Nat : b = [journal |-> J, periods |-> p, known |-> KnownSignatures(J)]
    BY <1>4
  <2>2. g \in Group /\ g.month \in Nat
    BY <1>1 DEF Group
  <2>3. CASE ~g.sound
    BY <2>3 DEF ImportGroup
  <2>4. CASE g.sound
    <3>1. g \in Sound(f)
      BY <1>1, <2>4 DEF Sound, Range
    <3>2. PICK e \in J : e.id[1] = Base(g) /\ e.id[2] \in {1} /\ Signature(e) = Signature(g)
      BY <3>1 DEF Holds
    <3>3. e.id \in (Nat \X Nat) \X (Nat \ {0})
      BY <3>2 DEF ProperJournal, EntryOfFile
    <3>4. e.id = <<Base(g), 1>>
      BY <3>2, <3>3
    <3>5. key \in KnownSignatures(J)
      BY <3>2, <3>4 DEF KnownSignatures
    <3>6. ImportGroup(b, g) = [b EXCEPT !.periods = @ \union {g.month}]
      BY <2>1, <2>4, <3>5 DEF ImportGroup
    <3>7. ImportGroup(b, g)
            = [journal |-> J, periods |-> p \union {g.month}, known |-> KnownSignatures(J)]
      BY <2>1, <3>6
    <3>8. p \union {g.month} \in SUBSET Nat
      BY <2>2
    <3> QED
      BY <3>7, <3>8
  <2> QED
    BY <2>3, <2>4
<1> HIDE DEF A, n, gs, base
<1>5. FoldLeft(ImportGroup, base, gs) \in A
  BY <1>1, <1>2, <1>4, GroupsStayWithin
<1> QED
  BY <1>3, <1>5 DEF A

-----------------------------------------------------------------------------
PostedIn(J) == [e \in J |-> IF e.posted THEN e.amount ELSE 0]

LEMMA PostedSumIs ==
  ASSUME NEW J
  PROVE  PostedSum(J) = SumOver(PostedIn(J), J)
BY DEF PostedSum, PostedIn, SumOver

LEMMA PostedSums ==
  ASSUME NEW J, NEW K, ProperJournal(K), J \subseteq K
  PROVE  /\ PostedSum(J) \in Nat /\ PostedSum(K) \in Nat
         /\ PostedSum(K) = PostedSum(J) + PostedSum(K \ J)
<1>1. \A e \in K : PostedIn(K)[e] \in Nat /\ PostedIn(K)[e] \in Int
  BY DEF PostedIn, ProperJournal, EntryOfFile
<1>2. \A S \in SUBSET K : /\ IsFiniteSet(S)
                          /\ \A e \in S : PostedIn(S)[e] = PostedIn(K)[e] /\ PostedIn(S)[e] \in Nat
  BY <1>1, FS_Subset DEF PostedIn, ProperJournal
<1>3. \A S \in SUBSET K : PostedSum(S) \in Nat /\ PostedSum(S) = SumOver(PostedIn(K), S)
  <2> SUFFICES ASSUME NEW S \in SUBSET K
               PROVE  PostedSum(S) \in Nat /\ PostedSum(S) = SumOver(PostedIn(K), S)
    OBVIOUS
  <2>1. SumOver(PostedIn(S), S) \in Nat
    BY <1>2, SumAtLeastZero
  <2>2. SumOver(PostedIn(S), S) = SumOver(PostedIn(K), S)
    <3>1. IsFiniteSet(S) /\ \A e \in S : PostedIn(S)[e] = PostedIn(K)[e] /\ PostedIn(K)[e] \in Int
      BY <1>1, <1>2
    <3> QED
      BY <3>1, SumSame
  <2> QED
    BY <2>1, <2>2, PostedSumIs
<1> DEFINE L == K \ J
<1>4. IsFiniteSet(J) /\ IsFiniteSet(L) /\ J \intersect L = {} /\ J \union L = K /\ L \in SUBSET K
  BY <1>2
<1> HIDE DEF L
<1>5. SumOver(PostedIn(K), J \union L) = SumOver(PostedIn(K), J) + SumOver(PostedIn(K), L)
  BY <1>1, <1>4, SumUnion
<1>6. PostedSum(K) = PostedSum(J) + PostedSum(L)
  BY <1>3, <1>4, <1>5
<1> QED
  BY <1>3, <1>6 DEF L

-----------------------------------------------------------------------------
(* The inductive invariant: before the database is seeded it is empty, and   *)
(* while no file comes afterwards it holds what the folder gives.            *)
CsvTyped ==
    /\ folder \subseteq FileNames /\ ProperJournal(journal) /\ ProperJournal(rows)
    /\ periods \in SUBSET Nat /\ balance \in Nat /\ opening \in Nat \union {NotSeeded}
    /\ grown \in BOOLEAN /\ boots \in Nat /\ uploads \in Nat

CsvInv ==
    /\ CsvTyped
    /\ UniqueNumbers(rows)
    /\ opening = NotSeeded => ~grown
    /\ ~grown /\ opening # NotSeeded =>
         rows = Loaded(folder).journal /\ opening = PostedSum(rows)
    /\ ~grown => balance = PostedSum(journal)

LEMMA CsvInitOk ==
  ASSUME CsvInit
  PROVE  CsvInv
<1>1. ProperJournal({}) /\ UniqueNumbers({}) /\ PostedSum({}) = 0
  <2>1. ProperJournal({}) /\ UniqueNumbers({})
    BY FS_EmptySet DEF ProperJournal, UniqueIds, UniqueNumbers
  <2>2. SumOver(PostedIn({}), {}) = 0
    BY SumZero, FS_EmptySet
  <2> QED
    BY <2>1, <2>2, PostedSumIs
<1> QED
  BY <1>1 DEF CsvInit, CsvInv, CsvTyped

LEMMA MemoryStartKeeps ==
  ASSUME CsvInv, StartInMemory
  PROVE  CsvInv'
<1> DEFINE J == Loaded(folder).journal
<1>1. ProperJournal(J) /\ Loaded(folder).periods \in SUBSET Nat /\ PostedSum(J) \in Nat
  BY LoadedFacts, PostedSums
<1>2. /\ journal' = J /\ periods' = Loaded(folder).periods /\ balance' = PostedSum(J)
      /\ boots' = boots + 1 /\ uploads' = 0 /\ UNCHANGED <<folder, grown, rows, opening>>
  BY DEF StartInMemory, Booted
<1> HIDE DEF J
<1>3. boots' \in Nat /\ uploads' \in Nat
  BY <1>2 DEF CsvInv, CsvTyped
<1>4. CsvTyped'
  BY <1>1, <1>2, <1>3 DEF CsvInv, CsvTyped
<1> QED
  BY <1>2, <1>4 DEF CsvInv

LEMMA SeedKeeps ==
  ASSUME CsvInv, StartAndSeed
  PROVE  CsvInv'
<1> DEFINE J == Loaded(folder).journal
<1>1. /\ ProperJournal(J) /\ UniqueNumbers(J) /\ Loaded(folder).periods \in SUBSET Nat
      /\ PostedSum(J) \in Nat
  BY LoadedFacts, PostedSums
<1>2. /\ journal' = J /\ periods' = Loaded(folder).periods /\ balance' = PostedSum(J)
      /\ rows' = J /\ opening' = PostedSum(J) /\ opening = NotSeeded
      /\ boots' = boots + 1 /\ uploads' = 0 /\ UNCHANGED <<folder, grown>>
      /\ Loaded(folder').journal = J
  BY DEF StartAndSeed, Booted
<1> HIDE DEF J
<1>3. boots' \in Nat /\ uploads' \in Nat
  BY <1>2 DEF CsvInv, CsvTyped
<1>4. CsvTyped'
  BY <1>1, <1>2, <1>3 DEF CsvInv, CsvTyped
<1> QED
  BY <1>1, <1>2, <1>4 DEF CsvInv

LEMMA MergeKeeps ==
  ASSUME CsvInv, StartAndMerge
  PROVE  CsvInv'
<1> DEFINE J == Loaded(folder).journal
           merged == IF rows = {} THEN J ELSE rows \union Missing
<1>1. ProperJournal(J) /\ UniqueNumbers(J) /\ Loaded(folder).periods \in SUBSET Nat
  BY LoadedFacts
<1>2. /\ journal' = merged /\ periods' = Loaded(folder).periods
      /\ balance' = opening /\ opening # NotSeeded /\ rows' = rows \union Storable
      /\ boots' = boots + 1 /\ uploads' = 0 /\ UNCHANGED <<folder, grown, opening>>
      /\ Loaded(folder').journal = J
  BY DEF StartAndMerge, Booted
<1>3. /\ Missing \subseteq J /\ \A e \in Missing, r \in rows : r.id # e.id
      /\ Storable \subseteq Missing /\ \A e \in Storable, r \in rows : r.number # e.number
      /\ (rows = J => Missing = {})
  BY DEF Missing, Storable
<1> HIDE DEF J
<1>4. ProperJournal(rows) /\ UniqueNumbers(rows)
  BY DEF CsvInv, CsvTyped
<1>5. ASSUME NEW M \in SUBSET J, \A e \in M, r \in rows : r.id # e.id
      PROVE  ProperJournal(rows \union M)
  <2>1. IsFiniteSet(M) /\ IsFiniteSet(rows \union M)
    BY <1>1, <1>4, FS_Subset, FS_Union DEF ProperJournal
  <2>2. UniqueIds(rows \union M)
    BY <1>1, <1>4, <1>5 DEF ProperJournal, UniqueIds
  <2> QED
    BY <1>1, <1>4, <2>1, <2>2 DEF ProperJournal
<1>6. ProperJournal(rows \union Missing) /\ ProperJournal(rows \union Storable)
  BY <1>3, <1>5
<1>7. UniqueNumbers(rows \union Storable)
  BY <1>1, <1>3, <1>4 DEF UniqueNumbers
<1>8. ProperJournal(merged)
  BY <1>1, <1>6
<1>9. rows = J => merged = J /\ rows \union Storable = J
  BY <1>3
<1> HIDE DEF merged
<1>10. boots' \in Nat /\ uploads' \in Nat /\ balance' \in Nat
  BY <1>2 DEF CsvInv, CsvTyped
<1>11. CsvTyped'
  BY <1>1, <1>2, <1>6, <1>8, <1>10 DEF CsvInv, CsvTyped
<1>12. ~grown => rows = J /\ opening = PostedSum(J)
  BY <1>2 DEF CsvInv, J
<1> QED
  BY <1>2, <1>7, <1>9, <1>11, <1>12 DEF CsvInv

LEMMA UploadKeeps ==
  ASSUME CsvInv, NEW f \in FileNames, Upload(f)
  PROVE  CsvInv'
<1> DEFINE K == ImportFile(journal, periods, f).journal
<1>1. ProperJournal(journal) /\ periods \in SUBSET Nat
  BY DEF CsvInv, CsvTyped
<1>2. /\ ProperJournal(K) /\ journal \subseteq K
      /\ ImportFile(journal, periods, f).periods \in SUBSET Nat
  BY <1>1, FileKeepsAll
<1>3. /\ journal' = K /\ periods' = ImportFile(journal, periods, f).periods
      /\ balance' = balance + PostedSum(K \ journal) /\ uploads' = uploads + 1
      /\ UNCHANGED <<folder, rows, opening, grown, boots>>
  BY DEF Upload
<1> HIDE DEF K
<1>4. /\ PostedSum(K) = PostedSum(journal) + PostedSum(K \ journal)
  BY <1>2, PostedSums
<1>5. PostedSum(K \ journal) \in Nat
  <2>1. K \ journal \subseteq K
    OBVIOUS
  <2> QED
    BY <1>2, <2>1, PostedSums
<1>6. uploads' \in Nat /\ balance' \in Nat
  BY <1>3, <1>5 DEF CsvInv, CsvTyped
<1>7. CsvTyped'
  BY <1>2, <1>3, <1>6 DEF CsvInv, CsvTyped
<1>8. ~grown => balance' = PostedSum(journal')
  BY <1>3, <1>4 DEF CsvInv
<1> QED
  BY <1>3, <1>7, <1>8 DEF CsvInv

LEMMA CsvNextKeeps ==
  ASSUME CsvInv, [CsvNext]_csvVars
  PROVE  CsvInv'
<1>1. CASE StartInMemory
  BY <1>1, MemoryStartKeeps
<1>2. CASE StartAndSeed
  BY <1>2, SeedKeeps
<1>3. CASE StartAndMerge
  BY <1>3, MergeKeeps
<1>4. CASE ApplyUnifiedChart
  <2>1. ProperJournal({}) /\ PostedSum({}) = 0
    <3>1. ProperJournal({})
      BY FS_EmptySet DEF ProperJournal, UniqueIds
    <3>2. SumOver(PostedIn({}), {}) = 0
      BY SumZero, FS_EmptySet
    <3> QED
      BY <3>1, <3>2, PostedSumIs
  <2> QED
    BY <1>4, <2>1 DEF ApplyUnifiedChart, CsvInv, CsvTyped
<1>5. ASSUME NEW f \in FileNames, Upload(f) PROVE CsvInv'
  BY <1>5, UploadKeeps
<1>6. ASSUME NEW f \in FileNames, AddFile(f) PROVE CsvInv'
  BY <1>6 DEF AddFile, CsvInv, CsvTyped
<1>7. CASE UNCHANGED csvVars
  BY <1>7 DEF csvVars, CsvInv, CsvTyped
<1> QED
  BY <1>1, <1>2, <1>3, <1>4, <1>5, <1>6, <1>7 DEF CsvNext

LEMMA CsvSafe ==
  ASSUME CsvInv
  PROVE  CsvTypeOK /\ CsvSound
<1>1. CsvTypeOK
  BY DEF CsvInv, CsvTyped, CsvTypeOK, ProperJournal
<1>2. Identified
  BY DEF CsvInv, CsvTyped, Identified, ProperJournal, UniqueIds, UniqueNumbers
<1>3. StartsAgree
  BY DEF CsvInv, StartsAgree
<1>4. PlainFilesOnce
  BY PlainFileAddsNone DEF CsvInv, CsvTyped, PlainFilesOnce
<1> QED
  BY <1>1, <1>2, <1>3, <1>4 DEF CsvSound

-----------------------------------------------------------------------------
(* The chart as it may be at any time.                                       *)
ProperAccount(x) ==
    /\ x = [code |-> x.code, parent |-> x.parent, level |-> x.level,
            type |-> x.type, isParent |-> x.isParent]
    /\ x.level \in Nat \ {0} /\ x.isParent \in BOOLEAN

(* Headings of groups stay headings of level 2; no account is put under one  *)
(* that came later, but for imported accounts.                               *)
Anchored(x, a, n) ==
    \/ Imported(a) \/ x.level <= 2 \/ IsGroup(x.parent)
    \/ \E i \in 1..n : /\ a = AddedId(Moments[i])
                       /\ \A j \in 1..Len(Moments) : x.parent = AddedId(Moments[j]) => j < i

ProperChart(c, n) ==
    /\ IsFiniteSet(DOMAIN c) /\ c = [a \in DOMAIN c |-> c[a]]
    /\ \A a \in DOMAIN c : /\ ProperAccount(c[a]) /\ Anchored(c[a], a, n)
                           /\ IsGroup(a) => c[a].isParent /\ c[a].level = 2
    /\ \A j \in 1..Len(Moments) : AddedId(Moments[j]) \in DOMAIN c => j <= n

OnlyGroupsHead(c) == \A a \in DOMAIN c : c[a].isParent => IsGroup(a)
HeadsHaveChildren(c) ==
    \A a \in DOMAIN c : c[a].isParent /\ ~IsGroup(a) => \E b \in DOMAIN c : c[b].parent = a

ProperEntry(e) ==
    /\ e = Entry(e.debit, e.credit, e.amount, e.status)
    /\ e.amount \in Nat /\ ~IsGroup(e.debit) /\ ~IsGroup(e.credit)

ProperEntries ==
    /\ entries = [e \in DOMAIN entries |-> entries[e]]
    /\ \E k \in Nat : DOMAIN entries = 1..k /\ k <= MaxWork
    /\ \A e \in DOMAIN entries : ProperEntry(entries[e])
    /\ inMemory \subseteq DOMAIN entries /\ recalled \subseteq inMemory

GroupsHead(c) == \A a \in DOMAIN c : ProperAccount(c[a]) /\ (IsGroup(a) => c[a].isParent)

Followed ==
    /\ replaced => recalled = {}
    /\ ~replaced =>
         /\ DOMAIN index \subseteq DOMAIN chart
         /\ DOMAIN stored \subseteq DOMAIN chart
         /\ DOMAIN UnifiedChart(disk) \subseteq DOMAIN chart
         /\ \A e \in inMemory \ recalled : LinesOf(e) \subseteq DOMAIN chart

ChartInv ==
    /\ added \in 0..Len(Moments)
    /\ ProperChart(chart, added) /\ HeadsHaveChildren(chart)
    /\ ProperChart(stored, added) /\ OnlyGroupsHead(stored)
    /\ GroupsHead(index) /\ disk \in Files \union {FirstFile}
    /\ ProperEntries /\ Followed

LEMMA MomentFacts ==
  /\ Len(Moments) \in Nat /\ DOMAIN Moments = 1..Len(Moments) /\ MaxWork \in Nat
  /\ \A i, j \in 1..Len(Moments) : AddedId(Moments[i]) = AddedId(Moments[j]) => i = j
<1>1. /\ Moments \in Seq(STRING) /\ \A i, j \in DOMAIN Moments : Moments[i] = Moments[j] => i = j
      /\ MaxWork \in Nat
  BY ChartAssumption
<1>2. Len(Moments) \in Nat /\ DOMAIN Moments = 1..Len(Moments)
  BY <1>1
<1> QED
  BY <1>1, <1>2 DEF AddedId

LEMMA KindsDiffer ==
  ASSUME NEW x, NEW y
  PROVE  /\ IsGroup(GroupId(x)) /\ ~IsGroup(UnifiedId(x)) /\ ~IsGroup(ImportedId(x)) /\ ~IsGroup(AddedId(x))
         /\ Imported(ImportedId(x)) /\ ~Imported(AddedId(x)) /\ ~IsGroup(NoAccount)
         /\ GroupId(x) # AddedId(y) /\ UnifiedId(x) # AddedId(y) /\ ImportedId(x) # AddedId(y)
         /\ NoAccount # AddedId(y) /\ GroupId(x) # UnifiedId(y)
BY DEF IsGroup, Imported, GroupId, UnifiedId, ImportedId, AddedId, NoAccount

LEMMA OverFacts ==
  ASSUME NEW f, NEW g
  PROVE  /\ DOMAIN Over(f, g) = DOMAIN f \union DOMAIN g
         /\ \A a \in DOMAIN f : Over(f, g)[a] = f[a]
         /\ \A a \in DOMAIN g : a \notin DOMAIN f => Over(f, g)[a] = g[a]
         /\ Over(f, g) = [a \in DOMAIN Over(f, g) |-> Over(f, g)[a]]
BY DEF Over

LEMMA WithFacts ==
  ASSUME NEW f, NEW a, NEW x
  PROVE  /\ DOMAIN With(f, a, x) = DOMAIN f \union {a}
         /\ \A b \in DOMAIN f : With(f, a, x)[b] = f[b]
         /\ a \notin DOMAIN f => With(f, a, x)[a] = x
         /\ With(f, a, x) = [b \in DOMAIN With(f, a, x) |-> With(f, a, x)[b]]
BY DEF With, Over

LEMMA AccountIs ==
  ASSUME NEW code, NEW parent, NEW level \in Nat \ {0}, NEW type, NEW heading \in BOOLEAN, NEW x,
         x = AccountOf(code, parent, level, type, heading)
  PROVE  /\ x.code = code /\ x.parent = parent /\ x.level = level
         /\ x.type = type /\ (x.isParent <=> heading) /\ ProperAccount(x)
BY DEF AccountOf, ProperAccount

-----------------------------------------------------------------------------
(* The chart of a file. *)
LEMMA UnifiedFacts ==
  ASSUME NEW file \in Files \union {FirstFile}
  PROVE  LET c == UnifiedChart(file)
         IN  /\ ProperChart(c, 0) /\ OnlyGroupsHead(c)
<1> DEFINE c == UnifiedChart(file)
           G == {GroupId(r.group) : r \in file}
           U == {UnifiedId(r.code) : r \in file}
           heads == [a \in G |->
                      LET child == CHOOSE r \in file : GroupId(r.group) = a
                      IN  AccountOf(child.group, NoAccount, 2, child.type, TRUE)]
           under == [a \in U |->
                      LET row == CHOOSE r \in file : UnifiedId(r.code) = a
                      IN  AccountOf(row.code, GroupId(row.group), 3, row.type, FALSE)]
<1>1. c = Over(heads, under)
  BY DEF UnifiedChart
<1>2. IsFiniteSet(G) /\ IsFiniteSet(U)
  <2> DEFINE f == [r \in file |-> GroupId(r.group)]
             h == [r \in file |-> UnifiedId(r.code)]
  <2>1. f \in Surjection(file, G) /\ h \in Surjection(file, U)
    BY DEF Surjection
  <2>2. IsFiniteSet(file)
    BY ChartAssumption
  <2> HIDE DEF f, h, G, U
  <2> QED
    BY <2>1, <2>2, FS_Surjection
<1>3. ASSUME NEW a \in G
      PROVE  /\ IsGroup(a) /\ ProperAccount(heads[a]) /\ heads[a].isParent /\ heads[a].level = 2
             /\ a \notin U /\ \A y : a # AddedId(y)
  <2>1. PICK r \in file : a = GroupId(r.group)
    OBVIOUS
  <2>2. /\ IsGroup(a) /\ a \notin U /\ \A y : a # AddedId(y)
    BY <2>1, KindsDiffer
  <2>3. PICK g, t : heads[a] = AccountOf(g, NoAccount, 2, t, TRUE)
    OBVIOUS
  <2> HIDE DEF heads
  <2> QED
    <3>1. 2 \in Nat \ {0} /\ TRUE \in BOOLEAN
      OBVIOUS
    <3>2. ProperAccount(heads[a]) /\ heads[a].isParent /\ heads[a].level = 2
      BY <2>3 DEF AccountOf, ProperAccount
    <3> QED
      BY <2>2, <3>2
<1>4. ASSUME NEW a \in U
      PROVE  /\ ~IsGroup(a) /\ ProperAccount(under[a]) /\ ~under[a].isParent
             /\ IsGroup(under[a].parent) /\ \A y : a # AddedId(y)
  <2>1. PICK r \in file : a = UnifiedId(r.code)
    OBVIOUS
  <2>2. ~IsGroup(a) /\ \A y : a # AddedId(y)
    BY <2>1, KindsDiffer
  <2>3. PICK d, g, t : under[a] = AccountOf(d, GroupId(g), 3, t, FALSE)
    OBVIOUS
  <2>4. IsGroup(under[a].parent) /\ ~under[a].isParent /\ ProperAccount(under[a])
    <3> HIDE DEF under
    <3>1. 3 \in Nat \ {0} /\ FALSE \in BOOLEAN
      OBVIOUS
    <3>2. under[a].parent = GroupId(g) /\ ~under[a].isParent /\ ProperAccount(under[a])
      BY <2>3 DEF AccountOf, ProperAccount
    <3> QED
      BY <3>2, KindsDiffer
  <2> QED
    BY <2>2, <2>4
<1>5. /\ DOMAIN c = G \union U /\ IsFiniteSet(DOMAIN c)
      /\ \A a \in G : c[a] = heads[a]
      /\ \A a \in U : a \notin G => c[a] = under[a]
      /\ c = [a \in DOMAIN c |-> c[a]]
  <2>1. DOMAIN heads = G /\ DOMAIN under = U
    OBVIOUS
  <2> HIDE DEF heads, under, c
  <2>2. /\ DOMAIN c = DOMAIN heads \union DOMAIN under
        /\ \A a \in DOMAIN heads : c[a] = heads[a]
        /\ \A a \in DOMAIN under : a \notin DOMAIN heads => c[a] = under[a]
        /\ c = [a \in DOMAIN c |-> c[a]]
    BY <1>1 DEF Over
  <2>3. IsFiniteSet(G \union U)
    BY <1>2, FS_Union
  <2> QED
    BY <2>1, <2>2, <2>3
<1> HIDE DEF heads, under, c, G, U
<1>6. \A a \in DOMAIN c : \A y : a # AddedId(y)
  BY <1>3, <1>4, <1>5
<1>7. ASSUME NEW a \in DOMAIN c
      PROVE  /\ ProperAccount(c[a]) /\ Anchored(c[a], a, 0)
             /\ (IsGroup(a) => c[a].isParent /\ c[a].level = 2)
             /\ (c[a].isParent => IsGroup(a))
  <2>1. CASE a \in G
    <3>1. c[a] = heads[a]
      BY <1>5, <2>1
    <3> QED
      BY <1>3, <2>1, <3>1 DEF Anchored
  <2>2. CASE a \in U
    <3>1. c[a] = under[a]
      BY <1>3, <1>5, <2>2
    <3> QED
      BY <1>4, <2>2, <3>1 DEF Anchored
  <2> QED
    BY <1>5, <2>1, <2>2
<1> QED
  BY <1>5, <1>6, <1>7 DEF ProperChart, OnlyGroupsHead, c

LEMMA ProperLater ==
  ASSUME NEW n \in Nat, NEW m \in Nat, n <= m, NEW c, ProperChart(c, n)
  PROVE  ProperChart(c, m)
<1>1. \A i \in 1..n : i \in 1..m
  OBVIOUS
<1>2. \A a \in DOMAIN c : Anchored(c[a], a, m)
  BY <1>1 DEF ProperChart, Anchored
<1>3. \A j \in 1..Len(Moments) : AddedId(Moments[j]) \in DOMAIN c => j <= m
  BY MomentFacts DEF ProperChart
<1> QED
  BY <1>2, <1>3 DEF ProperChart

LEMMA OverKeeps ==
  ASSUME NEW n, NEW f, NEW g, ProperChart(f, n), ProperChart(g, n)
  PROVE  /\ ProperChart(Over(f, g), n)
         /\ OnlyGroupsHead(f) /\ OnlyGroupsHead(g) => OnlyGroupsHead(Over(f, g))
<1> DEFINE c == Over(f, g)
<1>1. /\ DOMAIN c = DOMAIN f \union DOMAIN g /\ c = [a \in DOMAIN c |-> c[a]]
      /\ \A a \in DOMAIN c : \/ a \in DOMAIN f /\ c[a] = f[a]
                             \/ a \in DOMAIN g /\ c[a] = g[a]
  BY DEF Over
<1> HIDE DEF c
<1>2. IsFiniteSet(DOMAIN c)
  <2>1. IsFiniteSet(DOMAIN f) /\ IsFiniteSet(DOMAIN g)
    BY DEF ProperChart
  <2>2. IsFiniteSet(DOMAIN f \union DOMAIN g)
    BY <2>1, FS_Union
  <2> QED
    BY <1>1, <2>2
<1>3. \A a \in DOMAIN c : /\ ProperAccount(c[a]) /\ Anchored(c[a], a, n)
                          /\ IsGroup(a) => c[a].isParent /\ c[a].level = 2
  BY <1>1 DEF ProperChart
<1>4. \A j \in 1..Len(Moments) : AddedId(Moments[j]) \in DOMAIN c => j <= n
  BY <1>1 DEF ProperChart
<1>5. OnlyGroupsHead(f) /\ OnlyGroupsHead(g) => OnlyGroupsHead(c)
  BY <1>1 DEF OnlyGroupsHead
<1>6. ProperChart(c, n)
  BY <1>1, <1>2, <1>3, <1>4 DEF ProperChart
<1> QED
  BY <1>5, <1>6 DEF c

LEMMA RestrictKeeps ==
  ASSUME NEW n, NEW f, ProperChart(f, n), NEW S, S \subseteq DOMAIN f
  PROVE  /\ ProperChart(Restrict(f, S), n) /\ DOMAIN Restrict(f, S) = S
         /\ OnlyGroupsHead(f) => OnlyGroupsHead(Restrict(f, S))
<1> DEFINE c == Restrict(f, S)
<1>1. DOMAIN c = S /\ c = [a \in DOMAIN c |-> c[a]] /\ \A a \in S : c[a] = f[a] /\ a \in DOMAIN f
  BY DEF Restrict
<1> HIDE DEF c
<1>2. IsFiniteSet(DOMAIN c)
  BY <1>1, FS_Subset DEF ProperChart
<1>3. ProperChart(c, n)
  BY <1>1, <1>2 DEF ProperChart
<1>4. OnlyGroupsHead(f) => OnlyGroupsHead(c)
  BY <1>1 DEF OnlyGroupsHead
<1> QED
  BY <1>1, <1>3, <1>4 DEF c

LEMMA WithKeeps ==
  ASSUME NEW n, NEW c, ProperChart(c, n), NEW a, NEW x, ProperAccount(x), Anchored(x, a, n),
         ~IsGroup(a), \A j \in 1..Len(Moments) : a = AddedId(Moments[j]) => j <= n
  PROVE  ProperChart(With(c, a, x), n)
<1> DEFINE d == With(c, a, x)
<1>1. /\ DOMAIN d = DOMAIN c \union {a} /\ d = [b \in DOMAIN d |-> d[b]]
      /\ \A b \in DOMAIN d : \/ b \in DOMAIN c /\ d[b] = c[b]
                             \/ b = a /\ d[b] = x
  BY DEF With, Over
<1> HIDE DEF d
<1>2. IsFiniteSet(DOMAIN d)
  BY <1>1, FS_AddElement DEF ProperChart
<1>3. \A b \in DOMAIN d : /\ ProperAccount(d[b]) /\ Anchored(d[b], b, n)
                          /\ IsGroup(b) => d[b].isParent /\ d[b].level = 2
  BY <1>1 DEF ProperChart
<1>4. \A j \in 1..Len(Moments) : AddedId(Moments[j]) \in DOMAIN d => j <= n
  BY <1>1 DEF ProperChart
<1>5. ProperChart(d, n)
  BY <1>1, <1>2, <1>3, <1>4 DEF ProperChart
<1> QED
  BY <1>5 DEF d

LEMMA HeadedFacts ==
  ASSUME NEW n, NEW c, ProperChart(c, n), NEW p
  PROVE  /\ ProperChart(Headed(c, p), n) /\ DOMAIN Headed(c, p) = DOMAIN c
         /\ \A a \in DOMAIN c : /\ Headed(c, p)[a].parent = c[a].parent
                                /\ Headed(c, p)[a].isParent => c[a].isParent \/ a = p
<1>1. CASE p \notin DOMAIN c
  BY <1>1 DEF Headed
<1>2. CASE p \in DOMAIN c
  <2> DEFINE d == Headed(c, p)
  <2>1. d = [c EXCEPT ![p] = [c[p] EXCEPT !.isParent = TRUE]]
    BY <1>2 DEF Headed
  <2>2. /\ DOMAIN d = DOMAIN c /\ d = [a \in DOMAIN d |-> d[a]]
        /\ d[p] = [c[p] EXCEPT !.isParent = TRUE]
        /\ \A a \in DOMAIN c : a # p => d[a] = c[a]
    BY <1>2, <2>1 DEF ProperChart
  <2>3. /\ ProperAccount(d[p]) /\ d[p].isParent /\ d[p].parent = c[p].parent
        /\ d[p].level = c[p].level
    <3>1. ProperAccount(c[p])
      BY <1>2 DEF ProperChart
    <3> HIDE DEF d
    <3> QED
      BY <2>2, <3>1 DEF ProperAccount
  <2> HIDE DEF d
  <2>4. \A a \in DOMAIN c : /\ ProperAccount(d[a]) /\ d[a].parent = c[a].parent
                            /\ d[a].level = c[a].level /\ (c[a].isParent => d[a].isParent)
                            /\ (d[a].isParent => c[a].isParent \/ a = p)
    BY <2>2, <2>3 DEF ProperChart
  <2>5. \A a \in DOMAIN c : Anchored(d[a], a, n)
    BY <2>4 DEF ProperChart, Anchored
  <2>6. ProperChart(d, n)
    BY <2>2, <2>4, <2>5 DEF ProperChart
  <2> QED
    BY <2>2, <2>4, <2>6 DEF d
<1> QED
  BY <1>1, <1>2

-----------------------------------------------------------------------------
(* The steps. What the index becomes is the index or the chart.              *)
LEMMA IndexChosen ==
  ASSUME NEW idx, NEW ref
  PROVE  IndexAfter(idx, ref) = idx \/ IndexAfter(idx, ref) = chart
BY DEF IndexAfter, IndexById, IndexByCode

LEMMA IndexKeeps ==
  ASSUME ChartInv, NEW idx, idx = index \/ idx = chart
  PROVE  GroupsHead(idx) /\ (~replaced => DOMAIN idx \subseteq DOMAIN chart)
BY DEF ChartInv, Followed, GroupsHead, ProperChart

LEMMA FoundIsAccount ==
  ASSUME NEW idx, GroupsHead(idx), NEW ref, NEW a \in Postings(idx, ref)
  PROVE  a \in DOMAIN idx /\ ~IsGroup(a)
BY DEF Postings, FoundBy, GroupsHead

LEMMA LookUpKeeps ==
  ASSUME ChartInv, NEW ref, LookUp(ref)
  PROVE  ChartInv'
<1>1. /\ index' = index \/ index' = chart
      /\ UNCHANGED <<chart, stored, disk, added, replaced, entries, inMemory, recalled>>
  BY IndexChosen DEF LookUp, Built
<1>2. GroupsHead(index') /\ (~replaced => DOMAIN index' \subseteq DOMAIN chart)
  BY <1>1, IndexKeeps
<1>3. ProperEntries'
  BY <1>1 DEF ChartInv, ProperEntries
<1>4. Followed'
  BY <1>1, <1>2 DEF ChartInv, Followed, LinesOf
<1> QED
  BY <1>1, <1>2, <1>3, <1>4 DEF ChartInv

(* A chart with more accounts, under which entries and index stay.           *)
LEMMA MoreAccounts ==
  ASSUME ChartInv, UNCHANGED <<disk, replaced, entries, inMemory, recalled>>,
         DOMAIN chart \subseteq DOMAIN chart', added' \in 0..Len(Moments),
         ProperChart(chart', added'), HeadsHaveChildren(chart'),
         ProperChart(stored', added'), OnlyGroupsHead(stored'),
         DOMAIN stored' \subseteq DOMAIN stored \union DOMAIN chart',
         GroupsHead(index'), DOMAIN index' = DOMAIN index
  PROVE  ChartInv'
<1>1. ProperEntries'
  BY DEF ChartInv, ProperEntries
<1>2. Followed'
  BY DEF ChartInv, Followed, LinesOf
<1> QED
  BY <1>1, <1>2 DEF ChartInv

LEMMA NewChild ==
  ASSUME NEW c, NEW d, DOMAIN c \subseteq DOMAIN d, HeadsHaveChildren(c),
         \A a \in DOMAIN c : d[a].parent = c[a].parent,
         NEW p, NEW b \in DOMAIN d, d[b].parent = p \/ p \notin DOMAIN c,
         \A a \in DOMAIN d : d[a].isParent => a \in DOMAIN c /\ (c[a].isParent \/ a = p)
  PROVE  HeadsHaveChildren(d)
BY DEF HeadsHaveChildren

(* The id of a new account is new, and its parent was there before.          *)
LEMMA NewIds ==
  ASSUME ChartInv, NEW m, AtMoment(m)
  PROVE  LET n == added + 1
         IN  /\ n \in 1..Len(Moments) /\ added' = n /\ AddedId(m) = AddedId(Moments[n])
             /\ AddedId(m) \notin DOMAIN chart /\ ~IsGroup(AddedId(m))
             /\ \A j \in 1..Len(Moments) : AddedId(m) = AddedId(Moments[j]) => j = n
             /\ ProperChart(chart, n) /\ ProperChart(stored, n) /\ n \in Nat
<1> DEFINE n == added + 1
<1>1. /\ added \in Nat /\ n \in 1..Len(Moments) /\ n \in Nat /\ added <= n /\ ~(n <= added)
      /\ added' = n /\ m = Moments[n]
  BY MomentFacts DEF ChartInv, AtMoment
<1> HIDE DEF n
<1>2. \A j \in 1..Len(Moments) : AddedId(m) = AddedId(Moments[j]) => j = n
  BY <1>1, MomentFacts
<1>3. AddedId(m) \notin DOMAIN chart
  BY <1>1 DEF ChartInv, ProperChart
<1>4. ProperChart(chart, n) /\ ProperChart(stored, n)
  BY <1>1, ProperLater DEF ChartInv
<1>5. ~IsGroup(AddedId(m))
  BY KindsDiffer
<1> QED
  BY <1>1, <1>2, <1>3, <1>4, <1>5 DEF n

LEMMA NewIsAnchored ==
  ASSUME ChartInv, NEW m, AtMoment(m), NEW p \in Nameable, NEW x, x.parent = p
  PROVE  Anchored(x, AddedId(m), added + 1)
<1> DEFINE n == added + 1
<1>1. /\ n \in 1..Len(Moments) /\ AddedId(m) = AddedId(Moments[n]) /\ n \in 1..n
  BY NewIds
<1>2. \A j \in 1..Len(Moments) : p = AddedId(Moments[j]) => j < n
  <2> SUFFICES ASSUME NEW j \in 1..Len(Moments), p = AddedId(Moments[j]) PROVE j < n
    OBVIOUS
  <2>1. Moments[j] \in {Moments[i] : i \in 1..added}
    BY DEF Nameable, AddedId
  <2>2. PICK i \in 1..added : AddedId(Moments[j]) = AddedId(Moments[i])
    BY <2>1
  <2>3. added \in 0..Len(Moments)
    BY DEF ChartInv
  <2>4. i \in 1..Len(Moments) /\ i < n
    BY <2>2, <2>3, MomentFacts
  <2> QED
    BY <2>2, <2>4, MomentFacts
<1> HIDE DEF n
<1>3. Anchored(x, AddedId(m), n)
  BY <1>1, <1>2 DEF Anchored
<1> QED
  BY <1>3 DEF n

LEMMA LevelIs ==
  ASSUME ChartInv, NEW p
  PROVE  (IF p \in DOMAIN chart THEN chart[p].level + 1 ELSE 1) \in Nat \ {0}
<1>1. \A a \in DOMAIN chart : chart[a].level \in Nat
  BY DEF ChartInv, ProperChart, ProperAccount
<1> QED
  BY <1>1

LEMMA PersistKeepsTable ==
  ASSUME NEW n, ProperChart(stored, n), OnlyGroupsHead(stored), NEW a, NEW x,
         ProperAccount(x), Anchored(x, a, n), ~x.isParent, ~IsGroup(a),
         \A j \in 1..Len(Moments) : a = AddedId(Moments[j]) => j <= n
  PROVE  LET t == Persisted(stored, a, x)
         IN  /\ ProperChart(t, n) /\ OnlyGroupsHead(t) /\ DOMAIN t \subseteq DOMAIN stored \union {a}
<1> DEFINE t == With(stored, a, x)
<1>1. ProperChart(t, n)
  BY WithKeeps
<1>2. DOMAIN t = DOMAIN stored \union {a} /\ OnlyGroupsHead(t)
  BY DEF With, Over, OnlyGroupsHead
<1> HIDE DEF t
<1> QED
  BY <1>1, <1>2 DEF Persisted, t

LEMMA AddKeeps ==
  ASSUME ChartInv, NEW m, NEW code, NEW p \in Nameable, NEW type, AddAccount(m, code, p, type)
  PROVE  ChartInv'
<1> DEFINE a == AddedId(m)
           n == added + 1
           level == IF p \in DOMAIN chart THEN chart[p].level + 1 ELSE 1
           x == AccountOf(code, p, level, type, FALSE)
           headed == Headed(chart, p)
<1>1. /\ AtMoment(m) /\ chart' = With(headed, a, x) /\ stored' = Persisted(stored, a, x)
      /\ index' = IF shared THEN Headed(index, p) ELSE index
      /\ UNCHANGED <<disk, replaced, entries, inMemory, recalled>>
  BY DEF AddAccount, AddTo
<1>2. /\ n \in 1..Len(Moments) /\ added' = n /\ a \notin DOMAIN chart /\ ~IsGroup(a)
      /\ \A j \in 1..Len(Moments) : a = AddedId(Moments[j]) => j <= n
      /\ ProperChart(chart, n) /\ ProperChart(stored, n) /\ n \in Nat
  <2>1. \A j \in 1..Len(Moments) : a = AddedId(Moments[j]) => j = n
    BY <1>1, NewIds
  <2>2. n \in Nat /\ n <= n
    BY <1>1, NewIds
  <2> QED
    BY <1>1, <2>1, <2>2, NewIds
<1>3. ProperAccount(x) /\ ~x.isParent /\ x.parent = p
  <2>1. level \in Nat \ {0}
    BY LevelIs
  <2> HIDE DEF level
  <2> QED
    BY <2>1 DEF AccountOf, ProperAccount
<1>4. Anchored(x, a, n)
  BY <1>1, <1>3, NewIsAnchored
<1> HIDE DEF x, a, n
<1>5. /\ ProperChart(headed, n) /\ DOMAIN headed = DOMAIN chart
      /\ \A b \in DOMAIN chart : /\ headed[b].parent = chart[b].parent
                                 /\ headed[b].isParent => chart[b].isParent \/ b = p
  BY <1>2, HeadedFacts
<1> HIDE DEF headed
<1>6. ProperChart(chart', n)
  BY <1>1, <1>2, <1>3, <1>4, <1>5, WithKeeps
<1>7. /\ DOMAIN chart' = DOMAIN chart \union {a} /\ chart'[a] = x
      /\ \A b \in DOMAIN chart : chart'[b] = headed[b]
  BY <1>1, <1>2, <1>5 DEF With, Over
<1>8. HeadsHaveChildren(chart')
  <2>1. HeadsHaveChildren(chart) /\ chart'[a].parent = p /\ a \in DOMAIN chart'
    BY <1>3, <1>7 DEF ChartInv
  <2>2. \A b \in DOMAIN chart : chart'[b].parent = chart[b].parent
    BY <1>5, <1>7
  <2>3. \A b \in DOMAIN chart' : chart'[b].isParent => b \in DOMAIN chart /\ (chart[b].isParent \/ b = p)
    BY <1>3, <1>5, <1>7
  <2>4. DOMAIN chart \subseteq DOMAIN chart'
    BY <1>7
  <2> QED
    BY <2>1, <2>2, <2>3, <2>4, NewChild
<1>9. /\ ProperChart(stored', n) /\ OnlyGroupsHead(stored')
      /\ DOMAIN stored' \subseteq DOMAIN stored \union {a}
  BY <1>1, <1>2, <1>3, <1>4, PersistKeepsTable DEF ChartInv
<1>10. DOMAIN index' = DOMAIN index /\ GroupsHead(index')
  <2>1. GroupsHead(index)
    BY DEF ChartInv
  <2>2. CASE ~shared \/ p \notin DOMAIN index
    BY <1>1, <2>1, <2>2 DEF Headed
  <2>3. CASE shared /\ p \in DOMAIN index
    <3>1. index' = [index EXCEPT ![p] = [index[p] EXCEPT !.isParent = TRUE]]
      BY <1>1, <2>3 DEF Headed
    <3>2. ProperAccount(index[p])
      BY <2>1, <2>3 DEF GroupsHead
    <3>3. /\ DOMAIN index' = DOMAIN index /\ index'[p] = [index[p] EXCEPT !.isParent = TRUE]
          /\ \A b \in DOMAIN index : b # p => index'[b] = index[b]
      BY <2>3, <3>1
    <3>4. ProperAccount(index'[p]) /\ index'[p].isParent
      BY <3>2, <3>3 DEF ProperAccount
    <3> QED
      BY <2>1, <3>3, <3>4 DEF GroupsHead
  <2> QED
    BY <2>2, <2>3
<1>11. DOMAIN stored' \subseteq DOMAIN stored \union DOMAIN chart' /\ DOMAIN chart \subseteq DOMAIN chart'
       /\ added' \in 0..Len(Moments)
  <2>1. added' \in 0..Len(Moments)
    BY <1>2, MomentFacts
  <2> QED
    BY <1>7, <1>9, <2>1
<1> QED
  BY <1>1, <1>2, <1>6, <1>8, <1>9, <1>10, <1>11, MoreAccounts

LEMMA AssistantKeeps ==
  ASSUME ChartInv, NEW m, NEW code, NEW p \in Nameable, NEW type,
         CreateByAssistant(m, code, p, type)
  PROVE  ChartInv'
<1> DEFINE a == AddedId(m)
           n == added + 1
           x == AccountOf(code, p, 1, type, FALSE)
<1>1. /\ AtMoment(m) /\ chart' = With(chart, a, x) /\ stored' = Persisted(stored, a, x)
      /\ index' = index /\ UNCHANGED <<disk, replaced, entries, inMemory, recalled>>
  BY DEF CreateByAssistant, AddTo
<1>2. /\ n \in 1..Len(Moments) /\ added' = n /\ a \notin DOMAIN chart /\ ~IsGroup(a)
      /\ \A j \in 1..Len(Moments) : a = AddedId(Moments[j]) => j <= n
      /\ ProperChart(chart, n) /\ ProperChart(stored, n) /\ n \in Nat
  <2>1. \A j \in 1..Len(Moments) : a = AddedId(Moments[j]) => j = n
    BY <1>1, NewIds
  <2>2. n \in Nat /\ n <= n
    BY <1>1, NewIds
  <2> QED
    BY <1>1, <2>1, <2>2, NewIds
<1>3. ProperAccount(x) /\ ~x.isParent /\ x.parent = p /\ x.level <= 2
  BY DEF AccountOf, ProperAccount
<1>4. Anchored(x, a, n)
  BY <1>3 DEF Anchored
<1> HIDE DEF x, a, n
<1>5. ProperChart(chart', n)
  BY <1>1, <1>2, <1>3, <1>4, WithKeeps
<1>6. /\ DOMAIN chart' = DOMAIN chart \union {a} /\ chart'[a] = x
      /\ \A b \in DOMAIN chart : chart'[b] = chart[b]
  BY <1>1, <1>2 DEF With, Over
<1>7. HeadsHaveChildren(chart')
  BY <1>3, <1>6 DEF ChartInv, HeadsHaveChildren
<1>8. /\ ProperChart(stored', n) /\ OnlyGroupsHead(stored')
      /\ DOMAIN stored' \subseteq DOMAIN stored \union {a}
  BY <1>1, <1>2, <1>3, <1>4, PersistKeepsTable DEF ChartInv
<1>9. /\ DOMAIN stored' \subseteq DOMAIN stored \union DOMAIN chart' /\ DOMAIN chart \subseteq DOMAIN chart'
      /\ added' \in 0..Len(Moments) /\ GroupsHead(index') /\ DOMAIN index' = DOMAIN index
  <2>1. added' \in 0..Len(Moments)
    BY <1>2, MomentFacts
  <2>2. GroupsHead(index') /\ DOMAIN index' = DOMAIN index
    BY <1>1 DEF ChartInv
  <2> QED
    BY <1>6, <1>8, <2>1, <2>2
<1> QED
  BY <1>1, <1>2, <1>5, <1>7, <1>8, <1>9, MoreAccounts

LEMMA ImportKeeps ==
  ASSUME ChartInv, NEW code, NEW p, NEW type, ImportAccount(code, p, type)
  PROVE  ChartInv'
<1> DEFINE a == ImportedId(code)
           x == AccountOf(code, p, 3, type, FALSE)
<1>1. /\ chart' = With(chart, a, x)
      /\ UNCHANGED <<index, stored, disk, added, replaced, entries, inMemory, recalled>>
  BY DEF ImportAccount
<1>2. /\ ProperChart(chart, added) /\ ~IsGroup(a) /\ Imported(a)
      /\ \A j \in 1..Len(Moments) : a # AddedId(Moments[j])
  BY KindsDiffer DEF ChartInv
<1>3. ProperAccount(x) /\ ~x.isParent
  BY DEF AccountOf, ProperAccount
<1>4. Anchored(x, a, added)
  BY <1>2 DEF Anchored
<1> HIDE DEF x, a
<1>5. ProperChart(chart', added)
  BY <1>1, <1>2, <1>3, <1>4, WithKeeps
<1>6. /\ DOMAIN chart' = DOMAIN chart \union {a} /\ \A b \in DOMAIN chart : chart'[b] = chart[b]
      /\ (a \notin DOMAIN chart => chart'[a] = x)
  BY <1>1 DEF With, Over
<1>7. HeadsHaveChildren(chart')
  BY <1>3, <1>6 DEF ChartInv, HeadsHaveChildren
<1>8. DOMAIN chart \subseteq DOMAIN chart' /\ added' = added /\ stored' = stored /\ index' = index
  BY <1>1, <1>6
<1>9. /\ ProperChart(stored', added') /\ OnlyGroupsHead(stored') /\ ProperChart(chart', added')
      /\ added' \in 0..Len(Moments) /\ GroupsHead(index') /\ DOMAIN index' = DOMAIN index
      /\ DOMAIN stored' \subseteq DOMAIN stored \union DOMAIN chart'
  BY <1>5, <1>8 DEF ChartInv
<1> QED
  BY <1>1, <1>7, <1>8, <1>9, MoreAccounts

LEMMA HeadsOfGroups ==
  ASSUME NEW c, OnlyGroupsHead(c)
  PROVE  HeadsHaveChildren(c)
BY DEF OnlyGroupsHead, HeadsHaveChildren

LEMMA ReplaceKeeps ==
  ASSUME ChartInv, NEW file \in Files, ReplaceChart(file)
  PROVE  ChartInv'
<1> DEFINE c == UnifiedChart(file)
<1>1. /\ chart' = c /\ inMemory' = {} /\ recalled' = {} /\ replaced' = TRUE
      /\ UNCHANGED <<index, stored, disk, added, entries>>
  BY DEF ReplaceChart
<1>2. ProperChart(c, added) /\ HeadsHaveChildren(c)
  <2>1. ProperChart(c, 0) /\ OnlyGroupsHead(c)
    BY UnifiedFacts
  <2>2. added \in Nat /\ 0 <= added
    BY MomentFacts DEF ChartInv
  <2> QED
    BY <2>1, <2>2, ProperLater, HeadsOfGroups
<1> HIDE DEF c
<1>3. ProperEntries'
  BY <1>1 DEF ChartInv, ProperEntries
<1>4. Followed'
  BY <1>1 DEF Followed
<1> QED
  BY <1>1, <1>2, <1>3, <1>4 DEF ChartInv

LEMMA ChartStartKeeps ==
  ASSUME ChartInv, NEW file \in Files, StartWithFile(file)
  PROVE  ChartInv'
<1> DEFINE c == UnifiedChart(file)
           lacking == {a \in DOMAIN c \ DOMAIN stored : c[a].code \notin CodesIn(stored)}
           more == Restrict(c, lacking)
<1>1. /\ disk' = file /\ stored' = Over(stored, more) /\ chart' = Over(stored, c)
      /\ index' = Empty /\ replaced' = FALSE
      /\ inMemory' = DOMAIN entries /\ recalled' = DOMAIN entries /\ UNCHANGED <<added, entries>>
  BY DEF StartWithFile, ChartAtStart
<1>2. ProperChart(c, added) /\ OnlyGroupsHead(c)
  <2>1. ProperChart(c, 0) /\ OnlyGroupsHead(c)
    BY UnifiedFacts
  <2>2. added \in Nat /\ 0 <= added
    BY MomentFacts DEF ChartInv
  <2> QED
    BY <2>1, <2>2, ProperLater
<1>3. lacking \subseteq DOMAIN c
  OBVIOUS
<1>d. c = UnifiedChart(file)
  OBVIOUS
<1> HIDE DEF c, lacking
<1>4. ProperChart(more, added) /\ OnlyGroupsHead(more) /\ DOMAIN more = lacking
  BY <1>2, <1>3, RestrictKeeps
<1> HIDE DEF more
<1>5. ProperChart(stored, added) /\ OnlyGroupsHead(stored)
  BY DEF ChartInv
<1>6. /\ ProperChart(stored', added) /\ OnlyGroupsHead(stored')
      /\ ProperChart(chart', added) /\ OnlyGroupsHead(chart')
  BY <1>1, <1>2, <1>4, <1>5, OverKeeps
<1>7. HeadsHaveChildren(chart')
  BY <1>6, HeadsOfGroups
<1>8. /\ DOMAIN stored' \subseteq DOMAIN chart' /\ DOMAIN c \subseteq DOMAIN chart'
      /\ DOMAIN index' = {}
  <2>1. DOMAIN stored' = DOMAIN stored \union lacking /\ DOMAIN chart' = DOMAIN stored \union DOMAIN c
    BY <1>1, <1>4 DEF Over
  <2> QED
    BY <1>1, <1>3, <2>1 DEF Empty
<1>9. GroupsHead(index')
  BY <1>8 DEF GroupsHead
<1>10. ProperEntries'
  BY <1>1 DEF ChartInv, ProperEntries
<1>11. Followed'
  <2>1. DOMAIN UnifiedChart(disk') \subseteq DOMAIN chart'
    BY <1>1, <1>8, <1>d
  <2> QED
    BY <1>1, <1>8, <2>1 DEF Followed
<1> QED
  BY <1>1, <1>6, <1>7, <1>9, <1>10, <1>11 DEF ChartInv

-----------------------------------------------------------------------------
(* Entries. Room is bounded, so the next number is within the bound.         *)
LEMMA FreshIs ==
  ASSUME ChartInv, NEW e \in FreshEntry, NEW k \in Nat, DOMAIN entries = 1..k
  PROVE  e = k + 1 /\ k + 1 <= MaxWork
<1>1. e = Cardinality(DOMAIN entries) + 1 /\ Room
  BY DEF FreshEntry
<1>2. Cardinality(DOMAIN entries) = k
  <2>1. Cardinality(1..k) = IF 1 > k THEN 0 ELSE k - 1 + 1
    BY FS_Interval
  <2> QED
    BY <2>1
<1>3. Cardinality({a \in DOMAIN chart : Imported(a)}) \in Nat
  <2> DEFINE D == {a \in DOMAIN chart : Imported(a)}
  <2>1. IsFiniteSet(D)
    BY FS_Subset DEF ChartInv, ProperChart
  <2> HIDE DEF D
  <2>2. Cardinality(D) \in Nat
    BY <2>1, FS_CardinalityType
  <2> QED
    BY <2>2 DEF D
<1>4. added \in Nat /\ MaxWork \in Nat
  BY MomentFacts DEF ChartInv
<1> DEFINE i == Cardinality({a \in DOMAIN chart : Imported(a)})
<1>5. i \in Nat /\ added + k + i < MaxWork
  BY <1>1, <1>2, <1>3 DEF Room
<1> HIDE DEF i
<1> QED
  BY <1>1, <1>2, <1>4, <1>5

(* One entry more, and those there are still proper.                         *)
LEMMA EntriesGrow ==
  ASSUME ChartInv, NEW e \in FreshEntry, NEW d, NEW x, DOMAIN d = DOMAIN entries,
         \A f \in DOMAIN d : ProperEntry(d[f]), ProperEntry(x),
         entries' = With(d, e, x), inMemory' = inMemory \union {e}, recalled' = recalled
  PROVE  /\ ProperEntries' /\ e \notin DOMAIN entries
         /\ entries'[e] = x /\ \A f \in DOMAIN entries : entries'[f] = d[f]
<1>1. PICK k \in Nat : DOMAIN entries = 1..k /\ k <= MaxWork
  BY DEF ChartInv, ProperEntries
<1>2. e = k + 1 /\ k + 1 <= MaxWork
  BY <1>1, FreshIs
<1>3. e \notin DOMAIN entries /\ DOMAIN entries \union {e} = 1..(k + 1) /\ k + 1 \in Nat
  BY <1>1, <1>2
<1>4. /\ DOMAIN entries' = DOMAIN entries \union {e} /\ entries' = [f \in DOMAIN entries' |-> entries'[f]]
      /\ entries'[e] = x /\ \A f \in DOMAIN entries : entries'[f] = d[f]
  BY <1>3 DEF With, Over
<1>5. \A f \in DOMAIN entries' : ProperEntry(entries'[f])
  BY <1>4
<1>6. inMemory' \subseteq DOMAIN entries' /\ recalled' \subseteq inMemory'
  BY <1>4 DEF ChartInv, ProperEntries
<1> QED
  BY <1>2, <1>3, <1>4, <1>5, <1>6 DEF ProperEntries

(* The accounts a request finds are of the chart, but after an import.       *)
LEMMA TwoFound ==
  ASSUME ChartInv, NEW p, NEW q, NEW first, NEW second,
         first = IndexAfter(index, p), second = IndexAfter(first, q),
         NEW a \in Postings(first, p), NEW b \in Postings(second, q)
  PROVE  /\ ~IsGroup(a) /\ ~IsGroup(b) /\ (~replaced => a \in DOMAIN chart /\ b \in DOMAIN chart)
         /\ GroupsHead(second) /\ (~replaced => DOMAIN second \subseteq DOMAIN chart)
<1>1. first = index \/ first = chart
  BY IndexChosen
<1>2. second = index \/ second = chart
  BY <1>1, IndexChosen
<1>3. GroupsHead(first) /\ (~replaced => DOMAIN first \subseteq DOMAIN chart)
  BY <1>1, IndexKeeps
<1>4. GroupsHead(second) /\ (~replaced => DOMAIN second \subseteq DOMAIN chart)
  BY <1>2, IndexKeeps
<1>5. a \in DOMAIN first /\ ~IsGroup(a)
  BY <1>3, FoundIsAccount
<1>6. b \in DOMAIN second /\ ~IsGroup(b)
  BY <1>4, FoundIsAccount
<1> QED
  BY <1>3, <1>4, <1>5, <1>6

LEMMA EntryIs ==
  ASSUME NEW a, NEW b, NEW n \in Nat, NEW s, ~IsGroup(a), ~IsGroup(b), NEW x,
         x = Entry(a, b, n, s)
  PROVE  ProperEntry(x) /\ x.debit = a /\ x.credit = b /\ x.amount = n /\ x.status = s
BY DEF ProperEntry, Entry

LEMMA RestOfChart ==
  ASSUME ChartInv, UNCHANGED <<chart, stored, disk, added, replaced, recalled>>, ProperEntries',
         GroupsHead(index'), ~replaced => DOMAIN index' \subseteq DOMAIN chart,
         ~replaced => \A e \in inMemory' \ recalled : LinesOf(e)' \subseteq DOMAIN chart
  PROVE  ChartInv'
<1>1. Followed'
  BY DEF ChartInv, Followed
<1> QED
  BY <1>1 DEF ChartInv

LEMMA CreateKeeps ==
  ASSUME ChartInv, NEW r \in LedgerRequests, CreateEntry(r)
  PROVE  ChartInv'
<1> DEFINE first == IndexAfter(index, r.debit)
           second == IndexAfter(first, r.credit)
<1>1. PICK e \in FreshEntry, a \in Postings(first, r.debit), b \in Postings(second, r.credit) :
          /\ entries' = With(entries, e, Entry(a, b, r.amount, "DRAFT"))
          /\ inMemory' = inMemory \union {e} /\ Built(second)
          /\ UNCHANGED <<chart, stored, disk, added, replaced, recalled>>
  BY DEF CreateEntry
<1>2. /\ ~IsGroup(a) /\ ~IsGroup(b) /\ (~replaced => a \in DOMAIN chart /\ b \in DOMAIN chart)
      /\ GroupsHead(second) /\ (~replaced => DOMAIN second \subseteq DOMAIN chart)
  BY TwoFound
<1> HIDE DEF first, second
<1> DEFINE x == Entry(a, b, r.amount, "DRAFT")
<1>3. ProperEntry(x) /\ x.debit = a /\ x.credit = b
  <2>1. r.amount \in Nat
    BY ChartAssumption
  <2> QED
    BY <1>2, <2>1 DEF ProperEntry, Entry
<1> HIDE DEF x
<1>4. entries' = With(entries, e, x) /\ \A f \in DOMAIN entries : ProperEntry(entries[f])
  BY <1>1 DEF x, ChartInv, ProperEntries
<1>5. /\ ProperEntries' /\ e \notin DOMAIN entries
      /\ entries'[e] = x /\ \A f \in DOMAIN entries : entries'[f] = entries[f]
  BY <1>1, <1>3, <1>4, EntriesGrow
<1>6. ~replaced => \A f \in inMemory' \ recalled : LinesOf(f)' \subseteq DOMAIN chart
  <2> SUFFICES ASSUME ~replaced, NEW f \in inMemory' \ recalled PROVE LinesOf(f)' \subseteq DOMAIN chart
    OBVIOUS
  <2>1. CASE f = e
    BY <1>2, <1>3, <1>5, <2>1 DEF LinesOf
  <2>2. CASE f \in inMemory
    <3>1. f \in DOMAIN entries /\ LinesOf(f) \subseteq DOMAIN chart
      BY <2>2 DEF ChartInv, ProperEntries, Followed
    <3> QED
      BY <1>5, <3>1 DEF LinesOf
  <2> QED
    BY <1>1, <2>1, <2>2
<1>7. GroupsHead(index') /\ (~replaced => DOMAIN index' \subseteq DOMAIN chart)
  BY <1>1, <1>2 DEF Built
<1> QED
  BY <1>1, <1>5, <1>6, <1>7, RestOfChart

LEMMA StatusKept ==
  ASSUME ChartInv, NEW e \in DOMAIN entries, NEW s, NEW d, d = [entries EXCEPT ![e].status = s]
  PROVE  /\ DOMAIN d = DOMAIN entries /\ d = [f \in DOMAIN d |-> d[f]]
         /\ \A f \in DOMAIN entries :
              /\ ProperEntry(d[f])
              /\ d[f].debit = entries[f].debit /\ d[f].credit = entries[f].credit
<1>1. \A f \in DOMAIN entries : ProperEntry(entries[f])
  BY DEF ChartInv, ProperEntries
<1>2. /\ DOMAIN d = DOMAIN entries /\ d = [f \in DOMAIN d |-> d[f]]
      /\ d[e] = [entries[e] EXCEPT !.status = s] /\ \A f \in DOMAIN entries : f # e => d[f] = entries[f]
  BY DEF ChartInv, ProperEntries
<1>3. /\ ProperEntry(d[e])
      /\ d[e].debit = entries[e].debit /\ d[e].credit = entries[e].credit
  <2>1. ProperEntry(entries[e])
    BY <1>1
  <2> QED
    BY <1>2, <2>1 DEF ProperEntry, Entry
<1> QED
  BY <1>1, <1>2, <1>3

LEMMA PostKeeps ==
  ASSUME ChartInv, NEW e \in DOMAIN entries, PostEntry(e)
  PROVE  ChartInv'
<1> DEFINE d == [entries EXCEPT ![e].status = "POSTED"]
<1>1. /\ entries' = d
      /\ UNCHANGED <<chart, index, stored, disk, added, replaced, inMemory, recalled>>
  BY DEF PostEntry
<1>d. /\ DOMAIN d = DOMAIN entries /\ d = [f \in DOMAIN d |-> d[f]]
      /\ \A f \in DOMAIN entries :
           /\ ProperEntry(d[f])
           /\ d[f].debit = entries[f].debit /\ d[f].credit = entries[f].credit
  BY StatusKept
<1> HIDE DEF d
<1>2. /\ DOMAIN entries' = DOMAIN entries /\ entries' = [f \in DOMAIN entries' |-> entries'[f]]
      /\ \A f \in DOMAIN entries :
           /\ ProperEntry(entries'[f])
           /\ entries'[f].debit = entries[f].debit /\ entries'[f].credit = entries[f].credit
  BY <1>1, <1>d
<1>3. ProperEntries'
  BY <1>1, <1>2 DEF ChartInv, ProperEntries
<1>4. ~replaced => \A f \in inMemory' \ recalled : LinesOf(f)' \subseteq DOMAIN chart
  BY <1>1, <1>2 DEF ChartInv, ProperEntries, Followed, LinesOf
<1>5. GroupsHead(index') /\ (~replaced => DOMAIN index' \subseteq DOMAIN chart)
  BY <1>1 DEF ChartInv, Followed
<1> QED
  BY <1>1, <1>3, <1>4, <1>5, RestOfChart

LEMMA ReverseKeeps ==
  ASSUME ChartInv, NEW e \in DOMAIN entries, ReverseEntry(e)
  PROVE  ChartInv'
<1> DEFINE first == IndexAfter(index, entries[e].debit)
           second == IndexAfter(first, entries[e].credit)
           d == [entries EXCEPT ![e].status = "REVERSED"]
<1>1. PICK f \in FreshEntry, a \in Postings(first, entries[e].debit),
           b \in Postings(second, entries[e].credit) :
          /\ entries' = With(d, f, Entry(b, a, entries[e].amount, "POSTED"))
          /\ inMemory' = inMemory \union {f} /\ Built(second)
          /\ UNCHANGED <<chart, stored, disk, added, replaced, recalled>>
  BY DEF ReverseEntry
<1>2. /\ ~IsGroup(a) /\ ~IsGroup(b) /\ (~replaced => a \in DOMAIN chart /\ b \in DOMAIN chart)
      /\ GroupsHead(second) /\ (~replaced => DOMAIN second \subseteq DOMAIN chart)
  BY TwoFound
<1> HIDE DEF first, second
<1> DEFINE x == Entry(b, a, entries[e].amount, "POSTED")
<1>3. ProperEntry(x) /\ x.debit = b /\ x.credit = a
  <2>1. entries[e].amount \in Nat
    BY DEF ChartInv, ProperEntries, ProperEntry
  <2> QED
    BY <1>2, <2>1 DEF ProperEntry, Entry
<1>4. /\ DOMAIN d = DOMAIN entries /\ d = [g \in DOMAIN d |-> d[g]]
      /\ \A g \in DOMAIN entries :
           /\ ProperEntry(d[g])
           /\ d[g].debit = entries[g].debit /\ d[g].credit = entries[g].credit
  BY StatusKept
<1>5. entries' = With(d, f, x)
  BY <1>1
<1> HIDE DEF x, d
<1>6. /\ ProperEntries' /\ f \notin DOMAIN entries
      /\ entries'[f] = x /\ \A g \in DOMAIN entries : entries'[g] = d[g]
  BY <1>1, <1>3, <1>4, <1>5, EntriesGrow
<1>7. ~replaced => \A g \in inMemory' \ recalled : LinesOf(g)' \subseteq DOMAIN chart
  <2> SUFFICES ASSUME ~replaced, NEW g \in inMemory' \ recalled PROVE LinesOf(g)' \subseteq DOMAIN chart
    OBVIOUS
  <2>1. CASE g = f
    BY <1>2, <1>3, <1>6, <2>1 DEF LinesOf
  <2>2. CASE g \in inMemory
    <3>1. g \in DOMAIN entries /\ LinesOf(g) \subseteq DOMAIN chart
      BY <2>2 DEF ChartInv, ProperEntries, Followed
    <3> QED
      BY <1>4, <1>6, <3>1 DEF LinesOf
  <2> QED
    BY <1>1, <2>1, <2>2
<1>8. GroupsHead(index') /\ (~replaced => DOMAIN index' \subseteq DOMAIN chart)
  BY <1>1, <1>2 DEF Built
<1> QED
  BY <1>1, <1>6, <1>7, <1>8, RestOfChart

LEMMA ChartInitOk ==
  ASSUME ChartInit
  PROVE  ChartInv
<1> DEFINE c == UnifiedChart(FirstFile)
<1>1. /\ chart = c /\ stored = c /\ disk = FirstFile /\ index = Empty /\ added = 0
      /\ replaced = FALSE /\ entries = Empty /\ inMemory = {} /\ recalled = {}
  BY DEF ChartInit
<1>2. ProperChart(c, 0) /\ OnlyGroupsHead(c) /\ HeadsHaveChildren(c)
  BY UnifiedFacts, HeadsOfGroups
<1>d. c = UnifiedChart(disk)
  BY <1>1
<1> HIDE DEF c
<1>3. GroupsHead(index) /\ DOMAIN index = {}
  BY <1>1 DEF GroupsHead, Empty
<1>4. ProperEntries
  <2>1. DOMAIN entries = {} /\ entries = [e \in DOMAIN entries |-> entries[e]]
    BY <1>1 DEF Empty
  <2>2. {} = 1..0 /\ 0 \in Nat /\ 0 <= MaxWork
    BY MomentFacts
  <2> QED
    BY <1>1, <2>1, <2>2 DEF ProperEntries
<1>5. Followed
  BY <1>1, <1>3, <1>d DEF Followed
<1>6. added \in 0..Len(Moments) /\ disk \in Files \union {FirstFile}
  BY <1>1, MomentFacts
<1> QED
  BY <1>1, <1>2, <1>3, <1>4, <1>5, <1>6 DEF ChartInv

LEMMA ChartNextKeeps ==
  ASSUME ChartInv, [ChartNext]_chartVars
  PROVE  ChartInv'
<1>1. CASE UNCHANGED chartVars
  <2>1. ProperEntries' /\ Followed'
    BY <1>1 DEF chartVars, ChartInv, ProperEntries, Followed, LinesOf
  <2> QED
    BY <1>1, <2>1 DEF chartVars, ChartInv
<1>2. CASE \E ref \in References : LookUp(ref)
  BY <1>2, LookUpKeeps
<1>3. CASE \E m \in Range(Moments), c \in Codes, p \in Nameable, t \in AccountTypes :
             AddAccount(m, c, p, t) \/ CreateByAssistant(m, c, p, t)
  BY <1>3, AddKeeps, AssistantKeeps
<1>4. CASE \E c \in Codes, p \in Nameable, t \in AccountTypes : ImportAccount(c, p, t)
  BY <1>4, ImportKeeps
<1>5. CASE \E f \in Files : ReplaceChart(f) \/ StartWithFile(f)
  BY <1>5, ReplaceKeeps, ChartStartKeeps
<1>6. CASE \E r \in LedgerRequests : CreateEntry(r)
  BY <1>6, CreateKeeps
<1>7. CASE \E e \in DOMAIN entries : PostEntry(e) \/ ReverseEntry(e)
  BY <1>7, PostKeeps, ReverseKeeps
<1> QED
  BY <1>1, <1>2, <1>3, <1>4, <1>5, <1>6, <1>7 DEF ChartNext

-----------------------------------------------------------------------------
(* What follows from the invariant. *)
LEMMA ChartTyped ==
  ASSUME ChartInv
  PROVE  ChartTypeOK
<1>1. \A a \in DOMAIN chart : chart[a].level \in Nat \ {0} /\ chart[a].isParent \in BOOLEAN
  BY DEF ChartInv, ProperChart, ProperAccount
<1>2. PICK k \in Nat : DOMAIN entries = 1..k /\ k <= MaxWork
  BY DEF ChartInv, ProperEntries
<1>3. DOMAIN entries \subseteq 1..MaxWork
  BY <1>2, MomentFacts
<1> QED
  BY <1>1, <1>3 DEF ChartInv, ProperEntries, ChartTypeOK

LEMMA MissingExplained ==
  ASSUME ChartInv
  PROVE  MissingLinesAreExplained
<1> SUFFICES ASSUME NEW e \in Posted, NEW a \in LinesOf(e) \ Reported
             PROVE  \/ /\ a \in DOMAIN chart /\ ~IsGroup(a)
                       /\ \E b \in DOMAIN chart : chart[b].parent = a
                    \/ e \in recalled /\ a \notin DOMAIN stored \union DOMAIN UnifiedChart(disk)
                    \/ e \notin recalled /\ replaced
  BY DEF MissingLinesAreExplained
<1>1. e \in inMemory /\ ~IsGroup(a)
  BY DEF ChartInv, ProperEntries, ProperEntry, Posted, LinesOf
<1>2. CASE a \in DOMAIN chart
  <2>1. chart[a].isParent
    BY <1>2 DEF Reported
  <2> QED
    BY <1>1, <1>2, <2>1 DEF ChartInv, HeadsHaveChildren
<1>3. CASE a \notin DOMAIN chart
  BY <1>1, <1>3 DEF ChartInv, Followed
<1> QED
  BY <1>2, <1>3

LEMMA CircleNeedsImport ==
  ASSUME ChartInv
  PROVE  OnlyImportsClose
<1> SUFFICES ASSUME NEW S \in SUBSET {a \in DOMAIN chart : chart[a].level > 2 /\ ~Imported(a)},
                    S # {}
             PROVE  \E a \in S : chart[a].parent \notin S
  BY DEF OnlyImportsClose
<1>1. \A a \in S : a \in DOMAIN chart /\ chart[a].level > 2 /\ ~Imported(a) /\ ~IsGroup(a)
  <2>1. \A a \in DOMAIN chart : chart[a].level \in Nat /\ (IsGroup(a) => chart[a].level = 2)
    BY DEF ChartInv, ProperChart, ProperAccount
  <2> QED
    BY <2>1
<1>2. CASE \E a \in S : IsGroup(chart[a].parent)
  BY <1>1, <1>2
<1>3. CASE \A a \in S : ~IsGroup(chart[a].parent)
  <2>1. \A a \in S : \E i \in 1..added :
           /\ a = AddedId(Moments[i])
           /\ \A j \in 1..Len(Moments) : chart[a].parent = AddedId(Moments[j]) => j < i
    <3>1. \A a \in S : Anchored(chart[a], a, added) /\ ~(chart[a].level <= 2)
      <4>1. \A a \in DOMAIN chart : Anchored(chart[a], a, added) /\ chart[a].level \in Nat
        BY DEF ChartInv, ProperChart, ProperAccount
      <4> QED
        BY <1>1, <4>1
    <3> QED
      BY <1>1, <1>3, <3>1 DEF Anchored
  <2> DEFINE T == {i \in 1..Len(Moments) : AddedId(Moments[i]) \in S}
  <2>2. 1..added \subseteq 1..Len(Moments)
    BY MomentFacts DEF ChartInv
  <2>3. T # {} /\ T \subseteq Nat
    BY <2>1, <2>2
  <2>4. PICK i \in T : \A j \in T : i <= j
    <3> HIDE DEF T
    <3> QED
      BY <2>3, LeastOf
  <2> DEFINE a == AddedId(Moments[i])
  <2>5. a \in S /\ i \in 1..Len(Moments)
    BY <2>4
  <2>6. \A j \in 1..Len(Moments) : chart[a].parent = AddedId(Moments[j]) => j < i
    <3>1. PICK k \in 1..added :
             /\ a = AddedId(Moments[k])
             /\ \A j \in 1..Len(Moments) : chart[a].parent = AddedId(Moments[j]) => j < k
      BY <2>1, <2>5
    <3>2. k = i
      BY <2>2, <2>5, <3>1, MomentFacts
    <3> QED
      BY <3>1, <3>2
  <2>7. chart[a].parent \notin S
    <3> SUFFICES ASSUME chart[a].parent \in S PROVE FALSE
      OBVIOUS
    <3>1. PICK j \in 1..added : chart[a].parent = AddedId(Moments[j])
      BY <2>1
    <3>2. j \in T /\ j < i
      BY <2>2, <2>6, <3>1
    <3> QED
      BY <2>3, <2>4, <3>2
  <2> QED
    BY <2>5, <2>7
<1> QED
  BY <1>2, <1>3

-----------------------------------------------------------------------------
(* The reports. Every account a line may be on, and what the lines give it.  *)
Lined == DOMAIN chart \union Unreported
Net   == [a \in Lined |-> Debits(a) - Credits(a)]

LEMMA LinedIsFinite ==
  ASSUME ChartInv
  PROVE  /\ IsFiniteSet(Lined) /\ IsFiniteSet(Posted)
         /\ \A e \in Posted : entries[e].amount \in Nat
         /\ \A e \in Posted : entries[e].debit \in Lined /\ entries[e].credit \in Lined
<1>1. PICK k \in Nat : DOMAIN entries = 1..k
  BY DEF ChartInv, ProperEntries
<1>2. IsFiniteSet(Posted)
  <2>1. IsFiniteSet(1..k)
    BY FS_Interval
  <2>2. Posted \subseteq 1..k
    BY <1>1 DEF Posted, ChartInv, ProperEntries
  <2> QED
    BY <2>1, <2>2, FS_Subset
<1>3. \A e \in Posted : entries[e].amount \in Nat
  BY DEF Posted, ChartInv, ProperEntries, ProperEntry
<1>4. \A e \in Posted : entries[e].debit \in Lined /\ entries[e].credit \in Lined
  <2>1. \A e \in Posted : \A a \in LinesOf(e) : a \in Reported \/ a \in Unreported
    <3> SUFFICES ASSUME NEW e \in Posted, NEW a \in LinesOf(e) PROVE a \in UNION {LinesOf(f) : f \in Posted}
      BY DEF Unreported
    <3>1. LinesOf(e) \in {LinesOf(f) : f \in Posted}
      OBVIOUS
    <3> QED
      BY <3>1
  <2>2. \A e \in Posted : entries[e].debit \in LinesOf(e) /\ entries[e].credit \in LinesOf(e)
    BY DEF LinesOf
  <2>3. Reported \subseteq DOMAIN chart
    BY DEF Reported
  <2> QED
    BY <2>1, <2>2, <2>3 DEF Lined
<1>5. IsFiniteSet(Unreported)
  <2> DEFINE f == [e \in Posted |-> entries[e].debit]
             g == [e \in Posted |-> entries[e].credit]
             F == {entries[e].debit : e \in Posted}
             G == {entries[e].credit : e \in Posted}
  <2>1. f \in Surjection(Posted, F) /\ g \in Surjection(Posted, G)
    BY DEF Surjection
  <2>2. Unreported \subseteq F \union G
    BY DEF Unreported, LinesOf
  <2> HIDE DEF f, g, F, G
  <2>3. IsFiniteSet(F) /\ IsFiniteSet(G)
    BY <1>2, <2>1, FS_Surjection
  <2>4. IsFiniteSet(F \union G)
    BY <2>3, FS_Union
  <2> QED
    BY <2>2, <2>4, FS_Subset
<1>6. IsFiniteSet(Lined)
  <2>1. IsFiniteSet(DOMAIN chart)
    BY DEF ChartInv, ProperChart
  <2> QED
    BY <1>5, <2>1, FS_Union DEF Lined
<1> QED
  BY <1>2, <1>3, <1>4, <1>6

(* The debits and credits of an account are sums over the posted entries.    *)
LEMMA DebitsAre ==
  ASSUME ChartInv, NEW a, NEW n, n = [e \in Posted |-> entries[e].amount]
  PROVE  /\ Debits(a) = SumOver(n, {e \in Posted : entries[e].debit = a}) /\ Debits(a) \in Nat
         /\ Credits(a) = SumOver(n, {e \in Posted : entries[e].credit = a}) /\ Credits(a) \in Nat
         /\ (\A e \in Posted : entries[e].debit # a) => Debits(a) = 0
         /\ (\A e \in Posted : entries[e].credit # a) => Credits(a) = 0
<1> DEFINE D == {e \in Posted : entries[e].debit = a}
           C == {e \in Posted : entries[e].credit = a}
           d == [e \in D |-> entries[e].amount]
           c == [e \in C |-> entries[e].amount]
<1>1. Debits(a) = SumOver(d, D) /\ Credits(a) = SumOver(c, C)
  BY DEF Debits, Credits, TotalOf, SumOver
<1>2. IsFiniteSet(D) /\ IsFiniteSet(C) /\ D \subseteq Posted /\ C \subseteq Posted
  BY LinedIsFinite, FS_Subset
<1>3. /\ \A e \in D : d[e] = n[e] /\ n[e] \in Nat /\ n[e] \in Int
      /\ \A e \in C : c[e] = n[e] /\ n[e] \in Nat /\ n[e] \in Int
  BY LinedIsFinite
<1>4. ((\A e \in Posted : entries[e].debit # a) => D = {}) /\ ((\A e \in Posted : entries[e].credit # a) => C = {})
  OBVIOUS
<1> HIDE DEF D, C, d, c
<1>5. SumOver(d, D) = SumOver(n, D)
  BY ONLY <1>2, <1>3, SumSame
<1>c. SumOver(c, C) = SumOver(n, C)
  BY ONLY <1>2, <1>3, SumSame
<1>6. SumOver(n, D) \in Nat /\ SumOver(n, C) \in Nat
  BY ONLY <1>2, <1>3, SumAtLeastZero
<1>7. (D = {} => SumOver(n, D) = 0) /\ (C = {} => SumOver(n, C) = 0)
  BY <1>2, SumZero
<1> QED
  BY <1>1, <1>4, <1>5, <1>c, <1>6, <1>7 DEF D, C

OnSide(E, side, a) == {e \in E : side[e] = a}

LEMMA SumOfSides ==
  ASSUME NEW P, IsFiniteSet(P), NEW E, IsFiniteSet(E), NEW f, \A e \in E : f[e] \in Int,
         NEW side, \A e \in E : side[e] \in P,
         NEW g, \A a \in P : g[a] = SumOver(f, OnSide(E, side, a))
  PROVE  SumOver(g, P) = SumOver(f, E)
<1>1. \A a \in P : g[a] = SumOver(f, {e \in E : side[e] = a})
  BY DEF OnSide
<1> QED
  BY <1>1, SumOfParts

LEMMA NetFacts ==
  ASSUME ChartInv
  PROVE  /\ \A a : Debits(a) \in Nat /\ Credits(a) \in Nat
         /\ \A a \in Lined : Net[a] \in Int
         /\ SumOver(Net, Lined) = 0
         /\ \A a \in Lined : a \notin Reported \union Unreported => Net[a] = 0
<1> DEFINE n == [e \in Posted |-> entries[e].amount]
           onDebit == [e \in Posted |-> entries[e].debit]
           onCredit == [e \in Posted |-> entries[e].credit]
           d == [a \in Lined |-> Debits(a)]
           c == [a \in Lined |-> Credits(a)]
<1>1. \A a : Debits(a) \in Nat /\ Credits(a) \in Nat
  BY DebitsAre
<1>2. /\ IsFiniteSet(Lined) /\ IsFiniteSet(Posted) /\ \A e \in Posted : n[e] \in Int
      /\ \A e \in Posted : onDebit[e] \in Lined /\ onCredit[e] \in Lined
  BY LinedIsFinite
<1>3. \A a \in Lined : /\ d[a] = SumOver(n, OnSide(Posted, onDebit, a))
                       /\ c[a] = SumOver(n, OnSide(Posted, onCredit, a))
  <2> SUFFICES ASSUME NEW a \in Lined
               PROVE  /\ d[a] = SumOver(n, OnSide(Posted, onDebit, a))
                      /\ c[a] = SumOver(n, OnSide(Posted, onCredit, a))
    OBVIOUS
  <2>1. OnSide(Posted, onDebit, a) = {e \in Posted : entries[e].debit = a}
    BY DEF OnSide
  <2>2. OnSide(Posted, onCredit, a) = {e \in Posted : entries[e].credit = a}
    BY DEF OnSide
  <2>3. d[a] = Debits(a) /\ c[a] = Credits(a) /\ n = [e \in Posted |-> entries[e].amount]
    OBVIOUS
  <2> HIDE DEF n, onDebit, onCredit, d, c
  <2>4. /\ Debits(a) = SumOver(n, {e \in Posted : entries[e].debit = a})
        /\ Credits(a) = SumOver(n, {e \in Posted : entries[e].credit = a})
    BY <2>3, DebitsAre
  <2> QED
    BY <2>1, <2>2, <2>3, <2>4
<1>4. \A a \in Lined : Net[a] = d[a] - c[a] /\ d[a] \in Int /\ c[a] \in Int
  BY <1>1 DEF Net
<1>5. \A a \in Lined : a \notin Reported \union Unreported => Net[a] = 0
  <2> SUFFICES ASSUME NEW a \in Lined, a \notin Reported \union Unreported PROVE Net[a] = 0
    OBVIOUS
  <2>1. \A e \in Posted : a \notin LinesOf(e)
    <3> SUFFICES ASSUME NEW e \in Posted, a \in LinesOf(e) PROVE FALSE
      OBVIOUS
    <3>1. LinesOf(e) \in {LinesOf(f) : f \in Posted}
      OBVIOUS
    <3> QED
      BY <3>1 DEF Unreported
  <2>2. \A e \in Posted : entries[e].debit # a /\ entries[e].credit # a
    BY <2>1 DEF LinesOf
  <2>3. Debits(a) = 0 /\ Credits(a) = 0
    BY <2>2, DebitsAre
  <2> QED
    BY <2>3 DEF Net
<1> HIDE DEF n, onDebit, onCredit, d, c
<1>6. SumOver(d, Lined) = SumOver(n, Posted)
  <2>1. \A a \in Lined : d[a] = SumOver(n, OnSide(Posted, onDebit, a))
    BY <1>3
  <2>2. \A e \in Posted : onDebit[e] \in Lined
    BY <1>2
  <2>3. \A e \in Posted : n[e] \in Int
    BY <1>2
  <2>4. IsFiniteSet(Lined)
    BY <1>2
  <2>5. IsFiniteSet(Posted)
    BY <1>2
  <2> QED
    BY ONLY <2>1, <2>2, <2>3, <2>4, <2>5, SumOfSides
<1>7. SumOver(c, Lined) = SumOver(n, Posted)
  <2>1. \A a \in Lined : c[a] = SumOver(n, OnSide(Posted, onCredit, a))
    BY <1>3
  <2>2. \A e \in Posted : onCredit[e] \in Lined
    BY <1>2
  <2>3. \A e \in Posted : n[e] \in Int
    BY <1>2
  <2>4. IsFiniteSet(Lined)
    BY <1>2
  <2>5. IsFiniteSet(Posted)
    BY <1>2
  <2> QED
    BY ONLY <2>1, <2>2, <2>3, <2>4, <2>5, SumOfSides
<1>8. SumOver(Net, Lined) = SumOver(d, Lined) - SumOver(c, Lined)
  BY ONLY <1>2, <1>4, SumSubtract
<1>9. SumOver(n, Posted) \in Int
  BY ONLY <1>2, SumType
<1> QED
  BY <1>1, <1>4, <1>5, <1>6, <1>7, <1>8, <1>9

(* What the reports add up, as sums of what the lines give the accounts.     *)
LEMMA TotalsAre ==
  ASSUME ChartInv, NEW S \in SUBSET Lined
  PROVE  /\ TotalOf(LAMBDA a : Debits(a) - Credits(a), S) = SumOver(Net, S)
         /\ TotalOf(LAMBDA a : Credits(a) - Debits(a), S) = -SumOver(Net, S)
         /\ TotalOf(Amount, S) = SumOver(Net, S)
         /\ TotalOf(Debits, S) - TotalOf(Credits, S) = SumOver(Net, S)
         /\ TotalOf(ClosingDebit, S) - TotalOf(ClosingCredit, S) = SumOver(Net, S)
         /\ SumOver(Net, S) \in Int
<1> DEFINE net == [a \in S |-> Debits(a) - Credits(a)]
           back == [a \in S |-> Credits(a) - Debits(a)]
           amt == [a \in S |-> Amount(a)]
           d == [a \in S |-> Debits(a)]
           c == [a \in S |-> Credits(a)]
           cd == [a \in S |-> ClosingDebit(a)]
           cc == [a \in S |-> ClosingCredit(a)]
<1>1. /\ TotalOf(LAMBDA a : Debits(a) - Credits(a), S) = SumOver(net, S)
      /\ TotalOf(LAMBDA a : Credits(a) - Debits(a), S) = SumOver(back, S)
      /\ TotalOf(Amount, S) = SumOver(amt, S)
      /\ TotalOf(Debits, S) = SumOver(d, S) /\ TotalOf(Credits, S) = SumOver(c, S)
      /\ TotalOf(ClosingDebit, S) = SumOver(cd, S) /\ TotalOf(ClosingCredit, S) = SumOver(cc, S)
  BY DEF TotalOf, SumOver
<1>2. IsFiniteSet(S)
  BY LinedIsFinite, FS_Subset
<1>3. ASSUME NEW a \in S
      PROVE  /\ net[a] = Net[a] /\ back[a] = -Net[a] /\ amt[a] = Net[a] /\ Net[a] \in Int
             /\ Net[a] = d[a] - c[a] /\ d[a] \in Int /\ c[a] \in Int
             /\ Net[a] = cd[a] - cc[a] /\ cd[a] \in Int /\ cc[a] \in Int
  <2>1. Debits(a) \in Nat /\ Credits(a) \in Nat /\ Net[a] = Debits(a) - Credits(a)
    BY NetFacts DEF Net
  <2> QED
    BY <2>1 DEF Amount, ClosingDebit, ClosingCredit
<1> HIDE DEF net, back, amt, d, c, cd, cc
<1>4. SumOver(net, S) = SumOver(Net, S)
  BY ONLY <1>2, <1>3, SumSame
<1>5. SumOver(amt, S) = SumOver(Net, S)
  BY ONLY <1>2, <1>3, SumSame
<1>6. SumOver(back, S) = -SumOver(Net, S)
  BY ONLY <1>2, <1>3, SumNegate
<1>7. SumOver(Net, S) = SumOver(d, S) - SumOver(c, S)
  BY ONLY <1>2, <1>3, SumSubtract
<1>8. SumOver(Net, S) = SumOver(cd, S) - SumOver(cc, S)
  BY ONLY <1>2, <1>3, SumSubtract
<1>9. SumOver(Net, S) \in Int
  BY ONLY <1>2, <1>3, SumType
<1> QED
  BY <1>1, <1>4, <1>5, <1>6, <1>7, <1>8, <1>9

LEMMA NetOfTwo ==
  ASSUME ChartInv, NEW S \in SUBSET Lined, NEW T \in SUBSET Lined, S \intersect T = {}
  PROVE  SumOver(Net, S \union T) = SumOver(Net, S) + SumOver(Net, T)
<1>1. IsFiniteSet(S) /\ IsFiniteSet(T)
  BY LinedIsFinite, FS_Subset
<1>2. \A a \in S \union T : Net[a] \in Int
  BY NetFacts
<1> QED
  BY ONLY <1>1, <1>2, S \intersect T = {}, SumUnion

LEMMA ReportsDoAgree ==
  ASSUME ChartInv
  PROVE  ReportsAgree
<1> DEFINE out(S) == TotalOf(LAMBDA a : Debits(a) - Credits(a), S)
           R == Reported
           U == Unreported
           O == OfOtherType
           BS == ReportedOf(Sheets)
           V == ReportedOf({"REVENUE"})
           X == ReportedOf({"EXPENSE"})
           C == CashAccounts
<1>1. /\ R \in SUBSET Lined /\ U \in SUBSET Lined /\ R \intersect U = {}
      /\ O \in SUBSET R /\ BS \in SUBSET R /\ V \in SUBSET R /\ X \in SUBSET R
      /\ C \in SUBSET Lined
  BY DEF Lined, Reported, Unreported, OfOtherType, ReportedOf, CashAccounts
<1>2. /\ R = (BS \union (V \union X)) \union O
      /\ (BS \union (V \union X)) \intersect O = {} /\ BS \intersect (V \union X) = {} /\ V \intersect X = {}
  BY DEF OfOtherType, ReportedOf, Sheets
<1>3. /\ PeriodTotals = SumOver(Net, R) /\ ClosingTotals = SumOver(Net, R)
      /\ NetPosition = SumOver(Net, BS)
      /\ out(U) = SumOver(Net, U) /\ out(U \union O) = SumOver(Net, U \union O)
      /\ NetSurplus = -SumOver(Net, V) - SumOver(Net, X)
      /\ NetCashFlow = SumOver(Net, C) /\ TotalOf(Amount, C \intersect R) = SumOver(Net, C \intersect R)
      /\ out(C \intersect U) = SumOver(Net, C \intersect U)
  <2>1. /\ BS \in SUBSET Lined /\ V \in SUBSET Lined /\ X \in SUBSET Lined /\ U \union O \in SUBSET Lined
        /\ C \intersect R \in SUBSET Lined /\ C \intersect U \in SUBSET Lined
    BY <1>1
  <2>2. PeriodTotals = SumOver(Net, R) /\ ClosingTotals = SumOver(Net, R)
    BY <1>1, TotalsAre DEF PeriodTotals, ClosingTotals
  <2>3. NetPosition = SumOver(Net, BS)
    BY <2>1, TotalsAre DEF NetPosition
  <2>4. out(U) = SumOver(Net, U) /\ out(U \union O) = SumOver(Net, U \union O)
    BY <1>1, <2>1, TotalsAre
  <2>5. /\ TotalOf(LAMBDA a : Credits(a) - Debits(a), V) = -SumOver(Net, V)
        /\ TotalOf(LAMBDA a : Debits(a) - Credits(a), X) = SumOver(Net, X)
    BY <2>1, TotalsAre
  <2>6. NetSurplus = -SumOver(Net, V) - SumOver(Net, X)
    BY <2>5 DEF NetSurplus
  <2>7. NetCashFlow = SumOver(Net, C)
    BY <1>1, TotalsAre DEF NetCashFlow
  <2>8. TotalOf(Amount, C \intersect R) = SumOver(Net, C \intersect R)
    BY <2>1, TotalsAre
  <2>9. out(C \intersect U) = SumOver(Net, C \intersect U)
    BY <2>1, TotalsAre
  <2> QED
    BY <2>2, <2>3, <2>4, <2>6, <2>7, <2>8, <2>9
<1>d. ReportsAgree <=>
        /\ PeriodTotals = -out(U) /\ ClosingTotals = PeriodTotals
        /\ NetPosition - NetSurplus = -out(U \union O)
        /\ NetCashFlow = TotalOf(Amount, C \intersect R) + out(C \intersect U)
  BY DEF ReportsAgree
<1> DEFINE Z == Lined \ (R \union U)
<1>4. \A S \in SUBSET Lined : SumOver(Net, S) \in Int
  BY TotalsAre
<1>5. \A S, T \in SUBSET Lined : S \intersect T = {} =>
         SumOver(Net, S \union T) = SumOver(Net, S) + SumOver(Net, T)
  BY NetOfTwo
<1>z. /\ \A a \in Lined : Net[a] \in Int /\ (a \notin R \union U => Net[a] = 0)
      /\ SumOver(Net, Lined) = 0 /\ IsFiniteSet(Lined)
  BY NetFacts, LinedIsFinite
<1> HIDE DEF R, U, O, BS, V, X, C, out
<1>6. SumOver(Net, R) + SumOver(Net, U) = 0
  <2>1. SumOver(Net, Lined) = SumOver(Net, R \union U)
    <3>1. R \union U \subseteq Lined /\ \A a \in Lined \ (R \union U) : Net[a] = 0
      BY <1>1, <1>z
    <3>2. \A a \in Lined : Net[a] \in Int
      BY <1>z
    <3>3. IsFiniteSet(Lined)
      BY <1>z
    <3> QED
      BY ONLY <3>1, <3>2, <3>3, SumWithin
  <2>2. SumOver(Net, R \union U) = SumOver(Net, R) + SumOver(Net, U)
    BY <1>1, <1>5
  <2> QED
    BY <1>z, <2>1, <2>2
<1>7. SumOver(Net, U \union O) = SumOver(Net, U) + SumOver(Net, O)
  <2>1. U \intersect O = {} /\ O \in SUBSET Lined
    BY <1>1
  <2> QED
    BY <1>1, <1>5, <2>1
<1>8. SumOver(Net, R) = SumOver(Net, BS) + (SumOver(Net, V) + SumOver(Net, X)) + SumOver(Net, O)
  <2>1. /\ BS \in SUBSET Lined /\ V \in SUBSET Lined /\ X \in SUBSET Lined /\ O \in SUBSET Lined
        /\ V \union X \in SUBSET Lined /\ BS \union (V \union X) \in SUBSET Lined
    BY <1>1
  <2>2. SumOver(Net, V \union X) = SumOver(Net, V) + SumOver(Net, X)
    BY <1>2, <1>5, <2>1
  <2>3. SumOver(Net, BS \union (V \union X)) = SumOver(Net, BS) + SumOver(Net, V \union X)
    BY <1>2, <1>5, <2>1
  <2>4. SumOver(Net, R) = SumOver(Net, BS \union (V \union X)) + SumOver(Net, O)
    BY <1>2, <1>5, <2>1
  <2> QED
    BY <2>2, <2>3, <2>4
<1>9. SumOver(Net, C) = SumOver(Net, C \intersect R) + SumOver(Net, C \intersect U)
  <2> DEFINE D == (C \intersect R) \union (C \intersect U)
  <2>1. /\ IsFiniteSet(C) /\ D \subseteq C /\ (\A a \in C : Net[a] \in Int) /\ \A a \in C \ D : Net[a] = 0
    <3>1. IsFiniteSet(C)
      BY <1>1, <1>z, FS_Subset
    <3>2. \A a \in C : a \in Lined
      BY <1>1
    <3> QED
      BY <1>z, <3>1, <3>2
  <2>2. SumOver(Net, D) = SumOver(Net, C \intersect R) + SumOver(Net, C \intersect U)
    <3>1. /\ C \intersect R \in SUBSET Lined /\ C \intersect U \in SUBSET Lined
          /\ (C \intersect R) \intersect (C \intersect U) = {}
      BY <1>1
    <3> QED
      BY <1>5, <3>1
  <2> HIDE DEF D
  <2>3. SumOver(Net, C) = SumOver(Net, D)
    BY ONLY <2>1, SumWithin
  <2> QED
    BY <2>2, <2>3
<1>10. /\ SumOver(Net, R) \in Int /\ SumOver(Net, U) \in Int /\ SumOver(Net, O) \in Int
       /\ SumOver(Net, BS) \in Int /\ SumOver(Net, V) \in Int /\ SumOver(Net, X) \in Int
  <2>1. BS \in SUBSET Lined /\ V \in SUBSET Lined /\ X \in SUBSET Lined /\ O \in SUBSET Lined
    BY <1>1
  <2> QED
    BY <1>1, <1>4, <2>1
<1> QED
  BY <1>3, <1>d, <1>6, <1>7, <1>8, <1>9, <1>10

LEMMA ChartSafe ==
  ASSUME ChartInv
  PROVE  ChartTypeOK /\ ReportsReconcile
BY ChartTyped, MissingExplained, CircleNeedsImport, ReportsDoAgree DEF ReportsReconcile

-----------------------------------------------------------------------------
(* All services, side by side. *)
PeopleInv ==
    /\ PayrollInv /\ AttendanceInv
    /\ StoreInv /\ UsersKnown /\ RecentDraftsKept
    /\ VoiceInv /\ VoiceTypeOK
    /\ CsvInv /\ PayrollImportInv /\ ChartInv

LEMMA PeopleInitOk ==
  ASSUME Init
  PROVE  PeopleInv
<1>1. /\ PayrollInit /\ AttendanceInit /\ DraftsInit /\ VoiceInit /\ PayrollImportInit
      /\ CsvInit /\ ChartInit
  BY DEF Init
<1>2. PayrollInv /\ AttendanceInv
  BY <1>1, PayrollInitKeeps, AttendanceInitKeeps
<1>3. StoreInv /\ UsersKnown
  <2>1. Unissued.userId \in DraftUsers
    BY DraftsAssumption DEF Unissued
  <2> QED
    BY <1>1, <2>1, StoreInit DEF DraftsInit, UsersKnown
<1>4. RecentDraftsKept
  BY <1>1, FS_EmptySet, DraftsAssumption DEF DraftsInit, Unissued, RecentDraftsKept
<1>5. VoiceInv /\ VoiceTypeOK
  BY <1>1 DEF VoiceInit, VoiceInv, VoiceShape, VoiceTypeOK
<1>6. CsvInv /\ PayrollImportInv /\ ChartInv
  BY <1>1, CsvInitOk, ImportInitOk, ChartInitOk
<1> QED
  BY <1>2, <1>3, <1>4, <1>5, <1>6 DEF PeopleInv

LEMMA PeopleNextKeeps ==
  ASSUME PeopleInv, [Next]_peopleVars
  PROVE  PeopleInv'
<1>1. /\ [PayrollNext]_payrollVars /\ [AttendanceNext]_attendanceVars
      /\ [DraftsNext]_draftVars /\ [VoiceNext]_voiceVars /\ [CsvNext]_csvVars
      /\ [PayrollImportNext]_payrollImportVars /\ [ChartNext]_chartVars
  BY DEF Next, peopleVars
<1>2. PayrollInv' /\ AttendanceInv'
  BY <1>1, PayrollNextKeeps, AttendanceNextKeeps DEF PeopleInv
<1>3. StoreInv' /\ UsersKnown' /\ RecentDraftsKept'
  BY <1>1, StoreStep, UsersStep, RecentStep DEF PeopleInv
<1>4. VoiceInv' /\ VoiceTypeOK'
  BY <1>1, VoiceStep, VoiceTyped DEF PeopleInv
<1>5. CsvInv' /\ PayrollImportInv' /\ ChartInv'
  BY <1>1, CsvNextKeeps, ImportNextKeeps, ChartNextKeeps DEF PeopleInv
<1> QED
  BY <1>2, <1>3, <1>4, <1>5 DEF PeopleInv

LEMMA PeopleInvHolds == Spec => []PeopleInv
<1>1. Init => PeopleInv
  BY PeopleInitOk
<1>2. PeopleInv /\ [Next]_peopleVars => PeopleInv'
  BY PeopleNextKeeps
<1> QED
  BY <1>1, <1>2, PTL DEF Spec

(* However runs, cash, punches, drafts, dictations, uploads, sheets and      *)
(* reports follow one another, and whatever they hold, the state of each of  *)
(* these services stays well-formed (payroll.service.ts,                     *)
(* attendance.service.ts, ai-drafts.service.ts, voice-journal.service.ts,    *)
(* csv-import.service.ts, payroll-import.service.ts, reports.service.ts).    *)
THEOREM PeopleAreTyped == Spec => []PeopleTypeOK
<1>1. PeopleInv => PeopleTypeOK
  <2> SUFFICES ASSUME PeopleInv PROVE PeopleTypeOK
    OBVIOUS
  <2>1. PayrollTypeOK /\ AttendanceTypeOK
    BY PayrollInvGives, AttendanceInvGives DEF PeopleInv
  <2>2. DraftsTypeOK /\ VoiceTypeOK
    BY DraftsTyped DEF PeopleInv
  <2>3. CsvTypeOK /\ PayrollImportTypeOK /\ ChartTypeOK
    BY ImportTyped, CsvSafe, ChartSafe DEF PeopleInv
  <2> QED
    BY <2>1, <2>2, <2>3 DEF PeopleTypeOK
<1> QED
  BY <1>1, PeopleInvHolds, PTL

(* For any files, sheets, charts and requests, and every order of uploads,   *)
(* commits, changes of the chart, failures and restarts: nothing an upload   *)
(* or a sheet brought enters the books twice but in the cases CsvSound and   *)
(* PayrollImportSound state, and the reports agree but for the lines         *)
(* ReportsReconcile names (csv-import.service.ts, payroll-import.service.ts, *)
(* reports.service.ts).                                                      *)
THEOREM ImportsAreSound == Spec => []ImportsSound
<1>1. PeopleInv => ImportsSound
  <2> SUFFICES ASSUME PeopleInv PROVE ImportsSound
    OBVIOUS
  <2>1. CsvSound /\ PayrollImportSound /\ ReportsReconcile
    BY CsvSafe, ImportSafe, ChartSafe DEF PeopleInv
  <2> QED
    BY <2>1 DEF ImportsSound
<1> QED
  BY <1>1, PeopleInvHolds, PTL
===============================================================================
