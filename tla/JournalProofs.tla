---------------------------- MODULE JournalProofs ----------------------------
(* Proofs about the journal for every value of its constants: its type      *)
(* invariant, exactly-once posting, the four eyes, and closed periods.      *)
EXTENDS Journal, FiniteSetTheorems, TLAPS

(* Live entries are finitely many, so that their number is a number. *)
LEMMA LiveCounted == Cardinality(Live) \in Nat
<1>1. IsFiniteSet(EntryIds)
  BY FS_Interval, BoundsAssumption DEF EntryIds
<1>2. Live \subseteq EntryIds
  BY DEF Live
<1> QED
  BY <1>1, <1>2, FS_Subset, FS_CardinalityType

LEMMA FreshAreAbsent ==
  ASSUME NEW e \in Fresh
  PROVE  e \in EntryIds /\ journal[e].status = "ABSENT"
BY DEF Fresh

(* A party found by name is one of the parties there can be. *)
LEMMA PartyForType ==
  ASSUME TypeOK, NEW a \in Accounts, NEW ref \in PartyRefs \union Names
  PROVE  PartyFor(a, ref) \in PartyRefs
<1>1. CASE ref \in Names /\ a \in Controlled
  <2>1. <<a, ref>> \in PartyIds
    BY <1>1 DEF PartyIds
  <2>2. PartyNamed(a, ref) \in PartyIds
    BY <1>1, <2>1 DEF PartyNamed, TypeOK
  <2> QED
    BY <1>1, <2>2 DEF PartyFor, PartyRefs
<1>2. CASE ~(ref \in Names /\ a \in Controlled)
  BY <1>2 DEF PartyFor, PartyRefs
<1> QED
  BY <1>1, <1>2

LEMMA PartyNamedType ==
  ASSUME TypeOK, NEW a \in Controlled, NEW n \in Names
  PROVE  PartyNamed(a, n) \in PartyIds
<1>1. <<a, n>> \in PartyIds
  BY DEF PartyIds
<1> QED
  BY <1>1 DEF PartyNamed, TypeOK

(* Clients' requests and those the program makes are of one form.            *)
IsRequest(r) == DOMAIN r.lines \subseteq Accounts /\ r.lines \in [DOMAIN r.lines -> RequestLine]

LEMMA ClientsRequests ==
  ASSUME NEW r \in Requests
  PROVE  IsRequest(r)
BY RequestsAssumption DEF IsRequest

LEMMA PartiesOfType ==
  ASSUME TypeOK, NEW r, NEW S \in SUBSET (DOMAIN r.lines)
  PROVE  PartiesOf(r, S) \subseteq PartyIds
<1> SUFFICES ASSUME NEW a \in S \intersect Controlled, r.lines[a].ref \in Names
             PROVE  PartyFor(a, r.lines[a].ref) \in PartyIds
  BY DEF PartiesOf
<1>1. PartyFor(a, r.lines[a].ref) = PartyNamed(a, r.lines[a].ref)
  BY AccountsAssumption DEF PartyFor
<1> QED
  BY <1>1, PartyNamedType

(* Rounding an amount that is not negative gives a number of piasters. *)
LEMMA RoundingType ==
  ASSUME NEW mills \in Int, mills >= 0
  PROVE  ToPiasters(mills) \in Nat
BY DEF ToPiasters

LEMMA RecordedType ==
  ASSUME TypeOK, NEW r, IsRequest(r), RequestOk(r)
  PROVE  /\ DOMAIN Recorded(r) \subseteq Accounts
         /\ Recorded(r) \in [DOMAIN Recorded(r) -> RecordedLine]
<1>1. DOMAIN Recorded(r) = DOMAIN r.lines /\ DOMAIN r.lines \subseteq Accounts
  BY DEF IsRequest, Recorded
<1>2. ASSUME NEW a \in DOMAIN r.lines
      PROVE  Recorded(r)[a] \in RecordedLine
  <2>1. r.lines[a] \in RequestLine /\ a \in Accounts
    BY DEF IsRequest
  <2>2. r.lines[a].debit >= 0 /\ r.lines[a].credit >= 0
    BY DEF RequestOk, LineOk, OneSided
  <2>3. /\ ToPiasters(r.lines[a].debit) \in Nat
        /\ ToPiasters(r.lines[a].credit) \in Nat
    BY <2>1, <2>2, RoundingType DEF RequestLine
  <2>4. PartyFor(a, r.lines[a].ref) \in PartyRefs
    BY <2>1, PartyForType DEF RequestLine, PartyRefs
  <2> QED
    BY <2>3, <2>4 DEF Recorded, RecordedLine
<1> QED
  BY <1>1, <1>2 DEF Recorded

(* A new entry is a draft of its maker that reverses nothing. *)
LEMMA NewEntryFields ==
  ASSUME NEW u \in Users, NEW m \in Months, NEW type \in {"MANUAL", "RECEIPT", "REVERSAL"}
  PROVE  /\ NewEntry(u, m, type) \in Entry
         /\ NewEntry(u, m, type).status = "DRAFT"
         /\ NewEntry(u, m, type).month = m
         /\ NewEntry(u, m, type).type = type
         /\ NewEntry(u, m, type).reversedEntryId = NoEntry
<1> DEFINE c == Cardinality(Live) + 1
<1>1. c \in Nat
  BY LiveCounted
<1>2. Blank \in Entry
  BY BoundsAssumption DEF Blank, Entry, EntryTypes, Statuses, Months
<1> HIDE DEF c
<1>3. NewEntry(u, m, type) =
        [Blank EXCEPT !.status = "DRAFT", !.month = m, !.type = type,
                      !.number = c, !.createdBy = u]
  BY DEF NewEntry, c
<1>4. [Blank EXCEPT !.status = "DRAFT", !.month = m, !.type = type,
                    !.number = c, !.createdBy = u] \in Entry
  BY <1>1, <1>2 DEF Entry, EntryTypes, Statuses
<1> QED
  BY <1>3, <1>4, <1>2 DEF Entry, Blank

LEMMA RegisteredType ==
  ASSUME TypeOK, NEW m \in Months
  PROVE  Registered(m) \in [Months -> PeriodStatuses \union {"NONE"}]
BY DEF Registered, TypeOK, PeriodStatuses

(* The lines of an entry move the balances within their types. *)
LEMMA BalanceAfterType ==
  ASSUME TypeOK, NEW ls, ls \in [DOMAIN ls -> RecordedLine]
  PROVE  BalanceAfter(ls) \in [Accounts -> Int]
<1>1. ASSUME NEW a \in Accounts
      PROVE  BalanceAfter(ls)[a] \in Int
  <2>1. balance[a] \in Int
    BY DEF TypeOK
  <2>2. CASE a \in DOMAIN ls
    <3>1. ls[a].debit \in Nat /\ ls[a].credit \in Nat
      BY <2>2 DEF RecordedLine
    <3>2. Sense(a) * (ls[a].debit - ls[a].credit) \in Int
      BY <3>1 DEF Sense
    <3> QED
      BY <2>1, <2>2, <3>2 DEF BalanceAfter
  <2> QED
    BY <2>1, <2>2 DEF BalanceAfter
<1> QED
  BY <1>1 DEF BalanceAfter

LEMMA ApplyLinesType ==
  ASSUME TypeOK, NEW e \in EntryIds, NEW ls, ls \in [DOMAIN ls -> RecordedLine],
         ApplyLines(e, ls)
  PROVE  /\ balance' \in [Accounts -> Int]
         /\ DOMAIN partyBalance' = PartyIds
         /\ history' \in [EntryIds -> Nat]
BY BalanceAfterType DEF ApplyLines, PartyBalanceAfter, TypeOK

LEMMA SwapType ==
  ASSUME NEW ls, DOMAIN ls \subseteq Accounts, ls \in [DOMAIN ls -> RecordedLine]
  PROVE  /\ DOMAIN Swap(ls) \subseteq Accounts
         /\ Swap(ls) \in [DOMAIN Swap(ls) -> RecordedLine]
BY DEF Swap, RecordedLine

-----------------------------------------------------------------------------
(* Type correctness: every step keeps every variable of the journal within  *)
(* its type, whatever the users, accounts, requests and bounds.             *)
LEMMA InitType == Init => TypeOK
<1> SUFFICES ASSUME Init PROVE TypeOK
  OBVIOUS
<1>1. Blank \in Entry
  BY BoundsAssumption DEF Blank, Entry, EntryTypes, Statuses, Months
<1>2. journal \in [EntryIds -> Entry]
  BY <1>1 DEF Init
<1>3. \A e \in EntryIds : /\ DOMAIN lines[e] \subseteq Accounts
                          /\ lines[e] \in [DOMAIN lines[e] -> RecordedLine]
  BY DEF Init, NoLines
<1>4. periods \in [Months -> PeriodStatuses \union {"NONE"}]
  BY DEF Init, PeriodStatuses
<1>5. today \in Months
  BY BoundsAssumption DEF Init, Months
<1> QED
  BY <1>2, <1>3, <1>4, <1>5 DEF Init, TypeOK, PartyRefs

(* What the steps of the workflow do to the header of an entry. *)
LEMMA ApprovedFields ==
  ASSUME NEW entry \in Entry, NEW u \in Users
  PROVE  /\ Approved(entry, u) \in Entry
         /\ Approved(entry, u).status = "APPROVED"
         /\ Approved(entry, u).approvedBy = u
         /\ Approved(entry, u).createdBy = entry.createdBy
         /\ Approved(entry, u).month = entry.month
         /\ Approved(entry, u).type = entry.type
         /\ Approved(entry, u).reversedEntryId = entry.reversedEntryId
BY DEF Approved, Entry, Statuses

LEMMA PostedFields ==
  ASSUME NEW entry \in Entry, NEW u \in Users
  PROVE  /\ Posted(entry, u) \in Entry
         /\ Posted(entry, u).status = "POSTED"
         /\ Posted(entry, u).postedBy = u
         /\ Posted(entry, u).approvedBy = entry.approvedBy
         /\ Posted(entry, u).createdBy = entry.createdBy
         /\ Posted(entry, u).month = entry.month
         /\ Posted(entry, u).type = entry.type
         /\ Posted(entry, u).reversedEntryId = entry.reversedEntryId
BY DEF Posted, Entry, Statuses

LEMMA ReversedByFields ==
  ASSUME NEW entry \in Entry, NEW f \in EntryIds
  PROVE  /\ ReversedBy(entry, f) \in Entry
         /\ ReversedBy(entry, f).status = "REVERSED"
         /\ ReversedBy(entry, f).reversedEntryId = f
         /\ ReversedBy(entry, f).postedBy = entry.postedBy
         /\ ReversedBy(entry, f).approvedBy = entry.approvedBy
         /\ ReversedBy(entry, f).createdBy = entry.createdBy
         /\ ReversedBy(entry, f).month = entry.month
         /\ ReversedBy(entry, f).type = entry.type
BY DEF ReversedBy, Entry, Statuses

LEMMA TypeStep == TypeOK /\ [Next]_vars => TypeOK'
<1> SUFFICES ASSUME TypeOK, [Next]_vars PROVE TypeOK'
  OBVIOUS
<1> USE DEF TypeOK
<1>1. CASE UNCHANGED vars
  BY <1>1 DEF vars, EntryIds
<1>2. CASE NextMonth
  BY <1>2, BoundsAssumption DEF NextMonth, Months
<1>3. ASSUME NEW u \in Users, NEW r \in Requests, CreateJournalEntry(u, r)
      PROVE  TypeOK'
  <2>1. PICK e \in Fresh : /\ journal' = [journal EXCEPT ![e] = NewEntry(u, r.month, "MANUAL")]
                           /\ lines' = [lines EXCEPT ![e] = Recorded(r)]
    BY <1>3 DEF CreateJournalEntry
  <2>2. r.month \in Months
    BY RequestsAssumption
  <2>3. journal' \in [EntryIds -> Entry]
    BY <2>1, <2>2, NewEntryFields
  <2>4. /\ DOMAIN lines' = EntryIds
        /\ \A d \in EntryIds : /\ DOMAIN lines'[d] \subseteq Accounts
                                /\ lines'[d] \in [DOMAIN lines'[d] -> RecordedLine]
    <3>1. RequestOk(r)
      BY <1>3 DEF CreateJournalEntry
    <3> QED
      BY <2>1, <3>1, ClientsRequests, RecordedType, FreshAreAbsent
  <2>5. periods' \in [Months -> PeriodStatuses \union {"NONE"}]
    BY <1>3, <2>2, RegisteredType DEF CreateJournalEntry
  <2>6. parties' \subseteq PartyIds
    BY <1>3, PartiesOfType DEF CreateJournalEntry
  <2> QED
    BY <1>3, <2>3, <2>4, <2>5, <2>6 DEF CreateJournalEntry
<1>4. ASSUME NEW u \in Users, NEW r \in Requests, RefuseJournalEntry(u, r)
      PROVE  TypeOK'
  <2>1. PICK S \in SUBSET (DOMAIN r.lines) : parties' = parties \union PartiesOf(r, S)
    BY <1>4 DEF RefuseJournalEntry, Refused
  <2>2. parties' \subseteq PartyIds
    BY <2>1, PartiesOfType
  <2>3. r.month \in Months
    BY RequestsAssumption
  <2>4. periods' \in [Months -> PeriodStatuses \union {"NONE"}]
    BY <1>4, <2>3, RegisteredType DEF RefuseJournalEntry, Refused
  <2> QED
    BY <1>4, <2>2, <2>4 DEF RefuseJournalEntry, Refused
<1>5. ASSUME NEW u \in Users, NEW e \in EntryIds, SubmitJournalEntry(u, e)
      PROVE  TypeOK'
  BY <1>5 DEF SubmitJournalEntry, Entry, Statuses
<1>6. ASSUME NEW u \in Users, NEW e \in EntryIds, ApproveJournalEntry(u, e)
      PROVE  TypeOK'
  BY <1>6, ApprovedFields DEF ApproveJournalEntry
<1>7. ASSUME NEW u \in Users, NEW e \in EntryIds, PostJournalEntry(u, e)
      PROVE  TypeOK'
  <2>1. journal' \in [EntryIds -> Entry]
    BY <1>7, PostedFields DEF PostJournalEntry
  <2>2. ApplyLines(e, lines[e])
    BY <1>7 DEF PostJournalEntry
  <2>3. /\ balance' \in [Accounts -> Int] /\ DOMAIN partyBalance' = PartyIds
        /\ history' \in [EntryIds -> Nat]
    BY <2>2, ApplyLinesType
  <2> QED
    BY <1>7, <2>1, <2>3 DEF PostJournalEntry
<1>8. ASSUME NEW u \in Users, NEW e \in EntryIds, ReverseJournalEntry(u, e)
      PROVE  TypeOK'
  <2> DEFINE mirrored == Swap(lines[e])
             reversal == Posted(NewEntry(u, today, "REVERSAL"), u)
  <2>1. PICK f \in Fresh :
          /\ journal' = [journal EXCEPT ![e] = ReversedBy(@, f), ![f] = reversal]
          /\ lines' = [lines EXCEPT ![f] = mirrored]
          /\ ApplyLines(f, mirrored)
    BY <1>8 DEF ReverseJournalEntry
  <2>2. f \in EntryIds
    BY FreshAreAbsent
  <2>3. reversal \in Entry
    BY NewEntryFields, PostedFields
  <2>4. journal' \in [EntryIds -> Entry]
    <3> HIDE DEF reversal
    <3> QED
      BY <2>1, <2>2, <2>3, ReversedByFields
  <2>5. /\ DOMAIN mirrored \subseteq Accounts
        /\ mirrored \in [DOMAIN mirrored -> RecordedLine]
    BY SwapType
  <2>6. /\ balance' \in [Accounts -> Int] /\ DOMAIN partyBalance' = PartyIds
        /\ history' \in [EntryIds -> Nat]
    BY <2>1, <2>2, <2>5, ApplyLinesType
  <2>7. /\ DOMAIN lines' = EntryIds
        /\ \A d \in EntryIds : /\ DOMAIN lines'[d] \subseteq Accounts
                                /\ lines'[d] \in [DOMAIN lines'[d] -> RecordedLine]
    <3> HIDE DEF mirrored
    <3> QED
      BY <2>1, <2>2, <2>5
  <2>8. periods' \in [Months -> PeriodStatuses \union {"NONE"}]
    BY <1>8, RegisteredType DEF ReverseJournalEntry
  <2> QED
    BY <1>8, <2>4, <2>6, <2>7, <2>8 DEF ReverseJournalEntry
<1>9. ASSUME NEW u \in Users, NEW e \in EntryIds, RefuseReversal(u, e)
      PROVE  TypeOK'
  <2>1. periods' \in [Months -> PeriodStatuses \union {"NONE"}]
    BY <1>9, RegisteredType DEF RefuseReversal
  <2> QED
    BY <1>9, <2>1 DEF RefuseReversal
<1>10. ASSUME NEW u \in Users, NEW e \in EntryIds, DeleteJournalEntry(u, e)
       PROVE  TypeOK'
  BY <1>10 DEF DeleteJournalEntry, Entry, Statuses
<1>11. ASSUME NEW u \in Users, NEW m \in Months, NEW status \in PeriodStatuses,
              SetPeriodStatus(u, m, status)
       PROVE  TypeOK'
  BY <1>11 DEF SetPeriodStatus
<1>12. ASSUME NEW u \in Users, NEW m \in Months, EnsureOpenPeriod(u, m)
       PROVE  TypeOK'
  BY <1>12 DEF EnsureOpenPeriod, PeriodStatuses
<1>13. ASSUME NEW u \in Users, NEW a \in Controlled, NEW n \in Names, CreateParty(u, a, n)
       PROVE  TypeOK'
  <2>1. parties' \subseteq PartyIds
    BY <1>13, PartyNamedType DEF CreateParty
  <2> QED
    BY <1>13, <2>1 DEF CreateParty
<1>14. ASSUME NEW u \in Users, NEW p \in PartyIds, NEW q \in PartyIds, MergeParties(u, p, q)
       PROVE  TypeOK'
  <2>1. Remaining(p, q) \in PartyRefs
    BY DEF PartyRefs, Remaining
  <2>2. /\ DOMAIN lines' = EntryIds
        /\ \A d \in EntryIds : /\ DOMAIN lines'[d] \subseteq Accounts
                                /\ lines'[d] \in [DOMAIN lines'[d] -> RecordedLine]
    <3>1. ASSUME NEW d \in EntryIds
          PROVE  /\ DOMAIN lines'[d] \subseteq Accounts
                 /\ lines'[d] \in [DOMAIN lines'[d] -> RecordedLine]
      <4>1. CASE d \notin Live
        BY <1>14, <4>1 DEF MergeParties
      <4>2. CASE d \in Live
        <5>1. lines'[d] = [a \in DOMAIN lines[d] |->
                             [lines[d][a] EXCEPT !.party = IF @ = p THEN Remaining(p, q) ELSE @]]
          BY <1>14, <4>2 DEF MergeParties
        <5>2. ASSUME NEW a \in DOMAIN lines[d]
              PROVE  [lines[d][a] EXCEPT !.party = IF @ = p THEN Remaining(p, q) ELSE @] \in RecordedLine
          <6>1. lines[d][a] \in RecordedLine
            OBVIOUS
          <6> QED
            BY <6>1, <2>1 DEF RecordedLine
        <5> QED
          BY <5>1, <5>2
      <4> QED
        BY <4>1, <4>2
    <3> QED
      BY <1>14, <3>1 DEF MergeParties
  <2>3. alias' \in [Names -> PartyRefs]
    <3>1. alias' = [n \in Names |->
             CASE alias[n] = p                     -> Unknown
               [] alias[n] = NoParty /\ n = p[2] -> Remaining(p, q)
               [] OTHER                            -> alias[n]]
      BY <1>14 DEF MergeParties
    <3> QED
      BY <3>1, <2>1 DEF PartyRefs, TypeOK
  <2>4. DOMAIN partyBalance' = PartyIds
    BY <1>14 DEF MergeParties
  <2> QED
    BY <1>14, <2>2, <2>3, <2>4 DEF MergeParties
<1> QED
  BY <1>1, <1>2, <1>3, <1>4, <1>5, <1>6, <1>7, <1>8, <1>9, <1>10, <1>11, <1>12, <1>13, <1>14
     DEF Next, Create, Workflow, Period, Party

(* Every reachable state of the journal satisfies its type invariant. *)
THEOREM TypeCorrect == Spec => []TypeOK
<1> QED
  BY InitType, TypeStep, PTL DEF Spec

-----------------------------------------------------------------------------
(* The inductive invariant behind exactly-once posting and the four eyes:   *)
(* an entry that was never posted is linked to no reversal and has touched  *)
(* no balance, a reversed one keeps its link, and only an admissible        *)
(* approval makes an entry approved.                                        *)
Unposted == {"ABSENT", "DRAFT", "SUBMITTED", "APPROVED"}

Linked(e) ==
    /\ journal[e].status \in Unposted => ~Reversed(e) /\ history[e] = 0
    /\ journal[e].status = "REVERSED" => Reversed(e)

Posting(e) ==
    /\ history[e] =
          CASE journal[e].status = "POSTED"   -> IF Reversed(e) THEN 2 ELSE 1
            [] journal[e].status = "REVERSED" -> 1
            [] journal[e].status = "DELETED"  -> IF Reversed(e) THEN 1 ELSE 0
            [] OTHER                          -> 0
    /\ history[e] = 2 => journal[e].postedBy \in Exempt

Approval(e) ==
    /\ journal[e].status = "APPROVED" => ApprovalOk(journal[e])
    /\ journal[e].type = "MANUAL" /\ history[e] > 0 =>
          ApprovalOk(journal[e]) \/ journal[e].postedBy \in Exempt

EntryInv(e) == Linked(e) /\ Posting(e) /\ Approval(e)
IInv == TypeOK /\ \A e \in EntryIds : EntryInv(e)

LEMMA EntryUntouched ==
  ASSUME NEW e, EntryInv(e), journal'[e] = journal[e], history'[e] = history[e]
  PROVE  EntryInv(e)'
BY DEF EntryInv, Linked, Posting, Approval, Reversed

LEMMA InitEntries == Init => IInv
<1> SUFFICES ASSUME Init PROVE \A e \in EntryIds : EntryInv(e)
  BY InitType DEF IInv
<1> QED
  BY DEF Init, Blank, EntryInv, Linked, Posting, Approval, Reversed

(* Posting raises the history of the entry by one, from none to one, or to  *)
(* two when an exempt user posts a reversed entry.                          *)
LEMMA PostKeepsEntry ==
  ASSUME TypeOK, NEW u \in Users, NEW e \in EntryIds, EntryInv(e), PostJournalEntry(u, e)
  PROVE  EntryInv(e)'
<1>1. journal'[e] = Posted(journal[e], u) /\ history'[e] = history[e] + 1
  BY DEF PostJournalEntry, ApplyLines, TypeOK
<1>2. /\ journal[e].status # "POSTED" /\ journal[e].status \notin {"ABSENT", "DELETED"}
      /\ journal[e].status = "APPROVED" \/ u \in Exempt
  BY DEF PostJournalEntry, MayPost, Live
<1>3. journal[e] \in Entry /\ history[e] \in Nat
  BY DEF TypeOK
<1>4. /\ journal'[e].status = "POSTED" /\ journal'[e].postedBy = u
      /\ journal'[e].approvedBy = journal[e].approvedBy
      /\ journal'[e].createdBy = journal[e].createdBy
      /\ journal'[e].type = journal[e].type
      /\ journal'[e].reversedEntryId = journal[e].reversedEntryId
  BY <1>1, <1>3, PostedFields
<1>5. journal[e].status \in {"DRAFT", "SUBMITTED", "APPROVED", "REVERSED"}
  BY <1>2, <1>3 DEF Entry, Statuses
<1>6. Linked(e)'
  BY <1>4 DEF Linked, Unposted
<1>7. Posting(e)'
  <2>1. CASE journal[e].status = "REVERSED"
    BY <2>1, <1>1, <1>2, <1>4 DEF EntryInv, Linked, Posting, Reversed
  <2>2. CASE journal[e].status # "REVERSED"
    BY <2>2, <1>1, <1>4, <1>5 DEF EntryInv, Linked, Posting, Reversed, Unposted
  <2> QED
    BY <2>1, <2>2
<1>8. Approval(e)'
  BY <1>2, <1>4 DEF EntryInv, Approval, ApprovalOk
<1> QED
  BY <1>6, <1>7, <1>8 DEF EntryInv

(* A reversal marks the reversed entry and posts its mirror; both have      *)
(* touched the balances exactly once.                                       *)
LEMMA ReverseKeepsEntries ==
  ASSUME TypeOK, NEW u \in Users, NEW e \in EntryIds, \A d \in EntryIds : EntryInv(d),
         ReverseJournalEntry(u, e)
  PROVE  \A d \in EntryIds : EntryInv(d)'
<1> DEFINE mirrored == Swap(lines[e])
           reversal == Posted(NewEntry(u, today, "REVERSAL"), u)
<1>1. PICK f \in Fresh :
        /\ journal' = [journal EXCEPT ![e] = ReversedBy(@, f), ![f] = reversal]
        /\ ApplyLines(f, mirrored)
  BY DEF ReverseJournalEntry
<1>2. f \in EntryIds /\ journal[f].status = "ABSENT"
  BY FreshAreAbsent
<1>3. journal[e].status = "POSTED" /\ ~Reversed(e) /\ e # f
  BY <1>2 DEF ReverseJournalEntry, MayReverse, Reversed
<1>4. history' = [history EXCEPT ![f] = @ + 1]
  BY <1>1 DEF ApplyLines
<1>5. journal[e] \in Entry /\ today \in Months /\ history \in [EntryIds -> Nat]
  BY DEF TypeOK
<1>6. EntryInv(e)'
  <2>1. journal'[e] = ReversedBy(journal[e], f) /\ history'[e] = history[e]
    BY <1>1, <1>2, <1>3, <1>4, <1>5 DEF TypeOK
  <2>2. /\ journal'[e].status = "REVERSED" /\ journal'[e].reversedEntryId = f
        /\ journal'[e].postedBy = journal[e].postedBy
        /\ journal'[e].approvedBy = journal[e].approvedBy
        /\ journal'[e].createdBy = journal[e].createdBy
        /\ journal'[e].type = journal[e].type
    BY <2>1, <1>2, <1>5, ReversedByFields
  <2>3. f # NoEntry
    BY <1>2 DEF EntryIds, NoEntry
  <2>4. history[e] = 1
    BY <1>3 DEF EntryInv, Posting
  <2> QED
    BY <2>1, <2>2, <2>3, <2>4 DEF EntryInv, Linked, Posting, Approval, ApprovalOk, Reversed, Unposted
<1>7. EntryInv(f)'
  <2>1. journal'[f] = reversal
    <3> HIDE DEF reversal
    <3> QED
      BY <1>1, <1>2 DEF TypeOK
  <2>2. /\ NewEntry(u, today, "REVERSAL") \in Entry
        /\ NewEntry(u, today, "REVERSAL").type = "REVERSAL"
        /\ NewEntry(u, today, "REVERSAL").reversedEntryId = NoEntry
    BY <1>5, NewEntryFields
  <2>3. /\ journal'[f].status = "POSTED" /\ journal'[f].type = "REVERSAL"
        /\ journal'[f].reversedEntryId = NoEntry
    BY <2>1, <2>2, PostedFields
  <2>4. history'[f] = 1
    BY <1>2, <1>4, <1>5 DEF EntryInv, Linked, Unposted
  <2> QED
    BY <2>3, <2>4 DEF EntryInv, Linked, Posting, Approval, Reversed, Unposted
<1>8. ASSUME NEW d \in EntryIds \ {e, f}
      PROVE  EntryInv(d)'
  <2>1. journal'[d] = journal[d]
    <3> HIDE DEF reversal
    <3> QED
      BY <1>1, <1>2 DEF TypeOK
  <2>2. history'[d] = history[d]
    BY <1>4, <1>5
  <2> QED
    BY <2>1, <2>2, EntryUntouched
<1> QED
  BY <1>6, <1>7, <1>8

LEMMA CreateKeepsEntries ==
  ASSUME TypeOK, NEW u \in Users, NEW r \in Requests, \A d \in EntryIds : EntryInv(d),
         CreateJournalEntry(u, r)
  PROVE  \A d \in EntryIds : EntryInv(d)'
<1>1. PICK e \in Fresh : journal' = [journal EXCEPT ![e] = NewEntry(u, r.month, "MANUAL")]
  BY DEF CreateJournalEntry
<1>2. e \in EntryIds /\ journal[e].status = "ABSENT"
  BY FreshAreAbsent
<1>3. history' = history
  BY DEF CreateJournalEntry
<1>4. r.month \in Months
  BY RequestsAssumption
<1>5. journal'[e] = NewEntry(u, r.month, "MANUAL")
  BY <1>1, <1>2 DEF TypeOK
<1>6. journal'[e].status = "DRAFT" /\ journal'[e].reversedEntryId = NoEntry
  BY <1>4, <1>5, NewEntryFields
<1>7. history[e] = 0
  BY <1>2 DEF EntryInv, Linked, Unposted
<1>8. EntryInv(e)'
  BY <1>3, <1>6, <1>7 DEF EntryInv, Linked, Posting, Approval, Reversed, Unposted
<1>9. ASSUME NEW d \in EntryIds \ {e}
      PROVE  EntryInv(d)'
  BY <1>1, <1>3, <1>9, EntryUntouched DEF TypeOK
<1> QED
  BY <1>8, <1>9

(* Submitting, approving and deleting touch one entry and no balance. *)
LEMMA SubmitKeepsEntry ==
  ASSUME TypeOK, NEW u \in Users, NEW e \in EntryIds, EntryInv(e), SubmitJournalEntry(u, e)
  PROVE  EntryInv(e)'
BY DEF SubmitJournalEntry, TypeOK, Entry, EntryInv, Linked, Posting, Approval, ApprovalOk,
       Reversed, Unposted

LEMMA ApproveKeepsEntry ==
  ASSUME TypeOK, NEW u \in Users, NEW e \in EntryIds, EntryInv(e), ApproveJournalEntry(u, e)
  PROVE  EntryInv(e)'
<1>1. journal'[e] = Approved(journal[e], u) /\ history'[e] = history[e]
  BY DEF ApproveJournalEntry, TypeOK
<1>2. /\ journal[e].status \in {"SUBMITTED", "DRAFT"}
      /\ journal[e].createdBy # u \/ u \in Exempt
      /\ u \in Approvers
  BY DEF ApproveJournalEntry, MayApprove
<1>3. journal[e] \in Entry
  BY DEF TypeOK
<1>4. /\ journal'[e].status = "APPROVED" /\ journal'[e].approvedBy = u
      /\ journal'[e].createdBy = journal[e].createdBy
      /\ journal'[e].reversedEntryId = journal[e].reversedEntryId
  BY <1>1, <1>3, ApprovedFields
<1>5. history'[e] = 0 /\ ~Reversed(e)
  BY <1>1, <1>2 DEF EntryInv, Linked, Unposted
<1> QED
  BY <1>2, <1>4, <1>5 DEF EntryInv, Linked, Posting, Approval, ApprovalOk, Reversed, Unposted

LEMMA DeleteKeepsEntry ==
  ASSUME TypeOK, NEW u \in Users, NEW e \in EntryIds, EntryInv(e), DeleteJournalEntry(u, e)
  PROVE  EntryInv(e)'
<1>1. journal[e].status \in {"DRAFT", "SUBMITTED", "APPROVED", "REVERSED"}
  BY DEF DeleteJournalEntry, Live, TypeOK, Entry, Statuses
<1>2. /\ journal'[e] = [journal[e] EXCEPT !.status = "DELETED"] /\ history'[e] = history[e]
      /\ journal[e] \in Entry
  BY DEF DeleteJournalEntry, TypeOK
<1>3. /\ journal'[e].status = "DELETED"
      /\ journal'[e].postedBy = journal[e].postedBy
      /\ journal'[e].approvedBy = journal[e].approvedBy
      /\ journal'[e].createdBy = journal[e].createdBy
      /\ journal'[e].type = journal[e].type
      /\ journal'[e].reversedEntryId = journal[e].reversedEntryId
  BY <1>2 DEF Entry
<1> QED
  BY <1>1, <1>2, <1>3 DEF EntryInv, Linked, Posting, Approval, ApprovalOk, Reversed, Unposted

LEMMA EntriesStep == IInv /\ [Next]_vars => IInv'
<1> SUFFICES ASSUME TypeOK, \A d \in EntryIds : EntryInv(d), [Next]_vars
             PROVE  \A d \in EntryIds : EntryInv(d)'
  BY TypeStep DEF IInv, EntryIds
<1> DEFINE Kept == journal' = journal /\ history' = history
<1>1. ASSUME Kept
      PROVE  \A d \in EntryIds : EntryInv(d)'
  BY <1>1, EntryUntouched
<1>2. ASSUME NEW e \in EntryIds, EntryInv(e)',
             \A d \in EntryIds \ {e} : journal'[d] = journal[d] /\ history'[d] = history[d]
      PROVE  \A d \in EntryIds : EntryInv(d)'
  BY <1>2, EntryUntouched
<1>3. CASE UNCHANGED vars
  BY <1>1, <1>3 DEF vars
<1>4. CASE NextMonth
  BY <1>1, <1>4 DEF NextMonth
<1>5. ASSUME NEW u \in Users, Create(u)
      PROVE  \A d \in EntryIds : EntryInv(d)'
  BY <1>1, <1>5, CreateKeepsEntries DEF Create, RefuseJournalEntry, Refused
<1>6. ASSUME NEW u \in Users, NEW e \in EntryIds, SubmitJournalEntry(u, e)
      PROVE  \A d \in EntryIds : EntryInv(d)'
  BY <1>2, <1>6, SubmitKeepsEntry DEF SubmitJournalEntry, TypeOK
<1>7. ASSUME NEW u \in Users, NEW e \in EntryIds, ApproveJournalEntry(u, e)
      PROVE  \A d \in EntryIds : EntryInv(d)'
  BY <1>2, <1>7, ApproveKeepsEntry DEF ApproveJournalEntry, TypeOK
<1>8. ASSUME NEW u \in Users, NEW e \in EntryIds, PostJournalEntry(u, e)
      PROVE  \A d \in EntryIds : EntryInv(d)'
  BY <1>2, <1>8, PostKeepsEntry DEF PostJournalEntry, ApplyLines, TypeOK
<1>9. ASSUME NEW u \in Users, NEW e \in EntryIds, ReverseJournalEntry(u, e)
      PROVE  \A d \in EntryIds : EntryInv(d)'
  BY <1>9, ReverseKeepsEntries
<1>10. ASSUME NEW u \in Users, NEW e \in EntryIds, RefuseReversal(u, e)
       PROVE  \A d \in EntryIds : EntryInv(d)'
  BY <1>1, <1>10 DEF RefuseReversal
<1>11. ASSUME NEW u \in Users, NEW e \in EntryIds, DeleteJournalEntry(u, e)
       PROVE  \A d \in EntryIds : EntryInv(d)'
  BY <1>2, <1>11, DeleteKeepsEntry DEF DeleteJournalEntry, TypeOK
<1>12. ASSUME NEW u \in Users, Period(u) \/ Party(u)
       PROVE  \A d \in EntryIds : EntryInv(d)'
  BY <1>1, <1>12 DEF Period, Party, SetPeriodStatus, EnsureOpenPeriod, CreateParty, MergeParties
<1> QED
  BY <1>3, <1>4, <1>5, <1>6, <1>7, <1>8, <1>9, <1>10, <1>11, <1>12 DEF Next, Workflow

LEMMA EntriesInv == Spec => []IInv
<1> QED
  BY InitEntries, EntriesStep, PTL DEF Spec

(* Exactly-once posting (postJournalEntry, reverseJournalEntry): in every   *)
(* reachable state the status of an entry tells how often its lines moved   *)
(* the balances.                                                            *)
THEOREM PostedExactlyOnce == Spec => []HistoryMatchesStatus
<1>1. IInv => HistoryMatchesStatus
  BY DEF IInv, EntryInv, Posting, HistoryMatchesStatus
<1> QED
  BY <1>1, EntriesInv, PTL

(* The separation of duties of approveJournalEntry and postJournalEntry     *)
(* holds for every entry that has reached the ledger.                       *)
THEOREM FourEyesHold == Spec => []FourEyes
<1>1. IInv => FourEyes
  BY DEF IInv, EntryInv, Approval, FourEyes
<1> QED
  BY <1>1, EntriesInv, PTL

-----------------------------------------------------------------------------
(* A step puts nothing into a period: it creates no entry of the month and  *)
(* applies no lines of one.                                                 *)
Untouched(m) ==
    \A e \in EntryIds : journal'[e].month = m =>
        /\ journal[e].status = "ABSENT" => journal'[e].status = "ABSENT"
        /\ history'[e] = history[e]

ShutStays(m) == periods[m] = "CLOSED" /\ periods'[m] = "CLOSED"

LEMMA FrozenStep ==
  ASSUME TypeOK, Next, NEW m \in Months, ShutStays(m)
  PROVE  Untouched(m)
<1>1. ASSUME journal' = journal, history' = history
      PROVE  Untouched(m)
  BY <1>1 DEF Untouched
<1>2. CASE NextMonth
  BY <1>1, <1>2 DEF NextMonth
<1>3. ASSUME NEW u \in Users, NEW r \in Requests, CreateJournalEntry(u, r)
      PROVE  Untouched(m)
  <2>1. PICK e \in Fresh : journal' = [journal EXCEPT ![e] = NewEntry(u, r.month, "MANUAL")]
    BY <1>3 DEF CreateJournalEntry
  <2>2. e \in EntryIds /\ r.month \in Months
    BY FreshAreAbsent, RequestsAssumption
  <2>3. journal'[e].month # m
    <3>1. journal'[e] = NewEntry(u, r.month, "MANUAL")
      BY <2>1, <2>2 DEF TypeOK
    <3>2. journal'[e].month = r.month
      BY <2>2, <3>1, NewEntryFields
    <3> QED
      BY <1>3, <3>2 DEF CreateJournalEntry, ShutStays
  <2>4. \A d \in EntryIds \ {e} : journal'[d] = journal[d]
    BY <2>1 DEF TypeOK
  <2> QED
    BY <1>3, <2>3, <2>4 DEF CreateJournalEntry, Untouched
<1>4. ASSUME NEW u \in Users, NEW e \in EntryIds,
             SubmitJournalEntry(u, e) \/ ApproveJournalEntry(u, e) \/ DeleteJournalEntry(u, e)
      PROVE  Untouched(m)
  <2>1. history' = history /\ \A d \in EntryIds \ {e} : journal'[d] = journal[d]
    BY <1>4 DEF SubmitJournalEntry, ApproveJournalEntry, DeleteJournalEntry, TypeOK
  <2>2. journal[e].status # "ABSENT"
    BY <1>4 DEF SubmitJournalEntry, ApproveJournalEntry, MayApprove, DeleteJournalEntry, Live
  <2> QED
    BY <2>1, <2>2 DEF Untouched
<1>5. ASSUME NEW u \in Users, NEW e \in EntryIds, PostJournalEntry(u, e)
      PROVE  Untouched(m)
  <2>1. journal'[e] = Posted(journal[e], u) /\ journal[e] \in Entry
    BY <1>5 DEF PostJournalEntry, TypeOK
  <2>2. journal'[e].month # m
    BY <1>5, <2>1, PostedFields DEF PostJournalEntry, MayPost, ShutStays
  <2>3. \A d \in EntryIds \ {e} : journal'[d] = journal[d] /\ history'[d] = history[d]
    BY <1>5 DEF PostJournalEntry, ApplyLines, TypeOK
  <2> QED
    BY <2>2, <2>3 DEF Untouched
<1>6. ASSUME NEW u \in Users, NEW e \in EntryIds, ReverseJournalEntry(u, e)
      PROVE  Untouched(m)
  <2> DEFINE reversal == Posted(NewEntry(u, today, "REVERSAL"), u)
  <2>1. PICK f \in Fresh :
          /\ journal' = [journal EXCEPT ![e] = ReversedBy(@, f), ![f] = reversal]
          /\ history' = [history EXCEPT ![f] = @ + 1]
    BY <1>6 DEF ReverseJournalEntry, ApplyLines
  <2>2. f \in EntryIds /\ journal[f].status = "ABSENT" /\ today \in Months
    BY FreshAreAbsent DEF TypeOK
  <2>3. journal[e].status = "POSTED" /\ e # f
    BY <1>6, <2>2 DEF ReverseJournalEntry, MayReverse
  <2>4. journal'[f].month = today
    <3>1. journal'[f] = reversal
      <4> HIDE DEF reversal
      <4> QED
        BY <2>1, <2>2 DEF TypeOK
    <3>2. /\ NewEntry(u, today, "REVERSAL") \in Entry
          /\ NewEntry(u, today, "REVERSAL").month = today
      BY <2>2, NewEntryFields
    <3> QED
      BY <3>1, <3>2, PostedFields
  <2>5. periods[today] # "CLOSED"
    BY <1>6 DEF ReverseJournalEntry
  <2>6. \A d \in EntryIds \ {e, f} : journal'[d] = journal[d]
    <3> HIDE DEF reversal
    <3> QED
      BY <2>1, <2>2 DEF TypeOK
  <2>7. \A d \in EntryIds \ {f} : history'[d] = history[d]
    BY <2>1 DEF TypeOK
  <2> QED
    BY <2>3, <2>4, <2>5, <2>6, <2>7 DEF Untouched, ShutStays
<1>7. ASSUME NEW u \in Users, Period(u) \/ Party(u)
      PROVE  Untouched(m)
  BY <1>1, <1>7 DEF Period, Party, SetPeriodStatus, EnsureOpenPeriod, CreateParty, MergeParties
<1>8. ASSUME NEW u \in Users, NEW r \in Requests, RefuseJournalEntry(u, r)
      PROVE  Untouched(m)
  BY <1>1, <1>8 DEF RefuseJournalEntry, Refused
<1>9. ASSUME NEW u \in Users, NEW e \in EntryIds, RefuseReversal(u, e)
      PROVE  Untouched(m)
  BY <1>1, <1>9 DEF RefuseReversal
<1> QED
  BY <1>2, <1>3, <1>4, <1>5, <1>6, <1>7, <1>8, <1>9 DEF Next, Create, Workflow

(* While a period is and stays closed, nothing enters it and nothing of it  *)
(* is posted: createJournalEntry, postJournalEntry and reverseJournalEntry  *)
(* all look at the period they write to.                                    *)
THEOREM PeriodsStayFrozen == Spec => ClosedPeriodsFrozen
<1>1. ASSUME TypeOK, [Next]_vars
      PROVE  [\A m \in Months : ShutStays(m) => Untouched(m)]_vars
  BY <1>1, FrozenStep
<1>2. [\A m \in Months : ShutStays(m) => Untouched(m)]_vars
        <=> [\A m \in Months : periods[m] = "CLOSED" /\ periods'[m] = "CLOSED" =>
               \A e \in EntryIds : journal'[e].month = m =>
                  /\ journal[e].status = "ABSENT" => journal'[e].status = "ABSENT"
                  /\ history'[e] = history[e]]_vars
  BY DEF ShutStays, Untouched
<1> QED
  BY <1>1, <1>2, TypeCorrect, PTL DEF Spec, ClosedPeriodsFrozen
=============================================================================
