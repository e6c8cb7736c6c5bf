----------------------------- MODULE BooksProofs -----------------------------
(* Proofs about the amounts in the journal, for every value of its           *)
(* constants: the balance of each account is what the postings explain, an   *)
(* entry balances but for the rounding of its lines, a reversal mirrors its  *)
(* entry, the parties of an account make its balance, and the receipts are   *)
(* what the books show of the collections.                                   *)
EXTENDS JournalProofs, ReceiptBook, FiniteFacts, SequenceTheorems

LEMMA TotalIsSum ==
  ASSUME NEW f
  PROVE  Total(f) = SumOver(f, DOMAIN f)
BY DEF Total, SumOver

Amounts(ls) == [a \in DOMAIN ls |-> ls[a].debit - ls[a].credit]

LEMMA NetIsSum ==
  ASSUME NEW ls
  PROVE  Net(ls) = SumOver(Amounts(ls), DOMAIN ls)
<1>1. DOMAIN Amounts(ls) = DOMAIN ls
  BY DEF Amounts
<1>2. Net(ls) = Total(Amounts(ls))
  BY DEF Net, Amounts
<1> QED
  BY <1>1, <1>2, TotalIsSum

(* Lines whose amounts are whole numbers, on finitely many accounts.         *)
Lines(ls) ==
    /\ IsFiniteSet(DOMAIN ls)
    /\ \A a \in DOMAIN ls : ls[a].debit \in Int /\ ls[a].credit \in Int

LEMMA RecordedLines ==
  ASSUME NEW ls, DOMAIN ls \subseteq Accounts, ls \in [DOMAIN ls -> RecordedLine]
  PROVE  Lines(ls) /\ \A a \in DOMAIN ls : ls[a].debit \in Nat /\ ls[a].credit \in Nat
<1>1. IsFiniteSet(DOMAIN ls)
  BY AccountsAssumption, FS_Subset
<1> QED
  BY <1>1 DEF Lines, RecordedLine

SameAmounts(ls, ms) ==
    /\ DOMAIN ms = DOMAIN ls
    /\ \A a \in DOMAIN ls : ms[a].debit = ls[a].debit /\ ms[a].credit = ls[a].credit

LEMMA NetOfSame ==
  ASSUME NEW ls, Lines(ls), NEW ms, SameAmounts(ls, ms)
  PROVE  Net(ms) = Net(ls) /\ Net(ls) \in Int
<1>1. \A a \in DOMAIN ls : Amounts(ms)[a] = Amounts(ls)[a] /\ Amounts(ls)[a] \in Int
  BY DEF Amounts, Lines, SameAmounts
<1>2. SumOver(Amounts(ms), DOMAIN ls) = SumOver(Amounts(ls), DOMAIN ls)
  BY <1>1, SumSame DEF Lines
<1>3. SumOver(Amounts(ls), DOMAIN ls) \in Int
  BY <1>1, SumType DEF Lines
<1> QED
  BY <1>2, <1>3, NetIsSum DEF SameAmounts

LEMMA NetOfSwap ==
  ASSUME NEW ls, Lines(ls)
  PROVE  Net(Swap(ls)) = -Net(ls) /\ DOMAIN Swap(ls) = DOMAIN ls
<1>1. DOMAIN Swap(ls) = DOMAIN ls
  BY DEF Swap
<1>2. \A a \in DOMAIN ls : Amounts(Swap(ls))[a] = -Amounts(ls)[a] /\ Amounts(ls)[a] \in Int
  BY DEF Amounts, Lines, Swap
<1>3. SumOver(Amounts(Swap(ls)), DOMAIN ls) = -SumOver(Amounts(ls), DOMAIN ls)
  BY <1>2, SumNegate DEF Lines
<1> QED
  BY <1>1, <1>3, NetIsSum

-----------------------------------------------------------------------------
(* Rounding *)

Bounded(ls) ==
    10 * Net(ls) \in -(5 * Cardinality(DOMAIN ls) + 5) .. (5 * Cardinality(DOMAIN ls) + 5)

LEMMA RoundingError ==
  ASSUME NEW mills \in Int
  PROVE  /\ ToPiasters(mills) \in Int
         /\ 10 * ToPiasters(mills) - mills \in -4..5
         /\ mills = 0 => ToPiasters(mills) = 0
BY DEF ToPiasters

(* Each line is off by half a piaster at most, and so is the total that is   *)
(* compared with zero.                                                       *)
LEMMA RecordedIsBounded ==
  ASSUME NEW r \in Requests, RequestOk(r)
  PROVE  Bounded(Recorded(r))
<1> DEFINE D == DOMAIN r.lines
           ls == Recorded(r)
           off == [a \in D |-> 10 * Amounts(ls)[a] - Amounts(r.lines)[a]]
           ten == [a \in D |-> 10 * Amounts(ls)[a]]
<1>1. DOMAIN ls = D /\ IsFiniteSet(D) /\ Cardinality(D) \in Nat
  BY RequestsAssumption, AccountsAssumption, FS_Subset, FS_CardinalityType DEF Recorded
<1>2. ASSUME NEW a \in D
      PROVE  /\ Amounts(ls)[a] \in Int /\ Amounts(r.lines)[a] \in Int
             /\ off[a] \in -5..5
  <2>1. r.lines[a].debit \in Int /\ r.lines[a].credit \in Int
    BY RequestsAssumption DEF RequestLine
  <2>2. r.lines[a].debit = 0 \/ r.lines[a].credit = 0
    BY <2>1 DEF RequestOk, LineOk, OneSided
  <2>3. /\ ls[a].debit = ToPiasters(r.lines[a].debit)
        /\ ls[a].credit = ToPiasters(r.lines[a].credit)
    BY DEF Recorded
  <2>4. /\ Amounts(ls)[a] = ToPiasters(r.lines[a].debit) - ToPiasters(r.lines[a].credit)
        /\ Amounts(r.lines)[a] = r.lines[a].debit - r.lines[a].credit
    BY <1>1, <2>3 DEF Amounts
  <2>5. off[a] = 10 * Amounts(ls)[a] - Amounts(r.lines)[a]
    OBVIOUS
  <2> DEFINE d == r.lines[a].debit
             c == r.lines[a].credit
             pd == ToPiasters(d)
             pc == ToPiasters(c)
  <2>6. /\ pd \in Int /\ 10 * pd - d \in -4..5 /\ (d = 0 => pd = 0)
        /\ pc \in Int /\ 10 * pc - c \in -4..5 /\ (c = 0 => pc = 0)
        /\ d \in Int /\ c \in Int /\ (d = 0 \/ c = 0)
    BY <2>1, <2>2, RoundingError
  <2>7. Amounts(ls)[a] = pd - pc /\ Amounts(r.lines)[a] = d - c /\ off[a] = 10 * (pd - pc) - (d - c)
    BY <2>4, <2>5
  <2> HIDE DEF d, c, pd, pc, off, ls
  <2> QED
    BY <2>6, <2>7
<1>3. SumOver(off, D) = SumOver(ten, D) - SumOver(Amounts(r.lines), D)
  <2>1. ASSUME NEW a \in D
        PROVE  /\ off[a] = ten[a] - Amounts(r.lines)[a]
               /\ ten[a] \in Int /\ Amounts(r.lines)[a] \in Int
    <3> DEFINE x == Amounts(ls)[a]
               y == Amounts(r.lines)[a]
    <3>1. x \in Int /\ y \in Int
      BY <1>2
    <3>2. off[a] = 10 * x - y /\ ten[a] = 10 * x
      OBVIOUS
    <3> HIDE DEF x, off, ten
    <3>3. ten[a] \in Int /\ off[a] = ten[a] - y
      BY <3>1, <3>2
    <3> QED
      BY <3>1, <3>3
  <2> HIDE DEF off, ten
  <2> QED
    BY <1>1, <2>1, SumSubtract
<1>4. SumOver(ten, D) = 10 * SumOver(Amounts(ls), D)
  <2>1. \A a \in D : ten[a] = 10 * Amounts(ls)[a] /\ Amounts(ls)[a] \in Int
    BY <1>2
  <2> HIDE DEF ten
  <2> QED
    BY <1>1, <2>1, SumScale
<1>5. SumOver(off, D) <= 5 * Cardinality(D)
  <2>1. \A a \in D : off[a] \in Int /\ off[a] <= 5
    BY <1>2
  <2> HIDE DEF off
  <2> QED
    BY <1>1, <2>1, SumBound
<1>6. -SumOver(off, D) <= 5 * Cardinality(D)
  <2> DEFINE neg == [a \in D |-> -off[a]]
  <2>1. ASSUME NEW a \in D
        PROVE  neg[a] = -off[a] /\ off[a] \in Int /\ neg[a] \in Int /\ neg[a] <= 5
    <3>1. off[a] \in -5..5
      BY <1>2
    <3>2. neg[a] = -off[a]
      OBVIOUS
    <3> HIDE DEF off, neg
    <3> QED
      BY <3>1, <3>2
  <2> HIDE DEF off, neg
  <2>2. SumOver(neg, D) = -SumOver(off, D)
    BY <1>1, <2>1, SumNegate
  <2>3. SumOver(neg, D) <= 5 * Cardinality(D)
    BY <1>1, <2>1, SumBound
  <2> QED
    BY <2>2, <2>3
<1>7. /\ SumOver(Amounts(ls), D) \in Int /\ SumOver(Amounts(r.lines), D) \in Int
      /\ Net(ls) = SumOver(Amounts(ls), D) /\ Net(r.lines) = SumOver(Amounts(r.lines), D)
  BY <1>1, <1>2, SumType, NetIsSum
<1>8. Net(r.lines) \in -5..4
  BY <1>7 DEF RequestOk, ToPiasters
<1> DEFINE n == Net(ls)
           m == Net(r.lines)
           o == SumOver(off, D)
<1>9. o = 10 * n - m /\ n \in Int /\ m \in -5..4
  BY <1>3, <1>4, <1>7, <1>8
<1>10. o <= 5 * Cardinality(D) /\ -o <= 5 * Cardinality(D)
  BY <1>5, <1>6
<1> HIDE DEF n, m, o
<1>11. 10 * n \in -(5 * Cardinality(D) + 5) .. (5 * Cardinality(D) + 5)
  BY <1>1, <1>9, <1>10
<1> QED
  BY <1>1, <1>11 DEF Bounded, n

-----------------------------------------------------------------------------
(* What a step does to lines, links and balances *)

(* The lines an absent entry receives: those of an accepted request, or the  *)
(* mirrored lines of the entry it reverses.                                  *)
Entered(e) ==
    /\ journal[e].status = "ABSENT"
    /\ journal'[e].reversedEntryId = NoEntry
    /\ \/ \E r \in Requests : RequestOk(r) /\ lines'[e] = Recorded(r)
       \/ \E d \in EntryIds : lines'[e] = Swap(lines[d]) /\ Net(Swap(lines[d])) = 0

LinesKept(e) ==
    /\ SameAmounts(lines[e], lines'[e])
    /\ \/ journal'[e].reversedEntryId = journal[e].reversedEntryId
       \/ Net(Swap(lines[e])) = 0

LEMMA SameLines ==
  ASSUME NEW e, lines'[e] = lines[e], journal'[e].reversedEntryId = journal[e].reversedEntryId
  PROVE  LinesKept(e)
BY DEF LinesKept, SameAmounts

LEMMA CreateMovesLines ==
  ASSUME TypeOK, NEW u \in Users, NEW r \in Requests, CreateJournalEntry(u, r),
         NEW d \in EntryIds
  PROVE  LinesKept(d) \/ Entered(d)
<1>1. PICK e \in Fresh : /\ journal' = [journal EXCEPT ![e] = NewEntry(u, r.month, "MANUAL")]
                         /\ lines' = [lines EXCEPT ![e] = Recorded(r)]
  BY DEF CreateJournalEntry
<1>2. e \in EntryIds /\ journal[e].status = "ABSENT" /\ r.month \in Months
  BY FreshAreAbsent, RequestsAssumption
<1>3. CASE d = e
  <2>1. journal'[e] = NewEntry(u, r.month, "MANUAL") /\ lines'[e] = Recorded(r)
    BY <1>1, <1>2 DEF TypeOK
  <2>2. journal'[e].reversedEntryId = NoEntry
    BY <1>2, <2>1, NewEntryFields
  <2>3. RequestOk(r)
    BY DEF CreateJournalEntry
  <2> QED
    BY <1>2, <1>3, <2>1, <2>2, <2>3 DEF Entered
<1>4. CASE d # e
  <2>1. journal'[d] = journal[d] /\ lines'[d] = lines[d]
    BY <1>1, <1>2, <1>4 DEF TypeOK
  <2> QED
    BY <2>1, SameLines
<1> QED
  BY <1>3, <1>4

LEMMA ReverseMovesLines ==
  ASSUME TypeOK, NEW u \in Users, NEW e \in EntryIds, ReverseJournalEntry(u, e),
         NEW d \in EntryIds
  PROVE  /\ LinesKept(d) \/ Entered(d)
         /\ \E f \in EntryIds : ApplyLines(f, lines'[f])
<1> DEFINE mirrored == Swap(lines[e])
           reversal == Posted(NewEntry(u, today, "REVERSAL"), u)
<1>1. PICK f \in Fresh :
        /\ journal' = [journal EXCEPT ![e] = ReversedBy(@, f), ![f] = reversal]
        /\ lines' = [lines EXCEPT ![f] = mirrored]
        /\ ApplyLines(f, mirrored)
  BY DEF ReverseJournalEntry
<1>2. f \in EntryIds /\ journal[f].status = "ABSENT" /\ e # f /\ today \in Months
  BY FreshAreAbsent DEF ReverseJournalEntry, MayReverse, TypeOK
<1>3. Net(Swap(lines[e])) = 0
  BY DEF ReverseJournalEntry, ReversalOk
<1>4. lines'[f] = mirrored /\ \A c \in EntryIds \ {f} : lines'[c] = lines[c]
  BY <1>1, <1>2 DEF TypeOK
<1>5. /\ journal'[f] = reversal
      /\ \A c \in EntryIds \ {e, f} : journal'[c] = journal[c]
  <2> HIDE DEF reversal
  <2> QED
    BY <1>1, <1>2 DEF TypeOK
<1>6. ApplyLines(f, lines'[f])
  <2> HIDE DEF mirrored
  <2> QED
    BY <1>1, <1>4
<1>7. CASE d = f
  <2>1. /\ NewEntry(u, today, "REVERSAL") \in Entry
        /\ NewEntry(u, today, "REVERSAL").reversedEntryId = NoEntry
    BY <1>2, NewEntryFields
  <2>2. journal'[f].reversedEntryId = NoEntry
    BY <1>5, <2>1, PostedFields
  <2> QED
    BY <1>2, <1>3, <1>4, <1>6, <1>7, <2>2 DEF Entered
<1>8. CASE d = e
  <2>1. SameAmounts(lines[d], lines'[d])
    BY <1>2, <1>4, <1>8 DEF SameAmounts
  <2> QED
    BY <1>2, <1>3, <1>6, <1>8, <2>1 DEF LinesKept
<1>9. CASE d \notin {e, f}
  BY <1>2, <1>4, <1>5, <1>6, <1>9, SameLines
<1> QED
  BY <1>7, <1>8, <1>9

LEMMA MergeMovesLines ==
  ASSUME TypeOK, NEW u \in Users, NEW p \in PartyIds, NEW q \in PartyIds,
         MergeParties(u, p, q), NEW d \in EntryIds
  PROVE  LinesKept(d)
<1>1. journal' = journal
  BY DEF MergeParties
<1>2. SameAmounts(lines[d], lines'[d])
  <2>1. CASE d \notin Live
    BY <2>1 DEF MergeParties, SameAmounts
  <2>2. CASE d \in Live
    <3>1. lines'[d] = [a \in DOMAIN lines[d] |->
                         [lines[d][a] EXCEPT !.party = IF @ = p THEN Remaining(p, q) ELSE @]]
      BY <2>2 DEF MergeParties
    <3>2. ASSUME NEW a \in DOMAIN lines[d]
          PROVE  /\ lines'[d][a].debit = lines[d][a].debit
                 /\ lines'[d][a].credit = lines[d][a].credit
      <4>1. lines[d][a] \in RecordedLine
        BY DEF TypeOK
      <4> QED
        BY <3>1, <4>1 DEF RecordedLine
    <3> QED
      BY <3>1, <3>2 DEF SameAmounts
  <2> QED
    BY <2>1, <2>2
<1> QED
  BY <1>1, <1>2 DEF LinesKept

(* Every step keeps the amounts of the entries there are, and a step that    *)
(* moves a balance applies the lines of one entry.                           *)
LEMMA LinesMove ==
  ASSUME TypeOK, Next, NEW d \in EntryIds
  PROVE  LinesKept(d) \/ Entered(d)
<1>1. ASSUME lines' = lines, journal' = journal
      PROVE  LinesKept(d)
  BY <1>1, SameLines
<1>2. CASE NextMonth
  BY <1>1, <1>2 DEF NextMonth
<1>3. ASSUME NEW u \in Users, NEW r \in Requests, CreateJournalEntry(u, r)
      PROVE  LinesKept(d) \/ Entered(d)
  BY <1>3, CreateMovesLines
<1>4. ASSUME NEW u \in Users, NEW r \in Requests, RefuseJournalEntry(u, r)
      PROVE  LinesKept(d)
  BY <1>1, <1>4 DEF RefuseJournalEntry, Refused
<1>5. ASSUME NEW u \in Users, NEW e \in EntryIds,
             \/ SubmitJournalEntry(u, e) \/ ApproveJournalEntry(u, e)
             \/ PostJournalEntry(u, e)   \/ DeleteJournalEntry(u, e)
      PROVE  LinesKept(d)
  <2>1. lines' = lines
    BY <1>5 DEF SubmitJournalEntry, ApproveJournalEntry, PostJournalEntry, DeleteJournalEntry
  <2>2. journal[d] \in Entry
    BY DEF TypeOK
  <2>3. \/ journal' = [journal EXCEPT ![e].status = "SUBMITTED"]
        \/ journal' = [journal EXCEPT ![e] = Approved(@, u)]
        \/ journal' = [journal EXCEPT ![e] = Posted(@, u)]
        \/ journal' = [journal EXCEPT ![e].status = "DELETED"]
    BY <1>5 DEF SubmitJournalEntry, ApproveJournalEntry, PostJournalEntry, DeleteJournalEntry
  <2>4. journal'[d].reversedEntryId = journal[d].reversedEntryId
    BY <2>2, <2>3, ApprovedFields, PostedFields DEF TypeOK, Entry
  <2> QED
    BY <2>1, <2>4, SameLines
<1>6. ASSUME NEW u \in Users, NEW e \in EntryIds, ReverseJournalEntry(u, e)
      PROVE  LinesKept(d) \/ Entered(d)
  BY <1>6, ReverseMovesLines
<1>7. ASSUME NEW u \in Users, NEW e \in EntryIds, RefuseReversal(u, e)
      PROVE  LinesKept(d)
  BY <1>1, <1>7 DEF RefuseReversal
<1>8. ASSUME NEW u \in Users, Period(u)
      PROVE  LinesKept(d)
  BY <1>1, <1>8 DEF Period, SetPeriodStatus, EnsureOpenPeriod
<1>9. ASSUME NEW u \in Users, Party(u)
      PROVE  LinesKept(d)
  BY <1>1, <1>9, MergeMovesLines DEF Party, CreateParty
<1> QED
  BY <1>2, <1>3, <1>4, <1>5, <1>6, <1>7, <1>8, <1>9 DEF Next, Create, Workflow

LEMMA BalancesMove ==
  ASSUME TypeOK, Next
  PROVE  \/ UNCHANGED <<balance, history>>
         \/ \E e \in EntryIds : ApplyLines(e, lines'[e])
<1>1. ASSUME NEW u \in Users, NEW e \in EntryIds, PostJournalEntry(u, e)
      PROVE  ApplyLines(e, lines'[e])
  BY <1>1 DEF PostJournalEntry
<1>2. ASSUME NEW u \in Users, NEW e \in EntryIds, ReverseJournalEntry(u, e)
      PROVE  \E f \in EntryIds : ApplyLines(f, lines'[f])
  BY <1>2, ReverseMovesLines
<1>3. ASSUME NEW u \in Users, NEW e \in EntryIds,
             \/ SubmitJournalEntry(u, e) \/ ApproveJournalEntry(u, e)
             \/ RefuseReversal(u, e)     \/ DeleteJournalEntry(u, e)
      PROVE  UNCHANGED <<balance, history>>
  BY <1>3 DEF SubmitJournalEntry, ApproveJournalEntry, RefuseReversal, DeleteJournalEntry
<1>4. ASSUME NEW u \in Users, Create(u)
      PROVE  UNCHANGED <<balance, history>>
  BY <1>4 DEF Create, CreateJournalEntry, RefuseJournalEntry, Refused
<1>5. ASSUME NEW u \in Users, Period(u) \/ Party(u)
      PROVE  UNCHANGED <<balance, history>>
  BY <1>5 DEF Period, Party, SetPeriodStatus, EnsureOpenPeriod, CreateParty, MergeParties
<1>6. CASE NextMonth
  BY <1>6 DEF NextMonth
<1> QED
  BY <1>1, <1>2, <1>3, <1>4, <1>5, <1>6 DEF Next, Workflow

-----------------------------------------------------------------------------
(* The rounding of the lines *)

LEMMA InitRounding == Init => RoundingBounded
<1> SUFFICES ASSUME Init, NEW e \in EntryIds
             PROVE  Bounded(lines[e]) /\ ~Reversed(e)
  BY DEF RoundingBounded, Bounded
<1>1. DOMAIN lines[e] = {}
  BY DEF Init, NoLines
<1>2. Net(lines[e]) = 0
  BY <1>1, NetIsSum, SumZero, FS_EmptySet
<1>3. Cardinality(DOMAIN lines[e]) = 0
  BY <1>1, FS_EmptySet
<1>4. ~Reversed(e)
  BY DEF Init, Blank, Reversed
<1> QED
  BY <1>2, <1>3, <1>4 DEF Bounded

LEMMA RoundingStep == IInv /\ RoundingBounded /\ Next => RoundingBounded'
<1> SUFFICES ASSUME IInv, RoundingBounded, Next, NEW e \in EntryIds
             PROVE  Bounded(lines'[e]) /\ (Reversed(e)' => Net(lines'[e]) = 0)
  BY DEF RoundingBounded, Bounded, EntryIds
<1>1. TypeOK
  BY DEF IInv
<1>2. \A d \in EntryIds : Lines(lines[d])
  BY <1>1, RecordedLines DEF TypeOK
<1>3. CASE LinesKept(e)
  <2>1. SameAmounts(lines[e], lines'[e])
    BY <1>3 DEF LinesKept
  <2>2. Net(lines'[e]) = Net(lines[e]) /\ Net(lines[e]) \in Int
    BY <1>2, <2>1, NetOfSame
  <2>3. Bounded(lines'[e])
    BY <2>1, <2>2 DEF RoundingBounded, Bounded, SameAmounts
  <2>4. ASSUME Reversed(e)'
        PROVE  Net(lines[e]) = 0
    <3>1. CASE Reversed(e)
      BY <3>1 DEF RoundingBounded
    <3>2. CASE Net(Swap(lines[e])) = 0
      <4>1. -Net(lines[e]) = 0
        BY <1>2, <3>2, NetOfSwap
      <4> QED
        BY <2>2, <4>1
    <3> QED
      BY <1>3, <2>4, <3>1, <3>2 DEF LinesKept, Reversed
  <2> QED
    BY <2>2, <2>3, <2>4
<1>4. CASE Entered(e)
  <2>1. ~Reversed(e)'
    BY <1>4 DEF Entered, Reversed
  <2>2. ASSUME NEW r \in Requests, RequestOk(r), lines'[e] = Recorded(r)
        PROVE  Bounded(lines'[e])
    BY <2>2, RecordedIsBounded
  <2>3. ASSUME NEW d \in EntryIds, lines'[e] = Swap(lines[d]), Net(Swap(lines[d])) = 0
        PROVE  Bounded(lines'[e])
    <3>1. DOMAIN lines'[e] = DOMAIN lines[d] /\ IsFiniteSet(DOMAIN lines[d])
      BY <1>2, <2>3, NetOfSwap DEF Lines
    <3>2. Cardinality(DOMAIN lines'[e]) \in Nat
      BY <3>1, FS_CardinalityType
    <3> QED
      BY <2>3, <3>2 DEF Bounded
  <2> QED
    BY <1>4, <2>1, <2>2, <2>3 DEF Entered
<1> QED
  BY <1>1, <1>3, <1>4, LinesMove

-----------------------------------------------------------------------------
(* The balances *)

Explained(a) == [e \in EntryIds |-> history[e] * LineNet(e, a)]

LEMMA BalancesAreSums ==
  BalancesMatchHistory <=> \A a \in Accounts : balance[a] = Sense(a) * SumOver(Explained(a), EntryIds)
<1>1. \A a \in Accounts : Total([e \in EntryIds |-> history[e] * LineNet(e, a)])
                            = SumOver(Explained(a), EntryIds)
  BY TotalIsSum DEF Explained
<1> QED
  BY <1>1 DEF BalancesMatchHistory

LEMMA ExplainedType ==
  ASSUME TypeOK, NEW a \in Accounts, NEW e \in EntryIds
  PROVE  history[e] \in Nat /\ LineNet(e, a) \in Int /\ Explained(a)[e] = history[e] * LineNet(e, a)
         /\ Explained(a)[e] \in Int
<1>1. history[e] \in Nat
  BY DEF TypeOK
<1>2. LineNet(e, a) \in Int
  <2>1. a \in DOMAIN lines[e] => lines[e][a].debit \in Nat /\ lines[e][a].credit \in Nat
    BY DEF TypeOK, RecordedLine
  <2> QED
    BY <2>1 DEF LineNet
<1>3. Explained(a)[e] = history[e] * LineNet(e, a)
  BY DEF Explained
<1> QED
  BY <1>1, <1>2, <1>3

LEMMA InitBalances == Init => BalancesMatchHistory
<1> SUFFICES ASSUME Init, NEW a \in Accounts
             PROVE  balance[a] = Sense(a) * SumOver(Explained(a), EntryIds)
  BY BalancesAreSums
<1>1. \A e \in EntryIds : Explained(a)[e] = 0
  BY InitType, ExplainedType DEF Init
<1>2. SumOver(Explained(a), EntryIds) = 0
  <2>1. IsFiniteSet(EntryIds)
    BY FS_Interval, BoundsAssumption DEF EntryIds
  <2> QED
    BY <1>1, <2>1, SumZero
<1> QED
  BY <1>2 DEF Init, Sense

(* Lines that an entry keeps, or an entry no posting has reached yet: what   *)
(* the history explained before, it still explains.                          *)
AbsentUnposted == \A e \in EntryIds : journal[e].status = "ABSENT" => history[e] = 0

LEMMA StillExplained ==
  ASSUME TypeOK, AbsentUnposted, TypeOK', Next, NEW a \in Accounts, NEW e \in EntryIds
  PROVE  history[e] * LineNet(e, a)' = history[e] * LineNet(e, a)
<1>1. TypeOK
  OBVIOUS
<1>2. LineNet(e, a) \in Int /\ LineNet(e, a)' \in Int
  <2>1. LineNet(e, a)' \in Int
    <3>1. a \in DOMAIN lines'[e] => lines'[e][a].debit \in Nat /\ lines'[e][a].credit \in Nat
      BY DEF TypeOK, RecordedLine
    <3> QED
      BY <3>1 DEF LineNet
  <2> QED
    BY <1>1, <2>1, ExplainedType
<1>3. CASE LinesKept(e)
  BY <1>3 DEF LinesKept, SameAmounts, LineNet
<1>4. CASE Entered(e)
  <2>1. history[e] = 0
    BY <1>4 DEF Entered, AbsentUnposted
  <2> QED
    BY <1>2, <2>1
<1> QED
  BY <1>1, <1>3, <1>4, LinesMove

LEMMA BalancesStep ==
  TypeOK /\ AbsentUnposted /\ TypeOK' /\ BalancesMatchHistory /\ Next => BalancesMatchHistory'
<1> SUFFICES ASSUME TypeOK, AbsentUnposted, TypeOK', BalancesMatchHistory, Next, NEW a \in Accounts
             PROVE  balance'[a] = Sense(a) * Total([e \in EntryIds |-> history'[e] * LineNet(e, a)'])
  BY DEF BalancesMatchHistory, Sense, EntryIds
<1> DEFINE f == [e \in EntryIds |-> history'[e] * LineNet(e, a)']
           k == Explained(a)
<1>1. TypeOK /\ IsFiniteSet(EntryIds)
  BY FS_Interval, BoundsAssumption DEF EntryIds
<1>2. Total(f) = SumOver(f, EntryIds)
  BY TotalIsSum
<1>3. balance[a] = Sense(a) * SumOver(k, EntryIds) /\ SumOver(k, EntryIds) \in Int
  BY <1>1, BalancesAreSums, ExplainedType, SumType
<1>4. ASSUME NEW e \in EntryIds
      PROVE  /\ f[e] = history'[e] * LineNet(e, a)'
             /\ k[e] = history[e] * LineNet(e, a)' /\ k[e] \in Int
             /\ history[e] \in Nat /\ LineNet(e, a)' \in Int
  <2>1. LineNet(e, a)' \in Int
    <3>1. a \in DOMAIN lines'[e] => lines'[e][a].debit \in Nat /\ lines'[e][a].credit \in Nat
      BY DEF TypeOK, RecordedLine
    <3> QED
      BY <3>1 DEF LineNet
  <2> QED
    BY <1>1, <2>1, ExplainedType, StillExplained
<1>5. ASSUME UNCHANGED <<balance, history>>
      PROVE  balance'[a] = Sense(a) * Total(f)
  <2>1. \A e \in EntryIds : f[e] = k[e] /\ k[e] \in Int
    BY <1>4, <1>5
  <2> HIDE DEF f, k
  <2>2. SumOver(f, EntryIds) = SumOver(k, EntryIds)
    BY <1>1, <2>1, SumSame
  <2> QED
    BY <1>2, <1>3, <1>5, <2>2
<1>6. ASSUME NEW e \in EntryIds, ApplyLines(e, lines'[e])
      PROVE  balance'[a] = Sense(a) * Total(f)
  <2> DEFINE net == LineNet(e, a)'
  <2>1. history' = [history EXCEPT ![e] = @ + 1] /\ history \in [EntryIds -> Nat]
    BY <1>1, <1>6 DEF ApplyLines, TypeOK
  <2>2. \A d \in EntryIds \ {e} : f[d] = k[d] /\ k[d] \in Int
    BY <1>4, <2>1
  <2>3. k[e] \in Int /\ net \in Int /\ f[e] = k[e] + net
    <3> DEFINE h == history[e]
    <3>1. h \in Nat /\ net \in Int /\ k[e] = h * net /\ f[e] = (h + 1) * net
      BY <1>4, <2>1
    <3> HIDE DEF h, net, f, k
    <3>2. (h + 1) * net = h * net + net /\ h * net \in Int
      BY <3>1
    <3> QED
      BY <3>1, <3>2
  <2>4. balance'[a] = balance[a] + Sense(a) * net
    BY <1>1, <1>6 DEF ApplyLines, BalanceAfter, LineNet, TypeOK, Sense
  <2>5. \A d \in EntryIds : f[d] \in Int /\ k[d] \in Int
    BY <2>2, <2>3
  <2> HIDE DEF f, k, net
  <2>6. SumOver(f, EntryIds) = SumOver(k, EntryIds) + net
    <3>1. SumOver(f, EntryIds) = SumOver(k, EntryIds) + (f[e] - k[e])
      BY <1>1, <2>2, <2>5, SumChange
    <3> QED
      BY <1>3, <2>3, <3>1
  <2> QED
    BY <1>2, <1>3, <2>3, <2>4, <2>6 DEF Sense
<1> QED
  BY <1>1, <1>5, <1>6, BalancesMove

(* The books are explained: in every reachable state the balance of each     *)
(* account is the sum of the lines of the entries, each as often as it was   *)
(* posted and with the sign of the account's nature (postJournalEntry); the  *)
(* lines of an entry balance but for their rounding, and those of a reversed *)
(* entry balance exactly (createJournalEntry, reverseJournalEntry).          *)
THEOREM BooksExplained == Spec => []BooksAreExplained
<1> DEFINE Books == IInv /\ BooksAreExplained
<1>1. Init => Books
  BY InitEntries, InitBalances, InitRounding DEF BooksAreExplained
<1>2. Books /\ [Next]_vars => Books'
  <2>1. ASSUME Books, Next PROVE Books'
    <3>1. IInv' /\ TypeOK /\ TypeOK'
      BY <2>1, EntriesStep DEF IInv
    <3>2. AbsentUnposted
      BY <2>1 DEF AbsentUnposted, IInv, EntryInv, Linked, Unposted
    <3> QED
      BY <2>1, <3>1, <3>2, BalancesStep, RoundingStep DEF BooksAreExplained
  <2>2. ASSUME Books, UNCHANGED vars PROVE Books'
    <3>1. IInv'
      BY <2>2, EntriesStep
    <3>2. BalancesMatchHistory' /\ RoundingBounded'
      BY <2>2 DEF vars, BooksAreExplained, BalancesMatchHistory, RoundingBounded, LineNet,
                  Reversed, Sense, EntryIds
    <3> QED
      BY <3>1, <3>2 DEF BooksAreExplained
  <2> QED
    BY <2>1, <2>2
<1>3. Books => BooksAreExplained
  OBVIOUS
<1> QED
  BY <1>1, <1>2, <1>3, PTL DEF Spec

-----------------------------------------------------------------------------
(* Reversals mirror the entries they reverse *)

(* What no step takes from an entry that is there. *)
Remains(e) ==
    /\ journal'[e].status # "ABSENT"
    /\ journal'[e].type = journal[e].type
    /\ e \in Live' => e \in Live
    /\ history'[e] >= history[e]

LEMMA SameRemains ==
  ASSUME TypeOK, NEW e \in EntryIds, journal[e].status # "ABSENT",
         journal'[e] = journal[e], history'[e] = history[e]
  PROVE  Remains(e)
BY DEF Remains, TypeOK, Live, EntryIds

LEMMA WorkflowRemains ==
  ASSUME TypeOK, NEW u \in Users, NEW e \in EntryIds,
         \/ SubmitJournalEntry(u, e) \/ ApproveJournalEntry(u, e)
         \/ PostJournalEntry(u, e)   \/ DeleteJournalEntry(u, e),
         NEW d \in EntryIds, journal[d].status # "ABSENT"
  PROVE  /\ Remains(d)
         /\ journal'[d].reversedEntryId = journal[d].reversedEntryId
<1>1. journal[d] \in Entry /\ history[d] \in Nat
  BY DEF TypeOK
<1>2. history'[d] >= history[d]
  BY <1>1 DEF SubmitJournalEntry, ApproveJournalEntry, PostJournalEntry, DeleteJournalEntry,
              ApplyLines, TypeOK
<1>3. journal[e].status # "DELETED"
  BY DEF SubmitJournalEntry, ApproveJournalEntry, MayApprove, PostJournalEntry,
         DeleteJournalEntry, Live
<1>4. \/ journal' = [journal EXCEPT ![e].status = "SUBMITTED"]
      \/ journal' = [journal EXCEPT ![e] = Approved(@, u)]
      \/ journal' = [journal EXCEPT ![e] = Posted(@, u)]
      \/ journal' = [journal EXCEPT ![e].status = "DELETED"]
  BY DEF SubmitJournalEntry, ApproveJournalEntry, PostJournalEntry, DeleteJournalEntry
<1>5. CASE d = e
  <2>1. /\ journal'[d].status \in {"SUBMITTED", "APPROVED", "POSTED", "DELETED"}
        /\ journal'[d].type = journal[d].type
        /\ journal'[d].reversedEntryId = journal[d].reversedEntryId
    BY <1>1, <1>4, <1>5, ApprovedFields, PostedFields DEF TypeOK, Entry
  <2>2. d \in Live
    BY <1>3, <1>5 DEF Live
  <2> QED
    BY <1>2, <2>1, <2>2 DEF Remains
<1>6. CASE d # e
  <2>1. journal'[d] = journal[d]
    BY <1>4, <1>6 DEF TypeOK
  <2> QED
    BY <1>2, <2>1 DEF Remains, Live, EntryIds
<1> QED
  BY <1>5, <1>6

LEMMA CreateRemains ==
  ASSUME TypeOK, NEW u \in Users, NEW r \in Requests, CreateJournalEntry(u, r),
         NEW d \in EntryIds
  PROVE  IF journal[d].status # "ABSENT"
         THEN Remains(d) /\ journal'[d].reversedEntryId = journal[d].reversedEntryId
         ELSE /\ journal'[d].reversedEntryId \in {NoEntry, journal[d].reversedEntryId}
              /\ journal'[d].type \in {"MANUAL", journal[d].type}
<1>1. PICK e \in Fresh : journal' = [journal EXCEPT ![e] = NewEntry(u, r.month, "MANUAL")]
  BY DEF CreateJournalEntry
<1>2. e \in EntryIds /\ journal[e].status = "ABSENT" /\ r.month \in Months
  BY FreshAreAbsent, RequestsAssumption
<1>3. history' = history
  BY DEF CreateJournalEntry
<1>4. CASE d = e
  <2>1. journal'[e].reversedEntryId = NoEntry /\ journal'[e].type = "MANUAL"
    BY <1>1, <1>2, NewEntryFields DEF TypeOK
  <2> QED
    BY <1>2, <1>4, <2>1
<1>5. CASE d # e
  <2>1. journal'[d] = journal[d] /\ history'[d] = history[d]
    BY <1>1, <1>3, <1>5 DEF TypeOK
  <2> QED
    BY <2>1, SameRemains
<1> QED
  BY <1>4, <1>5

(* The reversal step: one link appears, from the posted entry to a mirror    *)
(* that was absent.                                                          *)
NewMirror(e, f) ==
    /\ journal[f].status = "ABSENT" /\ e # f
    /\ journal'[e].reversedEntryId = f /\ journal'[f].reversedEntryId = NoEntry
    /\ journal'[f].type = "REVERSAL" /\ history'[f] = history[f] + 1
    /\ lines' = [lines EXCEPT ![f] = Swap(lines[e])]
    /\ \A d \in EntryIds \ {e, f} : journal'[d] = journal[d]

LEMMA ReverseRemains ==
  ASSUME TypeOK, NEW u \in Users, NEW e \in EntryIds, ReverseJournalEntry(u, e)
  PROVE  \E f \in EntryIds :
           /\ NewMirror(e, f)
           /\ \A d \in EntryIds : journal[d].status # "ABSENT" => Remains(d)
<1> DEFINE reversal == Posted(NewEntry(u, today, "REVERSAL"), u)
<1>1. PICK f \in Fresh :
        /\ journal' = [journal EXCEPT ![e] = ReversedBy(@, f), ![f] = reversal]
        /\ lines' = [lines EXCEPT ![f] = Swap(lines[e])]
        /\ history' = [history EXCEPT ![f] = @ + 1]
  BY DEF ReverseJournalEntry, ApplyLines
<1>2. /\ f \in EntryIds /\ journal[f].status = "ABSENT" /\ today \in Months
      /\ journal[e].status = "POSTED" /\ e # f
  BY FreshAreAbsent DEF ReverseJournalEntry, MayReverse, TypeOK
<1>3. /\ journal'[f] = reversal /\ journal'[e] = ReversedBy(journal[e], f)
      /\ \A c \in EntryIds \ {e, f} : journal'[c] = journal[c]
  <2> HIDE DEF reversal
  <2> QED
    BY <1>1, <1>2 DEF TypeOK
<1>4. /\ NewEntry(u, today, "REVERSAL") \in Entry
      /\ NewEntry(u, today, "REVERSAL").type = "REVERSAL"
      /\ NewEntry(u, today, "REVERSAL").reversedEntryId = NoEntry
  BY <1>2, NewEntryFields
<1>5. journal'[f].type = "REVERSAL" /\ journal'[f].reversedEntryId = NoEntry
  BY <1>3, <1>4, PostedFields
<1>6. journal[e] \in Entry /\ history \in [EntryIds -> Nat]
  BY DEF TypeOK
<1>7. /\ journal'[e].status = "REVERSED" /\ journal'[e].reversedEntryId = f
      /\ journal'[e].type = journal[e].type
  BY <1>2, <1>3, <1>6, ReversedByFields
<1>8. \A d \in EntryIds \ {f} : history'[d] = history[d]
  BY <1>1, <1>6
<1>9. NewMirror(e, f)
  BY <1>1, <1>2, <1>3, <1>5, <1>6, <1>7 DEF NewMirror
<1>10. ASSUME NEW d \in EntryIds, journal[d].status # "ABSENT"
       PROVE  Remains(d)
  <2>1. CASE d = e
    BY <1>2, <1>6, <1>7, <1>8, <2>1 DEF Remains, Live
  <2>2. CASE d # e
    BY <1>2, <1>3, <1>8, <1>10, <2>2, SameRemains
  <2> QED
    BY <2>1, <2>2
<1> QED
  BY <1>2, <1>9, <1>10

(* Every other step leaves the links as they are.                            *)
LinksKept ==
    \A d \in EntryIds :
        IF journal[d].status # "ABSENT"
        THEN Remains(d) /\ journal'[d].reversedEntryId = journal[d].reversedEntryId
        ELSE /\ journal'[d].reversedEntryId \in {NoEntry, journal[d].reversedEntryId}
             /\ journal'[d].type \in {"MANUAL", journal[d].type}

LEMMA LinksMove ==
  ASSUME TypeOK, Next
  PROVE  \/ LinksKept
         \/ \E e, f \in EntryIds :
              /\ journal[e].status # "ABSENT" /\ NewMirror(e, f)
              /\ \A d \in EntryIds : journal[d].status # "ABSENT" => Remains(d)
<1>1. ASSUME UNCHANGED <<journal, history>>
      PROVE  LinksKept
  BY <1>1, SameRemains DEF LinksKept
<1>2. CASE NextMonth
  BY <1>1, <1>2 DEF NextMonth
<1>3. ASSUME NEW u \in Users, NEW r \in Requests, CreateJournalEntry(u, r)
      PROVE  LinksKept
  BY <1>3, CreateRemains DEF LinksKept
<1>4. ASSUME NEW u \in Users, NEW r \in Requests, RefuseJournalEntry(u, r)
      PROVE  LinksKept
  BY <1>1, <1>4 DEF RefuseJournalEntry, Refused
<1>5. ASSUME NEW u \in Users, NEW e \in EntryIds,
             \/ SubmitJournalEntry(u, e) \/ ApproveJournalEntry(u, e)
             \/ PostJournalEntry(u, e)   \/ DeleteJournalEntry(u, e)
      PROVE  LinksKept
  <2>1. ASSUME NEW d \in EntryIds, journal[d].status = "ABSENT"
        PROVE  journal'[d] = journal[d]
    <3>1. d # e
      BY <1>5, <2>1 DEF SubmitJournalEntry, ApproveJournalEntry, MayApprove, PostJournalEntry,
                        DeleteJournalEntry, Live
    <3> QED
      BY <1>5, <3>1 DEF SubmitJournalEntry, ApproveJournalEntry, PostJournalEntry,
                        DeleteJournalEntry, TypeOK
  <2> QED
    BY <1>5, <2>1, WorkflowRemains DEF LinksKept
<1>6. ASSUME NEW u \in Users, NEW e \in EntryIds, ReverseJournalEntry(u, e)
      PROVE  \E f \in EntryIds :
               /\ journal[e].status # "ABSENT" /\ NewMirror(e, f)
               /\ \A d \in EntryIds : journal[d].status # "ABSENT" => Remains(d)
  <2>1. journal[e].status # "ABSENT"
    BY <1>6 DEF ReverseJournalEntry, MayReverse
  <2> QED
    BY <1>6, <2>1, ReverseRemains
<1>7. ASSUME NEW u \in Users, NEW e \in EntryIds, RefuseReversal(u, e)
      PROVE  LinksKept
  BY <1>1, <1>7 DEF RefuseReversal
<1>8. ASSUME NEW u \in Users, Period(u) \/ Party(u)
      PROVE  LinksKept
  BY <1>1, <1>8 DEF Period, Party, SetPeriodStatus, EnsureOpenPeriod, CreateParty, MergeParties
<1> QED
  BY <1>2, <1>3, <1>4, <1>5, <1>6, <1>7, <1>8 DEF Next, Create, Workflow

(* Two entries of the journal with the same parties keep the same parties: a *)
(* merge renames the party in both.                                          *)
LEMMA PartiesMove ==
  ASSUME TypeOK, Next, NEW e \in Live, NEW f \in Live,
         NEW a \in DOMAIN lines[e], a \in DOMAIN lines[f], lines[f][a].party = lines[e][a].party
  PROVE  lines'[f][a].party = lines'[e][a].party
<1>1. /\ e \in EntryIds /\ journal[e].status # "ABSENT"
      /\ f \in EntryIds /\ journal[f].status # "ABSENT"
  BY DEF Live
<1>2. ASSUME \A d \in EntryIds : journal[d].status # "ABSENT" => lines'[d] = lines[d]
      PROVE  lines'[f][a].party = lines'[e][a].party
  BY <1>1, <1>2
<1>3. ASSUME NEW u \in Users, NEW p \in PartyIds, NEW q \in PartyIds, MergeParties(u, p, q)
      PROVE  lines'[f][a].party = lines'[e][a].party
  <2>1. \A d \in {e, f} :
          lines'[d][a] = [lines[d][a] EXCEPT !.party = IF @ = p THEN Remaining(p, q) ELSE @]
    BY <1>1, <1>3 DEF MergeParties
  <2>2. lines[e][a] \in RecordedLine /\ lines[f][a] \in RecordedLine
    BY <1>1 DEF TypeOK
  <2>3. \A d \in {e, f} :
          lines'[d][a].party = IF lines[d][a].party = p THEN Remaining(p, q) ELSE lines[d][a].party
    BY <2>1, <2>2 DEF RecordedLine
  <2> QED
    BY <2>3
<1>4. ASSUME NEW u \in Users, Create(u)
      PROVE  lines'[f][a].party = lines'[e][a].party
  BY <1>2, <1>4, FreshAreAbsent
     DEF Create, CreateJournalEntry, RefuseJournalEntry, Refused, TypeOK
<1>5. ASSUME NEW u \in Users, Workflow(u)
      PROVE  lines'[f][a].party = lines'[e][a].party
  <2>1. ASSUME NEW d \in EntryIds, ReverseJournalEntry(u, d)
        PROVE  lines'[f][a].party = lines'[e][a].party
    <3>1. PICK g \in Fresh : lines' = [lines EXCEPT ![g] = Swap(lines[d])]
      BY <2>1 DEF ReverseJournalEntry
    <3> QED
      BY <1>2, <3>1, FreshAreAbsent DEF TypeOK
  <2>2. CASE lines' = lines
    BY <1>2, <2>2
  <2> QED
    BY <1>5, <2>1, <2>2 DEF Workflow, SubmitJournalEntry, ApproveJournalEntry, PostJournalEntry,
                            RefuseReversal, DeleteJournalEntry
<1>6. CASE lines' = lines
  BY <1>2, <1>6
<1> QED
  BY <1>3, <1>4, <1>5, <1>6 DEF Next, NextMonth, Period, Party, SetPeriodStatus,
                                EnsureOpenPeriod, CreateParty

(* An entry and its mirror stay mirrors whatever happens to either.          *)
LEMMA MirrorsStay ==
  ASSUME IInv, Next, NEW e \in EntryIds, NEW f \in EntryIds,
         journal[e].status # "ABSENT", Mirrors(f, e), Remains(e), Remains(f)
  PROVE  Mirrors(f, e)'
<1>1. TypeOK /\ history[f] \in Nat /\ history'[f] >= history[f]
  BY DEF IInv, TypeOK, Remains
<1>2. journal[f].status # "ABSENT"
  BY DEF IInv, EntryInv, Linked, Unposted, Mirrors
<1>3. SameAmounts(lines[e], lines'[e]) /\ SameAmounts(lines[f], lines'[f])
  BY <1>1, <1>2, LinesMove DEF LinesKept, Entered
<1>4. history'[f] > 0
  <2>1. history'[f] \in Nat
    BY EntriesStep DEF IInv, TypeOK, EntryIds
  <2> QED
    BY <1>1, <2>1 DEF Mirrors
<1>5. journal'[f].type = "REVERSAL" /\ f # e /\ DOMAIN lines'[f] = DOMAIN lines'[e]
  BY <1>3 DEF Mirrors, Remains, SameAmounts
<1>6. ASSUME NEW a \in DOMAIN lines'[e]
      PROVE  /\ lines'[f][a].debit = lines'[e][a].credit
             /\ lines'[f][a].credit = lines'[e][a].debit
             /\ {e, f} \subseteq Live' => lines'[f][a].party = lines'[e][a].party
  <2>1. a \in DOMAIN lines[e] /\ a \in DOMAIN lines[f]
    BY <1>3 DEF Mirrors, SameAmounts
  <2>2. /\ lines[f][a].debit = lines[e][a].credit
        /\ lines[f][a].credit = lines[e][a].debit
        /\ {e, f} \subseteq Live => lines[f][a].party = lines[e][a].party
    BY <2>1 DEF Mirrors
  <2>3. {e, f} \subseteq Live' => {e, f} \subseteq Live
    BY DEF Remains
  <2>4. {e, f} \subseteq Live' => lines'[f][a].party = lines'[e][a].party
    BY <1>1, <2>1, <2>2, <2>3, PartiesMove
  <2> QED
    BY <1>3, <2>1, <2>2, <2>4 DEF SameAmounts
<1> QED
  BY <1>4, <1>5, <1>6 DEF Mirrors

LEMMA MirrorsStep == IInv /\ ReversalsMirror /\ Next => ReversalsMirror'
<1> SUFFICES ASSUME IInv, ReversalsMirror, Next
             PROVE  ReversalsMirror'
  OBVIOUS
<1> DEFINE R(e) == journal[e].reversedEntryId
<1>1. TypeOK /\ EntryIds' = EntryIds
  BY DEF IInv, EntryIds
(* Both entries of a link are there. *)
<1>2. ASSUME NEW e \in EntryIds, Reversed(e)
      PROVE  /\ R(e) \in EntryIds /\ Mirrors(R(e), e)
             /\ journal[e].status # "ABSENT" /\ journal[R(e)].status # "ABSENT"
  <2>1. Mirrors(R(e), e)
    BY <1>2 DEF ReversalsMirror
  <2>2. R(e) \in EntryIds
    BY <1>1, <1>2 DEF TypeOK, Entry, Reversed
  <2> QED
    BY <1>2, <2>1, <2>2 DEF IInv, EntryInv, Linked, Unposted, Mirrors
<1>3. CASE LinksKept
  <2>1. ASSUME NEW e \in EntryIds, Reversed(e)'
        PROVE  Reversed(e) /\ journal'[e].reversedEntryId = R(e) /\ Mirrors(R(e), e)'
    <3>1. Reversed(e) /\ journal'[e].reversedEntryId = R(e)
      BY <1>3, <2>1 DEF LinksKept, Reversed
    <3>2. Remains(e) /\ Remains(R(e))
      BY <1>2, <1>3, <3>1 DEF LinksKept
    <3> QED
      BY <1>2, <3>1, <3>2, MirrorsStay
  <2> QED
    BY <1>1, <2>1 DEF ReversalsMirror, Reversed
<1>4. ASSUME NEW e \in EntryIds, NEW f \in EntryIds,
             journal[e].status # "ABSENT", NewMirror(e, f),
             \A d \in EntryIds : journal[d].status # "ABSENT" => Remains(d)
      PROVE  ReversalsMirror'
  <2>1. ASSUME NEW d \in EntryIds, Reversed(d)', d # e
        PROVE  /\ Reversed(d) /\ journal'[d].reversedEntryId = R(d) /\ R(d) # f
               /\ Mirrors(R(d), d)'
    <3>1. Reversed(d) /\ journal'[d].reversedEntryId = R(d)
      BY <1>4, <2>1 DEF NewMirror, Reversed
    <3>2. R(d) # f
      BY <1>2, <1>4, <3>1 DEF NewMirror
    <3> QED
      BY <1>2, <1>4, <3>1, <3>2, MirrorsStay
  <2>2. Mirrors(f, e)'
    <3>1. lines'[f] = Swap(lines[e]) /\ lines'[e] = lines[e]
      BY <1>1, <1>4 DEF NewMirror, TypeOK
    <3>2. journal'[f].type = "REVERSAL" /\ f # e /\ history'[f] > 0
      BY <1>1, <1>4 DEF NewMirror, TypeOK
    <3> QED
      BY <3>1, <3>2 DEF Mirrors, Swap
  <2>3. journal'[e].reversedEntryId = f
    BY <1>4 DEF NewMirror
  <2> QED
    BY <1>1, <2>1, <2>2, <2>3 DEF ReversalsMirror, Reversed
<1> QED
  BY <1>1, <1>3, <1>4, LinksMove

(* Reversals mirror (reverseJournalEntry, the merge route): in every         *)
(* reachable state a reversed entry has a reversal of its own, posted, with  *)
(* its amounts on the other side and the same parties.                       *)
THEOREM ReversalsAreMirrors == Spec => []ReversalsMirror
<1> DEFINE Mirrored == IInv /\ ReversalsMirror
<1>1. Init => Mirrored
  BY InitEntries DEF Init, Blank, ReversalsMirror, Reversed
<1>2. Mirrored /\ [Next]_vars => Mirrored'
  <2>1. ASSUME Mirrored, Next PROVE Mirrored'
    BY <2>1, EntriesStep, MirrorsStep
  <2>2. ASSUME Mirrored, UNCHANGED vars PROVE Mirrored'
    <3>1. IInv'
      BY <2>2, EntriesStep
    <3>2. ReversalsMirror'
      BY <2>2 DEF vars, ReversalsMirror, Mirrors, Reversed, Live, EntryIds
    <3> QED
      BY <3>1, <3>2
  <2> QED
    BY <2>1, <2>2
<1>3. Mirrored => ReversalsMirror
  OBVIOUS
<1> QED
  BY <1>1, <1>2, <1>3, PTL DEF Spec
-----------------------------------------------------------------------------
(* The parties and the accounts they detail *)

PartiesInv == TypeOK /\ partyBalance \in [PartyIds -> Int]

LEMMA PartyIdsFinite == IsFiniteSet(PartyIds) /\ IsFiniteSet(Controlled)
<1>1. IsFiniteSet(Controlled)
  BY AccountsAssumption, FS_Subset
<1> QED
  BY <1>1, AccountsAssumption, FS_Product DEF PartyIds

LEMMA NetOfPartyIsSum ==
  ASSUME NEW ls, Lines(ls), NEW p
  PROVE  /\ NetOfParty(ls, p) = SumOver(Amounts(ls), {a \in DOMAIN ls : ls[a].party = p})
         /\ NetOfParty(ls, p) \in Int
<1> DEFINE A == {a \in DOMAIN ls : ls[a].party = p}
           ms == [a \in A |-> ls[a]]
<1>1. NetOfParty(ls, p) = SumOver(Amounts(ms), A)
  <2>1. DOMAIN ms = A
    OBVIOUS
  <2> QED
    BY <2>1, NetIsSum DEF NetOfParty
<1>2. \A a \in A : Amounts(ms)[a] = Amounts(ls)[a] /\ Amounts(ls)[a] \in Int
  BY DEF Amounts, Lines
<1>3. IsFiniteSet(A)
  BY FS_Subset DEF Lines
<1> HIDE DEF A, ms
<1>4. SumOver(Amounts(ms), A) = SumOver(Amounts(ls), A) /\ SumOver(Amounts(ls), A) \in Int
  BY <1>2, <1>3, SumSame, SumType
<1> QED
  BY <1>1, <1>4 DEF A

(* What a posting gives to the parties, and what it gives to the accounts.   *)
Given(ls)   == [p \in PartyIds |-> IF p \in parties THEN NetOfParty(ls, p) ELSE 0]
Charged(ls) == [a \in Controlled |-> IF a \in DOMAIN ls THEN Amounts(ls)[a] ELSE 0]

LEMMA GivenIsCharged ==
  ASSUME TypeOK, NEW ls, Lines(ls), DOMAIN ls \subseteq Accounts, Attributed(ls)
  PROVE  SumOver(Given(ls), PartyIds) = SumOver(Charged(ls), Controlled)
<1> DEFINE D == DOMAIN ls \intersect Controlled
           part == [a \in D |-> ls[a].party]
<1>1. IsFiniteSet(D) /\ IsFiniteSet(Controlled \ D) /\ D \subseteq Controlled
  BY PartyIdsFinite, FS_Subset
<1>2. \A a \in D : Amounts(ls)[a] \in Int
  BY DEF Amounts, Lines
<1>3. \A a \in D : part[a] \in PartyIds /\ part[a] \in parties
  BY DEF Attributed, TypeOK
<1>4. ASSUME NEW p \in PartyIds
      PROVE  Given(ls)[p] = SumOver(Amounts(ls), {a \in D : part[a] = p})
  <2>1. CASE p \in parties
    <3>1. {a \in D : part[a] = p} = {a \in DOMAIN ls : ls[a].party = p}
      BY <2>1 DEF Attributed
    <3>2. NetOfParty(ls, p) = SumOver(Amounts(ls), {a \in DOMAIN ls : ls[a].party = p})
      BY NetOfPartyIsSum
    <3>3. Given(ls)[p] = NetOfParty(ls, p)
      BY <2>1 DEF Given
    <3> HIDE DEF D, part
    <3> QED
      BY <3>1, <3>2, <3>3
  <2>2. CASE p \notin parties
    <3>1. {a \in D : part[a] = p} = {}
      BY <1>3, <2>2
    <3>2. SumOver(Amounts(ls), {}) = 0
      BY SumZero, FS_EmptySet
    <3> QED
      BY <2>2, <3>1, <3>2 DEF Given
  <2> QED
    BY <2>1, <2>2
<1>5. SumOver(Given(ls), PartyIds) = SumOver(Amounts(ls), D)
  <2> HIDE DEF D, part
  <2> QED
    BY <1>1, <1>2, <1>3, <1>4, PartyIdsFinite, SumOfParts
<1>6. SumOver(Charged(ls), Controlled) = SumOver(Charged(ls), D) + SumOver(Charged(ls), Controlled \ D)
  <2>1. D \union (Controlled \ D) = Controlled /\ D \intersect (Controlled \ D) = {}
    OBVIOUS
  <2>2. \A a \in Controlled : Charged(ls)[a] \in Int
    BY <1>2 DEF Charged
  <2> HIDE DEF D
  <2> QED
    BY <1>1, <2>1, <2>2, SumUnion
<1>7. SumOver(Charged(ls), D) = SumOver(Amounts(ls), D) /\ SumOver(Amounts(ls), D) \in Int
  <2>1. \A a \in D : Charged(ls)[a] = Amounts(ls)[a]
    BY DEF Charged
  <2> HIDE DEF D
  <2> QED
    BY <1>1, <1>2, <2>1, SumSame, SumType
<1>8. SumOver(Charged(ls), Controlled \ D) = 0
  <2>1. \A a \in Controlled \ D : Charged(ls)[a] = 0
    BY DEF Charged
  <2> HIDE DEF D
  <2> QED
    BY <1>1, <2>1, SumZero
<1> HIDE DEF D
<1> QED
  BY <1>5, <1>6, <1>7, <1>8

Signed == [a \in Controlled |-> Sense(a) * balance[a]]

LEMMA DriftIsSums ==
  ASSUME PartiesInv
  PROVE  /\ Drift = SumOver(partyBalance, PartyIds) - SumOver(Signed, Controlled)
         /\ SumOver(partyBalance, PartyIds) \in Int /\ SumOver(Signed, Controlled) \in Int
         /\ \A a \in Controlled : Signed[a] \in Int
<1>1. Total(partyBalance) = SumOver(partyBalance, PartyIds)
  BY TotalIsSum DEF PartiesInv, TypeOK
<1>2. Total([a \in Controlled |-> Sense(a) * balance[a]]) = SumOver(Signed, Controlled)
  <2>1. DOMAIN Signed = Controlled
    BY DEF Signed
  <2> QED
    BY <2>1, TotalIsSum DEF Signed
<1>3. \A a \in Controlled : Signed[a] \in Int
  BY AccountsAssumption DEF Signed, Sense, PartiesInv, TypeOK
<1>4. SumOver(partyBalance, PartyIds) \in Int
  BY PartyIdsFinite, SumType DEF PartiesInv
<1>5. SumOver(Signed, Controlled) \in Int
  BY <1>3, PartyIdsFinite, SumType
<1> QED
  BY <1>1, <1>2, <1>3, <1>4, <1>5 DEF Drift

(* A posting whose lines name the subledgers of their accounts.              *)
LEMMA PostingReconciles ==
  ASSUME PartiesInv, PartiesInv', NEW e \in EntryIds, ApplyLines(e, lines'[e]),
         Attributed(lines'[e])
  PROVE  Drift' = Drift
<1> DEFINE ls == lines'[e]
           pays == SumOver(Given(ls), PartyIds)
           owes == SumOver(Charged(ls), Controlled)
<1>1. Lines(ls) /\ DOMAIN ls \subseteq Accounts
  BY RecordedLines DEF PartiesInv, TypeOK
<1>2. pays = owes
  BY <1>1, GivenIsCharged DEF PartiesInv
<1>3. ASSUME NEW p \in PartyIds PROVE Given(ls)[p] \in Int
  <2>1. NetOfParty(ls, p) \in Int
    BY <1>1, NetOfPartyIsSum
  <2> QED
    BY <2>1 DEF Given
<1>4. \A a \in Controlled : Charged(ls)[a] \in Int
  BY <1>1 DEF Charged, Amounts, Lines
<1>5. SumOver(partyBalance', PartyIds) = SumOver(partyBalance, PartyIds) + pays
  <2>1. \A p \in PartyIds : /\ partyBalance'[p] = partyBalance[p] + Given(ls)[p]
                            /\ partyBalance[p] \in Int
    BY DEF ApplyLines, PartyBalanceAfter, Given, PartiesInv
  <2> QED
    BY <1>3, <2>1, PartyIdsFinite, SumAdd
<1>6. SumOver(Signed', Controlled) = SumOver(Signed, Controlled) + owes
  <2>1. ASSUME NEW a \in Controlled
        PROVE  Signed'[a] = Signed[a] + Charged(ls)[a] /\ Signed[a] \in Int
    <3>1. a \in Accounts /\ balance[a] \in Int /\ Signed[a] = Sense(a) * balance[a]
      BY AccountsAssumption DEF Signed, PartiesInv, TypeOK
    <3>2. Signed'[a] = Sense(a) * balance'[a]
      BY DEF Signed, Sense
    <3>3. balance'[a] = IF a \in DOMAIN ls
                        THEN balance[a] + Sense(a) * (ls[a].debit - ls[a].credit)
                        ELSE balance[a]
      BY <3>1 DEF ApplyLines, BalanceAfter
    <3>4. a \in DOMAIN ls => ls[a].debit \in Int /\ ls[a].credit \in Int
      BY <1>1 DEF Lines
    <3> HIDE DEF ls
    <3> QED
      BY <3>1, <3>2, <3>3, <3>4 DEF Charged, Amounts, Sense
  <2> HIDE DEF ls
  <2> QED
    BY <1>4, <2>1, PartyIdsFinite, SumAdd
<1>7. pays \in Int
  <2> HIDE DEF ls
  <2> QED
    BY <1>3, PartyIdsFinite, SumType
<1>8. Drift = SumOver(partyBalance, PartyIds) - SumOver(Signed, Controlled)
      /\ SumOver(partyBalance, PartyIds) \in Int /\ SumOver(Signed, Controlled) \in Int
  BY DriftIsSums
<1>9. Drift' = SumOver(partyBalance', PartyIds) - SumOver(Signed', Controlled)
  <2>1. (PartiesInv => Drift = SumOver(partyBalance, PartyIds) - SumOver(Signed, Controlled))'
    BY DriftIsSums, PTL
  <2> QED
    BY <2>1 DEF PartyIds
<1> HIDE DEF pays, owes
<1> QED
  BY <1>2, <1>5, <1>6, <1>7, <1>8, <1>9

(* Parties that are merged hand their totals on.                             *)
LEMMA MergeReconciles ==
  ASSUME PartiesInv, PartiesInv', NEW u \in Users, NEW p \in PartyIds, NEW q \in PartyIds,
         MergeParties(u, p, q), p # q
  PROVE  Drift' = Drift
<1> DEFINE k == [partyBalance EXCEPT ![q] = partyBalance[q] + partyBalance[p]]
<1>1. \A x \in PartyIds : k[x] \in Int /\ partyBalance[x] \in Int /\ partyBalance'[x] \in Int
  BY DEF PartiesInv, PartyIds
<1>2. /\ k[q] - partyBalance[q] = partyBalance[p]
      /\ \A x \in PartyIds \ {q} : k[x] = partyBalance[x]
  BY DEF PartiesInv
<1>3. /\ partyBalance'[p] - k[p] = -partyBalance[p]
      /\ \A x \in PartyIds \ {p} : partyBalance'[x] = k[x]
  BY <1>1 DEF PartiesInv, MergeParties
<1> HIDE DEF k
<1>4. SumOver(k, PartyIds) = SumOver(partyBalance, PartyIds) + (k[q] - partyBalance[q])
  <2>1. \A x \in PartyIds : k[x] \in Int /\ partyBalance[x] \in Int
    BY <1>1
  <2>2. \A x \in PartyIds \ {q} : k[x] = partyBalance[x]
    BY <1>2
  <2> QED
    BY <2>1, <2>2, PartyIdsFinite, SumChange
<1>5. SumOver(partyBalance', PartyIds) = SumOver(k, PartyIds) + (partyBalance'[p] - k[p])
  BY <1>1, <1>3, PartyIdsFinite, SumChange
<1>6. SumOver(partyBalance, PartyIds) \in Int /\ partyBalance[p] \in Int
  BY <1>1, DriftIsSums
<1>7. SumOver(partyBalance', PartyIds) = SumOver(partyBalance, PartyIds)
  BY <1>2, <1>3, <1>4, <1>5, <1>6
<1>8. Total(partyBalance') = Total(partyBalance)
  <2>1. DOMAIN partyBalance = PartyIds /\ DOMAIN partyBalance' = PartyIds
    BY DEF PartiesInv, PartyIds
  <2>2. Total(partyBalance) = SumOver(partyBalance, PartyIds)
    BY <2>1, TotalIsSum
  <2>3. Total(partyBalance') = SumOver(partyBalance', PartyIds)
    BY <2>1, TotalIsSum
  <2> QED
    BY <1>7, <2>2, <2>3
<1>9. balance' = balance
  BY DEF MergeParties
<1> QED
  BY <1>8, <1>9 DEF Drift, Sense

(* A step that moves what a party owes applies the lines of one entry, or    *)
(* merges two parties.                                                       *)
LEMMA PartiesChange ==
  ASSUME TypeOK, Next
  PROVE  \/ UNCHANGED <<balance, partyBalance, history>>
         \/ \E e \in EntryIds : ApplyLines(e, lines'[e])
         \/ \E u \in Users, p, q \in PartyIds : MergeParties(u, p, q)
<1>1. ASSUME NEW u \in Users, NEW e \in EntryIds, PostJournalEntry(u, e)
      PROVE  ApplyLines(e, lines'[e])
  BY <1>1 DEF PostJournalEntry
<1>2. ASSUME NEW u \in Users, NEW e \in EntryIds, ReverseJournalEntry(u, e)
      PROVE  \E f \in EntryIds : ApplyLines(f, lines'[f])
  BY <1>2, ReverseMovesLines
<1>3. ASSUME NEW u \in Users, NEW e \in EntryIds,
             \/ SubmitJournalEntry(u, e) \/ ApproveJournalEntry(u, e)
             \/ RefuseReversal(u, e)     \/ DeleteJournalEntry(u, e)
      PROVE  UNCHANGED <<balance, partyBalance, history>>
  BY <1>3 DEF SubmitJournalEntry, ApproveJournalEntry, RefuseReversal, DeleteJournalEntry
<1>4. ASSUME NEW u \in Users, Create(u)
      PROVE  UNCHANGED <<balance, partyBalance, history>>
  BY <1>4 DEF Create, CreateJournalEntry, RefuseJournalEntry, Refused
<1>5. ASSUME NEW u \in Users, Period(u)
      PROVE  UNCHANGED <<balance, partyBalance, history>>
  BY <1>5 DEF Period, SetPeriodStatus, EnsureOpenPeriod
<1>6. CASE NextMonth
  BY <1>6 DEF NextMonth
<1>7. ASSUME NEW u \in Users, Party(u)
      PROVE  \/ UNCHANGED <<balance, partyBalance, history>>
             \/ \E p, q \in PartyIds : MergeParties(u, p, q)
  BY <1>7 DEF Party, CreateParty
<1> QED
  BY <1>1, <1>2, <1>3, <1>4, <1>5, <1>6, <1>7 DEF Next, Workflow

LEMMA PartiesStep == PartiesInv /\ TypeOK' /\ [Next]_vars => PartiesInv'
<1> SUFFICES ASSUME PartiesInv, TypeOK', [Next]_vars
             PROVE  partyBalance' \in [PartyIds -> Int]
  BY DEF PartiesInv, PartyIds
<1>1. CASE UNCHANGED partyBalance
  BY <1>1 DEF PartiesInv
<1>2. ASSUME NEW e \in EntryIds, ApplyLines(e, lines'[e])
      PROVE  partyBalance' \in [PartyIds -> Int]
  <2>1. Lines(lines'[e])
    BY RecordedLines DEF TypeOK
  <2>2. \A p \in PartyIds : NetOfParty(lines'[e], p) \in Int
    BY <2>1, NetOfPartyIsSum
  <2> QED
    BY <1>2, <2>2 DEF ApplyLines, PartyBalanceAfter, PartiesInv
<1>3. ASSUME NEW u \in Users, NEW p \in PartyIds, NEW q \in PartyIds, MergeParties(u, p, q)
      PROVE  partyBalance' \in [PartyIds -> Int]
  BY <1>3 DEF MergeParties, PartiesInv
<1> QED
  BY <1>1, <1>2, <1>3, PartiesChange DEF PartiesInv, vars

(* The subledgers reconcile with the accounts they detail, whatever is       *)
(* posted, reversed or merged: only a party merged into itself                *)
(* (mergeSubledgerParties), or a posting with a line whose party is none of  *)
(* its account (postJournalEntry), may part them.                            *)
THEOREM SubledgersReconcile == Spec => SubledgerReconciles
<1> DEFINE Excused == \/ \E u \in Users, p \in PartyIds : MergeParties(u, p, p)
                      \/ \E e \in EntryIds : history'[e] > history[e] /\ ~Attributed(lines'[e])
<1>1. Init => PartiesInv
  BY InitType DEF Init, PartiesInv
<1>2. PartiesInv /\ TypeOK' /\ [Next]_vars => PartiesInv'
  BY PartiesStep
<1>3. PartiesInv /\ PartiesInv' /\ [Next]_vars => [Drift' = Drift \/ Excused]_vars
  <2> SUFFICES ASSUME PartiesInv, PartiesInv', Next PROVE Drift' = Drift \/ Excused
    OBVIOUS
  <2>1. CASE UNCHANGED <<balance, partyBalance, history>>
    BY <2>1 DEF Drift, Sense
  <2>2. ASSUME NEW e \in EntryIds, ApplyLines(e, lines'[e])
        PROVE  Drift' = Drift \/ Excused
    <3>1. history'[e] > history[e]
      BY <2>2 DEF ApplyLines, PartiesInv, TypeOK
    <3>2. CASE Attributed(lines'[e])
      BY <2>2, <3>2, PostingReconciles
    <3>3. CASE ~Attributed(lines'[e])
      BY <3>1, <3>3
    <3> QED
      BY <3>2, <3>3
  <2>3. ASSUME NEW u \in Users, NEW p \in PartyIds, NEW q \in PartyIds, MergeParties(u, p, q)
        PROVE  Drift' = Drift \/ Excused
    <3>1. CASE p = q
      BY <2>3, <3>1
    <3>2. CASE p # q
      BY <2>3, <3>2, MergeReconciles
    <3> QED
      BY <3>1, <3>2
  <2> HIDE DEF Excused
  <2> QED
    BY <2>1, <2>2, <2>3, PartiesChange DEF PartiesInv
<1>4. Spec => []TypeOK
  BY TypeCorrect
<1> QED
  BY <1>1, <1>2, <1>3, <1>4, PTL DEF Spec, SubledgerReconciles

-----------------------------------------------------------------------------
(* Collections: what they distribute, and the entry that is made of them     *)

Count(q) == IF q.rule = << >> THEN 1 ELSE Len(q.rule)
Piasters(q) == [j \in DOMAIN Shares(q) |-> ToPiasters(Shares(q)[j])]

LEMMA CollectionFacts ==
  ASSUME NEW q \in Collections
  PROVE  /\ q.month \in Months /\ q.amount \in Nat /\ q.cash \in Accounts
         /\ q.rule \in Seq(Beneficiary) /\ Count(q) \in Nat \ {0}
         /\ q.rule # << >> => DOMAIN q.rule = 1..Count(q)
<1>1. /\ q.month \in Months /\ q.amount \in Nat /\ q.cash \in Accounts
      /\ q.rule \in Seq(Beneficiary)
  BY CollectionsAssumption
<1>2. Len(q.rule) \in Nat /\ DOMAIN q.rule = 1..Len(q.rule)
  BY <1>1
<1>3. q.rule # << >> => Len(q.rule) # 0
  BY <1>1
<1> QED
  BY <1>1, <1>2, <1>3 DEF Count

LEMMA PayeeFacts ==
  ASSUME NEW q \in Collections
  PROVE  /\ DOMAIN Payees(q) = 1..Count(q)
         /\ \A i \in 1..Count(q) :
              /\ Payees(q)[i].account \in Accounts /\ Payees(q)[i].account # q.cash
              /\ Payees(q)[i].name \in Names \union {NoParty}
         /\ \A i, j \in 1..Count(q) : Payees(q)[i].account = Payees(q)[j].account => i = j
<1>1. CASE q.rule = << >>
  <2>1. Payees(q) = <<[account |-> DirectAccount, name |-> NoParty]>> /\ Count(q) = 1
    BY <1>1 DEF Payees, Count
  <2>2. DirectAccount \in Accounts /\ q.cash # DirectAccount
    BY <1>1, CollectionsAssumption
  <2> QED
    BY <2>1, <2>2
<1>2. CASE q.rule # << >>
  <2>1. Payees(q) = q.rule /\ DOMAIN q.rule = 1..Count(q)
    BY <1>2, CollectionFacts DEF Payees
  <2>2. \A i \in 1..Count(q) : q.rule[i] \in Beneficiary
    BY <2>1, CollectionFacts
  <2>3. /\ \A i, j \in DOMAIN q.rule : i # j => q.rule[i].account # q.rule[j].account
        /\ \A i \in DOMAIN q.rule : q.rule[i].account # q.cash
    BY CollectionsAssumption
  <2> QED
    BY <2>1, <2>2, <2>3 DEF Beneficiary
<1> QED
  BY <1>1, <1>2

LEMMA RoundedType ==
  ASSUME NEW k \in Int
  PROVE  ToPiasters(k) \in Int
BY DEF ToPiasters

LEMMA RoundedTens ==
  ASSUME NEW n \in Int
  PROVE  ToPiasters(10 * n) = n /\ \A k \in Int : ToPiasters(k - 10 * n) = ToPiasters(k) - n
BY DEF ToPiasters

(* The last beneficiary takes what is left, so the shares make the amount.   *)
LEMMA SharesAddUp ==
  ASSUME NEW q \in Collections
  PROVE  /\ DOMAIN Shares(q) = 1..Count(q)
         /\ \A j \in 1..Count(q) : Shares(q)[j] \in Int
         /\ Total(Piasters(q)) = ToPiasters(q.amount)
<1> DEFINE n == Count(q)
           f == Piasters(q)
<1>1. n \in Nat \ {0} /\ q.amount \in Nat /\ ToPiasters(q.amount) \in Int
  BY CollectionFacts, RoundedType
<1>2. CASE q.rule = << >>
  <2>1. Shares(q) = <<q.amount>> /\ n = 1
    BY <1>2 DEF Shares, Count
  <2>2. DOMAIN f = {1} /\ f[1] = ToPiasters(q.amount)
    BY <2>1 DEF Piasters
  <2>3. SumOver(f, {1}) = f[1] + SumOver(f, {1} \ {1})
    <3>1. IsFiniteSet({1}) /\ 1 \in {1} /\ \A x \in {1} : f[x] \in Int
      BY <1>1, <2>2, FS_Singleton
    <3> HIDE DEF f
    <3> QED
      BY <3>1, SumRemove
  <2>4. SumOver(f, {1} \ {1}) = 0
    <3>1. {1} \ {1} = {}
      OBVIOUS
    <3> HIDE DEF f
    <3> QED
      BY <3>1, SumZero, FS_EmptySet
  <2>5. Total(f) = SumOver(f, {1})
    BY <2>2, TotalIsSum
  <2> QED
    BY <1>1, <2>1, <2>2, <2>3, <2>4, <2>5
<1>3. CASE q.rule # << >>
  <2> DEFINE M == 1..(n - 1)
             b == [i \in M |-> ByPercentage(q, i)]
             rest == q.amount - Total(b)
  <2>1. ASSUME NEW i \in 1..n
        PROVE  \E k \in Int : ByPercentage(q, i) = 10 * k
    <3>1. q.rule[i].percentage \in Nat
      <4>1. q.rule \in Seq(Beneficiary) /\ i \in 1..Len(q.rule)
        BY <1>3, CollectionFacts DEF Count
      <4>2. q.rule[i] \in Beneficiary
        BY <4>1
      <4> QED
        BY <4>2 DEF Beneficiary
    <3> DEFINE prod == q.amount * q.rule[i].percentage
    <3>2. prod \in Int
      BY <1>1, <3>1
    <3>3. ByPercentage(q, i) = 10 * ((prod + 50000) \div 100000)
      BY DEF ByPercentage
    <3> HIDE DEF prod
    <3>4. (prod + 50000) \div 100000 \in Int
      BY <3>2
    <3> QED
      BY <3>3, <3>4
  <2>2. n = Len(q.rule) /\ Shares(q) = [i \in 1..n |-> IF i = n THEN 10 * ToPiasters(rest)
                                                                ELSE ByPercentage(q, i)]
    BY <1>3 DEF Shares, Count
  <2>3. IsFiniteSet(M) /\ M \subseteq 1..n /\ (1..n) \ {n} = M /\ n \in 1..n /\ IsFiniteSet(1..n)
    <3> HIDE DEF n
    <3>1. n \in Int /\ 1 \in Int /\ n - 1 \in Int
      BY <1>1
    <3>2. M \subseteq 1..n /\ (1..n) \ {n} = M /\ n \in 1..n
      BY <1>1
    <3> QED
      BY <3>1, <3>2, FS_Interval
  <2>4. ASSUME NEW i \in M
        PROVE  b[i] = 10 * f[i] /\ f[i] \in Int
    <3>1. PICK k \in Int : ByPercentage(q, i) = 10 * k
      BY <2>1, <2>3
    <3>2. i \in 1..n /\ i # n
      BY <1>1
    <3>3. Shares(q)[i] = 10 * k
      BY <2>2, <3>1, <3>2
    <3>4. f[i] = k
      BY <2>2, <3>2, <3>3, RoundedTens DEF Piasters
    <3> QED
      BY <3>1, <3>4
  <2>5. Total(b) = SumOver(b, M)
    <3>1. DOMAIN b = M
      OBVIOUS
    <3> HIDE DEF b
    <3> QED
      BY <3>1, TotalIsSum
  <2>6. SumOver(b, M) = 10 * SumOver(f, M) /\ SumOver(f, M) \in Int
    <3> HIDE DEF b, f, M
    <3> QED
      BY <2>3, <2>4, SumScale, SumType
  <2>7. rest \in Int /\ ToPiasters(rest) = ToPiasters(q.amount) - SumOver(f, M)
    <3> DEFINE sum == SumOver(f, M)
    <3>1. rest = q.amount - 10 * sum /\ sum \in Int /\ q.amount \in Int
      BY <1>1, <2>5, <2>6
    <3> HIDE DEF sum, rest
    <3>2. ToPiasters(q.amount - 10 * sum) = ToPiasters(q.amount) - sum
      BY <3>1, RoundedTens
    <3>3. rest \in Int
      BY <3>1
    <3> QED
      BY <3>1, <3>2, <3>3 DEF sum
  <2>8. \A j \in 1..n : Shares(q)[j] \in Int
    <3>1. ToPiasters(rest) \in Int
      BY <2>7, RoundedType
    <3> HIDE DEF rest
    <3> QED
      BY <2>1, <2>2, <3>1
  <2>9. DOMAIN f = 1..n /\ f[n] = ToPiasters(rest)
    <3>1. DOMAIN f = 1..n /\ f[n] = ToPiasters(Shares(q)[n])
      BY <2>2, <2>3 DEF Piasters
    <3>2. Shares(q)[n] = 10 * ToPiasters(rest) /\ ToPiasters(rest) \in Int
      BY <2>2, <2>3, <2>7, RoundedType
    <3> HIDE DEF rest, f
    <3> QED
      BY <3>1, <3>2, RoundedTens
  <2>10. SumOver(f, 1..n) = f[n] + SumOver(f, M)
    <3>1. \A j \in 1..n : f[j] \in Int
      BY <2>8, RoundedType, <2>9 DEF Piasters
    <3> HIDE DEF f, M
    <3> QED
      BY <2>3, <3>1, SumRemove
  <2>11. Total(f) = SumOver(f, 1..n)
    BY <2>9, TotalIsSum
  <2>12. DOMAIN Shares(q) = 1..n
    BY <2>2
  <2> HIDE DEF f, M, rest, n
  <2>13. Total(f) = ToPiasters(q.amount)
    BY <1>1, <2>6, <2>7, <2>9, <2>10, <2>11
  <2> QED
    BY <2>8, <2>12, <2>13 DEF f, n
<1> QED
  BY <1>2, <1>3

(* The entry of a collection: the amount on the cash side, a share for each  *)
(* payee on the other.                                                       *)
LEMMA EntryOfFacts ==
  ASSUME NEW q \in Collections
  PROVE  LET ls == EntryOf(q).lines
         IN  /\ EntryOf(q).month = q.month
             /\ DOMAIN ls = {q.cash} \union {Payees(q)[j].account : j \in 1..Count(q)}
             /\ ls[q.cash] = [ref |-> NoParty, debit |-> q.amount, credit |-> 0]
             /\ \A j \in 1..Count(q) : ls[Payees(q)[j].account] = CreditLine(q, j)
<1> DEFINE P == Payees(q)
           i(a) == CHOOSE j \in DOMAIN P : P[j].account = a
           D == {q.cash} \union {P[j].account : j \in DOMAIN P}
           cash == [ref |-> NoParty, debit |-> q.amount, credit |-> 0]
           ls == [a \in D |-> IF a = q.cash THEN cash ELSE CreditLine(q, i(a))]
<1>1. EntryOf(q) = [month |-> q.month, lines |-> ls]
  BY DEF EntryOf
<1>2. DOMAIN P = 1..Count(q)
  BY PayeeFacts
<1>3. ASSUME NEW j \in 1..Count(q)
      PROVE  i(P[j].account) = j
  <2>1. \A k \in DOMAIN P : P[k].account = P[j].account => k = j
    BY <1>2, PayeeFacts
  <2> HIDE DEF P
  <2> QED
    BY <1>2, <2>1
<1>4. \A j \in 1..Count(q) : P[j].account # q.cash
  BY PayeeFacts
<1> HIDE DEF P, i, cash
<1>5. ls[q.cash] = cash
  OBVIOUS
<1>6. ASSUME NEW j \in 1..Count(q)
      PROVE  ls[P[j].account] = CreditLine(q, j)
  BY <1>2, <1>3, <1>4
<1>7. EntryOf(q).month = q.month /\ EntryOf(q).lines = ls
  BY <1>1
<1> HIDE DEF ls
<1>8. DOMAIN ls = {q.cash} \union {P[j].account : j \in 1..Count(q)}
  BY <1>2 DEF ls
<1> QED
  BY <1>5, <1>6, <1>7, <1>8 DEF P, cash

LEMMA EntryIsRequest ==
  ASSUME NEW q \in Collections
  PROVE  IsRequest(EntryOf(q))
<1> DEFINE ls == EntryOf(q).lines
<1>1. DOMAIN ls = {q.cash} \union {Payees(q)[j].account : j \in 1..Count(q)}
  BY EntryOfFacts
<1>2. DOMAIN ls \subseteq Accounts
  BY <1>1, CollectionFacts, PayeeFacts
<1>3. ls[q.cash] \in RequestLine
  <2>1. ls[q.cash] = [ref |-> NoParty, debit |-> q.amount, credit |-> 0]
    BY EntryOfFacts
  <2>2. q.amount \in Int
    BY CollectionFacts
  <2> QED
    BY <2>1, <2>2 DEF RequestLine
<1>4. ASSUME NEW j \in 1..Count(q)
      PROVE  ls[Payees(q)[j].account] \in RequestLine
  <2>1. ls[Payees(q)[j].account] = CreditLine(q, j)
    BY EntryOfFacts
  <2>2. Shares(q)[j] \in Int /\ Payees(q)[j].name \in Names \union {NoParty}
    BY SharesAddUp, PayeeFacts
  <2> QED
    BY <2>1, <2>2 DEF RequestLine, CreditLine
<1>5. \A a \in DOMAIN ls : ls[a] \in RequestLine
  BY <1>1, <1>3, <1>4
<1>6. ls = [a \in DOMAIN ls |-> ls[a]]
  BY EntryOfFacts DEF EntryOf
<1> HIDE DEF ls
<1>7. ls \in [DOMAIN ls -> RequestLine]
  BY <1>5, <1>6
<1> QED
  BY <1>2, <1>7 DEF IsRequest, ls

-----------------------------------------------------------------------------
(* What the books show of a receipt *)

Rounded(shares) == [j \in DOMAIN shares |-> ToPiasters(shares[j])]
Debits(ls)      == [a \in DOMAIN ls |-> ls[a].debit]
Credited(ls)    == {ls[a].credit : a \in {b \in DOMAIN ls : ls[b].credit > 0}}

Distributed(r) ==
    /\ \A j \in DOMAIN r.shares : r.shares[j] > 0
    /\ Total(Rounded(r.shares)) = ToPiasters(r.amount)

Booked(r, ls) ==
    /\ Total(Debits(ls)) = ToPiasters(r.amount)
    /\ Credited(ls) = {ToPiasters(r.shares[j]) : j \in DOMAIN r.shares} \ {0}

LEMMA ExactReceipts ==
  DistributionExact <=>
    \A i \in DOMAIN receipts : Distributed(receipts[i]) /\ Booked(receipts[i], lines[receipts[i].entry])
BY DEF DistributionExact, Distributed, Booked, Rounded, Debits, Credited

LEMMA BookedStays ==
  ASSUME NEW r, NEW ls, NEW ms, SameAmounts(ls, ms), Booked(r, ls)
  PROVE  Booked(r, ms)
<1>1. Debits(ms) = Debits(ls)
  BY DEF SameAmounts, Debits
<1>2. Credited(ms) = Credited(ls)
  BY DEF SameAmounts, Credited
<1> QED
  BY <1>1, <1>2 DEF Booked

(* What is issued is booked: the lines of an accepted collection.            *)
LEMMA IssuedIsBooked ==
  ASSUME NEW q \in Collections, RequestOk(EntryOf(q)),
         NEW r, r.amount = q.amount, r.shares = Shares(q)
  PROVE  Distributed(r) /\ Booked(r, Recorded(EntryOf(q)))
<1> DEFINE ls == EntryOf(q).lines
           ms == Recorded(EntryOf(q))
           acc(j) == Payees(q)[j].account
           n == Count(q)
<1>1. /\ DOMAIN ls = {q.cash} \union {acc(j) : j \in 1..n}
      /\ ls[q.cash].debit = q.amount /\ ls[q.cash].credit = 0
      /\ \A j \in 1..n : ls[acc(j)].debit = 0 /\ ls[acc(j)].credit = Shares(q)[j]
  <2>1. /\ DOMAIN ls = {q.cash} \union {acc(j) : j \in 1..n}
        /\ ls[q.cash] = [ref |-> NoParty, debit |-> q.amount, credit |-> 0]
        /\ \A j \in 1..n : ls[acc(j)] = CreditLine(q, j)
    BY EntryOfFacts
  <2>2. ls[q.cash].debit = q.amount /\ ls[q.cash].credit = 0
    BY <2>1
  <2>3. \A j \in 1..n : CreditLine(q, j).debit = 0 /\ CreditLine(q, j).credit = Shares(q)[j]
    BY DEF CreditLine
  <2> HIDE DEF ls, acc, n
  <2> QED
    BY <2>1, <2>2, <2>3
<1>2. \A a \in DOMAIN ls : OneSided(ls[a])
  BY DEF RequestOk, LineOk
<1>3. DOMAIN Shares(q) = 1..n /\ \A j \in 1..n : Shares(q)[j] \in Int
  BY SharesAddUp
<1>4. \A j \in 1..n : Shares(q)[j] > 0
  BY <1>1, <1>2, <1>3 DEF OneSided
<1>5. ToPiasters(0) = 0 /\ \A j \in 1..n : ToPiasters(Shares(q)[j]) \in Nat
  BY <1>3, <1>4, RoundingType DEF ToPiasters
<1>6. /\ DOMAIN ms = DOMAIN ls
      /\ \A a \in DOMAIN ls : /\ ms[a].debit = ToPiasters(ls[a].debit)
                              /\ ms[a].credit = ToPiasters(ls[a].credit)
  BY DEF Recorded
<1>7. /\ DOMAIN ms = {q.cash} \union {acc(j) : j \in 1..n}
      /\ ms[q.cash].debit = ToPiasters(q.amount) /\ ms[q.cash].credit = 0
      /\ \A j \in 1..n : ms[acc(j)].debit = 0 /\ ms[acc(j)].credit = ToPiasters(Shares(q)[j])
  BY <1>1, <1>5, <1>6
<1> HIDE DEF ls, ms, acc, n
<1>8. Distributed(r)
  <2>1. Rounded(r.shares) = Piasters(q)
    BY DEF Rounded, Piasters
  <2> QED
    BY <1>3, <1>4, <2>1, SharesAddUp DEF Distributed
<1>9. Total(Debits(ms)) = ToPiasters(q.amount)
  <2> DEFINE d == Debits(ms)
             D == DOMAIN ms
  <2>1. q.amount \in Nat /\ ToPiasters(q.amount) \in Int
    BY CollectionFacts, RoundedType
  <2>2. /\ DOMAIN d = D /\ d[q.cash] = ToPiasters(q.amount)
        /\ \A a \in D \ {q.cash} : d[a] = 0
    BY <1>7 DEF Debits
  <2>3. IsFiniteSet(D) /\ q.cash \in D /\ IsFiniteSet(D \ {q.cash})
    <3>1. D \subseteq Accounts
      BY <1>6, EntryIsRequest DEF IsRequest, ls
    <3> QED
      BY <1>7, <3>1, AccountsAssumption, FS_Subset, FS_RemoveElement
  <2> HIDE DEF d, D
  <2>4. SumOver(d, D) = d[q.cash] + SumOver(d, D \ {q.cash})
    <3>1. \A a \in D : d[a] \in Int
      BY <2>1, <2>2
    <3> QED
      BY <2>3, <3>1, SumRemove
  <2>5. SumOver(d, D \ {q.cash}) = 0
    BY <2>2, <2>3, SumZero
  <2>6. Total(d) = SumOver(d, D)
    BY <2>2, TotalIsSum
  <2> QED
    BY <2>1, <2>2, <2>4, <2>5, <2>6 DEF d
<1>10. Credited(ms) = {ToPiasters(r.shares[j]) : j \in DOMAIN r.shares} \ {0}
  <2>1. ASSUME NEW c \in Credited(ms)
        PROVE  c # 0 /\ \E j \in 1..n : c = ToPiasters(Shares(q)[j])
    <3>1. PICK a \in DOMAIN ms : c = ms[a].credit /\ ms[a].credit > 0
      BY DEF Credited
    <3>2. a # q.cash
      BY <1>7, <3>1
    <3> QED
      BY <1>7, <3>1, <3>2
  <2>2. ASSUME NEW j \in 1..n, ToPiasters(Shares(q)[j]) # 0
        PROVE  ToPiasters(Shares(q)[j]) \in Credited(ms)
    <3>1. acc(j) \in DOMAIN ms /\ ms[acc(j)].credit = ToPiasters(Shares(q)[j])
      BY <1>7
    <3>2. ms[acc(j)].credit > 0
      BY <1>5, <2>2, <3>1
    <3> QED
      BY <3>1, <3>2 DEF Credited
  <2>3. {ToPiasters(r.shares[j]) : j \in DOMAIN r.shares} = {ToPiasters(Shares(q)[j]) : j \in 1..n}
    BY <1>3
  <2> QED
    BY <2>1, <2>2, <2>3
<1> QED
  BY <1>8, <1>9, <1>10 DEF Booked, ms


-----------------------------------------------------------------------------
(* Issuing a receipt and the journal                                         *)

LEMMA IssuedEntry ==
  ASSUME NEW u \in Users, NEW q \in Collections
  PROVE  /\ EntryIssued(u, q) \in Entry
         /\ EntryIssued(u, q).status \in {"DRAFT", "POSTED"}
         /\ EntryIssued(u, q).type = "RECEIPT"
         /\ EntryIssued(u, q).reversedEntryId = NoEntry
<1> DEFINE new == NewEntry(u, q.month, "RECEIPT")
           approved == [new EXCEPT !.status = "APPROVED"]
<1>1. /\ new \in Entry /\ new.status = "DRAFT" /\ new.type = "RECEIPT"
      /\ new.reversedEntryId = NoEntry
  BY CollectionFacts, NewEntryFields
<1>2. EntryIssued(u, q) \in {Posted(approved, u), new}
  BY DEF EntryIssued
<1> HIDE DEF new
<1>3. /\ approved \in Entry /\ approved.type = "RECEIPT" /\ approved.reversedEntryId = NoEntry
  BY <1>1 DEF Entry, Statuses
<1> HIDE DEF approved
<1> QED
  BY <1>1, <1>2, <1>3, PostedFields

(* The new entry, its lines and the receipt; no other entry is touched.      *)
IssuedAt(u, q, e) ==
    /\ e \in EntryIds /\ journal[e].status = "ABSENT" /\ RequestOk(EntryOf(q))
    /\ journal' = [journal EXCEPT ![e] = EntryIssued(u, q)]
    /\ lines' = [lines EXCEPT ![e] = Recorded(EntryOf(q))]
    /\ receipts' = Append(receipts, ReceiptOf(q, e))
    /\ IF EntryIssued(u, q).status = "POSTED"
       THEN /\ balance' = BalanceAfter(Recorded(EntryOf(q)))
            /\ DOMAIN partyBalance' = PartyIds
            /\ history' = [history EXCEPT ![e] = 1]
       ELSE UNCHANGED <<balance, partyBalance, history>>

LEMMA IssuedSomewhere ==
  ASSUME NEW u \in Users, NEW q \in Collections, IssueReceipt(u, q)
  PROVE  \E e \in EntryIds : IssuedAt(u, q, e)
<1>1. PICK e \in Fresh :
        /\ journal' = [journal EXCEPT ![e] = EntryIssued(u, q)]
        /\ lines' = [lines EXCEPT ![e] = Recorded(EntryOf(q))]
        /\ receipts' = Append(receipts, ReceiptOf(q, e))
        /\ IF EntryIssued(u, q).status = "POSTED"
           THEN /\ balance' = BalanceAfter(Recorded(EntryOf(q)))
                /\ partyBalance' = [p \in PartyIds |-> partyBalance[p] +
                     IF p \in parties' THEN NetOfParty(Recorded(EntryOf(q)), p) ELSE 0]
                /\ history' = [history EXCEPT ![e] = 1]
           ELSE UNCHANGED <<balance, partyBalance, history>>
  BY Zenon DEF IssueReceipt
<1>2. RequestOk(EntryOf(q))
  BY DEF IssueReceipt
<1>3. EntryIssued(u, q).status = "POSTED" => DOMAIN partyBalance' = PartyIds
  BY <1>1
<1> QED
  BY <1>1, <1>2, <1>3, FreshAreAbsent DEF IssuedAt

LEMMA IssueType ==
  ASSUME TypeOK, NEW u \in Users, NEW q \in Collections, IssueReceipt(u, q)
  PROVE  TypeOK'
<1> DEFINE r == EntryOf(q)
           ls == Recorded(r)
<1>1. PICK e \in EntryIds : IssuedAt(u, q, e)
  BY IssuedSomewhere
<1>2. q.month \in Months /\ IsRequest(r) /\ RequestOk(r)
  BY <1>1, CollectionFacts, EntryIsRequest DEF IssuedAt
<1>3. DOMAIN ls \subseteq Accounts /\ ls \in [DOMAIN ls -> RecordedLine]
  BY <1>2, RecordedType
<1>4. parties' = parties \union PartiesOf(r, DOMAIN r.lines) /\ periods' = Registered(q.month)
      /\ alias' = alias /\ today' = today
  BY DEF IssueReceipt
<1>5. parties' \subseteq PartyIds
  BY <1>4, PartiesOfType DEF TypeOK
<1>6. periods' \in [Months -> PeriodStatuses \union {"NONE"}]
  BY <1>2, <1>4, RegisteredType
<1> HIDE DEF r, ls
<1>7. journal' \in [EntryIds -> Entry]
  BY <1>1, IssuedEntry DEF IssuedAt, TypeOK
<1>8. /\ DOMAIN lines' = EntryIds
      /\ \A d \in EntryIds : /\ DOMAIN lines'[d] \subseteq Accounts
                              /\ lines'[d] \in [DOMAIN lines'[d] -> RecordedLine]
  <2>1. lines' = [lines EXCEPT ![e] = ls]
    BY <1>1 DEF IssuedAt, ls, r
  <2> QED
    BY <1>3, <2>1 DEF TypeOK
<1>9. balance' \in [Accounts -> Int]
  <2>1. BalanceAfter(ls) \in [Accounts -> Int]
    BY <1>3, BalanceAfterType
  <2> QED
    BY <1>1, <2>1 DEF IssuedAt, ls, r, TypeOK
<1>10. DOMAIN partyBalance' = PartyIds /\ history' \in [EntryIds -> Nat]
  BY <1>1 DEF IssuedAt, TypeOK
<1> QED
  BY <1>4, <1>5, <1>6, <1>7, <1>8, <1>9, <1>10 DEF TypeOK, EntryIds

LEMMA IssueKeepsEntries ==
  ASSUME IInv, NEW u \in Users, NEW q \in Collections, IssueReceipt(u, q)
  PROVE  IInv'
<1>1. PICK e \in EntryIds : IssuedAt(u, q, e)
  BY IssuedSomewhere
<1>2. TypeOK /\ TypeOK'
  BY IssueType DEF IInv
<1>3. ASSUME NEW d \in EntryIds \ {e}
      PROVE  EntryInv(d)'
  <2>1. journal'[d] = journal[d] /\ history'[d] = history[d]
    BY <1>1, <1>2 DEF IssuedAt, TypeOK
  <2> QED
    BY <2>1, EntryUntouched DEF IInv
<1>4. EntryInv(e)'
  <2>1. history[e] = 0
    BY <1>1 DEF IInv, EntryInv, Linked, Unposted, IssuedAt
  <2>2. journal'[e] = EntryIssued(u, q)
    BY <1>1, <1>2 DEF IssuedAt, TypeOK
  <2>3. history'[e] = IF journal'[e].status = "POSTED" THEN 1 ELSE 0
    BY <1>1, <1>2, <2>1, <2>2 DEF IssuedAt, TypeOK
  <2>4. /\ journal'[e].status \in {"DRAFT", "POSTED"} /\ journal'[e].type = "RECEIPT"
        /\ journal'[e].reversedEntryId = NoEntry
    BY <2>2, IssuedEntry
  <2> QED
    BY <2>3, <2>4 DEF EntryInv, Linked, Posting, Approval, Reversed, Unposted
<1> QED
  BY <1>2, <1>3, <1>4 DEF IInv, EntryIds

LEMMA RefusalStep ==
  ASSUME IInv, NEW u \in Users, NEW q \in Collections, RefuseReceipt(u, q)
  PROVE  IInv' /\ UNCHANGED <<journal, lines, receipts>>
<1> DEFINE r == EntryOf(q)
<1>1. /\ \E S \in SUBSET (DOMAIN r.lines) : parties' = parties \union PartiesOf(r, S)
      /\ periods' = Registered(r.month)
      /\ UNCHANGED <<journal, lines, balance, alias, partyBalance, history, today, receipts>>
  BY DEF RefuseReceipt, Refused
<1>2. r.month \in Months
  BY EntryOfFacts, CollectionFacts
<1>3. TypeOK'
  <2>1. TypeOK
    BY DEF IInv
  <2>2. parties' \subseteq PartyIds
    BY <1>1, <2>1, PartiesOfType DEF TypeOK
  <2>3. periods' \in [Months -> PeriodStatuses \union {"NONE"}]
    BY <1>1, <1>2, <2>1, RegisteredType
  <2> QED
    BY <1>1, <2>1, <2>2, <2>3 DEF TypeOK, EntryIds
<1>4. \A d \in EntryIds : EntryInv(d)'
  BY <1>1, EntryUntouched DEF IInv
<1> QED
  BY <1>1, <1>3, <1>4 DEF IInv, EntryIds

-----------------------------------------------------------------------------
(* The receipts and the entries behind them: an absent entry is no receipt's *)

Receipt == [number: Nat, entry: EntryIds, amount: Nat, shares: Seq(Int)]

ReceiptInv ==
    /\ IInv
    /\ receipts \in Seq(Receipt)
    /\ ReceiptsSound
    /\ \A e \in EntryIds : journal[e].status = "ABSENT" => journal[e].type # "RECEIPT"

(* What a step that issues nothing does to an entry.                         *)
Stays(e) ==
    /\ journal'[e].type = "RECEIPT" <=> journal[e].type = "RECEIPT"
    /\ journal'[e].status = "ABSENT" => journal'[e].type # "RECEIPT"
    /\ journal[e].type = "RECEIPT" => SameAmounts(lines[e], lines'[e])

LEMMA ReceiptEntries ==
  ASSUME ReceiptInv, NEW i \in DOMAIN receipts
  PROVE  /\ receipts[i] \in Receipt
         /\ journal[receipts[i].entry].type = "RECEIPT"
         /\ journal[receipts[i].entry].status # "ABSENT"
<1>1. receipts[i] \in Receipt
  BY DEF ReceiptInv
<1>2. receipts[i].entry \in EntryIds
  BY <1>1 DEF Receipt
<1> QED
  BY <1>1, <1>2 DEF ReceiptInv, ReceiptsSound, ReceiptsBacked

LEMMA ReceiptsStay ==
  ASSUME ReceiptInv, IInv', receipts' = receipts, \A e \in EntryIds : Stays(e)
  PROVE  ReceiptInv'
<1>1. ASSUME NEW i \in DOMAIN receipts
      PROVE  Distributed(receipts[i]) /\ Booked(receipts[i], lines'[receipts[i].entry])
  <2>1. Distributed(receipts[i]) /\ Booked(receipts[i], lines[receipts[i].entry])
    BY ExactReceipts DEF ReceiptInv, ReceiptsSound
  <2>2. receipts[i].entry \in EntryIds
    BY ReceiptEntries DEF Receipt
  <2>3. SameAmounts(lines[receipts[i].entry], lines'[receipts[i].entry])
    BY <2>2, ReceiptEntries DEF Stays
  <2> QED
    BY <2>1, <2>3, BookedStays
<1>2. DistributionExact'
  <2>1. (\A i \in DOMAIN receipts : Distributed(receipts[i]) /\ Booked(receipts[i], lines[receipts[i].entry]))'
        => DistributionExact'
    BY DEF DistributionExact, Distributed, Booked, Rounded, Debits, Credited
  <2> QED
    BY <1>1, <2>1
<1>3. ReceiptsBacked'
  BY DEF ReceiptInv, ReceiptsSound, ReceiptsBacked, Stays, EntryIds
<1> QED
  BY <1>2, <1>3 DEF ReceiptInv, ReceiptsSound, Stays, EntryIds, Receipt

LEMMA JournalStays ==
  ASSUME ReceiptInv, Next, NEW d \in EntryIds
  PROVE  Stays(d)
<1>1. TypeOK
  BY DEF ReceiptInv, IInv
<1>2. CASE journal[d].status # "ABSENT"
  <2>1. Remains(d)
    BY <1>1, <1>2, LinksMove DEF LinksKept
  <2>2. SameAmounts(lines[d], lines'[d])
    BY <1>1, <1>2, LinesMove DEF LinesKept, Entered
  <2> QED
    BY <2>1, <2>2 DEF Stays, Remains
<1>3. CASE journal[d].status = "ABSENT"
  <2>1. journal[d].type # "RECEIPT"
    BY <1>3 DEF ReceiptInv
  <2>2. CASE LinksKept
    BY <1>3, <2>1, <2>2 DEF LinksKept, Stays
  <2>3. ASSUME NEW e \in EntryIds, NEW f \in EntryIds,
               journal[e].status # "ABSENT", NewMirror(e, f)
        PROVE  journal'[d].type # "RECEIPT"
    BY <1>3, <2>1, <2>3 DEF NewMirror
  <2> QED
    BY <1>1, <2>1, <2>2, <2>3, LinksMove DEF Stays
<1> QED
  BY <1>2, <1>3

LEMMA ReceiptsGrow ==
  ASSUME ReceiptInv, NEW u \in Users, NEW q \in Collections, IssueReceipt(u, q)
  PROVE  ReceiptInv'
<1> DEFINE n == Len(receipts)
<1>1. PICK e \in EntryIds : IssuedAt(u, q, e)
  BY IssuedSomewhere
<1> DEFINE new == ReceiptOf(q, e)
<1>2. TypeOK /\ IInv' /\ receipts \in Seq(Receipt) /\ n \in Nat
  BY IssueKeepsEntries DEF ReceiptInv, IInv
<1>3. new \in Receipt /\ new.entry = e /\ new.amount = q.amount /\ new.shares = Shares(q)
  <2>1. Shares(q) \in Seq(Int)
    <3>1. DOMAIN Shares(q) = 1..Count(q) /\ \A j \in 1..Count(q) : Shares(q)[j] \in Int
      BY SharesAddUp
    <3>2. CASE q.rule = << >>
      <4>1. Shares(q) = <<q.amount>> /\ q.amount \in Int
        BY <3>2, CollectionFacts DEF Shares
      <4> QED
        BY <4>1
    <3>3. CASE q.rule # << >>
      <4>1. \E g : Shares(q) = [j \in 1..Count(q) |-> g[j]]
        <5>1. Len(q.rule) = Count(q)
          BY <3>3 DEF Count
        <5>2. Shares(q) = [j \in 1..Count(q) |-> Shares(q)[j]]
          BY <3>3, <5>1 DEF Shares
        <5> QED
          BY <5>2
      <4>2. Shares(q) \in [1..Count(q) -> Int]
        BY <3>1, <4>1
      <4>3. Count(q) \in Nat
        BY CollectionFacts
      <4> HIDE DEF Shares
      <4> QED
        BY <4>2, <4>3
    <3> QED
      BY <3>2, <3>3
  <2> QED
    BY <1>2, <2>1, CollectionFacts DEF ReceiptOf, Receipt
<1>4. /\ receipts' \in Seq(Receipt) /\ DOMAIN receipts' = 1..(n + 1) /\ DOMAIN receipts = 1..n
      /\ receipts'[n + 1] = new /\ \A i \in 1..n : receipts'[i] = receipts[i]
  <2>1. receipts' = Append(receipts, new)
    BY <1>1 DEF IssuedAt
  <2> HIDE DEF new
  <2> QED
    BY <1>2, <1>3, <2>1, AppendProperties
<1>5. /\ journal[e].type # "RECEIPT" /\ journal'[e].type = "RECEIPT"
      /\ journal'[e].status # "ABSENT"
      /\ lines'[e] = Recorded(EntryOf(q))
      /\ \A d \in EntryIds \ {e} : journal'[d] = journal[d] /\ lines'[d] = lines[d]
  <2>1. journal[e].status = "ABSENT" /\ journal'[e] = EntryIssued(u, q)
    BY <1>1, <1>2 DEF IssuedAt, TypeOK
  <2>2. /\ lines'[e] = Recorded(EntryOf(q))
        /\ \A d \in EntryIds \ {e} : journal'[d] = journal[d] /\ lines'[d] = lines[d]
    BY <1>1, <1>2 DEF IssuedAt, TypeOK
  <2> QED
    BY <2>1, <2>2, IssuedEntry DEF ReceiptInv
<1>6. \A i \in 1..n : receipts[i].entry \in EntryIds \ {e}
  BY <1>4, <1>5, ReceiptEntries DEF Receipt
<1>7. Distributed(new) /\ Booked(new, lines'[e])
  <2>1. RequestOk(EntryOf(q))
    BY <1>1 DEF IssuedAt
  <2> HIDE DEF new
  <2> QED
    BY <1>3, <1>5, <2>1, IssuedIsBooked
<1> HIDE DEF new, n
<1>8. ASSUME NEW i \in DOMAIN receipts'
      PROVE  Distributed(receipts'[i]) /\ Booked(receipts'[i], lines'[receipts'[i].entry])
  <2>1. CASE i = n + 1
    BY <1>3, <1>4, <1>7, <2>1
  <2>2. CASE i \in 1..n
    <3>1. Distributed(receipts[i]) /\ Booked(receipts[i], lines[receipts[i].entry])
      BY <1>4, <2>2, ExactReceipts DEF ReceiptInv, ReceiptsSound
    <3> QED
      BY <1>4, <1>5, <1>6, <2>2, <3>1
  <2> QED
    BY <1>2, <1>4, <2>1, <2>2
<1>9. DistributionExact'
  <2>1. (\A i \in DOMAIN receipts : Distributed(receipts[i]) /\ Booked(receipts[i], lines[receipts[i].entry]))'
        => DistributionExact'
    BY DEF DistributionExact, Distributed, Booked, Rounded, Debits, Credited
  <2> QED
    BY <1>8, <2>1
<1>10. ReceiptsBacked'
  <2>1. \A i, j \in 1..n : receipts[i].entry = receipts[j].entry => i = j
    BY <1>4 DEF ReceiptInv, ReceiptsSound, ReceiptsBacked
  <2>2. {receipts[i].entry : i \in 1..n} = {d \in EntryIds : journal[d].type = "RECEIPT"}
    BY <1>4 DEF ReceiptInv, ReceiptsSound, ReceiptsBacked
  <2>3. \A i \in 1..(n + 1) : receipts'[i].entry = IF i = n + 1 THEN e ELSE receipts[i].entry
    BY <1>2, <1>3, <1>4
  <2>4. \A i, j \in 1..(n + 1) : receipts'[i].entry = receipts'[j].entry => i = j
    BY <1>2, <1>6, <2>1, <2>3
  <2>5. {receipts'[i].entry : i \in 1..(n + 1)} = {receipts[i].entry : i \in 1..n} \union {e}
    BY <1>2, <2>3
  <2>6. {d \in EntryIds : journal'[d].type = "RECEIPT"}
          = {d \in EntryIds : journal[d].type = "RECEIPT"} \union {e}
    BY <1>5
  <2> QED
    BY <1>4, <2>2, <2>4, <2>5, <2>6 DEF ReceiptsBacked, EntryIds
<1>11. \A d \in EntryIds : journal'[d].status = "ABSENT" => journal'[d].type # "RECEIPT"
  BY <1>5 DEF ReceiptInv
<1> QED
  BY <1>2, <1>4, <1>9, <1>10, <1>11 DEF ReceiptInv, ReceiptsSound, EntryIds, Receipt

LEMMA ReceiptsInit == ReceiptInit => ReceiptInv
<1> SUFFICES ASSUME ReceiptInit PROVE ReceiptInv
  OBVIOUS
<1>1. IInv
  BY InitEntries DEF ReceiptInit
<1>2. receipts = << >> /\ \A e \in EntryIds : journal[e].type = "MANUAL"
  BY DEF ReceiptInit, Init, Blank
<1>3. DOMAIN receipts = {} /\ receipts \in Seq(Receipt)
  BY <1>2
<1>4. DistributionExact /\ ReceiptsBacked
  BY <1>2, <1>3 DEF DistributionExact, ReceiptsBacked
<1> QED
  BY <1>1, <1>2, <1>3, <1>4 DEF ReceiptInv, ReceiptsSound

LEMMA ReceiptsStep == ReceiptInv /\ [ReceiptNext]_receiptVars => ReceiptInv'
<1> SUFFICES ASSUME ReceiptInv, [ReceiptNext]_receiptVars PROVE ReceiptInv'
  OBVIOUS
<1>1. IInv
  BY DEF ReceiptInv
<1>2. ASSUME IInv', UNCHANGED <<journal, lines, receipts>>
      PROVE  ReceiptInv'
  BY <1>2, ReceiptsStay DEF Stays, SameAmounts, ReceiptInv
<1>3. CASE UNCHANGED receiptVars
  <2>1. UNCHANGED vars
    BY <1>3 DEF receiptVars
  <2>2. IInv'
    BY <1>1, <2>1, EntriesStep
  <2> QED
    BY <1>2, <1>3, <2>2 DEF receiptVars, vars
<1>4. CASE Next /\ UNCHANGED receipts
  <2>1. IInv'
    BY <1>1, <1>4, EntriesStep
  <2> QED
    BY <1>4, <2>1, JournalStays, ReceiptsStay
<1>5. ASSUME NEW u \in Users, NEW q \in Collections, IssueReceipt(u, q)
      PROVE  ReceiptInv'
  BY <1>5, ReceiptsGrow
<1>6. ASSUME NEW u \in Users, NEW q \in Collections, RefuseReceipt(u, q)
      PROVE  ReceiptInv'
  BY <1>1, <1>2, <1>6, RefusalStep
<1> QED
  BY <1>3, <1>4, <1>5, <1>6 DEF ReceiptNext, Issue

LEMMA ReceiptsInv == ReceiptSpec => []ReceiptInv
<1> QED
  BY ReceiptsInit, ReceiptsStep, PTL DEF ReceiptSpec

(* What a member was charged is what the books show (issueReceipt): for      *)
(* every receipt of every reachable state, and no other collection.          *)
THEOREM ReceiptsAreSound == ReceiptSpec => []ReceiptsSound
<1>1. ReceiptInv => ReceiptsSound
  BY DEF ReceiptInv
<1> QED
  BY <1>1, ReceiptsInv, PTL

(* The entries a receipt makes and posts by itself keep the journal's own    *)
(* promises (issueReceipt calls createJournalEntry and postJournalEntry).    *)
THEOREM ReceiptsKeepJournal == ReceiptSpec => [](TypeOK /\ HistoryMatchesStatus /\ FourEyes)
<1>1. ReceiptInv => TypeOK /\ HistoryMatchesStatus /\ FourEyes
  BY DEF ReceiptInv, IInv, EntryInv, Posting, HistoryMatchesStatus, Approval, FourEyes
<1> QED
  BY <1>1, ReceiptsInv, PTL
=============================================================================
