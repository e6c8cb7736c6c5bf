------------------------------- MODULE Journal -------------------------------
(***************************************************************************)
(* The general journal of the ERP (AccountingService and the routes that   *)
(* call it): double-entry entries move from draft to posted, posting moves *)
(* the balances of the accounts and of the subledger parties, a posted     *)
(* entry is undone by a mirrored reversal, and fiscal periods gate it all. *)
(* Every handler is synchronous, so it is one atomic step here.            *)
(*                                                                         *)
(* An amount of a request is in mills (thousandths of a pound), what the   *)
(* client may send; a recorded amount is in piasters, as the code rounds.  *)
(* Entry texts, cost centres and government codes are left out.            *)
(***************************************************************************)
EXTENDS Integers, FiniteSets, FiniteSetsExt

CONSTANTS
    Users,
    Recorders,    \* users with the permission journal:create
    Managers,     \* users with every permission ('*'): workflow, periods, parties
    Approvers,    \* users whose role may approve entries
    Exempt,       \* users exempt from the separation of duties
    Accounts,     \* account ids a request may name
    Leaves,       \* the ids of existing accounts that are not headings
    DebitNature,  \* accounts that grow on the debit side
    Controlled,   \* accounts that require a subledger party (1301)
    Names,        \* normalised names of subledger parties
    Requests,     \* the entries clients submit: [month, lines]
    LastMonth,    \* bound: the calendar ends with this month
    MaxEntries,   \* bound: entries ever created
    NoParty, Unknown, Nobody

Months    == 1..LastMonth
EntryIds  == 1..MaxEntries
NoEntry   == 0
PartyIds  == Controlled \X Names   \* at most one party per account and name
PartyRefs == PartyIds \union {NoParty, Unknown}   \* Unknown: an id that names no party

(* A line of a request refers to its party by id, by name, or not at all. *)
RequestLine  == [ref: PartyIds \union {NoParty} \union Names, debit: Int, credit: Int]
RecordedLine == [party: PartyRefs, debit: Nat, credit: Nat]

ASSUME UsersAssumption ==
    /\ Recorders \subseteq Users /\ Managers \subseteq Users
    /\ Approvers \subseteq Users /\ Exempt \subseteq Users
    /\ Nobody \notin Users

ASSUME AccountsAssumption ==
    /\ IsFiniteSet(Accounts) /\ IsFiniteSet(Names)
    /\ Leaves \subseteq Accounts /\ Controlled \subseteq Accounts
    /\ NoParty # Unknown /\ {NoParty, Unknown} \intersect (PartyIds \union Names) = {}
    /\ Names \intersect PartyIds = {}

(* A request has one line per account and gives a name on one line only. *)
ASSUME RequestsAssumption ==
    \A r \in Requests :
        /\ r.month \in Months
        /\ DOMAIN r.lines \subseteq Accounts
        /\ r.lines \in [DOMAIN r.lines -> RequestLine]
        /\ \A a, b \in DOMAIN r.lines :
             r.lines[a].ref \in Names /\ r.lines[a].ref = r.lines[b].ref => a = b

ASSUME BoundsAssumption == LastMonth \in Nat \ {0} /\ MaxEntries \in Nat

-----------------------------------------------------------------------------
(* Amounts and lines *)

ToPiasters(mills) == (mills + 5) \div 10          \* Math.round(x * 100) / 100
Total(f)          == MapThenSumSet(LAMBDA a : f[a], DOMAIN f)
Net(ls)           == Total([a \in DOMAIN ls |-> ls[a].debit - ls[a].credit])

(* Slip: the reversal copies the lines instead of mirroring them. *)
SwapNothing(ls) == ls

Swap(ls) ==
    [a \in DOMAIN ls |-> [party  |-> ls[a].party,
                          debit  |-> ls[a].credit,
                          credit |-> ls[a].debit]]

OneSided(l)     == l.debit >= 0 /\ l.credit >= 0 /\ (l.debit > 0 <=> ~(l.credit > 0))
LineOk(a, l, p) == OneSided(l) /\ a \in Leaves /\ (a \in Controlled => p # NoParty)

(* The rounded difference of the totals of a request must be zero. *)
RequestOk(r) ==
    /\ Cardinality(DOMAIN r.lines) >= 2
    /\ \A a \in DOMAIN r.lines : LineOk(a, r.lines[a], r.lines[a].ref)
    /\ ToPiasters(Net(r.lines)) = 0

(* Slip: the totals of the reversal are not compared. *)
ReversalUnbalanced(ls) ==
    /\ Cardinality(DOMAIN ls) >= 2
    /\ \A a \in DOMAIN ls : LineOk(a, ls[a], ls[a].party)

(* The lines of a recorded entry are already rounded: a zero line, or a    *)
(* difference of a piaster, that rounding left makes the reversal fail.    *)
ReversalOk(ls) ==
    /\ Cardinality(DOMAIN ls) >= 2
    /\ \A a \in DOMAIN ls : LineOk(a, ls[a], ls[a].party)
    /\ Net(ls) = 0

-----------------------------------------------------------------------------
VARIABLES
    journal,       \* the entries, by id
    lines,         \* the lines of each entry, by account
    periods,       \* status of each fiscal period
    balance,       \* account.currentBalance, in piasters
    parties,       \* the subledger parties that exist
    alias,         \* the party a merged party's name now stands for
    partyBalance,  \* totalDebit - totalCredit of a party
    history,       \* accounting history: times the lines of an entry were applied
    today          \* the current month

vars == <<journal, lines, periods, balance, parties, alias, partyBalance, history, today>>

Statuses == {"ABSENT", "DRAFT", "SUBMITTED", "APPROVED", "POSTED", "REVERSED", "DELETED"}
PeriodStatuses == {"OPEN", "CLOSED", "SPECIAL_REOPEN"}
EntryTypes     == {"MANUAL", "RECEIPT", "REVERSAL"}

Entry ==
    [status: Statuses, month: Months, type: EntryTypes, number: Nat,
     createdBy: Users \union {Nobody}, approvedBy: Users \union {Nobody},
     postedBy: Users \union {Nobody}, reversedEntryId: EntryIds \union {NoEntry}]

Blank ==
    [status |-> "ABSENT", month |-> 1, type |-> "MANUAL", number |-> 0,
     createdBy |-> Nobody, approvedBy |-> Nobody, postedBy |-> Nobody,
     reversedEntryId |-> NoEntry]

NoLines == [a \in {} |-> 0]

TypeOK ==
    /\ journal \in [EntryIds -> Entry]
    /\ DOMAIN lines = EntryIds
    /\ \A e \in EntryIds : /\ DOMAIN lines[e] \subseteq Accounts
                          /\ lines[e] \in [DOMAIN lines[e] -> RecordedLine]
    /\ periods \in [Months -> PeriodStatuses \union {"NONE"}]
    /\ balance \in [Accounts -> Int]
    /\ parties \subseteq PartyIds
    /\ alias \in [Names -> PartyRefs]
    /\ DOMAIN partyBalance = PartyIds
    /\ history \in [EntryIds -> Nat]
    /\ today \in Months

Init ==
    /\ journal = [e \in EntryIds |-> Blank]
    /\ lines = [e \in EntryIds |-> NoLines]
    /\ periods = [m \in Months |-> IF m = 1 THEN "OPEN" ELSE "NONE"]
    /\ balance = [a \in Accounts |-> 0]
    /\ parties = {}
    /\ alias = [n \in Names |-> NoParty]
    /\ partyBalance = [p \in PartyIds |-> 0]
    /\ history = [e \in EntryIds |-> 0]
    /\ today = 1

-----------------------------------------------------------------------------
(* Helpers over the current state *)

Live  == {e \in EntryIds : journal[e].status \notin {"ABSENT", "DELETED"}}
Fresh == {e \in EntryIds : /\ journal[e].status = "ABSENT"
                           /\ \A d \in EntryIds : d < e => journal[d].status # "ABSENT"}

(* findOrCreateSubledgerParty: the party of this account with this name,   *)
(* else the party an alias leads to, else a new one.                       *)
PartyNamed(a, n) ==
    IF <<a, n>> \in parties \/ alias[n] \notin parties THEN <<a, n>> ELSE alias[n]

PartyFor(a, ref) ==
    CASE ref \in Names /\ a \in Controlled -> PartyNamed(a, ref)
      [] ref \in PartyIds                  -> IF ref \in parties THEN ref ELSE Unknown
      [] OTHER                             -> NoParty

PartiesOf(r, S) ==
    {PartyFor(a, r.lines[a].ref) : a \in {b \in S \intersect Controlled : r.lines[b].ref \in Names}}

Recorded(r) ==
    [a \in DOMAIN r.lines |-> [party  |-> PartyFor(a, r.lines[a].ref),
                               debit  |-> ToPiasters(r.lines[a].debit),
                               credit |-> ToPiasters(r.lines[a].credit)]]

Registered(m) == [periods EXCEPT ![m] = IF @ = "NONE" THEN "OPEN" ELSE @]

NewEntry(u, m, type) ==
    [Blank EXCEPT !.status = "DRAFT", !.month = m, !.type = type,
                  !.number = Cardinality(Live) + 1, !.createdBy = u]

Sense(a) == IF a \in DebitNature THEN 1 ELSE -1

(* Slip: the nature of the account is ignored. *)
BalanceUnsigned(ls) ==
    [a \in Accounts |->
        IF a \in DOMAIN ls THEN balance[a] + ls[a].debit - ls[a].credit ELSE balance[a]]

BalanceAfter(ls) ==
    [a \in Accounts |->
        IF a \in DOMAIN ls
        THEN balance[a] + Sense(a) * (ls[a].debit - ls[a].credit)
        ELSE balance[a]]

NetOfParty(ls, p) ==
    Net([a \in {b \in DOMAIN ls : ls[b].party = p} |-> ls[a]])

(* Slip: the credits of a party are forgotten. *)
PartyDebitsOnly(ls) ==
    [p \in PartyIds |-> partyBalance[p] +
        IF p \in parties
        THEN Total([a \in {b \in DOMAIN ls : ls[b].party = p} |-> ls[a].debit])
        ELSE 0]

(* An id that names no party moves no subledger balance. *)
PartyBalanceAfter(ls) ==
    [p \in PartyIds |-> partyBalance[p] + IF p \in parties THEN NetOfParty(ls, p) ELSE 0]

(* The loop of postJournalEntry over the lines of entry e. *)
ApplyLines(e, ls) ==
    /\ balance' = BalanceAfter(ls)
    /\ partyBalance' = PartyBalanceAfter(ls)
    /\ history' = [history EXCEPT ![e] = @ + 1]

-----------------------------------------------------------------------------
(* Creation *)

CreateJournalEntry(u, r) ==
    /\ u \in Recorders
    /\ periods[r.month] # "CLOSED"
    /\ RequestOk(r)
    /\ \E e \in Fresh : /\ journal' = [journal EXCEPT ![e] = NewEntry(u, r.month, "MANUAL")]
                       /\ lines' = [lines EXCEPT ![e] = Recorded(r)]
    /\ periods' = Registered(r.month)
    /\ parties' = parties \union PartiesOf(r, DOMAIN r.lines)
    /\ UNCHANGED <<balance, alias, partyBalance, history, today>>

(* A refused request leaves a trace: its period is registered before the   *)
(* lines are checked, and so are the parties of the lines that precede the *)
(* first bad one. The lines come in any order. A request without a bad     *)
(* line is refused for its totals, or by the financial regulation, whose   *)
(* rules in force (not modelled) may refuse any entry.                     *)
Refused(r) ==
    LET good == {a \in DOMAIN r.lines : LineOk(a, r.lines[a], r.lines[a].ref)}
    IN  /\ periods[r.month] # "CLOSED"
        /\ \E S \in SUBSET good :
             /\ Cardinality(DOMAIN r.lines) < 2 => S = {}
             /\ Cardinality(DOMAIN r.lines) >= 2 /\ good = DOMAIN r.lines => S = good
             /\ parties' = parties \union PartiesOf(r, S)
        /\ periods' = Registered(r.month)
        /\ UNCHANGED <<journal, lines, balance, alias, partyBalance, history, today>>

RefuseJournalEntry(u, r) == u \in Recorders /\ Refused(r)

-----------------------------------------------------------------------------
(* Workflow *)

(* Slip: a status no other handler knows. *)
SubmitAsPending(u, e) ==
    /\ u \in Managers
    /\ journal[e].status = "DRAFT"
    /\ journal' = [journal EXCEPT ![e].status = "PENDING"]
    /\ UNCHANGED <<lines, periods, balance, parties, alias, partyBalance, history, today>>

SubmitJournalEntry(u, e) ==
    /\ u \in Managers
    /\ journal[e].status = "DRAFT"
    /\ journal' = [journal EXCEPT ![e].status = "SUBMITTED"]
    /\ UNCHANGED <<lines, periods, balance, parties, alias, partyBalance, history, today>>

Approved(entry, u)   == [entry EXCEPT !.status = "APPROVED", !.approvedBy = u]
Posted(entry, u)     == [entry EXCEPT !.status = "POSTED", !.postedBy = u]
ReversedBy(entry, f) == [entry EXCEPT !.status = "REVERSED", !.reversedEntryId = f]

(* Slip: the maker is not compared with the approver. *)
MayApproveOwn(u, entry) == entry.status \in {"SUBMITTED", "DRAFT"} /\ u \in Approvers

(* Separation of duties: the maker may not approve, unless exempt. *)
MayApprove(u, entry) ==
    /\ entry.status \in {"SUBMITTED", "DRAFT"}
    /\ entry.createdBy # u \/ u \in Exempt
    /\ u \in Approvers

ApproveJournalEntry(u, e) ==
    /\ u \in Managers
    /\ MayApprove(u, journal[e])
    /\ journal' = [journal EXCEPT ![e] = Approved(@, u)]
    /\ UNCHANGED <<lines, periods, balance, parties, alias, partyBalance, history, today>>

(* Slips: a posted entry is not refused; the period is not looked at. *)
MayPostAgain(u, entry) ==
    /\ entry.status = "APPROVED" \/ u \in Exempt
    /\ periods[entry.month] # "CLOSED"

MayPostAnytime(u, entry) ==
    /\ entry.status # "POSTED"
    /\ entry.status = "APPROVED" \/ u \in Exempt

MayPost(u, entry) ==
    /\ entry.status # "POSTED"
    /\ entry.status = "APPROVED" \/ u \in Exempt
    /\ periods[entry.month] # "CLOSED"

PostJournalEntry(u, e) ==
    /\ u \in Managers
    /\ e \in Live
    /\ MayPost(u, journal[e])
    /\ journal' = [journal EXCEPT ![e] = Posted(@, u)]
    /\ ApplyLines(e, lines[e])
    /\ UNCHANGED <<lines, periods, parties, alias, today>>

MayReverse(entry) == entry.status = "POSTED" /\ entry.reversedEntryId = NoEntry

(* The reversal is created, approved and posted in the same call, dated    *)
(* today; it skips the approval check and its maker posts it.              *)
ReverseJournalEntry(u, e) ==
    LET mirrored == Swap(lines[e])
        reversal == Posted(NewEntry(u, today, "REVERSAL"), u)
    IN  /\ u \in Managers
        /\ MayReverse(journal[e])
        /\ periods[today] # "CLOSED"
        /\ ReversalOk(mirrored)
        /\ \E f \in Fresh :
             /\ journal' = [journal EXCEPT ![e] = ReversedBy(@, f), ![f] = reversal]
             /\ lines' = [lines EXCEPT ![f] = mirrored]
             /\ ApplyLines(f, mirrored)
        /\ periods' = Registered(today)
        /\ UNCHANGED <<parties, alias, today>>

(* The reversal entry is refused for its lines, or by the regulation. *)
RefuseReversal(u, e) ==
    /\ u \in Managers
    /\ MayReverse(journal[e])
    /\ periods[today] # "CLOSED"
    /\ periods' = Registered(today)
    /\ UNCHANGED <<journal, lines, balance, parties, alias, partyBalance, history, today>>

DeleteJournalEntry(u, e) ==
    /\ u \in Managers
    /\ e \in Live
    /\ journal[e].status # "POSTED"
    /\ journal' = [journal EXCEPT ![e].status = "DELETED"]
    /\ UNCHANGED <<lines, periods, balance, parties, alias, partyBalance, history, today>>

-----------------------------------------------------------------------------
(* Fiscal periods and parties *)

SetPeriodStatus(u, m, status) ==
    /\ u \in Managers
    /\ periods[m] # "NONE"
    /\ periods' = [periods EXCEPT ![m] = status]
    /\ UNCHANGED <<journal, lines, balance, parties, alias, partyBalance, history, today>>

(* The payroll import opens the months it brings, closed ones included. *)
EnsureOpenPeriod(u, m) ==
    /\ u \in Managers
    /\ periods[m] \in {"NONE", "CLOSED"}
    /\ periods' = [periods EXCEPT ![m] = "OPEN"]
    /\ UNCHANGED <<journal, lines, balance, parties, alias, partyBalance, history, today>>

CreateParty(u, a, n) ==
    /\ u \in Managers
    /\ PartyNamed(a, n) \notin parties
    /\ parties' = parties \union {PartyNamed(a, n)}
    /\ UNCHANGED <<journal, lines, periods, balance, alias, partyBalance, history, today>>

(* Merging moves every line and the totals of a party to another one and   *)
(* removes it; nothing in the handler keeps the two from being the same.   *)
(* An id that led to the removed party leads nowhere from then on, and the *)
(* first alias of a name is the one that counts.                           *)
Remaining(p, q) == IF p = q THEN Unknown ELSE q

MergeParties(u, p, q) ==
    /\ u \in Managers
    /\ p \in parties /\ q \in parties
    /\ lines' = [e \in EntryIds |->
          IF e \in Live
          THEN [a \in DOMAIN lines[e] |->
                  [lines[e][a] EXCEPT !.party = IF @ = p THEN Remaining(p, q) ELSE @]]
          ELSE lines[e]]
    /\ partyBalance' = [x \in PartyIds |->
          CASE x = p -> 0
            [] x = q /\ q # p -> partyBalance[q] + partyBalance[p]
            [] OTHER -> partyBalance[x]]
    /\ alias' = [n \in Names |->
          CASE alias[n] = p                     -> Unknown
            [] alias[n] = NoParty /\ n = p[2] -> Remaining(p, q)
            [] OTHER                            -> alias[n]]
    /\ parties' = parties \ {p}
    /\ UNCHANGED <<journal, periods, balance, history, today>>

NextMonth ==
    /\ today < LastMonth
    /\ today' = today + 1
    /\ UNCHANGED <<journal, lines, periods, balance, parties, alias, partyBalance, history>>

-----------------------------------------------------------------------------
Create(u)   == \E r \in Requests : CreateJournalEntry(u, r) \/ RefuseJournalEntry(u, r)

Workflow(u) == \E e \in EntryIds :
    \/ SubmitJournalEntry(u, e)  \/ ApproveJournalEntry(u, e) \/ PostJournalEntry(u, e)
    \/ ReverseJournalEntry(u, e) \/ RefuseReversal(u, e)      \/ DeleteJournalEntry(u, e)

Period(u)   == \E m \in Months :
    \/ \E status \in PeriodStatuses : SetPeriodStatus(u, m, status)
    \/ EnsureOpenPeriod(u, m)

Party(u) ==
    \/ \E a \in Controlled, n \in Names : CreateParty(u, a, n)
    \/ \E p, q \in PartyIds : MergeParties(u, p, q)

Next == NextMonth \/ \E u \in Users : Create(u) \/ Workflow(u) \/ Period(u) \/ Party(u)

Spec == Init /\ [][Next]_vars

-----------------------------------------------------------------------------
(* Properties *)

Reversed(e) == journal[e].reversedEntryId # NoEntry

(* Exactly-once posting: the lines of an entry were applied to the balances *)
(* once if it is posted or reversed, and never if it is neither. The one    *)
(* exception postJournalEntry leaves: a user exempt from the separation of  *)
(* duties may post a reversed entry again, a single time.                   *)
HistoryMatchesStatus ==
    \A e \in EntryIds :
        /\ history[e] =
              CASE journal[e].status = "POSTED"   -> IF Reversed(e) THEN 2 ELSE 1
                [] journal[e].status = "REVERSED" -> 1
                [] journal[e].status = "DELETED"  -> IF Reversed(e) THEN 1 ELSE 0
                [] OTHER                          -> 0
        /\ history[e] = 2 => journal[e].postedBy \in Exempt

(* Four eyes: an entry a client made reaches the ledger only if an approver *)
(* other than its maker approved it, unless the approver or the one who     *)
(* posted it is exempt (approveJournalEntry, postJournalEntry).             *)
ApprovalOk(entry) ==
    entry.approvedBy \in Approvers /\ (entry.approvedBy # entry.createdBy \/ entry.approvedBy \in Exempt)

FourEyes ==
    \A e \in EntryIds :
        journal[e].type = "MANUAL" /\ history[e] > 0 =>
            ApprovalOk(journal[e]) \/ journal[e].postedBy \in Exempt

(* A reversal belongs to one entry only, has reached the ledger, and        *)
(* mirrors that entry: the same amounts on the other side, for the same     *)
(* parties as long as both entries are in the journal, whatever merges of   *)
(* parties came between (reverseJournalEntry, the merge route).             *)
Mirrors(f, e) ==
    /\ journal[f].type = "REVERSAL" /\ f # e /\ history[f] > 0
    /\ DOMAIN lines[f] = DOMAIN lines[e]
    /\ \A a \in DOMAIN lines[e] :
         LET l == lines[e][a]
             m == lines[f][a]
         IN  /\ m.debit = l.credit /\ m.credit = l.debit
             /\ {e, f} \subseteq Live => m.party = l.party

ReversalsMirror ==
    /\ \A e \in EntryIds : Reversed(e) => Mirrors(journal[e].reversedEntryId, e)
    /\ \A e, f \in EntryIds :
         Reversed(e) /\ journal[e].reversedEntryId = journal[f].reversedEntryId => e = f

(* The balance of every account is what the accounting history explains:    *)
(* deleting, refusing or merging never moves it, and a posting moves it by  *)
(* the entry's lines with the sign of the account's nature.                 *)
LineNet(e, a) ==
    IF a \in DOMAIN lines[e]
    THEN lines[e][a].debit - lines[e][a].credit
    ELSE 0

BalancesMatchHistory ==
    \A a \in Accounts :
        balance[a] = Sense(a) * Total([e \in EntryIds |-> history[e] * LineNet(e, a)])

(* While a fiscal period is and stays closed, no entry enters it and no     *)
(* entry of it reaches the balances, whoever acts, reversals included.      *)
ClosedPeriodsFrozen ==
    [][\A m \in Months : periods[m] = "CLOSED" /\ periods'[m] = "CLOSED" =>
         \A e \in EntryIds : journal'[e].month = m =>
            /\ journal[e].status = "ABSENT" => journal'[e].status = "ABSENT"
            /\ history'[e] = history[e]]_vars

(* The parties' balances reconcile with the accounts they detail. Two steps *)
(* alone may part them: merging a party into itself, and posting an entry   *)
(* with a line whose party is not the subledger of that account, such as an *)
(* id that names no party (which createJournalEntry does not refuse).       *)
Drift ==
    Total(partyBalance) - Total([a \in Controlled |-> Sense(a) * balance[a]])

Attributed(ls) ==
    \A a \in DOMAIN ls : a \in Controlled <=> ls[a].party \in parties

SubledgerReconciles ==
    [][\/ Drift' = Drift
       \/ \E u \in Users, p \in PartyIds : MergeParties(u, p, p)
       \/ \E e \in EntryIds : history'[e] > history[e] /\ ~Attributed(lines'[e])]_vars

(* Rounding each line after the unrounded totals were compared may leave a  *)
(* recorded entry unbalanced, by less than half a piaster for each line and *)
(* for the totals; such an entry can be posted but never reversed           *)
(* (createJournalEntry rounds the lines of the reversal's source only).     *)
RoundingBounded ==
    \A e \in EntryIds :
        /\ 10 * Net(lines[e]) \in -(5 * Cardinality(DOMAIN lines[e]) + 5)
                                 .. (5 * Cardinality(DOMAIN lines[e]) + 5)
        /\ Reversed(e) => Net(lines[e]) = 0

(* The balances are explained by the postings, and an entry that is posted   *)
(* moves them by amounts that balance but for the rounding.                 *)
BooksAreExplained == BalancesMatchHistory /\ RoundingBounded

(* The general ledger report sums the lines of the entries with the status  *)
(* POSTED; an account that only journal entries move has the closing        *)
(* balance of the report as its current balance.                            *)
ReportedBalance(a) ==
    Sense(a) * Total([e \in {d \in EntryIds : journal[d].status = "POSTED"} |-> LineNet(e, a)])

ReportMatchesBalances ==
    \A a \in Accounts : ReportedBalance(a) = balance[a]
=============================================================================
