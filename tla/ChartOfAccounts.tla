---------------------------- MODULE ChartOfAccounts ----------------------------
(***************************************************************************)
(* The chart of accounts and the reports over it: accounts are added by a  *)
(* form, by the assistant and by imports, the whole chart is replaced from *)
(* a file, entries find their accounts through an index of the chart, and  *)
(* the reports read the accounts that are not headings. The table of       *)
(* accounts follows only some of these changes, and a start merges it with *)
(* the file on the disk.                                                   *)
(*                                                                         *)
(* An entry has two lines; its workflow is that of Journal, and it is in   *)
(* the tables at once (JournalStore shows what may come between). Natures, *)
(* names and stored balances of accounts are left out: the reports are     *)
(* built from the lines. A stored entry keeps its latest status.           *)
(***************************************************************************)
EXTENDS Integers, Sequences, FiniteSets, FiniteSetsExt, Functions

CONSTANTS
    Codes,        \* codes of accounts
    CashCodes,    \* those that start with 110
    AccountTypes, \* types of accounts a request may give
    Files,        \* unified charts that may be imported: rows [code, group, type]
    FirstFile,    \* the one on the disk at the first start
    Moments,      \* the milliseconds in which single accounts are added, in order
    MaxWork,      \* bound: entries made, accounts added, and imported ones in the chart
    Parents,      \* ids that may be named as a parent
    LedgerRequests \* entries clients submit: [debit, credit, amount], by id or code

(* An id tells how the account came into the chart. *)
GroupId(g)    == <<"accgrp", g>>
UnifiedId(c)  == <<"accu", c>>
ImportedId(c) == <<"acc", c>>
AddedId(m)    == <<"acc-ms", m>>
NoAccount     == <<"none", "none">>
ByCode(c)     == <<"code", c>>     \* a reference to an account by its code

(* Of two accounts added in one millisecond both would get one id: the     *)
(* moments differ.                                                         *)
ASSUME ChartAssumption ==
    /\ MaxWork \in Nat
    /\ Moments \in Seq(STRING)
    /\ \A i, j \in DOMAIN Moments : Moments[i] = Moments[j] => i = j
    /\ \A file \in Files \union {FirstFile} : IsFiniteSet(file)
    /\ \A r \in LedgerRequests : r.amount \in Nat

Imported(a) == a[1] = "acc"
IsGroup(a)  == a[1] = "accgrp"

Sheets == {"ASSET", "LIABILITY", "EQUITY"}

VARIABLES
    chart,     \* the accounts, by id
    index,     \* the accounts the index knows: the chart when it was built
    shared,    \* the index holds the very objects of the chart
    stored,    \* the table of accounts
    disk,      \* the file every start loads; a deployment may change it
    added,     \* how many accounts were added singly
    replaced,  \* a chart has been imported since the start
    entries,   \* the entries ever made, as the tables hold them
    inMemory,  \* those in memory
    recalled   \* those in memory that the last start loaded

chartVars == <<chart, index, shared, stored, disk, added, replaced, entries, inMemory, recalled>>

Empty == [a \in {} |-> NoAccount]

(* f, and what g adds to it. *)
Over(f, g)    == [a \in DOMAIN f \union DOMAIN g |-> IF a \in DOMAIN f THEN f[a] ELSE g[a]]
With(f, a, x) == Over(f, [b \in {a} |-> x])

AccountOf(code, parent, level, type, heading) ==
    [code |-> code, parent |-> parent, level |-> level, type |-> type, isParent |-> heading]

(* applyUnifiedChartOfAccounts: a heading per group, typed like one of its *)
(* accounts, and an account per row.                                       *)
UnifiedChart(file) ==
    Over([a \in {GroupId(r.group) : r \in file} |->
             LET child == CHOOSE r \in file : GroupId(r.group) = a
             IN  AccountOf(child.group, NoAccount, 2, child.type, TRUE)],
         [a \in {UnifiedId(r.code) : r \in file} |->
             LET row == CHOOSE r \in file : UnifiedId(r.code) = a
             IN  AccountOf(row.code, GroupId(row.group), 3, row.type, FALSE)])

CodesIn(accounts) == {accounts[a].code : a \in DOMAIN accounts}

(* The first start: the chart of the disk seeds the empty table; the index *)
(* still knows only the demonstration accounts, which are none of these.   *)
ChartInit ==
    /\ disk = FirstFile
    /\ chart = UnifiedChart(disk)
    /\ index = Empty
    /\ shared = FALSE
    /\ stored = chart
    /\ added = 0
    /\ replaced = FALSE
    /\ entries = Empty
    /\ inMemory = {} /\ recalled = {}

-----------------------------------------------------------------------------
(* The index: it is built anew when its size differs from the chart's.     *)

IndexById(idx) ==
    IF Cardinality(DOMAIN idx) # Cardinality(DOMAIN chart) THEN chart ELSE idx

IndexByCode(idx) ==
    IF Cardinality(CodesIn(idx)) # Cardinality(DOMAIN chart) THEN chart ELSE idx

(* An account is looked up by id and, when there is none, by code. Two     *)
(* accounts of one code can only be there after a start: either is found.  *)
IndexAfter(idx, ref) ==
    LET byId == IndexById(idx)
    IN  IF ref \in DOMAIN byId THEN byId ELSE IndexByCode(byId)

FoundBy(idx, ref) ==
    IF ref \in DOMAIN idx THEN {ref} ELSE {a \in DOMAIN idx : ByCode(idx[a].code) = ref}

(* Slip: an entry may be made on a heading. *)
AnyAccount(idx, ref) == FoundBy(idx, ref)

Postings(idx, ref) == {a \in FoundBy(idx, ref) : ~idx[a].isParent}

References == UNION {{r.debit, r.credit} : r \in LedgerRequests}

Built(idx) ==
    /\ index' = idx
    /\ shared' = (shared \/ (idx = chart /\ idx # index))

(* A report or a refused entry looks accounts up and changes nothing else. *)
LookUp(ref) ==
    /\ Built(IndexAfter(index, ref))
    /\ UNCHANGED <<chart, stored, disk, added, replaced, entries, inMemory, recalled>>

Room ==
    added + Cardinality(DOMAIN entries) + Cardinality({a \in DOMAIN chart : Imported(a)}) < MaxWork

-----------------------------------------------------------------------------
(* Accounts *)

(* persistAccount: the id, or the code, may be in the table already; then  *)
(* the new account does not get there. A failed write, which is only       *)
(* logged, has the same effect and is left out.                            *)
Persisted(table, a, account) ==
    IF a \in DOMAIN table \/ account.code \in CodesIn(table) THEN table
    ELSE With(table, a, account)

AddTo(a, account) ==
    /\ account.code \notin CodesIn(chart)
    /\ stored' = Persisted(stored, a, account)
    /\ UNCHANGED <<shared, disk, replaced, entries, inMemory, recalled>>

AtMoment(m) ==
    /\ Room /\ added < Len(Moments)
    /\ m = Moments[added + 1] /\ added' = added + 1

Headed(accounts, p) == IF p \in DOMAIN accounts THEN [accounts EXCEPT ![p].isParent = TRUE] ELSE accounts

(* Slip: an account whose code is there is moved under the new parent.     *)
AddOrMove(m, code, parent, type) ==
    LET level == IF parent \in DOMAIN chart THEN chart[parent].level + 1 ELSE 1
    IN  /\ chart' = IF code \in CodesIn(chart)
                    THEN [a \in DOMAIN chart |-> IF chart[a].code = code
                             THEN [chart[a] EXCEPT !.parent = parent] ELSE chart[a]]
                    ELSE With(chart, AddedId(m), AccountOf(code, parent, level, type, FALSE))
        /\ AtMoment(m)
        /\ UNCHANGED <<index, stored, shared, disk, replaced, entries, inMemory, recalled>>

(* POST /api/accounts: the parent becomes a heading in memory.             *)
AddAccount(m, code, parent, type) ==
    LET a == AddedId(m)
        level == IF parent \in DOMAIN chart THEN chart[parent].level + 1 ELSE 1
        account == AccountOf(code, parent, level, type, FALSE)
    IN  /\ AtMoment(m)
        /\ AddTo(a, account)
        /\ chart' = With(Headed(chart, parent), a, account)
        /\ index' = IF shared THEN Headed(index, parent) ELSE index

(* The assistant's create_account leaves the parent as it is. *)
CreateByAssistant(m, code, parent, type) ==
    LET a == AddedId(m)
        account == AccountOf(code, parent, 1, type, FALSE)
    IN  /\ AtMoment(m)
        /\ AddTo(a, account)
        /\ chart' = With(chart, a, account)
        /\ UNCHANGED index

(* A row of an import may name any parent, and reaches no table. *)
ImportAccount(code, parent, type) ==
    /\ Room
    /\ code \notin CodesIn(chart)
    /\ chart' = With(chart, ImportedId(code), AccountOf(code, parent, 3, type, FALSE))
    /\ UNCHANGED <<index, shared, stored, disk, added, replaced, entries, inMemory, recalled>>

(* Slip: the entries outlive their chart. *)
ReplaceChartOnly(file) ==
    /\ chart' = UnifiedChart(file)
    /\ shared' = FALSE
    /\ replaced' = TRUE
    /\ UNCHANGED <<index, stored, disk, added, entries, inMemory, recalled>>

(* The import of a unified chart empties the journal in memory, not the    *)
(* tables, and does not build the index anew.                              *)
ReplaceChart(file) ==
    /\ chart' = UnifiedChart(file)
    /\ inMemory' = {} /\ recalled' = {}
    /\ shared' = FALSE
    /\ replaced' = TRUE
    /\ UNCHANGED <<index, stored, disk, added, entries>>

-----------------------------------------------------------------------------
(* Entries *)

Entry(debit, credit, amount, status) ==
    [debit |-> debit, credit |-> credit, amount |-> amount, status |-> status]

FreshEntry == {e \in {Cardinality(DOMAIN entries) + 1} : Room}

CreateEntry(r) ==
    LET first == IndexAfter(index, r.debit)
        second == IndexAfter(first, r.credit)
    IN  \E e \in FreshEntry, a \in Postings(first, r.debit), b \in Postings(second, r.credit) :
          /\ entries' = With(entries, e, Entry(a, b, r.amount, "DRAFT"))
          /\ inMemory' = inMemory \union {e}
          /\ Built(second)
          /\ UNCHANGED <<chart, stored, disk, added, replaced, recalled>>

(* Posting does not look at the accounts again. *)
PostEntry(e) ==
    /\ e \in inMemory /\ entries[e].status = "DRAFT"
    /\ entries' = [entries EXCEPT ![e].status = "POSTED"]
    /\ UNCHANGED <<chart, index, shared, stored, disk, added, replaced, inMemory, recalled>>

(* The reversal is created like any entry: its accounts are looked up.     *)
ReverseEntry(e) ==
    /\ e \in inMemory /\ entries[e].status = "POSTED"
    /\ LET first == IndexAfter(index, entries[e].debit)
           second == IndexAfter(first, entries[e].credit)
       IN  \E f \in FreshEntry, a \in Postings(first, entries[e].debit),
              b \in Postings(second, entries[e].credit) :
             /\ entries' = With([entries EXCEPT ![e].status = "REVERSED"],
                                f, Entry(b, a, entries[e].amount, "POSTED"))
             /\ inMemory' = inMemory \union {f}
             /\ Built(second)
    /\ UNCHANGED <<chart, stored, disk, added, replaced, recalled>>

-----------------------------------------------------------------------------
(* Slip: accounts of the file that the table lacks are not merged. *)
ChartFromTable(file) == stored

(* initialize: the table, and the accounts of the file whose id it lacks.  *)
ChartAtStart(file) == Over(stored, UnifiedChart(file))

(* A stop and the next start. The accounts of the file that the table      *)
(* lacks are written, unless their code is there under another id.         *)
StartWithFile(file) ==
    /\ disk' = file
    /\ LET unified == UnifiedChart(file)
           lacking == {a \in DOMAIN unified \ DOMAIN stored :
                         unified[a].code \notin CodesIn(stored)}
       IN  stored' = Over(stored, Restrict(unified, lacking))
    /\ chart' = ChartAtStart(file)
    /\ index' = Empty /\ shared' = FALSE
    /\ replaced' = FALSE
    /\ inMemory' = DOMAIN entries /\ recalled' = DOMAIN entries
    /\ UNCHANGED <<added, entries>>

(* The id of an account added singly is not known before it is there. *)
Nameable == {p \in Parents : p[1] = "acc-ms" => p[2] \in {Moments[i] : i \in 1..added}}

ChartNext ==
    \/ \E ref \in References : LookUp(ref)
    \/ \E m \in Range(Moments), c \in Codes, p \in Nameable, t \in AccountTypes :
         AddAccount(m, c, p, t) \/ CreateByAssistant(m, c, p, t)
    \/ \E c \in Codes, p \in Nameable, t \in AccountTypes : ImportAccount(c, p, t)
    \/ \E f \in Files : ReplaceChart(f) \/ StartWithFile(f)
    \/ \E r \in LedgerRequests : CreateEntry(r)
    \/ \E e \in DOMAIN entries : PostEntry(e) \/ ReverseEntry(e)

-----------------------------------------------------------------------------
(* The reports *)

Reported      == {a \in DOMAIN chart : ~chart[a].isParent}
ReportedOf(t) == {a \in Reported : chart[a].type \in t}
Posted      == {e \in inMemory : entries[e].status = "POSTED"}

TotalOf(f(_), S) ==
    LET of == [a \in S |-> f(a)]
    IN  MapThenSumSet(LAMBDA a : of[a], S)

Debits(a)  == TotalOf(LAMBDA e : entries[e].amount, {e \in Posted : entries[e].debit = a})
Credits(a) == TotalOf(LAMBDA e : entries[e].amount, {e \in Posted : entries[e].credit = a})

ClosingDebit(a)  == IF Debits(a) >= Credits(a) THEN Debits(a) - Credits(a) ELSE 0
ClosingCredit(a) == IF Debits(a) >= Credits(a) THEN 0 ELSE Credits(a) - Debits(a)

PeriodTotals  == TotalOf(Debits, Reported) - TotalOf(Credits, Reported)
ClosingTotals == TotalOf(ClosingDebit, Reported) - TotalOf(ClosingCredit, Reported)

Amount(a) == ClosingDebit(a) - ClosingCredit(a)

(* Slip: the equity is left out of the position. *)
PositionWithoutEquity == TotalOf(Amount, ReportedOf({"ASSET", "LIABILITY"}))

NetPosition == TotalOf(Amount, ReportedOf(Sheets))

NetSurplus ==
    TotalOf(LAMBDA a : Credits(a) - Debits(a), ReportedOf({"REVENUE"}))
    - TotalOf(LAMBDA a : Debits(a) - Credits(a), ReportedOf({"EXPENSE"}))

(* The cash statement reads headings too. *)
CashAccounts == {a \in DOMAIN chart : chart[a].code \in CashCodes}
NetCashFlow  == TotalOf(LAMBDA a : Debits(a) - Credits(a), CashAccounts)

-----------------------------------------------------------------------------
(* Properties *)

LinesOf(e) == {entries[e].debit, entries[e].credit}
OfOtherType == Reported \ ReportedOf(Sheets \union {"REVENUE", "EXPENSE"})
Unreported == (UNION {LinesOf(e) : e \in Posted}) \ Reported

ChartTypeOK ==
    /\ \A a \in DOMAIN chart :
         /\ chart[a].level \in Nat \ {0}
         /\ chart[a].isParent \in BOOLEAN
    /\ inMemory \subseteq DOMAIN entries /\ recalled \subseteq inMemory
    /\ DOMAIN entries \subseteq 1..MaxWork
    /\ added \in 0..Len(Moments)

(* The four reports of the same entries agree: the trial balance balances, *)
(* the net position of the balance sheet is the surplus of the income      *)
(* report and the cash statement gives the closing balances of the cash    *)
(* accounts, each out by just the lines on accounts it does not list:      *)
(* those on headings and on accounts that are gone, and for the second     *)
(* also those of a type it does not know, which no handler refuses.        *)
ReportsAgree ==
    LET out(S) == TotalOf(LAMBDA a : Debits(a) - Credits(a), S)
    IN  /\ PeriodTotals = -out(Unreported)
        /\ ClosingTotals = PeriodTotals
        /\ NetPosition - NetSurplus = -out(Unreported \union OfOtherType)
        /\ NetCashFlow = TotalOf(Amount, CashAccounts \intersect Reported)
                         + out(CashAccounts \intersect Unreported)

(* A posted line is missing from the reports for three reasons only: its   *)
(* account was made a heading by an account put under it, the entry was    *)
(* loaded by a start and the account is in no table and not on the disk,   *)
(* or the index was still that of the chart an import had replaced.        *)
MissingLinesAreExplained ==
    \A e \in Posted : \A a \in LinesOf(e) \ Reported :
        \/ /\ a \in DOMAIN chart /\ ~IsGroup(a)
           /\ \E b \in DOMAIN chart : chart[b].parent = a
        \/ e \in recalled /\ a \notin DOMAIN stored \union DOMAIN UnifiedChart(disk)
        \/ e \notin recalled /\ replaced

(* The balance sheet climbs from an account to its group of level 2; on a  *)
(* circle of parents it would climb for ever. Every circle contains an     *)
(* imported account: nothing else can close one.                           *)
OnlyImportsClose ==
    \A S \in SUBSET {a \in DOMAIN chart : chart[a].level > 2 /\ ~Imported(a)} :
        S # {} => \E a \in S : chart[a].parent \notin S

(* What the reports over the chart keep. *)
ReportsReconcile == ReportsAgree /\ MissingLinesAreExplained /\ OnlyImportsClose
=============================================================================
