--------------------------- MODULE AccountingCore ----------------------------
(***************************************************************************)
(* The second accounting engine (accounting-core.service, /api/accounting):*)
(* double entries in whole piasters, and balances moved at posting. It     *)
(* lives in memory, beside the journal of accounting.service and apart     *)
(* from it; every handler is synchronous.                                  *)
(*                                                                         *)
(* Requests that validateEntry refuses change nothing and are left out. A  *)
(* request has one line per account, in mills. The hash chain covers the   *)
(* fields of an entry that never change, in the order of creation; nothing *)
(* can break it, and it is left out.                                       *)
(***************************************************************************)
EXTENDS Integers, Sequences, FiniteSetsExt

CONSTANTS
    CoreAccounts,   \* leaf accounts of the chart that may be used
    CoreDebit,      \* those of debit nature
    Treasury,       \* TREASURY_ACCOUNT_CODES
    CoreRequests,   \* what clients submit: [type, lines, named]
    CashCeiling,    \* cash_payment_hq, in piasters
    Enforcing,      \* the enforcement stage is ENFORCE
    PartyNames,     \* names of subledger parties, on the first account
    MaxCore,        \* bound: entries ever created
    MaxReferences   \* bound: references ever given

(* The lines balance in piasters, each on one side and above zero. named:   *)
(* the client names the financial action itself, and wrongly.               *)
ToMinor(mills) == (mills + 5) \div 10
Minor(ls) == [a \in DOMAIN ls |-> [debit |-> ToMinor(ls[a].debit), credit |-> ToMinor(ls[a].credit)]]
CoreTotal(f)        == MapThenSumSet(LAMBDA x : f[x], DOMAIN f)
SideTotal(ls, side) == CoreTotal([a \in DOMAIN ls |-> ls[a][side]])

ValidEntry(ls) ==
    /\ \E a, b \in DOMAIN ls : a # b
    /\ \A a \in DOMAIN ls : /\ a \in CoreAccounts
                            /\ ls[a].debit >= 0 /\ ls[a].credit >= 0
                            /\ ls[a].debit = 0 <=> ls[a].credit # 0
    /\ SideTotal(ls, "debit") = SideTotal(ls, "credit")

ASSUME CoreAssumption ==
    /\ IsFiniteSet(CoreAccounts)
    /\ CoreDebit \subseteq CoreAccounts /\ Treasury \subseteq CoreAccounts
    /\ Enforcing \in BOOLEAN
    /\ \A r \in CoreRequests : /\ r.type \in {"MANUAL", "RECEIPT"}
                               /\ r.named \in BOOLEAN
                               /\ r.lines \in [DOMAIN r.lines -> [debit: Int, credit: Int]]
                               /\ ValidEntry(Minor(r.lines))
    /\ CashCeiling \in Nat /\ MaxCore \in Nat /\ MaxReferences \in Nat

VARIABLES
    coreEntries,    \* the entries, in the order of their creation
    coreBalances,   \* balance of each account, in piasters
    coreHistory,    \* the history rows, in the order they were written
    referenceSeq,
    coreParties

coreVars == <<coreEntries, coreBalances, coreHistory, referenceSeq, coreParties>>

CoreInit ==
    /\ coreEntries = << >>
    /\ coreBalances = [a \in CoreAccounts |-> 0]
    /\ coreHistory = << >>
    /\ referenceSeq = 0
    /\ coreParties = {}

-----------------------------------------------------------------------------
(* The financial regulation, as far as it can be measured from the lines *)

(* deriveFinancialPayload.                                                  *)
Action(type, ls) ==
    CASE \E a \in DOMAIN ls \intersect Treasury : ls[a].credit > 0 -> "CASH_PAYMENT"
      [] /\ \A a \in DOMAIN ls \intersect Treasury : ls[a].credit = 0
         /\ type = "RECEIPT" /\ DOMAIN ls \intersect Treasury # {} -> "REVENUE_ENTRY"
      [] OTHER -> "NONE"

Payload(type, ls) ==
    [action |-> Action(type, ls), amount |-> SideTotal(ls, "debit"), entityLevel |-> "NONE"]

(* checkFinancialAction: the only rule a derived payload could fail is the *)
(* ceiling of cash payments, by entity level; without a level it is        *)
(* undetermined, which blocks nothing. Below ENFORCE nothing is blocked.   *)
Blocked(type, ls) ==
    LET p == Payload(type, ls)
    IN  /\ Enforcing
        /\ p.action = "CASH_PAYMENT" /\ p.entityLevel # "NONE"
        /\ p.amount > CashCeiling

-----------------------------------------------------------------------------
NewCoreEntry(type, ls, original) ==
    [reference |-> referenceSeq + 1, type |-> type, status |-> "DRAFT",
     lines |-> ls, reversalOf |-> original]

CreateCoreEntry(r) ==
    LET ls == Minor(r.lines)
    IN  /\ ~r.named
        /\ ~Blocked(r.type, ls)
        /\ Len(coreEntries) < MaxCore /\ referenceSeq < MaxReferences
        /\ referenceSeq' = referenceSeq + 1
        /\ coreEntries' = Append(coreEntries, NewCoreEntry(r.type, ls, 0))
        /\ UNCHANGED <<coreBalances, coreHistory, coreParties>>

(* Refused after the reference was taken: a reference is lost. *)
RefuseCoreEntry(r) ==
    /\ r.named \/ Blocked(r.type, Minor(r.lines))
    /\ referenceSeq < MaxReferences
    /\ referenceSeq' = referenceSeq + 1
    /\ UNCHANGED <<coreEntries, coreBalances, coreHistory, coreParties>>

CoreSense(a) == IF a \in CoreDebit THEN 1 ELSE -1
Delta(ls, a) ==
    IF a \in DOMAIN ls THEN CoreSense(a) * (ls[a].debit - ls[a].credit) ELSE 0

HistoryRows(i, ls) ==
    {[entry |-> i, account |-> a, before |-> coreBalances[a],
      after |-> coreBalances[a] + Delta(ls, a)] : a \in DOMAIN ls}

(* Slip: a posted entry may be posted again. *)
PostableAgain(e) == ~Blocked(e.type, e.lines)
Postable(e) == e.status = "DRAFT" /\ ~Blocked(e.type, e.lines)

(* The rows of one posting concern an account each: their set stands for   *)
(* their sequence.                                                         *)
PostCoreEntry(i) ==
    LET e == coreEntries[i]
    IN  /\ Postable(e)
        /\ coreEntries' = [coreEntries EXCEPT ![i].status = "POSTED"]
        /\ coreBalances' = [a \in CoreAccounts |-> coreBalances[a] + Delta(e.lines, a)]
        /\ coreHistory' = Append(coreHistory, HistoryRows(i, e.lines))
        /\ UNCHANGED <<referenceSeq, coreParties>>

(* Slip: the sides are not exchanged. *)
NotExchanged(ls) == ls
Exchanged(ls) == [a \in DOMAIN ls |-> [debit |-> ls[a].credit, credit |-> ls[a].debit]]

(* The reversal is created without the check and posted with it; what      *)
(* postEntry answers is not looked at. The original stays as it is, and    *)
(* may be reversed again.                                                  *)
ReverseCoreEntry(i) ==
    LET ls == Exchanged(coreEntries[i].lines)
        reversal == NewCoreEntry("REVERSAL", ls, i)
    IN  /\ coreEntries[i].status = "POSTED"
        /\ Len(coreEntries) < MaxCore /\ referenceSeq < MaxReferences
        /\ referenceSeq' = referenceSeq + 1
        /\ IF Postable(reversal)
           THEN /\ coreEntries' = Append(coreEntries, [reversal EXCEPT !.status = "POSTED"])
                /\ coreBalances' = [a \in CoreAccounts |-> coreBalances[a] + Delta(ls, a)]
                /\ coreHistory' = Append(coreHistory, HistoryRows(Len(coreEntries) + 1, ls))
           ELSE /\ coreEntries' = Append(coreEntries, reversal)
                /\ UNCHANGED <<coreBalances, coreHistory>>
        /\ UNCHANGED coreParties

(* findOrCreateSubledgerParty *)
CreateCoreParty(n) ==
    /\ n \notin coreParties
    /\ coreParties' = coreParties \union {n}
    /\ UNCHANGED <<coreEntries, coreBalances, coreHistory, referenceSeq>>

CoreNext ==
    \/ \E r \in CoreRequests : CreateCoreEntry(r) \/ RefuseCoreEntry(r)
    \/ \E i \in DOMAIN coreEntries : PostCoreEntry(i) \/ ReverseCoreEntry(i)
    \/ \E n \in PartyNames : CreateCoreParty(n)

CoreSpec == CoreInit /\ [][CoreNext]_coreVars

-----------------------------------------------------------------------------
(* Properties *)

CoreTypeOK ==
    /\ \A i \in DOMAIN coreEntries :
         LET e == coreEntries[i]
         IN  /\ e.reference \in 1..referenceSeq
             /\ e.type \in {"MANUAL", "RECEIPT", "REVERSAL"}
             /\ e.status \in {"DRAFT", "POSTED"}
             /\ ValidEntry(e.lines)
             /\ e.reversalOf \in 0..(i - 1)
    /\ coreBalances \in [CoreAccounts -> Int]
    /\ referenceSeq \in 0..MaxReferences
    /\ coreParties \subseteq PartyNames

(* The three records of a posting agree: the balance of an account, the    *)
(* sum of the posted lines that trialBalance shows, and the last row of    *)
(* its history, whose rows follow one another without a gap; and what the  *)
(* trial balance shows balances (postEntry, trialBalance, accountLedger).  *)
PostedIn == {i \in DOMAIN coreEntries : coreEntries[i].status = "POSTED"}

RowsOf(a) ==
    LET has(k) == \E row \in coreHistory[k] : row.account = a
        row(k) == CHOOSE r \in coreHistory[k] : r.account = a
        steps == {k \in DOMAIN coreHistory : has(k)}
    IN  [k \in steps |-> row(k)]

CoreBalancesReconcile ==
    /\ \A a \in CoreAccounts :
         LET rows == RowsOf(a)
             before(k) == {j \in DOMAIN rows : j < k}
         IN  /\ coreBalances[a] = CoreTotal([i \in PostedIn |-> Delta(coreEntries[i].lines, a)])
             /\ \A k \in DOMAIN rows :
                  rows[k].before = IF before(k) = {} THEN 0 ELSE rows[Max(before(k))].after
             /\ DOMAIN rows # {} => coreBalances[a] = rows[Max(DOMAIN rows)].after
    /\ CoreTotal([i \in PostedIn |-> SideTotal(coreEntries[i].lines, "debit")]) =
           CoreTotal([i \in PostedIn |-> SideTotal(coreEntries[i].lines, "credit")])

(* A reversal has reached the balances, as reverseEntry answers, although  *)
(* it does not look at the verdict of postEntry, and takes back exactly    *)
(* what its original, itself posted, put there.                            *)
CoreReversalsCancel ==
    \A i \in DOMAIN coreEntries : coreEntries[i].type = "REVERSAL" =>
        LET o == coreEntries[i].reversalOf
        IN  /\ {i, o} \subseteq PostedIn
            /\ \A a \in CoreAccounts :
                 Delta(coreEntries[i].lines, a) + Delta(coreEntries[o].lines, a) = 0

(* The second engine reconciles: its records of a posting agree, and what a *)
(* reversal takes back is what its original put there.                      *)
CoreReconciles == CoreBalancesReconcile /\ CoreReversalsCancel
=============================================================================
