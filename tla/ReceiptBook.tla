----------------------------- MODULE ReceiptBook -----------------------------
(***************************************************************************)
(* Collection receipts (ReceiptsService) on top of the journal: issuing a  *)
(* receipt distributes the amount over the beneficiaries of a rule, makes  *)
(* the journal entry and may post it, all in one synchronous call. The     *)
(* journal's own handlers go on changing that entry; the receipt stays.    *)
(*                                                                         *)
(* Amounts of a collection are in mills, percentages in hundredths.        *)
(***************************************************************************)
EXTENDS Journal, Sequences

CONSTANTS
    Collectors,     \* users with the permission receipts:issue
    AutoPosters,    \* users whose receipts are posted without being asked
    Collections,    \* requests: [month, amount, cash, rule, autoPost]
    DirectAccount   \* the account of a collection without a rule (4101)

Beneficiary == [account: Accounts, percentage: Nat, name: Names]
Whole(rule) == Total([i \in DOMAIN rule |-> rule[i].percentage]) \in 9999..10001

(* A rule names each of its accounts once and its percentages make 100, to  *)
(* a hundredth; an empty rule stands for a revenue type with none.          *)
ASSUME CollectionsAssumption ==
    /\ Collectors \subseteq Users /\ AutoPosters \subseteq Collectors
    /\ DirectAccount \in Accounts
    /\ \A q \in Collections :
         /\ q.month \in Months /\ q.amount \in Nat /\ q.cash \in Accounts
         /\ q.autoPost \in BOOLEAN
         /\ q.rule \in Seq(Beneficiary)
         /\ \A i, j \in DOMAIN q.rule :
              i # j => /\ q.rule[i].account # q.rule[j].account
                       /\ q.rule[i].name # q.rule[j].name
         /\ \A i \in DOMAIN q.rule : q.rule[i].account # q.cash
         /\ q.rule = <<>> => q.cash # DirectAccount
         /\ q.rule # <<>> => Whole(q.rule)

VARIABLE receipts   \* in the order of issue: [number, entry, amount, shares]

receiptVars == <<vars, receipts>>

-----------------------------------------------------------------------------
(* Distribution *)

(* Math.round((amount * percentage / 100) * 100) / 100, here in mills. *)
ByPercentage(q, i) == 10 * ((q.amount * q.rule[i].percentage + 50000) \div 100000)

(* Slip: the shares are not rounded before the entry rounds its lines. *)
SharesUnrounded(q) ==
    IF q.rule = <<>>
    THEN <<q.amount>>
    ELSE [i \in DOMAIN q.rule |-> (q.amount * q.rule[i].percentage) \div 10000]

(* The last beneficiary takes what the rounded shares left. *)
Shares(q) ==
    LET n    == Len(q.rule)
        rest == q.amount - Total([i \in 1..(n - 1) |-> ByPercentage(q, i)])
    IN  IF q.rule = <<>>
        THEN <<q.amount>>
        ELSE [i \in 1..n |-> IF i = n THEN 10 * ToPiasters(rest) ELSE ByPercentage(q, i)]

Payees(q) ==
    IF q.rule = <<>> THEN <<[account |-> DirectAccount, name |-> NoParty]>> ELSE q.rule

CreditLine(q, i) == [ref |-> Payees(q)[i].name, debit |-> 0, credit |-> Shares(q)[i]]

(* The entry of a collection: one debit of cash, a credit for each share. *)
EntryOf(q) ==
    LET i(a) == CHOOSE j \in DOMAIN Payees(q) : Payees(q)[j].account = a
    IN  [month |-> q.month, lines |->
           [a \in {q.cash} \union {Payees(q)[j].account : j \in DOMAIN Payees(q)} |->
               IF a = q.cash
               THEN [ref |-> NoParty, debit |-> q.amount, credit |-> 0]
               ELSE CreditLine(q, i(a))]]

PayeesExist(q) == \A i \in DOMAIN Payees(q) : Payees(q)[i].account \in Leaves

-----------------------------------------------------------------------------
(* Issuing a receipt *)

ReceiptOf(q, e) ==
    [number |-> Len(receipts) + 1, entry |-> e, amount |-> q.amount, shares |-> Shares(q)]

(* postJournalEntry is called on the new entry, marked as approved by nobody. *)
EntryIssued(u, q) ==
    LET new == [NewEntry(u, q.month, "RECEIPT") EXCEPT !.status = "APPROVED"]
    IN  IF q.autoPost \/ u \in AutoPosters
        THEN Posted(new, u)
        ELSE NewEntry(u, q.month, "RECEIPT")

IssueReceipt(u, q) ==
    LET r == EntryOf(q)
    IN  /\ u \in Collectors
        /\ q.amount > 0
        /\ PayeesExist(q)
        /\ periods[q.month] # "CLOSED"
        /\ RequestOk(r)
        /\ parties' = parties \union PartiesOf(r, DOMAIN r.lines)
        /\ periods' = Registered(q.month)
        /\ \E e \in Fresh :
             LET ls == Recorded(r)
             IN  /\ journal' = [journal EXCEPT ![e] = EntryIssued(u, q)]
                 /\ lines' = [lines EXCEPT ![e] = ls]
                 /\ receipts' = Append(receipts, ReceiptOf(q, e))
                 /\ IF EntryIssued(u, q).status = "POSTED"
                    THEN /\ balance' = BalanceAfter(ls)
                         /\ partyBalance' = [p \in PartyIds |-> partyBalance[p] +
                               IF p \in parties' THEN NetOfParty(ls, p) ELSE 0]
                         /\ history' = [history EXCEPT ![e] = 1]
                    ELSE UNCHANGED <<balance, partyBalance, history>>
        /\ UNCHANGED <<alias, today>>

(* Slip: the receipt is recorded before its entry is made. *)
RefuseButRecord(u, q) ==
    /\ u \in Collectors
    /\ q.amount > 0 /\ PayeesExist(q)
    /\ Refused(EntryOf(q))
    /\ receipts' = Append(receipts, ReceiptOf(q, NoEntry))

(* The entry is refused: a share of zero, or the financial regulation.     *)
(* Nothing of the receipt remains, the refused entry leaves its trace.     *)
RefuseReceipt(u, q) ==
    /\ u \in Collectors
    /\ q.amount > 0 /\ PayeesExist(q)
    /\ Refused(EntryOf(q))
    /\ UNCHANGED receipts

Issue(u) == \E q \in Collections : IssueReceipt(u, q) \/ RefuseReceipt(u, q)

ReceiptInit == Init /\ receipts = <<>>

ReceiptNext ==
    \/ \E u \in Users : Issue(u)
    \/ Next /\ UNCHANGED receipts

ReceiptSpec == ReceiptInit /\ [][ReceiptNext]_receiptVars

-----------------------------------------------------------------------------
(* Properties *)

(* Nothing of a collection is lost or made by rounding: the shares of a     *)
(* receipt are positive and make its amount to the piaster, and as long as  *)
(* its entry is in the journal the entry still debits that amount and       *)
(* credits each share of half a piaster or more, whatever the workflow or   *)
(* merges of parties did (issueReceipt, createJournalEntry).                *)
DistributionExact ==
    \A i \in DOMAIN receipts :
        LET r  == receipts[i]
            ls == lines[r.entry]
        IN  /\ \A j \in DOMAIN r.shares : r.shares[j] > 0
            /\ Total([j \in DOMAIN r.shares |-> ToPiasters(r.shares[j])]) = ToPiasters(r.amount)
            /\ Total([a \in DOMAIN ls |-> ls[a].debit]) = ToPiasters(r.amount)
            /\ {ls[a].credit : a \in {b \in DOMAIN ls : ls[b].credit > 0}}
                 = {ToPiasters(r.shares[j]) : j \in DOMAIN r.shares} \ {0}

(* Receipts and entries of collections correspond one to one: a call that   *)
(* is refused half-way, after its period or parties were registered, leaves *)
(* neither an entry without a receipt nor a receipt without an entry        *)
(* (issueReceipt records the receipt last).                                 *)
ReceiptsBacked ==
    /\ \A i, j \in DOMAIN receipts : receipts[i].entry = receipts[j].entry => i = j
    /\ {receipts[i].entry : i \in DOMAIN receipts}
         = {e \in EntryIds : journal[e].type = "RECEIPT"}

(* What a member was charged is what the books show, for every receipt, and *)
(* the books show no other collection (issueReceipt).                       *)
ReceiptsSound == ReceiptsBacked /\ DistributionExact
=============================================================================
