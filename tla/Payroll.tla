------------------------------- MODULE Payroll -------------------------------
(***************************************************************************)
(* Monthly payroll runs (PayrollService) against the advances and the      *)
(* bonuses and deductions of the employees (EmployeeAffairsService). A run *)
(* is computed from what the advances are when it is generated, and paid   *)
(* into what they are when it is posted; in between they may be paid in    *)
(* cash, settled, deleted or joined by others, and the other months' runs  *)
(* do the same. Every handler is synchronous: one action each.             *)
(*                                                                         *)
(* All amounts are in mills; what the code rounds is a multiple of 10.     *)
(* Attendance is left out: its amounts are rounded before they are used.   *)
(***************************************************************************)
EXTENDS Integers, FiniteSets, FiniteSetsExt

CONSTANTS
    Workers,       \* the active employees of the organisation
    Salary,        \* total salary of each, as entered
    Contracts,     \* advances a client may ask for: [worker, amount, instalment]
    AffairForms,   \* bonuses and deductions: [worker, type, month, amount]
    CashAmounts,   \* instalments a client may pay in cash
    PayMonths,     \* months runs are generated for
    MaxAdvances    \* bound: advances ever granted

AdvanceIds == 1..MaxAdvances    \* in the order they were granted

ASSUME PayrollAssumption ==
    /\ IsFiniteSet(Workers) /\ Workers # {}
    /\ IsFiniteSet(PayMonths) /\ MaxAdvances \in Nat
    /\ Salary \in [Workers -> Nat]
    /\ Contracts \subseteq [worker: Workers, amount: Nat \ {0}, instalment: Nat \ {0}]
    /\ CashAmounts \subseteq Nat \ {0}
    /\ IsFiniteSet(AffairForms)
    /\ AffairForms \subseteq [worker: Workers, type: {"BONUS", "DEDUCTION"},
                              month: PayMonths, amount: Nat]

VARIABLES
    advances,   \* the advances, by id
    affairs,    \* status of each bonus or deduction
    runs        \* the run of each month

payrollVars == <<advances, affairs, runs>>

-----------------------------------------------------------------------------
(* Amounts *)

Round(x)    == 10 * ((x + 5) \div 10)       \* Math.round(x * 100) / 100
Lesser(x, y) == IF x <= y THEN x ELSE y
SumOf(f, S)  == MapThenSumSet(LAMBDA x : f[x], S)

AdvanceStatuses == {"ABSENT", "ACTIVE", "SETTLED", "DELETED"}
NoAdvance == [status |-> "ABSENT", worker |-> CHOOSE w \in Workers : TRUE,
              amount |-> 0, instalment |-> 0, paid |-> 0, byPayroll |-> 0, byCash |-> 0]

ZeroPay == [w \in Workers |-> 0]
NoRun == [status |-> "NONE", base |-> ZeroPay, bonus |-> ZeroPay, deduction |-> ZeroPay,
          withheld |-> ZeroPay, net |-> ZeroPay]

PayrollInit ==
    /\ advances = [a \in AdvanceIds |-> NoAdvance]
    /\ affairs = [f \in AffairForms |-> "ABSENT"]
    /\ runs = [m \in PayMonths |-> NoRun]

Due(a)    == Lesser(advances[a].instalment, advances[a].amount - advances[a].paid)
ActiveOf(w) == {a \in AdvanceIds : advances[a].status = "ACTIVE" /\ advances[a].worker = w}

Affair(w, m, type) ==
    SumOf([f \in AffairForms |-> f.amount],
          {f \in AffairForms : /\ affairs[f] = "APPROVED"
                               /\ f.worker = w /\ f.month = m /\ f.type = type})

-----------------------------------------------------------------------------
(* The run of a month *)

(* Slip: the instalments are left out of the net salary. *)
NetWithoutAdvances(base, bonus, deduction, withheld) == Round(base + bonus - deduction)

NetPayable(base, bonus, deduction, withheld) == Round(base + bonus - deduction - withheld)

(* The parts are rounded one by one, the net from the unrounded parts. *)
DraftRun(m) ==
    LET bonus     == [w \in Workers |-> Affair(w, m, "BONUS")]
        deduction == [w \in Workers |-> Affair(w, m, "DEDUCTION")]
        withheld  == [w \in Workers |->
                          SumOf([a \in AdvanceIds |-> Due(a)], ActiveOf(w))]
    IN  [status    |-> "DRAFT",
         base      |-> [w \in Workers |-> Round(Salary[w])],
         bonus     |-> [w \in Workers |-> Round(bonus[w])],
         deduction |-> [w \in Workers |-> Round(deduction[w])],
         withheld  |-> [w \in Workers |-> Round(withheld[w])],
         net       |-> [w \in Workers |->
             NetPayable(Round(Salary[w]), bonus[w], deduction[w], withheld[w])]]

GenerateRun(m) ==
    /\ runs[m].status \in {"NONE", "DRAFT"}
    /\ runs' = [runs EXCEPT ![m] = DraftRun(m)]
    /\ UNCHANGED <<advances, affairs>>

ApproveRun(m) ==
    /\ runs[m].status = "DRAFT"
    /\ runs' = [runs EXCEPT ![m].status = "APPROVED"]
    /\ UNCHANGED <<advances, affairs>>

DeleteDraftRun(m) ==
    /\ runs[m].status = "DRAFT"
    /\ runs' = [runs EXCEPT ![m] = NoRun]
    /\ UNCHANGED <<advances, affairs>>

OfAll(part) == SumOf(part, Workers)
Expense(r)  == OfAll(r.base) + OfAll(r.bonus) - OfAll(r.deduction)

(* createJournalEntry: two or three lines, each with a positive amount on  *)
(* one side, that balance. Anything else throws and the run stays APPROVED.*)
EntryAccepted(r) ==
    /\ Expense(r) > 0 /\ OfAll(r.net) > 0 /\ OfAll(r.withheld) >= 0
    /\ Expense(r) = OfAll(r.net) + OfAll(r.withheld)

(* Slips: an instalment is paid in full although less is outstanding; and  *)
(* every active advance gets its instalment, whatever the run withheld.    *)
InstalmentDue(a, remaining) ==
    IF remaining > 1 THEN Lesser(advances[a].instalment, remaining) ELSE 0

(* What one advance receives of what is left of the worker's deduction;    *)
(* a difference of one mill or less counts as nothing.                     *)
Credit(a, remaining) ==
    LET due == Lesser(Due(a), remaining)
    IN  IF remaining > 1 /\ due > 1 THEN due ELSE 0

(* The advances are stored newest first; the rest is rounded after each.   *)
(* left[i] is what is left for the advances up to i. What is left at the   *)
(* end is dropped.                                                         *)
RestAfter(w, withheld) ==
    LET active == ActiveOf(w)
        left[i \in 0..MaxAdvances] ==
            IF i = MaxAdvances THEN withheld
            ELSE LET rest == left[i + 1]
                     paid == IF i + 1 \in active THEN Credit(i + 1, rest) ELSE 0
                 IN  IF paid > 0 THEN Round(rest - paid) ELSE rest
    IN  left

Credited(r, a) ==
    IF advances[a].status = "ACTIVE"
    THEN Credit(a, RestAfter(advances[a].worker, r.withheld[advances[a].worker])[a])
    ELSE 0

(* Slip: a status the advances do not have. *)
MarkedAsPaid(adv) == [adv EXCEPT !.status = IF adv.paid >= adv.amount - 1 THEN "PAID" ELSE @]

SettledIfPaid(adv) == [adv EXCEPT !.status = IF adv.paid >= adv.amount - 1 THEN "SETTLED" ELSE @]

Repaid(adv, x) == SettledIfPaid([adv EXCEPT !.paid = Lesser(adv.amount, @ + x)])

PaidByRun(adv, x)  == [Repaid(adv, x) EXCEPT !.byPayroll = @ + x]
PaidInCash(adv, x) == [Repaid(adv, x) EXCEPT !.byCash = @ + x]

(* The entry is created, approved and posted in the call (every role with  *)
(* hr:manage also has journal:workflow), then the advances are credited.   *)
PostRun(m) ==
    /\ runs[m].status = "APPROVED"
    /\ EntryAccepted(runs[m])
    /\ advances' = [a \in AdvanceIds |->
          LET x == Credited(runs[m], a)
          IN  IF x > 0 THEN PaidByRun(advances[a], x) ELSE advances[a]]
    /\ runs' = [runs EXCEPT ![m].status = "POSTED"]
    /\ UNCHANGED affairs

-----------------------------------------------------------------------------
(* Advances and affairs of the employees *)

(* The financial regulation may refuse any advance: then nothing happens. *)
AddAdvance(c) ==
    /\ c.instalment <= c.amount
    /\ \E a \in AdvanceIds :
         /\ advances[a].status = "ABSENT"
         /\ \A b \in AdvanceIds : b < a => advances[b].status # "ABSENT"
         /\ advances' = [advances EXCEPT ![a] =
              [NoAdvance EXCEPT !.status = "ACTIVE", !.worker = c.worker,
                                !.amount = c.amount, !.instalment = c.instalment]]
    /\ UNCHANGED <<affairs, runs>>

PayInstallment(a, x) ==
    /\ advances[a].status = "ACTIVE"
    /\ x <= advances[a].amount - advances[a].paid + 1
    /\ advances' = [advances EXCEPT ![a] = PaidInCash(advances[a], x)]
    /\ UNCHANGED <<affairs, runs>>

DeleteAdvance(a) ==
    /\ advances[a].status \in {"ACTIVE", "SETTLED"}
    /\ advances' = [advances EXCEPT ![a].status = "DELETED"]
    /\ UNCHANGED <<affairs, runs>>

AddAffair(f) ==
    /\ affairs[f] = "ABSENT"
    /\ affairs' = [affairs EXCEPT ![f] = "PENDING"]
    /\ UNCHANGED <<advances, runs>>

DecideAffair(f, decision) ==
    /\ affairs[f] = "PENDING"
    /\ affairs' = [affairs EXCEPT ![f] = decision]
    /\ UNCHANGED <<advances, runs>>

DeleteAffair(f) ==
    /\ affairs[f] # "ABSENT"
    /\ affairs' = [affairs EXCEPT ![f] = "ABSENT"]
    /\ UNCHANGED <<advances, runs>>

-----------------------------------------------------------------------------
MonthStep(m) == GenerateRun(m) \/ ApproveRun(m) \/ DeleteDraftRun(m) \/ PostRun(m)

AdvanceStep ==
    \/ \E c \in Contracts : AddAdvance(c)
    \/ \E a \in AdvanceIds : \/ DeleteAdvance(a)
                             \/ \E x \in CashAmounts : PayInstallment(a, x)

AffairStep == \E f \in AffairForms :
    \/ AddAffair(f) \/ DeleteAffair(f)
    \/ \E decision \in {"APPROVED", "REJECTED"} : DecideAffair(f, decision)

PayrollNext == (\E m \in PayMonths : MonthStep(m)) \/ AdvanceStep \/ AffairStep

PayrollSpec == PayrollInit /\ [][PayrollNext]_payrollVars

-----------------------------------------------------------------------------
(* Properties *)

RunParts == [Workers -> Int]

PayrollTypeOK ==
    /\ advances \in [AdvanceIds ->
          [status: AdvanceStatuses, worker: Workers, amount: Nat, instalment: Nat,
           paid: Nat, byPayroll: Nat, byCash: Nat]]
    /\ affairs \in [AffairForms -> {"ABSENT", "PENDING", "APPROVED", "REJECTED"}]
    /\ runs \in [PayMonths ->
          [status: {"NONE", "DRAFT", "APPROVED", "POSTED"}, base: RunParts, bonus: RunParts,
           deduction: RunParts, withheld: RunParts, net: RunParts]]

(* An advance and its payments agree whatever order cash instalments and   *)
(* the runs of several months come in: never paid beyond its amount,       *)
(* settled exactly when at most a mill is missing (but an advance of a     *)
(* single mill is active until it is paid), and the recorded payments add  *)
(* up to what counts as paid (postRun, payInstallment).                    *)
AdvancesAddUp ==
    \A a \in AdvanceIds :
        LET adv == advances[a]
        IN  /\ adv.paid <= adv.amount
            /\ adv.byPayroll + adv.byCash - adv.paid \in {0, 1}
            /\ adv.status = "ACTIVE" => adv.paid < adv.amount - 1 \/ adv.paid = 0
            /\ adv.status = "SETTLED" => adv.paid >= adv.amount - 1

(* An advance is credited no more than the posted runs withheld from its   *)
(* worker, but for half a piaster per advance that rounding the rest may   *)
(* add each time (postRun, the loop over the advances).                    *)
WithheldFrom(w) ==
    SumOf([m \in PayMonths |-> runs[m].withheld[w]], {m \in PayMonths : runs[m].status = "POSTED"})
CreditedTo(w) ==
    SumOf([a \in AdvanceIds |-> advances[a].byPayroll],
          {a \in AdvanceIds : advances[a].worker = w})

CreditedAtMostWithheld ==
    \A w \in Workers :
        CreditedTo(w) <= WithheldFrom(w) + 5 * MaxAdvances * Cardinality(PayMonths)

(* Rounding the parts of a line and the net apart leaves a line out of     *)
(* balance by a piaster at most; a run with an unbalanced total can be     *)
(* approved but never posted, generated again or deleted (generateRun).    *)
LinesAlmostBalance ==
    \A m \in PayMonths, w \in Workers :
        LET r == runs[m]
        IN  r.base[w] + r.bonus[w] - r.deduction[w] - r.withheld[w] - r.net[w] \in {-10, 0, 10}

(* The advances agree with themselves and with the posted runs, and the     *)
(* runs with themselves.                                                    *)
PayrollReconciles == AdvancesAddUp /\ CreditedAtMostWithheld /\ LinesAlmostBalance
=============================================================================
