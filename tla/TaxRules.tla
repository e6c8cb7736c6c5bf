------------------------------- MODULE TaxRules -------------------------------
(***************************************************************************)
(* The taxes the program computes (TaxService, tax-egypt): the tax on pay  *)
(* and on profits, and the deduction from payments to suppliers; and a     *)
(* payslip whose monthly pay changes, which the calculations are asked for.*)
(*                                                                         *)
(* Amounts are in piasters, rates in thousandths. The code computes in     *)
(* binary fractions; a product that is half a piaster in the decimals is   *)
(* taken to be rounded up.                                                 *)
(***************************************************************************)
EXTENDS Integers, Sequences, FiniteSetsExt

CONSTANTS
    Pays,        \* monthly pays a payslip may show
    Insurances,  \* monthly insurance of the worker
    Payments     \* amounts paid to suppliers

ASSUME TaxAssumption ==
    /\ Pays \subseteq Nat /\ Insurances \subseteq Nat /\ Payments \subseteq Nat

VARIABLES pay, insurance   \* of the month, in piasters

taxVars == <<pay, insurance>>

-----------------------------------------------------------------------------
(* Parameters of the law *)

Pounds(n) == 100 * n

(* PAYROLL_TAX_BRACKETS: the lower ends and the rates; the last is open. *)
BracketFrom == <<0, Pounds(40000), Pounds(55000), Pounds(70000), Pounds(200000),
                 Pounds(400000), Pounds(1200000)>>
BracketRate == <<0, 100, 150, 200, 225, 250, 275>>
Brackets    == DOMAIN BracketFrom

PersonalExemption == Pounds(20000)
CorporateTaxRate  == 225

Kinds == {"SUPPLIES", "CONTRACTING", "SERVICES", "PROFESSIONAL", "COMMISSION"}
WithholdingRate(k) == CASE k \in {"SUPPLIES", "CONTRACTING"}  -> 10
                        [] k = "SERVICES"                      -> 30
                        [] k \in {"PROFESSIONAL", "COMMISSION"} -> 50
MinInvoice(k) == IF k = "PROFESSIONAL" THEN Pounds(100) ELSE Pounds(300)

-----------------------------------------------------------------------------
(* Calculations *)

Rounded(n, d)    == (2 * n + d) \div (2 * d)     \* n/d, half a piaster up
Share(n, rate)   == (n \div 1000) * rate + Rounded((n % 1000) * rate, 1000)   \* n*rate/1000
AtLeastZero(n)   == IF n > 0 THEN n ELSE 0
Smaller(m, n)    == IF m < n THEN m ELSE n

(* Slip: a bracket takes its whole width from what is left once it is full, *)
(* counted from its upper end.                                              *)
PartOfTop(k, left) ==
    IF k = Len(BracketFrom) THEN left ELSE Smaller(left, BracketFrom[k + 1])

(* What bracket k takes of what the brackets before it have left. *)
PartOf(k, left) ==
    IF k = Len(BracketFrom) THEN left ELSE Smaller(left, BracketFrom[k + 1] - BracketFrom[k])

(* distributeOnBrackets: the loop that takes the parts one after another. *)
Distribution(base) ==
    LET left[k \in Brackets] == IF k = 1 THEN base ELSE left[k - 1] - PartOf(k - 1, left[k - 1])
    IN  [k \in Brackets |-> PartOf(k, left[k])]

SumBracketTax(parts) == MapThenSumSet(LAMBDA k : Share(parts[k], BracketRate[k]), Brackets)

IncomeTax(base) == SumBracketTax(Distribution(base))

TaxableBase(gross, insured, other) == AtLeastZero(gross - insured - (PersonalExemption + other))

PayrollTax(gross, insured, other) == IncomeTax(TaxableBase(gross, insured, other))

BusinessTax(profit, corporate, exempted) ==
    IF corporate THEN Share(AtLeastZero(profit), CorporateTaxRate)
    ELSE IncomeTax(AtLeastZero(profit - IF exempted THEN PersonalExemption ELSE 0))

(* The whole amount is deducted from, once it exceeds the least invoice. *)
Withheld(k, amount) == IF amount > MinInvoice(k) THEN Share(amount, WithholdingRate(k)) ELSE 0

-----------------------------------------------------------------------------
(* The payslip *)

TaxInit == pay \in Pays /\ insurance \in Insurances

ChangePay == \E p \in Pays : pay' = p /\ UNCHANGED insurance

ChangeInsurance == \E i \in Insurances : insurance' = i /\ UNCHANGED pay

TaxNext == ChangePay \/ ChangeInsurance

TaxSpec == TaxInit /\ [][TaxNext]_taxVars

-----------------------------------------------------------------------------
(* Properties *)

AnnualNet(monthly) == 12 * monthly - 12 * insurance - PayrollTax(12 * monthly, 12 * insurance, 0)

(* The parts make up the base, and the tax is what each piaster owes at the *)
(* rate of the bracket it lies in, up to half a piaster per bracket.        *)
InBracket(k, base) ==
    AtLeastZero((IF k = Len(BracketFrom) THEN base ELSE Smaller(base, BracketFrom[k + 1])) - BracketFrom[k])

BracketsAgree ==
    LET base  == TaxableBase(12 * pay, 12 * insurance, 0)
        whole == MapThenSumSet(LAMBDA k : (InBracket(k, base) \div 1000) * BracketRate[k], Brackets)
        rest  == MapThenSumSet(LAMBDA k : (InBracket(k, base) % 1000) * BracketRate[k], Brackets)
    IN  /\ MapThenSumSet(LAMBDA k : Distribution(base)[k], Brackets) = base
        /\ 2 * (1000 * (IncomeTax(base) - whole) - rest) \in -1000 * Len(BracketFrom)..1000 * Len(BracketFrom)

(* A rise never lowers what is left of the pay or of a profit, and twelve   *)
(* monthly deductions miss the tax of the year by six piasters at most.     *)
RisesPay ==
    /\ \A p \in Pays : p >= pay => AnnualNet(p) >= AnnualNet(pay)
    /\ \A p \in Pays, corporate, exempted \in BOOLEAN : p >= pay =>
         p - BusinessTax(p, corporate, exempted) >= pay - BusinessTax(pay, corporate, exempted)
    /\ LET tax == PayrollTax(12 * pay, 12 * insurance, 0)
       IN  12 * Rounded(tax, 12) - tax \in -6..6

(* The deduction has a step: a supplier may be paid less for more, but only *)
(* across the least invoice, and never by more than what that owes.         *)
StepsAreBounded ==
    \A k \in Kinds, m, n \in Payments : m <= n =>
        LET loss == (m - Withheld(k, m)) - (n - Withheld(k, n))
        IN  loss > 0 => /\ m <= MinInvoice(k) /\ n > MinInvoice(k)
                        /\ loss <= Share(n, WithholdingRate(k))

TaxesAgree == BracketsAgree /\ RisesPay /\ StepsAreBounded
=============================================================================
