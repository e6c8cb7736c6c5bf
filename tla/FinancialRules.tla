--------------------------- MODULE FinancialRules ----------------------------
(***************************************************************************)
(* The rules of the financial regulation (server/data/financial-rules.ts)  *)
(* and their evaluation (server/services/financial.service.ts). A form is  *)
(* a function from the fields that were entered to their values; a rule is *)
(* a record of the actions it applies to, the conditions under which it    *)
(* applies (when) and the conditions it demands.                           *)
(*                                                                         *)
(* A condition passes, fails, or stays undetermined while its field, or    *)
(* the limit it is compared with, is missing. The texts, articles and      *)
(* remedies of the rules are left out.                                     *)
(***************************************************************************)
EXTENDS Naturals, FiniteSets, TLC

(* The thresholds the rules refer to; amounts in pounds or dollars. *)
Limit ==
    [advance_payment_ratio |-> 25, auction_assets_deposit_ratio |-> 30,
     auction_assets_settlement_days |-> 15, bid_bond_contracting_ratio |-> 1,
     bid_bond_other_ratio |-> 2, burden_allowance_monthly |-> 5000,
     cash_float_branch |-> 20000, cash_float_hq |-> 50000, cash_payment_branch |-> 10000,
     cash_payment_hq |-> 20000, closing_accounts_months |-> 6,
     collection_first_half_days |-> 15, committee_min_members |-> 5,
     continuous_transfer_allowance_monthly |-> 3000, contractor_fix_days |-> 15,
     delegation_gifts_cap |-> 5000, deposit_next_day |-> 1, direct_order_branch_max |-> 20000,
     direct_order_hq_max |-> 50000, distribution_committee_percent |-> 60,
     distribution_federation_percent |-> 10, distribution_general_percent |-> 30,
     intl_per_diem_arab |-> 200, intl_per_diem_asia |-> 250, intl_per_diem_australia |-> 275,
     intl_per_diem_guest_lodging_ratio |-> 10, intl_per_diem_japan |-> 300,
     judicial_seizure_after_notice_days |-> 30, lease_final_deposit_ratio |-> 10,
     limited_tender_branch_max |-> 250000, limited_tender_hq_max |-> 500000,
     monthly_inventory_days |-> 30, outstanding_receipt_days |-> 30,
     practice_branch_max |-> 100000, practice_hq_max |-> 200000,
     realestate_award_payment_ratio |-> 10, realestate_settlement_months |-> 3,
     secondment_reward_ratio |-> 30, travel_allowance_max_increase_ratio |-> 100,
     travel_allowance_min_branch |-> 100, travel_allowance_min_hq |-> 2000,
     travel_allowance_self_lodging_discount_ratio |-> 25, warehouse_inventory_days |-> 90]

RevenueSources ==
    {"JOIN_FEE", "MONTHLY_SUBSCRIPTION", "DONATIONS_AND_GRANTS", "ACTIVITY_REVENUE",
     "INVESTMENT_RETURN", "SUPPORT_AND_AID", "OTHER_APPROVED_SOURCE"}

(* The purchase methods of each level, each up to its amount. *)
LadderMethods == <<"DIRECT_ORDER", "PRACTICE", "LIMITED_TENDER", "PUBLIC_TENDER">>
Ladder ==
    [BRANCH  |-> <<Limit.direct_order_branch_max, Limit.practice_branch_max,
                   Limit.limited_tender_branch_max>>,
     GENERAL |-> <<Limit.direct_order_hq_max, Limit.practice_hq_max,
                   Limit.limited_tender_hq_max>>]

-----------------------------------------------------------------------------
(* Conditions. "by" names the field that chooses the limit, if one does;   *)
(* "limits" gives the limit of each of its values.                         *)

Condition(op, field) ==
    [op |-> op, field |-> field, by |-> "", limits |-> "" :> 0, words |-> {}, other |-> ""]

AtMost(field, n)  == [Condition("MAX", field) EXCEPT !.limits = "" :> n]
AtLeast(field, n) == [Condition("MIN", field) EXCEPT !.limits = "" :> n]
AtMostBy(field, by, limits)  == [Condition("MAX", field) EXCEPT !.by = by, !.limits = limits]
AtLeastBy(field, by, limits) == [Condition("MIN", field) EXCEPT !.by = by, !.limits = limits]
ByLevel(hq, branch) == [GENERAL |-> hq, BRANCH |-> branch]
AtMostByLevel(field, hq, branch)  == AtMostBy(field, "entityLevel", ByLevel(hq, branch))
AtLeastByLevel(field, hq, branch) == AtLeastBy(field, "entityLevel", ByLevel(hq, branch))
Needs(fields) == {Condition("REQ_TRUE", f) : f \in fields}
Not(field)    == Condition("REQ_FALSE", field)
Either(field, other)  == [Condition("REQ_TRUE_OR", field) EXCEPT !.other = other]
NeededAbove(field, n) == [Condition("REQ_TRUE_IF_EXCEEDED", field) EXCEPT
                              !.other = "amount", !.limits = "" :> n]
OneOf(field, words)   == [Condition("EQ_ANY", field) EXCEPT !.words = words]
Filled(field)         == Condition("NOT_EMPTY", field)
OnLadder(field)       == [Condition("LADDER_METHOD", field) EXCEPT !.other = "amount"]
Shares(limits)        == [Condition("SHARE_RATIOS", "distributionShares") EXCEPT
                              !.limits = limits]

-----------------------------------------------------------------------------
(* The state of a condition: evaluateFinancialCondition.                   *)

Has(form, field) == field \in DOMAIN form
Decide(ok) == IF ok THEN "PASS" ELSE "FAIL"

(* A bid of another type, and a country of no region, have the limit OTHER. *)
LimitKey(c, form) ==
    CASE c.by = "" -> ""
      [] c.by # "" /\ Has(form, c.by) -> form[c.by]
      [] c.by \in {"region", "bidType"} /\ ~Has(form, c.by) -> "OTHER"
      [] c.by = "entityLevel" /\ ~Has(form, c.by) -> "NONE"

Compared(c, form) ==
    LET key == LimitKey(c, form)
    IN  IF ~Has(form, c.field) \/ key \notin DOMAIN c.limits THEN "UNDETERMINED"
        ELSE IF c.op = "MAX" THEN Decide(form[c.field] <= c.limits[key])
        ELSE Decide(form[c.field] >= c.limits[key])

(* Slip: the ladder of the union for every level. *)
RequiredMethodOfUnion(amount, form) ==
    LET below == {i \in 1..3 : amount <= Ladder["GENERAL"][i]}
    IN  LadderMethods[IF below = {} THEN 4 ELSE CHOOSE i \in below : \A j \in below : i <= j]
(* The first method whose limit holds the amount, of the level or, for a   *)
(* level without a ladder and without a level, of the union.               *)
RequiredMethod(amount, form) ==
    LET level == IF Has(form, "entityLevel") /\ form.entityLevel \in DOMAIN Ladder
                 THEN form.entityLevel ELSE "GENERAL"
        below == {i \in 1..3 : amount <= Ladder[level][i]}
    IN  LadderMethods[IF below = {} THEN 4 ELSE CHOOSE i \in below : \A j \in below : i <= j]

MethodChosen(c, form) ==
    IF ~Has(form, c.field) \/ ~Has(form, c.other) THEN "UNDETERMINED"
    ELSE IF Has(form, "isGovernmentEntity") /\ form.isGovernmentEntity THEN "PASS"
    ELSE Decide(form[c.field] = RequiredMethod(form[c.other], form))

(* Slip: the other answer is not awaited. *)
EitherGivenEarly(c, form) ==
    IF \E f \in {c.field, c.other} : Has(form, f) /\ form[f] THEN "PASS"
    ELSE IF Has(form, c.field) \/ Has(form, c.other) THEN "FAIL" ELSE "UNDETERMINED"
EitherGiven(c, form) ==
    IF \E f \in {c.field, c.other} : Has(form, f) /\ form[f] THEN "PASS"
    ELSE IF Has(form, c.field) /\ Has(form, c.other) THEN "FAIL" ELSE "UNDETERMINED"

GivenIfExceeded(c, form) ==
    IF ~Has(form, c.other) THEN "UNDETERMINED"
    ELSE IF form[c.other] <= c.limits[""] THEN "PASS"
    ELSE IF Has(form, c.field) THEN Decide(form[c.field]) ELSE "UNDETERMINED"

(* The federation has its share only if there is one. A wrong share fails  *)
(* although others are missing.                                            *)
SharesMatch(c, form) ==
    LET Known(f) == Has(form, f) /\ (f = "federationSharePercent" => Has(form, "hasFederation"))
        Due(f)   == IF f = "federationSharePercent" /\ ~form.hasFederation
                    THEN 0 ELSE c.limits[f]
        fields   == DOMAIN c.limits
    IN  IF \E f \in fields : Known(f) /\ form[f] # Due(f) THEN "FAIL"
        ELSE IF \A f \in fields : Known(f) THEN "PASS" ELSE "UNDETERMINED"

State(c, form) ==
    CASE c.op \in {"MAX", "MIN"} -> Compared(c, form)
      [] c.op = "REQ_TRUE_OR" -> EitherGiven(c, form)
      [] c.op = "REQ_TRUE_IF_EXCEEDED" -> GivenIfExceeded(c, form)
      [] c.op = "LADDER_METHOD" -> MethodChosen(c, form)
      [] c.op = "SHARE_RATIOS" -> SharesMatch(c, form)
      [] c.op \in {"REQ_TRUE", "REQ_FALSE", "EQ_ANY", "NOT_EMPTY"} ->
             IF ~Has(form, c.field) THEN "UNDETERMINED"
             ELSE CASE c.op = "REQ_TRUE"  -> Decide(form[c.field])
                    [] c.op = "REQ_FALSE" -> Decide(~form[c.field])
                    [] c.op = "EQ_ANY"    -> Decide(form[c.field] \in c.words)
                    [] c.op = "NOT_EMPTY" -> "PASS"

-----------------------------------------------------------------------------
(* Rules: a gate blocks, a warning warns, an audit rule informs.           *)

Rule(id, severity, actions, when, demands) ==
    [id |-> id, severity |-> severity, actions |-> actions, when |-> when, demands |-> demands]
Gate(id, actions, demands)    == Rule(id, "BLOCKED", actions, {}, demands)
GateWhen(id, actions, when, demands) == Rule(id, "BLOCKED", actions, when, demands)
Warning(id, actions, demands) == Rule(id, "WARNED", actions, {}, demands)
Audit(id, actions, demands)   == Rule(id, "INFO", actions, {}, demands)

(* Revenue, subscriptions, seizures. *)
RevenueRules ==
   {Audit("FR-REF-001", {"REVENUE_ENTRY"}, Needs({"hasSupportingDocuments"})),
    Gate("FR-GATE-001", {"REVENUE_ENTRY"}, {OneOf("revenueSource", RevenueSources)}),
    Gate("FR-GATE-002", {"SUBSCRIPTION_REMIT"},
        {AtMost("daysSinceDue", Limit.collection_first_half_days)}
        \cup Needs({"hasEmployeeWrittenRequest"})),
    Gate("FR-GATE-003", {"SUBSCRIPTION_NOTICE"}, Needs({"hasSupportingDocuments"})),
    Gate("FR-GATE-004", {"JUDICIAL_SEIZURE"},
        {AtLeast("daysSinceNotice", Limit.judicial_seizure_after_notice_days)})}

(* Distribution, deposits, cash floats. *)
DistributionRules ==
   {Gate("FR-GATE-052", {"REVENUE_DISTRIBUTION"},
        {Shares([generalSharePercent |-> Limit.distribution_general_percent,
            federationSharePercent |-> Limit.distribution_federation_percent,
            committeeSharePercent |-> Limit.distribution_committee_percent])}),
    Gate("FR-GATE-005", {"BANK_DEPOSIT"}, {Filled("bankName")}
        \cup Needs({"isSafeInvestment"})),
    Gate("FR-GATE-006", {"CASH_FLOAT"},
        {AtMostByLevel("amount", Limit.cash_float_hq, Limit.cash_float_branch),
        NeededAbove("hasPresidentApproval", Limit.cash_float_hq)}),
    Gate("FR-GATE-007", {"LOAN_SYSTEM"}, Needs({"hasLoansSystem", "hasGrantsSystem"})),
    Warning("FR-WARN-001", {"BANK_DEPOSIT", "EXPENSE_APPROVAL"},
        {OneOf("paymentMethod", {"CHEQUE", "TRANSFER"})})}

(* Cheques, cash, invoices, donations. *)
PaymentRules ==
   {Warning("FR-WARN-002", {"CHEQUE_HANDLING"}, {AtMost("daysSinceRequest", 1)}),
    Gate("FR-GATE-008", {"CASH_PAYMENT"},
        {AtMostByLevel("amount", Limit.cash_payment_hq, Limit.cash_payment_branch)}
        \cup Needs({"hasDisbursementOrder"})),
    Gate("FR-GATE-009", {"SUPPLIER_INVOICE"}, {Either("hasSupplyOrder", "hasReceiptMinutes")}
        \cup Needs({"hasOriginalInvoice", "hasDisbursementOrder", "hasStampedPaid"})),
    Gate("FR-GATE-010", {"DONATION_SUPPORT"},
        Needs({"hasGrantsSystem", "hasCommitteeDecision"})),
    Warning("FR-WARN-003", {"MISSION_PAYMENT"},
        Needs({"hasPresidentApproval", "hasMissionAssignment"}))}

(* Deposits, custody, counts, debts. *)
CustodyRules ==
   {Gate("FR-GATE-011", {"CHEQUE_HANDLING"},
        {AtMost("daysSinceRequest", Limit.deposit_next_day)}
        \cup Needs({"hasSupportingDocuments"})),
    Warning("FR-WARN-004", {"INSURANCE"}, Needs({"hasInsurance"})),
    Audit("FR-AUD-001", {"CUSTODY"}, Needs({"hasCustodyAcknowledgment"})),
    GateWhen("FR-GATE-012", {"INVENTORY_COUNT"}, {OneOf("inventoryKind", {"CASH"})},
        {AtMost("daysSinceLastCount", Limit.monthly_inventory_days)}
        \cup Needs({"hasVarianceNotice"})),
    Gate("FR-GATE-013", {"DEBT_WRITE_OFF"},
        Needs({"hasLegalStepsExhausted", "hasBoardDecision", "presentedToAssembly"}))}

(* Open receipts, investments, books. *)
BooksRules ==
   {Warning("FR-WARN-005", {"RECEIPT_OUTSTANDING"},
        {AtMost("outstandingReceiptDays", Limit.outstanding_receipt_days)}),
    Gate("FR-GATE-014", {"INVESTMENT"}, Needs({"isSafeInvestment", "hasBoardDecision"})),
    Audit("FR-AUD-002", {"ACCOUNTING_RESPONSIBILITY"}, Needs({"hasSupportingDocuments"})),
    Audit("FR-AUD-003", {"BOOKS_RECORDS"}, Needs({"hasRequiredBooks"})),
    Audit("FR-AUD-004", {"SEQUENCE_BOOKS"},
        Needs({"hasSequenceRegister", "hasReceiverSignature"}))}

(* Retention, assets, budgets, accruals. *)
BudgetRules ==
   {Audit("FR-AUD-005", {"RECORDS_RETENTION"}, Needs({"hasSupportingDocuments"})),
    Audit("FR-AUD-006", {"ASSET_REGISTER"}, Needs({"hasAssetRegister"})),
    Gate("FR-GATE-015", {"BUDGET_APPROVAL"}, {AtLeast("daysBeforeYearEnd", 1)}
        \cup Needs({"hasBoardDecision", "presentedToAssembly"})),
    Audit("FR-AUD-007", {"BUDGET_OVERRUN"},
        Needs({"hasBoardDecision", "isPartOfApprovedBudget"})),
    Gate("FR-GATE-016", {"YEAR_END_ACCRUAL"},
        Needs({"hasUnpaidAccrualsTransferred", "hasSupportingDocuments"}))}

(* Fiscal year, closing, auditors. *)
ClosingRules ==
   {Gate("FR-GATE-017", {"FISCAL_YEAR"}, {Filled("entityLevel")}
        \cup Needs({"hasSupportingDocuments"})),
    Gate("FR-GATE-018", {"ANNUAL_CLOSING"},
        {AtMost("monthsSinceYearEnd", Limit.closing_accounts_months)}
        \cup Needs({"hasMonthlyRevenueReport", "hasCertifiedFinalAccounts"})),
    Warning("FR-WARN-006", {"BALANCE_CERTIFICATION"}, Needs({"hasAuthorityCertificates"})),
    Audit("FR-AUD-008", {"AUDITOR_APPOINTMENT"}, Needs({"hasBoardDecision"})),
    Audit("FR-AUD-009", {"SELF_MONITORING_COMMITTEE"}, {AtLeast("auditCommitteeMembers", 3)}
        \cup Needs({"hasElectedSelfCommittee"}))}

(* Oversight and travel. *)
OversightRules ==
   {Audit("FR-AUD-010", {"OVERSIGHT_SYSTEM"}, Needs({"hasOversightSystem"})),
    Audit("FR-AUD-011", {"SELF_MONITORING_COMMITTEE"}, Needs({"hasSelfCommitteeExclusive"})),
    Audit("FR-REF-002", {"TRAVEL_EXPENSE"}, Needs({"hasMissionAssignment"})),
    Gate("FR-GATE-019", {"TRAVEL_EXPENSE"},
        Needs({"hasMissionAssignment", "hasSupportingDocuments"})),
    Gate("FR-GATE-020", {"TRAVEL_ALLOWANCE"},
        {AtLeastByLevel("amount", Limit.travel_allowance_min_hq,
            Limit.travel_allowance_min_branch),
        AtMost("increasePercent", Limit.travel_allowance_max_increase_ratio)})}

(* Allowances. *)
AllowanceRules ==
   {Gate("FR-GATE-021", {"TRAVEL_ALLOWANCE"},
        {AtLeast("discountPercent", Limit.travel_allowance_self_lodging_discount_ratio)}),
    Warning("FR-WARN-007", {"MISSION_SETTLEMENT"}, Needs({"hasMissionReport"})),
    Gate("FR-GATE-022", {"TRAVEL_ALLOWANCE"},
        {AtMost("amount", Limit.continuous_transfer_allowance_monthly),
        Not("hasConflictingBenefits")} \cup Needs({"hasBoardDecision"})),
    Gate("FR-GATE-023", {"EXPENSE_APPROVAL"}, {AtMost("amount", Limit.burden_allowance_monthly)}
        \cup Needs({"hasBoardDecision"})),
    Audit("FR-AUD-012", {"MOBILE_LINES"},
        {OneOf("beneficiaryRole", {"PRESIDENT", "SECRETARY_GENERAL", "TREASURER"})})}

(* Meals, rewards, vehicles. *)
ExpenseRules ==
   {Audit("FR-AUD-013", {"MEALS"}, Needs({"hasTreasurerMemo", "hasPresidentApproval"})),
    Audit("FR-AUD-014", {"PETTY_EXPENSE"}, Needs({"hasTreasurerMemo", "hasPresidentApproval"})),
    Gate("FR-GATE-024", {"SECONDMENT_REWARD"},
        {AtMost("ratioPercent", Limit.secondment_reward_ratio)}
        \cup Needs({"hasBoardDecision"})),
    Audit("FR-AUD-015", {"VEHICLES"}, Needs({"hasSupportingDocuments"})),
    Audit("FR-REF-003", {"INTL_MISSION"}, Needs({"hasSupportingDocuments"}))}

(* Missions abroad. *)
MissionRules ==
   {Gate("FR-GATE-025", {"INTL_MISSION"},
        Needs({"hasMissionAssignment", "hasSupportingDocuments"})),
    Gate("FR-GATE-026", {"INTL_PER_DIEM"},
        {AtMostBy("amount", "region", [ARAB |-> Limit.intl_per_diem_arab,
            ASIA |-> Limit.intl_per_diem_asia, JAPAN |-> Limit.intl_per_diem_japan,
            AUSTRALIA |-> Limit.intl_per_diem_australia]
            @@ "OTHER" :> Limit.intl_per_diem_asia),
        AtMost("ratioPercent", Limit.intl_per_diem_guest_lodging_ratio)}),
    Audit("FR-AUD-016", {"PASSPORT_VISA"}, Needs({"hasSupportingDocuments"})),
    Gate("FR-GATE-027", {"DELEGATION_GIFTS"}, {AtMost("amount", Limit.delegation_gifts_cap)}
        \cup Needs({"hasPresidentApproval"})),
    Audit("FR-AUD-017", {"FOREIGN_DELEGATION"}, Needs({"hasDelegationMemo"}))}

(* Delegations and donations. *)
DelegationRules ==
   {Audit("FR-AUD-018", {"FOREIGN_DELEGATION"}, Needs({"hasReviewedInvoices"})),
    Audit("FR-AUD-019", {"FOREIGN_DELEGATION"}, Needs({"hasPresidentApproval"})),
    Gate("FR-GATE-028", {"FOREIGN_DELEGATION"},
        Needs({"followsAdvanceRules", "hasCommitteeDecision"})),
    Warning("FR-WARN-008", {"DONATION_SUPPORT"}, Needs({"hasBoardDecision"})),
    Audit("FR-AUD-020", {"ACTIVITY_PROGRAM"}, Needs({"hasActivityProgram"}))}

(* Procurement. *)
ProcurementRules ==
   {Audit("FR-AUD-021", {"PROCUREMENT"}, Needs({"hasSupportingDocuments"})),
    Audit("FR-AUD-022", {"PROCUREMENT"}, Needs({"hasSpecifications"})),
    Gate("FR-GATE-029", {"RELATED_PARTY_CONTRACT"}, {Not("isRelatedParty")}
        \cup Needs({"isRelationDeclared"})),
    Gate("FR-GATE-030", {"PROCUREMENT_COMMITTEE"}, {AtLeast("committeeMembers", 5)}
        \cup Needs({"hasCommitteeDecision"})),
    Gate("FR-GATE-031", {"PROCUREMENT", "TENDER_SPECS"}, {OnLadder("procurementMethod")}
        \cup Needs({"hasSpecifications"}))}

(* Tenders and their committees. *)
TenderRules ==
   {Gate("FR-GATE-032", {"TENDER_NOTICE", "BID_BOND"}, {AtMost("noticeCount", 1),
        AtLeastBy("ratioPercent", "bidType",
            [CONTRACTING |-> Limit.bid_bond_contracting_ratio]
            @@ "OTHER" :> Limit.bid_bond_other_ratio)}
        \cup Needs({"hasNoticePublished", "hasBidBond"})),
    Gate("FR-GATE-033", {"BID_OPENING_COMMITTEE"},
        {AtLeast("committeeMembers", Limit.committee_min_members)}
        \cup Needs({"hasLegalMember", "hasFinancialMember"})),
    Gate("FR-GATE-034", {"BID_EVALUATION_COMMITTEE"},
        {AtLeast("committeeMembers", Limit.committee_min_members)}
        \cup Needs({"hasTechnicalMember", "hasCommitteeMinutes", "hasCommitteeReport"})),
    Gate("FR-GATE-035", {"BID_SELECTION"},
        Needs({"isLowestCompliantBid", "isPricedAfterNormalization", "hasRejectionReasons"}))}

(* Limited tenders, practices, contracts. *)
PurchaseRules ==
   {Gate("FR-GATE-036", {"LIMITED_TENDER"},
        {AtMostByLevel("amount", Limit.limited_tender_hq_max, Limit.limited_tender_branch_max)}
        \cup Needs({"hasBoardDecision"})),
    Gate("FR-GATE-037", {"TENDER_CANCELLATION"},
        Needs({"hasBoardDecision", "hasCancellationReasons"})),
    Audit("FR-AUD-023", {"PRACTICE_PURCHASE"},
        Needs({"hasSupportingDocuments", "hasSpecifications"})),
    Gate("FR-GATE-038", {"PRACTICE_PURCHASE"}, {AtLeast("committeeMembers", 3)}
        \cup Needs({"hasCommitteeDecision"})),
    Gate("FR-GATE-039", {"CONTRACT_DRAFT"},
        Needs({"hasWrittenContract", "hasPenaltyClause", "hasDisputeClause",
            "hasReceiptMinutes"}))}

(* Contractors and taxes. *)
ContractorRules ==
   {Gate("FR-GATE-040", {"ADVANCE_PAYMENT"},
        {AtMost("ratioPercent", Limit.advance_payment_ratio)}
        \cup Needs({"hasBankGuarantee", "hasStatementOfAccount", "hasTechnicalReview"})),
    Gate("FR-GATE-041", {"CONTRACTOR_CLEARANCES"},
        Needs({"hasSocialInsuranceCertificate", "hasTaxClearance"})),
    Gate("FR-GATE-053", {"CONTRACTOR_CLEARANCES"},
        Needs({"hasSocialInsuranceCertificate", "hasLaborDirectorateCertificate",
            "hasStatementOfAccount"})),
    Warning("FR-WARN-009", {"CONTRACTOR_BREACH"},
        {AtLeast("daysSinceBreachNotice", Limit.contractor_fix_days)}),
    Gate("FR-GATE-042", {"TAX_DEDUCTION"}, Needs({"hasTaxDeduction", "hasTaxClause"}))}

(* Auctions. *)
AuctionRules ==
   {Gate("FR-GATE-043", {"AUCTION_SALE"}, {Filled("paymentMethod")}
        \cup Needs({"isSameNoticeSingleTime", "hasNoticePublished"})),
    GateWhen("FR-GATE-044", {"AUCTION_DEPOSIT"}, {OneOf("assetType", {"MOVABLE"})},
        {AtLeast("paidPercent", Limit.auction_assets_deposit_ratio),
        AtMost("delayDays", Limit.auction_assets_settlement_days)}),
    GateWhen("FR-GATE-045", {"AUCTION_DEPOSIT"}, {OneOf("assetType", {"REAL_ESTATE"})},
        {AtLeast("paidPercent", Limit.realestate_award_payment_ratio),
        AtMost("monthsToSettleRest", Limit.realestate_settlement_months)}),
    GateWhen("FR-GATE-046", {"AUCTION_DEPOSIT"}, {OneOf("assetType", {"LEASE"})},
        {AtLeast("paidPercent", Limit.lease_final_deposit_ratio)}),
    Gate("FR-GATE-047", {"AUCTION_SALE"},
        {AtLeast("committeeMembers", Limit.committee_min_members)}
        \cup Needs({"hasLegalMember", "hasFinancialMember", "hasCommitteeMinutes"}))}

(* Sale, cancellation, warehouses. *)
SaleRules ==
   {Gate("FR-GATE-048", {"AUCTION_SALE"},
        Needs({"hasValuationCommittee", "isBaseValueConfidential"})),
    Gate("FR-GATE-049", {"AUCTION_SALE"},
        Needs({"priceAboveBaseValue", "isLowestCompliantBid"})),
    Gate("FR-GATE-050", {"TENDER_CANCELLATION"},
        Needs({"hasCancellationReasons", "hasBoardDecision"})),
    Audit("FR-AUD-024", {"WAREHOUSE"}, Needs({"hasWarehouseCustody", "hasBinCards"})),
    GateWhen("FR-GATE-051", {"INVENTORY_COUNT"}, {OneOf("inventoryKind", {"WAREHOUSE"})},
        {AtMost("daysSinceLastCount", Limit.warehouse_inventory_days)}
        \cup Needs({"hasCommitteeDecision"}))}

(* Public funds. *)
PublicFundRules ==
   {Audit("FR-REF-004", {"PUBLIC_FUNDS"}, Needs({"hasSupportingDocuments"}))}

FinancialRules ==
    UNION {RevenueRules, DistributionRules, PaymentRules, CustodyRules, BooksRules,
           BudgetRules, ClosingRules, OversightRules, AllowanceRules, ExpenseRules,
           MissionRules, DelegationRules, ProcurementRules, TenderRules, PurchaseRules,
           ContractorRules, AuctionRules, SaleRules, PublicFundRules}
FinancialActions == UNION {r.actions : r \in FinancialRules}

-----------------------------------------------------------------------------
(* The check of an action: checkFinancialAction.                           *)

RulesOf == [a \in FinancialActions |-> {r \in FinancialRules : a \in r.actions}]
Applies(r, form) == \A c \in r.when : State(c, form) = "PASS"
Fails(r, form)   == \E c \in r.demands : State(c, form) = "FAIL"
Open(r, form)    == ~Fails(r, form) /\ \E c \in r.demands : State(c, form) = "UNDETERMINED"

(* A rule that fails is a violation of its severity, one that is not an    *)
(* audit rule and stays open is reported for information.                  *)
FinancialViolations(action, form) ==
    LET rules == IF action \in FinancialActions
                 THEN {r \in RulesOf[action] : Applies(r, form)} ELSE {}
    IN       {[rule |-> r.id, severity |-> r.severity] : r \in {s \in rules : Fails(s, form)}}
        \cup {[rule |-> r.id, severity |-> "INFO"] :
                  r \in {s \in rules : Open(s, form) /\ s.severity # "INFO"}}
=============================================================================
