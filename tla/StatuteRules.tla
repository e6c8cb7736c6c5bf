---------------------------- MODULE StatuteRules -----------------------------
(***************************************************************************)
(* The activated rules of the statute (server/data/statute-articles.ts)    *)
(* and the neutral values that complete a partial form before they are     *)
(* evaluated (features/statute/statutePayloadDefaults.ts). A rule is the   *)
(* set of violations a completed form p makes of it: one or none.          *)
(*                                                                         *)
(* Percentages are in hundredths of a percent; of the effective date only  *)
(* the month is kept, and of the list of missing items its length.         *)
(***************************************************************************)
EXTENDS Naturals, TLC

(* The bounds the rules refer to. *)
Bound ==
    [assemblyNoticeDays |-> 10, assemblyQuorumPercent |-> 5000,
     assemblyFallbackQuorumPercent |-> 3300, assemblyPostponeMaxDays |-> 30,
     extraordinaryAssemblyCallDays |-> 15, extraordinaryRequestBoardPercent |-> 6667,
     extraordinaryRequestAssemblyPercent |-> 3333, withdrawalNoticeDays |-> 30,
     withdrawalReplyDays |-> 30, membershipDecisionNoticeDays |-> 30,
     membershipAppealDays |-> 30, memberDisciplineNoticeDays |-> 30,
     memberDisciplineAppealDays |-> 30, boardMinMembers |-> 11, boardMaxMembers |-> 21,
     representativesMaxCount |-> 20, boardMeetingIntervalDays |-> 30,
     boardExtraordinaryRequestPercent |-> 3333, boardQuorumPercent |-> 5000,
     boardDecisionMajorityPercent |-> 5000, boardAbsenceResignationCount |-> 3,
     boardSanctionMajorityPercent |-> 6667, assemblyDismissalBoardMajorityPercent |-> 6667,
     boardTermYears |-> 4, boardElectionWindowDays |-> 60, candidacyDuesMonths |-> 12,
     campaignMaxDays |-> 7, budgetApprovalDeadlineMonth |-> 10,
     fiscalYearSpanMonths |-> 12, strikeApprovalPercent |-> 6667,
     strikeFundMinSubscriptionEGP |-> 3, dissolutionMajorityPercent |-> 6667,
     penaltyDeprivationMaxMonths |-> 3]

AllowedPenalties == {"WARNING", "BLAME", "BENEFIT_DEPRIVATION", "ACTIVITY_SUSPENSION"}

(* The neutral values. The effective date defaults to the day the process  *)
(* was started: month is the month of that day.                            *)
TrueByDefault ==
    {"acknowledgesUnionRegulations", "agendaAttached", "assemblyApproved",
     "assemblyDecisionsFollowed", "assetsEndorsedByAssembly", "auditRemarksAnswered",
     "beneficiaryDuesCurrent", "benefitsRegulationsIssued", "bureauDutiesAssigned",
     "bureauElectedBySecretBallot", "candidateDocumentsVerified",
     "candidateEligibilityClear", "committeeAffiliationValid", "committeeFundsDistributed",
     "committeesBoardsAgreed", "committeesInvited", "councilApproved",
     "dualSignaturePresent", "duesCurrent", "duesSettledThrough",
     "emergencyPresentedToNextMeeting", "employerNotified", "employerVerified",
     "fundBoardDecisionIssued", "gazetteNotificationSent", "generalAssemblyApproved",
     "hasJoiningDocuments", "hasProfessionalLicense", "investigationCompleted",
     "investmentSafe", "legalAccountantCertified", "legalRepresentativeValid",
     "liabilityDocumented", "memberInGoodStanding", "membershipTierAboveMinimum",
     "ministryNotified", "minutesReferredToGeneralCommittee", "monthlyLeaveNoticeSent",
     "observersAllowed", "openingMinutesRecorded", "presidentRequested",
     "reasonsDocumented", "recordsUpToDate", "rejectionReasonsStated",
     "representationControlsIssued", "resourcesDocumented", "resultsPublished",
     "retireeContractReviewed", "retireeServiceContinuous", "secondedRightsRecorded",
     "secondmentLimitDocumented", "secretBallot", "secretariatAssigned",
     "servesStatutoryObjectives", "strikeFundActive", "supervisedByGeneralCommittee",
     "suspensionRecordedInMinutes", "tieBreakByLot", "trainingLeavePaid",
     "withdrawalApprovedByTwoThirds", "withinFinancialRules", "withinUnionCompetence",
     "withinUnionPurposes"}
FalseByDefault ==
    {"adjournedSession", "allowedByFinancialRegulation", "boardMemberBenefit",
     "contraryToUnionLaw", "emergency", "extraordinaryMeeting", "hasCriminalRecord",
     "hasDismissalReason", "integrityViolation", "isLegalPerson", "negativeCampaigning",
     "partisanSlogans", "previousDismissalAppealed", "requestBased", "retireeCandidate",
     "staffRightsBelowStatutory", "strikeBenefit", "tieDetected", "venueUnregistered"}
NumbersByDefault ==
    [appealWindowDays |-> 30, approvalPercent |-> 10000, attendancePercent |-> 6000,
     boardApprovalPercent |-> 10000, boardMembersPresent |-> 0, boardMembersTotal |-> 0,
     campaignDays |-> 5, candidateDuesMonths |-> 24, consecutiveAbsences |-> 0,
     daysBeforeTermEnd |-> 40, daysSinceLastMeeting |-> 20,
     decisionApprovalPercent |-> 10000, decisionNoticeDays |-> 20,
     fiscalYearSpanMonths |-> 12, memberNoticeDays |-> 20, noticeDays |-> 15,
     outstandingDues |-> 0, penaltyMonths |-> 0, postponeDays |-> 10,
     quorumPercent |-> 6000, representativesCount |-> 12,
     requesterAssemblyPercent |-> 10000, requesterBoardPercent |-> 10000,
     staffSystemMissingItems |-> 0, strikeFundSubscriptionEGP |-> 3, termYears |-> 4,
     unionReplyDays |-> 20, votersWaitingAtClose |-> 0, withdrawalNoticeDays |-> 30]
WordsByDefault == {"caseKind", "oversightChangeKind", "penaltyType", "transactionKind"}

StatuteDefaults(month) ==
    [f \in TrueByDefault |-> TRUE] @@ [f \in FalseByDefault |-> FALSE] @@ NumbersByDefault
    @@ [f \in WordsByDefault |-> "NONE"] @@ [effectiveMonth |-> month]

-----------------------------------------------------------------------------
Violates(id, severity, broken) ==
    IF broken THEN {[rule |-> id, severity |-> severity]} ELSE {}
Blocks(id, broken)  == Violates(id, "BLOCKED", broken)
Warns(id, broken)   == Violates(id, "WARNED", broken)
Informs(id, broken) == Violates(id, "INFO", broken)

(* Joining. *)
JoiningRules(p) ==
         Blocks("R-MEM-001", p.action \in {"CREATE", "ACTIVATE"}
                /\ ~p.committeeAffiliationValid)
    \cup Blocks("R-MEM-002", p.action \in {"CREATE", "ACTIVATE"} /\ (~p.hasJoiningDocuments
                \/ (p.isLegalPerson /\ ~p.employerVerified)))
    \cup Blocks("R-MEM-003", p.action \in {"CREATE", "ACTIVATE", "REINSTATE"}
                /\ ~p.acknowledgesUnionRegulations)
    \cup Warns("R-MEM-004", p.action \in {"CREATE", "ACTIVATE"} /\ (~p.hasProfessionalLicense
                \/ ~p.employerVerified))
    \cup Blocks("R-MEM-005", p.action \in {"CREATE", "ACTIVATE"}
                /\ p.decisionNoticeDays > Bound.membershipDecisionNoticeDays)
    \cup Blocks("R-MEM-006", p.action \in {"CREATE", "ACTIVATE"}
                /\ p.appealWindowDays < Bound.membershipAppealDays)
    \cup Warns("R-MEM-007", p.action \in {"CREATE", "ACTIVATE"} /\ ~p.rejectionReasonsStated)
    \cup Blocks("R-MEM-008", p.action \in {"CREATE", "ACTIVATE"} /\ (p.hasCriminalRecord
                \/ (p.hasDismissalReason /\ ~p.generalAssemblyApproved)))
    \cup Blocks("R-MEM-009", p.action = "WITHDRAW" /\ ~p.withdrawalApprovedByTwoThirds)

(* Withdrawal, removal and suspension. *)
LeavingRules(p) ==
         Blocks("R-MEM-010", p.action = "WITHDRAW"
                /\ p.withdrawalNoticeDays < Bound.withdrawalNoticeDays)
    \cup Warns("R-MEM-011", p.action = "WITHDRAW" /\ (~p.duesSettledThrough
                \/ p.outstandingDues > 0))
    \cup Warns("R-MEM-019", p.action = "WITHDRAW"
                /\ p.unionReplyDays > Bound.withdrawalReplyDays)
    \cup Blocks("R-MEM-012", p.action = "WRITE_OFF"
                /\ p.boardApprovalPercent < Bound.assemblyDismissalBoardMajorityPercent)
    \cup Blocks("R-MEM-013", p.action = "WRITE_OFF" /\ ~p.investigationCompleted)
    \cup Blocks("R-MEM-014", p.action \in {"WRITE_OFF", "SUSPEND"}
                /\ ~p.generalAssemblyApproved)
    \cup Blocks("R-MEM-015", p.action = "SUSPEND"
                /\ p.memberNoticeDays > Bound.memberDisciplineNoticeDays)
    \cup Blocks("R-MEM-016", p.action = "SUSPEND"
                /\ p.appealWindowDays < Bound.memberDisciplineAppealDays)
    \cup Informs("R-MEM-017", p.action = "WRITE_OFF")

(* Calling and holding an assembly. *)
AssemblyRules(p) ==
         Informs("R-MEM-018", p.action \in {"SUSPEND", "WRITE_OFF"})
    \cup Blocks("R-GOV-001", p.action \in {"CALL_ASSEMBLY", "HOLD_ASSEMBLY"}
                /\ p.noticeDays < Bound.assemblyNoticeDays)
    \cup Blocks("R-GOV-002", p.action = "HOLD_ASSEMBLY"
                /\ p.quorumPercent < Bound.assemblyQuorumPercent /\ ~(p.adjournedSession
                /\ p.quorumPercent \geq Bound.assemblyFallbackQuorumPercent))
    \cup Warns("R-GOV-003", p.action = "HOLD_ASSEMBLY" /\ p.adjournedSession
                /\ p.quorumPercent \geq Bound.assemblyFallbackQuorumPercent
                /\ p.quorumPercent < Bound.assemblyQuorumPercent)
    \cup Blocks("R-GOV-004", p.action = "HOLD_ASSEMBLY"
                /\ p.postponeDays > Bound.assemblyPostponeMaxDays)
    \cup Blocks("R-GOV-005", p.action = "CALL_ASSEMBLY" /\ p.requestBased
                /\ p.noticeDays > Bound.extraordinaryAssemblyCallDays)
    \cup Blocks("R-GOV-006", p.action = "CALL_ASSEMBLY" /\ p.requestBased
                /\ p.requesterAssemblyPercent > 0
                /\ p.requesterAssemblyPercent < Bound.extraordinaryRequestAssemblyPercent)
    \cup Blocks("R-GOV-038", p.action = "CALL_ASSEMBLY" /\ p.requestBased
                /\ p.requesterBoardPercent > 0
                /\ p.requesterBoardPercent < Bound.extraordinaryRequestBoardPercent)
    \cup Blocks("R-GOV-039", p.action = "CALL_ASSEMBLY" /\ p.requestBased
                /\ ~p.presidentRequested /\ p.requesterBoardPercent = 0
                /\ p.requesterAssemblyPercent = 0)

(* What the assembly decides. *)
AssemblyDecisionRules(p) ==
         Warns("R-GOV-007", p.action = "HOLD_ASSEMBLY"
                /\ p.attendancePercent < Bound.assemblyQuorumPercent)
    \cup Blocks("R-GOV-008", p.action = "CALL_ASSEMBLY" /\ ~p.committeesInvited)
    \cup Blocks("R-GOV-009", p.action = "CALL_ASSEMBLY"
                /\ p.representativesCount > Bound.representativesMaxCount)
    \cup Blocks("R-GOV-010", p.action = "AMEND_STATUTE" /\ ~p.assemblyApproved)
    \cup Blocks("R-GOV-011", p.action = "APPROVE_BUDGET" /\ ~p.assemblyApproved)
    \cup Blocks("R-GOV-012", p.action = "APPROVE_FINAL_ACCOUNTS" /\ ~p.assemblyApproved)
    \cup Blocks("R-GOV-013", p.action = "RATIFY_AGREEMENT" /\ ~p.assemblyApproved)
    \cup Warns("R-GOV-014", p.action \in {"APPROVE_BUDGET", "APPROVE_FINAL_ACCOUNTS"}
                /\ ~p.auditRemarksAnswered)
    \cup Blocks("R-GOV-015", p.action = "DISSOLVE_UNION"
                /\ p.approvalPercent < Bound.dissolutionMajorityPercent)

(* The board and its meetings. *)
BoardRules(p) ==
         Warns("R-GOV-016", p.action = "DISSOLVE_UNION" /\ ~p.committeeFundsDistributed)
    \cup Blocks("R-GOV-017", p.action = "ELECT_BOARD" /\ p.boardMembersTotal > 0
                /\ p.boardMembersTotal < Bound.boardMinMembers)
    \cup Blocks("R-GOV-034", p.action = "ELECT_BOARD"
                /\ p.boardMembersTotal > Bound.boardMaxMembers)
    \cup Blocks("R-GOV-035", p.action = "HOLD_BOARD_MEETING" /\ p.boardMembersTotal > 0
                /\ p.decisionApprovalPercent < Bound.boardDecisionMajorityPercent)
    \cup Blocks("R-GOV-036", p.action = "DISSOLVE_BOARD"
                /\ p.approvalPercent < Bound.boardSanctionMajorityPercent)
    \cup Blocks("R-GOV-018", p.action = "HOLD_BOARD_MEETING"
                /\ p.daysSinceLastMeeting > Bound.boardMeetingIntervalDays)
    \cup Blocks("R-GOV-019", p.action = "HOLD_BOARD_MEETING" /\ p.extraordinaryMeeting
                /\ ~p.presidentRequested
                /\ p.requesterBoardPercent < Bound.boardExtraordinaryRequestPercent)
    \cup Warns("R-GOV-020", p.action = "HOLD_BOARD_MEETING" /\ ~p.agendaAttached)
    \cup Blocks("R-GOV-021", p.action = "HOLD_BOARD_MEETING" /\ p.boardMembersTotal > 0
                /\ p.boardMembersPresent * 10000 < Bound.boardQuorumPercent * p.boardMembersTotal)

(* Branches, assistance, the bureau, the law. *)
ConductRules(p) ==
         Warns("R-GOV-022", p.action = "HOLD_BOARD_MEETING"
                /\ p.consecutiveAbsences \geq Bound.boardAbsenceResignationCount)
    \cup Blocks("R-GOV-023", p.action = "OPEN_BRANCH" /\ ~p.councilApproved)
    \cup Warns("R-GOV-024", p.action = "DISBURSE_ASSISTANCE" /\ ~p.withinFinancialRules)
    \cup Warns("R-GOV-025", p.action \in
                {"APPROVE_BUDGET", "APPROVE_FINAL_ACCOUNTS", "HOLD_BOARD_MEETING"}
                /\ ~p.assemblyDecisionsFollowed)
    \cup Informs("R-GOV-026", p.action = "HOLD_BOARD_MEETING" /\ ~p.secretariatAssigned)
    \cup Warns("R-GOV-027", p.action = "ELECT_BOARD" /\ ~p.bureauElectedBySecretBallot)
    \cup Informs("R-GOV-028", p.action = "ELECT_BOARD" /\ ~p.bureauDutiesAssigned)
    \cup Warns("R-GOV-029", p.action \in
                {"DISBURSE_ASSISTANCE", "SET_SUBSCRIPTION", "INVEST_FUNDS"}
                /\ ~p.servesStatutoryObjectives)
    \cup Warns("R-GOV-030", p.action = "RATIFY_AGREEMENT" /\ ~p.withinUnionCompetence)
    \cup Blocks("R-GOV-031", p.contraryToUnionLaw)

(* Venues, representatives, candidates. *)
CandidacyRules(p) ==
         Warns("R-GOV-032", p.action \in {"CALL_ASSEMBLY", "HOLD_ASSEMBLY"}
                /\ p.venueUnregistered /\ ~p.councilApproved)
    \cup Blocks("R-GOV-033", ~p.legalRepresentativeValid)
    \cup Blocks("R-ELE-001", p.action = "ELECT_BOARD" /\ p.termYears > Bound.boardTermYears)
    \cup Blocks("R-ELE-002", p.action = "ELECT_BOARD"
                /\ p.daysBeforeTermEnd > Bound.boardElectionWindowDays)
    \cup Warns("R-ELE-003", p.action = "ELECT_BOARD" /\ ~p.secretBallot)
    \cup Blocks("R-ELE-004", p.action = "ELECT_BOARD"
                /\ (p.candidateDuesMonths < Bound.candidacyDuesMonths \/ ~p.duesCurrent
                \/ ~p.memberInGoodStanding))
    \cup Blocks("R-ELE-005", p.action = "ELECT_BOARD" /\ ~p.candidateEligibilityClear)
    \cup Blocks("R-ELE-006", p.action = "ELECT_BOARD" /\ ~p.candidateDocumentsVerified)
    \cup Warns("R-ELE-007", p.action = "ELECT_BOARD" /\ ~p.candidateEligibilityClear
                /\ p.previousDismissalAppealed)

(* Campaigns and polling. *)
CampaignRules(p) ==
         Warns("R-ELE-008", p.action = "ELECT_BOARD" /\ p.retireeCandidate
                /\ ~p.retireeServiceContinuous)
    \cup Blocks("R-ELE-009", p.action = "ELECT_BOARD" /\ ~p.supervisedByGeneralCommittee)
    \cup Warns("R-ELE-010", p.action = "ELECT_BOARD" /\ ~p.representationControlsIssued)
    \cup Blocks("R-ELE-011", p.action \in {"ELECT_BOARD", "OPEN_BRANCH_ELECTION"}
                /\ p.campaignDays > Bound.campaignMaxDays)
    \cup Warns("R-ELE-012", p.action = "ELECT_BOARD" /\ (p.partisanSlogans
                \/ p.negativeCampaigning))
    \cup Warns("R-ELE-013", p.action = "ELECT_BOARD" /\ ~p.openingMinutesRecorded)
    \cup Informs("R-ELE-014", p.action = "ELECT_BOARD" /\ p.votersWaitingAtClose > 0)
    \cup Blocks("R-ELE-015", p.action = "ELECT_BOARD" /\ ~p.observersAllowed)
    \cup Warns("R-ELE-016", p.action = "ELECT_BOARD" /\ p.integrityViolation
                /\ ~p.suspensionRecordedInMinutes)

(* Results, subscriptions, assistance. *)
ResultRules(p) ==
         Blocks("R-ELE-017", p.action = "ELECT_BOARD" /\ ~p.resultsPublished)
    \cup Informs("R-ELE-018", p.action = "ELECT_BOARD" /\ ~p.minutesReferredToGeneralCommittee)
    \cup Blocks("R-ELE-019", p.action = "ELECT_BOARD" /\ p.tieDetected /\ ~p.tieBreakByLot)
    \cup Blocks("R-ELE-020", p.action = "ELECT_BOARD" /\ p.retireeCandidate
                /\ ~p.retireeContractReviewed)
    \cup Warns("R-FIN-001", p.action = "SET_SUBSCRIPTION" /\ (~p.resourcesDocumented
                \/ ~p.membershipTierAboveMinimum))
    \cup Blocks("R-FIN-002", p.action = "DISBURSE_ASSISTANCE" /\ ~p.dualSignaturePresent)
    \cup Blocks("R-FIN-003", p.action = "DISBURSE_ASSISTANCE" /\ (~p.councilApproved
                \/ ~p.withinUnionPurposes))
    \cup Warns("R-FIN-004", p.action = "DISBURSE_ASSISTANCE" /\ p.emergency
                /\ ~p.emergencyPresentedToNextMeeting)
    \cup Blocks("R-FIN-005", p.action = "INVEST_FUNDS" /\ ~p.investmentSafe)
    \cup Blocks("R-FIN-006", p.action = "DISPOSE_ASSET" /\ (p.transactionKind = "SPECULATION"
                \/ p.transactionKind = "ILLEGAL_DONATION"
                \/ (p.transactionKind = "ASSET_DISPOSAL" /\ ~p.councilApproved)
                \/ (p.transactionKind = "GRATUITOUS_TRANSFER" /\ ~(p.councilApproved
                /\ p.assemblyApproved))))

(* Assets, budgets, accounts, oversight. *)
BudgetingRules(p) ==
         Warns("R-FIN-007", p.action = "DISPOSE_ASSET" /\ ~p.assetsEndorsedByAssembly)
    \cup Warns("R-FIN-008", p.action \in {"APPROVE_BUDGET", "APPROVE_FINAL_ACCOUNTS"}
                /\ p.fiscalYearSpanMonths # Bound.fiscalYearSpanMonths)
    \cup Warns("R-FIN-009", p.action \in {"APPROVE_FINAL_ACCOUNTS", "DISBURSE_ASSISTANCE"}
                /\ ~p.recordsUpToDate)
    \cup Blocks("R-FIN-010", p.action = "APPROVE_BUDGET"
                /\ p.effectiveMonth > Bound.budgetApprovalDeadlineMonth)
    \cup Blocks("R-FIN-011", p.action = "APPROVE_FINAL_ACCOUNTS" /\ ~p.legalAccountantCertified)
    \cup Blocks("R-FIN-012", p.action = "DISBURSE_ASSISTANCE" /\ p.boardMemberBenefit
                /\ ~p.allowedByFinancialRegulation)
    \cup Blocks("R-FIN-013", p.action = "SET_OVERSIGHT_BODY"
                /\ p.oversightChangeKind = "ESTABLISH" /\ ~p.assemblyApproved)
    \cup Blocks("R-FIN-014", p.action = "SET_OVERSIGHT_BODY" /\ p.oversightChangeKind = "REMOVE"
                /\ ~p.assemblyApproved)
    \cup Blocks("R-STR-001", p.action = "DECLARE_STRIKE"
                /\ p.approvalPercent < Bound.strikeApprovalPercent)

(* Strikes and staff. *)
StrikeRules(p) ==
         Blocks("R-STR-002", p.action = "DECLARE_STRIKE" /\ ~p.committeesBoardsAgreed)
    \cup Warns("R-STR-003", p.action = "DECLARE_STRIKE" /\ ~p.strikeFundActive)
    \cup Warns("R-STR-004", p.action = "DISBURSE_ASSISTANCE" /\ p.strikeBenefit
                /\ ~p.beneficiaryDuesCurrent)
    \cup Blocks("R-STR-005", p.action = "SET_SUBSCRIPTION"
                /\ p.strikeFundSubscriptionEGP < Bound.strikeFundMinSubscriptionEGP)
    \cup Warns("R-STR-006", p.action = "DECLARE_STRIKE" /\ ~p.fundBoardDecisionIssued)
    \cup Blocks("R-STF-001", p.action = "SET_STAFF_SYSTEM" /\ p.staffSystemMissingItems > 0)
    \cup Warns("R-STF-002", p.action = "SET_STAFF_SYSTEM" /\ p.staffRightsBelowStatutory)
    \cup Warns("R-STF-003", p.action = "DISBURSE_ASSISTANCE" /\ ~p.benefitsRegulationsIssued)
    \cup Blocks("R-STF-004", p.action = "DISBURSE_ASSISTANCE" /\ p.caseKind # "NONE"
                /\ ~p.councilApproved)

(* Seconded members, discipline. *)
SecondmentRules(p) ==
         Blocks("R-RGT-001", p.action = "SECOND_MEMBER" /\ ~p.councilApproved)
    \cup Warns("R-RGT-002", p.action = "SECOND_MEMBER" /\ ~p.secondedRightsRecorded)
    \cup Blocks("R-RGT-003", p.action = "SECOND_MEMBER" /\ (~p.employerNotified
                \/ ~p.ministryNotified))
    \cup Warns("R-RGT-004", p.action = "SECOND_MEMBER" /\ ~p.monthlyLeaveNoticeSent)
    \cup Warns("R-RGT-005", p.action = "SECOND_MEMBER" /\ ~p.secondmentLimitDocumented)
    \cup Blocks("R-RGT-006", p.action = "SECOND_MEMBER" /\ ~p.trainingLeavePaid)
    \cup Warns("R-RGT-007", p.action \in
                {"DISBURSE_ASSISTANCE", "SECOND_MEMBER", "DISCIPLINE_MEMBER"}
                /\ ~p.liabilityDocumented)
    \cup Blocks("R-DSC-001", p.action = "DISCIPLINE_MEMBER"
                /\ p.penaltyType \notin AllowedPenalties)
    \cup Blocks("R-DSC-002", p.action = "DISCIPLINE_MEMBER"
                /\ (p.penaltyType = "WITHDRAW_CONFIDENCE" \/ p.penaltyType = "EXPULSION"))

(* Penalties and amendments. *)
PenaltyRules(p) ==
         Warns("R-DSC-003", p.action = "DISCIPLINE_MEMBER"
                /\ p.penaltyType = "BENEFIT_DEPRIVATION"
                /\ p.penaltyMonths > Bound.penaltyDeprivationMaxMonths)
    \cup Warns("R-DSC-004", p.action = "DISCIPLINE_MEMBER" /\ ~p.reasonsDocumented)
    \cup Warns("R-AMD-001", p.action = "AMEND_STATUTE" /\ ~p.gazetteNotificationSent)

(* The evaluation of an action: a form as it was entered, completed.       *)
StatuteViolations(action, form, month) ==
    LET p == form @@ [action |-> action] @@ StatuteDefaults(month)
    IN  UNION {JoiningRules(p), LeavingRules(p), AssemblyRules(p), AssemblyDecisionRules(p),
               BoardRules(p), ConductRules(p), CandidacyRules(p), CampaignRules(p),
               ResultRules(p), BudgetingRules(p), StrikeRules(p), SecondmentRules(p),
               PenaltyRules(p)}
=============================================================================
