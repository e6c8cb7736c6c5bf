------------------------- MODULE MCRegulationForms ---------------------------
(***************************************************************************)
(* The forms of the statute for model checking: the fields its rules read  *)
(* for each action, with numbers on both sides of each bound. The last     *)
(* two actions are offered by the check board of the client although no    *)
(* rule of the statute names them (StatutoryCheckBoard.tsx:41-45).         *)
(***************************************************************************)
EXTENDS Naturals

MCStatuteFields ==
    [CREATE |-> {"committeeAffiliationValid", "hasJoiningDocuments", "isLegalPerson",
         "employerVerified", "acknowledgesUnionRegulations", "hasProfessionalLicense",
         "decisionNoticeDays", "appealWindowDays", "rejectionReasonsStated",
         "hasCriminalRecord", "hasDismissalReason", "generalAssemblyApproved"},
      ACTIVATE |-> {"committeeAffiliationValid", "hasJoiningDocuments",
         "isLegalPerson", "employerVerified", "acknowledgesUnionRegulations",
         "hasProfessionalLicense", "decisionNoticeDays", "appealWindowDays",
         "rejectionReasonsStated", "hasCriminalRecord", "hasDismissalReason",
         "generalAssemblyApproved"},
      REINSTATE |-> {"acknowledgesUnionRegulations"},
      WITHDRAW |-> {"withdrawalApprovedByTwoThirds", "withdrawalNoticeDays",
         "duesSettledThrough", "outstandingDues", "unionReplyDays"},
      WRITE_OFF |-> {"boardApprovalPercent", "investigationCompleted",
         "generalAssemblyApproved"},
      SUSPEND |-> {"generalAssemblyApproved", "memberNoticeDays", "appealWindowDays"},
      CALL_ASSEMBLY |-> {"noticeDays", "requestBased", "requesterAssemblyPercent",
         "requesterBoardPercent", "presidentRequested", "committeesInvited",
         "representativesCount", "venueUnregistered", "councilApproved"},
      HOLD_ASSEMBLY |-> {"noticeDays", "quorumPercent", "adjournedSession",
         "postponeDays", "attendancePercent", "venueUnregistered", "councilApproved"},
      AMEND_STATUTE |-> {"assemblyApproved", "gazetteNotificationSent"},
      APPROVE_BUDGET |-> {"assemblyApproved", "auditRemarksAnswered",
         "assemblyDecisionsFollowed", "fiscalYearSpanMonths", "effectiveMonth"},
      APPROVE_FINAL_ACCOUNTS |-> {"assemblyApproved", "auditRemarksAnswered",
         "assemblyDecisionsFollowed", "fiscalYearSpanMonths", "recordsUpToDate",
         "legalAccountantCertified"},
      RATIFY_AGREEMENT |-> {"assemblyApproved", "withinUnionCompetence"},
      DISSOLVE_UNION |-> {"approvalPercent", "committeeFundsDistributed"},
      ELECT_BOARD |-> {"boardMembersTotal", "bureauElectedBySecretBallot",
         "bureauDutiesAssigned", "termYears", "daysBeforeTermEnd", "secretBallot",
         "candidateDuesMonths", "duesCurrent", "memberInGoodStanding",
         "candidateEligibilityClear", "candidateDocumentsVerified",
         "previousDismissalAppealed", "retireeCandidate", "retireeServiceContinuous",
         "supervisedByGeneralCommittee", "representationControlsIssued",
         "campaignDays", "partisanSlogans", "negativeCampaigning",
         "openingMinutesRecorded", "votersWaitingAtClose", "observersAllowed",
         "integrityViolation", "suspensionRecordedInMinutes", "resultsPublished",
         "minutesReferredToGeneralCommittee", "tieDetected", "tieBreakByLot",
         "retireeContractReviewed"},
      HOLD_BOARD_MEETING |-> {"boardMembersTotal", "decisionApprovalPercent",
         "daysSinceLastMeeting", "extraordinaryMeeting", "presidentRequested",
         "requesterBoardPercent", "agendaAttached", "boardMembersPresent",
         "consecutiveAbsences", "assemblyDecisionsFollowed", "secretariatAssigned"},
      DISSOLVE_BOARD |-> {"approvalPercent"},
      OPEN_BRANCH |-> {"councilApproved"},
      DISBURSE_ASSISTANCE |-> {"withinFinancialRules", "servesStatutoryObjectives",
         "dualSignaturePresent", "councilApproved", "withinUnionPurposes",
         "emergency", "emergencyPresentedToNextMeeting", "recordsUpToDate",
         "boardMemberBenefit", "allowedByFinancialRegulation", "strikeBenefit",
         "beneficiaryDuesCurrent", "benefitsRegulationsIssued", "caseKind",
         "liabilityDocumented"},
      SET_SUBSCRIPTION |-> {"servesStatutoryObjectives", "resourcesDocumented",
         "membershipTierAboveMinimum", "strikeFundSubscriptionEGP"},
      INVEST_FUNDS |-> {"servesStatutoryObjectives", "investmentSafe"},
      OPEN_BRANCH_ELECTION |-> {"campaignDays"},
      DISPOSE_ASSET |-> {"transactionKind", "councilApproved", "assemblyApproved",
         "assetsEndorsedByAssembly"},
      SET_OVERSIGHT_BODY |-> {"oversightChangeKind", "assemblyApproved"},
      DECLARE_STRIKE |-> {"approvalPercent", "committeesBoardsAgreed",
         "strikeFundActive", "fundBoardDecisionIssued"},
      SET_STAFF_SYSTEM |-> {"staffSystemMissingItems", "staffRightsBelowStatutory"},
      SECOND_MEMBER |-> {"councilApproved", "secondedRightsRecorded",
         "employerNotified", "ministryNotified", "monthlyLeaveNoticeSent",
         "secondmentLimitDocumented", "trainingLeavePaid", "liabilityDocumented"},
      DISCIPLINE_MEMBER |-> {"liabilityDocumented", "penaltyType", "penaltyMonths",
         "reasonsDocumented"},
      BOARD_MEETING |-> {"contraryToUnionLaw", "noticeDays"},
      CONTRACT_AWARD |-> {"legalRepresentativeValid", "quorumPercent"}]

MCStatuteNumbers ==
    [appealWindowDays |-> {29, 30}, approvalPercent |-> {6666, 6667},
     attendancePercent |-> {4900}, boardApprovalPercent |-> {6666, 6667},
     boardMembersPresent |-> {5, 11}, boardMembersTotal |-> {10, 11, 22},
     campaignDays |-> {7, 8}, candidateDuesMonths |-> {11, 12}, consecutiveAbsences |-> {3},
     daysBeforeTermEnd |-> {60, 61}, daysSinceLastMeeting |-> {31},
     decisionApprovalPercent |-> {4900, 5000}, decisionNoticeDays |-> {31},
     effectiveMonth |-> {9, 11}, fiscalYearSpanMonths |-> {11}, memberNoticeDays |-> {31},
     noticeDays |-> {9, 10, 16}, outstandingDues |-> {1}, penaltyMonths |-> {3, 4},
     postponeDays |-> {31}, quorumPercent |-> {3200, 3300, 5000},
     representativesCount |-> {20, 21}, requesterAssemblyPercent |-> {0, 3300},
     requesterBoardPercent |-> {0, 3300, 6600}, staffSystemMissingItems |-> {1},
     strikeFundSubscriptionEGP |-> {2, 3}, termYears |-> {5}, unionReplyDays |-> {31},
     votersWaitingAtClose |-> {1}, withdrawalNoticeDays |-> {29, 30}]

MCStatuteWords ==
    [caseKind |-> {"SPECIAL"}, oversightChangeKind |-> {"ESTABLISH", "REMOVE"},
     penaltyType |-> {"WARNING", "BENEFIT_DEPRIVATION", "EXPULSION"},
     transactionKind |-> {"ASSET_DISPOSAL", "GRATUITOUS_TRANSFER", "SPECULATION"}]
=============================================================================
