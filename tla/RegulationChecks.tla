--------------------------- MODULE RegulationChecks ---------------------------
(***************************************************************************)
(* Checking an action against the financial regulation and the statute     *)
(* (routes/financial.routes.ts and routes/statute.routes.ts): a client     *)
(* fills a form field by field and asks for the verdict after each; the    *)
(* answer depends on the stage of enforcement, which is a setting of the   *)
(* process, and for a form without a date on the day the process started.  *)
(*                                                                         *)
(* The inputs are the boundaries of the rules: every limit and the value   *)
(* next to it, both answers to a question, every listed word and another.  *)
(***************************************************************************)
EXTENDS FinancialRules, StatuteRules

CONSTANTS
    StatuteFields,    \* [action of the statute -> the fields a client may enter]
    StatuteNumbers,   \* [number field -> values a client may enter]
    StatuteWords,     \* [word field -> words a client may enter]
    StartMonths,      \* months in which the process may start
    MaxEntered        \* fields entered into one form

VARIABLES
    action,       \* the action that is checked
    form,         \* [field entered -> value]
    stage,        \* stage of enforcement of the running process
    startedIn,    \* month in which the process was started
    verdict       \* the answer to the last check

checkVars == <<action, form, stage, startedIn, verdict>>

StatuteActions == DOMAIN StatuteFields
Actions        == FinancialActions \cup StatuteActions
Stages         == <<"SHADOW", "AUDIT", "WARN", "ENFORCE">>
Severities     == <<"INFO", "WARNED", "BLOCKED">>

-----------------------------------------------------------------------------
(* What a stage leaves of a violation: SHADOW hides it, AUDIT informs, WARN *)
(* warns instead of blocking.                                               *)
Effective(severity, s) ==
    IF s \in {"SHADOW", "AUDIT"} THEN "INFO"
    ELSE IF s = "WARN" /\ severity = "BLOCKED" THEN "WARNED" ELSE severity

Staged(violations, s) ==
    IF s = "SHADOW" THEN {}
    ELSE {[v EXCEPT !.severity = Effective(@, s)] : v \in violations}

(* One violation that blocks decides, then one that warns. *)
Overall(violations) ==
    IF \E v \in violations : v.severity = "BLOCKED" THEN "BLOCKED"
    ELSE IF \E v \in violations : v.severity = "WARNED" THEN "WARNED" ELSE "INFO"

(* The actions of the statute are checked against both, those of the        *)
(* financial regulation against its rules alone.                            *)
Check(a, f, s, month) ==
    LET statute == IF a \in StatuteActions THEN StatuteViolations(a, f, month) ELSE {}
    IN  Overall(Staged(FinancialViolations(a, f) \cup statute, s))

-----------------------------------------------------------------------------
(* The inputs of the financial rules, from the conditions of an action. *)
Conditions(a) == UNION {r.demands \cup r.when : r \in RulesOf[a]}
LimitsOf(c)   == {c.limits[k] : k \in DOMAIN c.limits}
Beside(ns)    == ns \cup {n + 1 : n \in ns}
RungAmounts   == {Ladder[l][i] : l \in DOMAIN Ladder, i \in 1..3}

NumberOf(c) ==
    CASE c.op = "MAX" -> {c.field} \X Beside(LimitsOf(c))
      [] c.op = "MIN" -> {c.field} \X (LimitsOf(c) \cup {n - 1 : n \in LimitsOf(c)})
      [] c.op = "REQ_TRUE_IF_EXCEEDED" -> {c.other} \X Beside(LimitsOf(c))
      [] c.op = "LADDER_METHOD" -> {c.other} \X Beside(RungAmounts)
      [] c.op = "SHARE_RATIOS" -> UNION {{f} \X {0, c.limits[f]} : f \in DOMAIN c.limits}
      [] OTHER -> {}
FlagOf(c) ==
    CASE c.op \in {"REQ_TRUE", "REQ_FALSE", "REQ_TRUE_IF_EXCEEDED"} -> {c.field}
      [] c.op = "REQ_TRUE_OR" -> {c.field, c.other}
      [] c.op = "LADDER_METHOD" -> {"isGovernmentEntity"}
      [] c.op = "SHARE_RATIOS" -> {"hasFederation"}
      [] OTHER -> {}
WordOf(c) ==
    CASE c.op = "EQ_ANY" -> {c.field} \X (c.words \cup {"ANOTHER"})
      [] c.op = "NOT_EMPTY" -> {c.field} \X {"ANOTHER"}
      [] c.op = "LADDER_METHOD" ->
             ({c.field} \X {LadderMethods[i] : i \in 1..4}) \cup ({"entityLevel"} \X DOMAIN Ladder)
      [] c.op \in {"MAX", "MIN"} /\ c.by # "" -> {c.by} \X (DOMAIN c.limits \cup {"ANOTHER"})
      [] OTHER -> {}

(* A field of the statute that is a flag is entered with the value that is  *)
(* not its default.                                                         *)
NumberEntries ==
    [a \in Actions |->
        IF a \in FinancialActions THEN UNION {NumberOf(c) : c \in Conditions(a)}
        ELSE UNION {{f} \X StatuteNumbers[f] : f \in StatuteFields[a] \cap DOMAIN StatuteNumbers}]
FlagEntries ==
    [a \in Actions |->
        IF a \in FinancialActions THEN (UNION {FlagOf(c) : c \in Conditions(a)}) \X BOOLEAN
        ELSE       ((StatuteFields[a] \cap TrueByDefault) \X {FALSE})
             \cup ((StatuteFields[a] \cap FalseByDefault) \X {TRUE})]
WordEntries ==
    [a \in Actions |->
        IF a \in FinancialActions THEN UNION {WordOf(c) : c \in Conditions(a)}
        ELSE UNION {{f} \X StatuteWords[f] : f \in StatuteFields[a] \cap DOMAIN StatuteWords}]

-----------------------------------------------------------------------------
ChecksInit ==
    /\ action \in Actions
    /\ form = << >>
    /\ stage \in {Stages[i] : i \in DOMAIN Stages}
    /\ startedIn \in StartMonths
    /\ verdict = Check(action, form, stage, startedIn)

(* The form of a client that asks for nothing. *)
ChecksAtRest ==
    /\ action = "CREATE" /\ stage = "SHADOW"
    /\ \A m \in StartMonths : startedIn <= m

(* One more field is entered and the form is checked. *)
Enter(field, value) ==
    /\ Cardinality(DOMAIN form) < MaxEntered
    /\ field \notin DOMAIN form
    /\ form' = form @@ (field :> value)
    /\ verdict' = Check(action, form', stage, startedIn)
    /\ UNCHANGED <<action, stage, startedIn>>

(* The server is started again, now or later in the year, with a stage of   *)
(* its environment; the client checks its form again.                       *)
RestartWithStage ==
    /\ stage' \in {Stages[i] : i \in DOMAIN Stages}
    /\ startedIn' \in {m \in StartMonths : m >= startedIn}
    /\ verdict' = Check(action, form, stage', startedIn')
    /\ UNCHANGED <<action, form>>

ChecksNext ==
    \/ \E e \in NumberEntries[action] : Enter(e[1], e[2])
    \/ \E e \in FlagEntries[action] : Enter(e[1], e[2])
    \/ \E e \in WordEntries[action] : Enter(e[1], e[2])
    \/ RestartWithStage

-----------------------------------------------------------------------------
(* A form holds entries of its action, and the verdict is a severity. *)
ChecksTypeOK ==
    /\ action \in Actions
    /\ \A f \in DOMAIN form :
           \/ f \in {e[1] : e \in NumberEntries[action]} /\ form[f] \in Nat
           \/ f \in {e[1] : e \in FlagEntries[action]} /\ form[f] \in BOOLEAN
           \/ f \in {e[1] : e \in WordEntries[action]} /\ form[f] \in STRING
    /\ stage \in {Stages[i] : i \in DOMAIN Stages}
    /\ startedIn \in StartMonths
    /\ verdict \in {Severities[i] : i \in DOMAIN Severities}

(* "No block without data": nothing that is missing is held against the     *)
(* action, so a form can only become worse as it is completed, and under a  *)
(* stricter stage. The exceptions are the fields whose absence decides: a   *)
(* limit is chosen without knowing the level, region or kind of bid, and    *)
(* the neutral value of a field of the statute is not always the mildest.   *)
DecidesByAbsence ==
    {"entityLevel", "region", "bidType", "isGovernmentEntity",
     "penaltyType", "adjournedSession", "boardMembersPresent", "allowedByFinancialRegulation",
     "effectiveMonth"}
RankIn(seq, x) == CHOOSE i \in DOMAIN seq : seq[i] = x
MoreEntered ==
    /\ form' # form
    /\ \A f \in DOMAIN form' \ DOMAIN form : f \notin DecidesByAbsence
StricterServer == form' = form /\ RankIn(Stages, stage') >= RankIn(Stages, stage)
VerdictOnlyHardens ==
    [][MoreEntered \/ StricterServer =>
           RankIn(Severities, verdict') >= RankIn(Severities, verdict)]_checkVars

(* An action nothing is said about is not blocked, but for two: discipline  *)
(* without a penalty, and a budget once the process was started after the   *)
(* month of the deadline.                                                   *)
NeutralFormPasses ==
    form = << >> /\ verdict = "BLOCKED" =>
            \/ action = "DISCIPLINE_MEMBER"
            \/ action = "APPROVE_BUDGET" /\ startedIn > Bound.budgetApprovalDeadlineMonth

(* The rules of an action do not contradict each other: some complete form  *)
(* satisfies all of them.                                                   *)
FormsOver(entries) ==
    {f \in [{e[1] : e \in entries} -> {e[2] : e \in entries}] : \A x \in DOMAIN f : <<x, f[x]>> \in entries}
CompleteForms(a) ==
    {n @@ b @@ w : n \in FormsOver(NumberEntries[a]), b \in FormsOver(FlagEntries[a]),
                   w \in FormsOver(WordEntries[a])}
RulesCanBeMet ==
    form = << >> /\ action \in FinancialActions =>
        \E f \in CompleteForms(action) : FinancialViolations(action, f) = {}

(* The ladder and the limits of the methods agree: a purchase for which the *)
(* ladder asks for a limited tender is within the limit of that tender;     *)
(* government suppliers are exempt from the ladder alone.                   *)
LadderFitsLimits ==
    (/\ action = "PROCUREMENT"
     /\ {"amount", "procurementMethod"} \subseteq DOMAIN form
     /\ form.procurementMethod = "LIMITED_TENDER"
     /\ Has(form, "isGovernmentEntity") => ~form.isGovernmentEntity) =>
            \A level \in DOMAIN Ladder :
                LET f == (form @@ [entityLevel |-> level, hasBoardDecision |-> TRUE,
                                   hasSpecifications |-> TRUE])
                IN  Check("TENDER_SPECS", f, "ENFORCE", startedIn) = "BLOCKED"
                    \/ Check("LIMITED_TENDER", f, "ENFORCE", startedIn) # "BLOCKED"

(* The verdicts are severities and sensible together: neutral forms pass,   *)
(* the rules of an action can be met at once, and the ladder of methods     *)
(* fits the limits of the methods.                                          *)
RulesAgree == ChecksTypeOK /\ NeutralFormPasses /\ RulesCanBeMet /\ LadderFitsLimits
=============================================================================
