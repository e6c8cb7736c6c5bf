------------------------------ MODULE Attendance ------------------------------
(***************************************************************************)
(* The attendance of one worker in one month and what a payroll run        *)
(* withholds for absence (AttendanceService, BiometricService). Records    *)
(* are made by punches, imports and corrections and live in memory only: a *)
(* start fills them with a pattern for demonstration. The link between     *)
(* attendance and payroll is requested, decided by one user, and kept in a *)
(* file whose writes may fail unnoticed.                                   *)
(*                                                                         *)
(* Of a punch only its day and direction are kept: minutes, late arrival,  *)
(* overtime and the log of the readers decide on nothing here. HOLIDAY,    *)
(* LEAVE, MISSION and ABSENT are one status: none of them counts as        *)
(* present.                                                                *)
(***************************************************************************)
EXTENDS Integers, FiniteSets

CONSTANTS
    LastDay,         \* length of the month
    Weekends,        \* settings of the weekly holidays: sets of days
    DefaultWeekend,  \* the setting of a fresh process
    Leaves,          \* leaves that may be approved: [from, to], to = Open without an end
    Open,
    PatternAbsent,   \* days the demonstration leaves without a record
    MaxCorrections,  \* bound: corrections by hand
    MaxFileLosses,       \* bound: failed writes of the file
    MaxStarts        \* bound: restarts

Days == 1..LastDay

ASSUME AttendanceAssumption ==
    /\ LastDay \in Nat /\ Open \notin Days
    /\ DefaultWeekend \in Weekends
    /\ \A w \in Weekends : w \subseteq Days
    /\ \A l \in Leaves : l.from \in Days /\ l.to \in Days \union {Open}

VARIABLES
    attendance,   \* [day -> its record, or NoAttendance]
    corrected,    \* days whose record was corrected by hand since it was made
    weekend,      \* weeklyHolidays of the settings
    leaves,       \* approved leaves
    today,        \* the present day; LastDay + 1 when the month is over
    link,         \* payrollLink in memory
    linkFile,     \* payrollLink in biometric-state.json
    decision,     \* the last decision on the link
    withheld,     \* days of absence the latest draft of the run withholds
    corrections, losses, starts

attendanceVars == <<attendance, corrected, weekend, leaves, today, link, linkFile,
                    decision, withheld, corrections, losses, starts>>

Statuses   == {"PRESENT", "OTHER"}
NoAttendance == [made |-> FALSE, in |-> FALSE, out |-> FALSE, status |-> "OTHER"]
Record(i, o, s) == [made |-> TRUE, in |-> i, out |-> o, status |-> s]
Complete   == Record(TRUE, TRUE, "PRESENT")

(* seedDemoAttendance: every working day so far but those of the pattern.  *)
Demonstration(now) ==
    [d \in Days |-> IF d <= now /\ d \notin DefaultWeekend \union PatternAbsent THEN Complete
                    ELSE NoAttendance]

AttendanceInit ==
    /\ weekend = DefaultWeekend
    /\ today = 1
    /\ attendance = Demonstration(1)
    /\ corrected = {} /\ leaves = {}
    /\ link = "NOT_LINKED" /\ linkFile = "NOT_LINKED"
    /\ decision = "NONE"
    /\ withheld = 0
    /\ corrections = 0 /\ losses = 0 /\ starts = 0

biometricVars == <<link, linkFile, decision>>
recordVars    == <<attendance, corrected>>

-----------------------------------------------------------------------------
(* Records *)

(* A punch without direction toggles. Either direction is refused when it  *)
(* is there already, and leaving without having come; only coming sets the *)
(* status. The client sends the time, so the day may be past or to come.   *)
Direction(r, given) ==
    IF given # "TOGGLE" THEN given ELSE IF r.in /\ ~r.out THEN "OUT" ELSE "IN"

(* Slip: nobody asks whether the worker came. *)
MayPunchUnseen(r, way) == IF way = "IN" THEN ~r.in ELSE ~r.out

MayPunch(r, way) == IF way = "IN" THEN ~r.in ELSE r.in /\ ~r.out

Punched(r, way) ==
    IF way = "IN" THEN Record(TRUE, r.out, "PRESENT") ELSE [r EXCEPT !.out = TRUE]

(* By the form or at a reader, which asks for a template of the worker      *)
(* first. What a reader is refused because the day is complete, it only     *)
(* logs.                                                                    *)
Punch(d, given) ==
    LET r == attendance[d]
        way == Direction(r, given)
    IN  /\ MayPunch(r, way)
        /\ attendance' = [attendance EXCEPT ![d] = Punched(r, way)]
        /\ UNCHANGED <<corrected, weekend, leaves, today, biometricVars, withheld,
                       corrections, losses, starts>>

(* A row of a device is taken only for a day without a record. *)
ImportFromDevice(d, withOut) ==
    /\ ~attendance[d].made
    /\ attendance' = [attendance EXCEPT ![d] = Record(TRUE, withOut, "PRESENT")]
    /\ UNCHANGED <<corrected, weekend, leaves, today, biometricVars, withheld,
                   corrections, losses, starts>>

Correction == corrections < MaxCorrections /\ corrections' = corrections + 1

(* Absence, leave, holiday or mission of a day; the punches stay. *)
SetDayStatus(d) ==
    /\ Correction
    /\ attendance' = [attendance EXCEPT ![d] =
         IF @.made THEN [@ EXCEPT !.status = "OTHER"] ELSE Record(FALSE, FALSE, "OTHER")]
    /\ UNCHANGED <<corrected, weekend, leaves, today, biometricVars, withheld, losses, starts>>

(* Times are set or taken back, and the status is any. *)
UpdateRecord(d, i, o, s) ==
    /\ Correction
    /\ attendance[d].made
    /\ attendance' = [attendance EXCEPT ![d] = Record(i, o, s)]
    /\ corrected' = corrected \union {d}
    /\ UNCHANGED <<weekend, leaves, today, biometricVars, withheld, losses, starts>>

DeleteRecord(d) ==
    /\ Correction
    /\ attendance[d].made
    /\ attendance' = [attendance EXCEPT ![d] = NoAttendance]
    /\ corrected' = corrected \ {d}
    /\ UNCHANGED <<weekend, leaves, today, biometricVars, withheld, losses, starts>>

(* Settings, leaves of the employee's affairs, and time. *)
UpdateSettings(w) ==
    /\ Correction
    /\ weekend' = w
    /\ UNCHANGED <<recordVars, leaves, today, biometricVars, withheld, losses, starts>>

ApproveLeave(l) ==
    /\ leaves' = leaves \union {l}
    /\ UNCHANGED <<recordVars, weekend, today, biometricVars, withheld,
                   corrections, losses, starts>>

NextDay ==
    /\ today <= LastDay
    /\ today' = today + 1
    /\ UNCHANGED <<recordVars, weekend, leaves, biometricVars, withheld,
                   corrections, losses, starts>>

-----------------------------------------------------------------------------
(* The link and its file *)

(* Memory and file change together unless the write fails, which is        *)
(* ignored: the next write saves the whole state.                          *)
Persist ==
    \/ /\ linkFile' = link'
       /\ UNCHANGED losses
    \/ /\ losses < MaxFileLosses
       /\ losses' = losses + 1
       /\ UNCHANGED linkFile

(* A template is registered or removed, or a reader logs a punch: the file  *)
(* is written with the link as it is.                                       *)
Enroll ==
    /\ UNCHANGED link
    /\ Persist
    /\ UNCHANGED <<recordVars, weekend, leaves, today, decision, withheld, corrections, starts>>

RequestPayrollLink ==
    /\ link # "APPROVED"
    /\ link' = "PENDING"
    /\ Persist
    /\ UNCHANGED <<recordVars, weekend, leaves, today, decision, withheld, corrections, starts>>

(* By the approver, whatever the state of the link. *)
DecidePayrollLink(approved) ==
    /\ link' = IF approved THEN "APPROVED" ELSE "REJECTED"
    /\ decision' = link'
    /\ Persist
    /\ UNCHANGED <<recordVars, weekend, leaves, today, withheld, corrections, starts>>

-----------------------------------------------------------------------------
(* What a run withholds *)

UpTo        == IF today <= LastDay THEN today ELSE LastDay
WorkingDays == {d \in 1..UpTo : d \notin weekend}
(* Slip: a leave without an end is taken to have none of its days. *)
OnEndedLeave(d) == \E l \in leaves : l.from <= d /\ l.to # Open /\ d <= l.to
OnLeave(d)      == \E l \in leaves : l.from <= d /\ (l.to = Open \/ d <= l.to)
PresentDays == {d \in 1..UpTo : attendance[d].status = "PRESENT"}
LeaveDays   == {d \in WorkingDays : OnLeave(d)}

AbsentDays ==
    LET left == Cardinality(WorkingDays) - Cardinality(PresentDays) - Cardinality(LeaveDays)
    IN  IF left > 0 THEN left ELSE 0

(* A draft of the run replaces the one before it. Attendance counts when   *)
(* the link is approved, the request wants it and the month has a record,  *)
(* of this worker or of others.                                            *)
WithholdAbsence(useAttendance, others) ==
    /\ withheld' = IF /\ link = "APPROVED" /\ useAttendance
                      /\ others \/ \E d \in Days : attendance[d].made
                   THEN AbsentDays ELSE 0
    /\ UNCHANGED <<recordVars, weekend, leaves, today, biometricVars,
                   corrections, losses, starts>>

(* A start loads the file, and the demonstration for the records; the       *)
(* settings, the leaves and the drafts of runs are lost.                   *)
StartAgain ==
    /\ starts < MaxStarts
    /\ starts' = starts + 1
    /\ link' = linkFile
    /\ attendance' = Demonstration(today)
    /\ corrected' = {} /\ leaves' = {} /\ weekend' = DefaultWeekend /\ withheld' = 0
    /\ UNCHANGED <<today, linkFile, decision, corrections, losses>>

AttendanceNext ==
    \/ \E d \in Days : \/ \E given \in {"TOGGLE", "IN", "OUT"} : Punch(d, given)
                       \/ \E o \in BOOLEAN : ImportFromDevice(d, o)
                       \/ SetDayStatus(d) \/ DeleteRecord(d)
                       \/ \E i, o \in BOOLEAN, s \in Statuses : UpdateRecord(d, i, o, s)
    \/ \E w \in Weekends : UpdateSettings(w)
    \/ \E l \in Leaves : ApproveLeave(l)
    \/ \E approved \in BOOLEAN : DecidePayrollLink(approved)
    \/ Enroll
    \/ RequestPayrollLink
    \/ \E u, others \in BOOLEAN : WithholdAbsence(u, others)
    \/ NextDay \/ StartAgain

AttendanceSpec == AttendanceInit /\ [][AttendanceNext]_attendanceVars

-----------------------------------------------------------------------------
(* Properties *)

Links == {"NOT_LINKED", "PENDING", "APPROVED", "REJECTED"}

AttendanceTypeOK ==
    /\ attendance \in [Days -> {NoAttendance} \union {Record(i, o, s) : i, o \in BOOLEAN, s \in Statuses}]
    /\ corrected \subseteq {d \in Days : attendance[d].made}
    /\ weekend \in Weekends /\ leaves \subseteq Leaves /\ today \in 1..(LastDay + 1)
    /\ link \in Links /\ linkFile \in Links
    /\ decision \in {"NONE", "APPROVED", "REJECTED"} /\ withheld \in 0..LastDay

(* "Presence is proved by punches only": a record nobody corrected shows    *)
(* presence only with a punch of coming, and a leaving only after it, in    *)
(* whatever order punches, imports, statuses and starts come (punch).       *)
PresenceIsPunched ==
    \A d \in Days \ corrected :
        /\ attendance[d].status = "PRESENT" => attendance[d].in
        /\ attendance[d].out => attendance[d].in

(* The link is in force only if that was the last decision, whatever was    *)
(* requested since and however often the process was started; a failed      *)
(* write may bring an older state back (persist, load).                     *)
LinkAsDecided == link = "APPROVED" /\ losses = 0 => decision = "APPROVED"

(* What a run withholds: days of work that have come, on which the worker   *)
(* was neither present nor on leave, and none unless the link is in force;  *)
(* and never fewer than those but for a presence on a weekly holiday or     *)
(* during a leave, which makes up for an absence (getMonthlySummary).       *)
Missed     == {d \in WorkingDays : attendance[d].status # "PRESENT" /\ ~\E l \in leaves :
                   d \in l.from..(IF l.to = Open THEN LastDay ELSE l.to)}
MakingUp   == {d \in 1..UpTo : attendance[d].status = "PRESENT"} \ (WorkingDays \ LeaveDays)

WithheldForAbsence ==
    [][withheld' > 0 /\ withheld' # withheld =>
         /\ link = "APPROVED"
         /\ withheld' <= Cardinality(Missed)
         /\ withheld' >= Cardinality(Missed) - Cardinality(MakingUp)]_attendanceVars

(* The records and the link mean what the screens say they mean. *)
AttendanceSound == PresenceIsPunched /\ LinkAsDecided
=============================================================================
