------------------------------ MODULE MCPeople -------------------------------
(***************************************************************************)
(* What people bring into the books, on small instances: payroll and       *)
(* attendance, imported sheets and files, the chart of accounts and its    *)
(* reports, and entries drafted by an assistant or dictated. As far as     *)
(* they are modelled here these services share no state, so they are       *)
(* checked side by side: a behaviour is a behaviour of one of them while   *)
(* the others rest.                                                        *)
(***************************************************************************)
EXTENDS Payroll, Attendance, AssistedEntries, MCCsvImport,
        PayrollImport, ChartOfAccounts

VARIABLE part   \* the service that runs

(* A salary of 50.00, an advance whose last instalment is smaller and has  *)
(* half a piaster, and a deduction of half a piaster.                      *)
MCSalary      == [w \in {"w1"} |-> 5000]
MCContracts   == {[worker |-> "w1", amount |-> 3005, instalment |-> 2000]}
MCAffairForms == {[worker |-> "w1", type |-> "DEDUCTION", month |-> 1, amount |-> 5]}

(* The second day is a holiday, or no day is; a leave has no end. *)
MCWeekends       == {{2}, {}}
MCDefaultWeekend == {2}
MCLeaves         == {[from |-> 1, to |-> Open]}

(* Two months, of which the second may be refused; a loan beyond the advance. *)
MCSheet(m, x, sound) == [month |-> m, loan |-> x, sound |-> sound]
MCBatches == {<<MCSheet(1, 800, TRUE)>>,
              <<MCSheet(1, 800, TRUE), MCSheet(2, 700, FALSE)>>,
              <<MCSheet(1, 800, TRUE), MCSheet(2, 700, TRUE)>>}
MCGranted == <<1000, 601>>

(* Two unified charts of one size, accounts under an account of both, under *)
(* an imported one and under one added before, and entries that find their  *)
(* accounts by id and by code, one of which is a heading at first.          *)
MCRow(code, group, type) == [code |-> code, group |-> group, type |-> type]
MCFirstFile == {MCRow("1101", "11", "ASSET"), MCRow("4001", "40", "REVENUE")}
MCFiles     == {MCFirstFile, {MCRow("1101", "11", "ASSET"), MCRow("3002", "40", "EXPENSE")}}
MCMoments   == <<"t1", "t2">>
MCParents   == {UnifiedId("1101"), ImportedId("2101"), AddedId("t1")}
MCSubmit(d, c, amount) == [debit |-> d, credit |-> c, amount |-> amount]
MCLedgerRequests ==
    {MCSubmit(UnifiedId("1101"), ByCode("3002"), 1), MCSubmit(ByCode("11"), ByCode("2101"), 2)}

-----------------------------------------------------------------------------
peopleVars == <<part, payrollVars, attendanceVars, draftVars, voiceVars, csvVars,
                payrollImportVars, chartVars>>

Init ==
    /\ part \in {"payroll", "attendance", "drafts", "voice", "csv", "sheets", "chart"}
    /\ PayrollInit /\ AttendanceInit /\ DraftsInit /\ VoiceInit /\ PayrollImportInit
    /\ CsvInit /\ (folder = {} \/ part = "csv")
    /\ ChartInit

Next ==
    \/ /\ part = "payroll" /\ PayrollNext
       /\ UNCHANGED <<part, attendanceVars, draftVars, voiceVars, csvVars,
                      payrollImportVars, chartVars>>
    \/ /\ part = "attendance" /\ AttendanceNext
       /\ UNCHANGED <<part, payrollVars, draftVars, voiceVars, csvVars,
                      payrollImportVars, chartVars>>
    \/ /\ part = "drafts" /\ DraftsNext
       /\ UNCHANGED <<part, payrollVars, attendanceVars, voiceVars, csvVars,
                      payrollImportVars, chartVars>>
    \/ /\ part = "voice" /\ VoiceNext
       /\ UNCHANGED <<part, payrollVars, attendanceVars, draftVars, csvVars,
                      payrollImportVars, chartVars>>
    \/ /\ part = "csv" /\ CsvNext
       /\ UNCHANGED <<part, payrollVars, attendanceVars, draftVars, voiceVars,
                      payrollImportVars, chartVars>>
    \/ /\ part = "sheets" /\ PayrollImportNext
       /\ UNCHANGED <<part, payrollVars, attendanceVars, draftVars, voiceVars,
                      csvVars, chartVars>>
    \/ /\ part = "chart" /\ ChartNext
       /\ UNCHANGED <<part, payrollVars, attendanceVars, draftVars, voiceVars,
                      csvVars, payrollImportVars>>

Spec == Init /\ [][Next]_peopleVars

(* The types of all these services. *)
PeopleTypeOK ==
    /\ PayrollTypeOK /\ AttendanceTypeOK /\ DraftsTypeOK /\ VoiceTypeOK
    /\ CsvTypeOK /\ PayrollImportTypeOK /\ ChartTypeOK

(* Neither a file nor a payroll sheet enters the books twice, but for the   *)
(* cases each of the two states: colliding identifiers, a folder that grew, *)
(* a restart between two commits of a month. And the reports agree although *)
(* the chart is imported, extended and merged under the entries, but for    *)
(* the lines ReportsReconcile names (csv-import.service.ts,                 *)
(* payroll-import.service.ts, reports.service.ts).                          *)
ImportsSound == CsvSound /\ PayrollImportSound /\ ReportsReconcile
=============================================================================
