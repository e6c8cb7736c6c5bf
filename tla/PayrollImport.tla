---------------------------- MODULE PayrollImport ----------------------------
(***************************************************************************)
(* Committing imported payroll sheets (PayrollImportService.commitImport   *)
(* and the route around it): for every month of a batch an entry, a record *)
(* in a file and the instalments of the advances; the route then posts and *)
(* stores the entries, unless one of the months was refused. An entry is   *)
(* marked with its month, and the mark is not stored.                      *)
(*                                                                         *)
(* The advances are those of one worker, who is found by name; those of a  *)
(* worker who is not found stay as they are. The opening of the month is   *)
(* Journal!EnsureOpenPeriod. Amounts are in mills.                         *)
(***************************************************************************)
EXTENDS Integers, FiniteSets, FiniteSetsExt, SequencesExt

CONSTANTS
    Batches,       \* what clients commit: sequences of [month, loan, sound]
    Granted,       \* the advances the worker is granted, in this order
    MaxImported,   \* bound: entries ever
    MaxRestarted      \* bound: restarts

SheetMonths == {s.month : s \in UNION {Range(b) : b \in Batches}}

ASSUME PayrollImportAssumption ==
    /\ Granted \in Seq(Nat \ {0})
    /\ MaxImported \in Nat /\ MaxRestarted \in Nat
    /\ \A b \in Batches : b \in Seq([month: Nat, loan: Nat, sound: BOOLEAN])

VARIABLES
    imported,   \* the entries of the sheets, in the order of their creation
    filed,      \* records of each month in the file of imports
    loans,      \* of each advance: [status, paid]
    restarted      \* restarts so far

payrollImportVars == <<imported, filed, loans, restarted>>

LoanIds == DOMAIN Granted

PayrollImportInit ==
    /\ imported = << >>
    /\ filed = [m \in SheetMonths |-> 0]
    /\ loans = [a \in LoanIds |-> [status |-> "ABSENT", paid |-> 0]]
    /\ restarted = 0

-----------------------------------------------------------------------------
(* One month of a batch *)

(* Slip: only posted entries count as the import of a month. *)
EnteredAndPosted(entries, m) ==
    \E i \in DOMAIN entries :
        entries[i].inMemory /\ entries[i].marked /\ entries[i].month = m
            /\ entries[i].status = "POSTED"

(* An entry in memory, whatever its status, carries the mark of the month. *)
Entered(entries, m) ==
    \E i \in DOMAIN entries : entries[i].inMemory /\ entries[i].marked /\ entries[i].month = m

NewImport(sheet) ==
    [month |-> sheet.month, loan |-> sheet.loan, status |-> "DRAFT",
     marked |-> TRUE, inMemory |-> TRUE, stored |-> FALSE, session |-> restarted]

SmallerOf(x, y) == IF x <= y THEN x ELSE y

(* The newest active advance receives the instalment, up to what is owed;  *)
(* a mill counts as nothing.                                               *)
Deducted(ls, x) ==
    LET active == {a \in LoanIds : ls[a].status = "ACTIVE"}
        a      == Max(active)
        due    == SmallerOf(x, Granted[a] - ls[a].paid)
        paid   == ls[a].paid + due
    IN  IF x <= 0 \/ active = {} THEN ls
        ELSE IF due <= 1 THEN ls
        ELSE [ls EXCEPT ![a] = [status |-> IF paid >= Granted[a] - 1 THEN "SETTLED" ELSE "ACTIVE",
                                paid   |-> paid]]

(* A sheet whose entry is refused ends the batch: createJournalEntry throws. *)
CommitMonth(book, sheet) ==
    IF book.refused \/ Entered(book.imported, sheet.month) THEN book
    ELSE IF ~sheet.sound THEN [book EXCEPT !.refused = TRUE]
    ELSE [refused  |-> FALSE,
          imported |-> Append(book.imported, NewImport(sheet)),
          filed    |-> [book.filed EXCEPT ![sheet.month] = @ + 1],
          loans    |-> Deducted(book.loans, sheet.loan)]

-----------------------------------------------------------------------------
(* POST /api/payroll/import-commit: after a batch without refusal its      *)
(* entries are approved and posted in the name of the system administrator *)
(* and written to the database.                                            *)
Commit(batch) ==
    LET book == FoldLeft(CommitMonth, [refused |-> FALSE, imported |-> imported,
                                       filed |-> filed, loans |-> loans], batch)
        fresh(i) == i > Len(imported) /\ ~book.refused
    IN  /\ Len(book.imported) <= MaxImported
        /\ imported' = [i \in DOMAIN book.imported |->
              IF fresh(i) THEN [book.imported[i] EXCEPT !.status = "POSTED", !.stored = TRUE]
                          ELSE book.imported[i]]
        /\ filed' = book.filed
        /\ loans' = book.loans
        /\ UNCHANGED restarted

(* The journal's own routes: posting updates no row that was not inserted. *)
PostByHand(i) ==
    /\ imported[i].inMemory /\ imported[i].status = "DRAFT"
    /\ imported' = [imported EXCEPT ![i].status = "POSTED"]
    /\ UNCHANGED <<filed, loans, restarted>>

ReverseByHand(i) ==
    /\ imported[i].inMemory /\ imported[i].status = "POSTED"
    /\ imported' = [imported EXCEPT ![i].status = "REVERSED"]
    /\ UNCHANGED <<filed, loans, restarted>>

DeleteByHand(i) ==
    /\ imported[i].inMemory /\ imported[i].status # "POSTED"
    /\ imported' = [imported EXCEPT ![i].inMemory = FALSE]
    /\ UNCHANGED <<filed, loans, restarted>>

GrantAdvance ==
    \E a \in LoanIds :
        /\ loans[a].status = "ABSENT"
        /\ \A b \in LoanIds : b < a => loans[b].status # "ABSENT"
        /\ loans' = [loans EXCEPT ![a].status = "ACTIVE"]
        /\ UNCHANGED <<imported, filed, restarted>>

(* The rows come back without their marks; advances are in memory only. *)
LoseMemory ==
    /\ restarted < MaxRestarted /\ restarted' = restarted + 1
    /\ imported' = [i \in DOMAIN imported |->
          [imported[i] EXCEPT !.inMemory = imported[i].stored, !.marked = FALSE]]
    /\ loans' = [a \in LoanIds |-> [status |-> "ABSENT", paid |-> 0]]
    /\ UNCHANGED filed

ByHand(i) == PostByHand(i) \/ ReverseByHand(i) \/ DeleteByHand(i)

PayrollImportNext ==
    \/ \E b \in Batches : Commit(b)
    \/ \E i \in DOMAIN imported : ByHand(i)
    \/ GrantAdvance \/ LoseMemory

PayrollImportSpec == PayrollImportInit /\ [][PayrollImportNext]_payrollImportVars

-----------------------------------------------------------------------------
(* Properties *)

PayrollImportTypeOK ==
    /\ imported \in Seq([month: SheetMonths, loan: Nat, status: {"DRAFT", "POSTED", "REVERSED"},
                         marked: BOOLEAN, inMemory: BOOLEAN, stored: BOOLEAN, session: Nat])
    /\ filed \in [SheetMonths -> Nat]
    /\ loans \in [LoanIds -> [status: {"ABSENT", "ACTIVE", "SETTLED"}, paid: Nat]]
    /\ restarted \in Nat

InLedger(i) == imported[i].inMemory /\ imported[i].status = "POSTED"
OfSession   == {i \in DOMAIN imported : imported[i].session = restarted}

PaidBack ==
    LET paid == [a \in LoanIds |-> loans[a].paid]
    IN  MapThenSumSet(LAMBDA a : paid[a], LoanIds)

DeductedInSession ==
    LET loan == [i \in DOMAIN imported |-> imported[i].loan]
    IN  MapThenSumSet(LAMBDA i : loan[i], OfSession)

(* Between two starts a month reaches the ledger once, whatever batches    *)
(* are committed again after a refusal, a deletion or a reversal; over     *)
(* several starts it may do so once for each.                              *)
MonthsOnce ==
    \A m \in SheetMonths :
        /\ Cardinality({i \in OfSession : InLedger(i) /\ imported[i].month = m}) <= 1
        /\ Cardinality({i \in DOMAIN imported : imported[i].stored /\ InLedger(i)
                                                /\ imported[i].month = m}) <= 1 + restarted

(* The advances receive no more than the entries of the sheets credit to   *)
(* their account, deleted ones included; an advance is never overpaid and  *)
(* is settled when it was paid but for a mill or less.                     *)
LoansCovered ==
    /\ PaidBack <= DeductedInSession
    /\ \A a \in LoanIds :
          /\ loans[a].paid <= Granted[a]
          /\ loans[a].status = "SETTLED" <=> loans[a].paid > 0 /\ loans[a].paid >= Granted[a] - 1

(* What a batch leaves unposted it leaves unstored as well, and the file   *)
(* of imports names each of the entries it ever made, those included that  *)
(* a refusal or a restart kept from the ledger.                            *)
RecordsOfAll ==
    /\ \A i \in DOMAIN imported : imported[i].status = "DRAFT" => ~imported[i].stored
    /\ \A m \in SheetMonths :
          filed[m] = Cardinality({i \in DOMAIN imported : imported[i].month = m})

PayrollImportSound == MonthsOnce /\ LoansCovered /\ RecordsOfAll
=============================================================================
