# A verified model of union-erp

TLA+ modules, TLC runs and TLAPS proofs for the parts of union-erp whose errors
would cost money or evidence: the general journal with what feeds it (receipts,
payroll, imports, drafts of assistants, dictation), the hash chain over it, both behind
the database and across restarts, the audit log that several servers share, the rules
of law the program enforces, and the services that wait for others (tax portal,
offline queue, caches, coding agent). Every definition is translated from the
TypeScript under `src/`; `PROJECT.json` gives the lines of each one.

## 1. Inventory of the system

union-erp is a Node/Express server (`server.ts`, `server/`) with a React front
end (`src/src`). All data live in one in-memory store
(`server/db/store.ts`); PostgreSQL is written behind it by a storage manager
(`server/db/postgresSync.ts`) and read at start. The services are synchronous
classes over the store, so a request handler is one atomic step until it awaits.

| Component | State | Operations | What is hard | What makes it correct |
|---|---|---|---|---|
| General journal (`accounting.service.ts`) | entries, account balances, accounting history | create, submit, approve, post, reverse, delete | orders of calls by users with different powers; refusals with side effects; rounding | posting exactly once, four eyes, mirrored reversals, balances explained by postings |
| Fiscal periods (`server.ts`, `payroll-import.service.ts`) | status of each month | register, close, reopen, reopen by import | closing between creation and posting; reversals dated today | a closed month is frozen |
| Subledger parties (`accounting.service.ts`, `server.ts`) | parties, aliases, totals | create, auto-create, merge | stale ids, merge between entry and reversal, merge into itself | subledger reconciles with its control account |
| Ledger chain (`ledger-chain.service.ts`) | previousHash, currentHash, chainIndex of entries | append, rebuild, verify | the hash covers a status that changes; index order against date order | edits are and stay visible; every break has a reason |
| Audit log (`store.ts`, `audit-chain.service.ts`, `postgresSync.ts`) | events in memory, rows, cached end, promise queue | record, write, reload, backfill, load, verify | several servers, lost answers, failed reads, crashes, equal milliseconds | one chain without gap or fork; nothing lost |
| Journal persistence (`postgresSync.ts`) | rows of entries and lines | insert, update status, load, seal at start | writes that are not awaited, ignored conflicts, crash between writes | the database agrees with memory; nothing returns or vanishes at a restart |
| Chart of accounts and reports (`server.ts`, `store.ts`, `reports.service.ts`) | accounts, index of accounts, table of accounts | add, import, replace, look up, merge at start; trial balance, balance sheet, income, cash | an index built anew by size only, headings with entries, accounts in no table | the reports agree; every missing line has a reason |
| Reports and their cache (`reports.service.ts`, `cache.service.ts`, `dashboard.service.ts`) | entries of the cache in memory and in Redis | get, wrap, invalidate | nested entries, a report computed before a write stored after it | a stale report does not outlive its lifetimes |
| Receipts (`receipts.service.ts`) | receipts | issue | two objects, refusal in the middle, rounding of shares | a receipt has its entry, shares sum up |
| Payroll, advances (`payroll.service.ts`, `employee-affairs.service.ts`) | runs, advances, bonuses and deductions | generate, approve, post, pay, delete | advances change between generation and posting | withheld = credited, up to rounding |
| Attendance (`attendance.service.ts`, `biometric.service.ts`) | records of days, leaves, weekly holidays, the link to payroll and its file | punch, import, correct, request, decide | any order of days; state that is lost while the link survives | presence is punched; withheld only under the link and for absence |
| Imports (`csv-import.service.ts`, `payroll-import.service.ts`) | files, entries, records of months | load at start, upload, commit | identifiers that must be the same at every start; marks that are not stored | imported once |
| AI drafts (`ai-drafts.service.ts`) | draft records | issue, verify, consume, evict | expiry, eviction, double confirmation | a draft is executed at most once |
| Dictated entries (`voice-journal.service.ts`) | drafts and their entries | dictate, update, approve, reject | approval that stops half-way | one dictation, one posting |
| Accounting core v2 (`accounting-core.service.ts`) | its own entries, balances, history, parties | create, post, reverse | repeatable reversal, ignored verdicts | its three records agree |
| Rules of statute and financial regulation (`financial.service.ts`, `statute.service.ts`, their data) | stage of enforcement | check a form | partial forms, defaults, boundaries | no verdict is taken back; verdicts agree with the limits |
| Settings of the regulation (`regulation.service.ts`) | thresholds, pending writes | configure, load | queued writes that fail, start without the table | what was answered stays |
| Taxes (`tax.service.ts`, `tax-egypt.ts`) | none | tax on pay, on profits, withholding | brackets, rounding, steps | parts make the whole; a rise pays |
| E-invoicing (`eta.service.ts`, `eta/`) | file of documents | submit, verify, cancel | awaits before writes, lost answers, a file rewritten in place | what the portal accepted is on file, with a status it gave |
| Tool swarm (`swarm/task-state.service.ts`) | tasks, plans, steps | plan, run, replan | overlapping runs | plan grows once, verdict follows the last answer |
| Jules tasks (`jules.service.ts`, `JulesDashboard.tsx`) | cache of requests, locks, ids of the page | create, approve, message | lost answers, unknown outcomes, a plan made anew | not carried out twice in the window; what starts was reviewed |
| Offline queue (`offlineSync.ts`) | queue, localStorage | enqueue, sweep, clear, remove | awaits in a loop over an array that changes | nothing lost, nothing stuck, repeated only after a lost answer |

Everything else (assistants, OCR, regulations library, committees, funds, portal
data, metrics, embedded PostgreSQL, front end, scripts) is listed with its reason
under `components` in `PROJECT.json` and in section 6.

How they interact: receipts, payroll runs, imports, dictation and confirmed AI drafts
call `createJournalEntry` and `postJournalEntry`; posting calls `appendToLedgerChain`;
creation asks the settings of the regulation; every handler calls `recordAudit`, whose
hook hands the event to the queue of the storage manager; routes call the storage
manager after the service, mostly without waiting for it. Payroll reads attendance and
advances when a run is drafted and advances again when it is posted. The offline
queue, the cache, Jules, the swarm, the tax portal and the second accounting engine
keep state of their own that no other part writes.

## 2. Modules

| Module | Models | Run |
|---|---|---|
| `Journal` | the journal with periods and parties | `journal_receipts`, `journal_parties` |
| `ReceiptBook` | receipts, composed with `Journal` (EXTENDS it) | `journal_receipts` |
| `LedgerChain` | the chain, composed with `Journal` (EXTENDS it and conjoins its actions) | `ledger_chain` |
| `JournalStore` | journal and chain behind the database: calls at work, stop, loading and sealing (EXTENDS `LedgerChain`) | `journal_store` |
| `AuditTrail` | abstract: a trail that only grows, no event twice, no server going back in time | |
| `AuditLog` | the audit log in memory and in the database, several servers; implements `AuditTrail` | `queues` |
| `OfflineQueue` | the client's queue of operations | `queues` |
| `FinancialRules`, `StatuteRules` | the rules as data and their evaluation | `ledger_chain` |
| `RegulationChecks` | checking forms that are filled field by field | `ledger_chain` |
| `RegulationSettings` | settings of rules and their writes | `ledger_chain` |
| `TaxRules` | brackets, exemption, withholding | `ledger_chain` |
| `EtaDocuments` | documents between the program, its file and the portal | `ledger_chain` |
| `AccountingCore` | the second engine | `services` |
| `ReportCache` | both layers of the cache and the nested reports | `services` |
| `SwarmTasks` | tasks of the tool swarm | `services` |
| `JulesRequests` | requests to Jules | `services` |
| `Payroll` | runs and advances | `people` |
| `Attendance` | attendance of a worker and what is withheld | `people` |
| `OneTimeConfirmation` | abstract: a draft is used at most once, a lost one stays lost | |
| `AiDrafts` | the store of drafts; implements `OneTimeConfirmation` | `people` |
| `VoiceDrafts` | dictated drafts and their entries | `people` |
| `AssistedEntries` | both of them side by side, which share no state | `people` |
| `CsvImport` | files of entries, starts, uploads, the merge with the table | `people` |
| `PayrollImport` | commits of payroll sheets | `people` |
| `ChartOfAccounts` | the chart, its index and table, and the reports over it | `people` |

`MCReceiptBook`, `MCJournal`, `MCLedgerChain`, `MCLedgerAndRules`, `MCRegulationForms`,
`MCJournalStore`, `MCQueues`, `MCServices`, `MCPeople` and `MCCsvImport` give small
instances. The proofs are in `JournalProofs` and `BooksProofs` (`Journal`), `LedgerProofs`
(`LedgerChain` and `JournalStore`), `AuditLogProofs` (`AuditLog` and `OfflineQueue`), `LawProofs` (`RegulationSettings`,
`EtaDocuments`), `ServiceProofs` (`JulesRequests`, `SwarmTasks`,
`ReportCache`, `AccountingCore`) and
`PeopleProofs` (`AssistedEntries`, `Attendance`, `Payroll`, `PayrollImport`, `CsvImport`,
`ChartOfAccounts`); `FiniteFacts` has the lemmas on sums, orders and folds they share.

`MCLedgerAndRules`, `MCQueues`, `MCServices` and `MCPeople` put several components side
by side. These share no state in the program, so no interleaving of their steps can
matter; a variable `part` says whose behaviour it is, and the state space is the sum of
theirs and not the product (in `MCQueues`, where fairness is stated, likewise).
Components that do share state are composed properly: receipts and chain with the
journal, the store with both.

An operator whose comment begins with "Slip" is a plausible mistake in the code.
It is not part of the specification: putting it in the place of the definition
it follows makes the property named in `PROJECT.json` fail, which shows that the
property depends on that piece of the code.

### Journal

Every handler is synchronous, so each is one action: `CreateJournalEntry`,
`SubmitJournalEntry`, `ApproveJournalEntry`, `PostJournalEntry`,
`ReverseJournalEntry`, `DeleteJournalEntry`, `SetPeriodStatus`,
`EnsureOpenPeriod`, `CreateParty`, `MergeParties`. A refused request is an
action of its own where it leaves a trace (`RefuseJournalEntry`,
`RefuseReversal`: a registered period, parties created for the lines before the
bad one). The rules of the financial regulation are data; they may refuse any
entry, so a refusal is always possible.

* An entry is a record of status, month, type, number and the users who made,
  approved and posted it; `lines` maps each account of the entry to party, debit
  and credit. One line per account is the only restriction of the requests.
* A request is in mills, a recorded line in piasters: `ToPiasters` is the code's
  `Math.round(x * 100) / 100`, applied after the unrounded totals are compared.
* `history[e]` counts how often the lines of an entry were applied; in the code
  this is the accounting history of the entry's id.
* `partyBalance` is `totalDebit - totalCredit`; `alias` is the first alias of a
  name, the one `find` returns. A party is identified by its account and name. An
  id that names no party (one removed by a merge, or a wrong one) is `Unknown`.
* Permissions are the sets `Recorders`, `Managers`, `Approvers`, `Exempt`
  (`security/permissions.ts`).
* The seeded entries and opening balances are left out: balances count from the
  start of the model, which begins with the first month open and no entry.
* Left out: names and warnings, cost centres, government codes, organisations.

### ReceiptBook

`IssueReceipt` is the whole call: the shares (`Shares`, all but the last rounded, the
last takes the rest), the entry with its parties, and for a collector who posts by
himself the approval and posting, then the receipt. `RefuseReceipt` is a call refused
half-way. The journal's handlers go on working on the entry. Two slips make the shares
unrounded or record the receipt of a refused call. A rule of a collection names an account
and a party once, and not the account of the cash, as an entry of the model has one line
per account; its percentages make 100 to a hundredth, which the route checks.

### LedgerChain

SHA-256 is taken to be injective, so a hash is the sequence of the contents it
covers. An entry's content is its id (which stands for number, date, amounts
and line ids, fixed at creation), its status, the lines it has (a loaded entry may
have lost some), and a counter of edits made outside the program. `PostAndSeal`,
`ReverseAndSeal` and `DeleteSealed` are the
journal's actions together with what they do to the hashes; `Unsealing` are the
journal's other steps. Periods and parties have no effect on the chain and are
left out of this composition. `Sorted`, the sort of the code by date and index, is stated as
the one sequence of the set in that order, in the form the proofs need (so is `ByTime` of
`AuditLog`).

### JournalStore

The requests of `LedgerChain` together with the calls they make to the database:
`writes[e]` holds the calls at work for entry `e`. A call takes its values at the
end of its request (`Call`). Calls are worked off in any order, because each takes
its own connection of the pool. `persistJournalEntry` is one step for the row
(`InsertEntry`, or `InsertIgnored` when the unique number is taken) and one step
for each line (`InsertLine`); `updateJournalEntryStatus` is `UpdateEntry`, which
changes nothing while there is no row; a failure (`WriteFails`) drops the rest of
a call. `DeleteEntry` and `RebuildChain` reach no table, as in `server.ts`; the entry
of a receipt is never inserted.

`Restart` may come at any time, also during a start: calls at work are forgotten,
memory becomes what the tables hold, balances become those stored when the
tables were first filled. Who posted an entry and the link to its reversal are not
loaded. `SealPersistedJournalChain` seals everything anew if one row has no hash and
`SealRow` stores the hashes one at a time; only then requests are served (`Serve`).

* `born` and `clock` are milliseconds, of which a line id consists; two entries of
  one millisecond share line ids, and the later line is ignored.
* `disturbed` collects the entries for which the code gives no promise: a call for
  them failed, was ignored or was overtaken by a later one, or a rebuild changed
  their hash in memory only. `RowsFollowMemory` is about all the others. It is
  cleared by a stop, so it promises again what was loaded.
* The stored chain index is left out of `RowsFollowMemory`. A start that seals stores only the
  rows whose hash changed, and a hash does not cover the index: an index may stay stale, two
  stored entries may share one after the next start, and a posting may then be linked to the
  wrong one of them. A first version of the property compared the index and was false.
* Left out: seeding, the writes of the imports and
  of the AI route, older hash formats. The order of entries of one date after
  loading is taken to be the order of their creation, as the sort in the code gives
  for rows that come back in insertion order.

### AuditLog

A server is down, connecting, backfilling, hydrating, up, or offline (working
without a database). Each task of the promise queue is cut at its awaits: one
step inserts (`WriteAuditLog`, `WriteIgnored` or `WriteFails`, where the insert
may have taken effect), and a second one reads the end of the chain again after
a conflict (`ReloadTip`). `Connect` is `initialize`, including the event it
writes by itself after it sealed the journal; `Backfill` and `Hydrate` are the
two steps of `server.ts` that follow. `Crash` loses everything but the table.
The clock is common to the servers: events carry milliseconds and several may
share one.

### OfflineQueue

`Enqueue` covers both ways an operation gets into the queue: issued offline, or failed
on the network although the server may have created it. `SyncPending` begins a sweep
(interval, online event or button), `RequestStep` is what happens between two awaits,
`RemoveQueueItem`, `ClearCompleted`, `OnlineEvent`, `OfflineEvent` and `Reload` come in
between. `received` counts what the server created, `unknown` the answers the client
lost. One window, as the desktop application has.

### FinancialRules, StatuteRules, RegulationChecks

A rule of the financial regulation is a record of its actions, its conditions of
application (`when`) and its demands, as in `financial-rules.ts`; a condition passes,
fails or is undetermined while its field or the limit it is compared with is missing.
A rule of the statute is the set of violations a completed form makes of it.
`RegulationChecks` fills a form one field at a time (`Enter`) with the values on both
sides of every limit that occurs in a rule of the action, checks it after each field,
and starts the server again with another stage or in a later month
(`RestartWithStage`). Articles, searches and texts are left out; of the effective date
only the month is kept. What the check of the source shows, where no property can say it:

* `DecidesByAbsence` lists the fields whose absence decides, although
  financial.service.ts:279 and statute.service.ts:433 promise no block without data:
  limits are chosen without knowing region, kind of bid or level, and some neutral values
  of the statute are not the mildest. A discipline without penalty, and any budget
  without a date once the process was started after October, are blocked while nothing
  is said about them. The default date is taken when the module is loaded.
* The board of the client checks `BOARD_MEETING` and `CONTRACT_AWARD`, which no rule of
  the statute names, so only the rules for every action apply; and it looks for
  `ACCEPTED` where the server answers `INFO`.
* Some rules decide less or more than their text: FR-GATE-021 demands the discount on
  every travel allowance, FR-GATE-023 caps every expense approval, FR-GATE-029
  blocks every contract with a related party, FR-GATE-049 asks a sale to go to the
  lowest bid. Government suppliers are exempt from the ladder of methods, not from the
  limit of the limited tender (`LadderFitsLimits` says so).

### RegulationSettings

`Configure` changes the rule in memory, puts a write behind the earlier writes of that
rule and waits for the last write of every rule; `WriteSetting` and `SettingFails` end a
write, `Settle` lets the requests go on; `StartWithSettings` is a start that may fail to
read the table. A setting whose write failed is in force although the request was
refused, and no event of the audit log names it: `AnsweredSettingsStay` says which
settings stay, and lists that exception.

### TaxRules

The brackets, the exemption and the withholding table are data of the module. Amounts are
in piasters, and a product of half a piaster is taken to be rounded up as in decimals. The
deduction from payments to suppliers has a step at the least invoice (a supplier is paid
less for 301 than for 300); `StepsAreBounded` says where and how far. Value added tax is
left out; its route reads `Number(rate) || undefined`, so a rate of zero becomes 14 percent.

### EtaDocuments

A request asks the portal (`Submit`, `Verify`, `Cancel`), the portal carries it out
(`Handle`) and decides (`DecideOn`), an answer may be given up (`StopWaiting`), and what is
answered is written to the file (`Finish`); `Simulate` is the service without credentials;
`Stop` may cut the file that is being rewritten, which the next start reads as empty. The
portal is external and modelled from how it is used. Normalizing (`Normalized`) takes
INVALID and SUBMITTED for VALID, since the pattern matches inside the word, and REJECTED
for SUBMITTED; `StatusesAreTrue` excepts what is guessed like that, and a verification
that was answered before a cancellation and written after it. A retry gets a fresh uuid,
so a lost answer may submit an invoice twice.

### AccountingCore

`CreateCoreEntry` and `RefuseCoreEntry` (a refusal of the financial check, which uses the
reference up), `PostCoreEntry`, `ReverseCoreEntry`, `CreateCoreParty`. Lines
are one per account, in mills, rounded to whole piasters on the way in. A reversal is
created and posted without a look at the verdict, and nothing marks the original, so it
may be reversed again; `CoreReversalsCancel` says that each of them still takes back exactly
what its original put there. The check of the cash ceiling is undetermined for what the engine
derives, because that payload names no level (accounting-core.service.ts:439 says it is measured).

### ReportCache

The books are a version, a cached value the versions of the parts it was computed from.
`ReadSync` is a report, snapshot or context; `AskSummary` goes through Redis, whose one
connection answers in order (`Answer`) or fails. `WriteAndInvalidate` is a route that
invalidates, `WriteOnly` one that does not, such as the workflow of the journal. `Tick`
is time. `StalenessBounded` adds the lifetimes of nested entries (up to 120 s in the
code), `InvalidationHolds` is what an invalidation leaves behind: a summary that was
computed meanwhile from the old report, because memory is emptied after Redis has answered.

### SwarmTasks

`RunStep` starts a step, `ToolAnswers` ends it; `RunAll`, `RunNext`, `EndRunAll` are the
loop over a task. A step of a lacking permission, a failed step and its replacement
are as in `runSwarmStep`. The verdict may be given while another step is running and is
then given again; a task whose replacement may not be run keeps the status it had; the
field `maxRetries` is read nowhere.

### JulesRequests

Windows send `Create`, `Approve` and `SendMessage` under ids of the page; the server reads the
state and the plan before it posts (`ReadState`, `ReadPlan`, `ReadAndPost`), remembers
the outcome for ten minutes (`KeepFor`), forgets a definite refusal (`Forgotten`) and
keeps a lock per session. Google accepts (`GoogleAccepts`) at any time after the sending,
also after the server gave up. `ApprovedAsReviewed` lists the two ways in which another
plan may start; the call that approves names no plan.

### Payroll

`MonthStep` (draft, approve, post, delete of a run), `AdvanceStep` (grant, pay in cash, settle,
delete) and `AffairStep` (bonuses and deductions with approval). A run keeps
what it withheld when it was drafted, and posting divides it over the advances
there are then. `CreditedAtMostWithheld` is the direction the code keeps; the other one
fails, as an advance may be settled in between.

### Attendance

One worker, one month; a record of a day has a coming, a leaving and a status. `StartAgain`
loses records, leaves and settings and keeps the link, since only the link has a file; days
are then filled with a pattern for demonstration, so runs withhold by that pattern.
A write of the file that fails is swallowed, and an older decision may return
(`LinkAsDecided` excepts it). `UpdateRecord` may set presence without a punch;
`PresenceIsPunched` is about the records nobody corrected.

### AiDrafts and OneTimeConfirmation

`IssueDraft` evicts before it adds, `ExecuteEntry` consumes the token and then makes the
entry, `ExecutionFails` consumes it and makes none, `RefuseExpired` is a token that came
late, `RestartDrafts` forgets all. `records` is the set of ids in the store: drafts are added
in the order of their ids, so the order of the code's Map is that of the numbers. The abstract specification has one variable per draft,
its fate, and the number of entries made; the mapping reads both off the records.

### VoiceDrafts

`ApproveAndPost` makes the entry and takes it as far as the approver may; when he may not
approve an entry of his own, the draft stays APPROVED and its entry SUBMITTED, and
another user goes on with it (`FollowUp`). Approving the draft again makes another entry,
rejecting or editing it does not reach the first; `VoicePostsOnce` allows just that.

### CsvImport

Every start empties the journal, imports the files of the folder in the order of their names
and merges with the table: `StartInMemory`, `StartAndSeed`, `StartAndMerge`. `ImportFile` is
the whole import of a file with its identifiers (`ClaimIdentifier`) and its signatures
(`KnownSignatures`); `Upload` is the route, `ApplyUnifiedChart` the upload of a chart,
which empties the journal. `AddFile` is an administrator's. A group of lines is an entry with a
text and a sum; parties, the chain (`LedgerChain`) and reports of errors are left out.
`StartsAgree` is about a folder that stays as it was seeded. The code promises nothing when a file is
added that sorts before others: suffixes shift, an entry's old content comes in again under
a new id while its new content meets an id that is there and is dropped. A number
taken by another row keeps an entry out of the table; uploads live until the next start.
Whether an entry is posted is not part of its signature.

### PayrollImport

`Commit` is the route: the months of a batch one after the other (`CommitMonth`), then the
approval, posting and storing of what was made. A refused month ends the batch with an error,
and the months before it stay in memory as drafts, recorded in the file and deducted from
advances, but neither posted nor stored; they can be posted by hand (`PostByHand`), and even then
no row is there to update. The mark that keeps a month from being imported again is
not stored (payroll-import.service.ts:623 calls it the prevention of duplicates), so after
a start (`LoseMemory`) or a deletion the month may be committed once more, and its instalments
deducted once more; a reversed entry, on the other hand, still blocks its month.
`MonthsOnce`, `LoansCovered` and `RecordsOfAll` say what remains true.

### ChartOfAccounts

`AddAccount` is the form, `CreateByAssistant` the assistant, `ImportAccount` a row of an import,
`ReplaceChart` the import of a unified chart, `StartWithFile` a stop and the next start. `Persisted`
is the write of an account, which updates names when the code is in the table. `LookUp` is any
handler that looks an account up and changes nothing: the index is built anew when its *size*
differs from the chart's, so after the import of a chart of equal size entries may be made on
accounts that are gone, until an account is added. `shared` says whether the index holds the
very objects of the chart, so that a heading set in one shows in the other.
`MissingLinesAreExplained` lists every way in which a posted line can be missing from the reports:
its account became a heading when an account was put under it (in memory only: the heading is
lost at the next start and the line is back), an imported account is in no table, or the
index was stale. The journal that an import of a chart empties is in the tables still and comes
back at the next start, on accounts of the earlier chart.
Imported accounts may name each other as parents; `ancestorAtLevel` (reports.service.ts:333)
would then climb for ever, and `OnlyImportsClose` says that nothing else can close such a circle.
`CashCodes` are codes that start with 110, as the cash statement has it (165). In the
bundled unified chart (`server/data`) these are debtors and custodies, and the banks are
in group 1200: the statement is that of other accounts.
The amounts of the model are whole numbers; rounding is in `Journal`.

## 3. Runs

The numbers of states are those of TLC with two workers.

Passing:

* `journal_receipts` (`TypeOK`, `HistoryMatchesStatus`, `FourEyes`, `ReceiptsSound`): three
  entries, by hand or of a receipt, a clerk who only records, a manager, and a manager
  exempt from the separation of duties. The collections leave a remainder, are refused for
  a share of nothing, or are too small for a piaster.
  Three entries are an original, its reversal, and the reversal of the reversal or another
  entry.
* `journal_parties` (`ReversalsMirror`, `BooksAreExplained`,
  `ClosedPeriodsFrozen`, `SubledgerReconciles`): two entries,
  two months, two names, three requests: a charge to a party by name, an entry on
  a heading that is refused after its party was created, and two debits of half a
  piaster on a party given by an id that may not exist. Two names are what a
  merge needs; two entries what a reversal needs. `BooksAreExplained` joins the balances
  explained by the history and the bound on what rounding may leave.
* `ledger_chain` (`PostedAreSealed`, `EditsStayVisible`, `RebuildReportsTruly`,
  `BreaksAreExplained`, `RulesAndTaxesAgree`, `VerdictOnlyHardens`, `AnsweredSettingsStay`,
  `EtaSound`): three entries of one month with one outside edit each (links
  are between neighbours, so three entries show a first, a middle and a last one); every
  action of both regulations with forms of up to three fields in every order, started in
  October or November; two rules, four settings, one failed write, one start; pays and payments
  on both sides of every bracket and least invoice; two documents, two clients, one outage.
  About 412,000 states.
* `journal_store` (`RowsFollowMemory`, `BalancesSinceStart`, `EvidenceStays`): two entries,
  one stop of
  the process, at most two calls at work when a request comes, and one failed
  write or one outside edit. Two calls are what overtaking needs, two entries what
  a repeated number, a shared line id and a reversal need, and a stop in every
  state shows each loss there is. A failed write and an outside edit together are
  not checked. About 1.5 million states. `BalancesSinceStart`: after a start the
  balances are those of the postings since, added to what was stored when the
  tables were filled, and not those of the entries that were loaded.
* `queues` (`QueuesTypeOK`, `ChainVerifies`, `TipWasWritten`, `LogsAreKept`, `ImplementsTrail`,
  `QueueDrains`, `QueueIsReliable`, `QueueIsWorkedOff`): two servers, two
  events held in the memories together at a time (a crash forgets events and makes room for new
  ones, besides the sealing events), two faults, two times; two operations, two tries, one
  reload. A fork needs two writers; a stale end needs one foreign row; a lost place in the
  list being walked needs two operations. About 449,000 states. `LogsAreKept` joins
  two facts with their exceptions: a lone server loses nothing but the events before a
  start that sealed the journal (the sealing event makes the table non-empty, so the
  backfill is not done); the log of a server without a database verifies exactly when no
  two of its events share a millisecond.
* `services` (`ServicesTypeOK`, `CoreReconciles`, `CacheStaysFresh`, `PlansSettle`,
  `OncePerWindow`, `ApprovedAsReviewed`): four entries of the core; one reader, two writes, one
  failure of Redis; two tasks of two sessions; one window, two operations, two texts,
  one restart for Jules. The texts of messages are interchangeable (`TextSymmetry`); no
  property of the run is temporal. About 616,000 states.
* `people` (`PeopleTypeOK`, `PayrollReconciles`, `AttendanceSound`, `WithheldForAbsence`,
  `AssistedEntriesOnce`, `ImplementsOnce`, `ImportsSound`): one worker, two months and two
  advances whose parts do not round evenly; a month of three days; three drafts in a store for one; two
  dictated drafts; four files, among them two of the same bytes and two with colliding
  ids, three starts and two uploads after each; three batches, one of which is refused at
  its second month, four entries and a restart; a chart of two files, and two entries or added accounts
  (`MaxWork`; most of what can go wrong takes one entry and one change of the chart), where an added
  account is of a type the reports know or of one they do not. About 609,000 states. `AssistedEntriesOnce` joins
  `RecentDraftsKept` and `VoicePostsOnce`; `ImportsSound` joins
  `CsvSound`, `PayrollImportSound` and `ReportsReconcile`.

Violated, each one a disagreement between the code and what it says of itself
(the lines are quoted under `findings`):

* `journal_report`: after a reversal the general ledger report counts the
  reversal and not the original; the account balances cancel.
* `ledger_chain_sound`: reversing an entry changes its status, which its hash
  covers; verification then reports tampering although nobody tampered.
* `journal_store_hashed`: without failure, the entry of a receipt is posted and hashed
  but never inserted: the route stores the receipt only.
* `audit_conflict`: two servers, no failure: the event whose sequence another
  server used is given up; the retry that the comment describes is unreachable
  because the conflict raises no error.
* `csv_reimport`: two files whose entries share month and serial: the one that got a
  suffix is entered and posted once more whenever its file is imported again.

Deadlock is not checked: the bounds on entries, events, faults and time, not the
code, end the behaviours.

Bounds: `LastMonth`, `MaxEntries`, `MaxEdits`, `MaxRestarts`, `MaxCalls`, `MaxTime`,
`MaxEvents`, `MaxFaults`, `RetryLimit` (three in the code), `MaxReloads`, `MaxEntered`,
`MaxSettings`, `MaxSettingFailures`, `MaxSettingStarts`, `MaxOutages`, `MaxCore`,
`MaxReferences`, `Latency`, `MaxWrites`, `MaxFailures`, `MaxTasks`, `MaxAttempts`, `MaxOperations`,
`MaxJulesClock`, `MaxJulesRestarts`, `MaxAdvances`, `LastDay`, `MaxCorrections`,
`MaxFileLosses`, `MaxStarts`, `MaxDrafts`, `MaxClock`, `MaxSessions`, `MaxVoiceDrafts`,
`MaxVoiceEntries`, `MaxUploads`, `MaxBoots`, `MaxImported`, `MaxRestarted`, `MaxWork`. `MaxEvents` is over all memories. `MaxFaults` is over
crashes and failures of the database together in `AuditLog`, over failed calls and
outside edits together in `JournalStore`. Limits of the code are constants too and are
smaller here, so that they are reached: `MaxRecords` (drafts stored), `Ttl` and `Ttls`
(lifetimes), `KeepFor` and the entries of the cache of requests, `MaxTasksInMemory`, `MaxReplans`.

Fairness: two components have any. In `AuditLog`, `WF(Queue(s))` says that a promise
chain whose head can run does run, as the event loop guarantees; a crash and a failure are
never fair. `QueueDrains` holds because a task ends in every outcome (row, conflict,
failure, failed reload) and never waits for a later one. Recording stops at the
bound `MaxEvents`; in the code a queue drains if events come slower than writes. In
`OfflineQueue`, `WF(SyncPending)` is the interval of fifteen seconds, and
`WF(RequestStep)` says that a request ends, by an answer or by the time-out of the
network. That the connection comes back is not assumed of the system but stated in
`QueueIsWorkedOff` itself, as `[]<>online`.

## 4. Proofs

Assumptions are those stated in the modules: finite sets of accounts, names and
servers, requests of the right type, users' powers are sets of users, bounds
are naturals. Nothing is assumed about how many there are.

* `JournalProofs`: `TypeCorrect`, `PostedExactlyOnce`, `FourEyesHold`,
  `PeriodsStayFrozen`. The inductive invariant is `TypeOK` with `EntryInv(e)` for
  every entry: `Linked` (an entry that was never posted has no reversal and an empty
  history; a REVERSED one has a reversal), `Posting` (history and status agree)
  and `Approval` (an APPROVED entry has an admissible approval, and a client's
  entry with a history has one or was posted by an exempt user).
  `HistoryMatchesStatus` alone is not inductive: posting a REVERSED entry leads
  to a history of two only because such an entry is known to have its reversal,
  and posting an APPROVED one to a history of one only because it has none.
  `PeriodsStayFrozen` is an action property and follows from the guards
  and `TypeOK`.
* `BooksProofs`: `BooksExplained`, `ReversalsAreMirrors`, `SubledgersReconcile`, `ReceiptsAreSound`
  and `ReceiptsKeepJournal`, on top of `IInv`. A sum over a
  finite set is a fold, of which the provers know nothing; `FiniteFacts` shows that a function
  with the recursion of a sum exists on the subsets of a set (by a smallest counterexample, in
  the place of an induction) and derives what the proofs use: a sum changes by what one
  summand changes, is negated, scaled and bounded with its summands. `BalancesMatchHistory` is
  inductive with `IInv`: a step either keeps the amounts of an entry or gives them to one whose
  history is zero (`LinesMove`), and at most one history grows, together with the
  balances. `RoundingBounded` comes from the error of a single line. For
  `ReversalsMirror` every step falls under one of a few descriptions of what it does to the
  lines and the links (`LinksMove`, `PartiesMove`). For `SubledgerReconciles` the sum over the
  lines of an account is taken apart over their parties (`SumOfParts`); that is where the set of
  names must be finite. For receipts, `SharesAddUp` shows that the shares make the amount to the
  piaster whatever the rule's percentages are, because the last beneficiary takes what the rounded
  shares left; `IssuedIsBooked` carries that to the lines of the entry, and the invariant
  `ReceiptInv` through all that the journal does to the entry later. It adds to `IInv` that an
  absent entry is no receipt's; `ReceiptsKeepJournal` is `IInv` under the larger specification.
  A first version of `DistributionExact` asked a credit for every share, and was false: a
  collection of less than half a piaster without a rule is accepted, and its share rounds to
  nothing. The property now excepts it, and `journal_receipts` has such a collection.
* `LedgerProofs`: `PostedStaySealed`, `TamperingStaysVisible`, `RebuildsAreHonest`,
  `BreaksHaveReasons`. The inductive invariant `ChainInv` says what is known of a hash: the stored
  hash of an entry covers the entry itself (`Own`), with its lines, with a status it had earlier
  or has now (`Level`) and with no more edits than now; a live entry in the ledger has one
  that covers its posted status (`PostedInv`). Without the order on statuses a rebuild could
  not be shown to flag what was altered. The hashes a rebuild computes are again a function that
  is shown to exist and to be unique (`HashesExist`, `HashesUnique`). `BreaksHaveReasons` rests on
  `StillValid`: a chain stays valid in a step that leaves the sealed entries as they are and adds
  at most one, behind them all and linked to the last; `OrderlyIsAdded` shows that every other
  step is one of the reasons named.
  For the store, `RowsFollow`, `BalancesAreThoseSinceStart` and `EvidenceIsKept` rest on
  `StoreInv`, which speaks of each entry by itself: what memory knows (`MemoryInv`), what its row
  says (`RowInv`) and, for an entry no call went wrong for, how the calls at work lead from the
  one to the other (`Tied`): the first creates the row, the others find it (`UpdatesFollow`), the last
  one writes what memory holds (`Latest`), the lines stored and those left are the lines of the
  entry (`LinesTied`), and only a posting brings another hash (`HashesKept`). `Agrees` is what
  is left of this when no call is. `SealOf` says which status a hash may cover, so a start that seals
  anew leaves equal hashes with equal links. For the balances, a start empties the
  history together with the memory of who posted, and the rest is `BalancesMatchHistory`.
* `AuditLogProofs`: `DurableChainVerifies`, `TipsAreWritten`, `TableImplementsTrail`,
  `LogsStayKept`, `OfflineQueueIsReliable`, `QueuesAreTyped`. The
  inductive invariant: the sequences are an initial segment of the naturals and unique
  (`Numbered`), each row is linked to the one before (`LinkedAt`), and every
  cached end is the genesis or a row (`Ends`). The last one is why a stale end is
  harmless: a write from a stale end has a sequence that exists and conflicts. The refinement
  needs one invariant more, `ClockInv`: the events queued by a server are its own,
  in the order of its clock, and no row of that server is
  younger than one of them. Every insertion then appends one event to the trail, and all other
  steps leave the rows alone (`TrailStep`).
  `LogsStayKept` rests on `KeptInv`. Of any server: its events are numbered downwards from the newest
  (`Counted`) and, as long as it has no database, chained (`LoggedInv`, `ChainOf`). Of one that
  is alone (`LoneInv`): its cached end is that of the table and its ids are
  distinct (`Distinct`), so that none of its writes can conflict. That an offline log verifies follows from
  the lengths of its hashes, which leave one order only (`VerifiedInOrder`); it is the order of
  time just when no two times are equal (`FallingOrder`, `VerifiesIfApart`).
  `OfflineQueueIsReliable` rests on `OfflineInv`: localStorage holds the items of the queue, each as it
  is or as it was before it was handled (`Stores`), so that a sweep that saves only at its end loses
  nothing; what is being sent is still pending, also when the loop was left with an old array
  (`SendsPending`); and each creation is one the client does not know of, the one that made
  its item SYNCED, or the one whose answer is under way (`CreationsCounted`). What a filter leaves of
  the queue is a fold over it: that the recursion of the fold has a solution is shown by a smallest
  counterexample (`FoldExists`), and what it returns by another (`OnlyFacts`).
* `LawProofs`: `SettingsStay` (the writes queued for a rule are of ever later requests, later than
  what is stored, and the last of them is the setting in force) and `EtaIsSound`
  (`EtaInv` ties the stage of each request to what the portal holds and the file says; it also
  has that a document is submitted by one request at a time).
* `ServiceProofs`: `OnceSafe` (while an operation may still take effect, or did, the cache
  remembers its id for the rest of the window: `RememberedInTime`, `Spaced`) and `ReviewSafe`
  (`LockHeld`: one operation per session; `PlanIsKnown`: the plan an
  approval read before it was sent is the one of the session, unless a message came between).
  `PlansAreSettled`: of each task it is known that the ids of its steps are those of a permutation
  of its plan (`Identified`: this is why a step put behind another keeps every name valid, also
  one a second client holds), that `replans` counts at least the steps that were replaced
  (`Limited`), and that a task without open steps has its verdict (`Ended`); the end of a run of
  all steps needs besides that a VERIFIED task has a verification, otherwise it would fail it.
  `TaskReplaced` does for all actions what one task's change means for the calls under way.
  `CacheIsFresh`: age and life of an entry always add up to what `ReportAge` allows (`EntryOk`),
  what is on its way to Redis is as young as its waiting allows, and covers every invalidation that
  was sent before it (`Behind`). The commands are answered in the order they are sent, and the second
  half of an invalidation goes behind them all; both are needed. Every value but the summary is
  made of a report of now (`Since`).
  `CoreBooksReconcile`: with `CoreInv` the rows of an account follow one another and end in its
  balance (`TraceGrows`), and the balance is the sum of the posted lines (`PostingKept`). That a
  reversal is always posted although nobody looks at the verdict rests on `NothingBlocked`: what is
  derived from lines alone has no entity level, and the one rule it could fail needs one.
  `ServicesAreTyped` puts the four services side by side: a behaviour of the run is one of each
  (`EachOnItsOwn`). An accepted request has at least two lines of one side each, and so has its reversal
  (`OneSided`); no part of a cached value is of a version the books did not have; and what the pages
  and the cache of mutations name is an operation, which stays when the server restarts
  (`JulesTyped`).
* `PeopleProofs`: `DraftsImplementOnce`, the refinement of `OneTimeConfirmation` (`StoreInv`: what
  is in the store was issued since the last start), `AssistedSafe` (the drafts an
  eviction drops have more than `MaxRecords` younger ones; each dictation is followed to its entry,
  `DraftFollowed`), `AttendanceIsSound` and `WithholdsWhatWasMissed` (`AttendanceInv`, for
  months of any length and any working days), and `PayrollIsSound`. This one rests on `PayrollInv`: the
  payments of an advance add up to what is paid of it and its status follows from that, in whatever
  order runs and cash came (`ProperAdvance`); each line of a run balances to a piaster (`ProperRun`); and
  what all runs credited a worker is what they withheld at most, but for the rounding of the
  posted ones (`Covered`). A deduction is spread over the advances by a recursion on what is left
  of it; that it has a solution, and that no more is spread than there was, is shown by a smallest
  counterexample.
  `ImportsAreSound` is three components at once, each with an invariant of its own; `PeopleAreTyped`
  has the types from the same invariant (`PeopleInv`):
  * Sheets (`PayrollImportInv`). A month has one live entry at most (`EntriesOk`); an advance is
    never paid back beyond its amount and is settled exactly when it is paid (`LoansOk`); what was
    paid back is covered by the entries of the session (`Covers`); and the file of imports counts
    every entry (`FiledOk`). A batch commits its months one after the other, so these are shown of
    each month (`MonthKeeps`), and of the batch as a fold over its months.
  * CSV (`CsvInv`). The ids in memory and the numbers in the table are unique, and while the folder
    has not grown since the start the rows are what a start would load from it and the balances
    what these rows add up to. A file of a start or of an upload keeps this (`FileKeeps`), and the
    folds over lines and files have solutions by `FoldExists` and `FoldWithin`. `GrownFrom` says that a
    file only adds to the journal and never takes an id twice.
  * Chart (`ChartInv`). A parent came before its child unless both were imported (`Anchored`), so the
    account of a circle that was added first would have a parent added before it; a
    heading that is no group has children (`HeadsHaveChildren`); index, table and lines speak of
    accounts of the chart until a chart is replaced (`Followed`). The reports are sums over
    parts of one set of accounts (`SumOfParts`), and as entries balance the sum over all of them is
    zero (`NetFacts`, `TotalsAre`). This is where the proof corrected the property: an account whose
    type is none of the five is in the trial balance and in no other report, which the
    run had not exercised; `ReportsAgree` now has the term (`OfOtherType`) and the run such accounts.

The theorems about `Journal` are about its own specification. `ReceiptsKeepJournal` carries the
first three over to the journal with receipts, and `LedgerProofs` shows that the steps of the
chain, and the requests in front of the database, are steps of the journal (`ChainIsJournal`,
`RequestStep`).

Only model-checked, and why:

* `QueueDrains` and `QueueIsWorkedOff`: liveness, out of the prover's reach.
* `RulesAndTaxesAgree`, `VerdictOnlyHardens`: evaluations of the rules as data; for TLC a finite
  table, for the provers hundreds of cases without a common argument.

## 5. Plan

All modules of section 2 are written, and every safety property of the runs but the two evaluations
of the rules above is proved. What could be added next: the rules of the statute and of the
financial regulation as predicates with a common argument, so that `RulesAndTaxesAgree` and
`VerdictOnlyHardens` follow from it instead of from a table.

## 6. Not modelled, and why

* Reference data: the chart of accounts, the models of statutory distribution, the articles of
  statute and regulation, the revenue tables. They are thousands of lines and decide nothing by
  themselves; the rules that are evaluated are in `FinancialRules` and `StatuteRules`.
* The front end shows and sends; its only state with a promise of
  its own is the offline queue, and the ids of the Jules page, both modelled.
* Assistants, recognition of text and speech, retrieval: free text in, free text out. What they lead to
  (drafts, dictated entries) is modelled. `parseSpokenAmount` is left out with them; it reads
  a compound such as five hundred and twenty as its last word when the hundreds are written
  as one word. The actions of the assistant (`ai-actions.service.ts`) have no token that is
  used up.
* Login, lockout and two factors: permissions are sets of users in `Journal`.
* The thresholds of the journal (`regulation.service.ts`, what each rule compares): any entry may
  be refused, which covers them all.
* Committees, actuarial funds, statutory distribution: formulas over one request.
* Parsing of workbooks and CSV text; signatures, tokens and layout of invoices; the register of
  taxes; overtime and minutes of attendance; upgrades of older hash formats.
* Metrics, notifications, the embedded database, schema repair, scripts: no promise to state.

The map covers about a tenth of the implementation for these reasons; most of the rest is interface,
text and data.

## 7. How to run

    tlc -workers 2 -config MCReceiptBook.cfg MCReceiptBook
    tlc -workers 2 -config MCJournalParties.cfg MCJournal
    tlc -workers 2 -config MCLedgerAndRules.cfg MCLedgerAndRules
    tlc -workers 2 -config MCJournalStore.cfg MCJournalStore
    tlc -workers 2 -config MCQueues.cfg MCQueues
    tlc -workers 2 -config MCServices.cfg MCServices
    tlc -workers 2 -config MCPeople.cfg MCPeople
    tlc -workers 2 -config MCCsvReimport.cfg MCCsvImport
    tlapm FiniteFacts.tla
    tlapm JournalProofs.tla
    tlapm BooksProofs.tla
    tlapm LedgerProofs.tla
    tlapm AuditLogProofs.tla
    tlapm LawProofs.tla
    tlapm ServiceProofs.tla
    tlapm PeopleProofs.tla

The other runs are named in `PROJECT.json`.
