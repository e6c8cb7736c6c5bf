----------------------------- MODULE JournalStore -----------------------------
(***************************************************************************)
(* The journal and its chain behind PostgreSQL (PostgresStorageManager):   *)
(* the routes call the database after each operation and mostly do not     *)
(* wait, a pool of connections works the calls off in any order, a process *)
(* that stops forgets the calls at work, and the next one loads the tables *)
(* and seals the chain before it serves requests.                          *)
(*                                                                         *)
(* The tables exist; the seeded entries are left out, and nothing is       *)
(* imported from files. Periods and parties are left out of the steps:     *)
(* neither is ever written to the database after its first start. Entries  *)
(* of one date are taken to be loaded in the order of their creation.      *)
(***************************************************************************)
EXTENDS LedgerChain

CONSTANTS
    MaxRestarts,  \* bound: stops of the process
    MaxFaults,    \* bound: failed calls and outside edits, taken together
    MaxCalls      \* bound: calls at work when a request makes its own

VARIABLES
    phase,      \* serving requests ("up"), or between a start and that
    rows,       \* the table journal_entries: the row of each stored entry
    lineRows,   \* the table journal_lines: the stored lines of each entry
    writes,     \* the calls at work for each entry, in the order they were made
    toSeal,     \* rows whose hash the start still has to write
    born,       \* the millisecond in which an entry was created
    clock,      \* the current millisecond
    disturbed,  \* entries a call for which failed, was ignored, overtaken or not made
    restarts, faults

storeVars == <<phase, rows, lineRows, writes, toSeal, born, clock, disturbed, restarts, faults>>
memory    == <<vars, chainVars>>

Stored == DOMAIN rows

StoreInit ==
    /\ ChainInit
    /\ phase = "up"
    /\ rows = NoLines
    /\ lineRows = [e \in EntryIds |-> {}]
    /\ writes = [e \in EntryIds |-> << >>]
    /\ toSeal = {}
    /\ born = [e \in EntryIds |-> 0]
    /\ clock = 0
    /\ disturbed = {}
    /\ restarts = 0 /\ faults = 0

-----------------------------------------------------------------------------
(* The requests. The values of a call are those at the end of its request. *)

Call(kind, e) == [kind |-> kind, entry |-> journal'[e], seal |-> seal'[e], left |-> DOMAIN lines'[e]]

PersistJournalEntry(e)      == [writes EXCEPT ![e] = Append(@, Call("insert", e))]
UpdateJournalEntryStatus(e) == [writes EXCEPT ![e] = Append(@, Call("update", e))]

(* A request that calls the database. *)
Serving ==
    /\ phase = "up"
    /\ MapThenSumSet(LAMBDA e : Len(writes[e]), EntryIds) < MaxCalls

Quiet == UNCHANGED <<phase, rows, lineRows, toSeal, disturbed, restarts, faults>>

(* Entries created in a row may share a millisecond. *)
Stamp(e) ==
    /\ clock' \in {clock, clock + 1}
    /\ born' = [born EXCEPT ![e] = clock']

CreateEntry(u, r) ==
    /\ Serving
    /\ CreateJournalEntry(u, r)
    /\ UNCHANGED chainVars
    /\ \E e \in Fresh : Stamp(e) /\ writes' = PersistJournalEntry(e)
    /\ Quiet

(* The entry of a receipt, of a tax return, of a voice command or of an      *)
(* integration: its creator makes no call for it. Its maker is a user with *)
(* another permission, which is no difference here.                        *)
CreateUnwritten(u, r) ==
    /\ phase = "up"
    /\ CreateJournalEntry(u, r)
    /\ \E e \in Fresh : Stamp(e) /\ disturbed' = disturbed \union {e}
    /\ UNCHANGED <<chainVars, phase, rows, lineRows, writes, toSeal, restarts, faults>>

AdvanceEntry(u, e) ==
    /\ Serving
    /\ \/ (SubmitJournalEntry(u, e) \/ ApproveJournalEntry(u, e)) /\ UNCHANGED chainVars
       \/ PostAndSeal(u, e)
    /\ writes' = UpdateJournalEntryStatus(e)
    /\ Quiet /\ UNCHANGED <<born, clock>>

(* The original and its reversal are written by calls of their own. *)
ReverseEntry(u, e) ==
    /\ Serving
    /\ ReverseAndSeal(u, e)
    /\ \E f \in Fresh :
         /\ Stamp(f)
         /\ writes' = [writes EXCEPT ![e] = Append(@, Call("update", e)),
                                     ![f] = Append(@, Call("insert", f))]
    /\ Quiet

(* Deleting an entry and rebuilding the chain reach no table. *)
DeleteEntry(u, e) ==
    /\ phase = "up"
    /\ DeleteSealed(u, e)
    /\ Quiet /\ UNCHANGED <<writes, born, clock>>

RebuildChain(u) ==
    /\ phase = "up"
    /\ RebuildLedgerChain(u)
    /\ disturbed' = disturbed \union Live
    /\ UNCHANGED <<phase, rows, lineRows, writes, toSeal, born, clock, restarts, faults>>

-----------------------------------------------------------------------------
(* The calls at work *)

Fault == faults < MaxFaults /\ faults' = faults + 1

(* A call that takes effect before an earlier one. Lines still to be       *)
(* written are no concern of an update.                                    *)
Overtakes(e, i) == \E j \in 1..(i - 1) : writes[e][j].kind # "lines"

NumberTaken(number) == \E d \in Stored : rows[d].entry.number = number

Inserted(e, call) ==
    [d \in Stored \union {e} |->
        IF d \in Stored THEN rows[d]
        ELSE [entry |-> call.entry, seal |-> call.seal, edits |-> 0]]

(* Slip: the lines are not written after the entry. *)
InsertHeadOnly(e, i) ==
    LET call == writes[e][i]
    IN  /\ call.kind = "insert"
        /\ ~NumberTaken(call.entry.number)
        /\ rows' = Inserted(e, call)
        /\ writes' = [writes EXCEPT ![e] = RemoveAt(@, i)]
        /\ UNCHANGED <<memory, phase, lineRows, toSeal, born, clock, disturbed, restarts, faults>>

InsertEntry(e, i) ==
    LET call == writes[e][i]
    IN  /\ call.kind = "insert"
        /\ ~NumberTaken(call.entry.number)
        /\ rows' = Inserted(e, call)
        /\ writes' = [writes EXCEPT ![e][i].kind = "lines"]
        /\ UNCHANGED <<memory, phase, lineRows, toSeal, born, clock, disturbed, restarts, faults>>

(* The number of the entry is taken: nothing is inserted, no error raised,  *)
(* and the lines are written all the same.                                 *)
InsertIgnored(e, i) ==
    LET call == writes[e][i]
    IN  /\ call.kind = "insert"
        /\ NumberTaken(call.entry.number)
        /\ writes' = [writes EXCEPT ![e][i].kind = "lines"]
        /\ disturbed' = disturbed \union {e}
        /\ UNCHANGED <<memory, phase, rows, lineRows, toSeal, born, clock, restarts, faults>>

(* The lines are written one by one, in the order they have in the entry.  *)
(* The id of a line is its millisecond and its position, for which its     *)
(* account stands here; a line whose id is taken is ignored as well.       *)
LineTaken(e, a) == \E d \in EntryIds \ {e} : born[d] = born[e] /\ a \in lineRows[d]

InsertLine(e, i) ==
    LET call == writes[e][i]
    IN  /\ call.kind = "lines"
        /\ LET a == CHOOSE x \in call.left : TRUE IN
             /\ lineRows' = [lineRows EXCEPT ![e] = IF LineTaken(e, a) THEN @ ELSE @ \union {a}]
             /\ disturbed' = disturbed \union (IF LineTaken(e, a) THEN {e} ELSE {})
             /\ writes' = [writes EXCEPT ![e] =
                   IF call.left = {a} THEN RemoveAt(@, i)
                   ELSE [@ EXCEPT ![i].left = call.left \ {a}]]
        /\ UNCHANGED <<memory, phase, rows, toSeal, born, clock, restarts, faults>>

(* An update of an entry that has no row changes nothing. *)
UpdateEntry(e, i) ==
    LET call == writes[e][i]
    IN  /\ call.kind = "update"
        /\ rows' = IF e \in Stored
                   THEN [rows EXCEPT ![e].entry.status = call.entry.status,
                                     ![e].entry.approvedBy = call.entry.approvedBy,
                                     ![e].seal = call.seal]
                   ELSE rows
        /\ writes' = [writes EXCEPT ![e] = RemoveAt(@, i)]
        /\ disturbed' = disturbed \union (IF Overtakes(e, i) THEN {e} ELSE {})
        /\ UNCHANGED <<memory, phase, lineRows, toSeal, born, clock, restarts, faults>>

(* A call that fails is logged and given up, with the lines it had left. *)
WriteFails(e, i) ==
    /\ Fault
    /\ writes' = [writes EXCEPT ![e] = RemoveAt(@, i)]
    /\ disturbed' = disturbed \union {e}
    /\ UNCHANGED <<memory, phase, rows, lineRows, toSeal, born, clock, restarts>>

(* A change of a stored entry made outside the program. *)
EditRow(e) ==
    /\ e \in Stored
    /\ rows[e].edits < MaxEdits
    /\ Fault
    /\ rows' = [rows EXCEPT ![e].edits = @ + 1]
    /\ UNCHANGED <<memory, phase, lineRows, writes, toSeal, born, clock, disturbed, restarts>>

-----------------------------------------------------------------------------
(* A stop of the process, at any time, and the next start *)

(* Who posted an entry, and the entry that reversed it, are not loaded. *)
Loaded(entry) == [entry EXCEPT !.postedBy = Nobody, !.reversedEntryId = NoEntry]

(* Slip: the balances are taken over as if they had been stored. *)
BalancesKept == balance

BalancesLoaded == [a \in Accounts |-> 0]

(* The balances are those the tables hold, of the first start; so are the  *)
(* periods and the parties. An entry without a row is gone.                *)
Restart ==
    /\ restarts < MaxRestarts
    /\ restarts' = restarts + 1
    /\ phase' = "loaded"
    /\ journal' = [e \in EntryIds |->
          IF e \in Stored THEN Loaded(rows[e].entry)
          ELSE IF journal[e].status = "ABSENT" THEN Blank
          ELSE [Blank EXCEPT !.status = "DELETED"]]
    /\ lines' = [e \in EntryIds |->
          IF e \in Stored THEN Restrict(lines[e], lineRows[e]) ELSE lines[e]]
    /\ seal' = [e \in EntryIds |-> IF e \in Stored THEN rows[e].seal ELSE Unsealed]
    /\ edits' = [e \in EntryIds |-> IF e \in Stored THEN rows[e].edits ELSE 0]
    /\ periods' = [m \in Months |-> IF m = 1 THEN "OPEN" ELSE "NONE"]
    /\ balance' = BalancesLoaded
    /\ parties' = {}
    /\ alias' = [n \in Names |-> NoParty]
    /\ partyBalance' = [p \in PartyIds |-> 0]
    /\ history' = [e \in EntryIds |-> 0]
    /\ writes' = [e \in EntryIds |-> << >>]
    /\ toSeal' = {}
    /\ clock' = clock + 1
    /\ disturbed' = {}
    /\ UNCHANGED <<today, rows, lineRows, born, faults>>

(* Slip: the chain is sealed anew at every start. *)
AlwaysSeal == Live # {}

(* sealPersistedJournalChain: one row without a hash has the whole chain   *)
(* sealed anew.                                                            *)
MustSeal == \E e \in Live : seal[e].cur = NoHash

SealPersistedJournalChain ==
    /\ phase = "loaded"
    /\ phase' = "sealing"
    /\ seal' = IF MustSeal THEN Resealed ELSE seal
    /\ toSeal' = {e \in Live : seal'[e].cur # rows[e].seal.cur}
    /\ UNCHANGED <<vars, edits, rows, lineRows, writes, born, clock, disturbed, restarts, faults>>

(* updateJournalEntryChain, row by row. *)
SealRow(e) ==
    /\ phase = "sealing"
    /\ e \in toSeal
    /\ toSeal' = toSeal \ {e}
    /\ \/ /\ rows' = [rows EXCEPT ![e].seal = seal[e]]
          /\ UNCHANGED <<disturbed, faults>>
       \/ /\ Fault
          /\ disturbed' = disturbed \union {e}
          /\ UNCHANGED rows
    /\ UNCHANGED <<memory, phase, lineRows, writes, born, clock, restarts>>

Serve ==
    /\ phase = "sealing"
    /\ toSeal = {}
    /\ phase' = "up"
    /\ UNCHANGED <<memory, rows, lineRows, writes, toSeal, born, clock, disturbed, restarts, faults>>

-----------------------------------------------------------------------------
Operation ==
    \E u \in Users :
        \/ \E r \in Requests : CreateEntry(u, r) \/ CreateUnwritten(u, r)
        \/ \E e \in EntryIds : AdvanceEntry(u, e) \/ ReverseEntry(u, e) \/ DeleteEntry(u, e)
        \/ RebuildChain(u)

Database ==
    \E e \in EntryIds :
        \/ \E i \in DOMAIN writes[e] :
             InsertEntry(e, i) \/ InsertIgnored(e, i) \/ InsertLine(e, i)
             \/ UpdateEntry(e, i) \/ WriteFails(e, i)
        \/ EditRow(e)
        \/ SealRow(e)

StoreNext == Operation \/ Database \/ Restart \/ SealPersistedJournalChain \/ Serve

StoreSpec == StoreInit /\ [][StoreNext]_<<memory, storeVars>>

-----------------------------------------------------------------------------
(* Properties *)

(* The row of an entry agrees with the memory, status, approval, hash, link *)
(* and lines, when no call for it is at work: across restarts, deletions    *)
(* and concurrent requests. The exceptions are the entries a call for which *)
(* failed, was ignored, overtaken by a later one or never made, and a       *)
(* rebuild of the chain, which stores nothing. The stored chain index may   *)
(* be another: a start that seals stores the rows whose hash changed only.  *)
Agrees(e) ==
    /\ e \in Stored
    /\ rows[e].entry.status = journal[e].status
    /\ rows[e].entry.approvedBy = journal[e].approvedBy
    /\ rows[e].seal.cur = seal[e].cur /\ rows[e].seal.prev = seal[e].prev
    /\ lineRows[e] = DOMAIN lines[e]

RowsFollowMemory ==
    phase = "up" =>
        \A e \in Live : writes[e] = << >> /\ e \notin disturbed => Agrees(e)

(* Evidence in the table: an entry edited outside the program has a hash    *)
(* that does not cover the edit. It is overwritten in three ways only: by   *)
(* the hash of a later posting, by an update that overtook or was overtaken *)
(* by another, or by a start that seals the chain anew; and a start does so *)
(* only if it finds an entry without a hash.                                *)
Evidence ==
    {e \in Stored : rows[e].seal.cur # NoHash /\ Last(rows[e].seal.cur).edits # rows[e].edits}

EvidenceStays ==
    [][/\ \A e \in Evidence \ Evidence' :
             \/ phase = "sealing"
             \/ e \in disturbed'
             \/ rows'[e].entry.status = "POSTED" /\ rows'[e].seal # rows[e].seal
       /\ phase = "loaded" /\ toSeal' # {} =>
             \E e \in Stored : rows[e].seal.cur = NoHash]_<<memory, storeVars>>

(* After a start the balances are those of the postings since then, each    *)
(* once or for a reversed entry posted again, also of entries loaded with    *)
(* some of their lines; and what they lack are exactly the posted entries    *)
(* that have forgotten who posted them (initialize, postJournalEntry).      *)
BalancesSinceStart ==
    phase = "up" =>
        /\ BalancesMatchHistory
        /\ \A e \in Live : journal[e].status \in {"POSTED", "REVERSED"} =>
             (history[e] = 0 <=> journal[e].postedBy = Nobody)

(* "The chain of the official register = the stored entries (those with a   *)
(* hash)": without failures and once the calls are done, a posted entry,    *)
(* which has a hash, is in the table.                                       *)
HashedAreStored ==
    faults = 0 /\ (\A e \in EntryIds : writes[e] = << >>) =>
        {e \in Durable : journal[e].status = "POSTED"} \subseteq Stored
=============================================================================
