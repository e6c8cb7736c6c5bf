----------------------------- MODULE LedgerChain -----------------------------
(***************************************************************************)
(* The hash chain over the journal (ledger-chain.service) composed with    *)
(* the journal itself: posting appends an entry to the chain, and no other *)
(* operation of the journal touches the stored hashes.                     *)
(*                                                                         *)
(* SHA-256 is taken to be injective: a hash is the sequence of the entry   *)
(* contents it covers, from the genesis hash to the entry. The content of  *)
(* an entry that can change is its status and what an edit made outside    *)
(* the program does to it; number, date, type, amounts and line ids are    *)
(* fixed at creation and stand behind the entry's id and the accounts of   *)
(* its lines. The party of a line is not part of the content.              *)
(***************************************************************************)
EXTENDS Journal, SequencesExt

CONSTANT MaxEdits   \* bound: edits made outside the program, per entry

VARIABLES
    seal,     \* previousHash, currentHash and chainIndex of each entry
    edits     \* edits of the entry outside the program

chainVars == <<seal, edits>>

Genesis  == << >>
NoHash   == <<[id |-> NoEntry, status |-> "ABSENT", lines |-> {}, edits |-> 0]>>
NoIndex  == -1
Unsealed == [prev |-> NoHash, cur |-> NoHash, index |-> NoIndex]

Content(e) ==
    [id |-> e, status |-> journal[e].status, lines |-> DOMAIN lines[e], edits |-> edits[e]]

Hash(c, prev) == Append(prev, c)

Durable == {e \in Live : seal[e].cur # NoHash}

(* sortEntries: by date, entry number and id. *)
Before(d, e) ==
    \/ journal[d].month < journal[e].month
    \/ /\ journal[d].month = journal[e].month
       /\ \/ journal[d].number < journal[e].number
          \/ journal[d].number = journal[e].number /\ d < e

Sorted(S) ==
    CHOOSE s \in [1..Cardinality(S) -> S] :
        \A i, j \in 1..Cardinality(S) : i < j => Before(s[i], s[j])

-----------------------------------------------------------------------------
(* verifyLedgerChain over the entries that have a hash *)

Flagged ==
    LET s == Sorted(Durable)
        expectedPrev(i) == IF i = 1 THEN Genesis ELSE seal[s[i - 1]].cur
    IN  {s[i] : i \in {j \in DOMAIN s :
                          \/ seal[s[j]].prev # expectedPrev(j)
                          \/ seal[s[j]].cur # Hash(Content(s[j]), expectedPrev(j))}}

ChainValid == Flagged = {}

(* resealLedgerChain: every hash is computed anew, in the order of the sort *)
(* (at a start only, see JournalStore; a slip if a rebuild did it).         *)
Resealed ==
    LET s == Sorted(Live)
        cur[i \in 0..Len(s)] == IF i = 0 THEN Genesis ELSE Hash(Content(s[i]), cur[i - 1])
        position(e) == CHOOSE i \in DOMAIN s : s[i] = e
        resealed(e) == LET i == position(e)
                       IN  [prev |-> cur[i - 1], cur |-> cur[i], index |-> i - 1]
    IN  [e \in EntryIds |-> IF e \in Live THEN resealed(e) ELSE seal[e]]

(* Slips: an unsealed entry stays unsealed; the link is off by one. *)
RebuiltDurable ==
    LET s == Sorted(Durable)
        prev(i) == IF i = 1 THEN Genesis ELSE seal[s[i - 1]].cur
        position(e) == CHOOSE i \in DOMAIN s : s[i] = e
    IN  [e \in EntryIds |->
            IF e \in Durable THEN [seal[e] EXCEPT !.prev = prev(position(e))] ELSE seal[e]]

RebuiltShifted ==
    LET s == Sorted(Live)
        position(e) == CHOOSE i \in DOMAIN s : s[i] = e
    IN  [e \in EntryIds |->
            IF e \in Live THEN [seal[e] EXCEPT !.prev = seal[e].cur, !.index = position(e)]
            ELSE seal[e]]

(* rebuildLedgerChain over every live entry: positions and links are set   *)
(* anew, a missing hash is computed, a stored hash is kept as it is.       *)
Rebuilt ==
    LET s == Sorted(Live)
        cur[i \in 0..Len(s)] ==
            IF i = 0 THEN Genesis
            ELSE IF seal[s[i]].cur = NoHash THEN Hash(Content(s[i]), cur[i - 1])
            ELSE seal[s[i]].cur
        position(e) == CHOOSE i \in DOMAIN s : s[i] = e
        resealed(e) == LET i == position(e)
                       IN  [prev |-> cur[i - 1], cur |-> cur[i], index |-> i - 1]
    IN  [e \in EntryIds |-> IF e \in Live THEN resealed(e) ELSE seal[e]]

Tampered ==
    {e \in Durable : LET r == Rebuilt[e]
                     IN  seal[e].prev # r.prev \/ seal[e].cur # Hash(Content(e), r.prev)}

(* appendToLedgerChain: the predecessor is the live entry with the highest *)
(* index, a missing index counting as 0; the sort is stable and the        *)
(* journal keeps the newest entry first, so the oldest of equals wins.     *)
Rank(e) == IF seal[e].index = NoIndex THEN 0 ELSE seal[e].index

Predecessors(e) ==
    {p \in Live \ {e} : \A q \in Live \ {e} :
        Rank(p) > Rank(q) \/ (Rank(p) = Rank(q) /\ p <= q)}

(* Slip: the entry is sealed before its status is set. *)
AppendedEarly(e, content) ==
    LET prev(p) == IF seal[p].cur = NoHash THEN Genesis ELSE seal[p].cur
        sealOn(h, i) == [prev |-> h, cur |-> Hash(Content(e), h), index |-> i]
    IN  IF Predecessors(e) = {} THEN sealOn(Genesis, 0)
        ELSE LET p == CHOOSE x \in Predecessors(e) : TRUE
             IN  sealOn(prev(p), seal[p].index + 1)

Appended(e, content) ==
    LET prev(p) == IF seal[p].cur = NoHash THEN Genesis ELSE seal[p].cur
        sealOn(h, i) == [prev |-> h, cur |-> Hash(content, h), index |-> i]
    IN  IF Predecessors(e) = {} THEN sealOn(Genesis, 0)
        ELSE LET p == CHOOSE x \in Predecessors(e) : TRUE
             IN  sealOn(prev(p), seal[p].index + 1)

-----------------------------------------------------------------------------
ChainInit ==
    /\ Init
    /\ seal = [e \in EntryIds |-> Unsealed]
    /\ edits = [e \in EntryIds |-> 0]

PostAndSeal(u, e) ==
    /\ PostJournalEntry(u, e)
    /\ seal' = [seal EXCEPT ![e] = Appended(e, [Content(e) EXCEPT !.status = "POSTED"])]
    /\ UNCHANGED edits

(* The reversal is appended; the reversed entry keeps its hash although    *)
(* its status, which the hash covers, has changed.                         *)
ReverseAndSeal(u, e) ==
    /\ ReverseJournalEntry(u, e)
    /\ \E f \in Fresh :
         seal' = [seal EXCEPT ![f] =
             Appended(f, [Content(f) EXCEPT !.status = "POSTED", !.lines = DOMAIN lines[e]])]
    /\ UNCHANGED edits

DeleteSealed(u, e) ==
    /\ DeleteJournalEntry(u, e)
    /\ seal' = [seal EXCEPT ![e] = Unsealed]
    /\ UNCHANGED edits

RebuildLedgerChain(u) ==
    /\ u \in Managers
    /\ seal' = Rebuilt
    /\ UNCHANGED <<vars, edits>>

(* A change of a recorded entry made outside the program. *)
EditOutside(e) ==
    /\ e \in Durable
    /\ edits[e] < MaxEdits
    /\ edits' = [edits EXCEPT ![e] = @ + 1]
    /\ UNCHANGED <<vars, seal>>

(* The operations of the journal that leave the stored hashes alone. The    *)
(* periods and the parties are left out: a period only keeps entries from   *)
(* being created or posted, and no hash covers the party of a line.         *)
Unsealing ==
    \/ NextMonth
    \/ \E u \in Users :
         \/ \E r \in Requests : CreateJournalEntry(u, r)
         \/ \E e \in EntryIds : SubmitJournalEntry(u, e) \/ ApproveJournalEntry(u, e)

ChainNext ==
    \/ Unsealing /\ UNCHANGED chainVars
    \/ \E u \in Users, e \in EntryIds :
         PostAndSeal(u, e) \/ ReverseAndSeal(u, e) \/ DeleteSealed(u, e)
    \/ \E u \in Users : RebuildLedgerChain(u)
    \/ \E e \in EntryIds : EditOutside(e)

ChainSpec == ChainInit /\ [][ChainNext]_<<vars, chainVars>>

-----------------------------------------------------------------------------
(* Properties *)

(* Tamper evidence, what the chain exists for: an entry whose content is    *)
(* not the content its stored hash was computed from is reported by every   *)
(* verification, and it stays such an entry, however often the chain is     *)
(* rebuilt, until it is posted anew or deleted.                             *)
Altered == {e \in Durable : Content(e) # Last(seal[e].cur)}

EditsStayVisible ==
    [][/\ Altered' \subseteq Flagged'
       /\ \A e \in Altered : \/ e \in Altered'
                              \/ history'[e] > history[e]
                              \/ journal'[e].status = "DELETED"]_<<vars, chainVars>>

(* An entry in the ledger carries a hash, and the hash is its own, computed *)
(* over the posted status unless a reversal came later: nothing in the      *)
(* journal or in a rebuild takes a hash away or gives an entry another's.   *)
PostedAreSealed ==
    \A e \in Live : journal[e].status \in {"POSTED", "REVERSED"} =>
        /\ e \in Durable
        /\ Last(seal[e].cur).id = e
        /\ Last(seal[e].cur).status = "POSTED"

(* A rebuild counts every altered entry as tampered, and one that counts    *)
(* none leaves a chain that verifies and covers every live entry.           *)
RebuildReportsTruly ==
    [][\A u \in Users : RebuildLedgerChain(u) =>
         /\ Durable' = Live
         /\ Tampered = {} => ChainValid'
         /\ Altered \subseteq Tampered]_<<vars, chainVars>>

(* What may break a chain that verifies: an edit outside the program, a     *)
(* change of the status of a sealed entry (its reversal, or a workflow step *)
(* of a draft a rebuild has sealed), the deletion of a sealed entry before  *)
(* the last, or a posting that is not appended after the last sealed entry  *)
(* in date order. No other step does.                                       *)
StatusOfSealedChanged ==
    \E e \in Durable : journal'[e].status # journal[e].status

SealedOutOfOrder ==
    \E e \in EntryIds :
        /\ seal'[e].cur # seal[e].cur /\ seal'[e].cur # NoHash
        /\ \/ \E d \in Durable \ {e} : Before(e, d)'
           \/ Durable \ {e} # {} /\ seal'[e].prev # seal[Last(Sorted(Durable \ {e}))].cur
           \/ Durable \ {e} = {} /\ seal'[e].prev # Genesis

BreaksAreExplained ==
    [][ChainValid /\ ~ChainValid' =>
         edits' # edits \/ StatusOfSealedChanged \/ SealedOutOfOrder]_<<vars, chainVars>>

(* "returns true if the chain is sound (no tampering)": as long as nobody   *)
(* edits an entry outside the program, the chain verifies.                  *)
OnlyEditsBreakChain ==
    (\A e \in EntryIds : edits[e] = 0) => ChainValid
=============================================================================
