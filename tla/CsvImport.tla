------------------------------ MODULE CsvImport ------------------------------
(***************************************************************************)
(* Journal entries from CSV files (CsvImportService): every start empties  *)
(* the journal, imports the files of the data folder in the order of their *)
(* names and then merges the result with the rows of the database; clients *)
(* upload further files, or a new chart of accounts that empties the       *)
(* journal again. An entry is identified by its month and serial, with a   *)
(* suffix when another entry has that name already.                        *)
(*                                                                         *)
(* A group of lines is an entry: date, description and lines are its text, *)
(* balances are one sum. Parties and the hash chain are left out.          *)
(***************************************************************************)
EXTENDS Integers, FiniteSets, FiniteSetsExt, SequencesExt

CONSTANTS
    FileOrder,   \* the names of the files, in alphabetical order
    Contents,    \* of each file: [bytes, groups], the groups by date and serial
    MaxUploads,  \* bound: uploads since the start
    MaxBoots     \* bound: starts of the server

FileNames == Range(FileOrder)

Group == [month: Nat, serial: Nat, text: STRING, amount: Nat, posted: BOOLEAN, sound: BOOLEAN]

ASSUME CsvAssumption ==
    /\ MaxUploads \in Nat /\ MaxBoots \in Nat
    /\ FileOrder \in Seq(FileNames)
    /\ \A f \in FileNames : Contents[f].groups \in Seq(Group)

VARIABLES
    folder,    \* files of the data folder
    journal,   \* journalEntries
    periods,   \* months with a fiscal period
    balance,   \* what the posted entries add up to in the accounts
    rows,      \* the table journal_entries
    opening,   \* balances in the table accounts, or NotSeeded
    grown,     \* a file came to the folder after the database was seeded
    boots, uploads

csvVars == <<folder, journal, periods, balance, rows, opening, grown, boots, uploads>>

NotSeeded == -1

CsvInit ==
    /\ folder \in SUBSET FileNames
    /\ journal = {} /\ periods = {} /\ balance = 0
    /\ rows = {} /\ opening = NotSeeded /\ grown = FALSE
    /\ boots = 0 /\ uploads = 0

-----------------------------------------------------------------------------
(* Identifiers *)

Base(g)      == <<g.month, g.serial>>           \* jei-<month>-<serial>
Signature(g) == <<g.text, g.amount>>            \* contentSignature
Sound(f)     == {g \in Range(Contents[f].groups) : g.sound}

(* Slip: an identifier in use is taken as it is. *)
ClaimAnyway(base, used) == <<base, 1>>

(* claimIdentifier: the first suffix that is free; 1 stands for none. *)
ClaimIdentifier(base, used) ==
    <<base, Min({n \in 1..Cardinality(used) + 1 : <<base, n>> \notin used})>>

(* signaturesByBaseId at the start of an import: the entries by their ids, *)
(* so that an entry with a suffix is not found under its base.             *)
KnownSignatures(j) == {<<e.id, Signature(e)>> : e \in j}

-----------------------------------------------------------------------------
(* Importing a file *)

PostedSum(j) ==
    LET posted == [e \in j |-> IF e.posted THEN e.amount ELSE 0]
    IN  MapThenSumSet(LAMBDA e : posted[e], j)

ImportGroup(book, g) ==
    LET key    == <<<<Base(g), 1>>, Signature(g)>>
        id     == ClaimIdentifier(Base(g), {e.id : e \in book.journal})
        number == ClaimIdentifier(g.serial, {e.number : e \in book.journal})
        entry  == [id |-> id, number |-> number, text |-> g.text,
                   amount |-> g.amount, posted |-> g.posted]
    IN  IF ~g.sound THEN book
        ELSE IF key \in book.known
             THEN [book EXCEPT !.periods = @ \union {g.month}]
             ELSE [journal |-> book.journal \union {entry},
                   periods |-> book.periods \union {g.month},
                   known   |-> book.known \union {key}]

(* importJournalEntriesCsv: groups that do not balance are reported, those *)
(* already there under their base are skipped.                             *)
ImportFile(j, ps, f) ==
    FoldLeft(ImportGroup, [journal |-> j, periods |-> ps, known |-> KnownSignatures(j)],
             Contents[f].groups)

(* loadRealDataFromCsvFiles: of files with the same bytes only the first. *)
Loaded(files) ==
    LET bytes(i) == Contents[FileOrder[i]].bytes
        there == {i \in DOMAIN FileOrder : FileOrder[i] \in files}
        first == {i \in there : \A k \in there : k < i => bytes(k) # bytes(i)}
    IN  FoldLeft(LAMBDA book, i : IF i \in first
                                  THEN ImportFile(book.journal, book.periods, FileOrder[i])
                                  ELSE book,
                 [journal |-> {}, periods |-> {}, known |-> {}],
                 [i \in DOMAIN FileOrder |-> i])

-----------------------------------------------------------------------------
(* A start of the server *)

Booted(j, ps, b) ==
    /\ boots < MaxBoots /\ boots' = boots + 1 /\ uploads' = 0
    /\ journal' = j /\ periods' = ps /\ balance' = b
    /\ UNCHANGED <<folder, grown>>

(* The database does not answer: the files alone. *)
StartInMemory ==
    LET book == Loaded(folder)
    IN  /\ Booted(book.journal, book.periods, PostedSum(book.journal))
        /\ UNCHANGED <<rows, opening>>

(* An empty database takes over accounts and entries. *)
StartAndSeed ==
    LET book == Loaded(folder)
    IN  /\ opening = NotSeeded
        /\ Booted(book.journal, book.periods, PostedSum(book.journal))
        /\ rows' = book.journal /\ opening' = PostedSum(book.journal)

(* The entries of the files that the table has no id for.                  *)
Missing == {e \in Loaded(folder).journal : \A r \in rows : r.id # e.id}

(* Slip: missing entries are stored although their number is taken. *)
StorableById == Missing

(* The unique index on the number keeps an entry out of the table.    *)
Storable == {e \in Missing : \A r \in rows : r.number # e.number}

(* The rows replace the journal and the balances; entries of the files     *)
(* with a new id are added to both, their amounts to neither.              *)
StartAndMerge ==
    /\ opening # NotSeeded
    /\ Booted(IF rows = {} THEN Loaded(folder).journal ELSE rows \union Missing,
              Loaded(folder).periods, opening)
    /\ rows' = rows \union Storable
    /\ UNCHANGED opening

-----------------------------------------------------------------------------
(* POST /api/import/journal-entries-csv: nothing is written to the table. *)
Upload(f) ==
    LET book == ImportFile(journal, periods, f)
    IN  /\ boots > 0 /\ uploads < MaxUploads
        /\ uploads' = uploads + 1
        /\ journal' = book.journal /\ periods' = book.periods
        /\ balance' = balance + PostedSum(book.journal \ journal)
        /\ UNCHANGED <<folder, rows, opening, grown, boots>>

(* POST /api/import/chart-of-accounts-csv replaces the accounts and drops  *)
(* entries and periods.                                                    *)
ApplyUnifiedChart ==
    /\ boots > 0
    /\ journal' = {} /\ periods' = {} /\ balance' = 0
    /\ UNCHANGED <<folder, rows, opening, grown, boots, uploads>>

AddFile(f) ==
    /\ f \notin folder
    /\ folder' = folder \union {f}
    /\ grown' = (grown \/ opening # NotSeeded)
    /\ UNCHANGED <<journal, periods, balance, rows, opening, boots, uploads>>

CsvNext ==
    \/ StartInMemory \/ StartAndSeed \/ StartAndMerge \/ ApplyUnifiedChart
    \/ \E f \in FileNames : Upload(f) \/ AddFile(f)

CsvSpec == CsvInit /\ [][CsvNext]_csvVars

-----------------------------------------------------------------------------
(* Properties *)

EntryOfFile ==
    [id: (Nat \X Nat) \X (Nat \ {0}), number: Nat \X (Nat \ {0}),
     text: STRING, amount: Nat, posted: BOOLEAN]

CsvTypeOK ==
    /\ folder \subseteq FileNames
    /\ journal \subseteq EntryOfFile /\ rows \subseteq EntryOfFile
    /\ periods \subseteq Nat
    /\ balance \in Nat /\ opening \in Nat \union {NotSeeded}
    /\ grown \in BOOLEAN /\ boots \in Nat /\ uploads \in Nat

(* An id names one entry, in memory and in the table; a number does so in  *)
(* the table, and a number given twice leaves one of the two unstored      *)
(* (claimIdentifier and the merge of initialize).                          *)
Identified ==
    /\ \A e, f \in journal : e.id = f.id => e = f
    /\ \A e, f \in rows : e.id = f.id \/ e.number = f.number => e = f
    /\ \A e, f \in journal : e.number = f.number /\ e # f => ~({e, f} \subseteq rows)

(* While the folder stays as it was stored, a restart finds every entry    *)
(* under its old id and adds no row: every balanced group of the folder    *)
(* has its row, and the balances are those of the journal, whatever was    *)
(* uploaded and forgotten between the starts.                              *)
StartsAgree ==
    /\ ~grown /\ opening # NotSeeded => rows = Loaded(folder).journal
    /\ ~grown => balance = PostedSum(journal)

Holds(j, g, suffixes) ==
    \E e \in j : e.id[1] = Base(g) /\ e.id[2] \in suffixes /\ Signature(e) = Signature(g)

(* A file all of whose entries are in the journal under their own names    *)
(* adds nothing when it is imported again.                                 *)
PlainFilesOnce ==
    \A f \in FileNames :
        (\A g \in Sound(f) : Holds(journal, g, {1})) =>
            ImportFile(journal, periods, f).journal = journal

CsvSound == Identified /\ StartsAgree /\ PlainFilesOnce

(* "Importing the same file again adds not a single row": a file all of    *)
(* whose entries are in the journal adds nothing when it is imported again.*)
ReimportAddsNothing ==
    \A f \in FileNames :
        (\A g \in Sound(f) : Holds(journal, g, 1..Cardinality(journal))) =>
            ImportFile(journal, periods, f).journal = journal
=============================================================================
