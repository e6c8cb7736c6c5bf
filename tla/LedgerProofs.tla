----------------------------- MODULE LedgerProofs -----------------------------
(* Proofs about the hash chain over the journal and about the journal behind *)
(* the database, for any number of entries, users, edits made outside the    *)
(* program, restarts and failed calls: what is posted carries a hash of its  *)
(* own, an edit stays visible, a rebuild hides nothing, and the rows follow  *)
(* the memory.                                                               *)
EXTENDS JournalStore, BooksProofs

(* What a hash may cover.                                                    *)
Contents ==
    [id: EntryIds \union {NoEntry}, status: Statuses, lines: SUBSET Accounts, edits: Nat]

(* The order in which an entry takes its statuses, unless it is posted again. *)
Level(status) ==
    CASE status = "DRAFT"     -> 1
      [] status = "SUBMITTED" -> 2
      [] status = "APPROVED"  -> 3
      [] status = "POSTED"    -> 4
      [] status = "REVERSED"  -> 5
      [] OTHER                -> 0

(* The hash of an entry covers what the entry was when it was sealed: the    *)
(* same lines, no more edits than now and a status no later than now.        *)
Own(e) ==
    LET c == Last(seal[e].cur)
    IN  /\ seal[e].cur # << >>
        /\ c.id = e /\ c.lines = DOMAIN lines[e]
        /\ c.edits <= edits[e] /\ Level(c.status) <= Level(journal[e].status)

SealInv(e) ==
    /\ seal[e].cur \in Seq(Contents)
    /\ e \notin Live => seal[e].cur = NoHash
    /\ e \in Durable => Own(e)

PostedInv(e) ==
    e \in Live /\ journal[e].status \in {"POSTED", "REVERSED"} =>
        e \in Durable /\ Last(seal[e].cur).status = "POSTED"

ChainTypes == TypeOK /\ DOMAIN seal = EntryIds /\ edits \in [EntryIds -> Nat]
ChainInv   == ChainTypes /\ \A e \in EntryIds : SealInv(e) /\ PostedInv(e)

(* What the operators of the chain need: hashes are sequences of contents.   *)
HashTypes == ChainTypes /\ \A e \in EntryIds : seal[e].cur \in Seq(Contents)

LEMMA ChainHasTypes == ChainInv => HashTypes
BY DEF ChainInv, HashTypes, SealInv

-----------------------------------------------------------------------------
(* Hashes                                                                    *)
LEMMA HashEndsWith ==
  ASSUME NEW h \in Seq(Contents), NEW c \in Contents
  PROVE  /\ Hash(c, h) \in Seq(Contents) /\ Hash(c, h) # << >>
         /\ Last(Hash(c, h)) = c
BY AppendProperties, EmptySeq DEF Hash, Last

LEMMA NoHashFacts == NoHash \in Seq(Contents) /\ Last(NoHash).id = NoEntry
<1>1. [id |-> NoEntry, status |-> "ABSENT", lines |-> {}, edits |-> 0] \in Contents
  BY DEF Contents, Statuses
<1> QED
  BY <1>1 DEF NoHash, Last

LEMMA ContentType ==
  ASSUME ChainTypes, NEW e \in EntryIds
  PROVE  /\ Content(e) \in Contents /\ Content(e).id = e
         /\ Content(e).lines = DOMAIN lines[e] /\ Content(e).edits = edits[e]
         /\ Content(e).status = journal[e].status
BY DEF Content, Contents, ChainTypes, TypeOK, Entry

(* The hash of an entry that is sealed is never mistaken for a missing one.  *)
LEMMA HashOfEntry ==
  ASSUME NEW h \in Seq(Contents), NEW c \in Contents, c.id \in EntryIds
  PROVE  Hash(c, h) # NoHash
<1>1. c.id # NoEntry
  BY DEF EntryIds, NoEntry
<1> QED
  BY <1>1, HashEndsWith, NoHashFacts

LEMMA AppendedFacts ==
  ASSUME HashTypes, NEW e \in EntryIds, NEW c
  PROVE  \E h \in Seq(Contents) : Appended(e, c).cur = Hash(c, h) /\ Appended(e, c).prev = h
<1>1. Genesis \in Seq(Contents)
  BY EmptySeq DEF Genesis
<1>2. CASE Predecessors(e) = {}
  BY <1>1, <1>2 DEF Appended
<1>3. CASE Predecessors(e) # {}
  <2> DEFINE p == CHOOSE x \in Predecessors(e) : TRUE
             h == IF seal[p].cur = NoHash THEN Genesis ELSE seal[p].cur
  <2>1. p \in EntryIds
    BY <1>3 DEF Predecessors, Live
  <2>2. h \in Seq(Contents)
    BY <1>1, <2>1 DEF HashTypes
  <2>3. Appended(e, c).cur = Hash(c, h) /\ Appended(e, c).prev = h
    BY <1>3 DEF Appended
  <2> QED
    BY <2>2, <2>3
<1> QED
  BY <1>2, <1>3

-----------------------------------------------------------------------------
(* The order of the chain                                                    *)
Order == {x \in EntryIds \X EntryIds : Before(x[1], x[2])}

LEMMA EntriesOrdered ==
  ASSUME TypeOK, NEW S \in SUBSET EntryIds
  PROVE  IsFiniteSet(S) /\ Ordered(Order, S)
<1>1. IsFiniteSet(S)
  <2>1. IsFiniteSet(EntryIds)
    BY FS_Interval, BoundsAssumption DEF EntryIds
  <2> QED
    BY <2>1, FS_Subset
<1>2. \A x \in S : x \in Int /\ journal[x].month \in Int /\ journal[x].number \in Int
  BY DEF EntryIds, TypeOK, Entry, Months
<1>3. \A x, y \in S : <<x, y>> \in Order <=> Before(x, y)
  BY DEF Order
<1>4. \A x \in S : ~Before(x, x)
  BY <1>2 DEF Before
<1>5. \A x, y \in S : x # y => Before(x, y) \/ Before(y, x)
  BY <1>2 DEF Before
<1>6. \A x, y, z \in S : Before(x, y) /\ Before(y, z) => Before(x, z)
  BY <1>2 DEF Before
<1> QED
  BY <1>1, <1>3, <1>4, <1>5, <1>6 DEF Ordered

LEMMA SortedInOrder ==
  ASSUME TypeOK, NEW S \in SUBSET EntryIds
  PROVE  InOrder(Sorted(S), Order, S)
<1> DEFINE n == Cardinality(S)
           sorted(s) == /\ s \in [1..n -> S]
                        /\ \A i, j \in 1..n : i < j => Before(s[i], s[j])
<1>1. \A s : InOrder(s, Order, S) <=> sorted(s)
  BY DEF InOrder, Order
<1>2. \E s : sorted(s)
  BY <1>1, EntriesOrdered, SortExists
<1>3. Sorted(S) = CHOOSE s \in [1..n -> S] :
                    \A i, j \in 1..n : i < j => Before(s[i], s[j])
  BY DEF Sorted
<1> QED
  BY <1>1, <1>2, <1>3

LEMMA SortedFacts ==
  ASSUME TypeOK, NEW S \in SUBSET EntryIds
  PROVE  /\ Cardinality(S) \in Nat
         /\ Sorted(S) \in [1..Cardinality(S) -> S] /\ Len(Sorted(S)) = Cardinality(S)
         /\ \A x \in S : \E i \in 1..Cardinality(S) : Sorted(S)[i] = x
         /\ \A i, j \in 1..Cardinality(S) : Sorted(S)[i] = Sorted(S)[j] => i = j
<1> DEFINE n == Cardinality(S)
<1>1. IsFiniteSet(S) /\ Ordered(Order, S) /\ InOrder(Sorted(S), Order, S)
  BY EntriesOrdered, SortedInOrder
<1>2. /\ n \in Nat
      /\ \A x \in S : \E i \in 1..n : Sorted(S)[i] = x
      /\ \A i, j \in 1..n : Sorted(S)[i] = Sorted(S)[j] => i = j
  BY <1>1, InOrderOnto
<1>3. Sorted(S) \in [1..n -> S]
  BY <1>1 DEF InOrder
<1>4. Len(Sorted(S)) = n
  <2>1. Sorted(S) \in Seq(S)
    BY <1>2, <1>3
  <2>2. DOMAIN Sorted(S) = 1..n
    BY <1>3
  <2> QED
    BY <1>2, <2>1, <2>2, LenProperties
<1> QED
  BY <1>2, <1>3, <1>4

-----------------------------------------------------------------------------
(* Rebuilding. The hashes up to place m: stored ones are kept.               *)
HashAt(h, s, i) ==
    IF i = 0 THEN Genesis
    ELSE IF seal[s[i]].cur = NoHash THEN Hash(Content(s[i]), h[i - 1])
    ELSE seal[s[i]].cur

Hashes(h, s, m) == h = [i \in 0..m |-> HashAt(h, s, i)]

LEMMA HashesExist ==
  ASSUME HashTypes, NEW n \in Nat, NEW s \in [1..n -> EntryIds]
  PROVE  \E h \in [0..n -> Seq(Contents)] : Hashes(h, s, n)
<1> DEFINE Bad == {m \in Nat : m <= n /\ ~\E h \in [0..m -> Seq(Contents)] : Hashes(h, s, m)}
<1>1. SUFFICES ASSUME Bad # {} PROVE FALSE
  OBVIOUS
<1>2. PICK m \in Bad : \A k \in Bad : m <= k
  BY <1>1, LeastOf
<1>3. CASE m = 0
  <2> DEFINE h == [i \in 0..0 |-> Genesis]
  <2>1. h \in [0..0 -> Seq(Contents)]
    BY EmptySeq DEF Genesis
  <2>2. Hashes(h, s, 0)
    BY DEF Hashes, HashAt
  <2> QED
    BY <1>2, <1>3, <2>1, <2>2
<1>4. CASE m # 0
  <2>1. m - 1 \in Nat /\ m - 1 <= n /\ m - 1 \notin Bad /\ m \in 1..n
    BY <1>2, <1>4
  <2>2. PICK g \in [0..(m - 1) -> Seq(Contents)] : Hashes(g, s, m - 1)
    BY <2>1
  <2> DEFINE h == [i \in 0..m |-> IF i = m THEN HashAt(g, s, m) ELSE g[i]]
  <2>3. HashAt(g, s, m) \in Seq(Contents)
    <3>1. s[m] \in EntryIds /\ g[m - 1] \in Seq(Contents)
      BY <2>1, <2>2
    <3>2. Hash(Content(s[m]), g[m - 1]) \in Seq(Contents) /\ seal[s[m]].cur \in Seq(Contents)
      BY <3>1, ContentType, HashEndsWith DEF HashTypes
    <3> QED
      BY <1>4, <3>2 DEF HashAt
  <2>4. h \in [0..m -> Seq(Contents)]
    BY <2>1, <2>2, <2>3
  <2>5. \A i \in 0..m : i # m => h[i] = g[i] /\ i \in 0..(m - 1)
    BY <2>1
  <2>6. \A i \in 0..m : h[i] = HashAt(h, s, i)
    <3> SUFFICES ASSUME NEW i \in 0..m PROVE h[i] = HashAt(h, s, i)
      OBVIOUS
    <3>1. i # 0 => h[i - 1] = g[i - 1]
      BY <2>1, <2>5
    <3>2. HashAt(h, s, i) = HashAt(g, s, i)
      BY <3>1 DEF HashAt
    <3>3. i # m => g[i] = HashAt(g, s, i)
      BY <2>2, <2>5 DEF Hashes
    <3> QED
      BY <2>5, <3>2, <3>3
  <2>7. Hashes(h, s, m)
    <3>1. h = [i \in 0..m |-> h[i]]
      OBVIOUS
    <3> HIDE DEF h
    <3> QED
      BY <2>6, <3>1 DEF Hashes
  <2> QED
    BY <1>2, <2>4, <2>7
<1> QED
  BY <1>3, <1>4

(* Two sequences of hashes over the same entries are the same.               *)
LEMMA HashesUnique ==
  ASSUME NEW n \in Nat, NEW s, NEW g, NEW h, Hashes(g, s, n), Hashes(h, s, n)
  PROVE  g = h
<1> DEFINE Bad == {i \in 0..n : g[i] # h[i]}
<1>1. ASSUME Bad # {} PROVE FALSE
  <2>1. PICK i \in Bad : \A k \in Bad : i <= k
    <3>1. Bad \subseteq Nat
      OBVIOUS
    <3> HIDE DEF Bad
    <3> QED
      BY <1>1, <3>1, LeastOf
  <2>2. g[i] = HashAt(g, s, i) /\ h[i] = HashAt(h, s, i)
    BY DEF Hashes
  <2>3. i # 0 => g[i - 1] = h[i - 1]
    <3>1. i # 0 => i - 1 \in 0..n /\ ~(i <= i - 1)
      OBVIOUS
    <3> QED
      BY <2>1, <3>1
  <2> QED
    BY <2>2, <2>3 DEF HashAt
<1> QED
  BY <1>1 DEF Hashes

(* What a rebuild writes: every live entry is linked to the one before it.   *)
Relinked(h, i) == [prev |-> h[i - 1], cur |-> h[i], index |-> i - 1]

LEMMA RebuiltFacts ==
  ASSUME HashTypes
  PROVE  \E h \in [0..Cardinality(Live) -> Seq(Contents)] :
           /\ Hashes(h, Sorted(Live), Cardinality(Live))
           /\ \A i \in 1..Cardinality(Live) : Rebuilt[Sorted(Live)[i]] = Relinked(h, i)
           /\ DOMAIN Rebuilt = EntryIds
           /\ \A e \in EntryIds \ Live : Rebuilt[e] = seal[e]
<1> DEFINE n == Cardinality(Live)
           s == Sorted(Live)
           cur == CHOOSE f : f = [i \in 0..Len(s) |->
                    IF i = 0 THEN Genesis
                    ELSE IF seal[s[i]].cur = NoHash THEN Hash(Content(s[i]), f[i - 1])
                    ELSE seal[s[i]].cur]
           position(e) == CHOOSE i \in DOMAIN s : s[i] = e
<1>1. /\ n \in Nat /\ s \in [1..n -> Live] /\ Len(s) = n /\ Live \subseteq EntryIds
      /\ \A i, j \in 1..n : s[i] = s[j] => i = j
  BY SortedFacts DEF HashTypes, ChainTypes, Live
<1>2. Rebuilt = [e \in EntryIds |->
                   IF e \in Live
                   THEN [prev |-> cur[position(e) - 1], cur |-> cur[position(e)],
                         index |-> position(e) - 1]
                   ELSE seal[e]]
  BY DEF Rebuilt
<1>3. PICK h \in [0..n -> Seq(Contents)] : Hashes(h, s, n)
  BY <1>1, HashesExist
<1>4. cur = h
  <2>1. cur = CHOOSE f : Hashes(f, s, n)
    BY <1>1 DEF Hashes, HashAt
  <2>2. Hashes(cur, s, n)
    BY <1>3, <2>1
  <2> HIDE DEF cur, s, n
  <2> QED
    BY <1>1, <1>3, <2>2, HashesUnique
<1> HIDE DEF cur
<1>5. ASSUME NEW i \in 1..n
      PROVE  Rebuilt[s[i]] = Relinked(h, i)
  <2>1. s[i] \in Live /\ s[i] \in EntryIds
    BY <1>1
  <2>2. position(s[i]) = i
    BY <1>1
  <2> HIDE DEF position, s, n
  <2> QED
    BY <1>2, <1>4, <2>1, <2>2 DEF Relinked
<1> QED
  BY <1>2, <1>3, <1>5

(* For one entry: its hash, and that of its predecessor as the link.         *)
LEMMA RebuiltEntry ==
  ASSUME HashTypes, NEW e \in Live
  PROVE  /\ Rebuilt[e].prev \in Seq(Contents)
         /\ e \in Durable => Rebuilt[e].cur = seal[e].cur
         /\ e \notin Durable => Rebuilt[e].cur = Hash(Content(e), Rebuilt[e].prev)
<1> DEFINE n == Cardinality(Live)
           s == Sorted(Live)
<1>1. /\ n \in Nat /\ s \in [1..n -> Live] /\ Live \subseteq EntryIds
      /\ \A x \in Live : \E i \in 1..n : s[i] = x
  BY SortedFacts DEF HashTypes, ChainTypes, Live
<1>2. PICK h \in [0..n -> Seq(Contents)] :
        Hashes(h, s, n) /\ \A i \in 1..n : Rebuilt[s[i]] = Relinked(h, i)
  BY RebuiltFacts
<1> HIDE DEF n, s
<1>3. PICK i \in 1..n : s[i] = e
  BY <1>1
<1>4. i \in 0..n /\ i # 0 /\ i - 1 \in 0..n
  BY <1>1
<1>5. Rebuilt[e] = [prev |-> h[i - 1], cur |-> h[i], index |-> i - 1]
  BY <1>2, <1>3 DEF Relinked
<1>6. h[i] = IF seal[e].cur = NoHash THEN Hash(Content(e), h[i - 1]) ELSE seal[e].cur
  BY <1>2, <1>3, <1>4 DEF Hashes, HashAt
<1> QED
  BY <1>2, <1>4, <1>5, <1>6 DEF Durable

-----------------------------------------------------------------------------
(* What a step may do to one entry: leave it (or move it on to a later       *)
(* status), draft it, post and seal it, remove it, or, in a rebuild, give it *)
(* the hash it lacks.                                                        *)
InLedger(status) == status \in {"POSTED", "REVERSED"}

Kept(e) ==
    /\ seal'[e].cur = seal[e].cur
    /\ DOMAIN lines'[e] = DOMAIN lines[e] /\ edits'[e] >= edits[e]
    /\ Level(journal'[e].status) >= Level(journal[e].status)
    /\ e \in Live' <=> e \in Live
    /\ InLedger(journal'[e].status) => InLedger(journal[e].status)

Drafted(e) == e \notin Live /\ seal'[e] = seal[e] /\ journal'[e].status = "DRAFT"

Sealed(e) ==
    /\ journal'[e].status = "POSTED" /\ history'[e] > history[e]
    /\ \E h \in Seq(Contents) : seal'[e].cur = Hash(Content(e)', h)

Removed(e) == seal'[e] = Unsealed /\ journal'[e].status = "DELETED"

Filled(e) ==
    /\ e \in Live \ Durable
    /\ journal'[e] = journal[e]
    /\ \E h \in Seq(Contents) : seal'[e].cur = Hash(Content(e)', h)

Moves(e) == Kept(e) \/ Drafted(e) \/ Sealed(e) \/ Removed(e) \/ Filled(e)

LEMMA HashedNow ==
  ASSUME ChainTypes', NEW e \in EntryIds, NEW h \in Seq(Contents),
         seal'[e].cur = Hash(Content(e)', h), e \in Live'
  PROVE  /\ SealInv(e)' /\ e \in Durable'
         /\ Last(seal'[e].cur).status = journal'[e].status
<1>1. /\ Content(e)' \in Contents /\ Content(e)'.id = e
      /\ Content(e)'.lines = DOMAIN lines'[e] /\ Content(e)'.edits = edits'[e]
      /\ Content(e)'.status = journal'[e].status
  BY DEF Content, Contents, ChainTypes, TypeOK, Entry
<1> DEFINE c == Content(e)'
<1>2. seal'[e].cur = Hash(c, h)
  OBVIOUS
<1> HIDE DEF c
<1>3. Hash(c, h) \in Seq(Contents) /\ Hash(c, h) # << >> /\ Last(Hash(c, h)) = c
  BY <1>1, HashEndsWith DEF c
<1>4. Hash(c, h) # NoHash
  BY <1>1, HashOfEntry DEF c
<1>5. edits'[e] \in Nat /\ \A l : Level(l) \in Nat
  BY DEF ChainTypes, Level
<1>6. e \in Durable'
  BY <1>2, <1>4 DEF Durable
<1>7. Own(e)'
  BY <1>1, <1>2, <1>3, <1>5 DEF Own, c
<1> QED
  BY <1>1, <1>2, <1>3, <1>6, <1>7 DEF SealInv, c

LEMMA MovesKeep ==
  ASSUME ChainInv, ChainTypes', NEW e \in EntryIds, Moves(e)
  PROVE  SealInv(e)' /\ PostedInv(e)'
<1>1. /\ SealInv(e) /\ PostedInv(e) /\ edits[e] \in Nat /\ edits'[e] \in Nat
      /\ \A l : Level(l) \in Nat
  BY DEF ChainInv, ChainTypes, Level
<1>2. CASE Kept(e)
  <2>1. e \in Durable' <=> e \in Durable
    BY <1>2 DEF Kept, Durable
  <2>2. e \in Durable => Own(e)'
    <3>1. ASSUME e \in Durable PROVE Own(e)'
      <4> DEFINE c == Last(seal[e].cur)
      <4>1. /\ seal[e].cur # << >> /\ c.id = e /\ c.lines = DOMAIN lines[e]
            /\ c.edits <= edits[e] /\ Level(c.status) <= Level(journal[e].status)
        BY <1>1, <3>1 DEF SealInv, Own
      <4>2. c.edits \in Nat
        <5>1. seal[e].cur \in Seq(Contents) /\ seal[e].cur # << >>
          BY <1>1, <4>1 DEF SealInv
        <5>2. c \in Contents
          BY <5>1, EmptySeq, ElementOfSeq DEF Last
        <5> QED
          BY <5>2 DEF Contents
      <4>3. c.edits <= edits'[e]
        BY <1>1, <1>2, <4>1, <4>2 DEF Kept
      <4>4. Level(c.status) <= Level(journal'[e].status)
        BY <1>1, <1>2, <4>1 DEF Kept
      <4>5. Last(seal'[e].cur) = c
        BY <1>2 DEF Kept
      <4> HIDE DEF c
      <4> QED
        BY <1>2, <4>1, <4>3, <4>4, <4>5 DEF Own, Kept
    <3> QED
      BY <3>1
  <2>3. SealInv(e)'
    BY <1>1, <1>2, <2>1, <2>2 DEF SealInv, Kept
  <2>4. PostedInv(e)'
    BY <1>1, <1>2, <2>1 DEF PostedInv, Kept, InLedger
  <2> QED
    BY <2>3, <2>4
<1>3. CASE Drafted(e)
  <2>1. seal'[e].cur = NoHash /\ e \notin Durable'
    BY <1>1, <1>3 DEF Drafted, SealInv, Durable
  <2> QED
    BY <1>1, <1>3, <2>1 DEF Drafted, SealInv, PostedInv
<1>4. CASE Sealed(e)
  <2>1. e \in Live'
    BY <1>4 DEF Sealed, Live
  <2> QED
    BY <1>4, <2>1, HashedNow DEF Sealed, PostedInv
<1>5. CASE Removed(e)
  <2>1. e \notin Live' /\ seal'[e].cur = NoHash
    BY <1>5 DEF Removed, Live, Unsealed
  <2> QED
    BY <2>1, NoHashFacts DEF SealInv, PostedInv, Durable
<1>6. CASE Filled(e)
  <2>1. e \in Live' /\ ~InLedger(journal'[e].status)
    BY <1>1, <1>6 DEF Filled, Live, PostedInv, InLedger
  <2> QED
    BY <1>6, <2>1, HashedNow DEF Filled, PostedInv, InLedger
<1> QED
  BY <1>2, <1>3, <1>4, <1>5, <1>6 DEF Moves

-----------------------------------------------------------------------------
(* The steps of the chain are steps of the journal.                          *)
LEMMA ChainIsJournal == [ChainNext]_<<vars, chainVars>> => [Next]_vars
<1> SUFFICES ASSUME [ChainNext]_<<vars, chainVars>> PROVE [Next]_vars
  OBVIOUS
<1>1. CASE Unsealing
  BY <1>1 DEF Unsealing, Next, Create, Workflow
<1>2. ASSUME NEW u \in Users, NEW e \in EntryIds,
             PostAndSeal(u, e) \/ ReverseAndSeal(u, e) \/ DeleteSealed(u, e)
      PROVE  Next
  BY <1>2 DEF PostAndSeal, ReverseAndSeal, DeleteSealed, Next, Workflow
<1>3. CASE UNCHANGED vars
  BY <1>3
<1> QED
  BY <1>1, <1>2, <1>3 DEF ChainNext, RebuildLedgerChain, EditOutside

LEMMA TypesStep == ChainTypes /\ [ChainNext]_<<vars, chainVars>> => ChainTypes'
<1> SUFFICES ASSUME ChainTypes, [ChainNext]_<<vars, chainVars>> PROVE ChainTypes'
  OBVIOUS
<1>1. TypeOK'
  BY ChainIsJournal, TypeStep DEF ChainTypes
<1>2. DOMAIN seal' = EntryIds /\ edits' \in [EntryIds -> Nat]
  <2>1. CASE UNCHANGED chainVars
    BY <2>1 DEF chainVars, ChainTypes
  <2>2. ASSUME NEW u \in Users, NEW e \in EntryIds,
               PostAndSeal(u, e) \/ ReverseAndSeal(u, e) \/ DeleteSealed(u, e)
        PROVE  DOMAIN seal' = EntryIds /\ edits' \in [EntryIds -> Nat]
    BY <2>2 DEF PostAndSeal, ReverseAndSeal, DeleteSealed, ChainTypes
  <2>3. ASSUME NEW u \in Users, RebuildLedgerChain(u)
        PROVE  DOMAIN seal' = EntryIds /\ edits' \in [EntryIds -> Nat]
    BY <2>3 DEF RebuildLedgerChain, Rebuilt, ChainTypes
  <2>4. ASSUME NEW e \in EntryIds, EditOutside(e)
        PROVE  DOMAIN seal' = EntryIds /\ edits' \in [EntryIds -> Nat]
    BY <2>4 DEF EditOutside, ChainTypes
  <2> QED
    BY <2>1, <2>2, <2>3, <2>4 DEF ChainNext
<1> QED
  BY <1>1, <1>2 DEF ChainTypes

(* An entry a step does not touch.                                           *)
LEMMA KeptAsIs ==
  ASSUME ChainTypes, NEW e \in EntryIds, seal'[e].cur = seal[e].cur,
         journal'[e] = journal[e], DOMAIN lines'[e] = DOMAIN lines[e], edits'[e] = edits[e]
  PROVE  Moves(e)
<1>1. edits[e] \in Int /\ Level(journal[e].status) \in Int
  BY DEF ChainTypes, Level
<1> QED
  BY <1>1 DEF Moves, Kept, Live

(* There is one fresh entry at most.                                         *)
LEMMA OneFresh ==
  ASSUME NEW f \in Fresh, NEW g \in Fresh
  PROVE  f = g
<1>1. f \in Int /\ g \in Int /\ ~(f < g) /\ ~(g < f)
  BY DEF Fresh, EntryIds
<1> QED
  BY <1>1

LEMMA UnsealingMoves ==
  ASSUME ChainInv, Unsealing, UNCHANGED chainVars, NEW e \in EntryIds
  PROVE  Moves(e)
<1>1. ChainTypes /\ seal' = seal /\ edits' = edits /\ edits[e] \in Int
  BY DEF ChainInv, ChainTypes, chainVars
<1>2. CASE NextMonth
  BY <1>1, <1>2, KeptAsIs DEF NextMonth
<1>3. ASSUME NEW u \in Users, NEW r \in Requests, CreateJournalEntry(u, r)
      PROVE  Moves(e)
  <2>1. PICK f \in Fresh : /\ journal' = [journal EXCEPT ![f] = NewEntry(u, r.month, "MANUAL")]
                           /\ lines' = [lines EXCEPT ![f] = Recorded(r)]
    BY <1>3 DEF CreateJournalEntry
  <2>2. CASE e # f
    BY <1>1, <2>1, <2>2, KeptAsIs
  <2>3. CASE e = f
    <3>1. NewEntry(u, r.month, "MANUAL").status = "DRAFT"
      BY NewEntryFields, RequestsAssumption
    <3>2. journal'[e].status = "DRAFT" /\ e \notin Live
      BY <1>1, <2>1, <2>3, <3>1, FreshAreAbsent DEF ChainTypes, TypeOK, Live
    <3> QED
      BY <1>1, <3>2 DEF Moves, Drafted
  <2> QED
    BY <2>2, <2>3
<1>4. ASSUME NEW u \in Users, NEW d \in EntryIds,
             SubmitJournalEntry(u, d) \/ ApproveJournalEntry(u, d)
      PROVE  Moves(e)
  <2>1. lines' = lines
    BY <1>4 DEF SubmitJournalEntry, ApproveJournalEntry
  <2>2. CASE e # d
    <3>1. journal'[e] = journal[e]
      BY <1>1, <1>4, <2>2 DEF SubmitJournalEntry, ApproveJournalEntry, ChainTypes, TypeOK
    <3> QED
      BY <1>1, <2>1, <3>1, KeptAsIs
  <2>3. CASE e = d
    <3>1. /\ journal[e].status \in {"DRAFT", "SUBMITTED"}
          /\ \/ journal'[e].status = "APPROVED"
             \/ journal'[e].status = "SUBMITTED" /\ journal[e].status = "DRAFT"
      <4>1. journal[e] \in Entry /\ e \in DOMAIN journal
        BY <1>1 DEF ChainTypes, TypeOK
      <4>2. CASE SubmitJournalEntry(u, d)
        BY <2>3, <4>1, <4>2 DEF SubmitJournalEntry, Entry
      <4>3. CASE ApproveJournalEntry(u, d)
        BY <2>3, <4>1, <4>3 DEF ApproveJournalEntry, MayApprove, Approved, Entry
      <4> QED
        BY <1>4, <4>2, <4>3
    <3>2. Level(journal'[e].status) >= Level(journal[e].status)
      BY <3>1 DEF Level
    <3> QED
      BY <1>1, <2>1, <3>1, <3>2 DEF Moves, Kept, Live, InLedger
  <2> QED
    BY <2>2, <2>3
<1> QED
  BY <1>2, <1>3, <1>4 DEF Unsealing

LEMMA PostMoves ==
  ASSUME ChainInv, NEW u \in Users, NEW d \in EntryIds, PostAndSeal(u, d), NEW e \in EntryIds
  PROVE  Moves(e)
<1> DEFINE c == [Content(d) EXCEPT !.status = "POSTED"]
<1>1. /\ ChainTypes /\ lines' = lines /\ edits' = edits /\ journal \in [EntryIds -> Entry]
      /\ journal' = [journal EXCEPT ![d] = Posted(@, u)]
      /\ seal' = [seal EXCEPT ![d] = Appended(d, c)]
      /\ history' = [history EXCEPT ![d] = @ + 1]
      /\ DOMAIN seal = EntryIds /\ history \in [EntryIds -> Nat]
  BY DEF PostAndSeal, PostJournalEntry, ApplyLines, ChainInv, ChainTypes, TypeOK
<1>2. CASE e # d
  <2>1. seal'[e] = seal[e] /\ journal'[e] = journal[e]
    BY <1>1, <1>2
  <2> QED
    BY <1>1, <2>1, KeptAsIs
<1>3. CASE e = d
  <2>1. journal'[d].status = "POSTED"
    BY <1>1, PostedFields
  <2>2. history'[d] > history[d]
    BY <1>1
  <2>3. Content(d)' = c
    BY <1>1, <2>1 DEF Content
  <2>4. seal'[d] = Appended(d, c)
    BY <1>1
  <2> HIDE DEF c
  <2>5. \E h \in Seq(Contents) : seal'[d].cur = Hash(Content(d)', h)
    BY <2>3, <2>4, ChainHasTypes, AppendedFacts
  <2> QED
    BY <1>3, <2>1, <2>2, <2>5 DEF Moves, Sealed
<1> QED
  BY <1>2, <1>3

LEMMA ReverseMoves ==
  ASSUME ChainInv, NEW u \in Users, NEW d \in EntryIds, ReverseAndSeal(u, d), NEW e \in EntryIds
  PROVE  Moves(e)
<1> DEFINE mirrored == Swap(lines[d])
           reversal == Posted(NewEntry(u, today, "REVERSAL"), u)
<1>1. /\ ChainTypes /\ edits' = edits /\ edits[e] \in Int /\ TypeOK
      /\ journal \in [EntryIds -> Entry] /\ DOMAIN lines = EntryIds
      /\ DOMAIN seal = EntryIds /\ history \in [EntryIds -> Nat]
      /\ journal[d].status = "POSTED"
  BY DEF ReverseAndSeal, ReverseJournalEntry, MayReverse, ChainInv, ChainTypes, TypeOK
<1>2. PICK f \in Fresh :
        /\ journal' = [journal EXCEPT ![d] = ReversedBy(@, f), ![f] = reversal]
        /\ lines' = [lines EXCEPT ![f] = mirrored] /\ ApplyLines(f, mirrored)
  BY DEF ReverseAndSeal, ReverseJournalEntry
<1> DEFINE c == [Content(f) EXCEPT !.status = "POSTED", !.lines = DOMAIN lines[d]]
<1>3. seal' = [seal EXCEPT ![f] = Appended(f, c)]
  BY <1>2, OneFresh DEF ReverseAndSeal
<1>4. f \in EntryIds /\ f # d
  BY <1>1, <1>2, FreshAreAbsent
<1>5. CASE e # d /\ e # f
  <2>1. seal'[e] = seal[e] /\ journal'[e] = journal[e] /\ lines'[e] = lines[e]
    BY <1>1, <1>2, <1>3, <1>5
  <2> QED
    BY <1>1, <2>1, KeptAsIs
<1>6. CASE e = d
  <2>1. journal'[e].status = "REVERSED" /\ seal'[e] = seal[e] /\ lines'[e] = lines[e]
    BY <1>1, <1>2, <1>3, <1>4, <1>6, ReversedByFields
  <2>2. Level(journal'[e].status) >= Level(journal[e].status)
    BY <1>1, <1>6, <2>1 DEF Level
  <2> QED
    BY <1>1, <1>6, <2>1, <2>2 DEF Moves, Kept, Live, InLedger
<1>7. CASE e = f
  <2>1. NewEntry(u, today, "REVERSAL") \in Entry
    BY <1>1, NewEntryFields DEF TypeOK
  <2>2. journal'[f].status = "POSTED"
    BY <1>1, <1>2, <1>4, <2>1, PostedFields
  <2>3. history'[f] > history[f]
    BY <1>1, <1>2, <1>4 DEF ApplyLines
  <2>4. DOMAIN lines'[f] = DOMAIN lines[d]
    BY <1>1, <1>2, <1>4 DEF Swap
  <2>5. Content(f)' = c
    <3> DEFINE q == [Content(f) EXCEPT !.status = "POSTED"]
    <3>0. q = [id |-> f, status |-> "POSTED", lines |-> DOMAIN lines[f], edits |-> edits[f]]
      BY DEF Content
    <3>1. c = [id |-> f, status |-> "POSTED", lines |-> DOMAIN lines[d], edits |-> edits[f]]
      <4>1. c = [q EXCEPT !.lines = DOMAIN lines[d]]
        OBVIOUS
      <4> HIDE DEF c, q
      <4> QED
        BY <3>0, <4>1
    <3>2. edits'[f] = edits[f]
      BY <1>1
    <3> QED
      BY <2>2, <2>4, <3>1, <3>2 DEF Content
  <2>6. seal'[f] = Appended(f, c)
    BY <1>1, <1>3, <1>4
  <2> HIDE DEF c
  <2>7. \E h \in Seq(Contents) : seal'[f].cur = Hash(Content(f)', h)
    BY <1>4, <2>5, <2>6, ChainHasTypes, AppendedFacts
  <2> QED
    BY <1>7, <2>2, <2>3, <2>7 DEF Moves, Sealed
<1> QED
  BY <1>5, <1>6, <1>7

LEMMA DeleteMoves ==
  ASSUME ChainInv, NEW u \in Users, NEW d \in EntryIds, DeleteSealed(u, d), NEW e \in EntryIds
  PROVE  Moves(e)
<1>1. /\ ChainTypes /\ lines' = lines /\ edits' = edits /\ journal \in [EntryIds -> Entry]
      /\ journal' = [journal EXCEPT ![d].status = "DELETED"]
      /\ seal' = [seal EXCEPT ![d] = Unsealed] /\ DOMAIN seal = EntryIds
  BY DEF DeleteSealed, DeleteJournalEntry, ChainInv, ChainTypes, TypeOK
<1>2. CASE e # d
  <2>1. seal'[e] = seal[e] /\ journal'[e] = journal[e]
    BY <1>1, <1>2
  <2> QED
    BY <1>1, <2>1, KeptAsIs
<1>3. CASE e = d
  <2>1. journal'[e].status = "DELETED" /\ seal'[e] = Unsealed
    BY <1>1, <1>3 DEF Entry
  <2> QED
    BY <2>1 DEF Moves, Removed
<1> QED
  BY <1>2, <1>3

LEMMA RebuildMoves ==
  ASSUME ChainInv, NEW u \in Users, RebuildLedgerChain(u), NEW e \in EntryIds
  PROVE  Moves(e)
<1>1. /\ ChainTypes /\ seal' = Rebuilt /\ journal' = journal /\ lines' = lines /\ edits' = edits
  BY DEF RebuildLedgerChain, vars, ChainInv
<1>2. CASE e \in Live \ Durable
  <2>1. Content(e)' = Content(e)
    BY <1>1 DEF Content
  <2>2. Rebuilt[e].prev \in Seq(Contents) /\ Rebuilt[e].cur = Hash(Content(e), Rebuilt[e].prev)
    BY <1>2, ChainHasTypes, RebuiltEntry
  <2> QED
    BY <1>1, <1>2, <2>1, <2>2 DEF Moves, Filled
<1>3. CASE e \notin Live \ Durable
  <2>1. Rebuilt[e].cur = seal[e].cur
    <3>1. CASE e \in Live
      BY <1>3, <3>1, ChainHasTypes, RebuiltEntry
    <3>2. CASE e \notin Live
      BY <3>2, ChainHasTypes, RebuiltFacts
    <3> QED
      BY <3>1, <3>2
  <2> QED
    BY <1>1, <2>1, KeptAsIs
<1> QED
  BY <1>2, <1>3

LEMMA EditMoves ==
  ASSUME ChainInv, NEW d \in EntryIds, EditOutside(d), NEW e \in EntryIds
  PROVE  Moves(e)
<1>1. /\ ChainTypes /\ seal' = seal /\ journal' = journal /\ lines' = lines
      /\ edits' = [edits EXCEPT ![d] = @ + 1] /\ edits \in [EntryIds -> Nat]
  BY DEF EditOutside, vars, ChainInv, ChainTypes
<1>2. edits'[e] >= edits[e] /\ Level(journal[e].status) \in Nat
  BY <1>1 DEF Level
<1> QED
  BY <1>1, <1>2 DEF Moves, Kept, Live

LEMMA StepMoves ==
  ASSUME ChainInv, ChainNext, NEW e \in EntryIds
  PROVE  Moves(e)
BY UnsealingMoves, PostMoves, ReverseMoves, DeleteMoves, RebuildMoves, EditMoves DEF ChainNext

-----------------------------------------------------------------------------
LEMMA ChainStarts == ChainInit => ChainInv
<1> SUFFICES ASSUME ChainInit PROVE ChainInv
  OBVIOUS
<1>1. TypeOK
  BY InitType DEF ChainInit
<1>2. ChainTypes
  BY <1>1 DEF ChainInit, ChainTypes
<1>3. ASSUME NEW e \in EntryIds PROVE SealInv(e) /\ PostedInv(e)
  <2>1. journal[e].status = "ABSENT" /\ seal[e].cur = NoHash
    BY DEF ChainInit, Init, Blank, Unsealed
  <2>2. e \notin Live
    BY <2>1 DEF Live
  <2> QED
    BY <2>1, <2>2, NoHashFacts DEF SealInv, PostedInv, Durable
<1> QED
  BY <1>2, <1>3 DEF ChainInv

LEMMA ChainStep == ChainInv /\ [ChainNext]_<<vars, chainVars>> => ChainInv'
<1> SUFFICES ASSUME ChainInv, [ChainNext]_<<vars, chainVars>> PROVE ChainInv'
  OBVIOUS
<1>1. ChainTypes'
  BY TypesStep DEF ChainInv
<1>2. CASE ChainNext
  BY <1>1, <1>2, StepMoves, MovesKeep DEF ChainInv
<1>3. CASE UNCHANGED <<vars, chainVars>>
  <2>1. ASSUME NEW e \in EntryIds PROVE Moves(e)
    BY <1>3, KeptAsIs DEF vars, chainVars, ChainInv
  <2> QED
    BY <1>1, <2>1, MovesKeep DEF ChainInv
<1> QED
  BY <1>2, <1>3

LEMMA ChainHolds == ChainSpec => []ChainInv
<1> QED
  BY ChainStarts, ChainStep, PTL DEF ChainSpec

(* What is posted carries a hash, its own, over its posted status, whatever  *)
(* was posted, reversed, deleted, edited or rebuilt before.                  *)
THEOREM PostedStaySealed == ChainSpec => []PostedAreSealed
<1>1. ChainInv => PostedAreSealed
  <2> SUFFICES ASSUME ChainInv, NEW e \in Live, journal[e].status \in {"POSTED", "REVERSED"}
               PROVE  /\ e \in Durable /\ Last(seal[e].cur).id = e
                      /\ Last(seal[e].cur).status = "POSTED"
    BY DEF PostedAreSealed
  <2>1. e \in EntryIds
    BY DEF Live
  <2> QED
    BY <2>1 DEF ChainInv, SealInv, PostedInv, Own
<1> QED
  BY <1>1, ChainHolds, PTL

-----------------------------------------------------------------------------
(* Verification. What it expects before an entry is a hash, so that an entry *)
(* whose content is not the one of its hash fails it in any case.            *)
LEMMA AlteredIsFlagged == ChainInv => Altered \subseteq Flagged
<1> SUFFICES ASSUME ChainInv, NEW e \in Altered PROVE e \in Flagged
  OBVIOUS
<1> DEFINE s == Sorted(Durable)
           expectedPrev(i) == IF i = 1 THEN Genesis ELSE seal[s[i - 1]].cur
<1>1. Durable \subseteq EntryIds /\ e \in Durable /\ Content(e) # Last(seal[e].cur)
  BY DEF Altered, Durable, Live
<1>2. /\ Cardinality(Durable) \in Nat
      /\ s \in [1..Cardinality(Durable) -> Durable]
      /\ \A x \in Durable : \E i \in 1..Cardinality(Durable) : s[i] = x
  BY <1>1, SortedFacts DEF ChainInv, ChainTypes
<1>3. PICK i \in DOMAIN s : s[i] = e
  BY <1>1, <1>2
<1>4. expectedPrev(i) \in Seq(Contents)
  <2>1. CASE i = 1
    BY <2>1, EmptySeq DEF Genesis
  <2>2. CASE i # 1
    <3>1. i - 1 \in 1..Cardinality(Durable)
      BY <1>2, <2>2
    <3>2. s[i - 1] \in EntryIds
      BY <1>1, <1>2, <3>1
    <3> QED
      BY <2>2, <3>2 DEF ChainInv, SealInv
  <2> QED
    BY <2>1, <2>2
<1>5. seal[e].cur # Hash(Content(e), expectedPrev(i))
  <2> HIDE DEF expectedPrev
  <2>1. Last(Hash(Content(e), expectedPrev(i))) = Content(e)
    BY <1>1, <1>4, ContentType, HashEndsWith DEF ChainInv
  <2> QED
    BY <1>1, <2>1
<1> QED
  BY <1>3, <1>5 DEF Flagged

(* An altered entry stays altered: its edits never become fewer, and its     *)
(* status never returns to that of the hash.                                 *)
LEMMA AlteredStays ==
  ASSUME ChainInv, ChainInv', NEW e \in Altered, Moves(e)
  PROVE  \/ e \in Altered'
         \/ history'[e] > history[e]
         \/ journal'[e].status = "DELETED"
<1>1. e \in Durable /\ e \in EntryIds /\ Content(e) # Last(seal[e].cur) /\ e \in Live
  BY DEF Altered, Durable, Live
<1>2. CASE Kept(e)
  <2> DEFINE c == Last(seal[e].cur)
  <2>1. e \in Durable' /\ Last(seal'[e].cur) = c
    BY <1>1, <1>2 DEF Kept, Durable
  <2>2. /\ c.id = e /\ c.lines = DOMAIN lines[e] /\ c \in Contents
        /\ c.edits <= edits[e] /\ Level(c.status) <= Level(journal[e].status)
    <3>1. Own(e) /\ seal[e].cur \in Seq(Contents)
      BY <1>1 DEF ChainInv, SealInv
    <3>2. c \in Contents
      BY <3>1, EmptySeq, ElementOfSeq DEF Own, Last
    <3> QED
      BY <3>1, <3>2 DEF Own
  <2>3. /\ edits[e] \in Nat /\ edits'[e] \in Nat /\ c.edits \in Nat
        /\ edits'[e] >= edits[e] /\ \A l : Level(l) \in Nat
        /\ Level(journal'[e].status) >= Level(journal[e].status)
    BY <1>1, <1>2, <2>2 DEF ChainInv, ChainTypes, Kept, Contents, Level
  <2>4. journal[e].status \in Statuses \ {"ABSENT", "DELETED"} /\ c.status \in Statuses
    BY <1>1, <2>2 DEF ChainInv, ChainTypes, TypeOK, Entry, Live, Contents
  <2>5. c.edits # edits[e] \/ c.status # journal[e].status
    <3>1. c = [id |-> c.id, status |-> c.status, lines |-> c.lines, edits |-> c.edits]
      BY <2>2 DEF Contents
    <3> HIDE DEF c
    <3> QED
      BY <1>1, <2>2, <3>1 DEF Content, c
  <2> HIDE DEF c
  <2>6. CASE c.edits # edits[e]
    <3>1. c.edits # edits'[e]
      BY <2>2, <2>3, <2>6
    <3> QED
      BY <2>1, <3>1 DEF Altered, Content
  <2>7. CASE c.status # journal[e].status
    <3>1. Level(c.status) < Level(journal[e].status)
      BY <2>2, <2>4, <2>7 DEF Level, Statuses
    <3>2. c.status # journal'[e].status
      BY <2>3, <3>1
    <3> QED
      BY <2>1, <3>2 DEF Altered, Content
  <2> QED
    BY <2>5, <2>6, <2>7
<1>3. CASE Sealed(e) \/ Removed(e)
  BY <1>3 DEF Sealed, Removed
<1> QED
  BY <1>1, <1>2, <1>3 DEF Moves, Drafted, Filled

(* Whoever edits a sealed entry outside the program is seen by every         *)
(* verification, until that entry is posted anew or deleted: no step of the  *)
(* journal, no posting of others and no rebuild covers the edit up.          *)
THEOREM TamperingStaysVisible == ChainSpec => EditsStayVisible
<1>1. ChainInv /\ ChainInv' /\ [ChainNext]_<<vars, chainVars>> =>
        [/\ Altered' \subseteq Flagged'
         /\ \A e \in Altered : \/ e \in Altered'
                                \/ history'[e] > history[e]
                                \/ journal'[e].status = "DELETED"]_<<vars, chainVars>>
  <2> SUFFICES ASSUME ChainInv, ChainInv', ChainNext
               PROVE  /\ Altered' \subseteq Flagged'
                      /\ \A e \in Altered : \/ e \in Altered'
                                             \/ history'[e] > history[e]
                                             \/ journal'[e].status = "DELETED"
    OBVIOUS
  <2>1. (ChainInv => Altered \subseteq Flagged)'
    BY AlteredIsFlagged, PTL
  <2>2. ASSUME NEW e \in Altered
        PROVE  \/ e \in Altered'
               \/ history'[e] > history[e]
               \/ journal'[e].status = "DELETED"
    <3>1. e \in EntryIds
      BY DEF Altered, Durable, Live
    <3>2. Moves(e)
      BY <3>1, StepMoves
    <3> QED
      BY <3>2, AlteredStays
  <2> QED
    BY <2>1, <2>2
<1> QED
  BY <1>1, ChainHolds, PTL DEF ChainSpec, EditsStayVisible

-----------------------------------------------------------------------------
(* A rebuild                                                                 *)
LEMMA AlteredIsTampered == ChainInv => Altered \subseteq Tampered
<1> SUFFICES ASSUME ChainInv, NEW e \in Altered PROVE e \in Tampered
  OBVIOUS
<1>1. e \in Durable /\ e \in Live /\ e \in EntryIds /\ Content(e) # Last(seal[e].cur)
  BY DEF Altered, Durable, Live
<1>2. Rebuilt[e].prev \in Seq(Contents)
  BY <1>1, ChainHasTypes, RebuiltEntry
<1>3. Last(Hash(Content(e), Rebuilt[e].prev)) = Content(e)
  BY <1>1, <1>2, ContentType, HashEndsWith DEF ChainInv
<1> QED
  BY <1>1, <1>3 DEF Tampered

LEMMA RebuildCovers ==
  ASSUME ChainInv, seal' = Rebuilt, UNCHANGED <<vars, edits>>
  PROVE  Durable' = Live
<1>1. Live' = Live
  BY DEF vars, Live
<1>2. ASSUME NEW e \in Live PROVE Rebuilt[e].cur # NoHash
  <2>1. e \in EntryIds
    BY DEF Live
  <2>2. CASE e \in Durable
    BY <2>2, ChainHasTypes, RebuiltEntry DEF Durable
  <2>3. CASE e \notin Durable
    <3>1. /\ Rebuilt[e].prev \in Seq(Contents)
          /\ Rebuilt[e].cur = Hash(Content(e), Rebuilt[e].prev)
      BY <2>3, ChainHasTypes, RebuiltEntry
    <3> QED
      BY <2>1, <3>1, ContentType, HashOfEntry DEF ChainInv
  <2> QED
    BY <2>2, <2>3
<1> QED
  BY <1>1, <1>2 DEF Durable

(* Every entry of a sequence is linked to the one before it and hashed over  *)
(* its content.                                                              *)
Verified(s) ==
    \A i \in DOMAIN s :
        LET expected == IF i = 1 THEN Genesis ELSE seal[s[i - 1]].cur
        IN  seal[s[i]].prev = expected /\ seal[s[i]].cur = Hash(Content(s[i]), expected)

LEMMA ValidIsVerified == ChainValid <=> Verified(Sorted(Durable))
<1> DEFINE s == Sorted(Durable)
<1>1. ChainValid <=> Flagged = {}
  BY DEF ChainValid
<1>2. Flagged = {} <=> Verified(s)
  <2>1. Flagged = {s[i] : i \in {j \in DOMAIN s :
                          \/ seal[s[j]].prev # IF j = 1 THEN Genesis ELSE seal[s[j - 1]].cur
                          \/ seal[s[j]].cur # Hash(Content(s[j]),
                               IF j = 1 THEN Genesis ELSE seal[s[j - 1]].cur)}}
    BY DEF Flagged
  <2> HIDE DEF s
  <2> QED
    BY <2>1 DEF Verified
<1> QED
  BY <1>1, <1>2

(* If no stored hash differs from the one computed anew, all hashes are      *)
(* those of the chain the verification expects.                              *)
LEMMA RebuildVerifies ==
  ASSUME ChainInv, seal' = Rebuilt, UNCHANGED <<vars, edits>>, Tampered = {}
  PROVE  ChainValid'
<1>1. PICK n, s : n = Cardinality(Live) /\ s = Sorted(Live)
  OBVIOUS
<1>2. n \in Nat /\ s \in [1..n -> Live]
  BY <1>1, SortedFacts DEF ChainInv, ChainTypes, Live
<1>3. PICK h \in [0..n -> Seq(Contents)] :
        Hashes(h, s, n) /\ \A i \in 1..n : Rebuilt[s[i]] = Relinked(h, i)
  BY <1>1, ChainHasTypes, RebuiltFacts
<1>4. \A i \in 0..n : h[i] = HashAt(h, s, i)
  BY <1>3 DEF Hashes
<1>5. h[0] = Genesis
  <2>1. 0 \in 0..n
    BY <1>2
  <2> QED
    BY <1>4, <2>1 DEF HashAt
<1>6. Sorted(Durable)' = s
  <2>1. Durable' = Live
    BY RebuildCovers
  <2>2. \A d, e : Before(d, e)' <=> Before(d, e)
    BY DEF vars, Before
  <2> QED
    BY <1>1, <2>1, <2>2, Zenon DEF Sorted
<1>7. \A e : Content(e)' = Content(e)
  BY DEF vars, Content
<1>8. ASSUME NEW i \in 1..n
      PROVE  /\ i # 1 => Rebuilt[s[i - 1]].cur = h[i - 1]
             /\ i = 1 => h[i - 1] = Genesis
             /\ Rebuilt[s[i]].prev = h[i - 1]
             /\ Rebuilt[s[i]].cur = Hash(Content(s[i]), h[i - 1])
  <2>1. i \in 0..n /\ i # 0 /\ (i # 1 => i - 1 \in 1..n) /\ s[i] \in Live
    BY <1>2
  <2>2. Rebuilt[s[i]].prev = h[i - 1] /\ Rebuilt[s[i]].cur = h[i]
    <3>1. Rebuilt[s[i]] = Relinked(h, i)
      BY <1>3
    <3> QED
      BY <3>1 DEF Relinked
  <2>3. i # 1 => Rebuilt[s[i - 1]].cur = h[i - 1]
    <3>1. i # 1 => Rebuilt[s[i - 1]] = Relinked(h, i - 1)
      BY <1>3, <2>1
    <3> QED
      BY <3>1 DEF Relinked
  <2>4. Rebuilt[s[i]].cur = Hash(Content(s[i]), h[i - 1])
    <3>1. CASE s[i] \in Durable
      <4>1. seal[s[i]].cur = Hash(Content(s[i]), Rebuilt[s[i]].prev)
        BY <3>1 DEF Tampered
      <4>2. Rebuilt[s[i]].cur = seal[s[i]].cur
        BY <2>1, <3>1, ChainHasTypes, RebuiltEntry
      <4> QED
        BY <2>2, <4>1, <4>2
    <3>2. CASE s[i] \notin Durable
      BY <2>1, <2>2, <3>2, ChainHasTypes, RebuiltEntry
    <3> QED
      BY <3>1, <3>2
  <2>5. i = 1 => h[i - 1] = Genesis
    <3>1. i = 1 => i - 1 = 0
      OBVIOUS
    <3> QED
      BY <1>5, <3>1
  <2> QED
    BY <2>2, <2>3, <2>4, <2>5
<1>9. Verified(s)'
  <2>1. DOMAIN s = 1..n
    BY <1>2
  <2> QED
    BY <1>7, <1>8, <2>1 DEF Verified
<1>10. (ChainValid <=> Verified(Sorted(Durable)))'
  BY ValidIsVerified, PTL
<1> QED
  BY <1>6, <1>9, <1>10 DEF Verified

(* A rebuild hides nothing and leaves nothing out: it counts every altered   *)
(* entry as tampered, and if it counts none, the chain covers every live     *)
(* entry and verifies.                                                       *)
THEOREM RebuildsAreHonest == ChainSpec => RebuildReportsTruly
<1>1. ChainInv /\ [ChainNext]_<<vars, chainVars>> =>
        [\A u \in Users : RebuildLedgerChain(u) =>
           /\ Durable' = Live
           /\ Tampered = {} => ChainValid'
           /\ Altered \subseteq Tampered]_<<vars, chainVars>>
  <2> SUFFICES ASSUME ChainInv, NEW u \in Users, RebuildLedgerChain(u)
               PROVE  /\ Durable' = Live
                      /\ Tampered = {} => ChainValid'
                      /\ Altered \subseteq Tampered
    OBVIOUS
  <2> QED
    BY AlteredIsTampered, RebuildCovers, RebuildVerifies DEF RebuildLedgerChain
<1> QED
  BY <1>1, ChainHolds, PTL DEF ChainSpec, RebuildReportsTruly

-----------------------------------------------------------------------------
(* What may break a chain that verifies. A step keeps the chain valid if the *)
(* sealed entries stay as they are and at most one is added, after them all, *)
(* linked to the last of them.                                               *)
Same(d) ==
    /\ d \in Durable' /\ seal'[d] = seal[d] /\ Content(d)' = Content(d)
    /\ journal'[d].month = journal[d].month /\ journal'[d].number = journal[d].number

LastHash == IF Durable = {} THEN Genesis ELSE seal[Last(Sorted(Durable))].cur

Added(e) ==
    /\ \A d \in Durable : ~Before(e, d)'
    /\ Durable' = Durable \union {e}
    /\ seal'[e].prev = LastHash
    /\ seal'[e].cur = Hash(Content(e)', seal'[e].prev)

AllSorted ==
    \A S \in SUBSET EntryIds :
        IsFiniteSet(S) /\ Ordered(Order, S) /\ InOrder(Sorted(S), Order, S)

LEMMA EntriesSorted == TypeOK => AllSorted
BY EntriesOrdered, SortedInOrder DEF AllSorted

LEMMA StillValid ==
  ASSUME TypeOK, TypeOK', ChainValid,
         \A d \in Durable : Same(d), \A e \in Durable' \ Durable : Added(e)
  PROVE  ChainValid'
<1>1. PICK n, t : n = Cardinality(Durable) /\ t = Sorted(Durable)
  OBVIOUS
<1>2. PICK m, s : m = Cardinality(Durable') /\ s = Sorted(Durable)'
  OBVIOUS
<1>3. Durable \subseteq EntryIds /\ Durable' \subseteq EntryIds /\ Durable \subseteq Durable'
  BY DEF Durable, Live, Same
<1>4. (TypeOK => AllSorted)'
  BY EntriesSorted, PTL
<1>5. IsFiniteSet(Durable') /\ Ordered(Order', Durable') /\ InOrder(s, Order', Durable')
  BY <1>2, <1>3, <1>4 DEF AllSorted
<1>6. InOrder(t, Order', Durable)
  <2>1. InOrder(t, Order, Durable)
    BY <1>1, <1>3, SortedInOrder
  <2>2. \A d, e \in Durable : Before(d, e)' <=> Before(d, e)
    BY DEF Same, Before
  <2>3. \A d, e \in Durable : <<d, e>> \in Order' <=> <<d, e>> \in Order
    BY <1>3, <2>2 DEF Order
  <2> QED
    BY <2>1, <2>3 DEF InOrder
<1>7. ASSUME NEW d \in Durable, NEW e \in Durable' \ Durable
      PROVE  <<d, e>> \in Order'
  <2>1. <<e, d>> \notin Order'
    BY <1>3 DEF Added, Order
  <2> QED
    BY <1>3, <1>5, <2>1 DEF Ordered
<1>8. n <= m /\ \A i \in 1..n : s[i] = t[i]
  BY <1>1, <1>2, <1>3, <1>5, <1>6, <1>7, SortedAlike
<1>9. /\ m \in Nat /\ n \in Nat
      /\ s \in [1..m -> Durable'] /\ t \in [1..n -> Durable]
      /\ \A x \in Durable : \E i \in 1..n : t[i] = x
      /\ \A i, j \in 1..m : s[i] = s[j] => i = j
  <2>1. m \in Nat /\ \A i, j \in 1..m : s[i] = s[j] => i = j
    BY <1>2, <1>5, InOrderOnto
  <2>2. n \in Nat /\ \A x \in Durable : \E i \in 1..n : t[i] = x
    BY <1>1, <1>3, SortedFacts
  <2> QED
    BY <1>1, <1>2, <1>5, <1>6, <2>1, <2>2 DEF InOrder
<1>10. Verified(t)
  BY <1>1, ValidIsVerified
<1>11. \A i \in 1..m : IF i <= n THEN s[i] \in Durable ELSE s[i] \in Durable' \ Durable
  <2> SUFFICES ASSUME NEW i \in 1..m
               PROVE  IF i <= n THEN s[i] \in Durable ELSE s[i] \in Durable' \ Durable
    OBVIOUS
  <2>1. CASE i <= n
    BY <1>8, <1>9, <2>1
  <2>2. CASE ~(i <= n)
    <3>1. ASSUME s[i] \in Durable PROVE FALSE
      <4>1. PICK k \in 1..n : t[k] = s[i]
        BY <1>9, <3>1
      <4>2. k \in 1..m /\ s[k] = s[i]
        BY <1>8, <1>9, <4>1
      <4> QED
        BY <1>9, <2>2, <4>1, <4>2
    <3> QED
      BY <1>9, <2>2, <3>1
  <2> QED
    BY <2>1, <2>2
<1>12. ASSUME NEW i \in 1..m, i <= n
       PROVE  LET expected == IF i = 1 THEN Genesis ELSE seal'[s[i - 1]].cur
              IN  seal'[s[i]].prev = expected /\ seal'[s[i]].cur = Hash(Content(s[i])', expected)
  <2>1. i \in 1..n /\ (i # 1 => i - 1 \in 1..n)
    BY <1>9, <1>12
  <2>2. s[i] = t[i] /\ t[i] \in Durable /\ (i # 1 => s[i - 1] = t[i - 1] /\ t[i - 1] \in Durable)
    BY <1>8, <1>9, <2>1
  <2>3. /\ seal'[s[i]] = seal[t[i]] /\ Content(s[i])' = Content(t[i])
        /\ i # 1 => seal'[s[i - 1]] = seal[t[i - 1]]
    BY <2>2 DEF Same
  <2>4. LET expected == IF i = 1 THEN Genesis ELSE seal[t[i - 1]].cur
        IN  seal[t[i]].prev = expected /\ seal[t[i]].cur = Hash(Content(t[i]), expected)
    BY <1>9, <1>10, <2>1 DEF Verified
  <2> QED
    BY <2>3, <2>4
<1>13. ASSUME NEW i \in 1..m, ~(i <= n)
       PROVE  LET expected == IF i = 1 THEN Genesis ELSE seal'[s[i - 1]].cur
              IN  seal'[s[i]].prev = expected /\ seal'[s[i]].cur = Hash(Content(s[i])', expected)
  <2>1. s[i] \in Durable' \ Durable
    BY <1>11, <1>13
  <2>2. Added(s[i])
    BY <2>1
  <2>3. i = n + 1
    <3>1. n + 1 \in 1..m /\ ~(n + 1 <= n)
      BY <1>9, <1>13
    <3>2. s[n + 1] \in Durable' \ Durable
      BY <1>11, <3>1
    <3>3. s[n + 1] = s[i]
      BY <2>1, <2>2, <3>2 DEF Added
    <3> QED
      BY <1>9, <3>1, <3>3
  <2>4. LastHash = IF i = 1 THEN Genesis ELSE seal'[s[i - 1]].cur
    <3>1. CASE n = 0
      <4>1. Durable = {}
        BY <1>9, <3>1
      <4> QED
        BY <2>3, <3>1, <4>1 DEF LastHash
    <3>2. CASE n # 0
      <4>1. n \in 1..n /\ i # 1 /\ i - 1 = n
        BY <1>9, <2>3, <3>2
      <4>2. t[n] \in Durable /\ s[n] = t[n]
        BY <1>8, <1>9, <4>1
      <4>3. Len(t) = n
        BY <1>1, <1>3, SortedFacts
      <4>4. LastHash = seal[t[n]].cur
        BY <1>1, <4>2, <4>3 DEF LastHash, Last
      <4>5. seal'[s[n]] = seal[t[n]]
        BY <4>2 DEF Same
      <4> QED
        BY <4>1, <4>4, <4>5
    <3> QED
      BY <3>1, <3>2
  <2> QED
    BY <2>2, <2>4 DEF Added
<1>14. Verified(s)'
  <2>1. DOMAIN s = 1..m
    BY <1>9
  <2> QED
    BY <1>12, <1>13, <2>1 DEF Verified
<1>15. (ChainValid <=> Verified(Sorted(Durable)))'
  BY ValidIsVerified, PTL
<1> QED
  BY <1>2, <1>14, <1>15 DEF Verified

LEMMA AppendedSeals ==
  ASSUME NEW e, NEW c
  PROVE  Appended(e, c).cur = Hash(c, Appended(e, c).prev)
<1>1. CASE Predecessors(e) = {}
  BY <1>1 DEF Appended
<1>2. CASE Predecessors(e) # {}
  <2> DEFINE p == CHOOSE x \in Predecessors(e) : TRUE
             h == IF seal[p].cur = NoHash THEN Genesis ELSE seal[p].cur
  <2>1. Appended(e, c) = [prev |-> h, cur |-> Hash(c, h), index |-> seal[p].index + 1]
    BY <1>2 DEF Appended
  <2> HIDE DEF h
  <2> QED
    BY <2>1
<1> QED
  BY <1>1, <1>2

(* An entry not touched stays the same, and one newly sealed in order is     *)
(* added at the end.                                                         *)
LEMMA UntouchedIsSame ==
  ASSUME NEW d \in Durable, journal'[d] = journal[d], seal'[d] = seal[d],
         DOMAIN lines'[d] = DOMAIN lines[d], edits' = edits
  PROVE  Same(d)
BY DEF Same, Durable, Live, Content

LEMMA OrderlyIsAdded ==
  ASSUME ChainInv, ~SealedOutOfOrder, NEW e \in Durable', e \notin Durable,
         \A x \in Durable' : x \in Durable \/ x = e, \A d \in Durable : Same(d),
         seal'[e].cur = Hash(Content(e)', seal'[e].prev)
  PROVE  Added(e)
<1>1. e \in EntryIds /\ seal'[e].cur # NoHash
  BY DEF Durable, Live
<1>2. seal[e].cur = NoHash
  BY <1>1 DEF ChainInv, SealInv, Durable
<1>3. Durable \ {e} = Durable
  OBVIOUS
<1>4. /\ ~\E d \in Durable : Before(e, d)'
      /\ ~(Durable # {} /\ seal'[e].prev # seal[Last(Sorted(Durable))].cur)
      /\ ~(Durable = {} /\ seal'[e].prev # Genesis)
  <2>1. seal'[e].cur # seal[e].cur
    BY <1>1, <1>2
  <2> QED
    BY <1>1, <1>3, <2>1 DEF SealedOutOfOrder
<1>5. Durable' = Durable \union {e}
  BY DEF Same
<1> QED
  BY <1>4, <1>5 DEF Added, LastHash

Excused == edits' # edits \/ StatusOfSealedChanged \/ SealedOutOfOrder

LEMMA UnsealingExcused ==
  ASSUME ChainInv, TypeOK', ChainValid, Unsealing, UNCHANGED chainVars
  PROVE  ChainValid' \/ Excused
<1> SUFFICES ASSUME ~StatusOfSealedChanged PROVE ChainValid'
  BY DEF Excused
<1>1. ChainTypes /\ TypeOK /\ seal' = seal /\ edits' = edits
  BY DEF ChainInv, ChainTypes, chainVars
<1>2. ASSUME NEW d \in Durable PROVE Same(d)
  <2>1. d \in EntryIds /\ d \in Live /\ journal'[d].status = journal[d].status
    BY DEF StatusOfSealedChanged, Durable, Live
  <2>2. CASE NextMonth
    BY <1>1, <2>2, UntouchedIsSame DEF NextMonth
  <2>3. ASSUME NEW u \in Users, NEW r \in Requests, CreateJournalEntry(u, r) PROVE Same(d)
    <3>1. PICK f \in Fresh : /\ journal' = [journal EXCEPT ![f] = NewEntry(u, r.month, "MANUAL")]
                             /\ lines' = [lines EXCEPT ![f] = Recorded(r)]
      BY <2>3 DEF CreateJournalEntry
    <3>2. f # d
      BY <2>1, <3>1, FreshAreAbsent DEF Live
    <3>3. journal'[d] = journal[d] /\ lines'[d] = lines[d]
      BY <1>1, <2>1, <3>1, <3>2 DEF TypeOK
    <3> QED
      BY <1>1, <3>3, UntouchedIsSame
  <2>4. ASSUME NEW u \in Users, NEW e \in EntryIds,
               SubmitJournalEntry(u, e) \/ ApproveJournalEntry(u, e)
        PROVE  Same(d)
    <3>1. lines' = lines /\ journal[e] \in Entry /\ DOMAIN journal = EntryIds
      BY <1>1, <2>4 DEF SubmitJournalEntry, ApproveJournalEntry, TypeOK
    <3>2. \/ journal' = [journal EXCEPT ![e].status = "SUBMITTED"] /\ journal[e].status = "DRAFT"
          \/ /\ journal' = [journal EXCEPT ![e] = Approved(@, u)]
             /\ journal[e].status \in {"DRAFT", "SUBMITTED"}
      BY <2>4 DEF SubmitJournalEntry, ApproveJournalEntry, MayApprove
    <3>3. journal'[e].status # journal[e].status
      BY <3>1, <3>2 DEF Approved, Entry
    <3>4. d # e /\ journal'[d] = journal[d]
      BY <2>1, <3>1, <3>2, <3>3
    <3> QED
      BY <1>1, <3>1, <3>4, UntouchedIsSame
  <2> QED
    BY <2>2, <2>3, <2>4 DEF Unsealing
<1>3. Durable' = Durable
  <2>1. ASSUME NEW e \in Durable' PROVE e \in Durable
    BY <1>1 DEF ChainInv, SealInv, Durable, Live
  <2> QED
    BY <1>2, <2>1 DEF Same
<1> QED
  BY <1>1, <1>2, <1>3, StillValid

LEMMA PostExcused ==
  ASSUME ChainInv, TypeOK', ChainValid, NEW u \in Users, NEW e \in EntryIds, PostAndSeal(u, e)
  PROVE  ChainValid' \/ Excused
<1> DEFINE c == [Content(e) EXCEPT !.status = "POSTED"]
<1> SUFFICES ASSUME ~StatusOfSealedChanged, ~SealedOutOfOrder PROVE ChainValid'
  BY DEF Excused
<1>1. /\ TypeOK /\ lines' = lines /\ edits' = edits /\ journal \in [EntryIds -> Entry]
      /\ journal' = [journal EXCEPT ![e] = Posted(@, u)] /\ journal[e].status # "POSTED"
      /\ seal' = [seal EXCEPT ![e] = Appended(e, c)] /\ DOMAIN seal = EntryIds /\ e \in Live
  BY DEF PostAndSeal, PostJournalEntry, MayPost, ChainInv, ChainTypes, TypeOK
<1>2. journal'[e].status = "POSTED"
  BY <1>1, PostedFields
<1>3. e \notin Durable
  BY <1>1, <1>2 DEF StatusOfSealedChanged
<1>4. ASSUME NEW d \in EntryIds, d # e
      PROVE  journal'[d] = journal[d] /\ seal'[d] = seal[d]
  BY <1>1, <1>4
<1>5. ASSUME NEW d \in Durable PROVE Same(d)
  <2>1. d \in EntryIds /\ d # e
    BY <1>3 DEF Durable, Live
  <2> QED
    BY <1>1, <1>4, <2>1, UntouchedIsSame
<1>6. \A x \in Durable' : x \in Durable \/ x = e
  BY <1>4 DEF Durable, Live
<1>7. ASSUME e \in Durable' PROVE Added(e)
  <2>1. Content(e)' = c
    BY <1>1, <1>2 DEF Content
  <2>2. seal'[e] = Appended(e, c)
    BY <1>1
  <2> HIDE DEF c
  <2>3. seal'[e].cur = Hash(Content(e)', seal'[e].prev)
    BY <2>1, <2>2, AppendedSeals
  <2> QED
    BY <1>3, <1>5, <1>6, <1>7, <2>3, OrderlyIsAdded
<1>8. \A x \in Durable' \ Durable : Added(x)
  BY <1>6, <1>7
<1> QED
  BY <1>1, <1>5, <1>8, StillValid

(* A posted entry is sealed: its reversal changes the status its hash covers. *)
LEMMA ReverseExcused ==
  ASSUME ChainInv, NEW u \in Users, NEW d \in EntryIds, ReverseAndSeal(u, d)
  PROVE  Excused
<1>1. journal[d].status = "POSTED" /\ journal \in [EntryIds -> Entry]
  BY DEF ReverseAndSeal, ReverseJournalEntry, MayReverse, ChainInv, ChainTypes, TypeOK
<1>2. d \in Durable
  BY <1>1 DEF ChainInv, PostedInv, Live
<1>3. PICK f \in Fresh : journal' = [journal EXCEPT ![d] = ReversedBy(@, f),
                                       ![f] = Posted(NewEntry(u, today, "REVERSAL"), u)]
  BY DEF ReverseAndSeal, ReverseJournalEntry
<1>4. f \in EntryIds /\ f # d
  BY <1>1, <1>3, FreshAreAbsent
<1>5. journal'[d].status = "REVERSED"
  BY <1>1, <1>3, <1>4, ReversedByFields
<1> QED
  BY <1>1, <1>2, <1>5 DEF Excused, StatusOfSealedChanged

LEMMA DeleteExcused ==
  ASSUME ChainInv, TypeOK', ChainValid, NEW u \in Users, NEW e \in EntryIds, DeleteSealed(u, e)
  PROVE  ChainValid' \/ Excused
<1> SUFFICES ASSUME ~StatusOfSealedChanged PROVE ChainValid'
  BY DEF Excused
<1>1. /\ TypeOK /\ lines' = lines /\ edits' = edits /\ journal \in [EntryIds -> Entry]
      /\ journal' = [journal EXCEPT ![e].status = "DELETED"] /\ e \in Live
      /\ seal' = [seal EXCEPT ![e] = Unsealed] /\ DOMAIN seal = EntryIds
  BY DEF DeleteSealed, DeleteJournalEntry, ChainInv, ChainTypes, TypeOK
<1>2. journal'[e].status = "DELETED" /\ journal[e].status # "DELETED"
  BY <1>1 DEF Entry, Live
<1>3. e \notin Durable /\ e \notin Live'
  BY <1>2 DEF StatusOfSealedChanged, Live
<1>4. ASSUME NEW d \in EntryIds, d # e
      PROVE  journal'[d] = journal[d] /\ seal'[d] = seal[d]
  BY <1>1, <1>4
<1>5. ASSUME NEW d \in Durable PROVE Same(d)
  <2>1. d \in EntryIds /\ d # e
    BY <1>3 DEF Durable, Live
  <2> QED
    BY <1>1, <1>4, <2>1, UntouchedIsSame
<1>6. Durable' \ Durable = {}
  BY <1>3, <1>4 DEF Durable, Live
<1> QED
  BY <1>1, <1>5, <1>6, StillValid

(* If the entries a rebuild seals come after all that were sealed, it finds  *)
(* the links of a chain that verifies as they were.                          *)
LEMMA RebuildExcused ==
  ASSUME ChainInv, ChainValid, NEW u \in Users, RebuildLedgerChain(u)
  PROVE  ChainValid' \/ Excused
<1> SUFFICES ASSUME ~SealedOutOfOrder PROVE ChainValid'
  BY DEF Excused
<1>1. seal' = Rebuilt /\ UNCHANGED <<vars, edits>> /\ TypeOK
  BY DEF RebuildLedgerChain, ChainInv, ChainTypes
<1>2. Durable' = Live /\ Durable \subseteq Live /\ Live \subseteq EntryIds
  BY <1>1, RebuildCovers DEF Durable, Live
<1>3. ASSUME NEW d \in Durable, NEW e \in Live \ Durable
      PROVE  <<d, e>> \in Order
  <2>1. seal[e].cur = NoHash /\ e \in EntryIds /\ e \in Durable'
    BY <1>2 DEF Durable
  <2>2. seal'[e].cur # NoHash
    BY <2>1 DEF Durable
  <2>3. ~Before(e, d)'
    BY <2>1, <2>2 DEF SealedOutOfOrder
  <2>4. Before(e, d)' <=> Before(e, d)
    BY <1>1 DEF vars, Before
  <2> QED
    BY <1>1, <1>2, <2>3, <2>4, EntriesOrdered DEF Ordered, Order
<1>4. PICK n, s : n = Cardinality(Live) /\ s = Sorted(Live)
  OBVIOUS
<1>5. PICK m, t : m = Cardinality(Durable) /\ t = Sorted(Durable)
  OBVIOUS
<1>6. /\ IsFiniteSet(Live) /\ Ordered(Order, Live) /\ InOrder(s, Order, Live)
      /\ InOrder(t, Order, Durable)
  BY <1>1, <1>2, <1>4, <1>5, EntriesOrdered, SortedInOrder
<1>7. m <= n /\ \A i \in 1..m : s[i] = t[i]
  BY <1>2, <1>3, <1>4, <1>5, <1>6, SortedAlike
<1>8. /\ n \in Nat /\ m \in Nat /\ t \in [1..m -> Durable]
      /\ \A x \in Durable : \E i \in 1..m : t[i] = x
  BY <1>1, <1>2, <1>4, <1>5, SortedFacts
<1>9. PICK h \in [0..n -> Seq(Contents)] :
        Hashes(h, s, n) /\ \A i \in 1..n : Rebuilt[s[i]] = Relinked(h, i)
  BY <1>4, ChainHasTypes, RebuiltFacts
<1>10. \A i \in 0..n : h[i] = HashAt(h, s, i)
  BY <1>9 DEF Hashes
<1>11. Verified(t)
  BY <1>5, ValidIsVerified
<1>12. ASSUME NEW d \in Durable
       PROVE  seal[d].prev = Rebuilt[d].prev /\ seal[d].cur = Hash(Content(d), Rebuilt[d].prev)
  <2>1. PICK i \in 1..m : t[i] = d
    BY <1>8
  <2>2. i \in 1..n /\ s[i] = d /\ i - 1 \in 0..n
    BY <1>7, <1>8, <2>1
  <2>3. Rebuilt[d].prev = h[i - 1]
    <3>1. Rebuilt[s[i]] = Relinked(h, i)
      BY <1>9, <2>2
    <3> QED
      BY <2>2, <3>1 DEF Relinked
  <2>4. h[i - 1] = IF i = 1 THEN Genesis ELSE seal[t[i - 1]].cur
    <3>1. CASE i = 1
      <4>1. i - 1 = 0
        BY <3>1
      <4> QED
        BY <1>10, <2>2, <3>1, <4>1 DEF HashAt
    <3>2. CASE i # 1
      <4>1. i - 1 \in 1..m /\ i - 1 # 0
        BY <1>8, <3>2
      <4>2. s[i - 1] = t[i - 1] /\ seal[t[i - 1]].cur # NoHash
        BY <1>7, <1>8, <4>1 DEF Durable
      <4> QED
        BY <1>10, <2>2, <3>2, <4>1, <4>2 DEF HashAt
    <3> QED
      BY <3>1, <3>2
  <2>5. LET expected == IF i = 1 THEN Genesis ELSE seal[t[i - 1]].cur
        IN  seal[t[i]].prev = expected /\ seal[t[i]].cur = Hash(Content(t[i]), expected)
    BY <1>8, <1>11 DEF Verified
  <2> QED
    BY <2>1, <2>3, <2>4, <2>5
<1>13. Tampered = {}
  BY <1>12 DEF Tampered
<1> QED
  BY <1>1, <1>13, RebuildVerifies

(* A chain that verifies breaks by an edit outside the program, a change of  *)
(* status under a seal, or a seal set out of order: by nothing else.         *)
THEOREM BreaksHaveReasons == ChainSpec => BreaksAreExplained
<1>1. ChainInv /\ ChainInv' /\ [ChainNext]_<<vars, chainVars>> =>
        [ChainValid /\ ~ChainValid' =>
           edits' # edits \/ StatusOfSealedChanged \/ SealedOutOfOrder]_<<vars, chainVars>>
  <2> SUFFICES ASSUME ChainInv, ChainInv', ChainNext, ChainValid
               PROVE  ChainValid' \/ Excused
    BY DEF Excused
  <2>1. TypeOK'
    BY DEF ChainInv, ChainTypes
  <2>2. CASE Unsealing /\ UNCHANGED chainVars
    BY <2>1, <2>2, UnsealingExcused
  <2>3. ASSUME NEW u \in Users, NEW e \in EntryIds,
               PostAndSeal(u, e) \/ ReverseAndSeal(u, e) \/ DeleteSealed(u, e)
        PROVE  ChainValid' \/ Excused
    BY <2>1, <2>3, PostExcused, ReverseExcused, DeleteExcused
  <2>4. ASSUME NEW u \in Users, RebuildLedgerChain(u)
        PROVE  ChainValid' \/ Excused
    BY <2>4, RebuildExcused
  <2>5. ASSUME NEW e \in EntryIds, EditOutside(e)
        PROVE  Excused
    BY <2>5 DEF EditOutside, ChainInv, ChainTypes, Excused
  <2> QED
    BY <2>2, <2>3, <2>4, <2>5 DEF ChainNext
<1> QED
  BY <1>1, ChainHolds, PTL DEF ChainSpec, BreaksAreExplained

-----------------------------------------------------------------------------
(* The journal behind the database. A row, and a call that will write one,   *)
(* carries the hash of an entry: as computed for the status it stores, or    *)
(* kept from an earlier status of the entry.                                 *)
SealOf(entry, s) ==
    /\ s.cur \in Seq(Contents) /\ s.cur # << >>
    /\ \/ Level(Last(s.cur).status) < Level(entry.status)
       \/ Level(Last(s.cur).status) = Level(entry.status) /\ s.prev = Front(s.cur)

Writable(entry) == entry \in Entry /\ entry.status \notin {"ABSENT", "DELETED"}

MemoryInv(e) ==
    /\ seal[e].cur \in Seq(Contents) /\ seal[e].cur # << >>
    /\ e \notin Live => seal[e].cur = NoHash
    /\ Level(Last(seal[e].cur).status) <= Level(journal[e].status)
    /\ Last(seal[e].cur).edits <= edits[e]
    /\ history[e] = 0 <=> journal[e].postedBy = Nobody
    /\ journal[e].status = "ABSENT" =>
         history[e] = 0 /\ writes[e] = << >> /\ lineRows[e] = {} /\ e \notin Stored
    /\ e \notin Stored => edits[e] = 0

RowInv(e) ==
    /\ rows[e] = [entry |-> rows[e].entry, seal |-> rows[e].seal, edits |-> rows[e].edits]
    /\ Writable(rows[e].entry) /\ SealOf(rows[e].entry, rows[e].seal)
    /\ rows[e].edits \in Nat /\ edits[e] <= rows[e].edits
    /\ Last(rows[e].seal.cur).edits <= rows[e].edits

CallOk(c, accounts, n) ==
    /\ c = [kind |-> c.kind, entry |-> c.entry, seal |-> c.seal, left |-> c.left]
    /\ c.kind \in {"insert", "lines", "update"}
    /\ c.left \subseteq accounts
    /\ c.kind # "update" => c.left # {}
    /\ Writable(c.entry) /\ SealOf(c.entry, c.seal)
    /\ Last(c.seal.cur).edits <= n

IsQueue(q) == q \in Seq({q[i] : i \in DOMAIN q})

QueueInv(e) ==
    /\ IsQueue(writes[e])
    /\ \A i \in 1..Len(writes[e]) : CallOk(writes[e][i], DOMAIN lines[e], edits[e])
    /\ lineRows[e] \subseteq DOMAIN lines[e]

(* What ties an entry to its row while nothing disturbs it: its calls create *)
(* the row, then change it; the last of them writes what the memory holds,   *)
(* as does the row itself when no such call is left; and between two changes *)
(* of the row only a posting brings another hash.                            *)
Fits(e, entry) ==
    entry.status = journal[e].status /\ entry.approvedBy = journal[e].approvedBy

SameSeal(e, s) == s.cur = seal[e].cur /\ s.prev = seal[e].prev

Earlier(e, i) ==
    IF i = 1 \/ writes[e][i - 1].kind = "lines" THEN rows[e].seal.cur
    ELSE writes[e][i - 1].seal.cur

UpdatesFollow(e) == \A i \in 1..Len(writes[e]) : i > 1 => writes[e][i].kind = "update"

Latest(e) ==
    LET w == writes[e] IN
    /\ Len(w) > 0 /\ w[Len(w)].kind # "lines" =>
         Fits(e, w[Len(w)].entry) /\ SameSeal(e, w[Len(w)].seal)
    /\ Len(w) = 0 \/ w[Len(w)].kind = "lines" =>
         Fits(e, rows[e].entry) /\ (e \notin toSeal => SameSeal(e, rows[e].seal))

LinesTied(e) ==
    LET w == writes[e] IN
    /\ Len(w) > 0 /\ w[1].kind = "insert" =>
         e \notin Stored /\ lineRows[e] = {} /\ w[1].left = DOMAIN lines[e]
    /\ Len(w) = 0 \/ w[1].kind # "insert" => e \in Stored
    /\ Len(w) > 0 /\ w[1].kind = "lines" => lineRows[e] \union w[1].left = DOMAIN lines[e]
    /\ Len(w) = 0 \/ w[1].kind = "update" => lineRows[e] = DOMAIN lines[e]

HashesKept(e) ==
    \A i \in 1..Len(writes[e]) :
        writes[e][i].kind = "update" /\ writes[e][i].entry.status # "POSTED" =>
            writes[e][i].seal.cur = Earlier(e, i)

Tied(e) ==
    /\ UpdatesFollow(e) /\ LinesTied(e) /\ HashesKept(e)
    /\ e \in Live => Latest(e)

(* A deleted entry may leave calls behind, which still reach its row.        *)
Bound(e) == e \notin disturbed /\ (e \in Live \/ writes[e] # << >>)

StoredInv(e) ==
    /\ MemoryInv(e) /\ QueueInv(e)
    /\ e \in Stored => RowInv(e)
    /\ Bound(e) => Tied(e)

PhaseInv ==
    /\ phase \in {"up", "loaded", "sealing"}
    /\ phase # "up" => \A e \in EntryIds : writes[e] = << >>
    /\ phase # "sealing" => toSeal = {}
    /\ phase = "loaded" => disturbed = {}
    /\ toSeal \subseteq Live \ disturbed
    /\ \A e \in toSeal : SealOf(journal[e], seal[e])

StoreTypes ==
    /\ ChainTypes
    /\ DOMAIN writes = EntryIds /\ DOMAIN lineRows = EntryIds /\ Stored \subseteq EntryIds

StoreInv ==
    /\ StoreTypes /\ PhaseInv /\ BalancesMatchHistory
    /\ \A e \in EntryIds : StoredInv(e)

LEMMA NoCalls == IsQueue(<< >>) /\ Len(<< >>) = 0
BY EmptySeq DEF IsQueue

LEMMA QueueFacts ==
  ASSUME NEW q, IsQueue(q)
  PROVE  /\ Len(q) \in Nat /\ DOMAIN q = 1..Len(q)
         /\ q = << >> <=> Len(q) = 0
<1>1. q \in Seq({q[i] : i \in DOMAIN q})
  BY DEF IsQueue
<1> QED
  BY <1>1, EmptySeq, LenProperties

LEMMA SeqIsQueue ==
  ASSUME NEW n \in Nat, NEW q, q = [i \in 1..n |-> q[i]]
  PROVE  IsQueue(q) /\ Len(q) = n
<1> DEFINE S == {q[i] : i \in DOMAIN q}
<1>1. DOMAIN q = 1..n
  OBVIOUS
<1>2. q \in [1..n -> S]
  BY <1>1
<1>3. q \in Seq(S)
  <2> HIDE DEF S
  <2> QED
    BY <1>2
<1>4. Len(q) = n
  <2> HIDE DEF S
  <2>1. Len(q) \in Nat /\ DOMAIN q = 1..Len(q)
    BY <1>3, LenProperties
  <2>2. ASSUME NEW m \in Nat, 1..m = 1..n
        PROVE  m = n
    <3>1. (m \in 1..m <=> m \in 1..n) /\ (n \in 1..m <=> n \in 1..n)
      BY <2>2
    <3> QED
      BY <3>1
  <2>3. Len(q) \in Nat /\ 1..Len(q) = 1..n
    BY <1>1, <2>1
  <2> QED
    BY <2>2, <2>3
<1> QED
  BY <1>3, <1>4 DEF IsQueue

LEMMA QueueGrows ==
  ASSUME NEW q, IsQueue(q), NEW c
  PROVE  /\ IsQueue(Append(q, c)) /\ Len(Append(q, c)) = Len(q) + 1
         /\ \A i \in 1..Len(q) : Append(q, c)[i] = q[i]
         /\ Append(q, c)[Len(q) + 1] = c
<1> DEFINE S == {q[i] : i \in DOMAIN q} \union {c}
           r == Append(q, c)
           n == Len(q)
<1>1. q \in Seq(S) /\ n \in Nat
  <2>1. q \in Seq({q[i] : i \in DOMAIN q})
    BY DEF IsQueue
  <2> QED
    BY <2>1, QueueFacts
<1>2. /\ r \in Seq(S) /\ Len(r) = n + 1
      /\ \A i \in 1..n : r[i] = q[i]
      /\ r[n + 1] = c
  BY <1>1, AppendProperties
<1> HIDE DEF r, n, S
<1>3. r = [i \in 1..(n + 1) |-> r[i]]
  <2>1. r \in [1..Len(r) -> S]
    BY <1>2, LenProperties
  <2> QED
    BY <1>2, <2>1
<1>4. IsQueue(r)
  BY <1>1, <1>3, SeqIsQueue
<1> QED
  BY <1>2, <1>4 DEF r, n

LEMMA QueueChanges ==
  ASSUME NEW q, IsQueue(q), NEW i \in 1..Len(q), NEW c
  PROVE  /\ IsQueue([q EXCEPT ![i] = c]) /\ Len([q EXCEPT ![i] = c]) = Len(q)
         /\ \A k \in 1..Len(q) : [q EXCEPT ![i] = c][k] = IF k = i THEN c ELSE q[k]
<1> DEFINE r == [q EXCEPT ![i] = c]
           n == Len(q)
<1>1. n \in Nat /\ DOMAIN q = 1..n
  BY QueueFacts
<1>2. r = [k \in 1..n |-> r[k]] /\ \A k \in 1..n : r[k] = IF k = i THEN c ELSE q[k]
  BY <1>1
<1> HIDE DEF r, n
<1>3. IsQueue(r) /\ Len(r) = n
  BY <1>1, <1>2, SeqIsQueue
<1> QED
  BY <1>2, <1>3 DEF r, n

LEMMA QueueShrinks ==
  ASSUME NEW q, IsQueue(q), NEW i \in 1..Len(q)
  PROVE  /\ IsQueue(RemoveAt(q, i)) /\ Len(RemoveAt(q, i)) = Len(q) - 1
         /\ \A k \in 1..(Len(q) - 1) : RemoveAt(q, i)[k] = IF k < i THEN q[k] ELSE q[k + 1]
<1> DEFINE S == {q[k] : k \in DOMAIN q}
           r == RemoveAt(q, i)
           n == Len(q)
           a == SubSeq(q, 1, i - 1)
           b == SubSeq(q, i + 1, n)
<1>1. q \in Seq(S) /\ n \in Nat /\ i \in 1..n /\ i - 1 \in 0..n /\ DOMAIN q = 1..n
  BY QueueFacts DEF IsQueue
<1>2. /\ a \in Seq(S) /\ Len(a) = i - 1
      /\ \A k \in 1..(i - 1) : a[k] = q[k]
  <2> HIDE DEF S
  <2>1. \A k \in 1..(i - 1) : q[k] \in S
    BY <1>1
  <2> QED
    BY <1>1, <2>1, SubSeqProperties
<1>3. /\ b \in Seq(S) /\ Len(b) = n - i
      /\ \A k \in 1..(n - i) : b[k] = q[k + i]
  <2> HIDE DEF S
  <2>1. \A k \in (i + 1)..n : q[k] \in S
    BY <1>1
  <2>2. /\ b \in Seq(S) /\ Len(b) = IF i + 1 <= n THEN n - (i + 1) + 1 ELSE 0
        /\ \A k \in 1..(n - (i + 1) + 1) : b[k] = q[(i + 1) + k - 1]
    <3> HIDE DEF n
    <3>1. i + 1 \in Int /\ n \in Int
      BY <1>1
    <3> QED
      BY <2>1, <3>1, SubSeqProperties
  <2> HIDE DEF b, n
  <2>3. \A k \in 1..(n - i) : k \in 1..(n - (i + 1) + 1) /\ (i + 1) + k - 1 = k + i
    BY <1>1
  <2> QED
    BY <1>1, <2>2, <2>3
<1>4. r = a \o b
  BY DEF RemoveAt
<1> HIDE DEF r, a, b, n, S
<1>5. /\ r \in Seq(S) /\ Len(r) = (i - 1) + (n - i)
      /\ \A k \in 1..(n - 1) : r[k] = IF k <= i - 1 THEN a[k] ELSE b[k - (i - 1)]
  <2>1. /\ r \in Seq(S) /\ Len(r) = Len(a) + Len(b)
        /\ \A k \in 1..(Len(a) + Len(b)) : r[k] = IF k <= Len(a) THEN a[k] ELSE b[k - Len(a)]
    BY <1>2, <1>3, <1>4, ConcatProperties
  <2>2. (i - 1) + (n - i) = n - 1
    BY <1>1
  <2> QED
    BY <1>2, <1>3, <2>1, <2>2
<1>6. \A k \in 1..(n - 1) : r[k] = IF k < i THEN q[k] ELSE q[k + 1]
  <2> SUFFICES ASSUME NEW k \in 1..(n - 1) PROVE r[k] = IF k < i THEN q[k] ELSE q[k + 1]
    OBVIOUS
  <2>1. CASE k < i
    BY <1>1, <1>2, <1>5, <2>1
  <2>2. CASE ~(k < i)
    <3>1. k - (i - 1) \in 1..(n - i) /\ (k - (i - 1)) + i = k + 1 /\ ~(k <= i - 1)
      BY <1>1, <2>2
    <3>2. b[k - (i - 1)] = q[k + 1]
      BY <1>3, <3>1
    <3> QED
      BY <1>5, <2>2, <3>1, <3>2
  <2> QED
    BY <2>1, <2>2
<1>7. Len(r) = n - 1 /\ n - 1 \in Nat
  BY <1>1, <1>5
<1>8. r = [k \in 1..(n - 1) |-> r[k]]
  <2>1. r \in [1..Len(r) -> S]
    BY <1>5, LenProperties
  <2> QED
    BY <1>7, <2>1
<1>9. IsQueue(r)
  BY <1>7, <1>8, SeqIsQueue
<1> QED
  BY <1>6, <1>7, <1>9 DEF r, n

-----------------------------------------------------------------------------
(* New seals                                                                 *)
LEMMA FrontOfHash ==
  ASSUME NEW h \in Seq(Contents), NEW c \in Contents
  PROVE  Front(Hash(c, h)) = h
<1> DEFINE q == Append(h, c)
           n == Len(h)
<1>1. /\ q \in Seq(Contents) /\ Len(q) = n + 1 /\ n \in Nat
      /\ \A i \in 1..n : q[i] = h[i]
  BY AppendProperties, LenProperties
<1> HIDE DEF q
<1>2. \A i \in 1..n : q[i] \in Contents
  BY <1>1, LenProperties
<1>3. /\ SubSeq(q, 1, n) \in Seq(Contents)
      /\ Len(SubSeq(q, 1, n)) = IF 1 <= n THEN n - 1 + 1 ELSE 0
      /\ \A i \in 1..(n - 1 + 1) : SubSeq(q, 1, n)[i] = q[1 + i - 1]
  <2> HIDE DEF n
  <2>1. 1 \in Int /\ n \in Int
    BY <1>1
  <2> QED
    BY <1>2, <2>1, SubSeqProperties
<1>4. SubSeq(q, 1, n) = h
  <2> DEFINE r == SubSeq(q, 1, n)
  <2>1. \A i \in 1..n : i \in 1..(n - 1 + 1) /\ 1 + i - 1 = i
    BY <1>1
  <2>2. r \in Seq(Contents) /\ Len(r) = n /\ \A i \in 1..n : r[i] = h[i]
    <3>1. (IF 1 <= n THEN n - 1 + 1 ELSE 0) = n
      BY <1>1
    <3> QED
      BY <1>1, <1>3, <2>1, <3>1
  <2> HIDE DEF r
  <2>3. r \in [1..n -> Contents] /\ h \in [1..n -> Contents]
    BY <2>2, LenProperties
  <2> HIDE DEF n
  <2>4. r = h
    BY <2>2, <2>3
  <2> QED
    BY <2>4 DEF r
<1>5. Len(q) - 1 = n
  BY <1>1
<1> QED
  BY <1>4, <1>5 DEF Front, Hash, q

LEMMA NewSeal ==
  ASSUME NEW h \in Seq(Contents), NEW c \in Contents, NEW s, s.cur = Hash(c, h), s.prev = h,
         NEW entry, entry.status = c.status
  PROVE  /\ SealOf(entry, s) /\ Last(s.cur) = c
         /\ s.cur \in Seq(Contents) /\ s.cur # << >>
BY HashEndsWith, FrontOfHash DEF SealOf

LEMMA LevelType ==
  ASSUME NEW status
  PROVE  Level(status) \in Nat
BY DEF Level

(* A seal that is kept when the status moves on.                             *)
LEMMA KeptSeal ==
  ASSUME NEW s, s.cur \in Seq(Contents), s.cur # << >>, NEW old, NEW entry,
         Level(Last(s.cur).status) <= Level(old.status), Level(old.status) < Level(entry.status)
  PROVE  SealOf(entry, s)
BY LevelType DEF SealOf

LEMMA NoSeal ==
  /\ Unsealed.cur = NoHash /\ NoHash \in Seq(Contents) /\ NoHash # << >>
  /\ Level(Last(NoHash).status) = 0 /\ Last(NoHash).edits = 0
BY NoHashFacts DEF Unsealed, NoHash, Last, Level

(* What a start computes when it seals the chain anew.                       *)
NewHashAt(h, s, i) == IF i = 0 THEN Genesis ELSE Hash(Content(s[i]), h[i - 1])

NewHashes(h, s, m) == h = [i \in 0..m |-> NewHashAt(h, s, i)]

LEMMA NewHashesExist ==
  ASSUME NEW n \in Nat, NEW s
  PROVE  \E h : NewHashes(h, s, n)
<1> DEFINE Bad == {m \in Nat : ~\E h : NewHashes(h, s, m)}
<1>1. SUFFICES ASSUME Bad # {} PROVE FALSE
  OBVIOUS
<1>2. PICK m \in Bad : \A k \in Bad : m <= k
  BY <1>1, LeastOf
<1>3. CASE m = 0
  <2> DEFINE h == [i \in 0..0 |-> Genesis]
  <2>1. NewHashes(h, s, 0)
    BY DEF NewHashes, NewHashAt
  <2> QED
    BY <1>2, <1>3, <2>1
<1>4. CASE m # 0
  <2>1. m - 1 \in Nat /\ m - 1 \notin Bad /\ m \in 1..m
    BY <1>2, <1>4
  <2>2. PICK g : NewHashes(g, s, m - 1)
    BY <2>1
  <2> DEFINE h == [i \in 0..m |-> IF i = m THEN NewHashAt(g, s, m) ELSE g[i]]
  <2>5. \A i \in 0..m : i # m => h[i] = g[i] /\ i \in 0..(m - 1)
    BY <2>1
  <2>6. \A i \in 0..m : h[i] = NewHashAt(h, s, i)
    <3> SUFFICES ASSUME NEW i \in 0..m PROVE h[i] = NewHashAt(h, s, i)
      OBVIOUS
    <3>1. i # 0 => h[i - 1] = g[i - 1]
      BY <2>1, <2>5
    <3>2. NewHashAt(h, s, i) = NewHashAt(g, s, i)
      BY <3>1 DEF NewHashAt
    <3>3. i # m => g[i] = NewHashAt(g, s, i)
      BY <2>2, <2>5 DEF NewHashes
    <3> QED
      BY <2>5, <3>2, <3>3
  <2>7. NewHashes(h, s, m)
    <3>1. h = [i \in 0..m |-> h[i]]
      OBVIOUS
    <3> HIDE DEF h
    <3> QED
      BY <2>6, <3>1 DEF NewHashes
  <2> QED
    BY <1>2, <2>7
<1> QED
  BY <1>3, <1>4

LEMMA NewHashesType ==
  ASSUME ChainTypes, NEW n \in Nat, NEW s \in [1..n -> EntryIds], NEW h, NewHashes(h, s, n)
  PROVE  \A i \in 0..n : h[i] \in Seq(Contents)
<1> DEFINE Bad == {i \in 0..n : h[i] \notin Seq(Contents)}
<1>1. ASSUME Bad # {} PROVE FALSE
  <2>1. PICK i \in Bad : \A k \in Bad : i <= k
    <3>1. Bad \subseteq Nat
      OBVIOUS
    <3> HIDE DEF Bad
    <3> QED
      BY <1>1, <3>1, LeastOf
  <2>2. h[i] = NewHashAt(h, s, i)
    BY DEF NewHashes
  <2>3. CASE i = 0
    BY <2>2, <2>3, EmptySeq DEF NewHashAt, Genesis
  <2>4. CASE i # 0
    <3>1. i - 1 \in 0..n /\ ~(i <= i - 1) /\ i \in 1..n
      BY <2>4
    <3>2. h[i - 1] \in Seq(Contents) /\ s[i] \in EntryIds
      BY <2>1, <3>1
    <3>3. h[i] = Hash(Content(s[i]), h[i - 1])
      BY <2>2, <2>4 DEF NewHashAt
    <3>4. Content(s[i]) \in Contents
      BY <3>2, ContentType
    <3>5. h[i] \in Seq(Contents)
      BY <3>2, <3>3, <3>4, HashEndsWith
    <3> QED
      BY <2>1, <3>5
  <2> QED
    BY <2>3, <2>4
<1> QED
  BY <1>1

LEMMA ResealedEntry ==
  ASSUME ChainTypes
  PROVE  /\ DOMAIN Resealed = EntryIds
         /\ \A e \in EntryIds \ Live : Resealed[e] = seal[e]
         /\ \A e \in Live : /\ Resealed[e].prev \in Seq(Contents)
                           /\ Resealed[e].cur = Hash(Content(e), Resealed[e].prev)
<1> DEFINE n == Cardinality(Live)
           s == Sorted(Live)
           cur == CHOOSE f : f = [i \in 0..Len(s) |->
                    IF i = 0 THEN Genesis ELSE Hash(Content(s[i]), f[i - 1])]
           position(e) == CHOOSE i \in DOMAIN s : s[i] = e
<1>1. /\ n \in Nat /\ s \in [1..n -> Live] /\ Len(s) = n /\ Live \subseteq EntryIds
      /\ \A x \in Live : \E i \in 1..n : s[i] = x
  BY SortedFacts DEF ChainTypes, Live
<1>2. Resealed = [e \in EntryIds |->
                   IF e \in Live
                   THEN [prev |-> cur[position(e) - 1], cur |-> cur[position(e)],
                         index |-> position(e) - 1]
                   ELSE seal[e]]
  BY DEF Resealed
<1>3. NewHashes(cur, s, n)
  <2>1. cur = CHOOSE f : NewHashes(f, s, n)
    BY <1>1 DEF NewHashes, NewHashAt
  <2> HIDE DEF cur, s, n
  <2> QED
    BY <1>1, <2>1, NewHashesExist
<1> HIDE DEF cur
<1>4. \A i \in 0..n : cur[i] \in Seq(Contents)
  <2>1. s \in [1..n -> EntryIds]
    BY <1>1
  <2> HIDE DEF s, n
  <2> QED
    BY <1>1, <1>3, <2>1, NewHashesType
<1>5. ASSUME NEW e \in Live
      PROVE  /\ Resealed[e].prev \in Seq(Contents)
             /\ Resealed[e].cur = Hash(Content(e), Resealed[e].prev)
  <2> DEFINE i == position(e)
  <2>1. i \in 1..n /\ s[i] = e
    BY <1>1
  <2> HIDE DEF i, s, n
  <2>2. i \in 0..n /\ i # 0 /\ i - 1 \in 0..n
    BY <1>1, <2>1
  <2>3. cur[i] = NewHashAt(cur, s, i)
    BY <1>3, <2>2 DEF NewHashes
  <2>4. cur[i] = Hash(Content(e), cur[i - 1]) /\ cur[i - 1] \in Seq(Contents)
    BY <1>4, <2>1, <2>2, <2>3 DEF NewHashAt
  <2>5. Resealed[e] = [prev |-> cur[i - 1], cur |-> cur[i], index |-> i - 1]
    BY <1>1, <1>2 DEF i
  <2> QED
    BY <2>4, <2>5
<1> QED
  BY <1>2, <1>5

-----------------------------------------------------------------------------
(* What a step leaves alone, and what a request does to one entry.           *)
Frame(e) ==
    /\ journal'[e] = journal[e] /\ seal'[e] = seal[e] /\ edits'[e] = edits[e]
    /\ history'[e] = history[e] /\ DOMAIN lines'[e] = DOMAIN lines[e]
    /\ writes'[e] = writes[e] /\ lineRows'[e] = lineRows[e]
    /\ e \in Stored => rows'[e] = rows[e]
    /\ e \in Stored' <=> e \in Stored
    /\ e \in toSeal' <=> e \in toSeal
    /\ e \in disturbed => e \in disturbed'

LEMMA FrameKeeps ==
  ASSUME NEW e \in EntryIds, StoredInv(e), Frame(e)
  PROVE  StoredInv(e)'
<1>1. e \in Live' <=> e \in Live
  BY DEF Live, Frame
<1>2. MemoryInv(e)'
  BY <1>1 DEF StoredInv, MemoryInv, Frame
<1>3. QueueInv(e)'
  BY DEF StoredInv, QueueInv, Frame
<1>4. e \in Stored' => RowInv(e)'
  BY DEF StoredInv, RowInv, Frame
<1>5. ASSUME Bound(e)'
      PROVE  Tied(e)'
  <2>1. Tied(e)
    BY <1>1, <1>5 DEF StoredInv, Frame, Bound
  <2>0. Len(writes[e]) \in Nat
    BY QueueFacts DEF StoredInv, QueueInv
  <2>2. UpdatesFollow(e)'
    BY <2>1 DEF Tied, UpdatesFollow, Frame
  <2>3. ASSUME e \in Live' PROVE Latest(e)'
    <3> DEFINE w == writes[e]
    <3>1. Len(w) = 0 \/ w[Len(w)].kind = "lines" => e \in Stored
      BY <2>1, <2>0 DEF Tied, UpdatesFollow, LinesTied
    <3> QED
      BY <1>1, <2>1, <2>3, <3>1 DEF Tied, Latest, Fits, SameSeal, Frame
  <2>4. LinesTied(e)'
    BY <2>1 DEF Tied, LinesTied, Frame
  <2>5. HashesKept(e)'
    <3> SUFFICES ASSUME NEW i \in 1..Len(writes[e]), writes[e][i].kind = "update",
                        writes[e][i].entry.status # "POSTED"
                 PROVE  writes[e][i].seal.cur = Earlier(e, i)'
      BY DEF HashesKept, Frame
    <3>1. i = 1 \/ writes[e][i - 1].kind = "lines" => e \in Stored
      BY <2>1, <2>0 DEF Tied, UpdatesFollow, LinesTied
    <3>2. writes[e][i].seal.cur = Earlier(e, i)
      BY <2>1 DEF Tied, HashesKept
    <3> QED
      BY <3>1, <3>2 DEF Earlier, Frame
  <2> QED
    BY <2>2, <2>3, <2>4, <2>5 DEF Tied
<1> QED
  BY <1>2, <1>3, <1>4, <1>5 DEF StoredInv

(* A request leaves the tables alone.                                        *)
InRequest ==
    /\ phase = "up" /\ phase' = "up" /\ rows' = rows /\ lineRows' = lineRows
    /\ toSeal = {} /\ toSeal' = {} /\ edits' = edits
    /\ disturbed \subseteq disturbed'

SameMemory(e) ==
    journal'[e] = journal[e] /\ seal'[e] = seal[e] /\ history'[e] = history[e]

SameQueue(e) == DOMAIN lines'[e] = DOMAIN lines[e] /\ writes'[e] = writes[e]

HistoryKept(e) == history'[e] = 0 <=> journal'[e].postedBy = Nobody

SealedAs(e) ==
    /\ Writable(journal'[e]) /\ SealOf(journal'[e], seal'[e])
    /\ Last(seal'[e].cur).edits <= edits[e]
    /\ HistoryKept(e)

Begun(e) ==
    /\ journal[e].status = "ABSENT" /\ SealedAs(e) /\ DOMAIN lines'[e] # {}
    /\ \/ writes'[e] = Append(writes[e], Call("insert", e))
       \/ writes'[e] = writes[e] /\ e \in disturbed'

Changed(e) ==
    /\ e \in Live /\ SealedAs(e) /\ DOMAIN lines'[e] = DOMAIN lines[e]
    /\ writes'[e] = Append(writes[e], Call("update", e))
    /\ journal'[e].status # "POSTED" => seal'[e].cur = seal[e].cur

Dropped(e) ==
    /\ journal'[e].status = "DELETED" /\ seal'[e] = Unsealed /\ SameQueue(e)
    /\ HistoryKept(e)

Relinks(e) ==
    /\ e \in Live /\ e \in disturbed' /\ journal'[e] = journal[e] /\ history'[e] = history[e]
    /\ SameQueue(e)
    /\ seal'[e].cur \in Seq(Contents) /\ seal'[e].cur # << >>
    /\ Level(Last(seal'[e].cur).status) <= Level(journal[e].status)
    /\ Last(seal'[e].cur).edits <= edits[e]

Request(e) ==
    \/ SameMemory(e) /\ SameQueue(e)
    \/ Begun(e) \/ Changed(e) \/ Dropped(e) \/ Relinks(e)

LEMMA SealOfFacts ==
  ASSUME NEW entry, NEW s, SealOf(entry, s)
  PROVE  /\ s.cur \in Seq(Contents) /\ s.cur # << >>
         /\ Level(Last(s.cur).status) <= Level(entry.status)
BY LevelType DEF SealOf

LEMMA CallsGrow ==
  ASSUME NEW e \in EntryIds, QueueInv(e), InRequest, SealedAs(e),
         NEW kind \in {"insert", "update"}, writes'[e] = Append(writes[e], Call(kind, e)),
         \/ DOMAIN lines'[e] = DOMAIN lines[e]
         \/ writes[e] = << >> /\ lineRows[e] = {},
         kind = "insert" => DOMAIN lines'[e] # {}
  PROVE  /\ QueueInv(e)' /\ Len(writes'[e]) = Len(writes[e]) + 1 /\ Len(writes[e]) \in Nat
         /\ \A i \in 1..Len(writes[e]) : writes'[e][i] = writes[e][i]
         /\ writes'[e][Len(writes[e]) + 1] = Call(kind, e)
<1> DEFINE q == writes[e]
           c == Call(kind, e)
           n == Len(q)
<1>1. /\ IsQueue(Append(q, c)) /\ Len(Append(q, c)) = n + 1
      /\ \A i \in 1..n : Append(q, c)[i] = q[i]
      /\ Append(q, c)[n + 1] = c
  BY QueueGrows DEF QueueInv
<1>2. n \in Nat
  BY QueueFacts DEF QueueInv
<1>3. CallOk(c, DOMAIN lines'[e], edits'[e])
  BY DEF CallOk, Call, SealedAs, InRequest
<1>4. ASSUME NEW i \in 1..n
      PROVE  CallOk(q[i], DOMAIN lines'[e], edits'[e])
  <2>1. CallOk(q[i], DOMAIN lines[e], edits[e])
    BY DEF QueueInv
  <2>2. DOMAIN lines'[e] = DOMAIN lines[e]
    <3>1. q # << >>
      BY <1>2, NoCalls
    <3> QED
      BY <3>1
  <2> HIDE DEF q
  <2> QED
    BY <2>1, <2>2 DEF InRequest
<1>5. lineRows'[e] \subseteq DOMAIN lines'[e]
  BY DEF QueueInv, InRequest
<1> HIDE DEF q, c, n
<1>6. \A i \in 1..(n + 1) : i \in 1..n \/ i = n + 1
  BY <1>2
<1>7. writes'[e] = Append(q, c)
  BY DEF q, c
<1>8. QueueInv(e)'
  <2>1. ASSUME NEW i \in 1..(n + 1)
        PROVE  CallOk(writes'[e][i], DOMAIN lines'[e], edits'[e])
    <3>1. CASE i \in 1..n
      BY <1>1, <1>4, <1>7, <3>1
    <3>2. CASE i = n + 1
      BY <1>1, <1>3, <1>7, <3>2
    <3> QED
      BY <1>6, <3>1, <3>2
  <2> QED
    BY <1>1, <1>5, <1>7, <2>1 DEF QueueInv
<1> QED
  BY <1>1, <1>2, <1>7, <1>8 DEF q, c, n

LEMMA BegunKeeps ==
  ASSUME NEW e \in EntryIds, StoredInv(e), InRequest, Begun(e)
  PROVE  StoredInv(e)'
<1>1. /\ journal[e].status = "ABSENT" /\ SealedAs(e) /\ DOMAIN lines'[e] # {}
      /\ writes[e] = << >> /\ lineRows[e] = {} /\ e \notin Stored /\ edits[e] = 0
  BY DEF Begun, StoredInv, MemoryInv
<1>2. /\ rows' = rows /\ lineRows' = lineRows /\ edits' = edits /\ Stored' = Stored
  BY DEF InRequest, Stored
<1>3. e \in Live' /\ journal'[e].status # "ABSENT"
  BY <1>1 DEF Live, SealedAs, Writable
<1>4. MemoryInv(e)'
  <2>1. /\ seal'[e].cur \in Seq(Contents) /\ seal'[e].cur # << >>
        /\ Level(Last(seal'[e].cur).status) <= Level(journal'[e].status)
        /\ Last(seal'[e].cur).edits <= edits[e]
    BY <1>1, SealOfFacts DEF SealedAs
  <2> QED
    BY <1>1, <1>2, <1>3, <2>1 DEF MemoryInv, SealedAs, HistoryKept
<1>5. e \notin Stored'
  BY <1>1, <1>2
<1>6. CASE writes'[e] = Append(writes[e], Call("insert", e))
  <2>1. /\ QueueInv(e)' /\ Len(writes'[e]) = 1
        /\ writes'[e][1] = Call("insert", e)
    <3>1. QueueInv(e)
      BY DEF StoredInv
    <3>2. /\ QueueInv(e)' /\ Len(writes'[e]) = Len(writes[e]) + 1
          /\ writes'[e][Len(writes[e]) + 1] = Call("insert", e)
      BY <1>1, <1>6, <3>1, CallsGrow
    <3> QED
      BY <1>1, <3>2, NoCalls
  <2> DEFINE c == Call("insert", e)
  <2>2. /\ c.kind = "insert" /\ c.entry = journal'[e] /\ c.seal = seal'[e]
        /\ c.left = DOMAIN lines'[e]
    BY DEF Call
  <2>3. writes'[e][1] = c
    BY <2>1
  <2> HIDE DEF c
  <2>4. UpdatesFollow(e)'
    BY <2>1 DEF UpdatesFollow
  <2>5. Latest(e)'
    BY <2>1, <2>2, <2>3 DEF Latest, Fits, SameSeal
  <2>6. LinesTied(e)'
    BY <1>1, <1>2, <1>5, <2>1, <2>2, <2>3 DEF LinesTied
  <2>7. HashesKept(e)'
    BY <2>1, <2>2, <2>3 DEF HashesKept
  <2> QED
    BY <1>4, <1>5, <2>1, <2>4, <2>5, <2>6, <2>7 DEF StoredInv, Bound, Tied
<1>7. CASE writes'[e] = writes[e] /\ e \in disturbed'
  <2>1. QueueInv(e)'
    BY <1>1, <1>2, <1>7, NoCalls DEF QueueInv
  <2> QED
    BY <1>4, <1>5, <1>7, <2>1 DEF StoredInv, Bound
<1> QED
  BY <1>6, <1>7 DEF Begun

LEMMA ChangedKeeps ==
  ASSUME NEW e \in EntryIds, StoredInv(e), InRequest, Changed(e)
  PROVE  StoredInv(e)'
<1> DEFINE n == Len(writes[e])
           c == Call("update", e)
<1>1. /\ e \in Live /\ SealedAs(e) /\ DOMAIN lines'[e] = DOMAIN lines[e]
      /\ writes'[e] = Append(writes[e], c)
      /\ journal'[e].status # "POSTED" => seal'[e].cur = seal[e].cur
      /\ MemoryInv(e) /\ QueueInv(e)
  BY DEF Changed, StoredInv
<1>2. /\ rows' = rows /\ lineRows' = lineRows /\ edits' = edits /\ Stored' = Stored
      /\ toSeal = {} /\ toSeal' = {}
  BY DEF InRequest, Stored
<1>3. e \in Live' /\ journal'[e].status # "ABSENT"
  BY <1>1 DEF Live, SealedAs, Writable
<1>4. MemoryInv(e)'
  <2>1. /\ seal'[e].cur \in Seq(Contents) /\ seal'[e].cur # << >>
        /\ Level(Last(seal'[e].cur).status) <= Level(journal'[e].status)
        /\ Last(seal'[e].cur).edits <= edits[e]
    BY <1>1, SealOfFacts DEF SealedAs
  <2> QED
    BY <1>1, <1>2, <1>3, <2>1 DEF MemoryInv, SealedAs, HistoryKept
<1>5. e \in Stored' => RowInv(e)'
  BY <1>2 DEF StoredInv, RowInv
<1>6. /\ QueueInv(e)' /\ Len(writes'[e]) = n + 1 /\ n \in Nat
      /\ \A i \in 1..n : writes'[e][i] = writes[e][i]
      /\ writes'[e][n + 1] = c
  BY <1>1, CallsGrow
<1>7. /\ c.kind = "update" /\ c.entry = journal'[e] /\ c.seal = seal'[e]
  BY DEF Call
<1> HIDE DEF c, n
<1>8. ASSUME e \notin disturbed'
      PROVE  Tied(e)'
  <2>1. Tied(e)
    BY <1>1, <1>8 DEF StoredInv, InRequest, Bound
  <2>2. \A i \in 1..(n + 1) : i \in 1..n \/ i = n + 1
    BY <1>6
  <2>3. UpdatesFollow(e)'
    BY <1>6, <1>7, <2>1, <2>2 DEF Tied, UpdatesFollow, n
  <2>4. Latest(e)'
    BY <1>6, <1>7 DEF Latest, Fits, SameSeal
  <2>5. LinesTied(e)'
    <3>1. CASE n = 0
      BY <1>1, <1>2, <1>6, <1>7, <2>1, <3>1 DEF Tied, LinesTied, n
    <3>2. CASE n # 0
      <4>1. 1 \in 1..n /\ n > 0 /\ n + 1 > 0
        BY <1>6, <3>2
      <4>2. writes'[e][1] = writes[e][1]
        BY <1>6, <4>1
      <4> QED
        BY <1>1, <1>2, <1>6, <2>1, <4>1, <4>2 DEF Tied, LinesTied, n
    <3> QED
      BY <3>1, <3>2
  <2>6. HashesKept(e)'
    <3> SUFFICES ASSUME NEW i \in 1..(n + 1), writes'[e][i].kind = "update",
                        writes'[e][i].entry.status # "POSTED"
                 PROVE  writes'[e][i].seal.cur =
                          IF i = 1 \/ writes'[e][i - 1].kind = "lines" THEN rows'[e].seal.cur
                          ELSE writes'[e][i - 1].seal.cur
      BY <1>6 DEF HashesKept, Earlier
    <3>1. i # 1 => i - 1 \in 1..n /\ writes'[e][i - 1] = writes[e][i - 1]
      <4>1. i # 1 => i - 1 \in 1..n
        BY <1>6
      <4> QED
        BY <1>6, <4>1
    <3>2. CASE i \in 1..n
      <4>1. writes'[e][i] = writes[e][i]
        BY <1>6, <3>2
      <4>2. writes[e][i].seal.cur = Earlier(e, i)
        BY <2>1, <3>2, <4>1 DEF Tied, HashesKept, n
      <4> QED
        BY <1>2, <3>1, <4>1, <4>2 DEF Earlier
    <3>3. CASE i = n + 1
      <4>1. writes'[e][i].seal.cur = seal[e].cur
        BY <1>1, <1>6, <1>7, <3>3
      <4>2. /\ n > 0 /\ writes[e][n].kind # "lines" => writes[e][n].seal.cur = seal[e].cur
            /\ n = 0 \/ writes[e][n].kind = "lines" => rows[e].seal.cur = seal[e].cur
        BY <1>1, <1>2, <2>1 DEF Tied, Latest, SameSeal, n
      <4>3. (i = 1 <=> n = 0) /\ (i # 1 <=> n > 0) /\ i - 1 = n
        BY <1>6, <3>3
      <4>4. CASE i = 1
        BY <1>2, <4>1, <4>2, <4>3, <4>4
      <4>5. CASE i # 1
        BY <1>2, <3>1, <4>1, <4>2, <4>3, <4>5
      <4> QED
        BY <4>4, <4>5
    <3> QED
      BY <2>2, <3>2, <3>3
  <2> QED
    BY <2>3, <2>4, <2>5, <2>6 DEF Tied
<1> QED
  BY <1>4, <1>5, <1>6, <1>8 DEF StoredInv, Bound

LEMMA RequestKeeps ==
  ASSUME NEW e \in EntryIds, StoredInv(e), edits[e] \in Nat, InRequest, Request(e)
  PROVE  StoredInv(e)'
<1>1. /\ MemoryInv(e) /\ QueueInv(e)
      /\ rows' = rows /\ lineRows' = lineRows /\ edits' = edits /\ Stored' = Stored
  BY DEF StoredInv, InRequest, Stored
<1>2. e \in Stored' => RowInv(e)'
  BY <1>1 DEF StoredInv, RowInv
<1>3. CASE SameMemory(e) /\ SameQueue(e)
  <2>1. Frame(e)
    BY <1>1, <1>3 DEF Frame, SameMemory, SameQueue, InRequest
  <2> QED
    BY <2>1, FrameKeeps
<1>4. ASSUME SameQueue(e)
      PROVE  QueueInv(e)'
  BY <1>1, <1>4 DEF QueueInv, SameQueue
<1>5. CASE Dropped(e)
  <2>1. e \notin Live'
    BY <1>5 DEF Dropped, Live
  <2>2. seal'[e].cur = NoHash /\ 0 <= Level(journal'[e].status) /\ 0 <= edits[e]
    BY <1>5, NoSeal, LevelType DEF Dropped
  <2>3. MemoryInv(e)'
    BY <1>1, <1>5, <2>1, <2>2, NoSeal DEF Dropped, MemoryInv, HistoryKept
  <2>4. ASSUME Bound(e)'
        PROVE  Tied(e)'
    <3>1. writes'[e] = writes[e] /\ DOMAIN lines'[e] = DOMAIN lines[e] /\ Bound(e)
      BY <1>5, <2>1, <2>4 DEF Bound, Dropped, SameQueue, InRequest
    <3>2. Tied(e)
      BY <3>1 DEF StoredInv
    <3> QED
      BY <1>1, <2>1, <3>1, <3>2 DEF Tied, UpdatesFollow, LinesTied, HashesKept, Earlier
  <2> QED
    BY <1>2, <1>4, <1>5, <2>3, <2>4 DEF StoredInv, Dropped
<1>6. CASE Relinks(e)
  <2>1. e \in Live'
    BY <1>6 DEF Relinks, Live
  <2>2. MemoryInv(e)'
    BY <1>1, <1>6, <2>1 DEF Relinks, MemoryInv, SameQueue
  <2> QED
    BY <1>2, <1>4, <1>6, <2>2 DEF StoredInv, Relinks, Bound
<1> QED
  BY <1>3, <1>5, <1>6, BegunKeeps, ChangedKeeps DEF Request

(* The requests are steps of the journal, or leave it alone.                 *)
RequestStep ==
    /\ InRequest /\ StoreTypes'
    /\ Next \/ UNCHANGED vars
    /\ \A d \in EntryIds : Request(d)

LEMMA StoreHashes == StoreInv => HashTypes /\ TypeOK
BY DEF StoreInv, StoreTypes, StoredInv, MemoryInv, HashTypes, ChainTypes

LEMMA Unasked ==
  ASSUME NEW d, journal'[d] = journal[d], seal'[d] = seal[d], history'[d] = history[d],
         DOMAIN lines'[d] = DOMAIN lines[d], writes'[d] = writes[d]
  PROVE  Request(d)
BY DEF Request, SameMemory, SameQueue

LEMMA CreateRequests ==
  ASSUME StoreInv, NEW u \in Users, NEW r \in Requests,
         CreateEntry(u, r) \/ CreateUnwritten(u, r)
  PROVE  RequestStep
<1>1. /\ CreateJournalEntry(u, r) /\ seal' = seal /\ edits' = edits
      /\ phase = "up" /\ phase' = "up" /\ rows' = rows /\ lineRows' = lineRows
      /\ toSeal' = toSeal
  BY DEF CreateEntry, CreateUnwritten, Serving, Quiet, chainVars
<1>2. /\ StoreTypes /\ ChainTypes /\ TypeOK /\ PhaseInv /\ toSeal = {}
      /\ journal \in [EntryIds -> Entry] /\ DOMAIN lines = EntryIds /\ DOMAIN writes = EntryIds
  BY <1>1 DEF StoreInv, StoreTypes, PhaseInv, ChainTypes, TypeOK
<1>3. PICK f \in Fresh : /\ journal' = [journal EXCEPT ![f] = NewEntry(u, r.month, "MANUAL")]
                         /\ lines' = [lines EXCEPT ![f] = Recorded(r)]
  BY <1>1 DEF CreateJournalEntry
<1>4. /\ f \in EntryIds /\ journal[f].status = "ABSENT"
  BY <1>3, FreshAreAbsent
<1>5. /\ \/ /\ writes' = [writes EXCEPT ![f] = Append(@, Call("insert", f))]
            /\ disturbed' = disturbed
         \/ /\ writes' = writes /\ disturbed' = disturbed \union {f}
  <2>1. CASE CreateEntry(u, r)
    <3>1. \E e \in Fresh : writes' = PersistJournalEntry(e)
      BY <2>1 DEF CreateEntry
    <3>2. writes' = PersistJournalEntry(f)
      BY <1>3, <3>1, OneFresh
    <3> QED
      BY <2>1, <3>2 DEF PersistJournalEntry, CreateEntry, Quiet
  <2>2. CASE CreateUnwritten(u, r)
    <3>1. \E e \in Fresh : disturbed' = disturbed \union {e}
      BY <2>2 DEF CreateUnwritten
    <3>2. disturbed' = disturbed \union {f}
      BY <1>3, <3>1, OneFresh
    <3> QED
      BY <2>2, <3>2 DEF CreateUnwritten
  <2> QED
    BY <2>1, <2>2
<1>6. InRequest
  BY <1>1, <1>2, <1>5 DEF InRequest
<1>7. Next /\ history' = history
  BY <1>1 DEF Next, Create, CreateJournalEntry
<1>8. StoreTypes'
  <2>1. TypeOK'
    BY <1>2, <1>7, TypeStep
  <2>2. DOMAIN writes' = EntryIds
    BY <1>2, <1>5
  <2> QED
    BY <1>1, <1>2, <2>1, <2>2 DEF StoreTypes, ChainTypes, Stored
<1>9. ASSUME NEW d \in EntryIds, d # f
      PROVE  Request(d)
  <2>1. journal'[d] = journal[d] /\ lines'[d] = lines[d] /\ writes'[d] = writes[d]
    BY <1>2, <1>3, <1>4, <1>5, <1>9
  <2> QED
    BY <1>1, <1>7, <2>1, Unasked
<1>10. Request(f)
  <2> DEFINE new == NewEntry(u, r.month, "MANUAL")
  <2>1. new \in Entry /\ new.status = "DRAFT" /\ new.postedBy = Nobody
    <3>1. new \in Entry /\ new.status = "DRAFT"
      BY NewEntryFields, RequestsAssumption
    <3>2. new.postedBy = Nobody
      BY DEF NewEntry, Blank
    <3> QED
      BY <3>1, <3>2
  <2>2. journal'[f] = new /\ lines'[f] = Recorded(r)
    BY <1>2, <1>3, <1>4
  <2> HIDE DEF new
  <2>3. /\ seal[f].cur = NoHash /\ history[f] = 0 /\ edits[f] \in Nat /\ f \notin Live
    BY <1>2, <1>4 DEF StoreInv, StoredInv, MemoryInv, ChainTypes, Live
  <2>4. SealOf(new, seal[f])
    <3>1. Level(Last(NoHash).status) < Level(new.status)
      BY <2>1, NoSeal DEF Level
    <3> QED
      BY <2>3, <3>1, NoSeal DEF SealOf
  <2>5. SealedAs(f)
    BY <1>1, <1>7, <2>1, <2>2, <2>3, <2>4, NoSeal DEF SealedAs, Writable, HistoryKept
  <2>6. DOMAIN lines'[f] # {}
    <3>1. RequestOk(r) /\ DOMAIN Recorded(r) = DOMAIN r.lines
      BY <1>1 DEF CreateJournalEntry, Recorded
    <3>2. Cardinality(DOMAIN r.lines) >= 2
      BY <3>1 DEF RequestOk
    <3> QED
      BY <2>2, <3>1, <3>2, FS_EmptySet
  <2>7. \/ writes'[f] = Append(writes[f], Call("insert", f))
        \/ writes'[f] = writes[f] /\ f \in disturbed'
    BY <1>2, <1>4, <1>5
  <2> QED
    BY <1>4, <2>5, <2>6, <2>7 DEF Request, Begun
<1> QED
  BY <1>6, <1>7, <1>8, <1>9, <1>10 DEF RequestStep

LEMMA WorkflowRequests ==
  ASSUME StoreInv, NEW u \in Users, NEW e \in EntryIds, AdvanceEntry(u, e),
         SubmitJournalEntry(u, e) \/ ApproveJournalEntry(u, e), UNCHANGED chainVars
  PROVE  RequestStep
<1>1. /\ seal' = seal /\ edits' = edits /\ lines' = lines /\ history' = history
      /\ phase = "up" /\ phase' = "up" /\ rows' = rows /\ lineRows' = lineRows
      /\ toSeal' = toSeal /\ disturbed' = disturbed
      /\ writes' = [writes EXCEPT ![e] = Append(@, Call("update", e))]
  BY DEF AdvanceEntry, Serving, Quiet, chainVars, UpdateJournalEntryStatus,
         SubmitJournalEntry, ApproveJournalEntry
<1>2. /\ StoreTypes /\ ChainTypes /\ TypeOK /\ PhaseInv /\ toSeal = {}
      /\ journal \in [EntryIds -> Entry] /\ DOMAIN writes = EntryIds
  BY <1>1 DEF StoreInv, StoreTypes, PhaseInv, ChainTypes, TypeOK
<1>3. InRequest
  BY <1>1, <1>2 DEF InRequest
<1>4. Next
  BY DEF Next, Workflow
<1>5. StoreTypes'
  <2>1. TypeOK'
    BY <1>2, <1>4, TypeStep
  <2> QED
    BY <1>1, <1>2, <2>1 DEF StoreTypes, ChainTypes, Stored
<1>6. \A d \in EntryIds \ {e} : journal'[d] = journal[d]
  BY <1>2 DEF SubmitJournalEntry, ApproveJournalEntry
<1>7. ASSUME NEW d \in EntryIds, d # e
      PROVE  Request(d)
  <2>1. writes'[d] = writes[d]
    BY <1>1, <1>2, <1>7
  <2> QED
    BY <1>1, <1>6, <1>7, <2>1, Unasked
<1>8. /\ journal'[e] \in Entry /\ e \in Live /\ journal'[e].postedBy = journal[e].postedBy
      /\ \/ journal'[e].status = "APPROVED" /\ journal[e].status \in {"DRAFT", "SUBMITTED"}
         \/ journal'[e].status = "SUBMITTED" /\ journal[e].status = "DRAFT"
  <2>1. journal[e] \in Entry /\ e \in DOMAIN journal
    BY <1>2
  <2>2. journal'[e] \in Entry
    BY <1>5 DEF StoreTypes, ChainTypes, TypeOK
  <2>3. CASE SubmitJournalEntry(u, e)
    BY <2>1, <2>2, <2>3 DEF SubmitJournalEntry, Entry, Live
  <2>4. CASE ApproveJournalEntry(u, e)
    BY <2>1, <2>2, <2>4 DEF ApproveJournalEntry, MayApprove, Approved, Entry, Live
  <2> QED
    BY <2>3, <2>4
<1>9. Request(e)
  <2>1. MemoryInv(e)
    BY DEF StoreInv, StoredInv
  <2>2. Level(journal[e].status) < Level(journal'[e].status)
    BY <1>8 DEF Level
  <2>3. SealOf(journal'[e], seal[e])
    BY <2>1, <2>2, KeptSeal DEF MemoryInv
  <2>4. SealedAs(e)
    BY <1>1, <1>8, <2>1, <2>3 DEF SealedAs, Writable, HistoryKept, MemoryInv
  <2>5. writes'[e] = Append(writes[e], Call("update", e))
    BY <1>1, <1>2
  <2> QED
    BY <1>1, <1>8, <2>4, <2>5 DEF Request, Changed
<1> QED
  BY <1>3, <1>4, <1>5, <1>7, <1>9 DEF RequestStep

LEMMA PostRequest ==
  ASSUME StoreInv, NEW u \in Users, NEW e \in EntryIds, AdvanceEntry(u, e), PostAndSeal(u, e)
  PROVE  RequestStep
<1> DEFINE c == [Content(e) EXCEPT !.status = "POSTED"]
<1>1. /\ edits' = edits /\ lines' = lines
      /\ phase = "up" /\ phase' = "up" /\ rows' = rows /\ lineRows' = lineRows
      /\ toSeal' = toSeal /\ disturbed' = disturbed
      /\ writes' = [writes EXCEPT ![e] = Append(@, Call("update", e))]
      /\ PostJournalEntry(u, e) /\ e \in Live
  BY DEF AdvanceEntry, Serving, Quiet, UpdateJournalEntryStatus, PostAndSeal, PostJournalEntry
<1>2. /\ StoreTypes /\ ChainTypes /\ TypeOK /\ PhaseInv /\ toSeal = {} /\ HashTypes
      /\ journal \in [EntryIds -> Entry] /\ DOMAIN writes = EntryIds /\ DOMAIN seal = EntryIds
      /\ history \in [EntryIds -> Nat] /\ edits[e] \in Nat
  BY <1>1, StoreHashes DEF StoreInv, StoreTypes, PhaseInv, ChainTypes, TypeOK
<1>3. /\ journal' = [journal EXCEPT ![e] = Posted(@, u)]
      /\ history' = [history EXCEPT ![e] = @ + 1]
      /\ seal' = [seal EXCEPT ![e] = Appended(e, c)]
  BY <1>1 DEF PostAndSeal, PostJournalEntry, ApplyLines
<1>4. InRequest
  BY <1>1, <1>2 DEF InRequest
<1>5. Next
  BY <1>1 DEF Next, Workflow
<1>6. StoreTypes'
  <2>1. TypeOK'
    BY <1>2, <1>5, TypeStep
  <2>2. DOMAIN seal' = EntryIds
    BY <1>2, <1>3
  <2> QED
    BY <1>1, <1>2, <2>1, <2>2 DEF StoreTypes, ChainTypes, Stored
<1>7. ASSUME NEW d \in EntryIds, d # e
      PROVE  Request(d)
  <2>1. /\ writes'[d] = writes[d] /\ journal'[d] = journal[d] /\ seal'[d] = seal[d]
        /\ history'[d] = history[d]
    BY <1>1, <1>2, <1>3, <1>7
  <2> QED
    BY <1>1, <2>1, Unasked
<1>8. Request(e)
  <2>1. /\ journal'[e] \in Entry /\ journal'[e].status = "POSTED" /\ journal'[e].postedBy = u
    BY <1>2, <1>3, PostedFields
  <2>2. c \in Contents /\ c.status = "POSTED" /\ c.edits = edits[e]
    <3>1. Content(e) \in Contents /\ Content(e).edits = edits[e]
      BY <1>2, ContentType
    <3> QED
      BY <3>1 DEF Contents, Statuses
  <2>3. seal'[e] = Appended(e, c)
    BY <1>2, <1>3
  <2> HIDE DEF c
  <2>4. PICK h \in Seq(Contents) : seal'[e].cur = Hash(c, h) /\ seal'[e].prev = h
    BY <1>2, <2>3, AppendedFacts
  <2>5. SealOf(journal'[e], seal'[e]) /\ Last(seal'[e].cur) = c
    BY <2>1, <2>2, <2>4, NewSeal
  <2>6. history'[e] # 0 /\ journal'[e].postedBy # Nobody
    BY <1>2, <1>3, <2>1, UsersAssumption
  <2>7. SealedAs(e)
    BY <1>2, <2>1, <2>2, <2>5, <2>6 DEF SealedAs, Writable, HistoryKept
  <2>8. writes'[e] = Append(writes[e], Call("update", e))
    BY <1>1, <1>2
  <2> QED
    BY <1>1, <2>1, <2>7, <2>8 DEF Request, Changed
<1> QED
  BY <1>4, <1>5, <1>6, <1>7, <1>8 DEF RequestStep

LEMMA ReverseRequest ==
  ASSUME StoreInv, NEW u \in Users, NEW e \in EntryIds, ReverseEntry(u, e)
  PROVE  RequestStep
<1> DEFINE mirrored == Swap(lines[e])
           reversal == Posted(NewEntry(u, today, "REVERSAL"), u)
<1>1. /\ edits' = edits
      /\ phase = "up" /\ phase' = "up" /\ rows' = rows /\ lineRows' = lineRows
      /\ toSeal' = toSeal /\ disturbed' = disturbed
      /\ ReverseJournalEntry(u, e) /\ journal[e].status = "POSTED"
  BY DEF ReverseEntry, Serving, Quiet, ReverseAndSeal, ReverseJournalEntry, MayReverse
<1>2. /\ StoreTypes /\ ChainTypes /\ TypeOK /\ PhaseInv /\ toSeal = {} /\ HashTypes
      /\ journal \in [EntryIds -> Entry] /\ DOMAIN writes = EntryIds /\ DOMAIN seal = EntryIds
      /\ DOMAIN lines = EntryIds /\ history \in [EntryIds -> Nat] /\ edits \in [EntryIds -> Nat]
      /\ today \in Months
  BY <1>1, StoreHashes DEF StoreInv, StoreTypes, PhaseInv, ChainTypes, TypeOK
<1>3. PICK f \in Fresh :
        /\ journal' = [journal EXCEPT ![e] = ReversedBy(@, f), ![f] = reversal]
        /\ lines' = [lines EXCEPT ![f] = mirrored] /\ ApplyLines(f, mirrored)
  BY <1>1 DEF ReverseJournalEntry
<1> DEFINE c == [Content(f) EXCEPT !.status = "POSTED", !.lines = DOMAIN lines[e]]
<1>4. seal' = [seal EXCEPT ![f] = Appended(f, c)]
  BY <1>3, OneFresh DEF ReverseEntry, ReverseAndSeal
<1>5. writes' = [writes EXCEPT ![e] = Append(@, Call("update", e)),
                               ![f] = Append(@, Call("insert", f))]
  BY <1>3, OneFresh DEF ReverseEntry
<1>6. f \in EntryIds /\ f # e /\ journal[f].status = "ABSENT"
  BY <1>1, <1>3, FreshAreAbsent
<1>7. history' = [history EXCEPT ![f] = @ + 1]
  BY <1>3 DEF ApplyLines
<1>8. InRequest
  BY <1>1, <1>2 DEF InRequest
<1>9. Next
  BY <1>1 DEF Next, Workflow
<1> HIDE DEF c, reversal
<1>10. StoreTypes'
  <2>1. TypeOK'
    BY <1>2, <1>9, TypeStep
  <2>2. DOMAIN seal' = EntryIds /\ DOMAIN writes' = EntryIds
    BY <1>2, <1>4, <1>5
  <2> QED
    BY <1>1, <1>2, <2>1, <2>2 DEF StoreTypes, ChainTypes, Stored
<1>11. ASSUME NEW d \in EntryIds, d # e, d # f
       PROVE  Request(d)
  <2>1. /\ writes'[d] = writes[d] /\ journal'[d] = journal[d] /\ seal'[d] = seal[d]
        /\ history'[d] = history[d] /\ lines'[d] = lines[d]
    BY <1>2, <1>3, <1>4, <1>5, <1>7, <1>11
  <2> QED
    BY <2>1, Unasked
<1>12. Request(e)
  <2>1. /\ journal'[e] = ReversedBy(journal[e], f) /\ seal'[e] = seal[e]
        /\ history'[e] = history[e] /\ lines'[e] = lines[e]
        /\ writes'[e] = Append(writes[e], Call("update", e))
    BY <1>2, <1>3, <1>4, <1>5, <1>6, <1>7
  <2>2. /\ journal'[e] \in Entry /\ journal'[e].status = "REVERSED"
        /\ journal'[e].postedBy = journal[e].postedBy
    <3>1. journal'[e] \in Entry
      BY <1>10 DEF StoreTypes, ChainTypes, TypeOK
    <3>2. journal[e] \in Entry
      BY <1>2
    <3> QED
      BY <2>1, <3>1, <3>2 DEF ReversedBy, Entry
  <2>3. MemoryInv(e)
    BY DEF StoreInv, StoredInv
  <2>4. Level(journal[e].status) < Level(journal'[e].status)
    BY <1>1, <2>2 DEF Level
  <2>5. SealOf(journal'[e], seal[e])
    BY <2>3, <2>4, KeptSeal DEF MemoryInv
  <2>6. SealedAs(e)
    BY <2>1, <2>2, <2>3, <2>5 DEF SealedAs, Writable, HistoryKept, MemoryInv
  <2>7. e \in Live
    BY <1>1 DEF Live
  <2> QED
    BY <2>1, <2>6, <2>7 DEF Request, Changed
<1>13. Request(f)
  <2>1. /\ journal'[f] = reversal /\ seal'[f] = Appended(f, c)
        /\ history'[f] # 0 /\ lines'[f] = mirrored
        /\ writes'[f] = Append(writes[f], Call("insert", f))
    BY <1>2, <1>3, <1>4, <1>5, <1>6, <1>7
  <2>2. /\ journal'[f] \in Entry /\ journal'[f].status = "POSTED" /\ journal'[f].postedBy = u
    <3>1. NewEntry(u, today, "REVERSAL") \in Entry
      BY <1>2, NewEntryFields
    <3> QED
      BY <2>1, <3>1, PostedFields DEF reversal
  <2>3. c \in Contents /\ c.status = "POSTED" /\ c.edits = edits[f]
    <3> DEFINE q == Content(f)
    <3>1. q = [id |-> f, status |-> journal[f].status, lines |-> DOMAIN lines[f],
               edits |-> edits[f]]
      BY DEF Content
    <3>2. c = [q EXCEPT !.status = "POSTED", !.lines = DOMAIN lines[e]]
      BY DEF c
    <3> HIDE DEF q
    <3>3. DOMAIN lines[e] \subseteq Accounts
      BY <1>2 DEF TypeOK
    <3> QED
      BY <1>2, <1>6, <3>1, <3>2, <3>3 DEF Contents, Statuses
  <2>4. PICK h \in Seq(Contents) : seal'[f].cur = Hash(c, h) /\ seal'[f].prev = h
    BY <1>2, <1>6, <2>1, AppendedFacts
  <2>5. SealOf(journal'[f], seal'[f]) /\ Last(seal'[f].cur) = c
    BY <2>2, <2>3, <2>4, NewSeal
  <2>6. SealedAs(f)
    <3>1. u # Nobody /\ edits[f] \in Nat
      BY <1>2, <1>6, UsersAssumption
    <3> QED
      BY <2>1, <2>2, <2>3, <2>5, <3>1 DEF SealedAs, Writable, HistoryKept
  <2>7. DOMAIN lines'[f] # {}
    <3>1. Cardinality(DOMAIN mirrored) >= 2
      BY <1>1 DEF ReverseJournalEntry, ReversalOk
    <3> DEFINE D == DOMAIN mirrored
    <3>2. Cardinality(D) >= 2 /\ Cardinality({}) = 0
      BY <3>1, FS_EmptySet
    <3> HIDE DEF D
    <3>3. D # {}
      <4>1. ASSUME D = {} PROVE Cardinality(D) = 0
        BY <3>2, <4>1, Zenon
      <4>2. Cardinality(D) # 0
        BY <3>2
      <4> QED
        BY <4>1, <4>2
    <3>4. lines'[f] = mirrored
      BY <2>1
    <3> QED
      BY <3>3, <3>4 DEF D
  <2> QED
    BY <1>6, <2>1, <2>6, <2>7 DEF Request, Begun
<1> QED
  BY <1>8, <1>9, <1>10, <1>11, <1>12, <1>13 DEF RequestStep

LEMMA DeleteRequest ==
  ASSUME StoreInv, NEW u \in Users, NEW e \in EntryIds, DeleteEntry(u, e)
  PROVE  RequestStep
<1>1. /\ edits' = edits /\ lines' = lines /\ history' = history /\ writes' = writes
      /\ phase = "up" /\ phase' = "up" /\ rows' = rows /\ lineRows' = lineRows
      /\ toSeal' = toSeal /\ disturbed' = disturbed
      /\ DeleteJournalEntry(u, e)
      /\ journal' = [journal EXCEPT ![e].status = "DELETED"]
      /\ seal' = [seal EXCEPT ![e] = Unsealed]
  BY DEF DeleteEntry, Quiet, DeleteSealed, DeleteJournalEntry
<1>2. /\ StoreTypes /\ ChainTypes /\ TypeOK /\ PhaseInv /\ toSeal = {}
      /\ journal \in [EntryIds -> Entry] /\ DOMAIN seal = EntryIds
  BY <1>1 DEF StoreInv, StoreTypes, PhaseInv, ChainTypes, TypeOK
<1>3. InRequest
  BY <1>1, <1>2 DEF InRequest
<1>4. Next
  BY <1>1 DEF Next, Workflow
<1>5. StoreTypes'
  <2>1. TypeOK'
    BY <1>2, <1>4, TypeStep
  <2>2. DOMAIN seal' = EntryIds
    BY <1>1, <1>2
  <2> QED
    BY <1>1, <1>2, <2>1, <2>2 DEF StoreTypes, ChainTypes, Stored
<1>6. ASSUME NEW d \in EntryIds, d # e
      PROVE  Request(d)
  <2>1. journal'[d] = journal[d] /\ seal'[d] = seal[d]
    BY <1>1, <1>2, <1>6
  <2> QED
    BY <1>1, <2>1, Unasked
<1>7. Request(e)
  <2>1. /\ journal'[e].status = "DELETED" /\ journal'[e].postedBy = journal[e].postedBy
        /\ seal'[e] = Unsealed
    BY <1>1, <1>2 DEF Entry
  <2>2. MemoryInv(e)
    BY DEF StoreInv, StoredInv
  <2> QED
    BY <1>1, <2>1, <2>2 DEF Request, Dropped, SameQueue, HistoryKept, MemoryInv
<1> QED
  BY <1>3, <1>4, <1>5, <1>6, <1>7 DEF RequestStep

LEMMA RebuildRequest ==
  ASSUME StoreInv, NEW u \in Users, RebuildChain(u)
  PROVE  RequestStep
<1>1. /\ edits' = edits /\ lines' = lines /\ history' = history /\ writes' = writes
      /\ phase = "up" /\ phase' = "up" /\ rows' = rows /\ lineRows' = lineRows
      /\ toSeal' = toSeal /\ disturbed' = disturbed \union Live
      /\ journal' = journal /\ seal' = Rebuilt /\ UNCHANGED vars
  BY DEF RebuildChain, RebuildLedgerChain, vars
<1>2. /\ StoreTypes /\ ChainTypes /\ TypeOK /\ PhaseInv /\ toSeal = {} /\ HashTypes
      /\ edits \in [EntryIds -> Nat]
  BY <1>1, StoreHashes DEF StoreInv, StoreTypes, PhaseInv, ChainTypes
<1>3. InRequest
  BY <1>1, <1>2 DEF InRequest
<1>4. StoreTypes'
  <2>1. TypeOK'
    BY <1>1, <1>2, TypeStep
  <2>2. DOMAIN seal' = EntryIds
    BY <1>1 DEF Rebuilt
  <2> QED
    BY <1>1, <1>2, <2>1, <2>2 DEF StoreTypes, ChainTypes, Stored
<1>5. ASSUME NEW d \in EntryIds, d \notin Live
      PROVE  Request(d)
  <2>1. seal'[d] = seal[d]
    BY <1>1, <1>2, <1>5, RebuiltFacts
  <2> QED
    BY <1>1, <2>1, Unasked
<1>6. ASSUME NEW d \in EntryIds, d \in Live
      PROVE  Request(d)
  <2>1. MemoryInv(d) /\ edits[d] \in Nat
    BY <1>2 DEF StoreInv, StoredInv
  <2>2. CASE d \in Durable
    <3>1. seal'[d].cur = seal[d].cur
      BY <1>1, <1>2, <1>6, <2>2, RebuiltEntry
    <3> QED
      BY <1>1, <1>6, <2>1, <3>1 DEF Request, Relinks, SameQueue, MemoryInv
  <2>3. CASE d \notin Durable
    <3>1. /\ seal'[d].prev \in Seq(Contents)
          /\ seal'[d].cur = Hash(Content(d), seal'[d].prev)
      BY <1>1, <1>2, <1>6, <2>3, RebuiltEntry
    <3>2. /\ Content(d) \in Contents /\ Content(d).edits = edits[d]
          /\ Content(d).status = journal[d].status
      BY <1>2, ContentType
    <3>3. /\ seal'[d].cur \in Seq(Contents) /\ seal'[d].cur # << >>
          /\ Last(seal'[d].cur) = Content(d)
      BY <3>1, <3>2, HashEndsWith
    <3>4. Level(journal[d].status) <= Level(journal[d].status) /\ edits[d] <= edits[d]
      BY <2>1, LevelType
    <3> QED
      BY <1>1, <1>6, <3>2, <3>3, <3>4 DEF Request, Relinks, SameQueue
  <2> QED
    BY <2>2, <2>3
<1> QED
  BY <1>1, <1>3, <1>4, <1>5, <1>6 DEF RequestStep

LEMMA Requested ==
  ASSUME StoreInv, Operation
  PROVE  RequestStep
<1>1. ASSUME NEW u \in Users, NEW e \in EntryIds, AdvanceEntry(u, e)
      PROVE  RequestStep
  BY <1>1, WorkflowRequests, PostRequest DEF AdvanceEntry
<1> QED
  BY <1>1, CreateRequests, ReverseRequest, DeleteRequest, RebuildRequest DEF Operation

LEMMA RequestsKeepInv ==
  ASSUME StoreInv, Operation
  PROVE  StoreInv'
<1>1. RequestStep
  BY Requested
<1>2. /\ StoreTypes' /\ StoreTypes /\ TypeOK /\ TypeOK' /\ InRequest
      /\ Next \/ UNCHANGED vars
  BY <1>1 DEF RequestStep, StoreInv, StoreTypes, ChainTypes
<1>3. ASSUME NEW e \in EntryIds
      PROVE  StoredInv(e)'
  <2>1. StoredInv(e) /\ edits[e] \in Nat /\ Request(e)
    BY <1>1, <1>2 DEF StoreInv, StoreTypes, ChainTypes, RequestStep
  <2> QED
    BY <1>2, <2>1, RequestKeeps
<1>4. PhaseInv'
  BY <1>2 DEF PhaseInv, InRequest
<1>5. BalancesMatchHistory'
  <2>1. BalancesMatchHistory /\ AbsentUnposted
    BY DEF StoreInv, StoredInv, MemoryInv, AbsentUnposted
  <2>2. CASE Next
    BY <1>2, <2>1, <2>2, BalancesStep
  <2>3. CASE UNCHANGED vars
    BY <2>1, <2>3 DEF vars, BalancesMatchHistory, LineNet, Sense, EntryIds
  <2> QED
    BY <1>2, <2>2, <2>3
<1> QED
  BY <1>2, <1>3, <1>4, <1>5 DEF StoreInv, EntryIds

-----------------------------------------------------------------------------
(* The database works off the calls, and the start seals the chain: the      *)
(* memory stays as it is, and only one row is touched.                       *)
LEMMA OthersKeep ==
  ASSUME StoreInv, NEW e \in EntryIds, UNCHANGED memory,
         DOMAIN writes' = EntryIds, DOMAIN lineRows' = EntryIds, Stored' \subseteq EntryIds,
         PhaseInv', StoredInv(e)', \A d \in EntryIds \ {e} : Frame(d)
  PROVE  StoreInv'
<1>1. journal' = journal /\ lines' = lines /\ history' = history /\ balance' = balance
  BY DEF memory, vars
<1>2. StoreTypes'
  BY <1>1 DEF StoreInv, StoreTypes, ChainTypes, TypeOK, memory, vars, chainVars
<1>3. BalancesMatchHistory'
  BY <1>1 DEF StoreInv, BalancesMatchHistory, LineNet, Sense, EntryIds
<1>4. \A d \in EntryIds : StoredInv(d)'
  BY FrameKeeps DEF StoreInv
<1> QED
  BY <1>2, <1>3, <1>4 DEF StoreInv, EntryIds

(* What holds of a call at work.                                             *)
LEMMA AtWork ==
  ASSUME StoreInv, NEW e \in EntryIds, NEW i \in DOMAIN writes[e]
  PROVE  /\ phase = "up" /\ toSeal = {} /\ i \in 1..Len(writes[e]) /\ Len(writes[e]) \in Nat
         /\ MemoryInv(e) /\ QueueInv(e) /\ CallOk(writes[e][i], DOMAIN lines[e], edits[e])
         /\ journal[e].status # "ABSENT" /\ (e \notin disturbed => Bound(e) /\ Tied(e))
         /\ DOMAIN writes = EntryIds /\ DOMAIN lineRows = EntryIds /\ Stored \subseteq EntryIds
<1>1. MemoryInv(e) /\ QueueInv(e)
  BY DEF StoreInv, StoredInv
<1>2. i \in 1..Len(writes[e]) /\ Len(writes[e]) \in Nat
  BY <1>1, QueueFacts DEF QueueInv
<1>3. writes[e] # << >>
  BY <1>2, NoCalls
<1>4. phase = "up" /\ toSeal = {}
  BY <1>3 DEF StoreInv, PhaseInv
<1>5. e \notin disturbed => Bound(e) /\ Tied(e)
  BY <1>3 DEF Bound, StoreInv, StoredInv
<1> QED
  BY <1>1, <1>2, <1>3, <1>4, <1>5 DEF QueueInv, MemoryInv, StoreInv, StoreTypes

LEMMA MemoryKept ==
  ASSUME NEW e \in EntryIds, MemoryInv(e), UNCHANGED memory,
         \/ journal[e].status # "ABSENT"
         \/ writes'[e] = writes[e] /\ lineRows'[e] = lineRows[e] /\ e \notin Stored',
         e \in Stored => e \in Stored'
  PROVE  MemoryInv(e)'
BY DEF MemoryInv, memory, vars, chainVars, Live

LEMMA QueueKept ==
  ASSUME NEW e \in EntryIds, QueueInv(e), UNCHANGED memory, lineRows'[e] \subseteq DOMAIN lines[e],
         NEW i \in 1..Len(writes[e]),
         \/ writes'[e] = RemoveAt(writes[e], i)
         \/ \E c : /\ CallOk(c, DOMAIN lines[e], edits[e])
                   /\ writes'[e] = [writes[e] EXCEPT ![i] = c]
  PROVE  QueueInv(e)'
<1> DEFINE q == writes[e]
           n == Len(q)
<1>1. IsQueue(q) /\ n \in Nat /\ lines' = lines /\ edits' = edits
  BY QueueFacts DEF QueueInv, memory, vars, chainVars
<1>2. \A k \in 1..n : CallOk(q[k], DOMAIN lines[e], edits[e])
  BY DEF QueueInv
<1>3. CASE writes'[e] = RemoveAt(q, i)
  <2> DEFINE r == RemoveAt(q, i)
  <2>1. /\ IsQueue(r) /\ Len(r) = n - 1
        /\ \A k \in 1..(n - 1) : r[k] = IF k < i THEN q[k] ELSE q[k + 1]
    BY <1>1, QueueShrinks
  <2> HIDE DEF r, q, n
  <2>2. \A k \in 1..(n - 1) : k \in 1..n /\ k + 1 \in 1..n
    BY <1>1
  <2>3. \A k \in 1..Len(r) : CallOk(r[k], DOMAIN lines[e], edits[e])
    BY <1>2, <2>1, <2>2
  <2>4. writes'[e] = r
    BY <1>3 DEF r
  <2> QED
    BY <1>1, <2>1, <2>3, <2>4 DEF QueueInv
<1>4. ASSUME NEW c, CallOk(c, DOMAIN lines[e], edits[e]), writes'[e] = [q EXCEPT ![i] = c]
      PROVE  QueueInv(e)'
  <2> DEFINE r == [q EXCEPT ![i] = c]
  <2>1. /\ IsQueue(r) /\ Len(r) = n
        /\ \A k \in 1..n : r[k] = IF k = i THEN c ELSE q[k]
    BY <1>1, QueueChanges
  <2>2. writes'[e] = r
    BY <1>4
  <2> HIDE DEF r, q, n
  <2>3. \A k \in 1..Len(r) : CallOk(r[k], DOMAIN lines[e], edits[e])
    BY <1>2, <1>4, <2>1
  <2> QED
    BY <1>1, <2>1, <2>2, <2>3 DEF QueueInv
<1> QED
  BY <1>3, <1>4 DEF q

(* A call that changed what it is, and the row of an inserted entry.         *)
LEMMA CallChanged ==
  ASSUME NEW c, NEW accounts, NEW n, CallOk(c, accounts, n)
  PROVE  /\ CallOk([c EXCEPT !.kind = "lines"], accounts, n) \/ c.left = {}
         /\ [c EXCEPT !.kind = "lines"].kind = "lines"
         /\ [c EXCEPT !.kind = "lines"].left = c.left
         /\ \A a : c.kind # "insert" /\ c.left \ {a} # {} =>
              /\ CallOk([c EXCEPT !.left = @ \ {a}], accounts, n)
              /\ [c EXCEPT !.left = @ \ {a}].kind = c.kind
              /\ [c EXCEPT !.left = @ \ {a}].entry = c.entry
              /\ [c EXCEPT !.left = @ \ {a}].seal = c.seal
              /\ [c EXCEPT !.left = @ \ {a}].left = c.left \ {a}
<1> DEFINE kind == c.kind
           entry == c.entry
           seal1 == c.seal
           left == c.left
<1>1. /\ c = [kind |-> kind, entry |-> entry, seal |-> seal1, left |-> left]
      /\ kind \in {"insert", "lines", "update"} /\ left \subseteq accounts
      /\ kind # "update" => left # {}
      /\ Writable(entry) /\ SealOf(entry, seal1) /\ Last(seal1.cur).edits <= n
  BY DEF CallOk
<1> HIDE DEF kind, entry, seal1, left
<1>2. /\ [c EXCEPT !.kind = "lines"] =
           [kind |-> "lines", entry |-> entry, seal |-> seal1, left |-> left]
      /\ \A a : [c EXCEPT !.left = @ \ {a}] =
           [kind |-> kind, entry |-> entry, seal |-> seal1, left |-> left \ {a}]
      /\ c.left = left /\ c.kind = kind /\ c.entry = entry /\ c.seal = seal1
  BY <1>1
<1> QED
  BY <1>1, <1>2 DEF CallOk

LEMMA Bystander ==
  ASSUME UNCHANGED memory, NEW d,
         writes'[d] = writes[d], lineRows'[d] = lineRows[d], d \in Stored => rows'[d] = rows[d],
         d \in Stored' <=> d \in Stored, d \in toSeal' <=> d \in toSeal,
         disturbed \subseteq disturbed'
  PROVE  Frame(d)
BY DEF Frame, memory, vars, chainVars

LEMMA PhaseKept ==
  ASSUME StoreInv, phase = "up", toSeal = {}, phase' = phase, toSeal' = toSeal
  PROVE  PhaseInv'
BY DEF StoreInv, PhaseInv

(* A call that is replaced, or done: what the queue of its entry becomes.    *)
LEMMA Replaced ==
  ASSUME NEW e \in EntryIds, QueueInv(e), NEW i \in 1..Len(writes[e]), NEW c,
         writes'[e] = [writes[e] EXCEPT ![i] = c]
  PROVE  /\ Len(writes'[e]) = Len(writes[e]) /\ writes'[e][i] = c
         /\ \A k \in 1..Len(writes[e]) : k # i => writes'[e][k] = writes[e][k]
BY QueueChanges DEF QueueInv

LEMMA Done ==
  ASSUME NEW e \in EntryIds, QueueInv(e), NEW i \in 1..Len(writes[e]),
         writes'[e] = RemoveAt(writes[e], i)
  PROVE  /\ Len(writes'[e]) = Len(writes[e]) - 1
         /\ \A k \in 1..(Len(writes[e]) - 1) :
              writes'[e][k] = IF k < i THEN writes[e][k] ELSE writes[e][k + 1]
BY QueueShrinks DEF QueueInv

LEMMA InsertKeeps ==
  ASSUME StoreInv, NEW e \in EntryIds, NEW i \in DOMAIN writes[e], InsertEntry(e, i)
  PROVE  StoreInv'
<1> DEFINE w == writes[e]
           n == Len(w)
           c == [w[i] EXCEPT !.kind = "lines"]
           new == [entry |-> w[i].entry, seal |-> w[i].seal, edits |-> 0]
<1>1. /\ w[i].kind = "insert" /\ UNCHANGED memory /\ phase' = phase /\ lineRows' = lineRows
      /\ toSeal' = toSeal /\ disturbed' = disturbed
      /\ rows' = [d \in Stored \union {e} |-> IF d \in Stored THEN rows[d] ELSE new]
      /\ writes' = [writes EXCEPT ![e] = [w EXCEPT ![i] = c]]
  BY DEF InsertEntry, Inserted
<1>2. /\ phase = "up" /\ toSeal = {} /\ i \in 1..n /\ n \in Nat
      /\ MemoryInv(e) /\ QueueInv(e) /\ CallOk(w[i], DOMAIN lines[e], edits[e])
      /\ journal[e].status # "ABSENT"
      /\ DOMAIN writes = EntryIds /\ DOMAIN lineRows = EntryIds /\ Stored \subseteq EntryIds
  BY AtWork
<1>3. journal' = journal /\ lines' = lines /\ seal' = seal /\ edits' = edits
  BY <1>1 DEF memory, vars, chainVars
<1>4. /\ CallOk(c, DOMAIN lines[e], edits[e]) /\ c.kind = "lines" /\ c.left = w[i].left
  BY <1>1, <1>2, CallChanged DEF CallOk
<1> HIDE DEF c, new
<1>5. /\ Stored' = Stored \union {e}
      /\ \A d \in Stored : rows'[d] = rows[d]
      /\ e \notin Stored => rows'[e] = new
  BY <1>1 DEF Stored
<1>6. writes'[e] = [w EXCEPT ![i] = c] /\ lineRows'[e] = lineRows[e]
  BY <1>1, <1>2
<1>7. MemoryInv(e)'
  BY <1>1, <1>2, <1>5, MemoryKept
<1>8. QueueInv(e)'
  BY <1>1, <1>2, <1>4, <1>6, QueueKept DEF QueueInv
<1>9. RowInv(e)'
  <2>1. CASE e \in Stored
    <3>1. RowInv(e)
      BY <2>1 DEF StoreInv, StoredInv
    <3> QED
      BY <1>3, <1>5, <2>1, <3>1 DEF RowInv
  <2>2. CASE e \notin Stored
    <3>1. edits[e] = 0
      BY <1>2, <2>2 DEF MemoryInv
    <3>2. Writable(w[i].entry) /\ SealOf(w[i].entry, w[i].seal) /\ Last(w[i].seal.cur).edits <= 0
      BY <1>2, <3>1 DEF CallOk
    <3>3. /\ new.entry = w[i].entry /\ new.seal = w[i].seal /\ new.edits = 0
          /\ new = [entry |-> new.entry, seal |-> new.seal, edits |-> new.edits]
      BY DEF new
    <3> QED
      BY <1>3, <1>5, <2>2, <3>1, <3>2, <3>3 DEF RowInv
  <2> QED
    BY <2>1, <2>2
<1>10. ASSUME Bound(e)'
       PROVE  Tied(e)'
  <2>1. Tied(e)
    BY <1>1, <1>10, AtWork DEF Bound
  <2>2. i = 1 /\ e \notin Stored /\ w[1].left = DOMAIN lines[e] /\ lineRows[e] = {} /\ n > 0
    BY <1>1, <1>2, <2>1 DEF Tied, UpdatesFollow, LinesTied
  <2>3. /\ rows'[e] = new /\ new.entry = w[1].entry /\ new.seal = w[1].seal
    BY <1>5, <2>2 DEF new
  <2>4. /\ Len(writes'[e]) = n /\ writes'[e][1] = c
        /\ \A k \in 1..n : k # 1 => writes'[e][k] = w[k]
    BY <1>2, <1>6, <2>2, Replaced
  <2>5. \A k \in 1..n : k # 1 => w[k].kind = "update"
    BY <1>2, <2>1 DEF Tied, UpdatesFollow
  <2> HIDE DEF w, n
  <2>6. UpdatesFollow(e)'
    BY <1>2, <2>4, <2>5 DEF UpdatesFollow
  <2>7. ASSUME e \in Live' PROVE Latest(e)'
    <3>1. w[n].kind # "lines" => Fits(e, w[n].entry) /\ SameSeal(e, w[n].seal)
      BY <1>3, <2>1, <2>2, <2>7 DEF Tied, Latest, Live, w, n
    <3>2. CASE n = 1
      BY <1>1, <1>2, <1>3, <1>4, <2>2, <2>3, <2>4, <3>1, <3>2 DEF Latest, Fits, SameSeal
    <3>3. CASE n # 1
      <4>1. writes'[e][n] = w[n] /\ w[n].kind = "update"
        BY <1>2, <2>2, <2>4, <2>5, <3>3
      <4> QED
        BY <1>2, <1>3, <2>2, <2>4, <3>1, <4>1 DEF Latest, Fits, SameSeal
    <3> QED
      BY <3>2, <3>3
  <2>8. LinesTied(e)'
    BY <1>3, <1>4, <1>5, <1>6, <2>2, <2>4 DEF LinesTied
  <2>9. HashesKept(e)'
    <3> SUFFICES ASSUME NEW k \in 1..n, writes'[e][k].kind = "update",
                        writes'[e][k].entry.status # "POSTED"
                 PROVE  writes'[e][k].seal.cur =
                          IF k = 1 \/ writes'[e][k - 1].kind = "lines" THEN rows'[e].seal.cur
                          ELSE writes'[e][k - 1].seal.cur
      BY <2>4 DEF HashesKept, Earlier
    <3>1. k # 1 /\ writes'[e][k] = w[k] /\ k - 1 \in 1..n
      BY <1>2, <1>4, <2>4
    <3>2. w[k].seal.cur = IF w[k - 1].kind = "lines" THEN rows[e].seal.cur ELSE w[k - 1].seal.cur
      BY <2>1, <3>1 DEF Tied, HashesKept, Earlier, w, n
    <3>3. CASE k - 1 = 1
      BY <1>1, <1>4, <2>2, <2>3, <2>4, <3>1, <3>2, <3>3
    <3>4. CASE k - 1 # 1
      BY <2>4, <2>5, <3>1, <3>2, <3>4
    <3> QED
      BY <3>3, <3>4
  <2> QED
    BY <2>6, <2>7, <2>8, <2>9 DEF Tied
<1>11. StoredInv(e)'
  BY <1>7, <1>8, <1>9, <1>10 DEF StoredInv
<1>12. ASSUME NEW d \in EntryIds \ {e}
       PROVE  Frame(d)
  <2>1. writes'[d] = writes[d] /\ (d \in Stored' <=> d \in Stored)
    BY <1>1, <1>2, <1>5
  <2> QED
    BY <1>1, <1>5, <2>1, Bystander
<1>13. DOMAIN writes' = EntryIds /\ DOMAIN lineRows' = EntryIds /\ Stored' \subseteq EntryIds
  BY <1>1, <1>2, <1>5
<1>14. PhaseInv'
  BY <1>1, <1>2, PhaseKept
<1> QED
  BY <1>1, <1>11, <1>12, <1>13, <1>14, OthersKeep

(* A call that goes wrong in one way or another leaves the rows alone.       *)
LEMMA DisturbedKeeps ==
  ASSUME StoreInv, NEW e \in EntryIds, NEW i \in DOMAIN writes[e], UNCHANGED memory,
         phase' = phase, toSeal' = toSeal, disturbed' = disturbed \union {e},
         rows' = rows, DOMAIN lineRows' = DOMAIN lineRows,
         \A d \in EntryIds : lineRows'[d] = lineRows[d], NEW q, writes' = [writes EXCEPT ![e] = q],
         \/ q = RemoveAt(writes[e], i)
         \/ \E c : CallOk(c, DOMAIN lines[e], edits[e]) /\ q = [writes[e] EXCEPT ![i] = c]
  PROVE  StoreInv'
<1>1. /\ phase = "up" /\ toSeal = {} /\ i \in 1..Len(writes[e])
      /\ MemoryInv(e) /\ QueueInv(e) /\ journal[e].status # "ABSENT"
      /\ DOMAIN writes = EntryIds /\ DOMAIN lineRows = EntryIds /\ Stored \subseteq EntryIds
  BY AtWork
<1>2. writes'[e] = q /\ Stored' = Stored
  BY <1>1 DEF Stored
<1>3. MemoryInv(e)'
  BY <1>1, <1>2, MemoryKept
<1>4. QueueInv(e)'
  BY <1>1, <1>2, QueueKept DEF QueueInv
<1>5. e \in Stored' => RowInv(e)'
  BY <1>2 DEF StoreInv, StoredInv, RowInv, memory, chainVars
<1>6. StoredInv(e)'
  BY <1>3, <1>4, <1>5 DEF StoredInv, Bound
<1>7. ASSUME NEW d \in EntryIds \ {e}
      PROVE  Frame(d)
  <2>1. writes'[d] = writes[d]
    BY <1>1
  <2> QED
    BY <1>2, <2>1, Bystander
<1>8. DOMAIN writes' = EntryIds /\ DOMAIN lineRows' = EntryIds /\ Stored' \subseteq EntryIds
  BY <1>1, <1>2
<1>9. PhaseInv'
  BY <1>1, PhaseKept
<1> QED
  BY <1>6, <1>7, <1>8, <1>9, OthersKeep

LEMMA FailureKeeps ==
  ASSUME StoreInv, NEW e \in EntryIds, NEW i \in DOMAIN writes[e],
         InsertIgnored(e, i) \/ WriteFails(e, i)
  PROVE  StoreInv'
<1>1. CASE InsertIgnored(e, i)
  <2> DEFINE c == [writes[e][i] EXCEPT !.kind = "lines"]
  <2>1. /\ CallOk(writes[e][i], DOMAIN lines[e], edits[e]) /\ writes[e][i].kind = "insert"
    BY <1>1, AtWork DEF InsertIgnored
  <2>2. CallOk(c, DOMAIN lines[e], edits[e])
    BY <2>1, CallChanged DEF CallOk
  <2>3. writes' = [writes EXCEPT ![e] = [writes[e] EXCEPT ![i] = c]]
    BY <1>1 DEF InsertIgnored
  <2> DEFINE q == [writes[e] EXCEPT ![i] = c]
  <2>4. \E d : CallOk(d, DOMAIN lines[e], edits[e]) /\ q = [writes[e] EXCEPT ![i] = d]
    BY <2>2
  <2>5. writes' = [writes EXCEPT ![e] = q]
    BY <2>3
  <2> HIDE DEF c, q
  <2> QED
    BY <1>1, <2>4, <2>5, DisturbedKeeps DEF InsertIgnored
<1>2. CASE WriteFails(e, i)
  <2>1. writes' = [writes EXCEPT ![e] = RemoveAt(writes[e], i)]
    BY <1>2 DEF WriteFails
  <2> QED
    BY <1>2, <2>1, DisturbedKeeps DEF WriteFails
<1> QED
  BY <1>1, <1>2

LEMMA InsertLineKeeps ==
  ASSUME StoreInv, NEW e \in EntryIds, NEW i \in DOMAIN writes[e], InsertLine(e, i)
  PROVE  StoreInv'
<1> DEFINE w == writes[e]
           n == Len(w)
           left == w[i].left
           a == CHOOSE x \in left : TRUE
           c == [w[i] EXCEPT !.left = @ \ {a}]
           q == IF left = {a} THEN RemoveAt(w, i) ELSE [w EXCEPT ![i] = c]
<1>1. /\ w[i].kind = "lines" /\ UNCHANGED memory /\ phase' = phase /\ rows' = rows
      /\ toSeal' = toSeal
      /\ lineRows' = [lineRows EXCEPT ![e] = IF LineTaken(e, a) THEN @ ELSE @ \union {a}]
      /\ disturbed' = disturbed \union (IF LineTaken(e, a) THEN {e} ELSE {})
  BY DEF InsertLine
<1>2. writes' = [writes EXCEPT ![e] = q]
  <2> DEFINE r == [w EXCEPT ![i].left = @ \ {a}]
  <2>1. writes' = [writes EXCEPT ![e] = IF left = {a} THEN RemoveAt(w, i) ELSE r]
    BY DEF InsertLine
  <2>2. r = [w EXCEPT ![i] = c]
    OBVIOUS
  <2> QED
    BY <2>1, <2>2, Zenon
<1>3. /\ phase = "up" /\ toSeal = {} /\ i \in 1..n /\ n \in Nat
      /\ MemoryInv(e) /\ QueueInv(e) /\ CallOk(w[i], DOMAIN lines[e], edits[e])
      /\ journal[e].status # "ABSENT"
      /\ DOMAIN writes = EntryIds /\ DOMAIN lineRows = EntryIds /\ Stored \subseteq EntryIds
  BY AtWork
<1>4. /\ a \in left /\ left \subseteq DOMAIN lines[e]
      /\ left # {a} => left \ {a} # {}
  <2>1. left # {} /\ left \subseteq DOMAIN lines[e]
    BY <1>1, <1>3 DEF CallOk
  <2>2. a \in left
    BY <2>1
  <2> QED
    BY <2>1, <2>2
<1>5. left # {a} => /\ CallOk(c, DOMAIN lines[e], edits[e]) /\ c.kind = "lines"
                    /\ c.left = left \ {a}
  <2>1. w[i].kind # "insert" /\ CallOk(w[i], DOMAIN lines[e], edits[e])
    BY <1>1, <1>3
  <2>2. ASSUME left # {a}
        PROVE  /\ CallOk(c, DOMAIN lines[e], edits[e]) /\ c.kind = w[i].kind
               /\ c.left = w[i].left \ {a}
    <3>1. w[i].left \ {a} # {}
      BY <1>4, <2>2
    <3> HIDE DEF a
    <3> QED
      BY <2>1, <3>1, CallChanged, Zenon
  <2> QED
    BY <1>1, <2>2
<1> HIDE DEF a, c
<1>6. /\ \/ q = RemoveAt(w, i)
         \/ \E d : CallOk(d, DOMAIN lines[e], edits[e]) /\ q = [w EXCEPT ![i] = d]
      /\ left = {a} => q = RemoveAt(w, i)
      /\ left # {a} => q = [w EXCEPT ![i] = c]
  BY <1>5
<1> HIDE DEF q
<1>7. CASE LineTaken(e, a)
  <2>1. /\ DOMAIN lineRows' = DOMAIN lineRows /\ disturbed' = disturbed \union {e}
        /\ \A d \in EntryIds : lineRows'[d] = lineRows[d]
    BY <1>1, <1>3, <1>7
  <2> QED
    BY <1>1, <1>2, <1>6, <2>1, DisturbedKeeps
<1>8. CASE ~LineTaken(e, a)
  <2>1. /\ disturbed' = disturbed /\ DOMAIN lineRows' = EntryIds /\ DOMAIN writes' = EntryIds
        /\ lineRows'[e] = lineRows[e] \union {a} /\ writes'[e] = q
        /\ \A d \in EntryIds \ {e} : lineRows'[d] = lineRows[d] /\ writes'[d] = writes[d]
    BY <1>1, <1>2, <1>3, <1>8
  <2>2. Stored' = Stored /\ journal' = journal /\ lines' = lines /\ edits' = edits /\ seal' = seal
    BY <1>1 DEF Stored, memory, vars, chainVars
  <2>3. MemoryInv(e)'
    BY <1>1, <1>3, <2>2, MemoryKept
  <2>4. QueueInv(e)'
    <3>1. lineRows'[e] \subseteq DOMAIN lines[e]
      BY <1>3, <1>4, <2>1 DEF QueueInv
    <3> QED
      BY <1>1, <1>3, <1>6, <2>1, <3>1, QueueKept
  <2>5. e \in Stored' => RowInv(e)'
    BY <1>1, <2>2 DEF StoreInv, StoredInv, RowInv
  <2>6. ASSUME Bound(e)'
        PROVE  Tied(e)'
    <3>1. Tied(e)
      BY <2>1, <2>6, AtWork DEF Bound
    <3>2. i = 1 /\ n > 0 /\ e \in Stored /\ lineRows[e] \union left = DOMAIN lines[e]
      BY <1>1, <1>3, <3>1 DEF Tied, UpdatesFollow, LinesTied
    <3>3. \A k \in 1..n : k # 1 => w[k].kind = "update"
      BY <1>3, <3>1 DEF Tied, UpdatesFollow
    <3>4. ASSUME e \in Live'
          PROVE  /\ w[n].kind # "lines" => Fits(e, w[n].entry) /\ SameSeal(e, w[n].seal)
                 /\ w[n].kind = "lines" => Fits(e, rows[e].entry) /\ SameSeal(e, rows[e].seal)
      BY <1>3, <2>2, <3>1, <3>2, <3>4 DEF Tied, Latest, Live
    <3>5. \A k \in 1..n : w[k].kind = "update" /\ w[k].entry.status # "POSTED" =>
            w[k].seal.cur =
              IF k = 1 \/ w[k - 1].kind = "lines" THEN rows[e].seal.cur ELSE w[k - 1].seal.cur
      BY <3>1 DEF Tied, HashesKept, Earlier
    <3>6. CASE left = {a}
      <4>1. /\ Len(writes'[e]) = n - 1
            /\ \A k \in 1..(n - 1) : writes'[e][k] = IF k < i THEN w[k] ELSE w[k + 1]
        BY <1>3, <1>6, <2>1, <3>6, Done
      <4> HIDE DEF w, n, left
      <4>2. \A k \in 1..(n - 1) : /\ k + 1 \in 1..n /\ k + 1 # 1
                                  /\ writes'[e][k] = w[k + 1] /\ w[k + 1].kind = "update"
        BY <1>3, <3>2, <3>3, <4>1
      <4>3. n - 1 \in Nat /\ (n # 1 => n - 1 \in 1..(n - 1) /\ 1 \in 1..(n - 1) /\ (n - 1) + 1 = n)
        BY <1>3, <3>2
      <4>4. UpdatesFollow(e)'
        BY <4>1, <4>2 DEF UpdatesFollow
      <4>5. ASSUME e \in Live' PROVE Latest(e)'
        <5>1. CASE n = 1
          BY <1>1, <2>2, <3>2, <3>4, <4>5, <3>6, <4>1, <5>1 DEF Latest, Fits, SameSeal
        <5>2. CASE n # 1
          <6>1. writes'[e][n - 1] = w[n] /\ w[n].kind = "update"
            BY <4>2, <4>3, <5>2
          <6> QED
            BY <2>2, <3>4, <4>5, <4>1, <4>3, <5>2, <6>1 DEF Latest, Fits, SameSeal
        <5> QED
          BY <5>1, <5>2
      <4>6. LinesTied(e)'
        <5>1. lineRows'[e] = DOMAIN lines'[e] /\ e \in Stored'
          BY <2>1, <2>2, <3>2, <3>6
        <5>2. n - 1 > 0 => writes'[e][1].kind = "update"
          BY <4>2, <4>3
        <5> QED
          BY <4>1, <5>1, <5>2 DEF LinesTied
      <4>7. HashesKept(e)'
        <5> SUFFICES ASSUME NEW k \in 1..(n - 1), writes'[e][k].entry.status # "POSTED"
                     PROVE  writes'[e][k].seal.cur = Earlier(e, k)'
          BY <4>1 DEF HashesKept
        <5>1. /\ writes'[e][k] = w[k + 1] /\ w[k + 1].kind = "update" /\ k + 1 \in 1..n
              /\ k + 1 # 1 /\ (k + 1) - 1 = k
          BY <4>2
        <5>2. w[k + 1].seal.cur =
                IF w[k].kind = "lines" THEN rows[e].seal.cur ELSE w[k].seal.cur
          BY <3>5, <5>1
        <5>3. CASE k = 1
          BY <1>1, <3>2, <5>1, <5>2, <5>3 DEF Earlier
        <5>4. CASE k # 1
          <6>1. k - 1 \in 1..(n - 1) /\ (k - 1) + 1 = k
            BY <1>3, <5>4
          <6>2. writes'[e][k - 1] = w[k] /\ w[k].kind = "update"
            BY <4>2, <6>1
          <6> QED
            BY <5>1, <5>2, <5>4, <6>2 DEF Earlier
        <5> QED
          BY <5>3, <5>4
      <4> QED
        BY <4>4, <4>5, <4>6, <4>7 DEF Tied
    <3>7. CASE left # {a}
      <4>1. /\ Len(writes'[e]) = n /\ writes'[e][1] = c
            /\ \A k \in 1..n : k # 1 => writes'[e][k] = w[k]
        BY <1>3, <1>6, <2>1, <3>2, <3>7, Replaced
      <4>2. c.kind = "lines" /\ c.left = left \ {a} /\ w[1].kind = "lines"
        BY <1>1, <1>5, <3>2, <3>7
      <4> HIDE DEF w, n, left
      <4>3. UpdatesFollow(e)'
        BY <1>3, <3>3, <4>1 DEF UpdatesFollow
      <4>4. ASSUME e \in Live' PROVE Latest(e)'
        <5>1. CASE n = 1
          BY <1>1, <2>2, <3>2, <3>4, <4>4, <4>1, <4>2, <5>1 DEF Latest, Fits, SameSeal
        <5>2. CASE n # 1
          <6>1. writes'[e][n] = w[n] /\ w[n].kind = "update"
            BY <1>3, <3>2, <3>3, <4>1, <5>2
          <6> QED
            BY <2>2, <3>2, <3>4, <4>4, <4>1, <6>1 DEF Latest, Fits, SameSeal
        <5> QED
          BY <5>1, <5>2
      <4>5. LinesTied(e)'
        <5>1. (lineRows[e] \union {a}) \union (left \ {a}) = lineRows[e] \union left
          BY <1>4
        <5> QED
          BY <2>1, <2>2, <3>2, <4>1, <4>2, <5>1 DEF LinesTied
      <4>6. HashesKept(e)'
        <5> SUFFICES ASSUME NEW k \in 1..n, writes'[e][k].kind = "update",
                            writes'[e][k].entry.status # "POSTED"
                     PROVE  writes'[e][k].seal.cur = Earlier(e, k)'
          BY <4>1 DEF HashesKept
        <5>1. k # 1 /\ writes'[e][k] = w[k] /\ k - 1 \in 1..n
          BY <1>3, <4>1, <4>2
        <5>2. w[k].seal.cur =
                IF w[k - 1].kind = "lines" THEN rows[e].seal.cur ELSE w[k - 1].seal.cur
          BY <3>5, <5>1
        <5>3. CASE k - 1 = 1
          BY <1>1, <4>1, <4>2, <5>1, <5>2, <5>3 DEF Earlier
        <5>4. CASE k - 1 # 1
          <6>1. writes'[e][k - 1] = w[k - 1]
            BY <4>1, <5>1, <5>4
          <6> QED
            BY <1>1, <5>1, <5>2, <6>1 DEF Earlier
        <5> QED
          BY <5>3, <5>4
      <4> QED
        BY <4>3, <4>4, <4>5, <4>6 DEF Tied
    <3> QED
      BY <3>6, <3>7
  <2>7. StoredInv(e)'
    BY <2>3, <2>4, <2>5, <2>6 DEF StoredInv
  <2>8. ASSUME NEW d \in EntryIds \ {e}
        PROVE  Frame(d)
    BY <1>1, <2>1, <2>2, Bystander
  <2>9. PhaseInv'
    BY <1>1, <1>3, PhaseKept
  <2> QED
    BY <1>1, <1>3, <2>1, <2>2, <2>7, <2>8, <2>9, OthersKeep
<1> QED
  BY <1>7, <1>8

LEMMA LastContent ==
  ASSUME NEW h \in Seq(Contents), h # << >>
  PROVE  Last(h).edits \in Nat
<1>1. Len(h) \in 1..Len(h) /\ DOMAIN h = 1..Len(h) /\ h \in [1..Len(h) -> Contents]
  BY LenProperties, EmptySeq
<1>2. Last(h) \in Contents
  BY <1>1 DEF Last
<1> QED
  BY <1>2 DEF Contents

(* What an update, and an edit made outside, make of a row.                  *)
LEMMA UpdatedRow ==
  ASSUME NEW e \in Stored, RowInv(e), NEW call,
         rows' = [rows EXCEPT ![e].entry.status = call.entry.status,
                              ![e].entry.approvedBy = call.entry.approvedBy,
                              ![e].seal = call.seal]
  PROVE  /\ rows'[e].entry = [rows[e].entry EXCEPT !.status = call.entry.status,
                                                   !.approvedBy = call.entry.approvedBy]
         /\ rows'[e].seal = call.seal /\ rows'[e].edits = rows[e].edits
         /\ rows'[e] = [entry |-> rows'[e].entry, seal |-> rows'[e].seal,
                        edits |-> rows'[e].edits]
<1> DEFINE row == [rows[e] EXCEPT !.entry.status = call.entry.status,
                                  !.entry.approvedBy = call.entry.approvedBy,
                                  !.seal = call.seal]
           entry == rows[e].entry
           seal1 == rows[e].seal
           edits1 == rows[e].edits
           changed == [rows[e].entry EXCEPT !.status = call.entry.status,
                                            !.approvedBy = call.entry.approvedBy]
<1>1. rows[e] = [entry |-> entry, seal |-> seal1, edits |-> edits1]
  BY DEF RowInv
<1>2. rows'[e] = row
  BY DEF Stored
<1>3. row = [rows[e] EXCEPT !.entry = changed, !.seal = call.seal]
  OBVIOUS
<1> HIDE DEF entry, seal1, edits1, changed, row
<1>4. row = [entry |-> changed, seal |-> call.seal, edits |-> edits1]
  <2>1. ASSUME NEW q, q = row
        PROVE  q = [[entry |-> entry, seal |-> seal1, edits |-> edits1]
                      EXCEPT !.entry = changed, !.seal = call.seal]
    BY <1>1, <1>3, <2>1
  <2> QED
    BY <2>1
<1>5. row.entry = changed /\ row.seal = call.seal /\ row.edits = edits1
  BY <1>4
<1> QED
  BY <1>2, <1>4, <1>5 DEF changed, edits1

LEMMA EditedRow ==
  ASSUME NEW e \in Stored, RowInv(e), rows' = [rows EXCEPT ![e].edits = @ + 1]
  PROVE  /\ rows'[e].entry = rows[e].entry /\ rows'[e].seal = rows[e].seal
         /\ rows'[e].edits = rows[e].edits + 1
         /\ rows'[e] = [entry |-> rows'[e].entry, seal |-> rows'[e].seal,
                        edits |-> rows'[e].edits]
<1> DEFINE entry == rows[e].entry
           seal1 == rows[e].seal
           edits1 == rows[e].edits
<1>1. rows[e] = [entry |-> entry, seal |-> seal1, edits |-> edits1]
  BY DEF RowInv
<1>2. rows'[e] = [rows[e] EXCEPT !.edits = @ + 1]
  BY DEF Stored
<1> HIDE DEF entry, seal1, edits1
<1>3. rows'[e] = [entry |-> entry, seal |-> seal1, edits |-> edits1 + 1]
  BY <1>1, <1>2
<1>4. rows[e].entry = entry /\ rows[e].seal = seal1 /\ rows[e].edits = edits1
  BY <1>1
<1> QED
  BY <1>3, <1>4

LEMMA UpdateKeeps ==
  ASSUME StoreInv, NEW e \in EntryIds, NEW i \in DOMAIN writes[e], UpdateEntry(e, i)
  PROVE  StoreInv'
<1> DEFINE w == writes[e]
           n == Len(w)
           call == w[i]
<1>1. /\ w[i].kind = "update" /\ UNCHANGED memory /\ phase' = phase /\ lineRows' = lineRows
      /\ toSeal' = toSeal /\ writes' = [writes EXCEPT ![e] = RemoveAt(w, i)]
      /\ disturbed' = disturbed \union (IF Overtakes(e, i) THEN {e} ELSE {})
      /\ rows' = IF e \in Stored
                 THEN [rows EXCEPT ![e].entry.status = call.entry.status,
                                   ![e].entry.approvedBy = call.entry.approvedBy,
                                   ![e].seal = call.seal]
                 ELSE rows
  BY DEF UpdateEntry
<1>2. /\ phase = "up" /\ toSeal = {} /\ i \in 1..n /\ n \in Nat
      /\ MemoryInv(e) /\ QueueInv(e) /\ CallOk(w[i], DOMAIN lines[e], edits[e])
      /\ journal[e].status # "ABSENT"
      /\ DOMAIN writes = EntryIds /\ DOMAIN lineRows = EntryIds /\ Stored \subseteq EntryIds
  BY AtWork
<1>3. journal' = journal /\ lines' = lines /\ seal' = seal /\ edits' = edits
  <2>1. UNCHANGED memory
    BY <1>1
  <2> QED
    BY ONLY <2>1 DEF memory, vars, chainVars
<1>4. ASSUME e \in Stored
      PROVE  /\ rows'[e].entry = [rows[e].entry EXCEPT !.status = call.entry.status,
                                                       !.approvedBy = call.entry.approvedBy]
             /\ rows'[e].seal = call.seal /\ rows'[e].edits = rows[e].edits
             /\ rows'[e] = [entry |-> rows'[e].entry, seal |-> rows'[e].seal,
                            edits |-> rows'[e].edits]
  <2>1. RowInv(e)
    BY <1>4 DEF StoreInv, StoredInv
  <2> HIDE DEF call
  <2> QED
    BY <1>1, <1>4, <2>1, UpdatedRow
<1>5. Stored' = Stored /\ \A d \in Stored \ {e} : rows'[d] = rows[d]
  BY <1>1 DEF Stored
<1>6. /\ writes'[e] = RemoveAt(w, i) /\ lineRows'[e] = lineRows[e]
      /\ \A d \in EntryIds \ {e} : writes'[d] = writes[d]
      /\ DOMAIN writes' = EntryIds
  BY <1>1, <1>2
<1>7. MemoryInv(e)'
  BY <1>1, <1>2, <1>5, MemoryKept
<1>8. QueueInv(e)'
  BY <1>1, <1>2, <1>6, QueueKept DEF QueueInv
<1>9. ASSUME e \in Stored
      PROVE  /\ RowInv(e)' /\ rows'[e].entry.status = call.entry.status
             /\ rows'[e].entry.approvedBy = call.entry.approvedBy
  <2>1. /\ rows[e].entry \in Entry /\ rows[e].edits \in Nat /\ edits[e] <= rows[e].edits
        /\ edits[e] \in Nat
    BY <1>9 DEF StoreInv, StoredInv, RowInv, Writable, StoreTypes, ChainTypes
  <2>2. /\ call.entry \in Entry /\ call.entry.status \notin {"ABSENT", "DELETED"}
        /\ SealOf(call.entry, call.seal) /\ Last(call.seal.cur).edits <= edits[e]
    BY <1>2 DEF CallOk, Writable
  <2> HIDE DEF call
  <2>3. /\ rows'[e].entry \in Entry /\ rows'[e].entry.status = call.entry.status
        /\ rows'[e].entry.approvedBy = call.entry.approvedBy
    BY <1>4, <1>9, <2>1, <2>2 DEF Entry
  <2>4. Writable(rows'[e].entry) /\ SealOf(rows'[e].entry, rows'[e].seal)
    BY <1>4, <1>9, <2>2, <2>3 DEF Writable, SealOf
  <2>5. Last(rows'[e].seal.cur).edits <= rows'[e].edits
    <3> DEFINE x == Last(call.seal.cur).edits
    <3>1. x \in Nat
      BY <2>2, LastContent DEF SealOf
    <3> HIDE DEF x
    <3>2. x <= rows[e].edits
      BY <2>1, <2>2, <3>1 DEF x
    <3> QED
      BY <1>4, <1>9, <3>2 DEF x
  <2> QED
    BY <1>3, <1>4, <1>9, <2>1, <2>3, <2>4, <2>5 DEF RowInv
<1>10. ASSUME Bound(e)'
       PROVE  Tied(e)'
  <2>1. Tied(e)
    BY <1>1, <1>10, AtWork DEF Bound
  <2>2. \A k \in 1..n : k # 1 => w[k].kind = "update"
    BY <1>2, <2>1 DEF Tied, UpdatesFollow
  <2>3. i = 1 \/ (i = 2 /\ w[1].kind = "lines")
    <3>1. \A j \in 1..(i - 1) : w[j].kind = "lines"
      BY <1>1, <1>10 DEF Overtakes, Bound
    <3>2. i > 2 => 2 \in 1..(i - 1) /\ 2 \in 1..n
      BY <1>2
    <3>3. i = 2 => 1 \in 1..(i - 1)
      OBVIOUS
    <3> HIDE DEF w, n
    <3>4. ASSUME i > 2 PROVE FALSE
      BY <2>2, <3>1, <3>2, <3>4
    <3>5. i = 1 \/ i = 2
      BY <1>2, <3>4
    <3> QED
      BY <3>1, <3>3, <3>5
  <2>4. e \in Stored /\ n > 0
    <3>1. n > 0 /\ w[1].kind # "insert"
      BY <1>1, <1>2, <2>3
    <3> QED
      BY <2>1, <3>1 DEF Tied, LinesTied
  <2>5. /\ rows'[e].seal = w[i].seal /\ rows'[e].entry.status = w[i].entry.status
        /\ rows'[e].entry.approvedBy = w[i].entry.approvedBy
    BY <1>4, <1>9, <2>4
  <2>6. ASSUME e \in Live', w[n].kind # "lines"
        PROVE  Fits(e, w[n].entry) /\ SameSeal(e, w[n].seal)
    BY <1>3, <2>1, <2>4, <2>6 DEF Tied, Latest, Live
  <2>7. \A k \in 1..n : w[k].kind = "update" /\ w[k].entry.status # "POSTED" =>
          w[k].seal.cur =
            IF k = 1 \/ w[k - 1].kind = "lines" THEN rows[e].seal.cur ELSE w[k - 1].seal.cur
    BY <2>1 DEF Tied, HashesKept, Earlier
  <2>8. /\ i = 1 => lineRows[e] = DOMAIN lines[e]
        /\ i = 2 => lineRows[e] \union w[1].left = DOMAIN lines[e]
    BY <1>1, <2>1, <2>3, <2>4 DEF Tied, LinesTied
  <2>9. /\ Len(writes'[e]) = n - 1
        /\ \A k \in 1..(n - 1) : writes'[e][k] = IF k < i THEN w[k] ELSE w[k + 1]
    BY <1>2, <1>6, Done
  <2> HIDE DEF w, n, call
  <2>10. \A k \in 1..(n - 1) :
           /\ k + 1 \in 1..n /\ k + 1 # 1 /\ w[k + 1].kind = "update"
           /\ k >= i => writes'[e][k] = w[k + 1]
           /\ k < i => i = 2 /\ k = 1 /\ writes'[e][k] = w[1] /\ w[1].kind = "lines"
    BY <1>2, <2>2, <2>3, <2>9
  <2>11. UpdatesFollow(e)'
    BY <1>2, <2>3, <2>9, <2>10 DEF UpdatesFollow
  <2>12. ASSUME e \in Live' PROVE Latest(e)'
    <3>1. CASE i = n
      <4>1. /\ rows'[e].entry.status = journal'[e].status
            /\ rows'[e].entry.approvedBy = journal'[e].approvedBy
            /\ rows'[e].seal.cur = seal'[e].cur /\ rows'[e].seal.prev = seal'[e].prev
        BY <1>1, <1>3, <2>5, <2>6, <2>12, <3>1 DEF Fits, SameSeal, w
      <4>2. n - 1 > 0 => writes'[e][n - 1].kind = "lines"
        BY <1>2, <2>3, <2>10, <3>1
      <4> QED
        BY <1>2, <2>9, <4>1, <4>2 DEF Latest, Fits, SameSeal
    <3>2. CASE i # n
      <4>1. n - 1 \in 1..(n - 1) /\ n - 1 >= i /\ (n - 1) + 1 = n
        BY <1>2, <3>2
      <4>2. writes'[e][n - 1] = w[n] /\ w[n].kind = "update" /\ n - 1 > 0
        BY <2>10, <4>1
      <4> QED
        BY <1>3, <2>6, <2>12, <2>9, <4>2 DEF Latest, Fits, SameSeal
    <3> QED
      BY <3>1, <3>2
  <2>13. LinesTied(e)'
    <3>1. e \in Stored' /\ lineRows'[e] = lineRows[e] /\ DOMAIN lines'[e] = DOMAIN lines[e]
      BY <1>3, <1>5, <1>6, <2>4
    <3>2. CASE i = 1
      <4>1. n - 1 > 0 => writes'[e][1].kind = "update"
        BY <1>2, <2>10, <3>2
      <4> QED
        BY <1>2, <2>8, <2>9, <3>1, <3>2, <4>1 DEF LinesTied
    <3>3. CASE i = 2
      <4>1. 1 \in 1..(n - 1) /\ n - 1 > 0
        BY <1>2, <3>3
      <4>2. writes'[e][1] = w[1] /\ w[1].kind = "lines"
        BY <2>9, <2>10, <3>3, <4>1
      <4> QED
        BY <2>8, <2>9, <3>1, <3>3, <4>1, <4>2 DEF LinesTied
    <3> QED
      BY <2>3, <3>2, <3>3
  <2>14. HashesKept(e)'
    <3> SUFFICES ASSUME NEW k \in 1..(n - 1), writes'[e][k].kind = "update",
                        writes'[e][k].entry.status # "POSTED"
                 PROVE  writes'[e][k].seal.cur = Earlier(e, k)'
      BY <2>9 DEF HashesKept
    <3>1. k >= i /\ writes'[e][k] = w[k + 1] /\ k + 1 \in 1..n /\ k + 1 # 1
          /\ (k + 1) - 1 = k /\ w[k + 1].kind = "update"
      BY <1>2, <2>10
    <3>2. w[k + 1].seal.cur = IF w[k].kind = "lines" THEN rows[e].seal.cur ELSE w[k].seal.cur
      BY <2>7, <3>1
    <3>3. CASE k = i
      <4>1. w[k + 1].seal.cur = rows'[e].seal.cur
        BY <1>1, <2>5, <3>2, <3>3 DEF call, w
      <4>2. k = 1 \/ writes'[e][k - 1].kind = "lines"
        BY <1>2, <2>3, <2>10, <3>3
      <4> QED
        BY <3>1, <4>1, <4>2 DEF Earlier
    <3>4. CASE k # i
      <4>1. k - 1 \in 1..(n - 1) /\ k - 1 >= i /\ (k - 1) + 1 = k /\ k # 1
        BY <1>2, <3>1, <3>4
      <4>2. writes'[e][k - 1] = w[k] /\ w[k].kind = "update"
        BY <2>10, <4>1
      <4> QED
        BY <3>1, <3>2, <4>1, <4>2 DEF Earlier
    <3> QED
      BY <3>3, <3>4
  <2> QED
    BY <2>11, <2>12, <2>13, <2>14 DEF Tied
<1>11. StoredInv(e)'
  BY <1>5, <1>7, <1>8, <1>9, <1>10 DEF StoredInv
<1>12. ASSUME NEW d \in EntryIds \ {e}
       PROVE  Frame(d)
  BY <1>1, <1>5, <1>6, Bystander
<1>13. PhaseInv'
  BY <1>1, <1>2, PhaseKept
<1> QED
  BY <1>1, <1>2, <1>5, <1>6, <1>11, <1>12, <1>13, OthersKeep

LEMMA EditKeeps ==
  ASSUME StoreInv, NEW e \in EntryIds, EditRow(e)
  PROVE  StoreInv'
<1>1. /\ e \in Stored /\ UNCHANGED memory /\ phase' = phase /\ lineRows' = lineRows
      /\ writes' = writes /\ toSeal' = toSeal /\ disturbed' = disturbed
      /\ rows' = [rows EXCEPT ![e].edits = @ + 1]
  BY DEF EditRow
<1>2. StoredInv(e) /\ RowInv(e) /\ StoreTypes /\ PhaseInv
  BY <1>1 DEF StoreInv, StoredInv
<1>3. journal' = journal /\ lines' = lines /\ seal' = seal /\ edits' = edits
  BY <1>1 DEF memory, vars, chainVars
<1>4. Stored' = Stored /\ \A d \in Stored \ {e} : rows'[d] = rows[d]
  BY <1>1 DEF Stored
<1>5. /\ rows'[e].entry = rows[e].entry /\ rows'[e].seal = rows[e].seal
      /\ rows'[e].edits = rows[e].edits + 1
      /\ rows'[e] = [entry |-> rows'[e].entry, seal |-> rows'[e].seal, edits |-> rows'[e].edits]
  BY <1>1, <1>2, EditedRow
<1>6. MemoryInv(e)'
  BY <1>1, <1>2, <1>4, MemoryKept DEF StoredInv, MemoryInv
<1>7. QueueInv(e)'
  BY <1>1, <1>2, <1>3 DEF StoredInv, QueueInv
<1>8. RowInv(e)'
  <2> DEFINE x == Last(rows[e].seal.cur).edits
             y == rows[e].edits
  <2>1. x \in Nat /\ y \in Nat /\ x <= y /\ edits[e] <= y /\ edits[e] \in Nat
    BY <1>2, LastContent DEF RowInv, SealOf, StoreTypes, ChainTypes
  <2> HIDE DEF x, y
  <2>2. x <= y + 1 /\ edits[e] <= y + 1 /\ y + 1 \in Nat
    BY <2>1
  <2> QED
    BY <1>2, <1>3, <1>5, <2>2 DEF RowInv, x, y
<1>9. ASSUME Bound(e)'
      PROVE  Tied(e)'
  <2>1. Tied(e)
    BY <1>1, <1>2, <1>3, <1>9 DEF StoredInv, Live, Bound
  <2>2. UpdatesFollow(e)' /\ LinesTied(e)'
    BY <1>1, <1>3, <1>4, <2>1 DEF Tied, UpdatesFollow, LinesTied
  <2>3. ASSUME e \in Live' PROVE Latest(e)'
    BY <1>1, <1>3, <1>5, <2>1, <2>3 DEF Tied, Latest, Fits, SameSeal, Live
  <2>4. HashesKept(e)'
    BY <1>1, <1>5, <2>1 DEF Tied, HashesKept, Earlier
  <2> QED
    BY <2>2, <2>3, <2>4 DEF Tied
<1>10. StoredInv(e)'
  BY <1>6, <1>7, <1>8, <1>9 DEF StoredInv
<1>11. ASSUME NEW d \in EntryIds \ {e}
       PROVE  Frame(d)
  BY <1>1, <1>4, Bystander
<1>12. PhaseInv'
  BY <1>1, <1>2, <1>3 DEF PhaseInv, Live
<1> QED
  BY <1>1, <1>2, <1>4, <1>10, <1>11, <1>12, OthersKeep DEF StoreTypes

LEMMA SealRowKeeps ==
  ASSUME StoreInv, NEW e \in EntryIds, SealRow(e)
  PROVE  StoreInv'
<1>1. /\ phase = "sealing" /\ phase' = phase /\ e \in toSeal /\ toSeal' = toSeal \ {e}
      /\ UNCHANGED memory /\ lineRows' = lineRows /\ writes' = writes
      /\ \/ rows' = [rows EXCEPT ![e].seal = seal[e]] /\ disturbed' = disturbed
         \/ rows' = rows /\ disturbed' = disturbed \union {e}
  BY DEF SealRow
<1>2. /\ StoredInv(e) /\ MemoryInv(e) /\ QueueInv(e) /\ StoreTypes /\ PhaseInv
      /\ writes[e] = << >> /\ e \in Live \ disturbed /\ SealOf(journal[e], seal[e])
  BY <1>1 DEF StoreInv, StoredInv, PhaseInv
<1>3. journal' = journal /\ lines' = lines /\ seal' = seal /\ edits' = edits
  BY <1>1 DEF memory, vars, chainVars
<1>4. /\ Tied(e) /\ e \in Stored /\ RowInv(e) /\ Fits(e, rows[e].entry)
      /\ lineRows[e] = DOMAIN lines[e] /\ Len(writes[e]) = 0
  <2>1. Tied(e) /\ Len(writes[e]) = 0
    BY <1>2, NoCalls DEF StoredInv, Bound
  <2> QED
    BY <1>2, <2>1 DEF Tied, LinesTied, Latest, StoredInv
<1>5. /\ Stored' = Stored /\ \A d \in Stored \ {e} : rows'[d] = rows[d]
      /\ \/ /\ rows'[e].entry = rows[e].entry /\ rows'[e].seal = seal[e]
            /\ rows'[e].edits = rows[e].edits /\ disturbed' = disturbed
            /\ rows'[e] = [entry |-> rows'[e].entry, seal |-> rows'[e].seal,
                           edits |-> rows'[e].edits]
         \/ rows'[e] = rows[e] /\ e \in disturbed'
  <2>1. CASE rows' = [rows EXCEPT ![e].seal = seal[e]] /\ disturbed' = disturbed
    <3> DEFINE entry == rows[e].entry
               seal1 == rows[e].seal
               edits1 == rows[e].edits
    <3>1. rows[e] = [entry |-> entry, seal |-> seal1, edits |-> edits1]
      BY <1>4 DEF RowInv
    <3>2. rows'[e] = [rows[e] EXCEPT !.seal = seal[e]]
      BY <1>4, <2>1 DEF Stored
    <3> HIDE DEF entry, seal1, edits1
    <3>3. rows'[e] = [entry |-> entry, seal |-> seal[e], edits |-> edits1]
      BY <3>1, <3>2
    <3>4. rows[e].entry = entry /\ rows[e].edits = edits1
      BY <3>1
    <3>5. Stored' = Stored /\ \A d \in Stored \ {e} : rows'[d] = rows[d]
      BY <2>1 DEF Stored
    <3> QED
      BY <2>1, <3>3, <3>4, <3>5
  <2>2. CASE rows' = rows /\ disturbed' = disturbed \union {e}
    BY <2>2 DEF Stored
  <2> QED
    BY <1>1, <2>1, <2>2
<1>6. MemoryInv(e)'
  BY <1>1, <1>2, <1>5, MemoryKept DEF MemoryInv
<1>7. QueueInv(e)'
  BY <1>1, <1>2, <1>3 DEF QueueInv
<1>8. RowInv(e)'
  <2>1. CASE rows'[e] = rows[e]
    BY <1>3, <1>4, <2>1 DEF RowInv
  <2>2. CASE /\ rows'[e].entry = rows[e].entry /\ rows'[e].seal = seal[e]
             /\ rows'[e].edits = rows[e].edits
             /\ rows'[e] = [entry |-> rows'[e].entry, seal |-> rows'[e].seal,
                            edits |-> rows'[e].edits]
    <3>1. SealOf(rows[e].entry, seal[e])
      BY <1>2, <1>4 DEF SealOf, Fits
    <3> DEFINE x == Last(seal[e].cur).edits
               y == rows[e].edits
    <3>2. x \in Nat /\ y \in Nat /\ x <= edits[e] /\ edits[e] <= y /\ edits[e] \in Nat
      BY <1>2, <1>4, LastContent DEF RowInv, MemoryInv, StoreTypes, ChainTypes
    <3> HIDE DEF x, y
    <3>3. x <= y
      BY <3>2
    <3> QED
      BY <1>3, <1>4, <2>2, <3>1, <3>3 DEF RowInv, x, y
  <2> QED
    BY <1>5, <2>1, <2>2
<1>9. ASSUME Bound(e)'
      PROVE  Tied(e)'
  <2>1. rows'[e].entry = rows[e].entry /\ rows'[e].seal = seal[e]
    BY <1>5, <1>9 DEF Bound
  <2>2. Len(writes'[e]) = 0 /\ e \in Stored' /\ lineRows'[e] = DOMAIN lines'[e]
    BY <1>1, <1>3, <1>4, <1>5
  <2>3. Latest(e)'
    BY <1>3, <1>4, <2>1, <2>2 DEF Latest, Fits, SameSeal
  <2>4. LinesTied(e)'
    BY <2>2 DEF LinesTied
  <2>5. UpdatesFollow(e)' /\ HashesKept(e)'
    BY <2>2 DEF UpdatesFollow, HashesKept
  <2> QED
    BY <2>3, <2>4, <2>5 DEF Tied
<1>10. StoredInv(e)'
  BY <1>6, <1>7, <1>8, <1>9 DEF StoredInv
<1>11. ASSUME NEW d \in EntryIds \ {e}
       PROVE  Frame(d)
  BY <1>1, <1>5, Bystander
<1>12. PhaseInv'
  <2>1. toSeal' \subseteq Live' \ disturbed'
    BY <1>1, <1>2, <1>3 DEF PhaseInv, Live
  <2> QED
    BY <1>1, <1>2, <1>3, <2>1 DEF PhaseInv
<1> QED
  BY <1>1, <1>2, <1>5, <1>10, <1>11, <1>12, OthersKeep DEF StoreTypes

LEMMA DatabaseKeeps ==
  ASSUME StoreInv, Database
  PROVE  StoreInv'
BY InsertKeeps, FailureKeeps, InsertLineKeeps, UpdateKeeps, EditKeeps, SealRowKeeps DEF Database

-----------------------------------------------------------------------------
(* The start of the process                                                  *)
NothingPosted ==
    /\ history = [e \in EntryIds |-> 0]
    /\ balance = [a \in Accounts |-> 0]

LEMMA NothingToExplain == TypeOK /\ NothingPosted => BalancesMatchHistory
<1> SUFFICES ASSUME TypeOK, NothingPosted, NEW a \in Accounts
             PROVE  balance[a] = Sense(a) * SumOver(Explained(a), EntryIds)
  BY BalancesAreSums
<1>1. \A e \in EntryIds : Explained(a)[e] = 0
  BY ExplainedType DEF NothingPosted
<1>2. SumOver(Explained(a), EntryIds) = 0
  <2>1. IsFiniteSet(EntryIds)
    BY FS_Interval, BoundsAssumption DEF EntryIds
  <2> QED
    BY <1>1, <2>1, SumZero
<1> QED
  BY <1>2 DEF NothingPosted, Sense

LEMMA RestartKeeps ==
  ASSUME StoreInv, Restart
  PROVE  StoreInv'
<1>1. /\ phase' = "loaded" /\ toSeal' = {} /\ disturbed' = {}
      /\ rows' = rows /\ lineRows' = lineRows /\ Stored' = Stored
      /\ writes' = [e \in EntryIds |-> << >>]
      /\ seal' = [e \in EntryIds |-> IF e \in Stored THEN rows[e].seal ELSE Unsealed]
      /\ edits' = [e \in EntryIds |-> IF e \in Stored THEN rows[e].edits ELSE 0]
      /\ history' = [e \in EntryIds |-> 0] /\ balance' = [a \in Accounts |-> 0]
      /\ today' = today
  BY DEF Restart, BalancesLoaded, Stored
<1>2. /\ StoreTypes /\ TypeOK /\ Stored \subseteq EntryIds
      /\ DOMAIN writes = EntryIds /\ DOMAIN lineRows = EntryIds
  BY DEF StoreInv, StoreTypes, ChainTypes
<1>3. ASSUME NEW e \in EntryIds
      PROVE  /\ MemoryInv(e) /\ QueueInv(e) /\ (e \in Stored => RowInv(e))
             /\ lineRows[e] \subseteq DOMAIN lines[e]
  BY DEF StoreInv, StoredInv, QueueInv
<1>4. ASSUME NEW e \in EntryIds, e \in Stored
      PROVE  /\ journal'[e] = Loaded(rows[e].entry) /\ journal'[e] \in Entry
             /\ journal'[e].status = rows[e].entry.status
             /\ journal'[e].approvedBy = rows[e].entry.approvedBy
             /\ journal'[e].postedBy = Nobody
             /\ journal'[e].status \notin {"ABSENT", "DELETED"}
  <2>1. journal'[e] = Loaded(rows[e].entry)
    BY <1>4 DEF Restart
  <2>2. rows[e].entry \in Entry /\ rows[e].entry.status \notin {"ABSENT", "DELETED"}
    BY <1>3, <1>4 DEF RowInv, Writable
  <2> DEFINE entry == rows[e].entry
  <2> HIDE DEF entry
  <2>3. /\ Loaded(entry) \in Entry /\ Loaded(entry).status = entry.status
        /\ Loaded(entry).approvedBy = entry.approvedBy /\ Loaded(entry).postedBy = Nobody
    <3>1. entry \in Entry
      BY <2>2 DEF entry
    <3> QED
      BY <3>1 DEF Loaded, Entry
  <2> QED
    BY <2>1, <2>2, <2>3 DEF entry
<1>5. ASSUME NEW e \in EntryIds, e \notin Stored
      PROVE  /\ journal'[e] \in Entry /\ journal'[e].postedBy = Nobody
             /\ journal'[e].status \in {"ABSENT", "DELETED"}
             /\ journal'[e].status = "ABSENT" => journal[e].status = "ABSENT"
  <2>1. journal'[e] = IF journal[e].status = "ABSENT" THEN Blank
                      ELSE [Blank EXCEPT !.status = "DELETED"]
    BY <1>5 DEF Restart
  <2>2. Blank \in Entry /\ Blank.status = "ABSENT" /\ Blank.postedBy = Nobody
    BY BoundsAssumption DEF Blank, Entry, EntryTypes, Statuses, Months
  <2>3. /\ [Blank EXCEPT !.status = "DELETED"] \in Entry
        /\ [Blank EXCEPT !.status = "DELETED"].status = "DELETED"
        /\ [Blank EXCEPT !.status = "DELETED"].postedBy = Nobody
    BY <2>2 DEF Entry, Statuses
  <2> QED
    BY <2>1, <2>2, <2>3
<1>6. ASSUME NEW e \in EntryIds
      PROVE  /\ e \in Stored => DOMAIN lines'[e] = lineRows[e]
             /\ DOMAIN lines'[e] \subseteq Accounts
             /\ lines'[e] \in [DOMAIN lines'[e] -> RecordedLine]
  <2>1. lines'[e] = IF e \in Stored THEN [a \in lineRows[e] |-> lines[e][a]] ELSE lines[e]
    BY DEF Restart, Restrict
  <2>2. DOMAIN lines[e] \subseteq Accounts /\ lines[e] \in [DOMAIN lines[e] -> RecordedLine]
    BY <1>2 DEF TypeOK
  <2> QED
    BY <1>3, <2>1, <2>2
<1>7. TypeOK'
  <2>1. journal' \in [EntryIds -> Entry]
    <3>1. DOMAIN journal' = EntryIds /\ journal' = [e \in EntryIds |-> journal'[e]]
      BY DEF Restart
    <3> QED
      BY <1>4, <1>5, <3>1
  <2>2. DOMAIN lines' = EntryIds
    BY DEF Restart
  <2>3. /\ periods' \in [Months -> PeriodStatuses \union {"NONE"}]
        /\ parties' \subseteq PartyIds /\ alias' \in [Names -> PartyRefs]
        /\ DOMAIN partyBalance' = PartyIds
    BY DEF Restart, PeriodStatuses, PartyRefs
  <2>4. balance' \in [Accounts -> Int] /\ history' \in [EntryIds -> Nat] /\ today' \in Months
    BY <1>1, <1>2 DEF TypeOK
  <2> QED
    BY <1>6, <2>1, <2>2, <2>3, <2>4 DEF TypeOK
<1>8. StoreTypes'
  <2>1. edits' \in [EntryIds -> Nat]
    BY <1>1, <1>3 DEF RowInv
  <2> QED
    BY <1>1, <1>2, <1>7, <2>1 DEF StoreTypes, ChainTypes
<1>9. BalancesMatchHistory'
  <2>1. NothingPosted'
    BY <1>1 DEF NothingPosted
  <2> QED
    BY <1>7, <2>1, NothingToExplain, PTL
<1>10. ASSUME NEW e \in EntryIds
       PROVE  StoredInv(e)'
  <2>1. /\ writes'[e] = << >> /\ history'[e] = 0
        /\ seal'[e] = IF e \in Stored THEN rows[e].seal ELSE Unsealed
        /\ edits'[e] = IF e \in Stored THEN rows[e].edits ELSE 0
    BY <1>1
  <2>2. QueueInv(e)'
    <3>1. lineRows'[e] \subseteq DOMAIN lines'[e]
      <4>1. CASE e \in Stored
        BY <1>1, <1>6, <4>1
      <4>2. CASE e \notin Stored
        <5>1. lines'[e] = lines[e]
          BY <4>2 DEF Restart
        <5> QED
          BY <1>1, <1>3, <5>1
      <4> QED
        BY <4>1, <4>2
    <3> QED
      BY <2>1, <3>1, NoCalls DEF QueueInv
  <2>3. CASE e \in Stored
    <3>1. RowInv(e)
      BY <1>3, <2>3
    <3>2. RowInv(e)'
      BY <1>1, <2>1, <2>3, <3>1 DEF RowInv
    <3>3. MemoryInv(e)'
      <4>1. /\ rows[e].seal.cur \in Seq(Contents) /\ rows[e].seal.cur # << >>
            /\ Level(Last(rows[e].seal.cur).status) <= Level(rows[e].entry.status)
        BY <3>1, SealOfFacts DEF RowInv
      <4>2. e \in Live'
        BY <1>4, <2>3 DEF Live
      <4>3. Level(Last(seal'[e].cur).status) <= Level(journal'[e].status)
        BY <1>4, <2>1, <2>3, <4>1
      <4> QED
        BY <1>1, <1>4, <2>1, <2>3, <3>1, <4>1, <4>2, <4>3 DEF MemoryInv, RowInv
    <3>4. Tied(e)'
      <4>1. Len(writes'[e]) = 0
        BY <2>1, NoCalls
      <4>2. Latest(e)'
        BY <1>1, <1>4, <2>1, <2>3, <4>1 DEF Latest, Fits, SameSeal
      <4>3. LinesTied(e)'
        BY <1>1, <1>6, <2>3, <4>1 DEF LinesTied
      <4> QED
        BY <4>1, <4>2, <4>3 DEF Tied, UpdatesFollow, HashesKept
    <3> QED
      BY <2>2, <3>2, <3>3, <3>4 DEF StoredInv
  <2>4. CASE e \notin Stored
    <3>1. e \notin Live' /\ e \notin Stored'
      BY <1>1, <1>5, <2>4 DEF Live
    <3>2. MemoryInv(e)'
      <4>1. seal'[e].cur = NoHash /\ 0 <= Level(journal'[e].status)
        BY <2>1, <2>4, NoSeal, LevelType
      <4>2. journal[e].status = "ABSENT" => lineRows[e] = {}
        BY <1>3 DEF MemoryInv
      <4> QED
        BY <1>1, <1>5, <2>1, <2>4, <3>1, <4>1, <4>2, NoSeal DEF MemoryInv
    <3> QED
      BY <2>1, <2>2, <3>1, <3>2 DEF StoredInv, Bound
  <2> QED
    BY <2>3, <2>4
<1>11. PhaseInv'
  BY <1>1 DEF PhaseInv
<1> QED
  BY <1>8, <1>9, <1>10, <1>11 DEF StoreInv, EntryIds

LEMMA SealKeeps ==
  ASSUME StoreInv, SealPersistedJournalChain
  PROVE  /\ StoreInv'
         /\ toSeal' # {} => \E e \in Stored : rows[e].seal.cur = NoHash
<1>1. /\ phase = "loaded" /\ phase' = "sealing" /\ UNCHANGED <<vars, edits>>
      /\ rows' = rows /\ lineRows' = lineRows /\ writes' = writes /\ disturbed' = disturbed
      /\ seal' = IF MustSeal THEN Resealed ELSE seal
      /\ toSeal' = {e \in Live : seal'[e].cur # rows[e].seal.cur}
      /\ journal' = journal /\ lines' = lines /\ history' = history /\ Stored' = Stored
      /\ edits' = edits
  BY DEF SealPersistedJournalChain, vars, Stored
<1>2. /\ StoreTypes /\ ChainTypes /\ PhaseInv /\ toSeal = {} /\ disturbed = {}
      /\ \A e \in EntryIds : writes[e] = << >>
      /\ \A e \in EntryIds : StoredInv(e) /\ MemoryInv(e) /\ QueueInv(e) /\ edits[e] \in Nat
  BY <1>1 DEF StoreInv, StoreTypes, ChainTypes, PhaseInv, StoredInv
<1>3. ASSUME NEW e \in Live
      PROVE  /\ e \in EntryIds /\ Tied(e) /\ e \in Stored /\ RowInv(e) /\ Fits(e, rows[e].entry)
             /\ SameSeal(e, rows[e].seal) /\ Len(writes[e]) = 0 /\ lineRows[e] = DOMAIN lines[e]
  <2>1. e \in EntryIds /\ Tied(e) /\ Len(writes[e]) = 0
    BY <1>2, NoCalls DEF StoredInv, Bound, Live
  <2> QED
    BY <1>2, <2>1 DEF Tied, Latest, LinesTied, StoredInv
<1>4. ASSUME MustSeal, NEW e \in Live
      PROVE  /\ SealOf(journal[e], seal'[e]) /\ Last(seal'[e].cur) = Content(e)
             /\ seal'[e].cur \in Seq(Contents) /\ seal'[e].cur # << >>
             /\ seal'[e].prev = Front(seal'[e].cur)
  <2>1. /\ seal'[e].prev \in Seq(Contents)
        /\ seal'[e].cur = Hash(Content(e), seal'[e].prev)
    BY <1>1, <1>2, <1>4, ResealedEntry
  <2>2. Content(e) \in Contents /\ Content(e).status = journal[e].status
    BY <1>2, <1>3, ContentType
  <2> QED
    BY <2>1, <2>2, NewSeal, FrontOfHash
<1>5. ASSUME NEW e \in EntryIds
      PROVE  /\ e \notin Live => seal'[e] = seal[e]
             /\ ~MustSeal => seal'[e] = seal[e]
  BY <1>1, <1>2, <1>5, ResealedEntry
<1>6. ~MustSeal => toSeal' = {}
  <2>1. ASSUME ~MustSeal, NEW e \in Live
        PROVE  seal'[e].cur = rows[e].seal.cur
    BY <1>3, <1>5, <2>1 DEF SameSeal
  <2> QED
    BY <1>1, <2>1
<1>7. Live' = Live
  BY <1>1 DEF Live
<1>8. ASSUME NEW e \in EntryIds
      PROVE  MemoryInv(e)'
  <2>1. CASE seal'[e] = seal[e]
    BY <1>1, <1>2, <1>7, <2>1 DEF MemoryInv
  <2>2. CASE e \in Live /\ MustSeal
    <3>1. /\ seal'[e].cur \in Seq(Contents) /\ seal'[e].cur # << >>
          /\ Last(seal'[e].cur) = Content(e)
      BY <1>4, <2>2
    <3>2. Content(e).status = journal[e].status /\ Content(e).edits = edits[e]
      BY <1>2, ContentType
    <3>3. Level(journal[e].status) <= Level(journal[e].status) /\ edits[e] <= edits[e]
      BY <1>2, LevelType
    <3> QED
      BY <1>1, <1>2, <1>7, <2>2, <3>1, <3>2, <3>3 DEF MemoryInv
  <2> QED
    BY <1>5, <2>1, <2>2
<1>9. ASSUME NEW e \in EntryIds
      PROVE  QueueInv(e)' /\ (e \in Stored' => RowInv(e)')
  BY <1>1, <1>2 DEF QueueInv, RowInv, StoredInv
<1>10. ASSUME NEW e \in Live
       PROVE  Tied(e)'
  <2>1. Len(writes'[e]) = 0 /\ e \in Stored' /\ lineRows'[e] = DOMAIN lines'[e]
    BY <1>1, <1>3
  <2>2. ASSUME e \notin toSeal'
        PROVE  seal'[e].cur = rows[e].seal.cur /\ seal'[e].prev = rows[e].seal.prev
    <3>1. seal'[e].cur = rows[e].seal.cur
      BY <1>1, <2>2
    <3>2. CASE ~MustSeal
      BY <1>3, <1>5, <3>2 DEF SameSeal
    <3>3. CASE MustSeal
      <4>1. /\ Last(rows[e].seal.cur) = Content(e)
            /\ seal'[e].prev = Front(rows[e].seal.cur)
        BY <1>4, <3>1, <3>3
      <4>2. Content(e).status = rows[e].entry.status
        BY <1>2, <1>3, ContentType DEF Fits
      <4>3. ~(Level(Last(rows[e].seal.cur).status) < Level(rows[e].entry.status))
        BY <4>1, <4>2, LevelType
      <4>4. rows[e].seal.prev = Front(rows[e].seal.cur)
        BY <1>3, <4>3 DEF RowInv, SealOf
      <4> QED
        BY <3>1, <4>1, <4>4
    <3> QED
      BY <3>2, <3>3
  <2>3. Latest(e)'
    BY <1>1, <1>3, <2>1, <2>2 DEF Latest, Fits, SameSeal
  <2>4. LinesTied(e)'
    BY <2>1 DEF LinesTied
  <2>5. UpdatesFollow(e)' /\ HashesKept(e)'
    BY <2>1 DEF UpdatesFollow, HashesKept
  <2> QED
    BY <2>3, <2>4, <2>5 DEF Tied
<1>11. \A e \in EntryIds : StoredInv(e)'
  <2>1. ASSUME NEW e \in EntryIds, Bound(e)'
        PROVE  e \in Live
    BY <1>1, <1>2, <1>7, <2>1 DEF Bound
  <2> QED
    BY <1>8, <1>9, <1>10, <2>1 DEF StoredInv
<1>12. StoreTypes'
  <2>1. TypeOK'
    BY <1>1, <1>2, TypeStep DEF ChainTypes
  <2>2. DOMAIN seal' = EntryIds
    BY <1>1, <1>2, ResealedEntry DEF ChainTypes
  <2> QED
    BY <1>1, <1>2, <2>1, <2>2 DEF StoreTypes, ChainTypes
<1>13. PhaseInv'
  <2>1. \A e \in toSeal' : e \in Live /\ SealOf(journal'[e], seal'[e])
    BY <1>1, <1>4, <1>6
  <2> QED
    BY <1>1, <1>2, <1>7, <2>1 DEF PhaseInv
<1>14. BalancesMatchHistory'
  BY <1>1 DEF StoreInv, BalancesMatchHistory, LineNet, Sense, EntryIds, vars
<1>15. ASSUME toSeal' # {}
       PROVE  \E e \in Stored : rows[e].seal.cur = NoHash
  <2>1. PICK e \in Live : seal[e].cur = NoHash
    BY <1>6, <1>15 DEF MustSeal
  <2> QED
    BY <1>3, <2>1 DEF SameSeal
<1> QED
  BY <1>11, <1>12, <1>13, <1>14, <1>15 DEF StoreInv, EntryIds

LEMMA ServeKeeps ==
  ASSUME StoreInv, Serve
  PROVE  StoreInv'
<1>1. /\ UNCHANGED memory /\ rows' = rows /\ lineRows' = lineRows /\ writes' = writes
      /\ toSeal' = toSeal /\ toSeal = {} /\ disturbed' = disturbed /\ phase' = "up"
      /\ Stored' = Stored
  BY DEF Serve, Stored
<1>2. PhaseInv'
  BY <1>1 DEF PhaseInv
<1>3. \A d \in EntryIds : StoredInv(d)'
  <2>1. ASSUME NEW d \in EntryIds
        PROVE  Frame(d)
    BY <1>1, Bystander
  <2> QED
    BY <2>1, FrameKeeps DEF StoreInv
<1>4. BalancesMatchHistory'
  BY <1>1 DEF StoreInv, BalancesMatchHistory, LineNet, Sense, EntryIds, memory, vars
<1>5. StoreTypes'
  BY <1>1 DEF StoreInv, StoreTypes, ChainTypes, TypeOK, memory, vars, chainVars
<1> QED
  BY <1>2, <1>3, <1>4, <1>5 DEF StoreInv, EntryIds

LEMMA StutterKeeps ==
  ASSUME StoreInv, UNCHANGED <<memory, storeVars>>
  PROVE  StoreInv'
<1>1. /\ UNCHANGED memory /\ rows' = rows /\ lineRows' = lineRows /\ writes' = writes
      /\ toSeal' = toSeal /\ disturbed' = disturbed /\ phase' = phase /\ Stored' = Stored
  BY DEF storeVars, Stored
<1>2. PhaseInv'
  BY <1>1 DEF StoreInv, PhaseInv, Live, memory, vars, chainVars
<1>3. \A d \in EntryIds : StoredInv(d)'
  <2>1. ASSUME NEW d \in EntryIds
        PROVE  Frame(d)
    BY <1>1, Bystander
  <2> QED
    BY <2>1, FrameKeeps DEF StoreInv
<1>4. BalancesMatchHistory'
  BY <1>1 DEF StoreInv, BalancesMatchHistory, LineNet, Sense, EntryIds, memory, vars
<1>5. StoreTypes'
  BY <1>1 DEF StoreInv, StoreTypes, ChainTypes, TypeOK, memory, vars, chainVars
<1> QED
  BY <1>2, <1>3, <1>4, <1>5 DEF StoreInv, EntryIds

LEMMA StoreStarts == StoreInit => StoreInv
<1> SUFFICES ASSUME StoreInit PROVE StoreInv
  OBVIOUS
<1>1. /\ Init /\ seal = [e \in EntryIds |-> Unsealed] /\ edits = [e \in EntryIds |-> 0]
      /\ phase = "up" /\ rows = NoLines /\ lineRows = [e \in EntryIds |-> {}]
      /\ writes = [e \in EntryIds |-> << >>] /\ toSeal = {} /\ disturbed = {}
  BY DEF StoreInit, ChainInit
<1>2. Stored = {}
  BY <1>1 DEF Stored, NoLines
<1>3. TypeOK /\ BalancesMatchHistory
  BY <1>1, InitType, InitBalances
<1>4. StoreTypes
  BY <1>1, <1>2, <1>3 DEF StoreTypes, ChainTypes
<1>5. PhaseInv
  BY <1>1 DEF PhaseInv
<1>6. ASSUME NEW e \in EntryIds
      PROVE  StoredInv(e)
  <2>1. /\ journal[e].status = "ABSENT" /\ journal[e].postedBy = Nobody /\ history[e] = 0
        /\ lines[e] = NoLines
    BY <1>1 DEF Init, Blank
  <2>2. e \notin Live /\ seal[e] = Unsealed /\ edits[e] = 0 /\ writes[e] = << >>
        /\ lineRows[e] = {} /\ e \notin Stored
    BY <1>1, <1>2, <2>1 DEF Live
  <2>3. MemoryInv(e)
    BY <2>1, <2>2, NoSeal, LevelType DEF MemoryInv
  <2>4. QueueInv(e)
    BY <2>2, NoCalls DEF QueueInv
  <2> QED
    BY <2>2, <2>3, <2>4 DEF StoredInv, Bound
<1> QED
  BY <1>3, <1>4, <1>5, <1>6 DEF StoreInv

(* Of every reachable state of the store, restarts, failed and overtaking    *)
(* calls included, StoreInv: an entry that nothing disturbed is tied to its  *)
(* row by the calls still at work for it (PostgresStorageManager,            *)
(* initialize, sealPersistedJournalChain).                                   *)
THEOREM StoreIsTied == StoreSpec => []StoreInv
<1>1. StoreInv /\ [StoreNext]_<<memory, storeVars>> => StoreInv'
  BY RequestsKeepInv, DatabaseKeeps, RestartKeeps, SealKeeps, ServeKeeps, StutterKeeps
     DEF StoreNext
<1> QED
  BY StoreStarts, <1>1, PTL DEF StoreSpec

(* When no call is at work for it, the row of a live entry that nothing      *)
(* disturbed agrees with the memory in status, approval, hash, link and      *)
(* lines (persistJournalEntry, updateJournalEntryStatus, initialize).        *)
THEOREM RowsFollow == StoreSpec => []RowsFollowMemory
<1>1. StoreInv => RowsFollowMemory
  <2> SUFFICES ASSUME StoreInv, phase = "up", NEW e \in Live, writes[e] = << >>, e \notin disturbed
               PROVE  Agrees(e)
    BY DEF RowsFollowMemory
  <2>1. Tied(e) /\ Len(writes[e]) = 0 /\ toSeal = {}
    BY NoCalls DEF StoreInv, StoredInv, PhaseInv, Bound, Live
  <2> QED
    BY <2>1 DEF Tied, Latest, LinesTied, Fits, SameSeal, Agrees
<1> QED
  BY <1>1, StoreIsTied, PTL

(* After a start the balances are explained by the postings since then, and  *)
(* lack exactly the posted entries that forgot who posted them (initialize,  *)
(* postJournalEntry).                                                        *)
THEOREM BalancesAreThoseSinceStart == StoreSpec => []BalancesSinceStart
<1>1. StoreInv => BalancesSinceStart
  BY DEF StoreInv, StoredInv, MemoryInv, BalancesSinceStart, Live
<1> QED
  BY <1>1, StoreIsTied, PTL

(* The hash of an edited entry: what a step of the database does to it.      *)
EvidenceKept ==
    \A e \in Evidence \ Evidence' :
        \/ phase = "sealing"
        \/ e \in disturbed'
        \/ rows'[e].entry.status = "POSTED" /\ rows'[e].seal # rows[e].seal

LEMMA SameRows ==
  ASSUME NEW e, \A d \in Stored \ {e} : rows'[d] = rows[d], Stored \subseteq Stored',
         e \in Evidence \ Evidence' =>
           \/ phase = "sealing"
           \/ e \in disturbed'
           \/ rows'[e].entry.status = "POSTED" /\ rows'[e].seal # rows[e].seal
  PROVE  EvidenceKept
BY DEF EvidenceKept, Evidence

LEMMA UpdateKeepsEvidence ==
  ASSUME StoreInv, NEW e \in EntryIds, NEW i \in DOMAIN writes[e], UpdateEntry(e, i)
  PROVE  EvidenceKept
<1> DEFINE w == writes[e]
           call == w[i]
<1>1. /\ w[i].kind = "update"
      /\ disturbed' = disturbed \union (IF Overtakes(e, i) THEN {e} ELSE {})
      /\ rows' = IF e \in Stored
                 THEN [rows EXCEPT ![e].entry.status = call.entry.status,
                                   ![e].entry.approvedBy = call.entry.approvedBy,
                                   ![e].seal = call.seal]
                 ELSE rows
  BY DEF UpdateEntry
<1>2. Stored' = Stored /\ \A d \in Stored \ {e} : rows'[d] = rows[d]
  BY <1>1 DEF Stored
<1>3. ASSUME e \in Stored
      PROVE  /\ rows'[e].seal = call.seal /\ rows'[e].edits = rows[e].edits
             /\ rows'[e].entry.status = call.entry.status
  <2>1. RowInv(e) /\ rows[e].entry \in Entry
    <3>1. StoredInv(e)
      BY DEF StoreInv
    <3>2. RowInv(e)
      BY <1>3, <3>1 DEF StoredInv
    <3> QED
      BY ONLY <3>2 DEF RowInv, Writable
  <2> HIDE DEF call
  <2>2. /\ rows'[e].seal = call.seal /\ rows'[e].edits = rows[e].edits
        /\ rows'[e].entry = [rows[e].entry EXCEPT !.status = call.entry.status,
                                                 !.approvedBy = call.entry.approvedBy]
    BY <1>1, <1>3, <2>1, UpdatedRow
  <2> QED
    BY <2>1, <2>2 DEF Entry
<1>4. ASSUME e \in Evidence \ Evidence', e \notin disturbed'
      PROVE  rows'[e].entry.status = "POSTED" /\ rows'[e].seal # rows[e].seal
  <2>1. e \in Stored /\ rows'[e].seal.cur # rows[e].seal.cur
    BY <1>2, <1>3, <1>4 DEF Evidence
  <2>2. ~Overtakes(e, i) /\ e \notin disturbed
    BY <1>1, <1>4
  <2>3. /\ Tied(e) /\ i \in 1..Len(w) /\ Len(w) \in Nat
    BY <2>2, AtWork
  <2>4. i = 1 \/ w[i - 1].kind = "lines"
    <3>1. i # 1 => i - 1 \in 1..(i - 1)
      BY <2>3
    <3> QED
      BY <2>2, <3>1 DEF Overtakes
  <2>5. call.entry.status # "POSTED" => call.seal.cur = rows[e].seal.cur
    BY <1>1, <2>3, <2>4 DEF Tied, HashesKept, Earlier
  <2> QED
    BY <1>3, <2>1, <2>5
<1> QED
  BY <1>2, <1>4, SameRows

LEMMA EditKeepsEvidence ==
  ASSUME StoreInv, NEW e \in EntryIds, EditRow(e)
  PROVE  EvidenceKept
<1>1. /\ e \in Stored /\ RowInv(e)
      /\ rows' = [rows EXCEPT ![e].edits = @ + 1]
  BY DEF EditRow, StoreInv, StoredInv
<1>2. Stored' = Stored /\ \A d \in Stored \ {e} : rows'[d] = rows[d]
  BY <1>1 DEF Stored
<1>3. rows'[e].seal = rows[e].seal /\ rows'[e].edits = rows[e].edits + 1
  BY <1>1, EditedRow
<1>4. e \in Evidence => e \in Evidence'
  <2> DEFINE x == Last(rows[e].seal.cur).edits
             y == rows[e].edits
  <2>1. x \in Nat /\ y \in Nat /\ x <= y
    BY <1>1, LastContent DEF RowInv, SealOf
  <2> HIDE DEF x, y
  <2>2. x # y + 1
    BY <2>1
  <2> QED
    BY <1>2, <1>3, <2>2 DEF Evidence, x, y
<1> QED
  BY <1>2, <1>4, SameRows

LEMMA DatabaseKeepsEvidence ==
  ASSUME StoreInv, Database
  PROVE  EvidenceKept /\ (phase = "loaded" => toSeal' = {})
<1>1. ASSUME NEW e \in EntryIds, NEW i \in DOMAIN writes[e],
             InsertEntry(e, i) \/ InsertIgnored(e, i) \/ InsertLine(e, i)
             \/ UpdateEntry(e, i) \/ WriteFails(e, i)
      PROVE  EvidenceKept /\ phase = "up"
  <2>1. phase = "up"
    BY AtWork
  <2>2. CASE InsertEntry(e, i)
    <3>1. Stored \subseteq Stored' /\ \A d \in Stored : rows'[d] = rows[d]
      BY <2>2 DEF InsertEntry, Inserted, Stored
    <3> QED
      BY <2>1, <3>1 DEF EvidenceKept, Evidence
  <2>3. CASE rows' = rows
    BY <2>1, <2>3 DEF EvidenceKept, Evidence, Stored
  <2>4. CASE UpdateEntry(e, i)
    BY <2>1, <2>4, UpdateKeepsEvidence
  <2> QED
    BY <1>1, <2>2, <2>3, <2>4 DEF InsertIgnored, InsertLine, WriteFails
<1>2. ASSUME NEW e \in EntryIds, EditRow(e)
      PROVE  EvidenceKept /\ (phase = "loaded" => toSeal' = {})
  BY <1>2, EditKeepsEvidence DEF EditRow, StoreInv, PhaseInv
<1>3. ASSUME NEW e \in EntryIds, SealRow(e)
      PROVE  EvidenceKept /\ phase = "sealing"
  BY <1>3 DEF SealRow, EvidenceKept
<1> QED
  BY <1>1, <1>2, <1>3 DEF Database

(* A hash that shows a stored entry was edited outside the program goes only *)
(* by a later posting, an update out of order, or a start that seals anew    *)
(* because a stored entry has no hash (updateJournalEntryStatus,             *)
(* sealPersistedJournalChain).                                               *)
THEOREM EvidenceIsKept == StoreSpec => EvidenceStays
<1>1. ASSUME StoreInv, StoreNext
      PROVE  /\ EvidenceKept
             /\ phase = "loaded" /\ toSeal' # {} => \E e \in Stored : rows[e].seal.cur = NoHash
  <2>1. ASSUME rows' = rows
        PROVE  EvidenceKept
    BY <2>1 DEF EvidenceKept, Evidence, Stored
  <2>2. CASE Operation
    BY <1>1, <2>1, <2>2, Requested DEF RequestStep, InRequest
  <2>3. CASE Database
    BY <1>1, <2>3, DatabaseKeepsEvidence
  <2>4. CASE Restart \/ Serve
    BY <2>1, <2>4 DEF Restart, Serve
  <2>5. CASE SealPersistedJournalChain
    BY <1>1, <2>1, <2>5, SealKeeps DEF SealPersistedJournalChain
  <2> QED
    BY <1>1, <2>2, <2>3, <2>4, <2>5 DEF StoreNext
<1>2. ASSUME StoreInv, [StoreNext]_<<memory, storeVars>>
      PROVE  [/\ \A e \in Evidence \ Evidence' :
                   \/ phase = "sealing"
                   \/ e \in disturbed'
                   \/ rows'[e].entry.status = "POSTED" /\ rows'[e].seal # rows[e].seal
              /\ phase = "loaded" /\ toSeal' # {} =>
                   \E e \in Stored : rows[e].seal.cur = NoHash]_<<memory, storeVars>>
  BY <1>1, <1>2 DEF EvidenceKept
<1> QED
  BY <1>2, StoreIsTied, PTL DEF StoreSpec, EvidenceStays
===============================================================================
