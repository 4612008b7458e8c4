-------------------------- MODULE DeviceMappingProofs --------------------------
(***************************************************************************)
(* What the device maps of guest memory, for any reservations and however  *)
(* the guest's calls fall into a sync.                                     *)
(*                                                                         *)
(* A dispatch runs over a table that names exactly what is imported, as    *)
(* long as a table that is to be built again is built or lost (Spec, not   *)
(* SpecRefusing).  Where no two reservations lie side by side, the runs    *)
(* are tiled by what is imported and what is left out, and no page that    *)
(* became writable is overlooked, whether a table is refused or not.       *)
(*                                                                         *)
(* The pages of a range are a set, and its pieces the stretches of that    *)
(* set: most of the argument is about stretches, and is not about time.    *)
(***************************************************************************)
EXTENDS DeviceMapping, WellFoundedInduction, TLAPS

-----------------------------------------------------------------------------
(* Stretches *)

\* The pages from one to the other, whichever is first.
Between(p, q) == (p..q) \cup (q..p)

\* Two pages that are one, or side by side.
Near(p, q) == p = q \/ p + 1 = q \/ q + 1 = p

\* Two ranges with a page between them, a range without holes, and a family of such
\* ranges: what the pieces of a set are, and what they have to stay.
Separate(s, t) == \A p \in s, q \in t : ~Near(p, q)
Whole(s) == s # {} /\ \A p, q \in s : Between(p, q) \subseteq s
Strewn(F) ==
  /\ \A s \in F : Whole(s)
  /\ \A s, t \in F : s # t => Separate(s, t)

\* A set of pages has a first one.
LEMMA LeastPage ==
  ASSUME NEW S \in SUBSET Nat, S # {}
  PROVE  \E p \in S : \A q \in S : p <= q
<1>1. PICK p \in S : \A q \in S : ~(<<q, p>> \in OpToRel(<, Nat))
  BY NatLessThanWellFounded, WFMin
<1>2. ASSUME NEW q \in S PROVE p <= q
  <2>1. <<q, p>> \in Nat \X Nat
    OBVIOUS
  <2>2. ~(q < p)
    BY <1>1, <2>1 DEF OpToRel
  <2> QED
    BY <2>2
<1> QED
  BY <1>2

\* What lies between two pages lies before or after any third; and nothing lies
\* between pages that are near.
LEMMA BetweenJoins ==
  ASSUME NEW p \in Nat, NEW q \in Nat, NEW r \in Nat
  PROVE  /\ Between(p, r) \subseteq Between(p, q) \cup Between(q, r)
         /\ Between(p, q) = Between(q, p)
         /\ Near(p, q) => Between(p, q) = {p, q}
BY DEF Between, Near

\* A stretch is the stretch of each of its pages.
LEMMA PieceOfAny ==
  ASSUME NEW S \in SUBSET Nat, NEW s \in Pieces(S), NEW p \in s
  PROVE  p \in S /\ s = {q \in S : Between(p, q) \subseteq S}
<1>1. PICK r \in S : s = {q \in S : Between(r, q) \subseteq S}
  BY DEF Pieces, Between
<1>2. p \in S /\ Between(r, p) \subseteq S
  BY <1>1
<1>3. ASSUME NEW q \in S
      PROVE  Between(r, q) \subseteq S <=> Between(p, q) \subseteq S
  <2>1. r \in Nat /\ p \in Nat /\ q \in Nat
    BY <1>2
  <2>2. Between(r, q) \subseteq Between(r, p) \cup Between(p, q)
    BY <2>1, BetweenJoins
  <2>3. Between(p, q) \subseteq Between(p, r) \cup Between(r, q) /\ Between(p, r) = Between(r, p)
    BY <2>1, BetweenJoins
  <2> QED
    BY <1>2, <2>2, <2>3
<1> QED
  BY <1>1, <1>2, <1>3

\* The stretches of a set of pages are all of it.
LEMMA PiecesCover ==
  ASSUME NEW S \in SUBSET Nat
  PROVE  UNION Pieces(S) = S
<1>1. ASSUME NEW p \in S PROVE \E s \in Pieces(S) : p \in s
  <2>1. Between(p, p) = {p}
    BY BetweenJoins DEF Near
  <2>2. p \in {q \in S : Between(p, q) \subseteq S}
    BY <2>1
  <2> QED
    BY <2>2 DEF Pieces, Between
<1>2. ASSUME NEW s \in Pieces(S) PROVE s \subseteq S
  BY PieceOfAny
<1> QED
  BY <1>1, <1>2

\* They have no holes, and a page between any two of them.
LEMMA PiecesStrewn ==
  ASSUME NEW S \in SUBSET Nat
  PROVE  Strewn(Pieces(S))
<1>1. ASSUME NEW s \in Pieces(S) PROVE Whole(s)
  <2>1. s # {}
    <3>1. PICK r \in S : s = {q \in S : Between(r, q) \subseteq S}
      BY DEF Pieces, Between
    <3>2. Between(r, r) = {r}
      BY BetweenJoins DEF Near
    <3> QED
      BY <3>1, <3>2
  <2>2. ASSUME NEW p \in s, NEW q \in s PROVE Between(p, q) \subseteq s
    <3>1. p \in S /\ q \in S /\ Between(p, q) \subseteq S
      BY PieceOfAny
    <3>2. \A x \in Between(p, q) : Between(p, x) \subseteq Between(p, q)
      BY <3>1 DEF Between
    <3>3. s = {x \in S : Between(p, x) \subseteq S}
      BY PieceOfAny
    <3> QED
      BY <3>1, <3>2, <3>3
  <2> QED
    BY <2>1, <2>2 DEF Whole
<1>2. ASSUME NEW s \in Pieces(S), NEW t \in Pieces(S), NEW p \in s, NEW q \in t, Near(p, q)
      PROVE  s = t
  <2>1. p \in S /\ q \in S
    BY PieceOfAny
  <2>2. Between(p, q) \subseteq S
    BY <1>2, <2>1, BetweenJoins
  <2>3. q \in s
    BY <2>1, <2>2, PieceOfAny
  <2>4. s = {x \in S : Between(q, x) \subseteq S}
    BY <2>3, PieceOfAny
  <2>5. t = {x \in S : Between(q, x) \subseteq S}
    BY PieceOfAny
  <2> QED
    BY <2>4, <2>5
<1> QED
  BY <1>1, <1>2 DEF Strewn, Separate

\* The stretches of ranges that are apart are those ranges.
LEMMA PiecesOfStrewn ==
  ASSUME NEW F \in SUBSET SUBSET Nat, Strewn(F), NEW s \in Pieces(UNION F)
  PROVE  s \in F
<1>1. UNION F \in SUBSET Nat
  OBVIOUS
<1>2. PICK p \in s : TRUE
  BY <1>1, PiecesStrewn DEF Strewn, Whole
<1>3. p \in UNION F /\ s = {q \in UNION F : Between(p, q) \subseteq UNION F}
  BY <1>1, PieceOfAny
<1>4. PICK f \in F : p \in f
  BY <1>3
<1>5. f \subseteq s
  BY <1>3, <1>4 DEF Strewn, Whole
<1>6. ASSUME NEW q \in s, q \notin f PROVE FALSE
  <2>1. p \in Nat /\ q \in Nat /\ Between(p, q) \subseteq UNION F
    BY <1>3, <1>6
  <2>2. CASE p <= q
    <3> DEFINE out == {x \in p..q : x \notin f}
    <3>1. out \in SUBSET Nat /\ out # {}
      BY <1>6, <2>1, <2>2
    <3>2. PICK x \in out : \A y \in out : x <= y
      BY <3>1, LeastPage
    <3>3. x \in Nat /\ x # p /\ p <= x /\ x <= q /\ x \notin f
      BY <1>4, <2>1, <3>2
    <3>4. x - 1 \in p..q /\ x - 1 < x
      BY <2>1, <3>3
    <3>5. x - 1 \in f
      BY <3>2, <3>3, <3>4
    <3>6. Near(x, x - 1)
      BY <3>3 DEF Near
    <3>7. PICK g \in F : x \in g
      BY <2>1, <3>2 DEF Between
    <3> QED
      BY <3>3, <3>5, <3>6, <3>7 DEF Strewn, Separate
  <2>3. CASE q <= p
    <3> DEFINE in == {x \in q..p : x..p \subseteq f}
    <3>0. p..p = {p}
      BY <2>1
    <3>1. in \in SUBSET Nat /\ p \in in
      BY <1>4, <2>1, <2>3, <3>0
    <3>2. PICK x \in in : \A y \in in : x <= y
      BY <3>1, LeastPage
    <3>3. x \in Nat /\ q <= x /\ x <= p /\ x..p \subseteq f /\ x \in f
      BY <2>1, <3>2
    <3>4. x # q
      BY <1>6, <3>3
    <3>5. x - 1 \in q..p /\ x - 1 < x /\ (x - 1)..p = {x - 1} \cup (x..p)
      BY <2>1, <3>3, <3>4
    <3>6. x - 1 \notin f
      BY <3>2, <3>3, <3>5
    <3>7. Near(x, x - 1)
      BY <3>3 DEF Near
    <3>8. PICK g \in F : x - 1 \in g
      BY <2>1, <3>5 DEF Between
    <3> QED
      BY <3>3, <3>6, <3>7, <3>8 DEF Strewn, Separate
  <2> QED
    BY <2>1, <2>2, <2>3
<1>7. s \subseteq f
  BY <1>6
<1>8. s = f
  BY <1>5, <1>7
<1> QED
  BY <1>8

-----------------------------------------------------------------------------
(* Types *)

\* The places of a sync, and what it carries through them.
Places ==
  {"idle", "runs", "take", "import", "left", "fill", "refill", "table", "dispatch"}
Work == [at : Places, seen : Int, due : Int, todo : SUBSET SUBSET Pages, remapped : BOOLEAN]

\* The types a step relies on.
Types ==
  /\ generation \in Nat /\ pagesGen \in Int
  /\ gen \in Int /\ pages \in Int
  /\ recorded \subseteq Reservations
  /\ left \subseteq SUBSET Pages
  /\ device \in Work

\* Pages are numbered from the bottom of guest memory.
LEMMA PagesAreNumbers == Pages \subseteq Nat
BY MappingAssumption DEF Pages

\* A piece is part of what it was cut from, and has a page.
LEMMA PieceIsPart ==
  ASSUME NEW S \in SUBSET Pages, NEW s \in Pieces(S)
  PROVE  s \subseteq S /\ s # {}
<1>1. S \in SUBSET Nat
  BY PagesAreNumbers
<1> QED
  BY <1>1, PiecesCover, PiecesStrewn DEF Strewn, Whole

\* So the pieces of pages are ranges of pages,
LEMMA PiecesArePages ==
  ASSUME NEW S \in SUBSET Pages
  PROVE  Pieces(S) \in SUBSET SUBSET Pages
BY PieceIsPart

\* and so are the runs a sync reads (mappings.rs, readable_runs).
LEMMA RunsArePages ==
  ASSUME NEW res \in SUBSET Reservations, NEW readables
  PROVE  ReadableRuns(res, readables) \in SUBSET SUBSET Pages
<1> SUFFICES ASSUME NEW run \in ReadableRuns(res, readables)
             PROVE  run \in SUBSET Pages
  OBVIOUS
<1>1. PICK r \in res : run \in Pieces(Span[r] \cap readables)
  BY DEF ReadableRuns
<1>2. Span[r] \cap readables \in SUBSET Pages
  BY DEF Pages
<1> QED
  BY <1>1, <1>2, PieceIsPart

\* A step of the device thread by itself changes its work and the mappings only; the
\* pages it commits move their generation.
LEMMA CommitTypes ==
  ASSUME Types, NEW S, Commit(S)
  PROVE  pagesGen' \in {pagesGen, pagesGen + 1} /\ pagesGen' \in Int
BY DEF Types, Commit

\* Committing a run or a window moves a sync to its import, and nothing else of its work.
LEMMA CommitPlace ==
  ASSUME Types, NEW run, Take(run) \/ Fill(run)
  PROVE  /\ Take(run) => device'.at = "import"
         /\ Fill(run) => device'.at = "refill"
         /\ device'.seen = device.seen /\ device'.due = device.due
         /\ device'.remapped = device.remapped
<1>1. PICK place, todo : /\ device' = [device EXCEPT !.at = place, !.todo = todo]
                         /\ (Take(run) => place = "import") /\ (Fill(run) => place = "refill")
  BY Zenon DEF Take, Fill
<1>2. device \in Work
  BY DEF Types
<1> QED
  BY <1>1, <1>2 DEF Work

\* A guest's call touches its own side, the generations and what it released.
LEMMA GuestTypes ==
  ASSUME Types, Guest
  PROVE  Types'
<1>1. device' = device
  BY DEF Guest, Release, Touch, Announce, Protected, Released, Free, Reserve, Protect
<1>2. left' \subseteq left /\ pages' = pages /\ gen' \in {gen, NoGeneration}
  BY DEF Guest, Release, Touch, Announce, Protected, Released, Free, Reserve, Protect, mapped
<1>3. generation' \in {generation, generation + 1, generation + 0}
  BY DEF Guest, Release, Touch, Announce, Protected, Released, Free, Reserve, Protect,
         Record, registry
<1>4. recorded' \subseteq recorded \cup Reservations
  BY DEF Guest, Release, Touch, Announce, Protected, Released, Free, Reserve, Protect,
         Record, registry
<1>5. pagesGen' \in {pagesGen, pagesGen + 1}
  BY DEF Guest, Release, Touch, Announce, Protected, Released, Free, Reserve, Protect
<1>6. /\ generation' \in Nat /\ gen' \in Int /\ pages' \in Int /\ pagesGen' \in Int
      /\ recorded' \subseteq Reservations
  BY <1>2, <1>3, <1>4, <1>5 DEF Types, NoGeneration
<1> QED
  BY <1>1, <1>2, <1>6 DEF Types

\* Sync reads the runs, or finds that it has them.
LEMMA RunsTypes == ASSUME Types, Runs PROVE Types'
<1>1. CASE gen = generation /\ table # NoTable
  BY <1>1 DEF Runs, Go, Types, Work, Places, registry
<1>2. CASE ~(gen = generation /\ table # NoTable)
  <2>1. ReadableRuns(recorded, readable) \in SUBSET SUBSET Pages
    BY RunsArePages DEF Types
  <2>2. PICK todo \in SUBSET SUBSET Pages :
          device' = [device EXCEPT !.at = "take", !.due = generation,
                                   !.todo = todo, !.remapped = TRUE]
    BY Zenon, <1>2, <2>1 DEF Runs
  <2>3. device.at \in Places /\ device.seen \in Int /\ generation \in Int
    BY DEF Types, Work
  <2>4. device' \in Work
    BY <2>2, <2>3 DEF Types, Work, Places
  <2> QED
    BY <1>2, <2>4 DEF Runs, Types, registry
<1> QED
  BY <1>1, <1>2

\* It commits a run, or a window it left out before.
LEMMA TakeTypes ==
  ASSUME Types, NEW run \in device.todo, Take(run) \/ Fill(run)
  PROVE  Types'
<1>1. ({run} \cup device.todo) \in SUBSET SUBSET Pages
  BY DEF Types, Work
<1>2. device' \in Work
  BY <1>1 DEF Take, Fill, Types, Work, Places
<1>3. pagesGen' \in Int
  BY CommitTypes DEF Take, Fill
<1> QED
  BY <1>2, <1>3 DEF Take, Fill, Types, registry, mapped

\* It imports what the driver takes of it and leaves out the rest.
LEMMA ImportTypes ==
  ASSUME Types, NEW run \in device.todo, NEW refused, Import(run, refused) \/ Refill(run, refused)
  PROVE  Types'
<1> DEFINE out == run \ UNION (Pieces({p \in run : host[p] = "rw"}) \ refused)
<1>0. (device.todo \ {run}) \in SUBSET SUBSET Pages
  BY DEF Types, Work
<1>1. device' \in Work
  <2>1. PICK place \in {"take", "fill"} :
          device' = [device EXCEPT !.at = place, !.todo = device.todo \ {run}]
    BY DEF Import, Refill
  <2> QED
    BY <1>0, <2>1 DEF Types, Work, Places
<1>2. out \in SUBSET Pages
  BY DEF Types, Work
<1>3. Pieces(out) \in SUBSET SUBSET Pages
  BY <1>2, PiecesArePages
<1>4. left' = left \/ left' = left \cup Pieces(out)
  BY DEF Import, Refill
<1> HIDE DEF out
<1> QED
  BY <1>1, <1>3, <1>4 DEF Import, Refill, Types, registry

\* It looks for windows among what was left out,
LEMMA LeftOutTypes == ASSUME Types, LeftOut PROVE Types'
<1> DEFINE open == UNION {s \in left : \E p \in s : host[p] \in Committed}
<1>1. open \in SUBSET Pages
  BY DEF Types
<1>2. Pieces(open) \in SUBSET SUBSET Pages
  BY <1>1, PiecesArePages
<1>3. device' \in Work
  <2>1. CASE Go("table")
    BY <2>1 DEF Go, Types, Work, Places
  <2>2. CASE device' = [device EXCEPT !.at = "fill", !.todo = Pieces(open)]
    <3>1. PICK todo \in SUBSET SUBSET Pages : device' = [device EXCEPT !.at = "fill", !.todo = todo]
      BY <1>2, <2>2
    <3> QED
      BY <3>1 DEF Types, Work, Places
  <2> QED
    BY <2>1, <2>2 DEF LeftOut
<1> QED
  BY <1>3 DEF LeftOut, Types, registry, mapped

\* and cuts those it could import out of it.
LEMMA FilledTypes == ASSUME Types, Filled PROVE Types'
<1>1. \A s \in left : Gaps(s, imports) \in SUBSET SUBSET Pages
  <2> TAKE s \in left
  <2>1. s \ UNION {i \in imports : StartsIn(i, s)} \in SUBSET Pages
    BY DEF Types
  <2> QED
    BY <2>1, PiecesArePages DEF Gaps
<1>2. left' \subseteq SUBSET Pages
  BY <1>1 DEF Filled
<1>3. PICK b \in BOOLEAN : device' = [device EXCEPT !.at = "table", !.remapped = b]
  <2>1. (device.remapped \/ \E s \in left : \E i \in imports : Meet(i, s)) \in BOOLEAN
    OBVIOUS
  <2> QED
    BY Zenon, <2>1 DEF Filled
<1>4. device' \in Work
  BY <1>3 DEF Types, Work, Places
<1> QED
  BY Zenon, <1>2, <1>4 DEF Filled, Types, Work, registry

\* The other steps of a sync move only its place, the table and the pages committed.
LEMMA OtherTypes ==
  ASSUME Types, Lock \/ Taken \/ Table \/ TableRefused \/ Dispatch
  PROVE  Types'
<1>1. NoWork \in Work
  BY DEF NoWork, Work, Places, NoGeneration
<1>2. ASSUME Lock PROVE device' \in Work
  <2>1. PICK b \in BOOLEAN :
          device' = [NoWork EXCEPT !.at = "runs", !.seen = pagesGen, !.remapped = b]
    BY <1>2 DEF Lock
  <2> QED
    BY <1>1, <2>1 DEF Types, Work, Places
<1>3. ASSUME Taken PROVE device' \in Work
  BY <1>3 DEF Taken, Go, Types, Work, Places
<1>4. ASSUME Table PROVE device' \in Work
  BY <1>1, <1>4 DEF Table, Go, Types, Work, Places
<1>5. ASSUME TableRefused \/ Dispatch PROVE device' \in Work
  BY <1>1, <1>5 DEF TableRefused, Dispatch
<1>6. device' \in Work
  BY <1>2, <1>3, <1>4, <1>5
<1>7. pagesGen' \in Int
  <2>1. CASE UNCHANGED pagesGen
    BY <2>1 DEF Types
  <2>2. CASE \E s \in left : Commit(s)
    BY <2>2, CommitTypes
  <2> QED
    BY <2>1, <2>2 DEF Lock, Taken, Table, TableRefused, Dispatch
<1> QED
  BY <1>6, <1>7 DEF Lock, Taken, Table, TableRefused, Dispatch, Types, Work, registry, mapped

\* The device and the guest begin with values of their types,
LEMMA TypesInit == Init => Types
BY DEF Init, Types, Work, NoWork, Places, NoGeneration

\* and every step keeps them, a refused table included.
LEMMA TypesHold == Types /\ [NextRefusing]_vars => Types'
<1> SUFFICES ASSUME Types, [NextRefusing]_vars PROVE Types'
  OBVIOUS
<1>1. CASE Sync
  BY <1>1, RunsTypes, TakeTypes, ImportTypes, LeftOutTypes, FilledTypes, OtherTypes DEF Sync
<1>2. CASE UNCHANGED vars
  BY <1>2 DEF vars, registry, mapped, Types
<1> QED
  BY <1>1, <1>2, GuestTypes, OtherTypes DEF Next, NextRefusing

-----------------------------------------------------------------------------
(* The table *)

\* The table an earlier dispatch left is that of the imports until something sends
\* the runs to be looked at again: there is none, or the generation is forgotten.
Kept == table = NoTable \/ gen = NoGeneration \/ table = imports

\* What a piece left out gained since is seen by Filled: it meets that piece.
Gained ==
  /\ table \subseteq imports
  /\ \A i \in imports \ table : Meet(i, UNION left)

\* Where the device thread is, and what it still knows of the table there.
TableInv ==
  /\ device.at \in {"idle", "runs"} => Kept
  /\ device.at = "runs" /\ ~device.remapped => table # NoTable
  /\ device.at \in {"take", "import"} => device.remapped
  /\ device.at \in {"left", "table"} /\ ~device.remapped => table = imports
  /\ device.at \in {"fill", "refill"} /\ ~device.remapped => Gained
  /\ device.at \in {"fill", "refill"} => \A w \in device.todo : w \subseteq UNION left
  /\ device.at = "dispatch" => table = imports

\* A guest's step changes nothing the device maps, but for a release, which drops what
\* it maps of the range, and then the generation too.
LEMMA GuestTable ==
  ASSUME TableInv, Guest
  PROVE  TableInv'
<1>1. CASE \E r \in Reservations : Release(r)
  <2>1. device.at = "idle" /\ device' = device
    BY <1>1 DEF Release
  <2>2. imports' = imports \/ gen' = NoGeneration
    BY <1>1 DEF Release
  <2>3. table' = table /\ (imports' = imports => gen' \in {gen, NoGeneration})
    BY <1>1 DEF Release
  <2>4. Kept'
    BY <2>1, <2>2, <2>3 DEF TableInv, Kept
  <2> QED
    BY <2>1, <2>4 DEF TableInv
<1>2. CASE ~\E r \in Reservations : Release(r)
  <2>1. UNCHANGED <<mapped, device>>
    BY <1>2 DEF Guest, Touch, Announce, Protected, Released, Free, Reserve, Protect
  <2> QED
    BY <2>1 DEF TableInv, Kept, Gained, Meet, mapped
<1> QED
  BY <1>1, <1>2

\* A sync that begins has kept and gained nothing yet.
LEMMA LockTable == ASSUME TableInv, Lock PROVE TableInv'
BY DEF Lock, TableInv, Kept, NoWork, mapped

\* The runs are read again unless the generation is the one they were taken in, and
\* then Kept gives the table.
LEMMA RunsTable == ASSUME Types, TableInv, Runs PROVE TableInv'
<1>1. CASE gen = generation /\ table # NoTable
  <2>1. table = imports
    BY <1>1 DEF Runs, Types, TableInv, Kept, NoGeneration
  <2> QED
    BY <1>1, <2>1 DEF Runs, Go, Types, Work, TableInv
<1>2. CASE ~(gen = generation /\ table # NoTable)
  <2>1. device'.at = "take" /\ device'.remapped = TRUE
    BY <1>2 DEF Runs, Types, Work
  <2> QED
    BY <2>1 DEF TableInv
<1> QED
  BY <1>1, <1>2

\* While runs are taken up the table is to be built again.
LEMMA TakeTable ==
  ASSUME Types, TableInv,
         \/ Taken
         \/ \E run \in device.todo : Take(run) \/ \E refused : Import(run, refused)
  PROVE  TableInv'
<1>1. device'.at \in {"take", "import", "left"} /\ device'.remapped
  <2>1. CASE Taken
    BY <2>1 DEF Taken, Go, Types, Work, TableInv
  <2>2. CASE \E run \in device.todo : Take(run)
    <3>1. device'.at = "import" /\ device'.remapped = device.remapped /\ device.at = "take"
      BY <2>2, CommitPlace DEF Take
    <3> QED
      BY <3>1 DEF TableInv
  <2>3. CASE \E run \in device.todo : \E refused : Import(run, refused)
    BY Zenon, <2>3 DEF Import, Types, Work, TableInv
  <2> QED
    BY <2>1, <2>2, <2>3
<1> QED
  BY <1>1 DEF TableInv

\* The windows looked at lie in the pieces left out.
LEMMA LeftOutTable == ASSUME Types, TableInv, LeftOut PROVE TableInv'
<1> DEFINE open == UNION {s \in left : \E p \in s : host[p] \in Committed}
<1>1. open \in SUBSET Pages /\ open \subseteq UNION left
  BY DEF Types
<1>2. \A w \in Pieces(open) : w \subseteq UNION left
  BY <1>1, PieceIsPart
<1>3. ~device.remapped => table = imports
  BY DEF LeftOut, TableInv
<1>4. CASE pages = device.seen
  BY <1>3, <1>4 DEF LeftOut, Go, Types, Work, Places, TableInv, mapped
<1>5. CASE pages # device.seen
  <2>1. device'.at = "fill" /\ device'.remapped = device.remapped /\ device'.todo = Pieces(open)
    BY <1>5 DEF LeftOut, Types, Work
  <2> HIDE DEF open
  <2>2. ~device'.remapped => Gained'
    BY <1>3, <2>1 DEF LeftOut, Gained, mapped
  <2> QED
    BY <1>2, <2>1, <2>2 DEF LeftOut, TableInv, mapped
<1> QED
  BY <1>4, <1>5

\* Committing a window changes no mapping.
LEMMA FillTable ==
  ASSUME Types, TableInv, NEW window \in device.todo, Fill(window)
  PROVE  TableInv'
<1>1. {window} \cup device.todo = device.todo
  OBVIOUS
<1>2. device' = [device EXCEPT !.at = "refill", !.todo = device.todo]
  BY <1>1 DEF Fill
<1> QED
  BY <1>2 DEF Fill, Types, Work, TableInv, Gained, mapped

\* What is imported of a window meets a piece left out, being a part of it.
LEMMA RefillTable ==
  ASSUME Types, TableInv, NEW window \in device.todo, NEW refused, Refill(window, refused)
  PROVE  TableInv'
<1> DEFINE rw == {p \in window : host[p] = "rw"}
<1>1. rw \in SUBSET Pages
  BY DEF Types, Work
<1>2. window \subseteq UNION left
  BY DEF Refill, TableInv
<1>3. \A i \in Pieces(rw) : i # {} /\ i \subseteq rw
  BY <1>1, PieceIsPart
<1>4. \A i \in Pieces(rw) : Meet(i, UNION left)
  BY <1>2, <1>3 DEF Meet
<1>5. imports' = imports \cup (Pieces(rw) \ refused)
  BY DEF Refill
<1>6. /\ device'.at = "fill" /\ device'.remapped = device.remapped
      /\ device'.todo \subseteq device.todo
  BY DEF Refill, Types, Work
<1>7. ~device.remapped => Gained
  BY DEF Refill, TableInv
<1> HIDE DEF rw
<1>8. ~device'.remapped => Gained'
  BY <1>4, <1>5, <1>6, <1>7 DEF Refill, Gained
<1> QED
  BY <1>6, <1>8 DEF Refill, TableInv

\* No import meets a piece left out: none was gained.
LEMMA FilledTable == ASSUME Types, TableInv, Filled PROVE TableInv'
<1> DEFINE met == \E s \in left : \E i \in imports : Meet(i, s)
<1>1. device' = [device EXCEPT !.at = "table", !.remapped = device.remapped \/ met]
  BY DEF Filled
<1>2. (device.remapped \/ met) \in BOOLEAN
  OBVIOUS
<1>3. device'.at = "table" /\ device'.remapped = (device.remapped \/ met)
  BY <1>1, <1>2 DEF Types, Work
<1>4. ~device.remapped /\ ~met => imports \ table = {} /\ table \subseteq imports
  BY DEF Filled, TableInv, Gained, Meet
<1> QED
  BY <1>3, <1>4 DEF Filled, TableInv

\* The table is built of the imports as they are, kept when they did not change, or lost.
LEMMA TableTable == ASSUME Types, TableInv, Table PROVE TableInv'
<1>1. CASE ~device.remapped /\ table # NoTable /\ Go("dispatch") /\ UNCHANGED table
  <2>1. table = imports
    BY <1>1 DEF Table, TableInv
  <2>2. device'.at = "dispatch"
    BY <1>1 DEF Go, Types, Work
  <2> QED
    BY <1>1, <2>1, <2>2 DEF Table, TableInv
<1>2. CASE device.remapped /\ table' = imports /\ Go("dispatch")
  <2>1. device'.at = "dispatch"
    BY <1>2 DEF Go, Types, Work
  <2> QED
    BY <1>2, <2>1 DEF Table, TableInv
<1>3. CASE device.remapped /\ table' = NoTable /\ device' = NoWork
  BY <1>3 DEF TableInv, Kept, NoWork
<1> QED
  BY <1>1, <1>2, <1>3 DEF Table

\* A dispatch ends the sync and leaves the mappings.
LEMMA DispatchTable == ASSUME TableInv, Dispatch PROVE TableInv'
BY DEF Dispatch, TableInv, Kept, NoWork, mapped

\* Every step of Spec preserves the invariant of the table.
LEMMA TableHolds == Types /\ TableInv /\ [Next]_vars => TableInv'
<1> SUFFICES ASSUME Types, TableInv, [Next]_vars PROVE TableInv'
  OBVIOUS
<1>1. CASE Guest
  BY <1>1, GuestTable
<1>2. CASE Sync
  BY <1>2, LockTable, RunsTable, TakeTable, LeftOutTable, FillTable, RefillTable, FilledTable,
     TableTable, DispatchTable DEF Sync
<1>3. CASE UNCHANGED vars
  BY <1>3 DEF vars, mapped, TableInv, Kept, Gained, Meet
<1> QED
  BY <1>1, <1>2, <1>3 DEF Next

\* The table of a dispatch names exactly what is imported, for any reservations,
\* releases, changes of protection and refusals of the driver (direct.rs, release
\* and sync).
THEOREM TableNamesImports == Spec => []TableIsImports
<1>1. Init => Types /\ TableInv
  BY TypesInit DEF Init, NoWork, TableInv, Kept
<1>2. Types /\ TableInv /\ [Next]_vars => Types' /\ TableInv'
  BY TypesHold, TableHolds DEF NextRefusing
<1>3. TableInv => TableIsImports
  BY DEF TableInv, TableIsImports
<1> QED
  BY <1>1, <1>2, <1>3, PTL DEF Spec

-----------------------------------------------------------------------------
(* The pieces *)

\* No two reservations lie side by side.
ReservationsApart ==
  \A r, s \in Reservations : r # s => Separate(Span[r], Span[s])

\* Where reservations are apart, so are their readable runs, each in one reservation.
LEMMA RunsStrewn ==
  ASSUME ReservationsApart, NEW res \in SUBSET Reservations, NEW readables
  PROVE  /\ Strewn(ReadableRuns(res, readables))
         /\ \A s \in ReadableRuns(res, readables) : \E r \in Reservations : s \subseteq Span[r]
<1> DEFINE all == ReadableRuns(res, readables)
<1>1. \A r \in res : Span[r] \cap readables \in SUBSET Nat
  BY MappingAssumption
<1>2. ASSUME NEW s \in all
      PROVE  \E r \in res : s \in Pieces(Span[r] \cap readables) /\ s \subseteq Span[r]
  <2>1. PICK r \in res : s \in Pieces(Span[r] \cap readables)
    BY DEF ReadableRuns
  <2>2. s \subseteq Span[r] \cap readables
    BY <1>1, <2>1, PiecesCover
  <2> QED
    BY <2>1, <2>2
<1>3. ASSUME NEW s \in all PROVE Whole(s)
  BY <1>1, <1>2, PiecesStrewn DEF Strewn
<1>4. ASSUME NEW s \in all, NEW t \in all, s # t PROVE Separate(s, t)
  <2>1. PICK r \in res : s \in Pieces(Span[r] \cap readables) /\ s \subseteq Span[r]
    BY <1>2
  <2>2. PICK q \in res : t \in Pieces(Span[q] \cap readables) /\ t \subseteq Span[q]
    BY <1>2
  <2>3. CASE r = q
    BY <1>1, <1>4, <2>1, <2>2, <2>3, PiecesStrewn DEF Strewn
  <2>4. CASE r # q
    BY <2>1, <2>2, <2>4 DEF ReservationsApart, Separate
  <2> QED
    BY <2>3, <2>4
<1> HIDE DEF all
<1>5. Strewn(all)
  BY <1>3, <1>4 DEF Strewn
<1> QED
  BY <1>2, <1>5 DEF all

\* The parts of a sync: it takes up the runs it read, or fills windows.
Taking == device.at \in {"take", "import"}
Filling == device.at \in {"fill", "refill"}

\* The runs sync has still to take up, and those that are taken up.
Due == IF Taking THEN device.todo ELSE {}
Settled == runs \ Due

\* A run lies in one reservation.
InReservation(s) == \E r \in Reservations : s \subseteq Span[r]

\* The runs, with those still due, lie apart, each in a reservation; a run is due
\* until it is taken up, and the one being imported is both.
RunsInv ==
  /\ Strewn(runs \cup Due)
  /\ \A s \in runs \cup Due : InReservation(s)
  /\ device.at = "take" => runs \cap Due = {}
  /\ device.at = "import" => \E run \in Due : runs \cap Due = {run}

\* The imports and what is left out cover the runs taken up and meet nowhere, but for
\* the imports that windows gave while windows are being filled.
TileInv ==
  /\ Strewn(left)
  /\ (UNION imports) \cup (UNION left) = UNION Settled
  /\ \A s \in imports \cup left : s # {} /\ \E run \in Settled : s \subseteq run
  /\ \A i, j \in imports : i # j => ~Meet(i, j)
  /\ ~Filling => \A i \in imports, s \in left : ~Meet(i, s)
  /\ Filling => /\ device.todo \subseteq left
                /\ \A i \in imports, s \in left :
                     Meet(i, s) => i \subseteq s /\ s \notin device.todo

\* What the device maps, all together.
Maps == Types /\ RunsInv /\ TileInv

\* A page is in one of ranges that are apart at most.
LEMMA OneOfStrewn ==
  ASSUME NEW F \in SUBSET SUBSET Nat, Strewn(F), NEW s \in F, NEW t \in F, Meet(s, t)
  PROVE  s = t
<1>1. PICK p \in s : p \in t
  BY DEF Meet
<1>2. Near(p, p)
  BY DEF Near
<1> QED
  BY <1>1, <1>2 DEF Strewn, Separate

\* Some of ranges that are apart are apart.
LEMMA FewerStrewn ==
  ASSUME NEW F, Strewn(F), NEW G \in SUBSET F
  PROVE  Strewn(G)
BY DEF Strewn

\* Parts of ranges that are apart are apart, and share no page.
LEMMA SeparateParts ==
  ASSUME NEW s, NEW t, Separate(s, t), NEW u \in SUBSET s, NEW v \in SUBSET t
  PROVE  Separate(u, v) /\ ~Meet(u, v)
<1>1. Separate(u, v)
  BY DEF Separate
<1>2. \A p : Near(p, p)
  BY DEF Near
<1> QED
  BY <1>1, <1>2 DEF Separate, Meet

\* Runs are ranges of numbers.
LEMMA RunsAreNumbers ==
  ASSUME RunsInv
  PROVE  runs \cup Due \in SUBSET SUBSET Nat /\ Settled \subseteq runs
BY MappingAssumption DEF RunsInv, InReservation, Settled

\* A step that leaves the mappings and what is due alone.
LEMMA SameMaps ==
  ASSUME RunsInv, TileInv, UNCHANGED <<runs, imports, left>>,
         Due' = Due, Filling' <=> Filling,
         device'.at \in {"take", "import"} => device'.at = device.at,
         Filling => device'.todo = device.todo
  PROVE  RunsInv' /\ TileInv'
<1>1. RunsInv'
  BY DEF RunsInv
<1>2. TileInv'
  BY DEF TileInv, Settled
<1> QED
  BY <1>1, <1>2

-----------------------------------------------------------------------------
(* The mappings, step by step *)

\* What is mapped of a run goes with it: a run that is kept keeps all of its pieces.
LEMMA KeepSome ==
  ASSUME RunsInv, TileInv, Due = {}, ~Filling,
         NEW K \in SUBSET runs, runs' = K,
         imports' = {i \in imports : \E s \in K : i \subseteq s},
         left' = {s \in left : \E t \in K : s \subseteq t},
         Settled' = K, ~Filling'
  PROVE  TileInv'
<1>1. Settled = runs /\ runs \in SUBSET SUBSET Nat /\ Strewn(runs)
  BY RunsAreNumbers DEF Settled, RunsInv
<1>2. Strewn(left')
  BY FewerStrewn DEF TileInv
<1>3. ASSUME NEW i \in imports' \cup left'
      PROVE  i \subseteq UNION K
  <2>1. PICK s \in K : i \subseteq s
    OBVIOUS
  <2> QED
    BY <2>1
<1>4. ASSUME NEW s \in K, NEW p \in s
      PROVE  p \in (UNION imports') \cup (UNION left')
  <2>0. p \in UNION Settled
    BY <1>1
  <2>1. PICK i \in imports \cup left : p \in i
    BY <2>0 DEF TileInv
  <2>2. PICK t \in runs : i \subseteq t
    BY <1>1 DEF TileInv
  <2>3. t = s
    BY <1>1, <2>1, <2>2, OneOfStrewn DEF Meet
  <2>4. i \in imports' \cup left'
    BY <2>2, <2>3
  <2> QED
    BY <2>1, <2>4
<1>5. (UNION imports') \cup (UNION left') = UNION Settled'
  BY <1>3, <1>4
<1> QED
  BY <1>2, <1>5 DEF TileInv

\* Sync drops what lies in no run any more, and what it keeps tiles the runs it keeps.
LEMMA RunsMaps ==
  ASSUME ReservationsApart, Maps, Runs
  PROVE  RunsInv' /\ TileInv'
<1>0. Due = {} /\ ~Filling
  BY DEF Runs, Due, Taking, Filling
<1>1. CASE gen = generation /\ table # NoTable
  <2>1. device'.at = "left"
    BY <1>1 DEF Runs, Go, Maps, Types, Work
  <2>2. Due' = {} /\ ~Filling'
    BY <2>1 DEF Due, Taking, Filling
  <2>3. UNCHANGED <<runs, imports, left>>
    BY <1>1 DEF Runs
  <2> QED
    BY <1>0, <2>1, <2>2, <2>3, SameMaps DEF Maps
<1>2. CASE ~(gen = generation /\ table # NoTable)
  <2> DEFINE wanted == ReadableRuns(recorded, readable)
             kept == runs \cap wanted
  <2>1. Strewn(wanted) /\ \A s \in wanted : InReservation(s)
    BY RunsStrewn DEF Maps, Types, InReservation
  <2>2. /\ runs' = kept
        /\ imports' = {i \in imports : \E s \in kept : i \subseteq s}
        /\ left' = {s \in left : \E t \in kept : s \subseteq t}
    BY <1>2 DEF Runs
  <2>3. device'.at = "take" /\ device'.todo = wanted \ kept
    BY <1>2 DEF Runs, Maps, Types, Work
  <2> HIDE DEF wanted
  <2>4. Due' = wanted \ kept /\ ~Filling'
    BY <2>3 DEF Due, Taking, Filling
  <2>5. runs' \cup Due' = wanted /\ runs' \cap Due' = {} /\ Settled' = kept
    BY <2>2, <2>4 DEF Settled
  <2>6. RunsInv'
    BY <2>1, <2>3, <2>5 DEF RunsInv
  <2>7. kept \in SUBSET runs
    OBVIOUS
  <2> HIDE DEF kept
  <2>8. TileInv'
    BY <1>0, <2>2, <2>4, <2>5, <2>7, KeepSome DEF Maps
  <2> QED
    BY <2>6, <2>8
<1> QED
  BY <1>1, <1>2

\* A release drops whole runs: a run lies in one reservation.
LEMMA ReleaseMaps ==
  ASSUME Maps, NEW r \in Reservations, Release(r)
  PROVE  RunsInv' /\ TileInv'
<1> DEFINE K == {s \in runs : ~Meet(s, Span[r])}
<1>1. Due = {} /\ ~Filling /\ Due' = {} /\ ~Filling' /\ device' = device /\ device.at = "idle"
  BY DEF Release, Due, Taking, Filling
<1>2. runs' = K /\ Settled' = K
  BY <1>1 DEF Release, Settled
<1>3. Settled = runs
  BY <1>1 DEF Settled
<1>4. ASSUME NEW s \in runs, NEW i \in imports \cup left, i \subseteq s
      PROVE  Meet(i, Span[r]) <=> Meet(s, Span[r])
  <2>1. PICK q \in Reservations : s \subseteq Span[q]
    BY DEF Maps, RunsInv, InReservation
  <2>2. Meet(s, Span[r]) => q = r
    BY <2>1, MappingAssumption DEF Meet
  <2>3. i # {}
    BY DEF Maps, TileInv
  <2> QED
    BY <1>4, <2>1, <2>2, <2>3 DEF Meet
<1>5. ASSUME NEW i \in imports \cup left
      PROVE  ~Meet(i, Span[r]) <=> \E s \in K : i \subseteq s
  <2>1. PICK s \in runs : i \subseteq s
    BY <1>3 DEF Maps, TileInv
  <2> QED
    BY <1>4, <2>1
<1>6. imports' = {i \in imports : \E s \in K : i \subseteq s}
  BY <1>5 DEF Release
<1>7. left' = {s \in left : \E t \in K : s \subseteq t}
  BY <1>5 DEF Release
<1>8. K \in SUBSET runs
  OBVIOUS
<1> HIDE DEF K
<1>9. TileInv'
  BY <1>1, <1>2, <1>6, <1>7, <1>8, KeepSome DEF Maps
<1>10. runs' \cup Due' \in SUBSET (runs \cup Due)
  BY <1>1, <1>2, <1>8
<1>11. RunsInv'
  BY <1>1, <1>10, FewerStrewn DEF Maps, RunsInv
<1> QED
  BY <1>9, <1>11

\* A run that is taken up stays due until what is mapped of it is known.
LEMMA TakeMaps ==
  ASSUME Maps, NEW run \in device.todo, Take(run)
  PROVE  RunsInv' /\ TileInv'
<1>1. device.at = "take" /\ device'.at = "import" /\ device'.todo = device.todo
  BY DEF Take, Maps, Types, Work
<1>2. Due = device.todo /\ Due' = Due /\ runs \cap Due = {}
  BY <1>1 DEF Due, Taking, Maps, RunsInv
<1>3. runs' = runs \cup {run}
  BY DEF Take
<1>4. runs' \cup Due' = runs \cup Due /\ runs' \cap Due' = {run}
  BY <1>2, <1>3
<1>5. RunsInv'
  BY <1>1, <1>2, <1>4 DEF Maps, RunsInv
<1>6. Settled' = Settled
  BY <1>2, <1>3 DEF Settled
<1>7. ~Filling /\ ~Filling'
  BY <1>1 DEF Filling
<1>8. UNCHANGED <<imports, left>>
  BY DEF Take
<1>9. TileInv'
  BY <1>6, <1>7, <1>8 DEF Maps, TileInv
<1> QED
  BY <1>5, <1>9

\* The pieces of a range that a part of its stretches was taken out of.
LEMMA SplitRange ==
  ASSUME NEW run \in SUBSET Nat, NEW rw \in SUBSET run, NEW new \in SUBSET Pieces(rw)
  PROVE  LET out == Pieces(run \ UNION new)
         IN /\ Strewn(new) /\ Strewn(out)
            /\ \A s \in new \cup out : s # {} /\ s \subseteq run
            /\ (UNION new) \cup (UNION out) = run
            /\ \A i \in new, s \in out : ~Meet(i, s)
<1> DEFINE out == Pieces(run \ UNION new)
<1>1. rw \in SUBSET Nat /\ run \ UNION new \in SUBSET Nat
  OBVIOUS
<1>2. Strewn(Pieces(rw)) /\ Strewn(out)
  BY <1>1, PiecesStrewn
<1>3. Strewn(new)
  BY <1>2, FewerStrewn
<1>4. UNION out = run \ UNION new
  BY <1>1, PiecesCover
<1>5. UNION Pieces(rw) = rw
  BY <1>1, PiecesCover
<1>6. UNION new \subseteq run
  BY <1>5
<1> HIDE DEF out
<1>7. \A s \in new \cup out : s # {} /\ s \subseteq run
  BY <1>2, <1>3, <1>4, <1>6 DEF Strewn, Whole
<1>8. \A i \in new, s \in out : ~Meet(i, s)
  BY <1>4 DEF Meet
<1> QED
  BY <1>2, <1>3, <1>4, <1>6, <1>7, <1>8 DEF out

\* A run is due no more once its pieces are imported or left out.
LEMMA ImportMaps ==
  ASSUME Maps, NEW run \in device.todo, NEW refused, Import(run, refused)
  PROVE  RunsInv' /\ TileInv'
<1> DEFINE rw == {p \in run : host[p] = "rw"}
           new == Pieces(rw) \ refused
           out == Pieces(run \ UNION new)
<1>1. /\ device.at = "import" /\ run \in runs
      /\ device'.at = "take" /\ device'.todo = device.todo \ {run}
  BY DEF Import, Maps, Types, Work
<1>2. Due = device.todo /\ runs \cap Due = {run} /\ Due' = Due \ {run}
  BY <1>1 DEF Due, Taking, Maps, RunsInv
<1>3. imports' = imports \cup new /\ left' = left \cup out /\ runs' = runs
  BY DEF Import
<1>4. Settled' = runs /\ Settled = runs \ {run}
  BY <1>2, <1>3 DEF Settled
<1>5. RunsInv'
  <2>1. runs' \cup Due' \in SUBSET (runs \cup Due) /\ runs' \cap Due' = {}
    BY <1>2, <1>3
  <2> QED
    BY <1>1, <2>1, FewerStrewn DEF Maps, RunsInv
<1>6. runs \in SUBSET SUBSET Nat /\ Strewn(runs)
  BY RunsAreNumbers, FewerStrewn DEF Maps, RunsInv
<1>7. run \in SUBSET Nat /\ rw \in SUBSET run /\ new \in SUBSET Pieces(rw)
  BY <1>1, <1>6
<1> HIDE DEF rw, new
<1>8. /\ Strewn(new) /\ Strewn(out)
      /\ \A s \in new \cup out : s # {} /\ s \subseteq run
      /\ (UNION new) \cup (UNION out) = run
      /\ \A i \in new, s \in out : ~Meet(i, s)
  BY <1>7, SplitRange
<1> HIDE DEF out
<1>9. ASSUME NEW s \in imports \cup left, NEW t \in new \cup out
      PROVE  Separate(s, t) /\ Separate(t, s) /\ ~Meet(s, t) /\ ~Meet(t, s)
  <2>1. PICK u \in runs \ {run} : s \subseteq u
    BY <1>4 DEF Maps, TileInv
  <2>2. Separate(u, run) /\ Separate(run, u)
    BY <1>1, <1>6, <2>1 DEF Strewn
  <2> QED
    BY <1>8, <2>1, <2>2, SeparateParts
<1>10. Strewn(left')
  BY <1>3, <1>8, <1>9 DEF Maps, TileInv, Strewn
<1>11. (UNION imports') \cup (UNION left') = UNION Settled'
  <2>1. (UNION imports) \cup (UNION left) = UNION (runs \ {run})
    BY <1>4 DEF Maps, TileInv
  <2> QED
    BY <1>1, <1>3, <1>4, <1>8, <2>1
<1>12. \A s \in imports' \cup left' : s # {} /\ \E t \in Settled' : s \subseteq t
  BY <1>1, <1>3, <1>4, <1>8 DEF Maps, TileInv
<1>13. \A i, j \in imports' : i # j => ~Meet(i, j)
  <2>1. \A i, j \in new : i # j => ~Meet(i, j)
    BY <1>8, SeparateParts DEF Strewn
  <2> QED
    BY <1>3, <1>9, <2>1 DEF Maps, TileInv
<1>14. ~Filling /\ ~Filling'
  BY <1>1 DEF Filling
<1>15. \A i \in imports', s \in left' : ~Meet(i, s)
  BY <1>3, <1>8, <1>9, <1>14 DEF Maps, TileInv
<1>16. TileInv'
  BY <1>10, <1>11, <1>12, <1>13, <1>14, <1>15 DEF TileInv
<1> QED
  BY <1>5, <1>16

\* The windows are pieces left out: those lie apart, so none are joined.
LEMMA LeftOutMaps ==
  ASSUME Maps, LeftOut
  PROVE  RunsInv' /\ TileInv'
<1> DEFINE F == {s \in left : \E p \in s : host[p] \in Committed}
<1>1. Due = {} /\ ~Filling /\ UNCHANGED <<runs, imports, left>>
  BY DEF LeftOut, Due, Taking, Filling, mapped
<1>2. CASE pages = device.seen
  <2>1. device'.at = "table"
    BY <1>2 DEF LeftOut, Go, Maps, Types, Work
  <2>2. Due' = {} /\ ~Filling'
    BY <2>1 DEF Due, Taking, Filling
  <2> QED
    BY <1>1, <2>1, <2>2, SameMaps DEF Maps
<1>3. CASE pages # device.seen
  <2>1. device'.at = "fill" /\ device'.todo = Pieces(UNION F)
    BY <1>3 DEF LeftOut, Maps, Types, Work
  <2>2. Due' = {} /\ Filling' /\ Settled' = Settled
    BY <1>1, <2>1 DEF Due, Taking, Filling, Settled
  <2>3. F \in SUBSET SUBSET Nat /\ F \subseteq left
    BY PagesAreNumbers DEF Maps, Types
  <2>4. Strewn(F)
    BY <2>3, FewerStrewn DEF Maps, TileInv
  <2> HIDE DEF F
  <2>5. device'.todo \subseteq left'
    BY <1>1, <2>1, <2>3, <2>4, PiecesOfStrewn
  <2>6. RunsInv'
    BY <1>1, <2>1, <2>2 DEF Maps, RunsInv
  <2>7. TileInv'
    BY <1>1, <2>2, <2>5 DEF Maps, TileInv
  <2> QED
    BY <2>6, <2>7
<1> QED
  BY <1>2, <1>3

\* Committing a window changes neither the imports nor what is left out.
LEMMA FillMaps ==
  ASSUME Maps, NEW window \in device.todo, Fill(window)
  PROVE  RunsInv' /\ TileInv'
<1>1. device.at = "fill" /\ device'.at = "refill" /\ device'.todo = device.todo
  BY DEF Fill, Maps, Types, Work
<1>2. Due = {} /\ Due' = {} /\ Filling /\ Filling'
  BY <1>1 DEF Due, Taking, Filling
<1>3. UNCHANGED <<runs, imports, left>>
  BY DEF Fill, mapped
<1> QED
  BY <1>1, <1>2, <1>3, SameMaps DEF Maps

\* What is imported of a window lies in it, and nothing was before.
LEMMA RefillMaps ==
  ASSUME Maps, NEW window \in device.todo, NEW refused, Refill(window, refused)
  PROVE  RunsInv' /\ TileInv'
<1> DEFINE rw == {p \in window : host[p] = "rw"}
           new == Pieces(rw) \ refused
<1>1. device.at = "refill" /\ device'.at = "fill" /\ device'.todo = device.todo \ {window}
  BY DEF Refill, Maps, Types, Work
<1>2. Due = {} /\ Due' = {} /\ Filling /\ Filling'
  BY <1>1 DEF Due, Taking, Filling
<1>3. imports' = imports \cup new /\ left' = left /\ runs' = runs
  BY DEF Refill
<1>4. Settled' = Settled
  BY <1>2, <1>3 DEF Settled
<1>5. window \in left /\ left \in SUBSET SUBSET Nat /\ Strewn(left)
  BY <1>2, PagesAreNumbers DEF Maps, Types, TileInv
<1>6. window \in SUBSET Nat /\ rw \in SUBSET window /\ new \in SUBSET Pieces(rw)
  BY <1>5
<1> HIDE DEF rw, new
<1>7. Strewn(new) /\ \A s \in new : s # {} /\ s \subseteq window
  <2> DEFINE out == Pieces(window \ UNION new)
  <2>1. Strewn(new) /\ \A s \in new \cup out : s # {} /\ s \subseteq window
    BY <1>6, SplitRange
  <2> QED
    BY <2>1
<1>8. \A i \in imports : ~Meet(i, window)
  BY <1>2, <1>5 DEF Maps, TileInv
<1>9. \A i \in imports, j \in new : ~Meet(i, j) /\ ~Meet(j, i)
  BY <1>7, <1>8 DEF Meet
<1>10. \A i, j \in imports' : i # j => ~Meet(i, j)
  <2>1. \A i, j \in new : i # j => ~Meet(i, j)
    BY <1>7, SeparateParts DEF Strewn
  <2> QED
    BY <1>3, <1>9, <2>1 DEF Maps, TileInv
<1>11. ASSUME NEW i \in imports', NEW s \in left', Meet(i, s)
       PROVE  i \subseteq s /\ s \notin device'.todo
  <2>1. CASE i \in imports
    BY <1>1, <1>2, <1>3, <1>11, <2>1 DEF Maps, TileInv
  <2>2. CASE i \in new
    <3>1. Meet(window, s)
      BY <1>7, <1>11, <2>2 DEF Meet
    <3>2. s = window
      BY <1>3, <1>5, <3>1, OneOfStrewn
    <3> QED
      BY <1>1, <1>7, <2>2, <3>2
  <2> QED
    BY <1>3, <2>1, <2>2
<1>12. (UNION imports') \cup (UNION left') = UNION Settled'
  <2>1. (UNION imports) \cup (UNION left) = UNION Settled
    BY DEF Maps, TileInv
  <2>2. UNION new \subseteq UNION left
    BY <1>5, <1>7
  <2> QED
    BY <1>3, <1>4, <2>1, <2>2
<1>13. \A s \in imports' \cup left' : s # {} /\ \E t \in Settled' : s \subseteq t
  <2>1. PICK t \in Settled : window \subseteq t
    BY <1>5 DEF Maps, TileInv
  <2> QED
    BY <1>3, <1>4, <1>7, <2>1 DEF Maps, TileInv
<1>14. device'.todo \subseteq left'
  BY <1>1, <1>2, <1>3 DEF Maps, TileInv
<1>15. TileInv'
  BY <1>2, <1>3, <1>5, <1>10, <1>11, <1>12, <1>13, <1>14 DEF TileInv
<1>16. RunsInv'
  BY <1>1, <1>2, <1>3 DEF Maps, RunsInv
<1> QED
  BY <1>15, <1>16

\* What is still left out of a piece is what no import covers: an import that meets a
\* piece starts in it.
LEMMA GapsOf ==
  ASSUME Maps, Filling, NEW s \in left
  PROVE  Gaps(s, imports) = Pieces(s \ UNION imports) /\ s \ UNION imports \in SUBSET Nat
<1>1. s \in SUBSET Nat
  BY PagesAreNumbers DEF Maps, Types
<1>2. ASSUME NEW i \in imports, Meet(i, s)
      PROVE  StartsIn(i, s)
  <2>1. i \subseteq s /\ i # {}
    BY <1>2 DEF Maps, TileInv
  <2>2. i \in SUBSET Nat
    BY <1>1, <2>1
  <2>3. PICK p \in i : \A q \in i : p <= q
    BY <2>1, <2>2, LeastPage
  <2> QED
    BY <2>1, <2>3 DEF StartsIn
<1>3. s \ UNION {i \in imports : StartsIn(i, s)} = s \ UNION imports
  <2>1. \A i \in imports, p \in s : p \in i => StartsIn(i, s)
    BY <1>2 DEF Meet
  <2> QED
    BY <2>1
<1> QED
  BY <1>1, <1>3 DEF Gaps

\* After the windows, what is left out is what no import took.
LEMMA FilledMaps ==
  ASSUME Maps, Filled
  PROVE  RunsInv' /\ TileInv' /\ UNION left' = (UNION left) \ UNION imports
<1>1. device.at = "fill" /\ device'.at = "table"
  BY DEF Filled, Maps, Types, Work
<1>2. Due = {} /\ Due' = {} /\ Filling /\ ~Filling'
  BY <1>1 DEF Due, Taking, Filling
<1>3. runs' = runs /\ imports' = imports /\ left' = UNION {Gaps(s, imports) : s \in left}
  BY DEF Filled
<1>4. Settled' = Settled
  BY <1>2, <1>3 DEF Settled
<1>5. ASSUME NEW s \in left
      PROVE  Strewn(Gaps(s, imports)) /\ UNION Gaps(s, imports) = s \ UNION imports
  <2>1. Gaps(s, imports) = Pieces(s \ UNION imports) /\ s \ UNION imports \in SUBSET Nat
    BY <1>2, GapsOf
  <2>2. /\ Strewn(Pieces(s \ UNION imports))
        /\ UNION Pieces(s \ UNION imports) = s \ UNION imports
    BY <2>1, PiecesStrewn, PiecesCover
  <2> QED
    BY <2>1, <2>2
<1>6. ASSUME NEW g \in left'
      PROVE  \E s \in left : g \in Gaps(s, imports) /\ g \subseteq s \ UNION imports
  <2>1. PICK s \in left : g \in Gaps(s, imports)
    BY <1>3
  <2> QED
    BY <1>5, <2>1
<1>7. UNION left' = (UNION left) \ UNION imports
  <2>1. ASSUME NEW p \in (UNION left) \ UNION imports PROVE p \in UNION left'
    <3>1. PICK s \in left : p \in s \ UNION imports
      OBVIOUS
    <3>2. PICK g \in Gaps(s, imports) : p \in g
      BY <1>5, <3>1
    <3>3. g \in left'
      BY <1>3
    <3> QED
      BY <3>2, <3>3
  <2>2. ASSUME NEW p \in UNION left' PROVE p \in (UNION left) \ UNION imports
    BY <1>6
  <2> QED
    BY <2>1, <2>2
<1>8. Strewn(left')
  <2>1. ASSUME NEW g \in left' PROVE Whole(g)
    BY <1>5, <1>6 DEF Strewn
  <2>2. ASSUME NEW g \in left', NEW h \in left', g # h PROVE Separate(g, h)
    <3>1. PICK s \in left : g \in Gaps(s, imports) /\ g \subseteq s
      BY <1>6
    <3>2. PICK t \in left : h \in Gaps(t, imports) /\ h \subseteq t
      BY <1>6
    <3>3. CASE s = t
      BY <1>5, <2>2, <3>1, <3>2, <3>3 DEF Strewn
    <3>4. CASE s # t
      BY <3>1, <3>2, <3>4, SeparateParts DEF Maps, TileInv, Strewn
    <3> QED
      BY <3>3, <3>4
  <2> QED
    BY <2>1, <2>2 DEF Strewn
<1>9. (UNION imports') \cup (UNION left') = UNION Settled'
  <2>1. (UNION imports) \cup (UNION left) = UNION Settled
    BY DEF Maps, TileInv
  <2> QED
    BY <1>3, <1>4, <1>7, <2>1
<1>10. \A s \in imports' \cup left' : s # {} /\ \E t \in Settled' : s \subseteq t
  <2>1. ASSUME NEW g \in left' PROVE g # {} /\ \E t \in Settled : g \subseteq t
    BY <1>6, <1>8 DEF Strewn, Whole, Maps, TileInv
  <2> QED
    BY <1>3, <1>4, <2>1 DEF Maps, TileInv
<1>11. \A i \in imports', s \in left' : ~Meet(i, s)
  BY <1>3, <1>6 DEF Meet
<1>12. TileInv'
  <2>1. \A i, j \in imports' : i # j => ~Meet(i, j)
    BY <1>3 DEF Maps, TileInv
  <2> QED
    BY <1>2, <1>8, <1>9, <1>10, <1>11, <2>1 DEF TileInv
<1>13. RunsInv'
  BY <1>1, <1>2, <1>3 DEF Maps, RunsInv
<1> QED
  BY <1>7, <1>12, <1>13

\* The steps that leave the mappings alone.
LEMMA OtherMaps ==
  ASSUME Maps,
         \/ Lock \/ Taken \/ Table \/ TableRefused \/ Dispatch
         \/ Guest /\ ~\E r \in Reservations : Release(r)
  PROVE  RunsInv' /\ TileInv'
<1>1. UNCHANGED <<runs, imports, left>>
  BY DEF Lock, Taken, Table, TableRefused, Dispatch, Guest, Touch, Announce, Protected,
         Released, Free, Reserve, Protect, mapped
<1>2. CASE device' = device
  <2>1. Due' = Due /\ (Filling' <=> Filling)
    BY <1>2 DEF Due, Taking, Filling
  <2> QED
    BY <1>1, <1>2, <2>1, SameMaps DEF Maps
<1>3. CASE device' # device
  <2>1. /\ device.at \in {"idle", "take", "table", "dispatch"}
        /\ device.at = "take" => device.todo = {}
        /\ device'.at \in {"idle", "runs", "left", "dispatch"}
    <3>1. ~Guest
      BY <1>3 DEF Guest, Touch, Announce, Protected, Released, Free, Reserve, Protect, Release
    <3>2. CASE Lock
      BY <3>2 DEF Lock, NoWork
    <3>3. CASE Taken
      BY <3>3 DEF Taken, Go, Maps, Types, Work
    <3>4. CASE Table
      BY <3>4 DEF Table, Go, NoWork, Maps, Types, Work
    <3>5. CASE TableRefused \/ Dispatch
      <4>1. device' = NoWork /\ device.at \in {"table", "dispatch"}
        BY <3>5 DEF TableRefused, Dispatch
      <4> QED
        BY <4>1 DEF NoWork
    <3> QED
      BY <3>1, <3>2, <3>3, <3>4, <3>5
  <2>2. Due' = {} /\ Due = {} /\ ~Filling' /\ ~Filling
    BY <2>1 DEF Due, Taking, Filling
  <2> QED
    BY <1>1, <2>1, <2>2, SameMaps DEF Maps
<1> QED
  BY <1>2, <1>3

\* Nothing is mapped and nothing is to be mapped in the beginning,
LEMMA MapsInit == Init => Maps
<1> SUFFICES ASSUME Init PROVE Maps
  OBVIOUS
<1>1. Types
  BY TypesInit
<1>2. Due = {} /\ ~Filling /\ Settled = {}
  BY DEF Init, NoWork, Due, Taking, Filling, Settled
<1>3. RunsInv /\ TileInv
  BY <1>2 DEF Init, NoWork, RunsInv, TileInv, Strewn
<1> QED
  BY <1>1, <1>3 DEF Maps

\* and every step keeps the runs tiled, a refused table included.
LEMMA MapsNext ==
  ASSUME ReservationsApart, Maps, [NextRefusing]_vars
  PROVE  Maps'
<1>1. Types'
  BY TypesHold DEF Maps
<1>2. CASE Guest
  <2>1. CASE \E r \in Reservations : Release(r)
    BY <1>1, <2>1, ReleaseMaps DEF Maps
  <2> QED
    BY <1>1, <1>2, <2>1, OtherMaps DEF Maps
<1>3. CASE Sync
  BY <1>1, <1>3, OtherMaps, RunsMaps, LeftOutMaps, FilledMaps, TakeMaps, FillMaps, ImportMaps,
     RefillMaps DEF Maps, Sync
<1>4. CASE TableRefused
  BY <1>1, <1>4, OtherMaps DEF Maps
<1>5. CASE UNCHANGED vars
  <2>1. UNCHANGED <<runs, imports, left, device>>
    BY <1>5 DEF vars, mapped
  <2>2. Due' = Due /\ (Filling' <=> Filling)
    BY <2>1 DEF Due, Taking, Filling
  <2> QED
    BY <1>1, <2>1, <2>2, SameMaps DEF Maps
<1> QED
  BY <1>2, <1>3, <1>4, <1>5 DEF Next, NextRefusing

\* Between syncs the imports and what is left out tile the runs of guest memory: no
\* page is mapped twice, none is forgotten, for any reservations that do not lie side
\* by side, any protections and refusals of the driver (direct.rs, sync and release).
THEOREM PiecesAreTiles ==
  ASSUME ReservationsApart
  PROVE  SpecRefusing => []PiecesTile
<1>1. Maps => PiecesTile
  <2> SUFFICES ASSUME Maps, device.at = "idle" PROVE PiecesTile
    BY DEF PiecesTile
  <2>1. Settled = runs /\ ~Filling
    BY DEF Settled, Due, Taking, Filling
  <2>2. Strewn(left) /\ \A s \in imports \cup left : s # {}
    BY DEF Maps, TileInv
  <2>3. \A i \in imports, s \in left : ~Meet(i, s) /\ ~Meet(s, i)
    BY <2>1 DEF Maps, TileInv, Meet
  <2>4. \A s, t \in left : s # t => ~Meet(s, t)
    BY <2>2, SeparateParts DEF Strewn
  <2>5. imports \cap left = {}
    BY <2>2, <2>3 DEF Meet
  <2>6. \A s, t \in imports \cup left : s # t => ~Meet(s, t)
    BY <2>3, <2>4 DEF Maps, TileInv
  <2> QED
    BY <2>1, <2>5, <2>6 DEF PiecesTile, Maps, TileInv
<1> QED
  BY <1>1, MapsInit, MapsNext, PTL DEF SpecRefusing

-----------------------------------------------------------------------------
(* The looking *)

\* The runs of the last sync are the readable ones as long as the generation is the
\* one they were read in; those read now are the ones taken up and those due.
RunsKnown ==
  /\ gen <= generation
  /\ Taking => device.due <= generation
  /\ ~Taking /\ gen = generation => runs = ReadableRuns(recorded, readable)
  /\ Taking /\ device.due = generation =>
       runs \cup device.todo = ReadableRuns(recorded, readable)

\* No page is committed or protected whose announcement is still to come.
Quiet == ~touched /\ guest.at # "record"

\* The writable pages among S are those the driver refused.
Accounted(S) == \A p \in S : host[p] = "rw" => p \in declined

\* A page that became writable since the pieces left out were looked at moved the
\* pages' generation, or is about to.
PagesKnown ==
  /\ pages <= pagesGen
  /\ device.at # "idle" => pages <= device.seen /\ device.seen <= pagesGen
  /\ Filling => pages # device.seen
  /\ ~Filling /\ Quiet /\ pages = pagesGen => Accounted(UNION left)
  /\ Filling /\ Quiet /\ device.seen = pagesGen =>
       Accounted((UNION left) \ ((UNION imports) \cup (UNION device.todo)))

\* What it maps and what it has seen.
Looked == Maps /\ RunsKnown /\ PagesKnown

-----------------------------------------------------------------------------
(* The runs *)

\* A step that leaves the runs alone keeps them known if it moves the generation
\* where it changes what is readable.
LEMMA SameRuns ==
  ASSUME Types, RunsKnown, UNCHANGED <<gen, runs>>,
         Taking' <=> Taking, Taking => UNCHANGED <<device.due, device.todo>>,
         \/ generation' = generation + 1
         \/ /\ generation' = generation
            /\ ReadableRuns(recorded', readable') = ReadableRuns(recorded, readable)
  PROVE  RunsKnown'
<1>1. device.due \in Int
  BY DEF Types, Work
<1> QED
  BY <1>1 DEF Types, RunsKnown

\* A guest that changes what is readable moves the generation, or had moved it.
LEMMA GuestRuns ==
  ASSUME Types, RunsKnown, Guest, ~\E r \in Reservations : Release(r)
  PROVE  RunsKnown'
<1>1. UNCHANGED <<gen, runs, device>>
  BY DEF Guest, Touch, Announce, Protected, Released, Free, Reserve, Protect, mapped
<1>2. Taking' <=> Taking
  BY <1>1 DEF Taking
<1>3. \/ generation' = generation + 1
      \/ /\ generation' = generation
         /\ ReadableRuns(recorded', readable') = ReadableRuns(recorded, readable)
  <2>1. CASE Protected
    BY <2>1 DEF Protected, Record, Types
  <2> QED
    BY <2>1 DEF Guest, Touch, Announce, Released, Free, Reserve, Protect, registry
<1> QED
  BY <1>1, <1>2, <1>3, SameRuns

\* A release that drops nothing leaves the runs as they are, and one that does forgets
\* their generation.
LEMMA ReleaseRuns ==
  ASSUME Types, RunsKnown, NEW r \in Reservations, Release(r)
  PROVE  RunsKnown'
<1>1. ~Taking /\ ~Taking' /\ UNCHANGED <<generation, recorded, readable>>
  BY DEF Release, Taking, registry
<1>2. (runs' = runs /\ gen' = gen) \/ gen' = NoGeneration
  BY DEF Release
<1>3. NoGeneration < generation
  BY DEF Types, NoGeneration
<1>4. generation \in Int /\ NoGeneration \in Int
  BY DEF Types, NoGeneration
<1>5. CASE runs' = runs /\ gen' = gen
  BY <1>1, <1>5 DEF RunsKnown
<1>6. CASE gen' = NoGeneration
  <2>1. gen' <= generation' /\ gen' # generation'
    BY <1>1, <1>3, <1>4, <1>6
  <2> QED
    BY <1>1, <2>1 DEF RunsKnown
<1> QED
  BY <1>2, <1>5, <1>6

\* Sync takes the generation it read the runs in, not the one it finds at the end.
LEMMA SyncRuns ==
  ASSUME Types, RunsKnown, Sync \/ TableRefused
  PROVE  RunsKnown'
<1>0. UNCHANGED <<generation, recorded, readable>> /\ generation \in Int /\ device.due \in Int
  <2>1. UNCHANGED registry
    BY Zenon DEF Sync, Lock, Runs, Taken, LeftOut, Filled, Table, Dispatch, Take, Fill, Import,
           Refill, TableRefused
  <2> QED
    BY <2>1 DEF registry, Types, Work
<1>1. CASE Runs
  <2>1. CASE gen = generation /\ table # NoTable
    <3>1. device'.at = "left" /\ device.at = "runs" /\ UNCHANGED <<gen, runs>>
      BY <1>1, <2>1 DEF Runs, Go, Types, Work
    <3>2. ~Taking /\ ~Taking'
      BY <3>1 DEF Taking
    <3> QED
      BY <1>0, <3>1, <3>2, SameRuns
  <2>2. CASE ~(gen = generation /\ table # NoTable)
    <3> DEFINE wanted == ReadableRuns(recorded, readable)
    <3>1. /\ device'.at = "take" /\ device'.due = generation
          /\ device'.todo = wanted \ (runs \cap wanted)
          /\ runs' = runs \cap wanted /\ gen' = gen
      BY <1>1, <2>2 DEF Runs, Types, Work
    <3>2. Taking'
      BY <3>1 DEF Taking
    <3>3. runs' \cup device'.todo = ReadableRuns(recorded', readable')
      BY <1>0, <3>1
    <3>4. gen' <= generation' /\ device'.due <= generation'
      BY <1>0, <3>1 DEF RunsKnown
    <3> QED
      BY <3>2, <3>3, <3>4 DEF RunsKnown
  <2> QED
    BY <2>1, <2>2
<1>2. CASE Taken
  <2>1. /\ device.at = "take" /\ device.todo = {} /\ device'.at = "left"
        /\ gen' = device.due /\ runs' = runs
    BY <1>2 DEF Taken, Go, Types, Work
  <2>2. Taking /\ ~Taking'
    BY <2>1 DEF Taking
  <2> QED
    BY <1>0, <2>1, <2>2 DEF RunsKnown
<1>3. CASE \E run \in device.todo : Take(run)
  <2>1. PICK run \in device.todo : Take(run)
    BY <1>3
  <2>2. /\ device.at = "take" /\ device'.at = "import"
        /\ device'.todo = device.todo /\ device'.due = device.due
        /\ runs' = runs \cup {run} /\ gen' = gen
    BY <2>1 DEF Take, Types, Work
  <2>3. Taking /\ Taking' /\ runs' \cup device'.todo = runs \cup device.todo
    BY <2>2 DEF Taking
  <2> QED
    BY <1>0, <2>2, <2>3 DEF RunsKnown
<1>4. CASE \E run \in device.todo : \E refused : Import(run, refused)
  <2>1. PICK run \in device.todo : \E refused : Import(run, refused)
    BY <1>4
  <2>2. /\ device.at = "import" /\ device'.at = "take" /\ run \in runs
        /\ device'.todo = device.todo \ {run} /\ device'.due = device.due
        /\ UNCHANGED <<runs, gen>>
    BY <2>1 DEF Import, Types, Work
  <2>3. Taking /\ Taking' /\ runs' \cup device'.todo = runs \cup device.todo
    BY <2>2 DEF Taking
  <2> QED
    BY <1>0, <2>2, <2>3 DEF RunsKnown
<1>5. CASE \/ Lock \/ LeftOut \/ Filled \/ Table \/ Dispatch \/ TableRefused
           \/ \E w \in device.todo : Fill(w) \/ \E refused : Refill(w, refused)
  <2>1. UNCHANGED <<gen, runs>>
    BY Zenon, <1>5 DEF Lock, LeftOut, Filled, Table, Dispatch, TableRefused, Fill, Refill, mapped
  <2>2. device.at \notin {"take", "import"}
    BY Zenon, <1>5 DEF Lock, LeftOut, Filled, Table, Dispatch, TableRefused, Fill, Refill
  <2>3. device'.at \notin {"take", "import"}
    <3>0. CASE Lock
      BY <3>0 DEF Lock, NoWork
    <3>1. CASE Dispatch \/ TableRefused
      BY <3>1 DEF Dispatch, TableRefused, NoWork
    <3>2. CASE Table
      BY <3>2 DEF Table, Go, NoWork, Types, Work
    <3>3. CASE LeftOut
      BY <3>3 DEF LeftOut, Go, Types, Work
    <3>4. CASE Filled
      BY <3>4 DEF Filled, Types, Work
    <3>5. CASE \E w \in device.todo : Fill(w) \/ \E refused : Refill(w, refused)
      BY <3>5 DEF Fill, Refill, Types, Work
    <3> QED
      BY <1>5, <3>0, <3>1, <3>2, <3>3, <3>4, <3>5
  <2>4. ~Taking /\ ~Taking'
    BY <2>2, <2>3 DEF Taking
  <2> QED
    BY <1>0, <2>1, <2>4, SameRuns
<1> QED
  BY <1>1, <1>2, <1>3, <1>4, <1>5 DEF Sync

-----------------------------------------------------------------------------
(* The pages *)

\* A step keeps the pages known that moves their generation, or is about to, or makes
\* none of them writable.
LEMMA SamePages ==
  ASSUME Types, PagesKnown, UNCHANGED <<pages, declined>>, left' \subseteq left,
         Filling' <=> Filling, Filling => UNCHANGED <<device.todo, imports>>,
         device'.at # "idle" => device.at # "idle" /\ device'.seen = device.seen,
         \/ pagesGen' = pagesGen + 1
         \/ pagesGen' = pagesGen /\ ~Quiet'
         \/ /\ pagesGen' = pagesGen /\ (Quiet' => Quiet)
            /\ \A p \in Pages : host'[p] = "rw" => host[p] = "rw"
  PROVE  PagesKnown'
<1>1. device.seen \in Int /\ pages \in Int /\ pagesGen \in Int
  BY DEF Types, Work
<1>2. /\ pages' <= pagesGen'
      /\ device'.at # "idle" => pages' <= device'.seen /\ device'.seen <= pagesGen'
  BY <1>1 DEF PagesKnown
<1>3. Filling => device.at # "idle" /\ device'.at # "idle"
  BY DEF Filling
<1>4. Filling' => pages' # device'.seen
  BY <1>3 DEF PagesKnown
<1>5. CASE pagesGen' = pagesGen + 1
  <2>1. pages <= pagesGen /\ (device.at # "idle" => device.seen <= pagesGen)
    BY DEF PagesKnown
  <2>2. pages' # pagesGen' /\ (Filling' => device'.seen # pagesGen')
    BY <1>1, <1>3, <1>5, <2>1
  <2> QED
    BY <1>2, <1>4, <2>2 DEF PagesKnown
<1>6. CASE pagesGen' = pagesGen /\ ~Quiet'
  BY <1>2, <1>4, <1>6 DEF PagesKnown
<1>7. CASE /\ pagesGen' = pagesGen /\ (Quiet' => Quiet)
           /\ \A p \in Pages : host'[p] = "rw" => host[p] = "rw"
  <2>1. UNION left' \subseteq UNION left /\ UNION left \subseteq Pages
    BY DEF Types
  <2>2. ~Filling' /\ Quiet' /\ pages' = pagesGen' => Accounted(UNION left)'
    BY <1>7, <2>1 DEF PagesKnown, Accounted
  <2>3. Filling' /\ Quiet' /\ device'.seen = pagesGen' =>
          Accounted((UNION left) \ ((UNION imports) \cup (UNION device.todo)))'
    BY <1>3, <1>7, <2>1 DEF PagesKnown, Accounted
  <2> QED
    BY <1>2, <1>4, <2>2, <2>3 DEF PagesKnown
<1> QED
  BY <1>5, <1>6, <1>7

\* A guest that makes a page writable moves the generation of the pages, or is about to.
LEMMA GuestPages ==
  ASSUME Types, PagesKnown, Guest
  PROVE  PagesKnown'
<1>1. device' = device /\ UNCHANGED <<pages, declined>> /\ left' \subseteq left
  BY DEF Guest, Release, Touch, Announce, Protected, Released, Free, Reserve, Protect, mapped
<1>2. Filling' <=> Filling
  BY <1>1 DEF Filling
<1>3. Filling => imports' = imports
  BY DEF Guest, Release, Touch, Announce, Protected, Released, Free, Reserve, Protect, mapped,
         Filling
<1>4. \/ pagesGen' = pagesGen + 1
      \/ pagesGen' = pagesGen /\ ~Quiet'
      \/ /\ pagesGen' = pagesGen /\ (Quiet' => Quiet)
         /\ \A p \in Pages : host'[p] = "rw" => host[p] = "rw"
  <2>1. CASE Announce \/ Protected
    BY <2>1 DEF Announce, Protected
  <2>2. CASE \E p \in Pages : Touch(p)
    BY <2>2 DEF Touch, Quiet
  <2>3. CASE \E S, protection : Protect(S, protection)
    <3>1. guest'.at = "record" /\ pagesGen' = pagesGen
      BY <2>3 DEF Protect
    <3> QED
      BY <3>1 DEF Quiet
  <2>4. CASE \E r \in Reservations : \E protection : Reserve(r, protection)
    BY <2>4 DEF Reserve, Quiet
  <2>5. CASE Released \/ Free
    BY <2>5 DEF Released, Free, Quiet, guestMemory
  <2>6. CASE \E r \in Reservations : Release(r)
    <3>1. guest.at = "idle" /\ UNCHANGED <<host, pagesGen, touched>>
      BY <2>6 DEF Release, guestMemory
    <3> QED
      BY <3>1 DEF Quiet
  <2> QED
    BY <2>1, <2>2, <2>3, <2>4, <2>5, <2>6 DEF Guest
<1> QED
  BY <1>1, <1>2, <1>3, <1>4, SamePages

\* commit moves the generation of the pages if it commits any.
LEMMA CommitPages ==
  ASSUME NEW S, Commit(S), UNCHANGED <<touched, guest>>
  PROVE  \/ pagesGen' = pagesGen + 1
         \/ /\ pagesGen' = pagesGen /\ (Quiet' => Quiet)
            /\ \A p \in Pages : host'[p] = "rw" => host[p] = "rw"
BY DEF Commit, Quiet

\* The steps of sync that look at no piece left out.
LEMMA OtherPages ==
  ASSUME Types, PagesKnown,
         \/ Runs \/ Taken \/ Table \/ TableRefused \/ Dispatch
         \/ \E s \in device.todo : Take(s) \/ Fill(s)
  PROVE  PagesKnown'
<1>1. UNCHANGED <<pages, declined>> /\ left' \subseteq left
  BY Zenon DEF Runs, Taken, Table, TableRefused, Dispatch, Take, Fill, mapped
<1>2. \/ device.at \notin {"idle", "fill", "refill"} /\ device'.at \notin {"fill", "refill"}
      \/ device.at = "fill" /\ device'.at = "refill" /\ UNCHANGED <<device.todo, imports>>
  <2>1. CASE Runs
    BY <2>1 DEF Runs, Go, Types, Work
  <2>2. CASE Taken
    BY <2>2 DEF Taken, Go, Types, Work
  <2>3. CASE Table
    BY <2>3 DEF Table, Go, NoWork, Types, Work
  <2>4. CASE TableRefused \/ Dispatch
    <3>1. device' = NoWork /\ device.at \in {"table", "dispatch"}
      BY <2>4 DEF TableRefused, Dispatch
    <3> QED
      BY <3>1 DEF NoWork
  <2>5. CASE \E s \in device.todo : Take(s)
    BY <2>5, CommitPlace DEF Take
  <2>6. CASE \E s \in device.todo : Fill(s)
    <3>1. PICK w \in device.todo : Fill(w)
      BY <2>6
    <3>2. {w} \cup device.todo = device.todo
      OBVIOUS
    <3> QED
      BY Zenon, <3>1, <3>2 DEF Fill, Types, Work, mapped
  <2> QED
    BY <2>1, <2>2, <2>3, <2>4, <2>5, <2>6
<1>3. device'.at # "idle" => device'.seen = device.seen
  <2>1. CASE Runs
    BY <2>1 DEF Runs, Go, Types, Work
  <2>2. CASE Taken
    BY <2>2 DEF Taken, Go, Types, Work
  <2>3. CASE Table
    BY <2>3 DEF Table, Go, NoWork, Types, Work
  <2>4. CASE TableRefused \/ Dispatch
    <3>1. device' = NoWork /\ device.at \in {"table", "dispatch"}
      BY <2>4 DEF TableRefused, Dispatch
    <3> QED
      BY <3>1 DEF NoWork
  <2>5. CASE \E s \in device.todo : Take(s) \/ Fill(s)
    BY Zenon, <2>5, CommitPlace
  <2> QED
    BY <2>1, <2>2, <2>3, <2>4, <2>5
<1>4. /\ Filling' <=> Filling
      /\ Filling => UNCHANGED <<device.todo, imports>>
      /\ device'.at # "idle" => device.at # "idle" /\ device'.seen = device.seen
  BY <1>2, <1>3 DEF Filling
<1>5. UNCHANGED <<touched, guest>>
  BY Zenon DEF Runs, Taken, Table, TableRefused, Dispatch, Take, Fill
<1>6. \/ \E S : Commit(S)
      \/ UNCHANGED <<host, pagesGen>>
  BY Zenon DEF Runs, Taken, Table, TableRefused, Dispatch, Take, Fill, guestMemory
<1>7. \/ pagesGen' = pagesGen + 1
      \/ /\ pagesGen' = pagesGen /\ (Quiet' => Quiet)
         /\ \A p \in Pages : host'[p] = "rw" => host[p] = "rw"
  BY <1>5, <1>6, CommitPages DEF Quiet
<1> QED
  BY <1>1, <1>4, <1>7, SamePages

\* The generation read before anything else is the one of the pages looked at.
LEMMA LockPages ==
  ASSUME Types, PagesKnown, Lock
  PROVE  PagesKnown'
<1>1. /\ device'.seen = pagesGen /\ ~Filling /\ ~Filling'
      /\ UNCHANGED <<pages, pagesGen, host, left, declined>> /\ (Quiet' <=> Quiet)
  BY DEF Lock, NoWork, Filling, Quiet, guestMemory, mapped
<1>2. pagesGen \in Int /\ pages \in Int /\ device'.seen <= pagesGen'
  BY <1>1 DEF Types
<1>3. pages' <= pagesGen' /\ pages' <= device'.seen
  BY <1>1 DEF PagesKnown
<1>4. Quiet' /\ pages' = pagesGen' => Accounted(UNION left)'
  BY <1>1 DEF PagesKnown, Accounted
<1> QED
  BY <1>1, <1>2, <1>3, <1>4 DEF PagesKnown

\* The pieces that are not looked at hold no committed page.
LEMMA LeftOutPages ==
  ASSUME Types, PagesKnown, LeftOut
  PROVE  PagesKnown'
<1>1. /\ UNCHANGED <<pages, pagesGen, host, left, imports, declined>> /\ (Quiet' <=> Quiet)
      /\ device.at = "left"
  BY DEF LeftOut, Quiet, guestMemory, mapped
<1>2. CASE pages = device.seen
  <2>1. device'.at = "table" /\ device'.seen = device.seen
    BY <1>2 DEF LeftOut, Go, Types, Work
  <2> QED
    BY <1>1, <2>1 DEF PagesKnown, Accounted, Filling
<1>3. CASE pages # device.seen
  <2> DEFINE open == UNION {s \in left : \E p \in s : host[p] \in Committed}
  <2>1. device'.at = "fill" /\ device'.seen = device.seen /\ device'.todo = Pieces(open)
    BY <1>3 DEF LeftOut, Types, Work
  <2>2. open \in SUBSET Nat
    BY PagesAreNumbers DEF Types
  <2>3. UNION device'.todo = open
    BY Zenon, <2>1, <2>2, PiecesCover
  <2>4. \A p \in (UNION left) \ open : host[p] # "rw"
    BY DEF Committed
  <2> HIDE DEF open
  <2>5. Accounted((UNION left) \ ((UNION imports) \cup (UNION device.todo)))'
    BY <1>1, <2>3, <2>4 DEF Accounted
  <2>6. Filling' /\ ~Filling
    BY <1>1, <2>1 DEF Filling
  <2> QED
    BY <1>1, <1>3, <2>1, <2>5, <2>6 DEF PagesKnown
<1> QED
  BY <1>2, <1>3

\* Of a window's writable pages the driver refused those that are not imported.
LEMMA RefillPages ==
  ASSUME Maps, PagesKnown, NEW window \in device.todo, NEW refused, Refill(window, refused)
  PROVE  PagesKnown'
<1> DEFINE rw == {p \in window : host[p] = "rw"}
           new == Pieces(rw) \ refused
<1>1. /\ device.at = "refill" /\ device'.at = "fill" /\ device'.seen = device.seen
      /\ device'.todo = device.todo \ {window}
  BY DEF Refill, Maps, Types, Work
<1>2. Filling /\ Filling'
  BY <1>1 DEF Filling
<1>3. /\ UNCHANGED <<pages, pagesGen, host, left>> /\ (Quiet' <=> Quiet)
      /\ imports' = imports \cup new /\ declined' = (declined \ window) \cup UNION refused
  BY DEF Refill, guestMemory, Quiet
<1>4. window \in SUBSET Nat
  BY PagesAreNumbers DEF Maps, Types, Work
<1>5. rw \in SUBSET Nat
  BY <1>4
<1>6. UNION Pieces(rw) = rw
  BY <1>5, PiecesCover
<1>7. ASSUME Filling, Quiet, device.seen = pagesGen,
             NEW p \in (UNION left') \ ((UNION imports') \cup (UNION device'.todo)),
             host[p] = "rw"
      PROVE  p \in declined'
  <2>1. CASE p \in window
    <3>1. p \in rw
      BY <1>7, <2>1
    <3>2. PICK s \in Pieces(rw) : p \in s
      BY <1>6, <3>1
    <3>3. s \in refused
      BY <1>3, <1>7, <3>2
    <3> QED
      BY <1>3, <3>2, <3>3
  <2>2. CASE p \notin window
    <3>1. p \in (UNION left) \ ((UNION imports) \cup (UNION device.todo))
      BY <1>1, <1>3, <1>7, <2>2
    <3>2. p \in declined
      BY <1>7, <3>1 DEF PagesKnown, Accounted
    <3> QED
      BY <1>3, <2>2, <3>2
  <2> QED
    BY <2>1, <2>2
<1> HIDE DEF rw, new
<1>8. Filling' /\ Quiet' /\ device'.seen = pagesGen' =>
        Accounted((UNION left) \ ((UNION imports) \cup (UNION device.todo)))'
  BY <1>1, <1>2, <1>3, <1>7 DEF Accounted
<1> QED
  BY <1>1, <1>2, <1>3, <1>8 DEF PagesKnown

\* After the windows, the pages of what is left out are those that were looked at.
LEMMA FilledPages ==
  ASSUME Maps, PagesKnown, Filled
  PROVE  PagesKnown'
<1>1. device.at = "fill" /\ device'.at = "table" /\ device'.seen = device.seen /\ device.todo = {}
  BY DEF Filled, Maps, Types, Work
<1>2. Filling /\ ~Filling' /\ device.seen \in Int
  BY <1>1 DEF Filling, Maps, Types, Work
<1>3. /\ UNCHANGED <<pagesGen, host, declined>> /\ (Quiet' <=> Quiet)
      /\ pages' = device.seen
  BY DEF Filled, guestMemory, Quiet
<1>4. UNION left' = (UNION left) \ UNION imports
  BY FilledMaps
<1>5. Quiet /\ device.seen = pagesGen => Accounted((UNION left) \ UNION imports)
  BY <1>1, <1>2 DEF PagesKnown, Accounted
<1>6. Quiet' /\ pages' = pagesGen' => Accounted(UNION left)'
  BY <1>3, <1>4, <1>5 DEF Accounted
<1>7. pages' <= pagesGen' /\ pages' <= device'.seen /\ device'.seen <= pagesGen'
  BY <1>1, <1>2, <1>3 DEF PagesKnown
<1> QED
  BY <1>2, <1>6, <1>7 DEF PagesKnown

\* A new run is apart from what was left out before.
LEMMA ImportPages ==
  ASSUME Maps, PagesKnown, NEW run \in device.todo, NEW refused, Import(run, refused)
  PROVE  PagesKnown'
<1> DEFINE rw == {p \in run : host[p] = "rw"}
           new == Pieces(rw) \ refused
           out == Pieces(run \ UNION new)
<1>1. /\ device.at = "import" /\ device'.at = "take" /\ device'.seen = device.seen /\ run \in runs
  BY DEF Import, Maps, Types, Work
<1>2. ~Filling /\ ~Filling' /\ Due = device.todo
  BY <1>1 DEF Filling, Due, Taking
<1>3. /\ UNCHANGED <<pages, pagesGen, host>> /\ (Quiet' <=> Quiet)
      /\ left' = left \cup out /\ declined' = (declined \ run) \cup UNION refused
  BY DEF Import, guestMemory, Quiet
<1>4. run \in SUBSET Nat /\ runs \in SUBSET SUBSET Nat /\ Strewn(runs)
  <2>1. Strewn(runs)
    BY FewerStrewn DEF Maps, RunsInv
  <2>2. runs \in SUBSET SUBSET Nat
    BY RunsAreNumbers DEF Maps
  <2> QED
    BY <1>1, <2>1, <2>2
<1>5. rw \in SUBSET Nat /\ run \ UNION new \in SUBSET Nat
  BY <1>4
<1>6. UNION Pieces(rw) = rw /\ UNION out = run \ UNION new
  BY <1>5, PiecesCover
<1>7. ASSUME NEW p \in UNION left PROVE p \notin run
  <2>1. PICK s \in left : p \in s
    OBVIOUS
  <2>2. PICK u \in Settled : s \subseteq u
    BY <2>1 DEF Maps, TileInv
  <2>3. u \in runs /\ u # run
    BY <1>2, <2>2 DEF Settled
  <2> QED
    BY <1>1, <1>4, <2>1, <2>2, <2>3, OneOfStrewn DEF Meet
<1>8. ASSUME Quiet, pages = pagesGen, NEW p \in UNION left', host[p] = "rw"
      PROVE  p \in declined'
  <2>1. CASE p \in UNION left
    BY <1>2, <1>3, <1>7, <1>8, <2>1 DEF PagesKnown, Accounted
  <2>2. CASE p \in UNION out
    <3>1. p \in rw /\ p \notin UNION new
      BY <1>6, <1>8, <2>2
    <3>2. PICK s \in Pieces(rw) : p \in s
      BY <1>6, <3>1
    <3> QED
      BY <1>3, <3>1, <3>2
  <2> QED
    BY <1>3, <2>1, <2>2
<1> HIDE DEF rw, new, out
<1>9. Quiet' /\ pages' = pagesGen' => Accounted(UNION left)'
  BY <1>3, <1>8 DEF Accounted
<1> QED
  BY <1>1, <1>2, <1>3, <1>9 DEF PagesKnown

-----------------------------------------------------------------------------
(* What the device has seen *)

\* Nothing has been looked at in the beginning, and no generation matches,
LEMMA LookedInit == Init => Looked
<1> SUFFICES ASSUME Init PROVE Looked
  OBVIOUS
<1>1. ~Taking /\ ~Filling /\ device.at = "idle" /\ gen = -1 /\ pages = -1
  BY DEF Init, NoWork, Taking, Filling, NoGeneration
<1>2. generation \in Nat /\ pagesGen \in Nat /\ left = {}
  BY DEF Init
<1>3. RunsKnown
  BY <1>1, <1>2 DEF RunsKnown
<1>4. PagesKnown
  BY <1>1, <1>2 DEF PagesKnown
<1> QED
  BY <1>3, <1>4, MapsInit DEF Looked

\* and every step keeps what the device believes it has seen.
LEMMA LookedNext ==
  ASSUME ReservationsApart, Looked, [NextRefusing]_vars
  PROVE  Looked'
<1>0. Types /\ Maps /\ RunsKnown /\ PagesKnown
  BY DEF Looked, Maps
<1>1. Maps'
  BY <1>0, MapsNext
<1>2. CASE Guest
  BY <1>0, <1>1, <1>2, GuestRuns, ReleaseRuns, GuestPages DEF Looked
<1>3. CASE Sync \/ TableRefused
  <2>1. RunsKnown'
    BY <1>0, <1>3, SyncRuns
  <2>2. PagesKnown'
    BY <1>0, <1>3, OtherPages, LockPages, LeftOutPages, RefillPages, FilledPages, ImportPages
       DEF Sync
  <2> QED
    BY <1>1, <2>1, <2>2 DEF Looked
<1>4. CASE UNCHANGED vars
  BY Zenon, <1>0, <1>1, <1>4 DEF Looked, vars, guestMemory, registry, mapped, RunsKnown, PagesKnown,
     Taking, Filling, Quiet, Accounted
<1> QED
  BY <1>2, <1>3, <1>4 DEF Next, NextRefusing

\* When the generations match between two syncs, the runs are the readable ones and
\* no writable page is left out but those the driver declined: no change of the guest
\* falls between the reading of a generation and the work done for it (direct.rs,
\* sync; mappings.rs, generation and pages_generation).
THEOREM PagesLookedAt ==
  ASSUME ReservationsApart
  PROVE  SpecRefusing => []LookedAgain
<1>1. Looked => LookedAgain
  <2> SUFFICES ASSUME Looked, device.at = "idle", guest.at = "idle", ~touched,
                      gen = generation, pages = pagesGen
               PROVE  /\ runs = ReadableRuns(recorded, readable)
                      /\ \A p \in UNION left : host[p] = "rw" => p \in declined
    BY DEF LookedAgain
  <2>1. ~Taking /\ ~Filling /\ Quiet
    BY DEF Taking, Filling, Quiet
  <2> QED
    BY <2>1 DEF Looked, RunsKnown, PagesKnown, Accounted
<1> QED
  BY <1>1, LookedInit, LookedNext, PTL DEF SpecRefusing
=============================================================================
