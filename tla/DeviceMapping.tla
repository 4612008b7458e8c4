---------------------------- MODULE DeviceMapping ----------------------------
(***************************************************************************)
(* Guest memory mapped into the device: the record of readable runs        *)
(* (orbistoun-mem's mappings.rs), host pages committed on touch (lazy.rs), *)
(* and the imports and table a dispatch runs over (direct.rs of            *)
(* orbistoun-gpu-vulkan).                                                  *)
(*                                                                         *)
(* Three sides meet.  The guest reserves, protects and releases memory,    *)
(* one call at a time (the address space is locked).  Its threads touch    *)
(* pages, which commits them.  The device thread syncs its mappings and    *)
(* runs a dispatch, holding the lock of Mapped from "pages" to "idle"; the *)
(* release hook takes that lock too.                                       *)
(***************************************************************************)
EXTENDS Integers, FiniteSets

CONSTANTS
  Reservations,   \* the ranges the guest reserves
  Span,           \* their pages
  MaxGeneration,  \* bound on changes of the readable runs
  MaxPages        \* bound on the guest's changes of host pages

Pages == UNION {Span[r] : r \in Reservations}

ASSUME MappingAssumption ==
  /\ \A r \in Reservations : Span[r] # {} /\ Span[r] \subseteq Nat /\ IsFiniteSet(Span[r])
  /\ \A r, s \in Reservations : r # s => Span[r] \cap Span[s] = {}

VARIABLES
  host,       \* each page: "free", "reserved" (uncommitted), or its protection
  prot,       \* the protection the guest last set (lazy.rs, protections)
  recorded, readable, generation, pagesGen,          \* mappings.rs
  gen, pages, runs, imports, left, table,            \* direct.rs, Mapped
  device,     \* where the device thread is in run_mapped
  guest,      \* the guest's call in progress
  touched,    \* a page is committed and its commit not announced
  declined    \* history: the pages the driver refused when last asked

guestMemory == <<host, prot>>
registry == <<recorded, readable, generation>>
mapped == <<gen, pages, runs, imports, left, table>>
vars == <<guestMemory, registry, pagesGen, mapped, device, guest, touched, declined>>

Protections == {"none", "ro", "rw"}
Committed == {"ro", "rw"}       \* what committed_runs keeps of committed pages
NoGeneration == -1
NoTable == {{}}

NoWork == [at |-> "idle", seen |-> 0, due |-> NoGeneration, todo |-> {}, remapped |-> FALSE]
NoCall == [at |-> "idle", pages |-> {}, prot |-> "none"]

TypeOK ==
  /\ host \in [Pages -> {"free", "reserved"} \cup Protections]
  /\ prot \in [Pages -> Protections]
  /\ recorded \subseteq Reservations /\ readable \subseteq Pages
  /\ generation \in Nat /\ pagesGen \in Nat
  /\ gen \in Nat \cup {NoGeneration} /\ pages \in Nat \cup {NoGeneration}
  /\ runs \subseteq SUBSET Pages /\ imports \subseteq SUBSET Pages
  /\ left \subseteq SUBSET Pages
  /\ table = NoTable \/ table \subseteq SUBSET Pages
  /\ device.at \in {"idle", "runs", "take", "import", "left", "fill", "refill", "table", "dispatch"}
  /\ guest.at \in {"idle", "record", "unrecord", "free"}
  /\ touched \in BOOLEAN /\ declined \subseteq Pages

Init ==
  /\ host = [p \in Pages |-> "free"] /\ prot = [p \in Pages |-> "none"]
  /\ recorded = {} /\ readable = {} /\ generation = 0 /\ pagesGen = 0
  /\ gen = NoGeneration /\ pages = NoGeneration
  /\ runs = {} /\ imports = {} /\ left = {} /\ table = NoTable
  /\ device = NoWork /\ guest = NoCall /\ touched = FALSE /\ declined = {}

-----------------------------------------------------------------------------
(* Ranges as sets of pages *)

Meet(a, b) == a \cap b # {}

\* The maximal stretches of S.
Pieces(S) == {{q \in S : (p..q) \cup (q..p) \subseteq S} : p \in S}

\* Registry::readable_runs: stretches of one reservation each.
ReadableRuns(res, readables) == UNION {Pieces(Span[r] \cap readables) : r \in res}

\* What of a range none of the imports starting in it covers (gaps).
StartsIn(import, piece) == \E p \in import : p \in piece /\ \A q \in import : p <= q
\* Mutant: the whole range stays.
GapsAll(piece, held) == {piece}

Gaps(piece, held) == Pieces(piece \ UNION {i \in held : StartsIn(i, piece)})

-----------------------------------------------------------------------------
(* Host pages committed *)

\* lazy::commit over S, by the recorded protections; pages_changed if any was.
Uncommitted(S) == {p \in S : host[p] = "reserved" /\ prot[p] # "none"}

Commit(S) ==
  /\ host' = [p \in Pages |-> IF p \in Uncommitted(S) THEN prot[p] ELSE host[p]]
  /\ pagesGen' = IF Uncommitted(S) = {} THEN pagesGen ELSE pagesGen + 1

\* commit_on_touch, of a page of any guest thread, and the announcement after it.
Touch(p) ==
  /\ ~touched /\ pagesGen < MaxPages
  /\ Uncommitted({p}) # {}
  /\ host' = [host EXCEPT ![p] = prot[p]]
  /\ touched' = TRUE
  /\ UNCHANGED <<prot, registry, pagesGen, mapped, device, guest, declined>>

Announce ==
  /\ touched
  /\ touched' = FALSE
  /\ pagesGen' = pagesGen + 1
  /\ UNCHANGED <<guestMemory, registry, mapped, device, guest, declined>>

-----------------------------------------------------------------------------
(* The guest's calls *)

\* A change of the recorded runs moves the generation.
Record(res, readables) ==
  /\ recorded' = res /\ readable' = readables
  /\ generation' = generation +
       (IF ReadableRuns(res, readables) # ReadableRuns(recorded, readable) THEN 1 ELSE 0)

Reserve(r, protection) ==
  /\ guest.at = "idle" /\ r \notin recorded /\ generation < MaxGeneration
  /\ \A p \in Span[r] : host[p] = "free"
  /\ host' = [p \in Pages |-> IF p \in Span[r] THEN "reserved" ELSE host[p]]
  /\ prot' = [p \in Pages |-> IF p \in Span[r] THEN protection ELSE prot[p]]
  /\ recorded' = recorded \cup {r}
  /\ readable' = IF protection = "none" THEN readable \ Span[r] ELSE readable \cup Span[r]
  /\ generation' = generation + 1
  /\ UNCHANGED <<pagesGen, mapped, device, guest, touched, declined>>

\* platform::protect: the host's pages first...
Protect(S, protection) ==
  /\ guest.at = "idle" /\ ~touched
  /\ generation < MaxGeneration /\ pagesGen < MaxPages
  /\ \A p \in S : prot[p] # protection
  /\ prot' = [p \in Pages |-> IF p \in S THEN protection ELSE prot[p]]
  /\ host' = [p \in Pages |-> IF p \in S /\ host[p] # "reserved" THEN protection ELSE host[p]]
  /\ guest' = [at |-> "record", pages |-> S, prot |-> protection]
  /\ UNCHANGED <<registry, pagesGen, mapped, device, touched, declined>>

\* ... then the record, and the pages' generation.
Protected ==
  /\ guest.at = "record"
  /\ Record(recorded, IF guest.prot = "none" THEN readable \ guest.pages
                      ELSE readable \cup guest.pages)
  /\ pagesGen' = pagesGen + 1
  /\ guest' = NoCall
  /\ UNCHANGED <<guestMemory, mapped, device, touched, declined>>

\* AddressSpace::release: the hook, which waits for the lock and drops what the
\* device maps of the range...
\* Mutant: the generation stays.
ReleaseUnseen(r) ==
  /\ guest.at = "idle" /\ r \in recorded /\ generation < MaxGeneration
  /\ device.at = "idle"
  /\ LET apart(S) == ~Meet(S, Span[r])
     IN /\ imports' = {i \in imports : apart(i)}
        /\ runs' = {s \in runs : apart(s)}
        /\ left' = {s \in left : apart(s)}
  /\ guest' = [at |-> "unrecord", pages |-> Span[r], prot |-> "none"]
  /\ UNCHANGED <<guestMemory, registry, pagesGen, gen, pages, table, device, touched, declined>>

Release(r) ==
  /\ guest.at = "idle" /\ r \in recorded /\ generation < MaxGeneration
  /\ device.at = "idle"
  /\ LET apart(S) == ~Meet(S, Span[r])
     IN /\ imports' = {i \in imports : apart(i)}
        /\ runs' = {s \in runs : apart(s)}
        /\ left' = {s \in left : apart(s)}
  /\ gen' = IF imports' # imports \/ runs' # runs THEN NoGeneration ELSE gen
  /\ guest' = [at |-> "unrecord", pages |-> Span[r], prot |-> "none"]
  /\ UNCHANGED <<guestMemory, registry, pagesGen, pages, table, device, touched, declined>>

\* ... then the record goes...
Released ==
  /\ guest.at = "unrecord"
  /\ recorded' = {r \in recorded : Span[r] # guest.pages}
  /\ readable' = readable \ guest.pages
  /\ generation' = generation + 1
  /\ guest' = [guest EXCEPT !.at = "free"]
  /\ UNCHANGED <<guestMemory, pagesGen, mapped, device, touched, declined>>

\* ... and the host's memory.
Free ==
  /\ guest.at = "free" /\ ~touched
  /\ host' = [p \in Pages |-> IF p \in guest.pages THEN "free" ELSE host[p]]
  /\ prot' = [p \in Pages |-> IF p \in guest.pages THEN "none" ELSE prot[p]]
  /\ guest' = NoCall
  /\ UNCHANGED <<registry, pagesGen, mapped, device, touched, declined>>

-----------------------------------------------------------------------------
(* The device thread: sync *)

Go(place) == device' = [device EXCEPT !.at = place]

\* run_mapped takes the lock; sync reads the pages' generation before anything.
Lock ==
  /\ device.at = "idle"
  /\ device' = [NoWork EXCEPT !.at = "runs", !.seen = pagesGen, !.remapped = table = NoTable]
  /\ UNCHANGED <<guestMemory, registry, pagesGen, mapped, guest, touched, declined>>

\* Where the runs changed, what is no longer one is dropped, and each new one is
\* to be taken up.
Runs ==
  /\ device.at = "runs"
  /\ IF gen = generation /\ table # NoTable
     THEN Go("left") /\ UNCHANGED <<runs, imports, left>>
     ELSE LET wanted == ReadableRuns(recorded, readable)
              kept == runs \cap wanted
              inRun(S) == \E s \in kept : S \subseteq s
          IN /\ runs' = kept
             /\ imports' = {i \in imports : inRun(i)}
             /\ left' = {s \in left : inRun(s)}
             /\ device' = [device EXCEPT !.at = "take", !.due = generation,
                                         !.todo = wanted \ kept, !.remapped = TRUE]
  /\ UNCHANGED <<guestMemory, registry, pagesGen, gen, pages, table, guest, touched, declined>>

\* A new run is committed...
Take(run) ==
  /\ device.at = "take" /\ run \in device.todo
  /\ Commit(run)
  /\ device' = [device EXCEPT !.at = "import", !.todo = {run} \cup @]
  /\ runs' = runs \cup {run}
  /\ UNCHANGED <<prot, registry, gen, pages, imports, left, table, guest, touched, declined>>

\* ... and its writable pages imported, a piece the driver refuses left out too.
Import(run, refused) ==
  /\ device.at = "import" /\ run \in device.todo \cap runs
  /\ LET writable == Pieces({p \in run : host[p] = "rw"})
     IN /\ refused \subseteq writable
        /\ imports' = imports \cup (writable \ refused)
        /\ left' = left \cup Pieces(run \ UNION (writable \ refused))
        /\ declined' = (declined \ run) \cup UNION refused
  /\ device' = [device EXCEPT !.at = "take", !.todo = @ \ {run}]
  /\ UNCHANGED <<guestMemory, registry, pagesGen, gen, pages, runs, table, guest, touched>>

Taken ==
  /\ device.at = "take" /\ device.todo = {}
  /\ gen' = device.due
  /\ Go("left")
  /\ UNCHANGED <<guestMemory, registry, pagesGen, pages, runs, imports, left, table, guest, touched, declined>>

-----------------------------------------------------------------------------
(* sync, the pieces left out *)

\* map_left_out, where the pages' generation moved: the pieces with a committed page,
\* joined where they touch, are committed...
LeftOut ==
  /\ device.at = "left"
  /\ IF pages = device.seen
     THEN Go("table")
     ELSE device' = [device EXCEPT !.at = "fill",
            !.todo = Pieces(UNION {s \in left : \E p \in s : host[p] \in Committed})]
  /\ UNCHANGED <<guestMemory, registry, pagesGen, mapped, guest, touched, declined>>

Fill(window) ==
  /\ device.at = "fill" /\ window \in device.todo
  /\ Commit(window)
  /\ device' = [device EXCEPT !.at = "refill", !.todo = {window} \cup @]
  /\ UNCHANGED <<prot, registry, mapped, guest, touched, declined>>

\* ... and their writable pages imported...
Refill(window, refused) ==
  /\ device.at = "refill" /\ window \in device.todo
  /\ LET writable == Pieces({p \in window : host[p] = "rw"})
     IN /\ refused \subseteq writable
        /\ imports' = imports \cup (writable \ refused)
        /\ declined' = (declined \ window) \cup UNION refused
  /\ device' = [device EXCEPT !.at = "fill", !.todo = @ \ {window}]
  /\ UNCHANGED <<guestMemory, registry, pagesGen, gen, pages, runs, left, table, guest, touched>>

\* ... and what is still left out is what no import covers.  The generation the
\* pieces were looked at in is the one read first.
\* Mutant: it is the one now.
FilledAsNow ==
  /\ device.at = "fill" /\ device.todo = {}
  /\ left' = UNION {Gaps(s, imports) : s \in left}
  /\ pages' = pagesGen
  /\ device' = [device EXCEPT !.at = "table",
       !.remapped = @ \/ \E s \in left : \E i \in imports : Meet(i, s)]
  /\ UNCHANGED <<guestMemory, registry, pagesGen, gen, runs, imports, table, guest, touched, declined>>

Filled ==
  /\ device.at = "fill" /\ device.todo = {}
  /\ left' = UNION {Gaps(s, imports) : s \in left}
  /\ pages' = device.seen
  /\ device' = [device EXCEPT !.at = "table",
       !.remapped = @ \/ \E s \in left : \E i \in imports : Meet(i, s)]
  /\ UNCHANGED <<guestMemory, registry, pagesGen, gen, runs, imports, table, guest, touched, declined>>

-----------------------------------------------------------------------------
(* The table, and the dispatch *)

\* The table is built again where anything was mapped.  Placing it may fail, after
\* the old one is gone: the dispatch is refused.
Table ==
  /\ device.at = "table"
  /\ \/ /\ ~device.remapped /\ table # NoTable
        /\ Go("dispatch") /\ UNCHANGED table
     \/ /\ device.remapped
        /\ table' = imports /\ Go("dispatch")
     \/ /\ device.remapped
        /\ table' = NoTable /\ device' = NoWork
  /\ UNCHANGED <<guestMemory, registry, pagesGen, gen, pages, runs, imports, left, guest, touched, declined>>

\* Building it may fail before: the dispatch is refused with the old one in place.
TableRefused ==
  /\ device.at = "table" /\ device.remapped
  /\ device' = NoWork
  /\ UNCHANGED <<guestMemory, registry, pagesGen, mapped, guest, touched, declined>>

\* The dispatch ends, with no access escaped, or with one whose piece left out is
\* committed for the next.
Dispatch ==
  /\ device.at = "dispatch"
  /\ \/ UNCHANGED <<host, pagesGen>>
     \/ \E s \in left : Commit(s)
  /\ device' = NoWork
  /\ UNCHANGED <<prot, registry, mapped, guest, touched, declined>>

-----------------------------------------------------------------------------

Sync ==
  \/ Lock \/ Runs \/ Taken \/ LeftOut \/ Filled \/ Table \/ Dispatch
  \/ \E s \in device.todo :
       \/ Take(s) \/ Fill(s)
       \/ \E refused \in SUBSET Pieces({p \in s : host[p] = "rw"}) :
            Import(s, refused) \/ Refill(s, refused)

Guest ==
  \/ \E r \in Reservations :
       \/ Release(r)
       \/ \E protection \in {"none", "rw"} : Reserve(r, protection)
       \/ r \in recorded /\ \E S \in {Span[r]} \cup {{p} : p \in Span[r]}, protection \in Protections :
                               Protect(S, protection)
  \/ Protected \/ Released \/ Free
  \/ \E p \in Pages : Touch(p)
  \/ Announce

Next == Guest \/ Sync

Spec == Init /\ [][Next]_vars

\* The same where building the table may fail too.
NextRefusing == Next \/ TableRefused

SpecRefusing == Init /\ [][NextRefusing]_vars

-----------------------------------------------------------------------------
(* Properties *)

\* A dispatch runs over a table that names exactly what is imported: whatever a
\* release dropped since the last dispatch is out of it (direct.rs, release and
\* sync).
TableIsImports == device.at = "dispatch" => table = imports

\* Between dispatches every run taken up is tiled by what is imported of it and what
\* is left out of it: no page of a run is lost to both, and none is in both
\* (direct.rs, sync and map_left_out).
PiecesTile ==
  device.at = "idle" =>
    /\ (UNION imports) \cup (UNION left) = UNION runs
    /\ \A s, t \in imports \cup left : s # t => ~Meet(s, t)
    /\ imports \cap left = {}

\* A dispatch whose memory nobody changed since it last synced maps every page it
\* may: a page is left out only if it was not committed and writable, or the driver
\* refused it (direct.rs, sync: "so a commit made meanwhile is looked at next time").
LookedAgain ==
  /\ device.at = "idle" /\ guest.at = "idle" /\ ~touched
  /\ table # NoTable /\ gen = generation /\ pages = pagesGen
  => /\ runs = ReadableRuns(recorded, readable)
     /\ \A p \in UNION left : host[p] = "rw" => p \in declined

\* What the module comment says: a run is never left mapped into the device once its
\* host memory is released (mappings.rs).
ImportsAreLive == \A i \in imports : \A p \in i : host[p] # "free"

\* What the comment on readable_runs says: one host mapping does not span two
\* reservations (mappings.rs).
OneReservation == \A i \in imports : \E r \in Reservations : i \subseteq Span[r]
=============================================================================
