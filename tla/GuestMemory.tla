------------------------------ MODULE GuestMemory ------------------------------
(***************************************************************************)
(* A guest's direct memory: the pool it allocates physical memory from,    *)
(* the tables that give it addresses, and the arena of addresses the       *)
(* emulator chooses, all of orbistoun-kernel/src/lib.rs with direct.rs and *)
(* quarantine.rs, over AddressSpace of orbistoun-mem/src/lib.rs.           *)
(*                                                                         *)
(* pool is the list of DirectPool.  regions is the address space, base to  *)
(* length; placed the regions a call placed whole, which an unmap may      *)
(* release; aliases where each physical offset is mapped and by how many   *)
(* views; held the released slots that wait, oldest first, and next the    *)
(* arena's counter.  Each table has a host mutex of its own.  Only two are *)
(* held over more than one step: space, of the regions, while a placement  *)
(* looks for another address, and placer, of placed, during a release.     *)
(*                                                                         *)
(* call[t] is the call thread t is in.  views is a history: the bag of     *)
(* mappings the guest was answered and has not unmapped.  Addresses and    *)
(* lengths count pages, which are also the units of placement.             *)
(***************************************************************************)
EXTENDS DirectPool, FiniteSets

CONSTANTS
  Threads,
  NoThread,     \* nobody has a lock
  Low,          \* pages of the pool held back
  PoolSize,     \* pages of the pool
  Lens,         \* the lengths guests ask for
  Aligns,       \* the alignments guests ask for
  Names,        \* the addresses guests name for direct memory
  Spots,        \* ... and for mmap and reserve_virtual_range
  HostPages,    \* pages the host holds for itself
  ArenaBase,    \* MAPPING_BASE, above every name
  ArenaEnd,     \* bound on the arena's counter where a call starts
  Depth,        \* quarantine::DEPTH
  Retries,      \* CONFLICT_RETRIES
  MaxViews,     \* bound on mappings held, asked for or in quarantine
  MaxRanges,    \* bound on address ranges reserved
  MaxRegions,   \* bound on regions where a call starts
  Edges,        \* the search limits guests give, 0 for none
  Rules         \* what guests keep to when they map: "care", "apart", "once"

ASSUME MemoryAssumption ==
  /\ NoThread \notin Threads
  /\ Low \in Nat /\ PoolSize \in Nat /\ Low < PoolSize
  /\ Lens \subseteq Nat \ {0} /\ Aligns \subseteq Nat \ {0}
  /\ Names \cup Spots \subseteq 1..(ArenaBase - 1)
  /\ Edges \subseteq 0..PoolSize
  /\ Rules \subseteq {"care", "apart", "once"}

VARIABLES pool, aliases, placed, regions, held, next, space, placer, call, views

tables == <<aliases, placed, regions>>
arena == <<held, next>>
locks == <<space, placer>>
vars == <<pool, tables, arena, locks, call, views>>

Pages(base, len) == base..(base + len - 1)

Meet(base, len, other, size) == Pages(base, len) \cap Pages(other, size) # {}

\* The function f with k mapped to v, and without the keys of K.
With(f, k, v) == [x \in DOMAIN f \cup {k} |-> IF x = k THEN v ELSE f[x]]
Without(f, K) == [x \in DOMAIN f \ K |-> f[x]]

\* ... and with every pair of a set of pairs.
WithAll(f, pairs) ==
  [x \in DOMAIN f \cup {p[1] : p \in pairs} |->
     IF \E p \in pairs : p[1] = x THEN (CHOOSE p \in pairs : p[1] = x)[2] ELSE f[x]]

Idle == [at |-> "idle"]

View(direct, physical, base, len) ==
  [direct |-> direct, physical |-> physical, base |-> base, len |-> len]

Held == BagToSet(views)

Init ==
  /\ pool = ReservedLow(Low, PoolSize)
  /\ aliases = <<>> /\ placed = <<>> /\ regions = <<>>
  /\ held = <<>>
  /\ next = ArenaBase
  /\ space = NoThread /\ placer = NoThread
  /\ call = [t \in Threads |-> Idle]
  /\ views = EmptyBag

\* Calls that are placing memory, and calls that are unmapping a range.
Mapping(t) == call[t].at \in {"place", "hint", "retry", "cover", "lay", "record", "alias"}
Unmapping(t) == call[t].at \in {"release", "each", "free"}

Goto(t, record) == call' = [call EXCEPT ![t] = record]
Return(t) == Goto(t, Idle)

-----------------------------------------------------------------------------
(* The address space *)

\* owns: inside one region.
Owns(base, len) ==
  \E b \in DOMAIN regions : Pages(base, len) \subseteq Pages(b, regions[b])

\* The regions a range shares a page with.
Covered(base, len) == {b \in DOMAIN regions : Meet(base, len, b, regions[b])}

\* reserve: refused over a region, and by the host over what it holds.
Reservable(base, len) ==
  Covered(base, len) = {} /\ Pages(base, len) \cap HostPages = {}

FirstFree(hint, len, align) ==
  LET ends == {b + regions[b] : b \in DOMAIN regions}
      free == {s \in {UpTo(e, align) : e \in ends \cup {hint}} :
                 s >= hint /\ Covered(s, len) = {}}
  IN  Min(free)

-----------------------------------------------------------------------------
(* next_mapping_base and the quarantine *)

\* Mutant: the length alone, with no room to round the start up.
SlotBare(len, align) == len

\* What a mapping takes from the arena: room to round its start up, and a page
\* more.
Slot(len, align) == len + (align - 1) + 1

\* take: the oldest released slot, once enough newer ones follow and it is wide
\* enough.  No unmap lasts DEPTH releases, so none still reaches it.
Reusable(span) ==
  /\ Len(held) > Depth /\ held[1].span >= span
  /\ \A t \in Threads : Unmapping(t) => held[1].base \notin Pages(call[t].base, call[t].len)

\* The base a slot taken now would give.
NextBase(len, align) ==
  UpTo(IF Reusable(Slot(len, align)) THEN held[1].base ELSE next, align)

TakeSlot(len, align) ==
  IF Reusable(Slot(len, align))
  THEN held' = Tail(held) /\ UNCHANGED next
  ELSE next' = next + Slot(len, align) /\ UNCHANGED held

-----------------------------------------------------------------------------
(* The aliases, and the rules guests may keep to *)

\* The pieces that [physical, physical + len) is mapped in as one run, each at
\* the address the one before ends at; none when it is not.
ContiguousAlias(physical, len) ==
  LET end == physical + len
      walk[p \in physical..end] ==
        IF \/ p \notin DOMAIN aliases
           \/ aliases[p].base # aliases[physical].base + (p - physical)
        THEN {}
        ELSE IF p + aliases[p].len >= end THEN {p}
        ELSE LET rest == walk[p + aliases[p].len]
             IN  IF rest = {} THEN {} ELSE {p} \cup rest
  IN  walk[physical]

\* "care": a physical range is mapped by one thread at a time, memory that is
\* mapped is mapped again from where a mapping of it starts and no further than
\* it goes, and an address is named by one thread at a time, where nothing is
\* mapped, and not while anything is unmapped.
Considerate(t, physical, len, name) ==
  "care" \in Rules =>
    /\ \A p \in DOMAIN aliases : Meet(physical, len, p, aliases[p].len) =>
         p \in ContiguousAlias(physical, len)
    /\ \A o \in Threads : Mapping(o) /\ call[o].direct =>
         ~Meet(physical, len, call[o].physical, call[o].len)
    /\ name # 0 =>
         /\ \A o \in Threads : ~Unmapping(o) /\ ~(Mapping(o) /\ call[o].named)
         /\ \A b \in DOMAIN placed : ~Meet(name, len, b, placed[b])
         /\ \A p \in DOMAIN aliases : ~Meet(name, len, aliases[p].base, aliases[p].len)

\* "once": memory that lies in several placements, as a map over others leaves
\* it, is mapped by one view.
Once(physical) ==
  "once" \in Rules /\ physical \in DOMAIN aliases =>
    LET alias == aliases[physical]
    IN  \A b \in DOMAIN placed : Meet(alias.base, alias.len, b, placed[b]) =>
          Pages(alias.base, alias.len) \subseteq Pages(b, placed[b])

\* Memory the guest allocated; "apart": and whose release, when it was released
\* before, has returned.
Allocated(physical, len) ==
  /\ \E i \in DOMAIN pool :
       /\ pool[i].taken /\ physical >= Low
       /\ pool[i].start <= physical /\ physical + len <= pool[i].end
  /\ "apart" \in Rules => \A o \in Threads : call[o].at = "forget" =>
       ~Meet(physical, len, call[o].physical, call[o].len)

Room ==
  LET asking == Cardinality({t \in Threads : Mapping(t)})
  IN  /\ BagCardinality(views) + Len(held) + asking < MaxViews
      /\ Cardinality(DOMAIN regions) + Len(held) + asking < MaxRegions

-----------------------------------------------------------------------------
(* allocate_main_direct_memory, allocate_direct_memory,                    *)
(* release_direct_memory                                                   *)

\* allocate_main_direct_memory searches from the bottom, with no limit.
AllocateMain(t, len, align) ==
  /\ call[t] = Idle
  /\ Fits(pool, 0, len, align) # {}
  /\ pool' = Allocate(pool, 0, len, align)
  /\ UNCHANGED <<tables, arena, locks, call, views>>

\* The limit is looked at afterwards, and what ends past it is given back.
AllocateDirect(t, from, to, len, align) ==
  /\ call[t] = Idle
  /\ Fits(pool, from, len, align) # {}
  /\ LET at == AllocatedAt(pool, from, len, align)
         new == Allocate(pool, from, len, align)
     IN  pool' = IF to # 0 /\ at + len > to THEN Free(new, at, len) ELSE new
  /\ UNCHANGED <<tables, arena, locks, call, views>>

\* Only a whole allocation is released, and the guest's views of it are views
\* of nothing; the aliases go in a step of their own.
ReleaseDirect(t, physical, len) ==
  /\ call[t] = Idle
  /\ physical >= Low /\ Allocation(pool, physical, len) # {}
  /\ "care" \in Rules =>
       /\ \A v \in Held : v.direct => ~Meet(physical, len, v.physical, v.len)
       /\ \A o \in Threads : Mapping(o) /\ call[o].direct =>
            ~Meet(physical, len, call[o].physical, call[o].len)
  /\ pool' = Free(pool, physical, len)
  /\ views' = Restrict(views, {v \in Held : v.direct => ~Meet(physical, len, v.physical, v.len)})
  /\ Goto(t, [at |-> "forget", physical |-> physical, len |-> len])
  /\ UNCHANGED <<tables, arena, locks>>

\* forget_physical: every alias whose offset was released.
ForgetPhysical(t) ==
  /\ call[t].at = "forget"
  /\ aliases' = Without(aliases, Pages(call[t].physical, call[t].len))
  /\ Return(t)
  /\ UNCHANGED <<pool, placed, regions, arena, locks, views>>

-----------------------------------------------------------------------------
(* map_named_direct_memory, map_direct_at, mmap, reserve_virtual_range:    *)
(* how a call starts                                                       *)

\* A call about to place memory: kind is who asks, named whether the guest
\* chose the address.
Placing(kind, physical, len, align, name, base) ==
  [at |-> "place", kind |-> kind, direct |-> kind \in {"named", "fixed", "at"},
   physical |-> physical, len |-> len, align |-> align, named |-> name # 0,
   base |-> base, tries |-> Retries, parts |-> {}]

\* Where a call starts looking: at the name, or at the next base of the arena.
StartPlacing(t, kind, physical, len, align, name) ==
  /\ IF name = 0
     THEN (Reusable(Slot(len, align)) \/ next < ArenaEnd) /\ TakeSlot(len, align)
     ELSE UNCHANGED arena
  /\ Goto(t, Placing(kind, physical, len, align, name,
                     IF name = 0 THEN NextBase(len, align) ELSE UpTo(name, align)))

\* Mutant: the view is not counted.
AnswerUncounted(t, physical, len) ==
  /\ ContiguousAlias(physical, len) # {}
  /\ views' = views (+) SetToBag({View(TRUE, physical, aliases[physical].base, len)})
  /\ UNCHANGED <<pool, tables, arena, locks, call>>

\* Already mapped as one run: the guest gets the address it had, and every
\* piece one view more.
AnswerAlias(t, physical, len) ==
  LET pieces == ContiguousAlias(physical, len)
  IN  /\ pieces # {}
      /\ aliases' = [p \in DOMAIN aliases |->
                       IF p \in pieces THEN [aliases[p] EXCEPT !.views = @ + 1]
                                       ELSE aliases[p]]
      /\ views' = views (+) SetToBag({View(TRUE, physical, aliases[physical].base, len)})
      /\ UNCHANGED <<pool, placed, regions, arena, locks, call>>

\* Mutant: nobody looks whether it is mapped already.
MapAfresh(t, kind, physical, len, align, name) ==
  /\ call[t] = Idle /\ Room
  /\ Allocated(physical, len)
  /\ Considerate(t, physical, len, UpTo(name, align)) /\ Once(physical)
  /\ StartPlacing(t, kind, physical, len, align, name)
  /\ UNCHANGED <<pool, tables, locks, views>>

\* map_named_direct_memory; "fixed" names an address with MAP_FIXED.
MapNamed(t, kind, physical, len, align, name) ==
  /\ call[t] = Idle /\ Room
  /\ Allocated(physical, len)
  /\ Considerate(t, physical, len, UpTo(name, align)) /\ Once(physical)
  /\ \/ AnswerAlias(t, physical, len)
     \/ /\ ContiguousAlias(physical, len) = {}
        /\ StartPlacing(t, kind, physical, len, align, name)
        /\ UNCHANGED <<pool, tables, locks, views>>

\* The guest grows a mapping of its own where it lies.
Grows(physical, len, name) ==
  /\ physical \in DOMAIN aliases
  /\ aliases[physical].base = name /\ aliases[physical].len < len
  /\ aliases[physical].views = 1
  /\ \A v \in Held : Meet(name, len, v.base, v.len) => v.physical = physical /\ v.base = name

\* map_direct_at, one run of a batch: no alias is looked for.
MapDirectAt(t, physical, len, name) ==
  /\ call[t] = Idle /\ Room
  /\ Allocated(physical, len)
  /\ \/ Considerate(t, physical, len, name) /\ ("care" \in Rules => physical \notin DOMAIN aliases)
     \/ Grows(physical, len, name) /\ \A o \in Threads \ {t} : call[o] = Idle
  /\ Goto(t, Placing("at", physical, len, 1, name, name))
  /\ UNCHANGED <<pool, tables, arena, locks, views>>

\* mmap: memory with no physical offset.
Mmap(t, len, name) ==
  /\ call[t] = Idle /\ Room
  /\ Considerate(t, PoolSize, len, name)
  /\ StartPlacing(t, "mmap", PoolSize, len, 1, name)
  /\ UNCHANGED <<pool, tables, locks, views>>

\* reserve_virtual_range: addresses, with nothing for an unmap to release.
ReserveRange(t, len, align, name) ==
  /\ call[t] = Idle /\ Room /\ Cardinality(DOMAIN regions \ DOMAIN placed) < MaxRanges
  /\ Considerate(t, PoolSize, len, UpTo(name, align))
  /\ StartPlacing(t, "range", PoolSize, len, align, name)
  /\ UNCHANGED <<pool, tables, locks, views>>

-----------------------------------------------------------------------------
(* How it goes on: under the lock of the regions *)

\* The region is reserved at base; what comes next depends on who asked.
Reserved(t, base) ==
  /\ regions' = With(regions, base, call[t].len)
  /\ IF call[t].kind = "range"
     THEN Return(t)
     ELSE Goto(t, [call[t] EXCEPT !.at = "record", !.base = base,
                                  !.parts = {<<base, call[t].len>>}])
  /\ UNCHANGED <<pool, aliases, placed, placer, views>>

\* A direct map inside a region changes the protection of what is there.
PlaceInside(t) ==
  /\ call[t].direct /\ Owns(call[t].base, call[t].len)
  /\ Goto(t, [call[t] EXCEPT !.at = "alias"])
  /\ UNCHANGED <<pool, tables, arena, locks, views>>

PlaceFresh(t) ==
  /\ Reservable(call[t].base, call[t].len)
  /\ Reserved(t, call[t].base)
  /\ UNCHANGED <<arena, space>>

\* A held address: a hint moves up, anywhere means another base of the arena,
\* both with the lock kept; a run of a batch replaces what it covers; the rest
\* are refused.
PlaceHeld(t) ==
  LET c == call[t]
      aside == c.kind \in {"named", "range"}
  IN  /\ ~Reservable(c.base, c.len)
      /\ ~(c.direct /\ Owns(c.base, c.len))
      /\ IF aside THEN /\ space' = t
                       /\ Goto(t, [c EXCEPT !.at = IF c.kind = "named" /\ c.named
                                                   THEN "hint" ELSE "retry"])
         ELSE /\ UNCHANGED space
              /\ IF c.kind = "at" /\ Covered(c.base, c.len) # {}
                 THEN Goto(t, [c EXCEPT !.at = "cover",
                                          !.parts = {<<b, regions[b]>> : b \in Covered(c.base, c.len)}])
                 ELSE Return(t)
      /\ UNCHANGED <<pool, tables, arena, placer, views>>

\* A file that cannot be read: the pages of an mmap are given back at once.
PlaceUnread(t) ==
  /\ call[t].kind = "mmap"
  /\ Return(t)
  /\ UNCHANGED <<pool, tables, arena, locks, views>>

Place(t) ==
  /\ call[t].at = "place" /\ space = NoThread
  /\ PlaceInside(t) \/ PlaceFresh(t) \/ PlaceHeld(t) \/ PlaceUnread(t)

\* Another address is tried, and the next after it when the host holds it.
TryNext(t, base, onward) ==
  IF Reservable(base, call[t].len)
  THEN Reserved(t, base) /\ space' = NoThread
  ELSE /\ IF call[t].tries > 1
          THEN Goto(t, [call[t] EXCEPT !.tries = @ - 1, !.base = onward]) /\ UNCHANGED space
          ELSE Return(t) /\ space' = NoThread
       /\ UNCHANGED <<pool, tables, placer, views>>

\* A hint that is held moves up to the first free range.
MoveUp(t) ==
  /\ call[t].at = "hint"
  /\ LET free == FirstFree(call[t].base, call[t].len, call[t].align)
     IN  TryNext(t, free, free + call[t].len)
  /\ UNCHANGED arena

Retry(t) ==
  /\ call[t].at = "retry"
  /\ TakeSlot(call[t].len, call[t].align)
  /\ LET base == NextBase(call[t].len, call[t].align) IN TryNext(t, base, base)

-----------------------------------------------------------------------------
(* replace_covered *)

\* Only over maps: parts are the regions found before the lock was released.
Cover(t) ==
  /\ call[t].at = "cover" /\ placer = NoThread
  /\ IF {part[1] : part \in call[t].parts} \subseteq DOMAIN placed
     THEN Goto(t, [call[t] EXCEPT !.at = "lay"])
     ELSE Return(t)
  /\ UNCHANGED <<pool, tables, arena, locks, views>>

\* The stretches of a range outside its parts.
GapsAround(base, len, parts) ==
  LET bare == Pages(base, len) \ UNION {Pages(part[1], part[2]) : part \in parts}
  IN  {gap \in bare \X (1..len) :
         /\ Pages(gap[1], gap[2]) \subseteq bare
         /\ gap[1] - 1 \notin bare /\ gap[1] + gap[2] \notin bare}

\* The covered parts keep their memory and the gaps are reserved, in order; a
\* part that went ends it, and a gap that is taken with the gaps before it.
Lay(t) ==
  /\ call[t].at = "lay" /\ space = NoThread
  /\ LET c    == call[t]
         gaps == GapsAround(c.base, c.len, c.parts)
         laid == {g \in gaps : \A h \in gaps : h[1] <= g[1] => Reservable(h[1], h[2])}
     IN  IF \A part \in c.parts :
              \E b \in DOMAIN regions :
                Pages(part[1], part[2]) \cap Pages(c.base, c.len) \subseteq Pages(b, regions[b])
         THEN /\ regions' = WithAll(regions, laid)
              /\ IF laid = gaps THEN Goto(t, [c EXCEPT !.at = "record", !.parts = laid])
                                ELSE Return(t)
         ELSE UNCHANGED regions /\ Return(t)
  /\ UNCHANGED <<pool, aliases, placed, arena, locks, views>>

-----------------------------------------------------------------------------
(* What is recorded once memory is placed *)

\* placed_by_mmap: what the call placed, its whole range or the gaps it filled.
Record(t) ==
  /\ call[t].at = "record" /\ placer = NoThread
  /\ placed' = WithAll(placed, call[t].parts)
  /\ IF call[t].direct
     THEN Goto(t, [call[t] EXCEPT !.at = "alias"]) /\ UNCHANGED views
     ELSE /\ views' = views (+) SetToBag({View(FALSE, 0, call[t].base, call[t].len)})
          /\ Return(t)
  /\ UNCHANGED <<pool, aliases, regions, arena, locks>>

\* physical_mappings: the offset is mapped here, by one view.  A map placed over
\* others ends the views it covers.
Alias(t) ==
  /\ call[t].at = "alias"
  /\ LET c == call[t]
         new == View(TRUE, c.physical, c.base, c.len)
         kept == {v \in Held : c.kind = "at" => ~(Pages(v.base, v.len) \subseteq Pages(c.base, c.len))}
     IN  /\ aliases' = With(aliases, c.physical, [base |-> c.base, len |-> c.len, views |-> 1])
         /\ views' = Restrict(views, kept) (+) SetToBag({new})
  /\ Return(t)
  /\ UNCHANGED <<pool, placed, regions, arena, locks>>

-----------------------------------------------------------------------------
(* munmap *)

\* forget_mapped: one view less of every alias whose mapping starts in the
\* range; one with no view left is forgotten.
Forgotten(base, len) ==
  LET inside == {p \in DOMAIN aliases : aliases[p].base \in Pages(base, len)}
      last   == {p \in inside : aliases[p].views = 1}
  IN  [p \in DOMAIN aliases \ last |->
         IF p \in inside THEN [aliases[p] EXCEPT !.views = @ - 1] ELSE aliases[p]]

Munmap(t, v) ==
  /\ call[t] = Idle /\ v \in Held
  /\ "care" \in Rules => \A o \in Threads : ~(Mapping(o) /\ call[o].named)
  /\ aliases' = Forgotten(v.base, v.len)
  /\ views' = views (-) SetToBag({v})
  /\ Goto(t, [at |-> "release", base |-> v.base, len |-> v.len, rest |-> {}, one |-> 0])
  /\ UNCHANGED <<pool, placed, regions, arena, locks>>

\* release_mapping: the placements whole inside the range, with the lock of
\* placed from here on.
Release(t) ==
  /\ call[t].at = "release" /\ placer = NoThread
  /\ placer' = t
  /\ Goto(t, [call[t] EXCEPT !.at = "each", !.rest =
       {b \in DOMAIN placed : Pages(b, placed[b]) \subseteq Pages(call[t].base, call[t].len)}])
  /\ UNCHANGED <<pool, tables, arena, space, views>>

\* Mutant: nobody asks who else maps it.
LookNever(t) ==
  /\ call[t].at = "each"
  /\ IF call[t].rest = {} THEN Return(t) /\ placer' = NoThread
     ELSE /\ \E b \in call[t].rest :
               Goto(t, [call[t] EXCEPT !.at = "free", !.rest = @ \ {b}, !.one = b])
          /\ UNCHANGED placer
  /\ UNCHANGED <<pool, tables, arena, space, views>>

\* One placement at a time, in the order of a hash map; one an alias still names
\* stays.
Look(t) ==
  /\ call[t].at = "each"
  /\ IF call[t].rest = {} THEN Return(t) /\ placer' = NoThread
     ELSE /\ \E b \in call[t].rest :
               IF \E p \in DOMAIN aliases : aliases[p].base = b
               THEN Goto(t, [call[t] EXCEPT !.rest = @ \ {b}])
               ELSE Goto(t, [call[t] EXCEPT !.at = "free", !.rest = @ \ {b}, !.one = b])
          /\ UNCHANGED placer
  /\ UNCHANGED <<pool, tables, arena, space, views>>

\* Its region goes, if it is still the one placed, and a base of the arena waits
\* in the quarantine.
FreeOne(t) ==
  /\ call[t].at = "free" /\ space = NoThread
  /\ LET b == call[t].one
     IN  /\ IF b \in DOMAIN regions /\ regions[b] = placed[b]
            THEN /\ regions' = Without(regions, {b})
                 /\ placed' = Without(placed, {b})
                 /\ held' = IF b < ArenaBase THEN held
                            ELSE Append(held, [base |-> b, span |-> Slot(placed[b], 1)])
            ELSE UNCHANGED <<regions, placed, held>>
         /\ Goto(t, [call[t] EXCEPT !.at = "each", !.one = 0])
  /\ UNCHANGED <<pool, aliases, next, locks, views>>

-----------------------------------------------------------------------------

Allocates(t) ==
  \E len \in Lens, align \in Aligns :
    \/ AllocateMain(t, len, align)
    \/ \E from, to \in Edges : AllocateDirect(t, from, to, len, align)

Asks(t) ==
  \E len \in Lens :
    \/ \E name \in Spots \cup {0} :
         Mmap(t, len, name) \/ \E align \in Aligns : ReserveRange(t, len, align, name)
    \/ \E physical \in Low..(PoolSize - 1) :
         \/ \E align \in Aligns, name \in Names \cup {0} :
              MapNamed(t, "named", physical, len, align, name)
         \/ \E name \in Names : MapNamed(t, "fixed", physical, len, 1, name)
         \/ \E name \in Names : MapDirectAt(t, physical, len, name)
         \/ ReleaseDirect(t, physical, len)

GoesOn(t) ==
  \/ Place(t) \/ MoveUp(t) \/ Retry(t) \/ Cover(t) \/ Lay(t)
  \/ Record(t) \/ Alias(t)
  \/ Release(t) \/ Look(t) \/ FreeOne(t)
  \/ ForgetPhysical(t)

Step(t) ==
  \/ Allocates(t) \/ Asks(t) \/ (\E v \in Held : Munmap(t, v))
  \/ GoesOn(t)

Next == \E t \in Threads : Step(t)

Spec == Init /\ [][Next]_vars

-----------------------------------------------------------------------------
(* Properties *)

\* A mapping the guest was given is memory until it unmaps it: an unmap only
\* releases what no other view maps (lib.rs, forget_mapped, release_mapping).
ViewsStayBacked ==
  \A v \in Held :
    Pages(v.base, v.len) \subseteq UNION {Pages(b, regions[b]) : b \in DOMAIN regions}

\* Every alias counts the guest's views of it, through maps answered by several
\* pieces and unmaps of several (lib.rs, contiguous_alias, forget_mapped).
ViewsAreCounted ==
  \A p \in DOMAIN aliases :
    aliases[p].views =
      BagCardinality(Restrict(views, {v \in Held : v.direct /\ aliases[p].base \in Pages(v.base, v.len)}))

\* The same physical memory answers the same address, and an address is of one
\* memory: views of one offset start at one place, and views that share a page
\* share the physical page too (lib.rs, map_named_direct_memory).
ViewsAreTheirMemory ==
  \A v, w \in Held :
    /\ v.direct /\ w.direct /\ v.physical = w.physical => v.base = w.base
    /\ Meet(v.base, v.len, w.base, w.len) =>
         /\ v.direct = w.direct
         /\ v.physical + w.base = w.physical + v.base

\* The arena never gives a base twice: the ranges being placed in it, the
\* regions of it and the slots in quarantine do not overlap (lib.rs,
\* next_mapping_base and mapping_slot: the next mapping never starts inside this
\* one).
SlotsApart ==
  LET asked == {<<call[t].base, call[t].len>> : t \in
                  {u \in Threads : call[u].at = "place" /\ ~call[u].named}}
      mapped == {<<b, regions[b]>> : b \in {c \in DOMAIN regions : c >= ArenaBase}}
      waiting == {<<held[i].base, held[i].span>> : i \in DOMAIN held}
      all == asked \cup mapped \cup waiting
  IN  /\ Cardinality(all) = Cardinality(mapped) + Len(held)
           + Cardinality({u \in Threads : call[u].at = "place" /\ ~call[u].named})
      /\ \A x, y \in all : x # y => ~Meet(x[1], x[2], y[1], y[2])
      /\ \A x \in all : x[1] + x[2] <= next

\* The regions of the pool tile it, in order and none of them empty, and no two
\* free ones touch (direct.rs, allocate, release and merge_free).
PoolTiles ==
  /\ pool[1].start = 0 /\ pool[Len(pool)].end = PoolSize
  /\ \A i \in DOMAIN pool : pool[i].start < pool[i].end
  /\ \A i \in 1..(Len(pool) - 1) :
       pool[i].end = pool[i + 1].start /\ (pool[i].taken \/ pool[i + 1].taken)
=============================================================================
