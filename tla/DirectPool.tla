------------------------------ MODULE DirectPool ------------------------------
(***************************************************************************)
(* The physical range guests carve up: DirectMemory of                     *)
(* orbistoun-kernel/src/direct.rs, as operators on its list of regions.  A *)
(* region is [start, end) and taken or free.  Addresses and lengths count  *)
(* units of DIRECT_ALIGN; memory types are recorded and never read, and    *)
(* are left out.                                                           *)
(***************************************************************************)
EXTENDS Naturals, SequencesExt

\* The first multiple of align at or after n.
UpTo(n, align) == ((n + align - 1) \div align) * align

\* The layout a guest starts with: the bottom is held back.
ReservedLow(low, size) ==
  <<[start |-> 0, end |-> low, taken |-> TRUE],
    [start |-> low, end |-> size, taken |-> FALSE]>>

\* Where in a region an allocation at or past from would start.
StartIn(r, from, align) == UpTo(Max({r.start, from}), align)

\* The free regions that hold len at that alignment.
Fits(regions, from, len, align) ==
  {i \in DOMAIN regions :
     LET r == regions[i]
     IN  ~r.taken /\ r.end > from /\ StartIn(r, from, align) + len <= r.end}

\* First fit: the address an allocation gets.
AllocatedAt(regions, from, len, align) ==
  StartIn(regions[Min(Fits(regions, from, len, align))], from, align)

\* Mutant: the tail of the region is forgotten.
AllocateHead(regions, from, len, align) ==
  LET i     == Min(Fits(regions, from, len, align))
      start == AllocatedAt(regions, from, len, align)
      parts == <<[start |-> regions[i].start, end |-> start, taken |-> FALSE],
                 [start |-> start, end |-> start + len, taken |-> TRUE]>>
  IN  SubSeq(regions, 1, i - 1)
        \o SelectSeq(parts, LAMBDA r : r.start < r.end)
        \o SubSeq(regions, i + 1, Len(regions))

\* The region becomes its untouched head, the allocation and its untouched
\* tail; empty ones are dropped.
Allocate(regions, from, len, align) ==
  LET i     == Min(Fits(regions, from, len, align))
      start == AllocatedAt(regions, from, len, align)
      parts == <<[start |-> regions[i].start, end |-> start, taken |-> FALSE],
                 [start |-> start, end |-> start + len, taken |-> TRUE],
                 [start |-> start + len, end |-> regions[i].end, taken |-> FALSE]>>
  IN  SubSeq(regions, 1, i - 1)
        \o SelectSeq(parts, LAMBDA r : r.start < r.end)
        \o SubSeq(regions, i + 1, Len(regions))

\* One region of the list joins the free one that ends where it starts.
Joined(merged, r) ==
  IF /\ merged # <<>>
     /\ ~merged[Len(merged)].taken /\ ~r.taken
     /\ merged[Len(merged)].end = r.start
  THEN [merged EXCEPT ![Len(merged)].end = r.end]
  ELSE Append(merged, r)

MergeFree(regions) == FoldLeft(Joined, <<>>, regions)

\* Only a whole allocation is given back.
Allocation(regions, start, len) ==
  {i \in DOMAIN regions :
     regions[i].taken /\ regions[i].start = start /\ regions[i].end = start + len}

\* Free neighbours become one region.
Free(regions, start, len) ==
  LET i == CHOOSE i \in Allocation(regions, start, len) : TRUE
  IN  MergeFree([regions EXCEPT ![i].taken = FALSE])
=============================================================================
