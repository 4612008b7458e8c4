------------------------------ MODULE WriteWatch ------------------------------
(***************************************************************************)
(* Whether guest memory was written since a mark: orbistoun-mem's watch.rs *)
(* with the fault handler of orbistoun-worker/src/report.rs that asks it.  *)
(*                                                                         *)
(* page is the host's protection, bits the pages its write-watch has seen  *)
(* written, may the pages the guest may write.  epoch, written, chunks and *)
(* guards are Record; counted is GUARDS, which is read without the lock    *)
(* record names the holder of.  A thread is in one call at a time: call[t] *)
(* has where, the pages it is about, where it goes on to once the guards   *)
(* on them are off, and the pages it is guarding or unguarding.            *)
(* mark is history: some mark handed out, and the pages of it written      *)
(* since.  The range owed to guest memory (owed_to) is left out: it only   *)
(* turns an answer into "written".                                         *)
(***************************************************************************)
EXTENDS Integers, FiniteSets

CONSTANTS
  Threads, NoThread,
  Pages,        \* page numbers
  ChunkPages,   \* pages to a chunk
  Spans,        \* the ranges asked about, as sets of pages
  GuardedFrom,  \* the shortest range guarded, in pages
  GuardsMost,   \* the most guards
  DeviceSpans,  \* the ranges the device maps and stores into
  MaxEpoch      \* bound on marks

ASSUME WatchAssumption ==
  /\ NoThread \notin Threads
  /\ Pages \subseteq Nat /\ IsFiniteSet(Pages)
  /\ Spans \subseteq SUBSET Pages /\ {} \notin Spans
  /\ ChunkPages \in Nat \ {0}
  /\ GuardedFrom \in Nat /\ GuardsMost \in Nat /\ MaxEpoch \in Nat
  /\ DeviceSpans \subseteq Spans

VARIABLES page, bits, may, epoch, written, chunks, guards, counted, record,
          forbidden, call, mark

host == <<page, bits, may>>
kept == <<epoch, written, chunks>>
guarding == <<guards, counted>>
vars == <<host, kept, guarding, record, forbidden, call, mark>>

Places ==
  {"idle", "guard", "harvest", "fault", "last", "retry", "reported",
   "unguard", "release", "set", "note"}

Sequels == {"idle", "retry", "set", "note"}

Idle == [at |-> "idle", arg |-> {}, then |-> "idle", own |-> {}]
NoMark == [span |-> {}, since |-> 0, dirty |-> {}]

ChunkOf(p) == p \div ChunkPages

TypeOK ==
  /\ page \in [Pages -> {"rw", "ro", "none"}]
  /\ bits \subseteq Pages /\ may \subseteq Pages
  /\ epoch \in 1..(MaxEpoch + 1)
  /\ written \in [Pages -> 0..epoch]
  /\ chunks \in [{ChunkOf(p) : p \in Pages} -> 0..epoch]
  /\ guards \subseteq SUBSET Pages
  /\ counted \in Nat
  /\ record \in Threads \cup {NoThread}
  /\ forbidden \subseteq DeviceSpans
  /\ call \in [Threads ->
       [at : Places, arg : SUBSET Pages, then : Sequels, own : SUBSET Pages]]
  /\ mark \in [span : SUBSET Pages, since : 0..MaxEpoch, dirty : SUBSET Pages]

Init ==
  /\ page = [p \in Pages |-> "rw"] /\ bits = {} /\ may = Pages
  /\ epoch = 1
  /\ written = [p \in Pages |-> 0]
  /\ chunks = [c \in {ChunkOf(p) : p \in Pages} |-> 0]
  /\ guards = {} /\ counted = 0
  /\ record = NoThread
  /\ forbidden = {}
  /\ call = [t \in Threads |-> Idle]
  /\ mark = NoMark

-----------------------------------------------------------------------------
(* The record *)

Meet(a, b) == a \cap b # {}

At(t, place) == call[t].at = place

\* A thread makes a call, goes on to a place of it with the pages it guards or
\* unguards there, and is done with it.
Enter(t, place, S, then) ==
  call' = [call EXCEPT ![t] = [at |-> place, arg |-> S, then |-> then, own |-> {}]]
Move(t, place, own) ==
  call' = [call EXCEPT ![t] =
             [at |-> place, arg |-> call[t].arg, then |-> call[t].then, own |-> own]]
Done(t) == Enter(t, "idle", {}, "idle")
GoOn(t) == IF call[t].then = "idle" THEN Done(t) ELSE Move(t, call[t].then, {})

Later(a, b) == IF a > b THEN a ELSE b

\* note of every page of S, at the epoch now: the page, and its chunk's latest.
\* Mutant: the first epoch a chunk is given stays its latest.
NoteFirst(S) ==
  /\ written' = [p \in Pages |-> IF p \in S THEN epoch ELSE written[p]]
  /\ chunks' = [c \in DOMAIN chunks |->
       IF chunks[c] = 0 /\ \E p \in S : ChunkOf(p) = c THEN epoch ELSE chunks[c]]

Note(S) ==
  /\ written' = [p \in Pages |-> IF p \in S THEN epoch ELSE written[p]]
  /\ chunks' = [c \in DOMAIN chunks |->
       IF \E p \in S : ChunkOf(p) = c THEN Later(chunks[c], epoch) ELSE chunks[c]]

\* written_after: a chunk wholly inside the range answers from its latest epoch,
\* one the range cuts from its pages.
WrittenAfter(S, since) ==
  \E c \in {ChunkOf(p) : p \in S} :
    /\ chunks[c] > since
    /\ \/ \A p \in Pages : ChunkOf(p) = c => p \in S
       \/ \E p \in S : ChunkOf(p) = c /\ written[p] > since

GuardOver(S) == \E g \in guards : S \subseteq g

Forbidden(S) == \E f \in forbidden : Meet(f, S)

\* What written_since answers of S: from the record alone under a guard, else
\* "written" if the host hands a page over.
WrittenSince(S, since) ==
  \/ ~GuardOver(S) /\ Meet(bits, S)
  \/ WrittenAfter(S, since)

-----------------------------------------------------------------------------
(* mark *)

\* The record is taken, and whether to guard is settled...
MarkBegin(t, S) ==
  /\ At(t, "idle") /\ record = NoThread /\ epoch <= MaxEpoch
  /\ record' = t
  /\ LET guarded == /\ Cardinality(S) >= GuardedFrom
                    /\ Cardinality(guards) < GuardsMost
                    /\ \A g \in guards : ~Meet(g, S)
                    /\ ~Forbidden(S)
     IN Enter(t, IF guarded THEN "guard" ELSE "harvest", S, "idle")
  /\ UNCHANGED <<host, kept, guarding, forbidden, mark>>

\* ... then the pages are made read-only, if the host has them all read-write;
\* own is what the mark guards.
MarkGuard(t) ==
  /\ At(t, "guard")
  /\ LET own == IF \A p \in call[t].arg : page[p] = "rw" THEN call[t].arg ELSE {}
     IN /\ page' = [p \in Pages |-> IF p \in own THEN "ro" ELSE page[p]]
        /\ Move(t, "harvest", own)
  /\ UNCHANGED <<bits, may, kept, guarding, record, forbidden, mark>>

\* ... and what the host has seen is taken into the record, behind the mark.
\* Mutant: the epoch stays.
MarkSameEpoch(t) ==
  /\ At(t, "harvest")
  /\ Note(bits \cap call[t].arg)
  /\ bits' = bits \ call[t].arg
  /\ guards' = guards \cup ({call[t].own} \ {{}})
  /\ counted' = IF call[t].own = {} THEN counted ELSE counted + 1
  /\ mark' \in {mark, [span |-> call[t].arg, since |-> epoch, dirty |-> {}]}
  /\ record' = NoThread
  /\ Done(t)
  /\ UNCHANGED <<page, may, epoch, forbidden>>

\* Mutant: a guarded range is not harvested, the guard answering for it.
MarkUnharvested(t) ==
  /\ At(t, "harvest")
  /\ LET seen == IF call[t].own = {} THEN bits \cap call[t].arg ELSE {}
     IN Note(seen) /\ bits' = bits \ seen
  /\ guards' = guards \cup ({call[t].own} \ {{}})
  /\ counted' = IF call[t].own = {} THEN counted ELSE counted + 1
  /\ epoch' = epoch + 1
  /\ mark' \in {mark, [span |-> call[t].arg, since |-> epoch, dirty |-> {}]}
  /\ record' = NoThread
  /\ Done(t)
  /\ UNCHANGED <<page, may, forbidden>>

MarkHarvest(t) ==
  /\ At(t, "harvest")
  /\ Note(bits \cap call[t].arg)
  /\ bits' = bits \ call[t].arg
  /\ guards' = guards \cup ({call[t].own} \ {{}})
  /\ counted' = IF call[t].own = {} THEN counted ELSE counted + 1
  /\ epoch' = epoch + 1
  /\ mark' \in {mark, [span |-> call[t].arg, since |-> epoch, dirty |-> {}]}
  /\ record' = NoThread
  /\ Done(t)
  /\ UNCHANGED <<page, may, forbidden>>

\* mark_all guards nothing, and is one step under the record.
MarkAll(t, S) ==
  /\ At(t, "idle") /\ record = NoThread /\ epoch <= MaxEpoch
  /\ Note(bits \cap S)
  /\ bits' = bits \ S
  /\ epoch' = epoch + 1
  /\ mark' \in {mark, [span |-> S, since |-> epoch, dirty |-> {}]}
  /\ UNCHANGED <<page, may, guarding, record, forbidden, call>>

\* harvest_all: what the host has seen of the range is taken into the record.
\* written_since does the same, and nothing where a guard answers: there
\* GuardsHold leaves it nothing to take.
HarvestAll(t, S) ==
  /\ At(t, "idle") /\ record = NoThread /\ Meet(bits, S)
  /\ Note(bits \cap S)
  /\ bits' = bits \ S
  /\ UNCHANGED <<page, may, epoch, guarding, record, forbidden, call, mark>>

-----------------------------------------------------------------------------
(* Guards coming off *)

\* release of a guard: off the list and out of the count...
Unlist(t, g) ==
  /\ guards' = guards \ {g}
  /\ counted' = counted - 1
  /\ record' = t
  /\ Move(t, "unguard", g)

\* ... and then the pages are made writable and noted written.  release_guards
\* goes on to the next guard; write_faulted is done.
Unguard(t) ==
  /\ At(t, "unguard")
  /\ page' = [p \in Pages |-> IF p \in call[t].own THEN "rw" ELSE page[p]]
  /\ Note(call[t].own)
  /\ IF call[t].then = "retry"
     THEN record' = NoThread /\ Move(t, "retry", {})
     ELSE Move(t, "release", {}) /\ UNCHANGED record
  /\ UNCHANGED <<bits, may, epoch, guarding, forbidden, mark>>

\* release_guards, on the way to whatever follows it: with no guard counted the
\* record is not taken, and is otherwise kept until no guard is left on the range.
ReleaseGuards(t) ==
  /\ At(t, "release")
  /\ \/ /\ counted = 0 /\ record # t
        /\ GoOn(t)
        /\ UNCHANGED <<guarding, record>>
     \/ /\ record = t \/ (counted > 0 /\ record = NoThread)
        /\ \A g \in guards : ~Meet(g, call[t].arg)
        /\ record' = NoThread
        /\ GoOn(t)
        /\ UNCHANGED guarding
     \/ /\ record = t \/ (counted > 0 /\ record = NoThread)
        /\ \E g \in guards : Meet(g, call[t].arg) /\ Unlist(t, g)
  /\ UNCHANGED <<host, kept, forbidden, mark>>

-----------------------------------------------------------------------------
(* A guest write, and the fault handler's part in it *)

\* The write lands, on a page the host lets it, or faults.
Write(t, p) ==
  /\ At(t, "idle") \/ (At(t, "retry") /\ call[t].arg = {p})
  /\ p \in may
  /\ IF page[p] = "rw"
     THEN /\ bits' = bits \cup {p}
          /\ mark' = [mark EXCEPT !.dirty = @ \cup (mark.span \cap {p})]
          /\ Done(t)
     ELSE /\ Enter(t, "fault", {p}, "retry")
          /\ UNCHANGED <<bits, mark>>
  /\ UNCHANGED <<page, may, kept, guarding, record, forbidden>>

\* write_faulted: with no guard counted the record is not waited for.
WriteFaulted(t) ==
  /\ At(t, "fault")
  /\ \/ /\ counted = 0
        /\ Move(t, "last", {})
        /\ UNCHANGED <<guarding, record>>
     \/ /\ counted > 0 /\ record = NoThread
        /\ ~GuardOver(call[t].arg)
        /\ Move(t, "last", {})
        /\ UNCHANGED <<guarding, record>>
     \/ /\ counted > 0 /\ record = NoThread
        /\ \E g \in guards : call[t].arg \subseteq g /\ Unlist(t, g)
  /\ UNCHANGED <<host, kept, forbidden, mark>>

\* The handler's last look: the write runs again if the page allows it by now,
\* and is otherwise reported as the end of the program.
LastLook(t) ==
  /\ At(t, "last")
  /\ Move(t, IF \A p \in call[t].arg : page[p] = "rw" THEN "retry" ELSE "reported", {})
  /\ UNCHANGED <<host, kept, guarding, record, forbidden, mark>>

-----------------------------------------------------------------------------
(* What else changes the pages *)

Release(t, S, then) ==
  /\ At(t, "idle")
  /\ Enter(t, "release", S, then)

\* forbid_guards, for memory the device is to map, and allow_guards.
ForbidGuards(t, S) ==
  /\ S \in DeviceSpans \ forbidden
  /\ Release(t, S, "idle")
  /\ forbidden' = forbidden \cup {S}
  /\ UNCHANGED <<host, kept, guarding, record, mark>>

AllowGuards(t, S) ==
  /\ At(t, "idle") /\ S \in forbidden
  /\ forbidden' = forbidden \ {S}
  /\ UNCHANGED <<host, kept, guarding, record, call, mark>>

\* platform::protect: the guards come off, then the guest's protection goes on.
Protect(t, S) ==
  /\ Release(t, S, "set")
  /\ UNCHANGED <<host, kept, guarding, record, forbidden, mark>>

SetProtection(t) ==
  /\ At(t, "set")
  /\ \E writable \in BOOLEAN :
       /\ page' = [p \in Pages |->
            IF p \notin call[t].arg THEN page[p] ELSE IF writable THEN "rw" ELSE "none"]
       /\ may' = IF writable THEN may \cup call[t].arg ELSE may \ call[t].arg
  /\ Done(t)
  /\ UNCHANGED <<bits, kept, guarding, record, forbidden, mark>>

\* note_written: a device store the host does not see, told once it is done.
DeviceWrote(t, S) ==
  /\ S \in DeviceSpans
  /\ Release(t, S, "note")
  /\ UNCHANGED <<host, kept, guarding, record, forbidden, mark>>

NoteWritten(t) ==
  /\ At(t, "note") /\ record = NoThread
  /\ Note(call[t].arg)
  /\ mark' = [mark EXCEPT !.dirty = @ \cup (mark.span \cap call[t].arg)]
  /\ Done(t)
  /\ UNCHANGED <<host, epoch, guarding, record, forbidden>>

-----------------------------------------------------------------------------

Step(t) ==
  \/ \E S \in Spans :
       \/ MarkBegin(t, S) \/ MarkAll(t, S) \/ HarvestAll(t, S)
       \/ ForbidGuards(t, S) \/ AllowGuards(t, S) \/ DeviceWrote(t, S)
  \/ \E p \in Pages : Write(t, p)
  \/ MarkGuard(t) \/ MarkHarvest(t)
  \/ ReleaseGuards(t) \/ Unguard(t)
  \/ WriteFaulted(t) \/ LastLook(t)
  \/ NoteWritten(t)

Next == \E t \in Threads : Step(t)

Spec == Init /\ [][Next]_vars

\* The same with the guest changing the protection of its memory meanwhile.
NextProtecting ==
  \/ Next
  \/ \E t \in Threads : SetProtection(t) \/ \E S \in Spans : Protect(t, S)

SpecProtecting == Init /\ [][NextProtecting]_vars

-----------------------------------------------------------------------------
(* Properties *)

\* Every write after a mark is seen: whenever the record is free to be asked, a
\* mark with a page written since is answered "written", by the record, the
\* host's bits or a guard that came off (watch.rs, mark and written_since).
NoWriteMissed ==
  record = NoThread =>
    (mark.dirty # {} => WrittenSince(mark.span, mark.since))

\* While a guard stands nothing has written its pages: every page of it is
\* read-only at the host, and the host has no write of it to hand over (watch.rs,
\* written_since answers from the record alone).
GuardsHold ==
  \A g \in guards : ~Meet(g, bits) /\ \A p \in g : page[p] = "ro"

\* The chunked answer is the one reading every page would give, of any range and
\* since any epoch (watch.rs, written_after).
ChunkedIsExact ==
  \A S \in Spans : \A since \in 0..epoch :
    WrittenAfter(S, since) <=> \E p \in S : written[p] > since

\* What the module comment says: the first write to a guarded page faults, the
\* handler hands it to write_faulted, and the write runs (watch.rs).
FaultIsAnswered == \A t \in Threads : ~At(t, "reported")

\* What the comment on forbid_guards says: once it has returned, no guard stands
\* over the range until allow_guards (watch.rs, forbid_guards).
GuardsKeptOff ==
  \A f \in forbidden :
    (\A t \in Threads : call[t].at \in {"idle", "retry"}) => \A g \in guards : ~Meet(f, g)
=============================================================================
