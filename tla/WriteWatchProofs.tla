--------------------------- MODULE WriteWatchProofs ---------------------------
(***************************************************************************)
(* For any pages, chunk size, ranges and number of threads: a guard that   *)
(* stands has kept every write out, the chunked answer is the exact one,   *)
(* and no write after a mark is missed - as long as nothing but the watch  *)
(* changes the host's protection (Spec, not SpecProtecting).               *)
(***************************************************************************)
EXTENDS WriteWatch, TLAPS

Calls == [at : Places, arg : SUBSET Pages, then : Sequels, own : SUBSET Pages]

\* The types a step relies on; MaxEpoch only bounds the model.
Types ==
  /\ page \in [Pages -> {"rw", "ro", "none"}]
  /\ bits \subseteq Pages
  /\ epoch \in Nat
  /\ written \in [Pages -> Nat]
  /\ chunks \in [{ChunkOf(p) : p \in Pages} -> Nat]
  /\ guards \subseteq SUBSET Pages
  /\ record \in Threads \cup {NoThread}
  /\ call \in [Threads -> Calls]
  /\ mark \in [span : SUBSET Pages, since : Nat, dirty : SUBSET Pages]

\* Only the holder of the record is guarding or unguarding.
HolderWorks ==
  \A t \in Threads : call[t].at \in {"guard", "harvest", "unguard"} => record = t

\* What is being unguarded is no longer listed, what is being guarded is not yet,
\* and is read-only already.
OwnApart ==
  \A t \in Threads :
    /\ call[t].at \in {"harvest", "unguard"} =>
         \A g \in guards : g \cap call[t].own = {}
    /\ call[t].at = "harvest" =>
         call[t].own \subseteq call[t].arg /\ \A p \in call[t].own : page[p] = "ro"
    /\ call[t].at = "guard" => \A g \in guards : g \cap call[t].arg = {}

GuardsApart == \A g, h \in guards : g # h => g \cap h = {}

GuardInv == HolderWorks /\ OwnApart /\ GuardsApart /\ GuardsHold

\* A chunk's epoch is the latest of its pages', and no page's lies ahead.
ChunkInv ==
  /\ \A p \in Pages : written[p] <= epoch /\ written[p] <= chunks[ChunkOf(p)]
  /\ \A c \in DOMAIN chunks :
       chunks[c] # 0 => \E p \in Pages : ChunkOf(p) = c /\ written[p] = chunks[c]

\* A write after the mark is with the host or in the record, later than the mark.
MarkInv ==
  /\ mark.since < epoch
  /\ mark.dirty \subseteq mark.span
  /\ \A p \in mark.dirty : p \in bits \/ written[p] > mark.since

IInv == Types /\ GuardInv /\ ChunkInv /\ MarkInv

-----------------------------------------------------------------------------

\* note, whatever the pages, keeps the record well formed.
LEMMA NoteKeeps ==
  ASSUME Types, ChunkInv, NEW S \in SUBSET Pages, Note(S), epoch' \in Nat, epoch' >= epoch
  PROVE  /\ written' \in [Pages -> Nat]
         /\ chunks' \in [{ChunkOf(p) : p \in Pages} -> Nat]
         /\ ChunkInv'
         /\ \A p \in S : written'[p] = epoch
         /\ \A p \in Pages : written'[p] >= written[p]
<1> DEFINE C == {ChunkOf(p) : p \in Pages}
<1>1. written' \in [Pages -> Nat] /\ chunks' \in [C -> Nat]
  BY DEF Types, Note, Later
<1>2. \A p \in S : written'[p] = epoch
  BY DEF Types, Note
<1>3. \A p \in Pages : written'[p] >= written[p] /\ written'[p] <= epoch'
  BY DEF Types, Note, ChunkInv
<1>4. \A c \in C : chunks[c] <= epoch
  BY DEF Types, ChunkInv
<1>5. \A c \in C : chunks'[c] = IF \E p \in S : ChunkOf(p) = c THEN epoch ELSE chunks[c]
  BY <1>4 DEF Types, Note, Later
<1>6. \A p \in Pages : written'[p] <= chunks'[ChunkOf(p)]
  <2> SUFFICES ASSUME NEW p \in Pages PROVE written'[p] <= chunks'[ChunkOf(p)]
    OBVIOUS
  <2>1. ChunkOf(p) \in C
    OBVIOUS
  <2>2. written[p] <= epoch /\ written[p] <= chunks[ChunkOf(p)]
    BY DEF ChunkInv
  <2>3. written'[p] = IF p \in S THEN epoch ELSE written[p]
    BY DEF Note, Types
  <2> QED BY <2>1, <2>2, <2>3, <1>5 DEF Types
<1>7. \A c \in C : chunks'[c] # 0 => \E p \in Pages : ChunkOf(p) = c /\ written'[p] = chunks'[c]
  <2> SUFFICES ASSUME NEW c \in C, chunks'[c] # 0
               PROVE  \E p \in Pages : ChunkOf(p) = c /\ written'[p] = chunks'[c]
    OBVIOUS
  <2>1. CASE \E p \in S : ChunkOf(p) = c
    BY <2>1, <1>5, <1>2
  <2>2. CASE ~\E p \in S : ChunkOf(p) = c
    <3>1. chunks'[c] = chunks[c]
      BY <2>2, <1>5
    <3>2. PICK p \in Pages : ChunkOf(p) = c /\ written[p] = chunks[c]
      BY <3>1 DEF ChunkInv, Types
    <3>3. p \notin S
      BY <2>2, <3>2
    <3>4. written'[p] = written[p]
      BY <3>3 DEF Note, Types
    <3> QED BY <3>1, <3>2, <3>4
  <2> QED BY <2>1, <2>2
<1>8. DOMAIN chunks' = C
  BY <1>1
<1> QED BY <1>1, <1>2, <1>3, <1>6, <1>7, <1>8 DEF ChunkInv

\* The record as it was keeps ChunkInv.
LEMMA KeptKeeps == ASSUME ChunkInv, UNCHANGED kept PROVE ChunkInv'
  BY DEF ChunkInv, kept

\* mark, deciding whether to guard.
LEMMA MarkBeginKeeps ==
  ASSUME IInv, NEW t \in Threads, NEW S \in Spans, MarkBegin(t, S)
  PROVE  IInv'
<1> USE WatchAssumption DEF IInv, GuardInv
<1>1. Types'
  BY DEF Types, MarkBegin, At, Meet, Enter, Move, Places, Sequels, Calls, host, kept,
         guarding
<1>2. HolderWorks'
  BY DEF HolderWorks, Types, MarkBegin, At, Meet, Enter, Move, Places, Sequels, Calls, host,
         kept, guarding
<1>3. OwnApart'
  BY DEF OwnApart, GuardsApart, HolderWorks, Types, MarkBegin, At, Meet, Enter, Move,
         Places, Sequels, Calls, host, kept, guarding
<1>4. GuardsApart' /\ GuardsHold'
  BY DEF GuardsApart, GuardsHold, HolderWorks, OwnApart, Types, MarkBegin, At, Meet, Enter,
         Move, Places, Sequels, Calls, host, kept, guarding
<1>5. ChunkInv'
  BY KeptKeeps DEF MarkBegin, At, Meet, Enter, Move, Places, Sequels, Calls, host, kept,
                   guarding
<1>6. MarkInv'
  BY DEF MarkInv, Types, MarkBegin, At, Meet, Enter, Move, Places, Sequels, Calls, host,
         kept, guarding
<1> QED BY <1>1, <1>2, <1>3, <1>4, <1>5, <1>6

\* mark, making the pages read-only.
LEMMA MarkGuardKeeps == ASSUME IInv, NEW t \in Threads, MarkGuard(t) PROVE IInv'
<1> USE WatchAssumption DEF IInv, GuardInv
<1>1. Types'
  BY DEF Types, MarkGuard, At, Meet, Enter, Move, Places, Sequels, Calls, host, kept,
         guarding
<1>2. HolderWorks'
  BY DEF HolderWorks, Types, MarkGuard, At, Meet, Enter, Move, Places, Sequels, Calls, host,
         kept, guarding
<1>3. OwnApart'
  BY DEF OwnApart, GuardsApart, HolderWorks, Types, MarkGuard, At, Meet, Enter, Move,
         Places, Sequels, Calls, host, kept, guarding
<1>4. GuardsApart' /\ GuardsHold'
  BY DEF GuardsApart, GuardsHold, HolderWorks, OwnApart, Types, MarkGuard, At, Meet, Enter,
         Move, Places, Sequels, Calls, host, kept, guarding
<1>5. ChunkInv'
  BY KeptKeeps DEF MarkGuard, At, Meet, Enter, Move, Places, Sequels, Calls, host, kept,
                   guarding
<1>6. MarkInv'
  BY DEF MarkInv, Types, MarkGuard, At, Meet, Enter, Move, Places, Sequels, Calls, host,
         kept, guarding
<1> QED BY <1>1, <1>2, <1>3, <1>4, <1>5, <1>6

\* The last look of the fault handler.
LEMMA LastLookKeeps == ASSUME IInv, NEW t \in Threads, LastLook(t) PROVE IInv'
<1> USE WatchAssumption DEF IInv, GuardInv
<1>1. Types'
  BY DEF Types, LastLook, At, Meet, Enter, Move, Places, Sequels, Calls, host, kept,
         guarding
<1>2. HolderWorks'
  BY DEF HolderWorks, Types, LastLook, At, Meet, Enter, Move, Places, Sequels, Calls, host,
         kept, guarding
<1>3. OwnApart'
  BY DEF OwnApart, GuardsApart, HolderWorks, Types, LastLook, At, Meet, Enter, Move, Places,
         Sequels, Calls, host, kept, guarding
<1>4. GuardsApart' /\ GuardsHold'
  BY DEF GuardsApart, GuardsHold, HolderWorks, OwnApart, Types, LastLook, At, Meet, Enter,
         Move, Places, Sequels, Calls, host, kept, guarding
<1>5. ChunkInv'
  BY KeptKeeps DEF LastLook, At, Meet, Enter, Move, Places, Sequels, Calls, host, kept,
                   guarding
<1>6. MarkInv'
  BY DEF MarkInv, Types, LastLook, At, Meet, Enter, Move, Places, Sequels, Calls, host,
         kept, guarding
<1> QED BY <1>1, <1>2, <1>3, <1>4, <1>5, <1>6

\* A guest write, which lands only on pages no guard holds.
LEMMA WriteKeeps == ASSUME IInv, NEW t \in Threads, NEW p \in Pages, Write(t, p) PROVE IInv'
<1> USE WatchAssumption DEF IInv, GuardInv
<1>1. Types'
  BY DEF Types, Write, Done, At, Meet, Enter, Move, Places, Sequels, Calls, host, kept,
         guarding
<1>2. HolderWorks'
  BY DEF HolderWorks, Types, Write, Done, At, Meet, Enter, Move, Places, Sequels, Calls,
         host, kept, guarding
<1>3. OwnApart'
  <2> SUFFICES ASSUME NEW u \in Threads PROVE OwnApart!(u)'
    BY DEF OwnApart
  <2>1. guards' = guards /\ page' = page
    BY DEF Write, guarding
  <2>2. call'[u] = call[u] \/ call'[u].at \in {"idle", "fault"}
    BY DEF Types, Write, Done, Enter
  <2> QED BY <2>1, <2>2 DEF OwnApart
<1>4. GuardsApart' /\ GuardsHold'
  BY DEF GuardsApart, GuardsHold, HolderWorks, OwnApart, Types, Write, Done, At, Meet,
         Enter, Move, Places, Sequels, Calls, host, kept, guarding
<1>5. ChunkInv'
  BY KeptKeeps DEF Write, Done, At, Meet, Enter, Move, Places, Sequels, Calls, host, kept,
                   guarding
<1>6. MarkInv'
  BY DEF MarkInv, Types, Write, Done, At, Meet, Enter, Move, Places, Sequels, Calls, host,
         kept, guarding
<1> QED BY <1>1, <1>2, <1>3, <1>4, <1>5, <1>6

\* forbid_guards, up to its release_guards.
LEMMA ForbidGuardsKeeps ==
  ASSUME IInv, NEW t \in Threads, NEW S \in Spans, ForbidGuards(t, S)
  PROVE  IInv'
<1> USE WatchAssumption DEF IInv, GuardInv
<1>1. Types'
  BY DEF Types, ForbidGuards, Release, At, Meet, Enter, Move, Places, Sequels, Calls, host,
         kept, guarding
<1>2. HolderWorks'
  BY DEF HolderWorks, Types, ForbidGuards, Release, At, Meet, Enter, Move, Places, Sequels,
         Calls, host, kept, guarding
<1>3. OwnApart'
  BY DEF OwnApart, GuardsApart, HolderWorks, Types, ForbidGuards, Release, At, Meet, Enter,
         Move, Places, Sequels, Calls, host, kept, guarding
<1>4. GuardsApart' /\ GuardsHold'
  BY DEF GuardsApart, GuardsHold, HolderWorks, OwnApart, Types, ForbidGuards, Release, At,
         Meet, Enter, Move, Places, Sequels, Calls, host, kept, guarding
<1>5. ChunkInv'
  BY KeptKeeps DEF ForbidGuards, Release, At, Meet, Enter, Move, Places, Sequels, Calls,
                   host, kept, guarding
<1>6. MarkInv'
  BY DEF MarkInv, Types, ForbidGuards, Release, At, Meet, Enter, Move, Places, Sequels,
         Calls, host, kept, guarding
<1> QED BY <1>1, <1>2, <1>3, <1>4, <1>5, <1>6

\* allow_guards.
LEMMA AllowGuardsKeeps ==
  ASSUME IInv, NEW t \in Threads, NEW S \in Spans, AllowGuards(t, S)
  PROVE  IInv'
<1> USE WatchAssumption DEF IInv, GuardInv
<1>1. Types'
  BY DEF Types, AllowGuards, At, Meet, Enter, Move, Places, Sequels, Calls, host, kept,
         guarding
<1>2. HolderWorks'
  BY DEF HolderWorks, Types, AllowGuards, At, Meet, Enter, Move, Places, Sequels, Calls,
         host, kept, guarding
<1>3. OwnApart'
  BY DEF OwnApart, GuardsApart, HolderWorks, Types, AllowGuards, At, Meet, Enter, Move,
         Places, Sequels, Calls, host, kept, guarding
<1>4. GuardsApart' /\ GuardsHold'
  BY DEF GuardsApart, GuardsHold, HolderWorks, OwnApart, Types, AllowGuards, At, Meet,
         Enter, Move, Places, Sequels, Calls, host, kept, guarding
<1>5. ChunkInv'
  BY KeptKeeps DEF AllowGuards, At, Meet, Enter, Move, Places, Sequels, Calls, host, kept,
                   guarding
<1>6. MarkInv'
  BY DEF MarkInv, Types, AllowGuards, At, Meet, Enter, Move, Places, Sequels, Calls, host,
         kept, guarding
<1> QED BY <1>1, <1>2, <1>3, <1>4, <1>5, <1>6

\* note_written, up to its release_guards.
LEMMA DeviceWroteKeeps ==
  ASSUME IInv, NEW t \in Threads, NEW S \in Spans, DeviceWrote(t, S)
  PROVE  IInv'
<1> USE WatchAssumption DEF IInv, GuardInv
<1>1. Types'
  BY DEF Types, DeviceWrote, Release, At, Meet, Enter, Move, Places, Sequels, Calls, host,
         kept, guarding
<1>2. HolderWorks'
  BY DEF HolderWorks, Types, DeviceWrote, Release, At, Meet, Enter, Move, Places, Sequels,
         Calls, host, kept, guarding
<1>3. OwnApart'
  BY DEF OwnApart, GuardsApart, HolderWorks, Types, DeviceWrote, Release, At, Meet, Enter,
         Move, Places, Sequels, Calls, host, kept, guarding
<1>4. GuardsApart' /\ GuardsHold'
  BY DEF GuardsApart, GuardsHold, HolderWorks, OwnApart, Types, DeviceWrote, Release, At,
         Meet, Enter, Move, Places, Sequels, Calls, host, kept, guarding
<1>5. ChunkInv'
  BY KeptKeeps DEF DeviceWrote, Release, At, Meet, Enter, Move, Places, Sequels, Calls,
                   host, kept, guarding
<1>6. MarkInv'
  BY DEF MarkInv, Types, DeviceWrote, Release, At, Meet, Enter, Move, Places, Sequels,
         Calls, host, kept, guarding
<1> QED BY <1>1, <1>2, <1>3, <1>4, <1>5, <1>6

\* A guard taken off the list keeps the invariant.
LEMMA UnlistKeeps ==
  ASSUME IInv, NEW t \in Threads, NEW g \in guards, Unlist(t, g), record \in {NoThread, t},
         UNCHANGED <<host, kept, forbidden, mark>>
  PROVE  IInv'
<1> USE WatchAssumption DEF IInv, GuardInv
<1>1. Types'
  BY DEF Types, Unlist, At, Meet, Enter, Move, Places, Sequels, Calls, host, kept, guarding
<1>2. HolderWorks'
  BY DEF HolderWorks, Types, Unlist, At, Meet, Enter, Move, Places, Sequels, Calls, host,
         kept, guarding
<1>3. OwnApart'
  <2> SUFFICES ASSUME NEW u \in Threads PROVE OwnApart!(u)'
    BY DEF OwnApart
  <2>1. CASE u = t
    <3>1. call'[t].at = "unguard" /\ call'[t].own = g /\ guards' = guards \ {g}
      BY DEF Types, Unlist, Move
    <3> QED BY <2>1, <3>1 DEF GuardsApart
  <2>2. CASE u # t
    BY <2>2 DEF OwnApart, HolderWorks, Types, Unlist, At, Meet, Enter, Move, Places,
                Sequels, Calls, host, kept, guarding
  <2> QED BY <2>1, <2>2
<1>4. GuardsApart' /\ GuardsHold'
  BY DEF GuardsApart, GuardsHold, HolderWorks, OwnApart, Types, Unlist, At, Meet, Enter,
         Move, Places, Sequels, Calls, host, kept, guarding
<1>5. ChunkInv'
  BY KeptKeeps DEF Unlist, At, Meet, Enter, Move, Places, Sequels, Calls, host, kept,
                   guarding
<1>6. MarkInv'
  BY DEF MarkInv, Types, Unlist, At, Meet, Enter, Move, Places, Sequels, Calls, host, kept,
         guarding
<1> QED BY <1>1, <1>2, <1>3, <1>4, <1>5, <1>6

\* So does going on from release_guards or write_faulted with nothing released.
LEMMA LeaveKeeps ==
  ASSUME IInv, NEW t \in Threads, GoOn(t) \/ Move(t, "last", {}),
         record' \in {record, NoThread},
         call[t].at \in {"release", "fault"}, record \in {NoThread, t} \/ record' = record,
         UNCHANGED <<host, kept, guarding, forbidden, mark>>
  PROVE  IInv'
<1> USE WatchAssumption DEF IInv, GuardInv
<1>1. Types'
  BY DEF Types, GoOn, Done, At, Meet, Enter, Move, Places, Sequels, Calls, host, kept,
         guarding
<1>2. HolderWorks'
  BY DEF HolderWorks, Types, GoOn, Done, At, Meet, Enter, Move, Places, Sequels, Calls,
         host, kept, guarding
<1>3. OwnApart'
  <2> SUFFICES ASSUME NEW u \in Threads PROVE OwnApart!(u)'
    BY DEF OwnApart
  <2>1. CASE u = t
    BY <2>1 DEF OwnApart, GuardsApart, Types, GoOn, Done, At, Meet, Enter, Move, Places,
                Sequels, Calls, host, kept, guarding
  <2>2. CASE u # t
    <3>1. call'[u] = call[u] /\ guards' = guards /\ page' = page
      BY <2>2 DEF Types, GoOn, Done, Enter, Move, guarding, host
    <3> QED BY <3>1 DEF OwnApart
  <2> QED BY <2>1, <2>2
<1>4. GuardsApart' /\ GuardsHold'
  BY DEF GuardsApart, GuardsHold, HolderWorks, OwnApart, Types, GoOn, Done, At, Meet, Enter,
         Move, Places, Sequels, Calls, host, kept, guarding
<1>5. ChunkInv'
  BY KeptKeeps DEF GoOn, Done, At, Meet, Enter, Move, Places, Sequels, Calls, host, kept,
                   guarding
<1>6. MarkInv'
  BY DEF MarkInv, Types, GoOn, Done, At, Meet, Enter, Move, Places, Sequels, Calls, host,
         kept, guarding
<1> QED BY <1>1, <1>2, <1>3, <1>4, <1>5, <1>6

\* write_faulted, up to the pages being made writable.
LEMMA WriteFaultedKeeps == ASSUME IInv, NEW t \in Threads, WriteFaulted(t) PROVE IInv'
<1>1. CASE \E g \in guards : Unlist(t, g) /\ record = NoThread
  BY <1>1, UnlistKeeps DEF WriteFaulted
<1>2. CASE Move(t, "last", {}) /\ UNCHANGED <<guarding, record>>
  BY <1>2, LeaveKeeps DEF WriteFaulted, At
<1> QED BY <1>1, <1>2 DEF WriteFaulted

\* One turn of the loop of release_guards.
LEMMA ReleaseGuardsKeeps == ASSUME IInv, NEW t \in Threads, ReleaseGuards(t) PROVE IInv'
<1>1. CASE \E g \in guards : Unlist(t, g) /\ record \in {NoThread, t}
  BY <1>1, UnlistKeeps DEF ReleaseGuards
<1>2. CASE GoOn(t) /\ UNCHANGED <<guarding, record>>
  BY <1>2, LeaveKeeps DEF ReleaseGuards, At
<1>3. CASE GoOn(t) /\ UNCHANGED guarding /\ record' = NoThread /\ record \in {NoThread, t}
  BY <1>3, LeaveKeeps DEF ReleaseGuards, At
<1> QED BY <1>1, <1>2, <1>3 DEF ReleaseGuards

\* The end of mark: pages harvested now lie behind the new mark, after older ones.
LEMMA MarkHarvestKeeps == ASSUME IInv, NEW t \in Threads, MarkHarvest(t) PROVE IInv'
<1> USE WatchAssumption DEF IInv, GuardInv
<1> DEFINE N == bits \cap call[t].arg
<1>n. N \in SUBSET Pages /\ Note(N) /\ epoch' \in Nat /\ epoch' >= epoch
  BY DEF Types, MarkHarvest, Done, At, Meet, Enter, Move, Places, Sequels, Calls, host,
         kept, guarding
<1>0. /\ written' \in [Pages -> Nat] /\ chunks' \in [{ChunkOf(q) : q \in Pages} -> Nat]
      /\ ChunkInv'
      /\ \A q \in N : written'[q] = epoch
      /\ \A q \in Pages : written'[q] >= written[q]
  <2> HIDE DEF N
  <2> QED BY <1>n, NoteKeeps
<1>m. mark' \in [span : SUBSET Pages, since : Nat, dirty : SUBSET Pages]
  <2>1. epoch \in Nat /\ call[t].arg \in SUBSET Pages
    BY DEF Types, Calls
  <2>2. [span |-> call[t].arg, since |-> epoch, dirty |-> {}]
          \in [span : SUBSET Pages, since : Nat, dirty : SUBSET Pages]
    BY <2>1
  <2> QED BY <2>2 DEF Types, MarkHarvest
<1>1. Types'
  <2>1. call' \in [Threads -> Calls]
    BY DEF Types, Calls, Places, Sequels, MarkHarvest, Done, Enter
  <2>2. page' \in [Pages -> {"rw", "ro", "none"}] /\ bits' \subseteq Pages
    BY DEF Types, MarkHarvest
  <2>3. guards' \subseteq SUBSET Pages
    <3>1. call[t].own \in SUBSET Pages
      BY DEF Types, Calls
    <3>2. guards' = guards \cup ({call[t].own} \ {{}})
      BY DEF MarkHarvest
    <3> QED BY <3>1, <3>2 DEF Types
  <2>4. record' \in Threads \cup {NoThread}
    BY DEF Types, MarkHarvest
  <2> QED BY <1>0, <1>n, <1>m, <2>1, <2>2, <2>3, <2>4 DEF Types
<1>2. HolderWorks'
  BY DEF HolderWorks, Types, MarkHarvest, Done, At, Meet, Enter, Move, Places, Sequels,
         Calls, host, kept, guarding
<1>3. OwnApart'
  BY DEF OwnApart, GuardsApart, HolderWorks, Types, MarkHarvest, Done, At, Meet, Enter,
         Move, Places, Sequels, Calls, host, kept, guarding
<1>4. GuardsApart' /\ GuardsHold'
  BY DEF GuardsApart, GuardsHold, HolderWorks, OwnApart, Types, MarkHarvest, Done, At, Meet,
         Enter, Move, Places, Sequels, Calls, host, kept, guarding
<1>6. MarkInv'
  BY <1>0, <1>n DEF MarkInv, Types, MarkHarvest, Done, At, Meet, Enter, Move, Places,
                    Sequels, Calls, host, kept, guarding
<1> QED BY <1>0, <1>1, <1>2, <1>3, <1>4, <1>6

\* mark_all.
LEMMA MarkAllKeeps ==
  ASSUME IInv, NEW t \in Threads, NEW S \in Spans, MarkAll(t, S)
  PROVE  IInv'
<1> USE WatchAssumption DEF IInv, GuardInv
<1> DEFINE N == bits \cap S
<1>n. N \in SUBSET Pages /\ Note(N) /\ epoch' \in Nat /\ epoch' >= epoch
  BY DEF Types, MarkAll, At, Meet, Enter, Move, Places, Sequels, Calls, host, kept, guarding
<1>0. /\ written' \in [Pages -> Nat] /\ chunks' \in [{ChunkOf(q) : q \in Pages} -> Nat]
      /\ ChunkInv'
      /\ \A q \in N : written'[q] = epoch
      /\ \A q \in Pages : written'[q] >= written[q]
  <2> HIDE DEF N
  <2> QED BY <1>n, NoteKeeps
<1>m. mark' \in [span : SUBSET Pages, since : Nat, dirty : SUBSET Pages]
  <2>1. epoch \in Nat /\ S \in SUBSET Pages
    BY DEF Types, Calls
  <2>2. [span |-> S, since |-> epoch, dirty |-> {}]
          \in [span : SUBSET Pages, since : Nat, dirty : SUBSET Pages]
    BY <2>1
  <2> QED BY <2>2 DEF Types, MarkAll
<1>1. Types'
  BY <1>0, <1>n, <1>m DEF Types, MarkAll, At, Meet, Enter, Move, Places, Sequels, Calls,
                          host, kept, guarding
<1>2. HolderWorks'
  BY DEF HolderWorks, Types, MarkAll, At, Meet, Enter, Move, Places, Sequels, Calls, host,
         kept, guarding
<1>3. OwnApart'
  BY DEF OwnApart, GuardsApart, HolderWorks, Types, MarkAll, At, Meet, Enter, Move, Places,
         Sequels, Calls, host, kept, guarding
<1>4. GuardsApart' /\ GuardsHold'
  BY DEF GuardsApart, GuardsHold, HolderWorks, OwnApart, Types, MarkAll, At, Meet, Enter,
         Move, Places, Sequels, Calls, host, kept, guarding
<1>6. MarkInv'
  BY <1>0, <1>n DEF MarkInv, Types, MarkAll, At, Meet, Enter, Move, Places, Sequels, Calls,
                    host, kept, guarding
<1> QED BY <1>0, <1>1, <1>2, <1>3, <1>4, <1>6

\* harvest_all, and written_since.
LEMMA HarvestAllKeeps ==
  ASSUME IInv, NEW t \in Threads, NEW S \in Spans, HarvestAll(t, S)
  PROVE  IInv'
<1> USE WatchAssumption DEF IInv, GuardInv
<1> DEFINE N == bits \cap S
<1>n. N \in SUBSET Pages /\ Note(N) /\ epoch' \in Nat /\ epoch' >= epoch
  BY DEF Types, HarvestAll, At, Meet, Enter, Move, Places, Sequels, Calls, host, kept,
         guarding
<1>0. /\ written' \in [Pages -> Nat] /\ chunks' \in [{ChunkOf(q) : q \in Pages} -> Nat]
      /\ ChunkInv'
      /\ \A q \in N : written'[q] = epoch
      /\ \A q \in Pages : written'[q] >= written[q]
  <2> HIDE DEF N
  <2> QED BY <1>n, NoteKeeps
<1>m. mark' \in [span : SUBSET Pages, since : Nat, dirty : SUBSET Pages]
  BY DEF Types, HarvestAll, At, Meet, Enter, Move, Places, Sequels, Calls, host, kept,
         guarding
<1>1. Types'
  BY <1>0, <1>n, <1>m DEF Types, HarvestAll, At, Meet, Enter, Move, Places, Sequels, Calls,
                          host, kept, guarding
<1>2. HolderWorks'
  BY DEF HolderWorks, Types, HarvestAll, At, Meet, Enter, Move, Places, Sequels, Calls,
         host, kept, guarding
<1>3. OwnApart'
  BY DEF OwnApart, GuardsApart, HolderWorks, Types, HarvestAll, At, Meet, Enter, Move,
         Places, Sequels, Calls, host, kept, guarding
<1>4. GuardsApart' /\ GuardsHold'
  BY DEF GuardsApart, GuardsHold, HolderWorks, OwnApart, Types, HarvestAll, At, Meet, Enter,
         Move, Places, Sequels, Calls, host, kept, guarding
<1>6. MarkInv'
  BY <1>0, <1>n DEF MarkInv, Types, HarvestAll, At, Meet, Enter, Move, Places, Sequels,
                    Calls, host, kept, guarding
<1> QED BY <1>0, <1>1, <1>2, <1>3, <1>4, <1>6

\* The end of a release: the pages are writable, and noted.
LEMMA UnguardKeeps == ASSUME IInv, NEW t \in Threads, Unguard(t) PROVE IInv'
<1> USE WatchAssumption DEF IInv, GuardInv
<1> DEFINE N == call[t].own
<1>n. N \in SUBSET Pages /\ Note(N) /\ epoch' \in Nat /\ epoch' >= epoch
  <2>1. N \in SUBSET Pages
    BY DEF Types, Calls
  <2>2. Note(N) /\ epoch' = epoch
    BY DEF Unguard
  <2>3. epoch \in Nat
    BY DEF Types
  <2> HIDE DEF N, IInv, GuardInv
  <2> QED BY <2>1, <2>2, <2>3
<1>0. /\ written' \in [Pages -> Nat] /\ chunks' \in [{ChunkOf(q) : q \in Pages} -> Nat]
      /\ ChunkInv'
      /\ \A q \in N : written'[q] = epoch
      /\ \A q \in Pages : written'[q] >= written[q]
  <2> HIDE DEF N
  <2> QED BY <1>n, NoteKeeps
<1>m. mark' \in [span : SUBSET Pages, since : Nat, dirty : SUBSET Pages]
  BY DEF Types, Unguard, At, Meet, Enter, Move, Places, Sequels, Calls, host, kept, guarding
<1>1. Types'
  <2>1. call' \in [Threads -> Calls]
    BY DEF Types, Calls, Places, Sequels, Unguard, Move
  <2>2. page' \in [Pages -> {"rw", "ro", "none"}] /\ bits' \subseteq Pages
    BY DEF Types, Unguard
  <2>3. guards' \subseteq SUBSET Pages
    BY DEF Types, Calls, Unguard, guarding
  <2>4. record' \in Threads \cup {NoThread}
    BY DEF Types, Unguard
  <2> QED BY <1>0, <1>n, <1>m, <2>1, <2>2, <2>3, <2>4 DEF Types
<1>2. HolderWorks'
  BY DEF HolderWorks, Types, Unguard, At, Meet, Enter, Move, Places, Sequels, Calls, host,
         kept, guarding
<1>3. OwnApart'
  BY DEF OwnApart, GuardsApart, HolderWorks, Types, Unguard, At, Meet, Enter, Move, Places,
         Sequels, Calls, host, kept, guarding
<1>4. GuardsApart' /\ GuardsHold'
  BY DEF GuardsApart, GuardsHold, HolderWorks, OwnApart, Types, Unguard, At, Meet, Enter,
         Move, Places, Sequels, Calls, host, kept, guarding
<1>6. MarkInv'
  BY <1>0, <1>n DEF MarkInv, Types, Unguard, At, Meet, Enter, Move, Places, Sequels, Calls,
                    host, kept, guarding
<1> QED BY <1>0, <1>1, <1>2, <1>3, <1>4, <1>6

\* The end of note_written.
LEMMA NoteWrittenKeeps == ASSUME IInv, NEW t \in Threads, NoteWritten(t) PROVE IInv'
<1> USE WatchAssumption DEF IInv, GuardInv
<1> DEFINE N == call[t].arg
<1>n. N \in SUBSET Pages /\ Note(N) /\ epoch' \in Nat /\ epoch' >= epoch
  BY DEF Types, NoteWritten, Done, At, Meet, Enter, Move, Places, Sequels, Calls, host,
         kept, guarding
<1>0. /\ written' \in [Pages -> Nat] /\ chunks' \in [{ChunkOf(q) : q \in Pages} -> Nat]
      /\ ChunkInv'
      /\ \A q \in N : written'[q] = epoch
      /\ \A q \in Pages : written'[q] >= written[q]
  <2> HIDE DEF N
  <2> QED BY <1>n, NoteKeeps
<1>m. mark' \in [span : SUBSET Pages, since : Nat, dirty : SUBSET Pages]
  BY DEF Types, NoteWritten, Done, At, Meet, Enter, Move, Places, Sequels, Calls, host,
         kept, guarding
<1>1. Types'
  BY <1>0, <1>n, <1>m DEF Types, NoteWritten, Done, At, Meet, Enter, Move, Places, Sequels,
                          Calls, host, kept, guarding
<1>2. HolderWorks'
  BY DEF HolderWorks, Types, NoteWritten, Done, At, Meet, Enter, Move, Places, Sequels,
         Calls, host, kept, guarding
<1>3. OwnApart'
  BY DEF OwnApart, GuardsApart, HolderWorks, Types, NoteWritten, Done, At, Meet, Enter,
         Move, Places, Sequels, Calls, host, kept, guarding
<1>4. GuardsApart' /\ GuardsHold'
  BY DEF GuardsApart, GuardsHold, HolderWorks, OwnApart, Types, NoteWritten, Done, At, Meet,
         Enter, Move, Places, Sequels, Calls, host, kept, guarding
<1>6. MarkInv'
  BY <1>0, <1>n DEF MarkInv, Types, NoteWritten, Done, At, Meet, Enter, Move, Places,
                    Sequels, Calls, host, kept, guarding
<1> QED BY <1>0, <1>1, <1>2, <1>3, <1>4, <1>6

-----------------------------------------------------------------------------

\* The first state has the invariant.
LEMMA InitInv == Init => IInv
<1> SUFFICES ASSUME Init PROVE IInv
  OBVIOUS
<1>1. Types
  BY DEF Init, Types, Calls, Idle, Places, Sequels, NoMark
<1>2. GuardInv
  BY DEF Init, GuardInv, HolderWorks, OwnApart, GuardsApart, GuardsHold, Idle
<1>3. ChunkInv /\ MarkInv
  BY DEF Init, ChunkInv, MarkInv, NoMark
<1> QED BY <1>1, <1>2, <1>3 DEF IInv

\* Every step keeps it.
LEMMA NextInv == IInv /\ [Next]_vars => IInv'
<1> SUFFICES ASSUME IInv, [Next]_vars PROVE IInv'
  OBVIOUS
<1>1. CASE UNCHANGED vars
  BY <1>1 DEF IInv, Types, GuardInv, HolderWorks, OwnApart, GuardsApart, GuardsHold, Meet,
              ChunkInv, MarkInv, vars, host, kept, guarding
<1>2. CASE Next
  <2> PICK t \in Threads : Step(t)
    BY <1>2 DEF Next
  <2> QED BY MarkBeginKeeps, MarkGuardKeeps, MarkHarvestKeeps, MarkAllKeeps, HarvestAllKeeps,
             ForbidGuardsKeeps, AllowGuardsKeeps, DeviceWroteKeeps, NoteWrittenKeeps,
             WriteKeeps, WriteFaultedKeeps, LastLookKeeps, ReleaseGuardsKeeps, UnguardKeeps
          DEF Step
<1> QED BY <1>1, <1>2

\* So every reachable state has it.
LEMMA Invariance == Spec => []IInv
  BY InitInv, NextInv, PTL DEF Spec

\* While a guard stands its pages are read-only and the host holds no write of
\* them: written_since may answer from the record alone.
THEOREM GuardsAreKept == Spec => []GuardsHold
<1>1. IInv => GuardsHold
  BY DEF IInv, GuardInv
<1> QED BY <1>1, Invariance, PTL

\* written_after, reading one epoch for a chunk wholly inside the range, answers
\* what reading the epoch of every page would.
THEOREM ChunksAnswer == Spec => []ChunkedIsExact
<1>1. IInv => ChunkedIsExact
  <2> SUFFICES ASSUME IInv, NEW S \in Spans, NEW since \in 0..epoch
               PROVE  WrittenAfter(S, since) <=> \E p \in S : written[p] > since
    BY DEF ChunkedIsExact
  <2> S \subseteq Pages
    BY WatchAssumption
  <2>1. ASSUME NEW p \in S, written[p] > since PROVE WrittenAfter(S, since)
    <3>1. ChunkOf(p) \in DOMAIN chunks /\ written[p] <= chunks[ChunkOf(p)]
      BY DEF IInv, Types, ChunkInv
    <3>2. chunks[ChunkOf(p)] > since
      BY <2>1, <3>1 DEF IInv, Types
    <3> QED BY <2>1, <3>2 DEF WrittenAfter
  <2>2. ASSUME WrittenAfter(S, since) PROVE \E p \in S : written[p] > since
    <3>1. PICK q \in S : /\ chunks[ChunkOf(q)] > since
                         /\ \/ \A p \in Pages : ChunkOf(p) = ChunkOf(q) => p \in S
                            \/ \E p \in S : written[p] > since
      BY <2>2 DEF WrittenAfter
    <3>2. ChunkOf(q) \in DOMAIN chunks /\ chunks[ChunkOf(q)] # 0
      BY <3>1 DEF IInv, Types
    <3>3. PICK r \in Pages : ChunkOf(r) = ChunkOf(q) /\ written[r] = chunks[ChunkOf(q)]
      BY <3>2 DEF IInv, ChunkInv
    <3> QED BY <3>1, <3>3
  <2> QED BY <2>1, <2>2
<1> QED BY <1>1, Invariance, PTL

\* No write after a mark is missed by written_since, however marks, guards, faults,
\* harvests and the device's stores interleave.
THEOREM EveryWriteIsSeen == Spec => []NoWriteMissed
<1>1. IInv => NoWriteMissed
  <2> SUFFICES ASSUME IInv, NEW p \in mark.dirty PROVE WrittenSince(mark.span, mark.since)
    BY DEF NoWriteMissed
  <2>1. p \in mark.span /\ p \in Pages
    BY DEF IInv, Types, MarkInv
  <2>2. CASE p \in bits
    BY <2>1, <2>2 DEF IInv, GuardInv, GuardsHold, Meet, GuardOver, WrittenSince
  <2>3. CASE written[p] > mark.since
    <3>1. ChunkOf(p) \in DOMAIN chunks /\ written[p] <= chunks[ChunkOf(p)]
      BY <2>1 DEF IInv, Types, ChunkInv
    <3>2. chunks[ChunkOf(p)] > mark.since
      BY <2>1, <2>3, <3>1 DEF IInv, Types
    <3> QED BY <2>1, <2>3, <3>2 DEF WrittenSince, WrittenAfter
  <2> QED BY <2>2, <2>3 DEF IInv, MarkInv
<1> QED BY <1>1, Invariance, PTL
=============================================================================
