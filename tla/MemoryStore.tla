------------------------------ MODULE MemoryStore ------------------------------
(***************************************************************************)
(* The long-term memory of claw_memory.  A memory is a line of the records *)
(* file; the last line of an id counts.  The index file counts the memories *)
(* under each label, the digest the recalls.  Agents store, update, forget *)
(* and recall from their own tasks; nothing excludes them from each other. *)
(* Files are read whole and written in place: each action is one read or    *)
(* one write; the two reads an update begins with are one, and so is a     *)
(* recall, which writes nothing but lines of the digest.  Every few        *)
(* changes, and at boot, a compaction writes records and index anew.  A    *)
(* file may not open; the power may fail between and during any two steps. *)
(***************************************************************************)
EXTENDS Naturals, Sequences, FiniteSets, SequencesExt, Lists

CONSTANTS
  Writers,         \* tasks of agents
  MemKeys,         \* contents, up to what makes two of them the same memory
  LongKeys,        \* those whose record is longer than its share of the buffer
  Labels,          \* summary labels; one of a memory
  CompactChanges,  \* CLAW_MEMORY_COMPACT_CHANGE_THRESHOLD
  CompactLines,    \* CLAW_MEMORY_COMPACT_SIZE_THRESHOLD, in lines
  MemCapacity,     \* CLAW_MEMORY_MAX_ACTIVE_ITEMS
  MaxIds,          \* bound on the ids given out
  MaxMemOps,       \* bound on the operations, that of the first memory included
  MaxRecalls,      \* bound on the lines of the digest
  MaxMemCuts       \* bound on power failures and on files that do not open

MemoryBounds ==
  /\ {CompactChanges, CompactLines, MemCapacity, MaxIds, MaxMemOps} \subseteq Nat \ {0}
  /\ {MaxRecalls, MaxMemCuts} \subseteq Nat
  /\ LongKeys \subseteq MemKeys /\ Labels # {}

VARIABLES
  memRecords,   \* memory_records.jsonl
  memIndex,     \* memory_index.json
  memDigest,    \* memory_digest.log: the ids recalled
  memChanges,   \* write_changes_since_compact
  memWriter,    \* what each writer is doing
  memIds,       \* ids given out
  memIdsRepeat, \* next_memory_seq started anew, or two tasks changed it at once
  memOpsLeft, memCutsLeft,
  memAcked,     \* history: the contents appended and neither forgotten nor trimmed
  memDamaged,   \* history: a compaction or a forgetting met another's memory and lost it,
                \* or a memory got the id of another
  memStale,     \* history: operations overlapped or broke off since the last boot
  memRecounted  \* history: a compaction broke off after the records, or had company;
                \* or the index did not open

memVars == <<memRecords, memIndex, memDigest, memChanges, memWriter, memIds, memIdsRepeat,
             memOpsLeft, memCutsLeft, memAcked, memDamaged, memStale, memRecounted>>
files == <<memRecords, memIndex, memDigest>>
ids == <<memIds, memIdsRepeat>>
history == <<memAcked, memDamaged, memStale, memRecounted>>

Item == [id : 1..MaxIds, key : MemKeys, label : Labels, sid : Nat, live : BOOLEAN,
         access : Nat]

\* A line that is cut has no readable id.
CutLine == [id |-> 0]
Absent == [id |-> 0, refs |-> 0]
NewIndex == [whole |-> TRUE, sums |-> [l \in Labels |-> Absent], next |-> 1, upto |-> 0]
NoIndex == [NewIndex EXCEPT !.whole = FALSE]

Resting == [pc |-> "idle", op |-> "none", id |-> 0, item |-> CutLine, items |-> <<>>,
            index |-> NoIndex, size |-> 0, after |-> "idle"]

\* Nothing or one memory has been stored, the latter under any one label.
Init ==
  /\ \/ memRecords = <<>> /\ memIndex = NewIndex /\ memChanges = 0 /\ memIds = 0
        /\ memAcked = {}
     \/ \E k \in MemKeys : LET l == CHOOSE l \in Labels : TRUE IN
          /\ memRecords = <<[id |-> 1, key |-> k, label |-> l, sid |-> 1, live |-> TRUE,
                            access |-> 0]>>
          /\ memIndex = [NewIndex EXCEPT !.sums[l] = [id |-> 1, refs |-> 1], !.next = 2]
          /\ memChanges = 1 /\ memIds = 1 /\ memAcked = {k}
  /\ memDigest = <<>>
  /\ memWriter = [w \in Writers |-> Resting]
  /\ memIdsRepeat = FALSE
  /\ memOpsLeft = MaxMemOps - memIds /\ memCutsLeft = MaxMemCuts
  /\ memDamaged = FALSE /\ memStale = FALSE /\ memRecounted = FALSE

-----------------------------------------------------------------------------
(* Records *)

\* A line that is the first, or the last, of its id.
IsFirst(lines, i) == lines[i] # CutLine /\ \A j \in 1 .. i - 1 : lines[j].id # lines[i].id
IsLast(lines, i) ==
  lines[i] # CutLine /\ \A j \in i + 1 .. Len(lines) : lines[j].id # lines[i].id
Latest(lines, id) == CHOOSE i \in DOMAIN lines : IsLast(lines, i) /\ lines[i].id = id

\* Mutant: the first line of an id counts.
CurrentFirst(lines) == Picked(lines, {i \in DOMAIN lines : IsFirst(lines, i)})

\* The memories of a file: the last line of each id, at the place of its first.
Current(lines) ==
  LET first == Picked(lines, {i \in DOMAIN lines : IsFirst(lines, i)})
  IN  [n \in DOMAIN first |-> lines[Latest(lines, first[n].id)]]

Live(lines) ==
  LET items == Current(lines) IN Picked(items, {i \in DOMAIN items : items[i].live})
LiveSet(lines) == LET live == Live(lines) IN {live[i] : i \in DOMAIN live}
LiveKeys(lines) == {item.key : item \in LiveSet(lines)}

\* A line appended to one that was cut continues it and is unreadable with it.
WithLine(lines, item) ==
  IF lines = <<>> \/ lines[Len(lines)] # CutLine THEN Append(lines, item)
  ELSE IF item = CutLine THEN lines ELSE SubSeq(lines, 1, Len(lines) - 1)

-----------------------------------------------------------------------------
(* The index *)

\* A label known to the index keeps its id, a new one gets the preferred id if
\* that is free, else the next.
EnsureLabel(index, label, preferred) ==
  LET taken == \E l \in Labels : index.sums[l].id = preferred
      id == IF preferred > 0 /\ ~taken THEN preferred ELSE index.next
  IN  IF index.sums[label].id > 0 THEN index
      ELSE [index EXCEPT !.sums[label] = [id |-> id, refs |-> 0],
                         !.next = IF id >= @ THEN id + 1 ELSE @]

\* The label with an id; the first, if two have it.
LabelOf(index, sid) ==
  LET found == {l \in Labels : sid > 0 /\ index.sums[l].id = sid}
  IN  IF found = {} THEN {} ELSE {CHOOSE l \in found : TRUE}

\* The label with the id of a memory counts it.
Counted(index, sid) ==
  [index EXCEPT !.sums = [l \in Labels |->
     [index.sums[l] EXCEPT !.refs = IF l \in LabelOf(index, sid) THEN @ + 1 ELSE @]]]

\* Mutant: a label stays when its last memory is forgotten.
UncountedKept(index, sid) ==
  [index EXCEPT !.sums = [l \in Labels |->
     IF l \in LabelOf(index, sid) /\ @[l].refs > 0 THEN [@[l] EXCEPT !.refs = @ - 1]
     ELSE @[l]]]

\* It stops counting it; a label without memories goes.
Uncounted(index, sid) ==
  LET refs(l) == IF l \in LabelOf(index, sid) THEN index.sums[l].refs - 1
                 ELSE index.sums[l].refs
  IN  [index EXCEPT !.sums = [l \in Labels |->
         IF index.sums[l].refs = 0 \/ refs(l) = 0 THEN Absent
         ELSE [@[l] EXCEPT !.refs = refs(l)]]]

-----------------------------------------------------------------------------
(* A compaction *)

NumberOf(id, digest) == Cardinality({i \in DOMAIN digest : digest[i] = id})

\* Recalls since the last compaction are added to the memories they found.
WithRecalls(items, index, digest) ==
  LET since == SubSeq(digest, index.upto + 1, Len(digest))
  IN  [i \in DOMAIN items |-> [items[i] EXCEPT !.access = @ + NumberOf(items[i].id, since)]]

KeysOf(items) == {items[i].key : i \in DOMAIN items}
Place(items, key) == CHOOSE i \in DOMAIN items : items[i].key = key

\* Memories with the same content become one, under the id of the first and
\* with the label of the newer.
Enriched(old, item, newer) ==
  [old EXCEPT !.access = IF item.access > @ THEN item.access ELSE @,
              !.label = IF newer THEN item.label ELSE @]
Joined(done, item, newer) ==
  IF item.key \notin KeysOf(done) THEN Append(done, item)
  ELSE [done EXCEPT ![Place(done, item.key)] = Enriched(@, item, newer)]

Merged(items, newer) ==
  LET Done[n \in 0 .. Len(items)] ==
        IF n = 0 THEN <<>> ELSE Joined(Done[n - 1], items[n], newer)
  IN  Done[Len(items)]

\* A new index counts some memories; a label gets the id it had, if that is free.
CountedAnew(index, label, had) ==
  LET ensured == EnsureLabel(index, label, had[label])
  IN  Counted(ensured, ensured.sums[label].id)

NewIndexOf(items, had, upto) ==
  LET Built[n \in 0 .. Len(items)] ==
        IF n = 0 THEN [NewIndex EXCEPT !.upto = upto]
        ELSE CountedAnew(Built[n - 1], items[n].label, had)
  IN  Built[Len(items)]

\* Mutant: labels are numbered anew, the memories are not.
RelabelledIndexOnly(items, old) ==
  [items |-> items, index |-> NewIndexOf(items, [l \in Labels |-> 0], old.upto)]

\* A new index is made of the memories left; labels keep their ids if they can.
Relabelled(items, old) ==
  LET index == NewIndexOf(items, [l \in Labels |-> old.sums[l].id], old.upto)
  IN  [items |-> [i \in DOMAIN items |->
                    [items[i] EXCEPT !.sid = index.sums[items[i].label].id]],
       index |-> index]

\* More memories than there is room for lose those recalled least.
Trimmed(items) ==
  LET Lower(i, j) == items[i].access < items[j].access
                     \/ (items[i].access = items[j].access /\ i < j)
      spared == {i \in DOMAIN items :
                   Cardinality({j \in DOMAIN items : Lower(i, j)}) < MemCapacity}
  IN  Picked(items, spared)

\* The buffer has a share of 512 bytes per memory: the line that does not fit is
\* cut and those behind it are missing.  A long line takes a share and a half,
\* another half a share.
Written(items) ==
  LET Halves(i) == i + 2 * Cardinality({j \in 1 .. i : items[j].key \in LongKeys})
      fits == {i \in DOMAIN items : Halves(i) <= 2 * Len(items)}
  IN  IF fits = DOMAIN items THEN items
      ELSE SubSeq(items, 1, Cardinality(fits)) \o <<CutLine>>

-----------------------------------------------------------------------------
(* Writers *)

At(w, pc) == memWriter[w].pc = pc
Becomes(w, r) == memWriter' = [memWriter EXCEPT ![w] = r]
Goto(w, pc) == Becomes(w, [memWriter[w] EXCEPT !.pc = pc])
Ends(w) == Becomes(w, Resting)
OthersRest(w) == \A o \in Writers \ {w} : At(o, "idle")
Booting == \E w \in Writers : memWriter[w].op = "boot"
\* Somebody else has read the records for a compaction and not yet written them.
Compacting == {"compactIndex", "compactSize", "compactDigest", "compactWrite"}
Rewriting(w) == \E o \in Writers \ {w} : memWriter[o].pc \in Compacting
Updating(w) == memWriter[w].op = "update"

\* The step a write ends with: a compaction first, if one is due.
Settles(w, after, changes) ==
  LET r == [memWriter[w] EXCEPT !.items = <<>>, !.index = NoIndex] IN
  IF changes >= CompactChanges \/ Len(memRecords) >= CompactLines
  THEN Becomes(w, [r EXCEPT !.pc = "compactRead", !.after = after])
  ELSE Becomes(w, IF after = "idle" THEN Resting ELSE [r EXCEPT !.pc = after])

\* claw_memory_store, update or forget is called.
Begins(w, op, pc, id) ==
  /\ At(w, "idle") /\ ~Booting /\ memOpsLeft > 0
  /\ Becomes(w, [Resting EXCEPT !.pc = pc, !.op = op, !.id = id])
  /\ memOpsLeft' = memOpsLeft - 1
  /\ memStale' = (memStale \/ ~OthersRest(w))
  /\ memIdsRepeat' = (memIdsRepeat \/ ~OthersRest(w))
  /\ UNCHANGED <<files, memChanges, memIds, memCutsLeft, memAcked, memDamaged, memRecounted>>
BeginStore(w) == Begins(w, "store", "storeItems", 0)
BeginUpdate(w) == \E id \in 1..memIds : Begins(w, "update", "updateItems", id)
BeginForget(w) == \E id \in 1..memIds : Begins(w, "forget", "forgetItems", id)

IsLive(id) == \E item \in LiveSet(memRecords) : item.id = id
Stored(id) == CHOOSE item \in LiveSet(memRecords) : item.id = id

\* Mutant: the memory an update replaces counts.
LooksEverywhere(w, key, label) ==
  LET found == \E item \in LiveSet(memRecords) : item.key = key
      fresh == [id |-> 0, key |-> key, label |-> label, sid |-> 0, live |-> TRUE, access |-> 0]
  IN  IF ~found THEN Becomes(w, [memWriter[w] EXCEPT !.pc = "storeIndex", !.item = fresh])
      ELSE IF Updating(w)
      THEN Becomes(w, [memWriter[w] EXCEPT !.pc = "forgetItems", !.item = fresh])
      ELSE Ends(w)

\* A memory that is there already is not stored again; the one an update
\* replaces does not count.
Looks(w, key, label) ==
  LET found == \E item \in LiveSet(memRecords) : item.key = key /\ item.id # memWriter[w].id
      fresh == [id |-> 0, key |-> key, label |-> label, sid |-> 0, live |-> TRUE, access |-> 0]
  IN  IF ~found THEN Becomes(w, [memWriter[w] EXCEPT !.pc = "storeIndex", !.item = fresh])
      ELSE IF Updating(w)
      THEN Becomes(w, [memWriter[w] EXCEPT !.pc = "forgetItems", !.item = fresh])
      ELSE Ends(w)

StoreItems(w) ==
  /\ At(w, "storeItems")
  /\ \E key \in MemKeys, label \in Labels : Looks(w, key, label)
  /\ UNCHANGED <<files, memChanges, ids, memOpsLeft, memCutsLeft, history>>

\* What the patch leaves of the memory may be what it was; a memory that is not
\* there cannot be updated.
UpdateItems(w) ==
  /\ At(w, "updateItems")
  /\ LET id == memWriter[w].id IN
     \/ ~IsLive(id) /\ Ends(w)
     \/ /\ IsLive(id)
        /\ \E key \in MemKeys, label \in Labels :
             IF key = Stored(id).key /\ label = Stored(id).label THEN Ends(w)
             ELSE Looks(w, key, label)
  /\ UNCHANGED <<files, memChanges, ids, memOpsLeft, memCutsLeft, history>>

Faulty == memCutsLeft > 0 /\ memCutsLeft' = memCutsLeft - 1

\* claw_memory_load_index takes an index that does not open for one that is
\* missing and goes on with a new one; one that does not parse is an error.
OpensIndex(index) ==
  \/ /\ memIndex.whole /\ index = memIndex
     /\ UNCHANGED <<memCutsLeft, memStale, memRecounted>>
  \/ /\ Faulty /\ index = NewIndex
     /\ memStale' = TRUE /\ memRecounted' = TRUE
CannotParse(w) ==
  /\ ~memIndex.whole
  /\ Ends(w)
  /\ UNCHANGED <<memCutsLeft, memStale, memRecounted>>

\* claw_memory_make_id puts seconds and a counter together: the next id is a new
\* one unless the counter started anew or two tasks changed it at once.
MadeIds == IF memIdsRepeat THEN 1 .. memIds + 1 ELSE {memIds + 1}
InUse(id) ==
  \/ \E i \in DOMAIN memRecords : memRecords[i].id = id
  \/ \E w \in Writers : LET r == memWriter[w] IN
       r.id = id \/ r.item.id = id \/ \E i \in DOMAIN r.items : r.items[i].id = id

\* The memory gets its id, its label gets one.
StoreIndex(w) ==
  /\ At(w, "storeIndex")
  /\ \/ CannotParse(w) /\ UNCHANGED <<memIds, memDamaged>>
     \/ \E id \in MadeIds \cap 1..MaxIds, opened \in {memIndex, NewIndex} :
          /\ OpensIndex(opened)
          /\ LET r == memWriter[w]
                 index == EnsureLabel(opened, r.item.label, 0)
                 item == [r.item EXCEPT !.id = id, !.sid = index.sums[r.item.label].id]
             IN  Becomes(w, [r EXCEPT !.pc = "storeAppend", !.item = item, !.index = index])
          /\ memIds' = IF id > memIds THEN id ELSE memIds
          /\ memDamaged' = (memDamaged \/ InUse(id))
  /\ UNCHANGED <<files, memChanges, memIdsRepeat, memOpsLeft, memAcked>>

\* A line appended while another writer has the records in hand will be lost.
StoreAppend(w) ==
  /\ At(w, "storeAppend")
  /\ memRecords' = WithLine(memRecords, memWriter[w].item)
  /\ memDamaged' = (memDamaged \/ Rewriting(w) \/ CutLine \in Range(memRecords))
  /\ Goto(w, "storeSave")
  /\ memAcked' = memAcked \cup {memWriter[w].item.key}
  /\ UNCHANGED <<memIndex, memDigest, memChanges, ids, memOpsLeft, memCutsLeft, memStale,
                 memRecounted>>

\* The index as it was read, with the memory counted, is written.
StoreSave(w) ==
  /\ At(w, "storeSave")
  /\ LET r == memWriter[w] IN
     /\ memIndex' = Counted(r.index, r.item.sid)
     /\ memChanges' = memChanges + 1
     /\ Settles(w, IF Updating(w) THEN "forgetItems" ELSE "idle", memChanges + 1)
  /\ UNCHANGED <<memRecords, memDigest, ids, memOpsLeft, memCutsLeft, history>>

ForgetItems(w) ==
  /\ At(w, "forgetItems")
  /\ LET r == memWriter[w] IN
     \/ ~IsLive(r.id) /\ Ends(w)
     \/ /\ IsLive(r.id)
        /\ Becomes(w, [r EXCEPT !.pc = "forgetAppend",
                                !.items = <<[Stored(r.id) EXCEPT !.live = FALSE]>>])
  /\ UNCHANGED <<files, memChanges, ids, memOpsLeft, memCutsLeft, history>>

\* An update has stored its new memory, or found it there, and not yet forgotten
\* the old one.
Replacing(o) ==
  LET r == memWriter[o] IN
  /\ Updating(o)
  /\ \/ r.pc \in {"storeSave", "forgetItems", "forgetAppend"}
     \/ r.pc \in {"compactRead", "compactSave"} \cup Compacting /\ r.after = "forgetItems"
ReliesOn(o, key) == Replacing(o) /\ memWriter[o].item.key = key

\* The content an update keeps is not forgotten with the memory it replaces.
ForgetAppend(w) ==
  /\ At(w, "forgetAppend")
  /\ LET r == memWriter[w]
         item == r.items[1]
         replaced == Updating(w) /\ r.item.key = item.key
     IN  /\ memRecords' = WithLine(memRecords, item)
         /\ memDamaged' = (memDamaged
                            \/ (replaced /\ \E o \in Writers \ {w} : ReliesOn(o, item.key)))
         /\ Goto(w, "forgetIndex")
         /\ memAcked' = IF replaced THEN memAcked ELSE memAcked \ {item.key}
  /\ UNCHANGED <<memIndex, memDigest, memChanges, ids, memOpsLeft, memCutsLeft, memStale,
                 memRecounted>>

ForgetIndex(w) ==
  /\ At(w, "forgetIndex")
  /\ \/ CannotParse(w)
     \/ \E index \in {memIndex, NewIndex} :
          /\ OpensIndex(index)
          /\ Becomes(w, [memWriter[w] EXCEPT !.pc = "forgetSave", !.index = index])
  /\ UNCHANGED <<files, memChanges, ids, memOpsLeft, memAcked, memDamaged>>

ForgetSave(w) ==
  /\ At(w, "forgetSave")
  /\ LET r == memWriter[w] IN
     /\ memIndex' = Uncounted(r.index, r.items[1].sid)
     /\ memChanges' = memChanges + 1
     /\ Settles(w, IF Updating(w) THEN "updateEnd" ELSE "idle", memChanges + 1)
  /\ UNCHANGED <<memRecords, memDigest, ids, memOpsLeft, memCutsLeft, history>>

UpdateEnd(w) ==
  /\ At(w, "updateEnd")
  /\ Settles(w, "idle", memChanges)
  /\ UNCHANGED <<files, memChanges, ids, memOpsLeft, memCutsLeft, history>>

-----------------------------------------------------------------------------
(* Compactions *)

\* The new memory of an update and the one it replaces are the same memory to a
\* compaction.
Doubled(o) ==
  /\ Replacing(o) /\ IsLive(memWriter[o].id)
  /\ Stored(memWriter[o].id).key = memWriter[o].item.key

\* claw_memory_compact_internal reads the records, then the index, takes the size
\* of the digest and reads that to its end.
CompactRead(w) ==
  /\ At(w, "compactRead")
  /\ Becomes(w, [memWriter[w] EXCEPT !.pc = "compactIndex", !.items = Live(memRecords)])
  /\ UNCHANGED <<files, memChanges, ids, memOpsLeft, memCutsLeft, history>>

CompactIndex(w) ==
  /\ At(w, "compactIndex")
  /\ \/ CannotParse(w)
     \/ \E index \in {memIndex, NewIndex} :
          /\ OpensIndex(index)
          /\ Becomes(w, [memWriter[w] EXCEPT !.pc = "compactSize", !.index = index])
  /\ UNCHANGED <<files, memChanges, ids, memOpsLeft, memAcked, memDamaged>>

CompactSize(w) ==
  /\ At(w, "compactSize")
  /\ Becomes(w, [memWriter[w] EXCEPT !.pc = "compactDigest", !.size = Len(memDigest)])
  /\ UNCHANGED <<files, memChanges, ids, memOpsLeft, memCutsLeft, history>>

\* Of two memories with the same content it keeps the label of the newer.  A
\* digest that does not open, or has no new line, is not read.  A recall noted
\* after the size was taken is read now and by the next compaction.
CompactDigest(w) ==
  /\ At(w, "compactDigest")
  /\ \E newer, readable \in BOOLEAN :
       LET r == memWriter[w]
           counted == IF readable THEN WithRecalls(r.items, r.index, memDigest) ELSE r.items
           merged == Merged(counted, newer)
           left == Trimmed(merged)
           new == Relabelled(left, [r.index EXCEPT !.upto = r.size])
       IN  /\ Becomes(w, [r EXCEPT !.pc = "compactWrite",
                                   !.items = new.items, !.index = new.index, !.size = 0])
           /\ memAcked' = memAcked \ (KeysOf(merged) \ KeysOf(left))
           /\ memRecounted' = (memRecounted \/ (readable /\ Len(memDigest) > r.size))
  /\ UNCHANGED <<files, memChanges, ids, memOpsLeft, memCutsLeft, memDamaged, memStale>>

CompactWrite(w) ==
  /\ At(w, "compactWrite")
  /\ memRecords' = Written(memWriter[w].items)
  /\ memDamaged' = (memDamaged \/ memRecords' # memWriter[w].items
                                \/ \E o \in Writers : Doubled(o))
  /\ Goto(w, "compactSave")
  /\ memRecounted' = (memRecounted \/ ~OthersRest(w))
  /\ UNCHANGED <<memIndex, memDigest, memChanges, ids, memOpsLeft, memCutsLeft, memAcked,
                 memStale>>

CompactSave(w) ==
  /\ At(w, "compactSave")
  /\ LET r == memWriter[w] IN
     /\ memIndex' = r.index
     /\ memChanges' = 0
     /\ Becomes(w, IF r.after = "idle" THEN Resting
                   ELSE [r EXCEPT !.pc = r.after, !.items = <<>>, !.index = NoIndex])
     /\ memStale' = (memStale /\ r.op # "boot")
     /\ memRecounted' = (memRecounted \/ ~OthersRest(w))
  /\ UNCHANGED <<memRecords, memDigest, ids, memOpsLeft, memCutsLeft, memAcked, memDamaged>>

-----------------------------------------------------------------------------
(* Recalls and failures *)

\* claw_memory_recall notes in the digest every memory found under a label.
Recall ==
  /\ ~Booting /\ memIndex.whole
  /\ \E l \in Labels :
       LET sid == memIndex.sums[l].id
           live == Live(memRecords)
           found == Picked(live, {i \in DOMAIN live : live[i].sid = sid})
       IN  /\ sid > 0
           /\ Len(memDigest) + Len(found) <= MaxRecalls
           /\ memDigest' = memDigest \o [i \in DOMAIN found |-> found[i].id]
  /\ UNCHANGED <<memRecords, memIndex, memChanges, memWriter, ids, memOpsLeft, memCutsLeft,
                 history>>

Appending(w) == memWriter[w].pc \in {"storeAppend", "forgetAppend"}
Saving(w) == memWriter[w].pc \in {"storeSave", "forgetSave", "compactSave"}
ReadsRecords(w) == memWriter[w].pc \in {"storeItems", "updateItems", "forgetItems", "compactRead"}

\* The records do not open, or the index does not for writing: the operation
\* ends with an error.
OpenFails(w) ==
  /\ Faulty
  /\ ReadsRecords(w) \/ Appending(w) \/ Saving(w) \/ At(w, "compactWrite")
  /\ Ends(w)
  /\ memChanges' = IF memWriter[w].pc \in {"compactWrite", "compactSave"} THEN 0 ELSE memChanges
  /\ memStale' = (memStale \/ Saving(w) \/ Updating(w))
  /\ memRecounted' = (memRecounted \/ At(w, "compactSave"))
  /\ UNCHANGED <<files, ids, memOpsLeft, memAcked, memDamaged>>

\* The index is written, MEMORY.md does not open: the operation ends with an
\* error.  An update may have its new memory by then and not have lost the old.
MarkdownFails(w) ==
  /\ Faulty /\ Saving(w)
  /\ LET r == memWriter[w] IN
       memIndex' = CASE r.pc = "storeSave" -> Counted(r.index, r.item.sid)
                     [] r.pc = "forgetSave" -> Uncounted(r.index, r.items[1].sid)
                     [] r.pc = "compactSave" -> r.index
  /\ Ends(w)
  /\ memChanges' = IF At(w, "compactSave") THEN 0 ELSE memChanges
  /\ memStale' = (memStale \/ Updating(w))
  /\ memRecounted' = (memRecounted \/ (At(w, "compactSave") /\ ~OthersRest(w)))
  /\ UNCHANGED <<memRecords, memDigest, ids, memOpsLeft, memAcked, memDamaged>>

\* The power fails; a file that is being written keeps a part of it.  At the
\* next boot claw_memory_init compacts before anybody else writes.
PowerCut ==
  /\ Faulty
  /\ \/ /\ \/ UNCHANGED <<memRecords, memIndex>>
           \/ /\ \E w \in Writers : Appending(w)
              /\ memRecords' = WithLine(memRecords, CutLine)
              /\ UNCHANGED memIndex
           \/ /\ \E w \in Writers : Saving(w)
              /\ memIndex' = NoIndex
              /\ UNCHANGED memRecords
        /\ memRecounted' = (memRecounted \/ \E w \in Writers : At(w, "compactSave"))
        /\ UNCHANGED memDamaged
     \/ /\ \E w \in Writers :
             /\ At(w, "compactWrite")
             /\ \E n \in 0 .. Len(memWriter[w].items) - 1 :
                  memRecords' = SubSeq(memWriter[w].items, 1, n) \o <<CutLine>>
        /\ memDamaged' = TRUE /\ memRecounted' = TRUE
        /\ UNCHANGED memIndex
  /\ \E w \in Writers :
       memWriter' = [o \in Writers |->
         IF o = w THEN [Resting EXCEPT !.pc = "compactRead", !.op = "boot"] ELSE Resting]
  /\ memChanges' = 0
  /\ memStale' = TRUE
  /\ memIdsRepeat' = TRUE
  /\ UNCHANGED <<memDigest, memIds, memOpsLeft, memAcked>>

Next ==
  \/ \E w \in Writers :
       \/ BeginStore(w) \/ BeginUpdate(w) \/ BeginForget(w)
       \/ StoreItems(w) \/ UpdateItems(w) \/ StoreIndex(w) \/ StoreAppend(w) \/ StoreSave(w)
       \/ ForgetItems(w) \/ ForgetAppend(w) \/ ForgetIndex(w) \/ ForgetSave(w) \/ UpdateEnd(w)
       \/ CompactRead(w) \/ CompactIndex(w) \/ CompactSize(w) \/ CompactDigest(w)
       \/ CompactWrite(w) \/ CompactSave(w)
       \/ OpenFails(w) \/ MarkdownFails(w)
  \/ Recall \/ PowerCut

Spec == Init /\ [][Next]_memVars

-----------------------------------------------------------------------------
(* Properties *)

Lines == {CutLine} \cup Item
TypeOK ==
  /\ \A i \in DOMAIN memRecords : memRecords[i] \in Lines
  /\ memIndex.whole \in BOOLEAN
  /\ \A i \in DOMAIN memDigest : memDigest[i] \in 1..MaxIds
  /\ {memChanges, memIds, memOpsLeft, memCutsLeft} \subseteq Nat
  /\ \A w \in Writers : memWriter[w].id \in 0..MaxIds
  /\ memAcked \subseteq MemKeys
  /\ {memIdsRepeat, memDamaged, memStale, memRecounted} \subseteq BOOLEAN

\* A memory whose storing succeeded stays until it is forgotten or trimmed,
\* through failed writes, power failures and compactions, unless a compaction
\* was cut, or met an append or an update under way, an update relied on a
\* memory that somebody else forgot, or a memory got the id of another
\* (claw_memory.c:99-121, 547-570; claw_memory_extract.c:351-357;
\* claw_memory_storage.c:534-536, 997-1112).
MemoriesKept == ~memDamaged => memAcked \subseteq LiveKeys(memRecords)

\* At rest every memory is found under its label, a label counts the memories
\* under it and no memory is there twice, unless operations overlapped or broke
\* off since the boot, the index did not open, or the exceptions of MemoriesKept
\* hold (claw_memory.c:123-148, 641-645; claw_memory_storage.c:1031-1060).
IndexIsRight ==
  (~memStale /\ ~memDamaged /\ \A w \in Writers : At(w, "idle")) =>
    LET items == LiveSet(memRecords) IN
    /\ memIndex.whole
    /\ \A item \in items : item.sid = memIndex.sums[item.label].id
    /\ \A l \in Labels :
         /\ memIndex.sums[l].refs = Cardinality({item \in items : item.label = l})
         /\ memIndex.sums[l].id > 0 <=> memIndex.sums[l].refs > 0
    /\ \A i, j \in items : i.key = j.key => i = j

\* A recall raises the count of a memory at most once, however often the
\* records are compacted, unless a compaction broke off while the records were
\* written or before the index was, another operation went on beside it, a recall
\* was noted between the size of the digest and its reading, or the index did not
\* open (claw_memory_storage.c:868-937, 967, 1093-1098).
RecallsCountedOnce ==
  ~memRecounted => \A item \in LiveSet(memRecords) : item.access <= Len(memDigest)

\* At rest the content of every memory stored or updated is there
\* (claw_memory.c:490-576, "Update one long-term memory item.").
UpdatedIsKept ==
  (\A w \in Writers : At(w, "idle")) => memAcked \subseteq LiveKeys(memRecords)
=============================================================================
