--------------------------- MODULE SessionHistory ---------------------------
(***************************************************************************)
(* The history of one session on the file system: the data file of         *)
(* records, the .idx file with one entry per record and the .blocked       *)
(* marker.  The worker of the session's agent appends batches, loads the   *)
(* history and compacts it in place when a turn is complete and the data   *)
(* file is over the limit; the session manager may delete the session      *)
(* meanwhile; a file may not open or be written, the device may reset.     *)
(*                                                                         *)
(* A record is numbered in the order it was handed over and takes `len'    *)
(* cells of the data file, the newline in the last one; a stretch of cells *)
(* parses exactly when it is one whole record.  Index entries are written  *)
(* whole or leave the index torn.  One LLM backend is used throughout, and *)
(* an open file is not unlinked under its writer.                          *)
(***************************************************************************)
EXTENDS Naturals, Sequences, SequencesExt, FiniteSetsExt, Lists

CONSTANTS
  SizeLimit,    \* CLAW_MEMORY_SESSION_SIZE_LIMIT, in cells
  RecordLens,   \* lengths of the records of each type, in cells
  MaxRecords,   \* bound on the records handed over
  MaxBreaks,    \* bound on failed writes and opens and on resets
  Missing,      \* a file that does not exist
  Torn          \* an index without a whole header or with a partial entry

Types == {"user", "tool", "result", "final"}

Cell == (1..MaxRecords) \X Nat
Entry == [off : Nat, len : Nat \ {0}, type : Types]

HistoryAssumption ==
  /\ SizeLimit \in Nat /\ MaxRecords \in Nat /\ MaxBreaks \in Nat
  /\ RecordLens \in [Types -> SUBSET (Nat \ {0})]
  /\ Missing \notin Seq(Cell) /\ Missing \notin Seq(Entry)
  /\ Torn \notin Seq(Entry) /\ Torn # Missing

VARIABLES
  data,      \* cells of the data file, or Missing
  idx,       \* entries of the index file, or Missing, or Torn
  blocked,   \* the .blocked marker exists
  rec,       \* type and length of every record handed over
  pc,        \* where the worker is in the callback
  batch,     \* numbers of the records being appended
  moved,     \* records the compaction has rewritten
  turnOpen,  \* a request of the session has begun its turn
  deleter,   \* the file the deletion unlinks next
  breaks,    \* failed writes, opens and resets so far
  acked,     \* history: records whose append succeeded, since the last reset
  damaged,   \* history: a compaction broke off, and no reset since
  settled    \* history: the last turn ended with its compaction

files == <<data, idx, blocked>>
vars == <<files, rec, pc, batch, moved, turnOpen, deleter, breaks,
          acked, damaged, settled>>

\* Batches as the agent loop hands them over.
BatchTypes == [user |-> <<"user">>, tool |-> <<"tool", "result">>, final |-> <<"final">>]

Init ==
  /\ data = Missing /\ idx = Missing /\ blocked = FALSE
  /\ rec = <<>> /\ pc = "idle" /\ batch = <<>> /\ moved = 0
  /\ turnOpen = FALSE /\ deleter = "none" /\ breaks = 0
  /\ acked = {} /\ damaged = FALSE /\ settled = FALSE

-----------------------------------------------------------------------------
(* Reading the pair of files.                                               *)

Exists(file) == file # Missing

\* session_history_validate_pair: every entry lies within the data.
ValidPair ==
  /\ Exists(idx) /\ idx # Torn /\ Exists(data)
  /\ idx = <<>> => data = <<>>
  /\ \A i \in DOMAIN idx : idx[i].off + idx[i].len <= Len(data)

Cells(id) == [k \in 1..rec[id].len |-> <<id, k>>]

At(e) == SubSeq(data, e.off + 1, e.off + e.len)

\* session_history_read_record_text wants a newline where the entry ends.
EndsRecord(e) == LET c == data[e.off + e.len] IN c[2] = rec[c[1]].len

\* The text of the entry parses.
Readable(e) == LET text == At(e) IN \E id \in DOMAIN rec : text = Cells(id)

\* The record an entry reads.
ReadBy(e) == At(e)[1][1]

\* session_history_load_indexed_json succeeds.
Loadable == ValidPair /\ \A i \in DOMAIN idx : Readable(idx[i])

Loaded == IF Loadable THEN {ReadBy(idx[i]) : i \in DOMAIN idx} ELSE {}

-----------------------------------------------------------------------------
(* Compaction plan.                                                         *)

\* session_history_analyze_turns: a turn runs from a user record to the next.
TurnStart(i) ==
  Max({j \in 1..i : j = 1 \/ idx[j].type = "user"})

Turn(i) == {j \in DOMAIN idx : TurnStart(j) = TurnStart(i)}

Completed(i) == \E j \in Turn(i) : idx[j].type = "final"

HasTools(i) == \E j \in Turn(i) : idx[j].type \in {"tool", "result"}

\* Only the newest completed turn with tool records keeps them.
KeepsTools(i) ==
  /\ Completed(i)
  /\ ~\E j \in DOMAIN idx : TurnStart(j) > TurnStart(i) /\ Completed(j) /\ HasTools(j)

\* Faulty variant: tool results count as plain records of the conversation.
KeepRecordResults(i) ==
  \/ idx[i].type \in {"user", "final", "result"}
  \/ ~Completed(i) /\ TurnStart(i) = TurnStart(Len(idx))
  \/ KeepsTools(i)

\* Faulty variant: only turns that keep their tool records are kept.
KeepRecordNewest(i) ==
  \/ ~Completed(i) /\ TurnStart(i) = TurnStart(Len(idx))
  \/ KeepsTools(i)

\* session_history_compact_keep_record
KeepRecord(i) ==
  \/ idx[i].type \in {"user", "final"}
  \/ ~Completed(i) /\ TurnStart(i) = TurnStart(Len(idx))
  \/ KeepsTools(i)

KeptPositions == InOrder({i \in DOMAIN idx : KeepRecord(i)})

Kept == LET positions == KeptPositions IN [k \in DOMAIN positions |-> idx[positions[k]]]

\* Where the k-th kept record goes: right behind those before it.
NewOffset(k) == LET kept == Kept IN Total([i \in DOMAIN kept |-> kept[i].len], k - 1)

CompactedSize == NewOffset(Len(Kept) + 1)

\* The index once the first k entries of the compacted one are written over it.
Rewritten(k) ==
  LET kept == Kept
  IN  [i \in DOMAIN idx |-> IF i <= k THEN [kept[i] EXCEPT !.off = NewOffset(i)] ELSE idx[i]]

-----------------------------------------------------------------------------
(* The persist callback.                                                    *)

\* A pair counts as invalid too if a file does not open or there is no memory left.
Valid == ValidPair /\ UNCHANGED breaks
Faulty == breaks < MaxBreaks /\ breaks' = breaks + 1
Invalid == (~ValidPair /\ UNCHANGED breaks) \/ Faulty

\* Faulty variant: the index is emptied only if there is none.
RecreateIdxIfMissing ==
  /\ idx' = IF Exists(idx) /\ idx # Torn THEN idx ELSE <<>>
  /\ acked' = {} /\ damaged' = FALSE

\* session_history_recreate_file, once the data file is empty.
RecreateIdx == idx' = <<>> /\ acked' = {} /\ damaged' = FALSE

Lens(types) == {l \in [DOMAIN types -> UNION {RecordLens[t] : t \in Types}] :
                  \A i \in DOMAIN types : l[i] \in RecordLens[types[i]]}

\* Every request persists its user text first; a blocked session is refused at
\* the gate and again by the callback.
Persist(kind, lens) ==
  LET types == BatchTypes[kind]
  IN  /\ pc = "idle" /\ ~blocked
      /\ kind # "user" => turnOpen
      /\ Len(rec) + Len(types) <= MaxRecords
      /\ rec' = rec \o [i \in DOMAIN types |-> [type |-> types[i], len |-> lens[i]]]
      /\ batch' = [i \in DOMAIN types |-> Len(rec) + i]
      /\ turnOpen' = (kind # "final")
      /\ settled' = FALSE
      /\ \/ Valid /\ pc' = "append" /\ UNCHANGED data
         \/ Invalid /\ pc' = "recreate" /\ data' = <<>>
      /\ UNCHANGED <<idx, blocked, moved, deleter, acked, damaged>>

\* After the reset of a load or of a compaction nothing is left to append.
Recreate ==
  /\ pc = "recreate"
  /\ RecreateIdx
  /\ pc' = IF batch = <<>> THEN "idle" ELSE "append"
  /\ UNCHANGED <<data, blocked, rec, batch, moved, turnOpen, deleter, breaks, settled>>

BatchCells == FlattenSeq([i \in DOMAIN batch |-> Cells(batch[i])])
BatchLens == [i \in DOMAIN batch |-> rec[batch[i]].len]

\* The data file is written and closed before the index.
AppendData ==
  /\ pc = "append"
  /\ data' = data \o BatchCells
  /\ pc' = "closeIdx"
  /\ UNCHANGED <<idx, blocked, rec, batch, moved, turnOpen, deleter, breaks, acked,
                 damaged, settled>>

\* Faulty variant: offsets continue the index instead of the data file.
BatchEntriesByIndex(size) ==
  [i \in DOMAIN batch |->
     [off  |-> Total([k \in DOMAIN idx |-> idx[k].len], Len(idx)) + Total(BatchLens, i - 1),
      len  |-> rec[batch[i]].len,
      type |-> rec[batch[i]].type]]

\* Faulty variant: the newline is left out of the length.
BatchEntriesNoNewline(size) ==
  [i \in DOMAIN batch |->
     [off  |-> size + Total(BatchLens, i - 1),
      len  |-> rec[batch[i]].len - 1,
      type |-> rec[batch[i]].type]]

\* The entries of a batch appended to a data file of `size' cells: the offset
\* is the end of the file when the record is written.
BatchEntries(size) ==
  [i \in DOMAIN batch |->
     [off  |-> size + Total(BatchLens, i - 1),
      len  |-> rec[batch[i]].len,
      type |-> rec[batch[i]].type]]

\* Only a batch that completes its turn goes on to the compaction.
CloseIdx ==
  /\ pc = "closeIdx"
  /\ idx' = idx \o BatchEntries(Len(data) - Len(BatchCells))
  /\ acked' = acked \cup ToSet(batch)
  /\ pc' = IF rec[Last(batch)].type = "final" THEN "compact" ELSE "idle"
  /\ batch' = <<>>
  /\ UNCHANGED <<data, blocked, rec, moved, turnOpen, deleter, breaks, damaged, settled>>

TooLarge == Exists(data) /\ Len(data) > SizeLimit

\* Faulty variant: the compacted size is not compared with the limit.
CompactNoBlock ==
  /\ pc = "compact"
  /\ \/ ~TooLarge /\ pc' = "idle" /\ settled' = TRUE /\ UNCHANGED <<data, breaks>>
     \/ TooLarge /\ Invalid /\ pc' = "recreate" /\ data' = <<>> /\ UNCHANGED settled
     \/ TooLarge /\ Valid /\ pc' = "rewrite" /\ UNCHANGED <<data, settled>>
  /\ UNCHANGED <<idx, blocked, rec, batch, moved, turnOpen, deleter, acked, damaged>>

\* session_history_compact_if_needed: the marker is created when even the
\* compacted history is too large; failing to create it is only logged.
Compact ==
  /\ pc = "compact"
  /\ \/ ~TooLarge /\ pc' = "idle" /\ settled' = TRUE /\ UNCHANGED <<data, blocked, breaks>>
     \/ TooLarge /\ Invalid /\ pc' = "recreate" /\ data' = <<>> /\ UNCHANGED <<blocked, settled>>
     \/ /\ TooLarge /\ Valid /\ CompactedSize > SizeLimit
        /\ pc' = "idle"
        /\ blocked' \in BOOLEAN /\ settled' = blocked'
        /\ UNCHANGED data
     \/ /\ TooLarge /\ Valid /\ CompactedSize <= SizeLimit
        /\ pc' = "rewrite" /\ UNCHANGED <<data, blocked, settled>>
  /\ UNCHANGED <<idx, rec, batch, moved, turnOpen, deleter, acked, damaged>>

\* The data file with the first n cells of the next kept record moved to it.
Overwritten(n) ==
  LET e == Kept[moved + 1]
      o == NewOffset(moved + 1)
  IN  [i \in DOMAIN data |-> IF i \in (o + 1)..(o + n) THEN data[i - o + e.off] ELSE data[i]]

\* One turn of the loop of session_history_rewrite_compacted; the entries
\* written to the index stay in its buffer.
MoveRecord ==
  /\ pc = "rewrite" /\ moved < Len(Kept)
  /\ Kept[moved + 1].off # NewOffset(moved + 1) => EndsRecord(Kept[moved + 1])
  /\ data' = Overwritten(Kept[moved + 1].len)
  /\ moved' = moved + 1
  /\ UNCHANGED <<idx, blocked, rec, pc, batch, turnOpen, deleter, breaks, acked,
                 damaged, settled>>

\* Both files are flushed, and then cut: first the data, then the index.
FlushIdx ==
  /\ pc = "rewrite" /\ moved = Len(Kept)
  /\ data' = SubSeq(data, 1, CompactedSize)
  /\ idx' = Rewritten(moved)
  /\ pc' = "truncate"
  /\ UNCHANGED <<blocked, rec, batch, moved, turnOpen, deleter, breaks, acked, damaged,
                 settled>>

TruncateIdx ==
  /\ pc = "truncate"
  /\ idx' = SubSeq(idx, 1, moved)
  /\ pc' = "idle" /\ moved' = 0 /\ settled' = TRUE
  /\ UNCHANGED <<data, blocked, rec, batch, turnOpen, deleter, breaks, acked, damaged>>

-----------------------------------------------------------------------------
(* Loading: claw_memory_session_load_json_alloc.  A history that can be read *)
(* is left alone; one that cannot is emptied.                               *)

LoadResets ==
  /\ pc = "idle"
  /\ Exists(data) \/ Exists(idx)
  /\ (~Loadable /\ UNCHANGED breaks) \/ Faulty
  /\ data' = <<>> /\ pc' = "recreate"
  /\ UNCHANGED <<idx, blocked, rec, batch, moved, turnOpen, deleter, acked, damaged, settled>>

-----------------------------------------------------------------------------
(* A write fails, or the device resets.                                     *)

\* What a failed write or a reset leaves in the files.
Aftermath ==
  \/ /\ pc \in {"idle", "compact"} /\ UNCHANGED <<data, idx, damaged>>
  \/ /\ pc = "recreate" /\ idx' \in {idx, Torn} /\ UNCHANGED <<data, damaged>>
  \/ /\ pc = "append"
     /\ \E n \in 0..Len(BatchCells) : data' = data \o SubSeq(BatchCells, 1, n)
     /\ \/ \E n \in 0..Len(batch) : idx' = idx \o SubSeq(BatchEntries(Len(data)), 1, n)
        \/ idx' = Torn
     /\ UNCHANGED damaged
  \/ /\ pc = "closeIdx"
     /\ \/ \E n \in 0..Len(batch) :
             idx' = idx \o SubSeq(BatchEntries(Len(data) - Len(BatchCells)), 1, n)
        \/ idx' = Torn
     /\ UNCHANGED <<data, damaged>>
  \/ /\ pc = "rewrite"
     /\ \/ UNCHANGED data
        \/ /\ moved < Len(Kept)
           /\ \E n \in 1..Kept[moved + 1].len : data' = Overwritten(n)
     /\ \E n \in 0..moved : idx' = Rewritten(n)
     /\ damaged' = TRUE
  \/ /\ pc = "truncate" /\ damaged' = TRUE /\ UNCHANGED <<data, idx>>

\* A failed write ends the callback with an error, which the agent loop only
\* logs; a reset ends the request and a deletion under way as well.
Break ==
  /\ Faulty
  /\ Aftermath
  /\ pc' = "idle" /\ batch' = <<>> /\ moved' = 0
  /\ settled' = (settled /\ pc = "idle")
  /\ \/ pc # "idle" /\ UNCHANGED <<turnOpen, deleter>>
     \/ turnOpen' = FALSE /\ deleter' = "none"
  /\ UNCHANGED <<blocked, rec, acked>>

-----------------------------------------------------------------------------
(* claw_memory_delete_session_history, by the session manager.              *)

NotOpen == pc \in {"idle", "compact"}

DeleteData ==
  /\ deleter = "none" /\ NotOpen
  /\ data' = Missing
  /\ deleter' = "idx" /\ acked' = {} /\ settled' = FALSE
  /\ UNCHANGED <<idx, blocked, rec, pc, batch, moved, turnOpen, breaks, damaged>>

DeleteIdx ==
  /\ deleter = "idx" /\ NotOpen
  /\ idx' = Missing
  /\ deleter' = "marker"
  /\ UNCHANGED <<data, blocked, rec, pc, batch, moved, turnOpen, breaks, acked, damaged,
                 settled>>

DeleteMarker ==
  /\ deleter = "marker"
  /\ blocked' = FALSE
  /\ deleter' = "none" /\ settled' = FALSE
  /\ UNCHANGED <<data, idx, rec, pc, batch, moved, turnOpen, breaks, acked, damaged>>

\* An unlink that fails ends the deletion where it is.
DeleteFails ==
  /\ deleter # "none"
  /\ deleter' = "none"
  /\ UNCHANGED <<files, rec, pc, batch, moved, turnOpen, breaks, acked, damaged,
                 settled>>

Delete == DeleteData \/ DeleteIdx \/ DeleteMarker \/ DeleteFails

-----------------------------------------------------------------------------
Next ==
  \/ \E kind \in DOMAIN BatchTypes :
       \E lens \in Lens(BatchTypes[kind]) : Persist(kind, lens)
  \/ Recreate \/ AppendData \/ CloseIdx
  \/ Compact \/ MoveRecord \/ FlushIdx \/ TruncateIdx
  \/ LoadResets \/ Break \/ Delete

Spec == Init /\ [][Next]_vars

-----------------------------------------------------------------------------
(* Properties.                                                              *)

TypeOK ==
  /\ Exists(data) => data \in Seq(Cell)
  /\ Exists(idx) /\ idx # Torn => idx \in Seq(Entry)
  /\ blocked \in BOOLEAN
  /\ rec \in Seq([type : Types, len : Nat]) /\ Len(rec) <= MaxRecords
  /\ pc \in {"idle", "recreate", "append", "closeIdx", "compact", "rewrite", "truncate"}
  /\ batch \in Seq(1..MaxRecords)
  /\ moved \in 0..MaxRecords
  /\ turnOpen \in BOOLEAN
  /\ deleter \in {"none", "idx", "marker"}
  /\ breaks \in 0..MaxBreaks
  /\ acked \subseteq 1..MaxRecords
  /\ damaged \in BOOLEAN /\ settled \in BOOLEAN

Quiet == pc = "idle" /\ ~damaged /\ Loadable

\* Whatever append failed and whatever deletion or reset came between, a pair
\* of files that passes validation reads as records in the order they were
\* handed over, none of them twice and each under its own type: an index is
\* never matched with data it was not written for, unless a compaction broke off
\* since the last reset (claw_memory_session.c:864-912, 1098-1137, 1323-1455).
HistoryInOrder ==
  Quiet =>
    /\ \A i \in DOMAIN idx : rec[ReadBy(idx[i])].type = idx[i].type
    /\ \A i, j \in DOMAIN idx : i < j => ReadBy(idx[i]) < ReadBy(idx[j])

\* Until the history is reset, every user text and every final answer whose
\* append succeeded is loaded, across compactions and appends that failed, unless
\* a compaction broke off (claw_memory_session.c:1529-1547, 1614-1776).
NothingForgotten ==
  Quiet => LET loaded == Loaded
           IN  \A id \in acked : rec[id].type \in {"user", "final"} => id \in loaded

\* The tool records of the newest completed turn that ran tools are among the
\* loaded ones, and a tool call that was appended is if and only if its result is.
ToolTurnsOf(loaded) ==
  LET known   == acked \cup loaded
      users   == {id \in known : rec[id].type = "user"}
      turn    == [id \in known |-> Max({0} \cup {u \in users : u <= id})]
      closed  == {turn[id] : id \in {f \in known : rec[f].type = "final"}}
      tools   == {id \in known : rec[id].type \in {"tool", "result"} /\ turn[id] \in closed}
      newest  == Max({0} \cup {turn[id] : id \in tools})
  IN  /\ \A id \in tools : turn[id] = newest /\ newest > 0 => id \in loaded
      /\ \A id \in acked : rec[id].type = "tool" => (id \in loaded <=> id + 1 \in loaded)

\* A compaction spares the tool records of the newest completed turn that ran
\* tools, even if the append of some of its records failed; and of the tool calls
\* that were appended none is kept without its result or the other way round,
\* which the LLM backends would refuse; unless a compaction broke off
\* (claw_memory_session.c:1457-1547).
ToolTurnKept == Quiet => ToolTurnsOf(Loaded)

\* Once a turn has been completed and its compaction has returned, the data
\* file fits the limit or the session is blocked
\* (claw_memory_session.c:1649-1660, 1778-1802).
SizeSettled == settled /\ Exists(data) => Len(data) <= SizeLimit \/ blocked
=============================================================================
