--------------------------------- MODULE RamFs ---------------------------------
(***************************************************************************)
(* claw_ramfs: the files kept in RAM behind the VFS and their copies on     *)
(* flash.  Nodes hang in a tree, files and directories are opened through   *)
(* handles, and every operation is one critical section of the file        *)
(* system's lock.  A mover task copies a file or the directory between RAM  *)
(* and flash in many calls, through a temporary file and a rename.  The     *)
(* power may fail at any time: RAM is lost, flash stays.                    *)
(***************************************************************************)
EXTENDS Integers, Sequences, FiniteSets, SequencesExt

CONSTANTS
  MaxNodes,      \* nodes the heap has room for
  MaxFiles,      \* max_files: descriptors
  MaxBytes,      \* max_bytes: the sum of all file contents
  MaxOffset,     \* bound on the offsets a client seeks to
  MaxCalls,      \* bound on the calls of the clients
  MaxCuts        \* bound on power failures

RamFsBounds ==
  /\ MaxNodes \in Nat \ {0} /\ MaxFiles \in Nat \ {0}
  /\ MaxBytes \in Nat /\ MaxOffset \in Nat /\ MaxCalls \in Nat /\ MaxCuts \in Nat

VARIABLES
  mounted,     \* the context is registered with the VFS
  unmounting,  \* an unregister has checked the handles and not yet freed the tree
  tree,        \* every node: type, parent, name, data and the two open counts
  kids,        \* children list of every node, newest first
  fds,         \* files[]: the open descriptors
  dirHandle,   \* one DIR of a client, or none
  usedBytes,
  fat,         \* the copy on flash and its temporary file
  mover,       \* the copying task: what it does next, and with which bytes
  kept,        \* history: contents of the last sync that returned ESP_OK
  torn,        \* history: a replacement on flash was cut or failed half-way
  stray,       \* history: a tree was freed under an open handle
  callsLeft, cutsLeft

ramVars == <<mounted, unmounting, tree, kids, fds, dirHandle, usedBytes>>
flashVars == <<fat, kept, torn>>
ramfsVars == <<ramVars, flashVars, mover, stray, callsLeft, cutsLeft>>

Root == 0
Ids == 1 .. MaxNodes
Fds == 1 .. MaxFiles
Nobody == -1   \* the parent of the root, ENOENT of a path
NotDir == -2   \* ENOTDIR of a path

\* What clients name, and the file and directory that are copied to flash.
Dir == <<"d">>
Target == <<"d", "a">>
TmpTarget == <<"d", "a.tmp">>
ClientPaths == {<<"a">>, Dir, Target}

Absent == <<Nobody>>   \* no such file on flash

Free == [type |-> "free", parent |-> Nobody, name |-> "", data |-> <<>>,
         opens |-> 0, dirOpens |-> 0]
Closed == [used |-> FALSE, node |-> Root, write |-> FALSE, append |-> FALSE, offset |-> 0]
NoDirHandle == [node |-> Nobody, offset |-> 0]
Idle == [pc |-> "idle", job |-> "none", bytes |-> <<>>, fd |-> 0]

\* Flags of fopen: "r", "r+", "w", "a" and "wx".
Flags(write, creat, excl, trunc, append) ==
  [write |-> write, creat |-> creat, excl |-> excl, trunc |-> trunc, append |-> append]
Overwrite == Flags(TRUE, TRUE, FALSE, TRUE, FALSE)
OpenFlags == {Flags(FALSE, FALSE, FALSE, FALSE, FALSE), Overwrite,
              Flags(TRUE, TRUE, FALSE, FALSE, TRUE), Flags(TRUE, TRUE, TRUE, FALSE, FALSE)}

-----------------------------------------------------------------------------
(* Nodes and paths *)

EmptyTree == [n \in {Root} \cup Ids |-> IF n = Root THEN [Free EXCEPT !.type = "dir"] ELSE Free]
NoKids == [n \in {Root} \cup Ids |-> <<>>]

FindChild(dir, name) ==
  LET found == {n \in ToSet(kids[dir]) : tree[n].name = name}
  IN  IF found = {} THEN Nobody ELSE CHOOSE n \in found : TRUE

ResolveNode(path) ==
  LET Cur[k \in 0 .. Len(path)] ==
        IF k = 0 THEN Root
        ELSE IF Cur[k - 1] < 0 THEN Cur[k - 1]
        ELSE IF tree[Cur[k - 1]].type # "dir" THEN NotDir
        ELSE FindChild(Cur[k - 1], path[k])
  IN  Cur[Len(path)]

ResolveParent(path) ==
  LET dir == ResolveNode(Front(path))
  IN  IF dir >= 0 /\ tree[dir].type # "dir" THEN NotDir ELSE dir

IsBusy(n) == tree[n].opens > 0 \/ tree[n].dirOpens > 0

\* The walk up the parents.
IsDescendantOf(n, ancestor) ==
  LET Up[k \in 0 .. MaxNodes] ==
        IF k = 0 THEN n ELSE IF Up[k - 1] = Nobody THEN Nobody ELSE tree[Up[k - 1]].parent
  IN  \E k \in 0 .. MaxNodes : Up[k] = ancestor

TreeIsBusy(n) == \E m \in Ids : IsDescendantOf(m, n) /\ IsBusy(m)

FreeIds == {n \in Ids : tree[n].type = "free"}
FreshId == CHOOSE n \in FreeIds : \A m \in FreeIds : n <= m
FreeFds == {i \in Fds : ~fds[i].used}
NextFd == CHOOSE i \in FreeFds : \A j \in FreeFds : i <= j

Size(n) == Len(tree[n].data)
Exists(path) == ResolveNode(path) >= 0
IsFile(path) == Exists(path) /\ tree[ResolveNode(path)].type = "file"

\* Unlinking from the parent's list.
Detached(n) == [kids EXCEPT ![tree[n].parent] = SelectSeq(@, LAMBDA m : m # n)]

CreateNode(dir, name, type, opens) ==
  /\ FreeIds # {}
  /\ tree' = [tree EXCEPT ![FreshId] = [type |-> type, parent |-> dir, name |-> name,
                                        data |-> <<>>, opens |-> opens, dirOpens |-> 0]]
  /\ kids' = [kids EXCEPT ![dir] = <<FreshId>> \o @]

\* The bytes of a file cut or filled with zeros to a size.
Resized(data, size) == [i \in 1 .. size |-> IF i <= Len(data) THEN data[i] ELSE 0]
HasRoom(n, size) == size > Size(n) => size - Size(n) <= MaxBytes - usedBytes
UsedAfter(n, size) == usedBytes - Size(n) + size

-----------------------------------------------------------------------------
(* Files.  Each operation fails without effect where its guard is false.     *)

Opened(n, flags) ==
  [used |-> TRUE, node |-> n, write |-> flags.write, append |-> flags.append,
   offset |-> IF flags.append THEN Size(n) ELSE 0]

\* An existing file is truncated, and a missing one created, before a
\* descriptor is looked for: without one the open fails all the same.
OpenExisting(n, flags) ==
  LET size == IF flags.trunc THEN 0 ELSE Size(n)
      gotFd == FreeFds # {}
  IN  /\ tree[n].type = "file"
      /\ ~(flags.creat /\ flags.excl)
      /\ tree' = [tree EXCEPT ![n].data = Resized(@, size),
                              ![n].opens = IF gotFd THEN @ + 1 ELSE @]
      /\ usedBytes' = UsedAfter(n, size)
      /\ fds' = IF gotFd THEN [fds EXCEPT ![NextFd] = Opened(n, flags)] ELSE fds
      /\ UNCHANGED <<mounted, unmounting, kids, dirHandle>>

OpenNew(dir, name, flags) ==
  LET gotFd == FreeFds # {}
  IN  /\ flags.creat
      /\ CreateNode(dir, name, "file", IF gotFd THEN 1 ELSE 0)
      /\ fds' = IF gotFd
                THEN [fds EXCEPT ![NextFd] = [Opened(Root, flags) EXCEPT !.node = FreshId]]
                ELSE fds
      /\ UNCHANGED <<mounted, unmounting, dirHandle, usedBytes>>

Close(i) ==
  /\ fds[i].used
  /\ tree' = [tree EXCEPT ![fds[i].node].opens = IF @ > 0 THEN @ - 1 ELSE @]
  /\ fds' = [fds EXCEPT ![i] = Closed]
  /\ UNCHANGED <<mounted, unmounting, kids, dirHandle, usedBytes>>

Read(i) ==
  /\ fds[i].used /\ ~fds[i].write
  /\ fds[i].offset < Size(fds[i].node)
  /\ fds' = [fds EXCEPT ![i].offset = @ + 1]
  /\ UNCHANGED <<mounted, unmounting, tree, kids, dirHandle, usedBytes>>

\* One byte at an offset; a gap behind the old end is filled with zeros.
WriteAt(i, byte, offset) ==
  LET n == fds[i].node
      size == IF offset + 1 > Size(n) THEN offset + 1 ELSE Size(n)
  IN  /\ fds[i].used /\ fds[i].write
      /\ HasRoom(n, size)
      /\ tree' = [tree EXCEPT ![n].data = [Resized(@, size) EXCEPT ![offset + 1] = byte]]
      /\ usedBytes' = UsedAfter(n, size)

WriteOffset(i) == IF fds[i].append THEN Size(fds[i].node) ELSE fds[i].offset

Write(i, byte) ==
  /\ WriteAt(i, byte, WriteOffset(i))
  /\ fds' = [fds EXCEPT ![i].offset = WriteOffset(i) + 1]
  /\ UNCHANGED <<mounted, unmounting, kids, dirHandle>>

Pwrite(i, byte, offset) ==
  /\ WriteAt(i, byte, offset)
  /\ UNCHANGED <<mounted, unmounting, kids, fds, dirHandle>>

Lseek(i, offset) ==
  /\ fds[i].used
  /\ fds' = [fds EXCEPT ![i].offset = offset]
  /\ UNCHANGED <<mounted, unmounting, tree, kids, dirHandle, usedBytes>>

ResizeFile(n, size) ==
  /\ HasRoom(n, size)
  /\ tree' = [tree EXCEPT ![n].data = Resized(@, size)]
  /\ usedBytes' = UsedAfter(n, size)

Truncate(n, size) ==
  /\ tree[n].type = "file"
  /\ ResizeFile(n, size)
  /\ UNCHANGED <<mounted, unmounting, kids, fds, dirHandle>>

Ftruncate(i, size) ==
  /\ fds[i].used
  /\ ResizeFile(fds[i].node, size)
  /\ fds' = [fds EXCEPT ![i].offset = IF @ > size THEN size ELSE @]
  /\ UNCHANGED <<mounted, unmounting, kids, dirHandle>>

-----------------------------------------------------------------------------
(* The tree *)

\* A node leaves the tree and its memory is freed.
Removed(n) ==
  /\ kids' = Detached(n)
  /\ tree' = [tree EXCEPT ![n] = Free]
  /\ usedBytes' = usedBytes - Size(n)

\* Mutant: without looking for open descriptors.
UnlinkInUse(n) ==
  /\ tree[n].type = "file"
  /\ Removed(n)
  /\ UNCHANGED <<mounted, unmounting, fds, dirHandle>>

Unlink(n) ==
  /\ tree[n].type = "file" /\ ~IsBusy(n)
  /\ Removed(n)
  /\ UNCHANGED <<mounted, unmounting, fds, dirHandle>>

Mkdir(dir, name) ==
  /\ CreateNode(dir, name, "dir", 0)
  /\ UNCHANGED <<mounted, unmounting, fds, dirHandle, usedBytes>>

Rmdir(n) ==
  /\ n # Root
  /\ tree[n].type = "dir" /\ kids[n] = <<>> /\ ~IsBusy(n)
  /\ Removed(n)
  /\ UNCHANGED <<mounted, unmounting, fds, dirHandle>>

CanReplace(existing, n) ==
  /\ tree[existing].type = tree[n].type
  /\ ~IsBusy(existing)
  /\ kids[existing] = <<>>

\* Mutant: a directory may be moved below itself.
CanRenameBelowItself(n, dir, existing) ==
  /\ n # Root /\ ~IsBusy(n)
  /\ dir >= 0
  /\ existing >= 0 => existing # n /\ CanReplace(existing, n)

CanRename(n, dir, existing) ==
  /\ n # Root /\ ~IsBusy(n)
  /\ dir >= 0
  /\ tree[n].type = "dir" => ~IsDescendantOf(dir, n)
  /\ existing >= 0 => existing # n /\ CanReplace(existing, n)

\* Mutant: the bytes of the replaced file stay counted.
RenamedStillUsed(n, dir, name, existing) ==
  LET left == [m \in DOMAIN kids |->
                 SelectSeq(kids[m], LAMBDA k : k # n /\ k # existing)]
      moved == [tree EXCEPT ![n].parent = dir, ![n].name = name]
  IN  /\ kids' = [left EXCEPT ![dir] = <<n>> \o @]
      /\ tree' = IF existing >= 0 THEN [moved EXCEPT ![existing] = Free] ELSE moved
      /\ usedBytes' = usedBytes

\* Node n gets the name of an existing node, or of none, in a directory.
Renamed(n, dir, name, existing) ==
  LET left == [m \in DOMAIN kids |->
                 SelectSeq(kids[m], LAMBDA k : k # n /\ k # existing)]
      moved == [tree EXCEPT ![n].parent = dir, ![n].name = name]
  IN  /\ kids' = [left EXCEPT ![dir] = <<n>> \o @]
      /\ tree' = IF existing >= 0 THEN [moved EXCEPT ![existing] = Free] ELSE moved
      /\ usedBytes' = IF existing >= 0 THEN usedBytes - Size(existing) ELSE usedBytes

Rename(n, dst) ==
  LET dir == ResolveParent(dst)
      existing == ResolveNode(dst)
  IN  /\ CanRename(n, dir, existing)
      /\ Renamed(n, dir, Last(dst), existing)
      /\ UNCHANGED <<mounted, unmounting, fds, dirHandle>>

\* The new name is allocated after the old node of that name was freed.
RenameNoMemory(n, dst) ==
  LET existing == ResolveNode(dst)
  IN  /\ CanRename(n, ResolveParent(dst), existing) /\ existing >= 0
      /\ Removed(existing)
      /\ UNCHANGED <<mounted, unmounting, fds, dirHandle>>

-----------------------------------------------------------------------------
(* Directory streams: an offset into the children list, kept across calls.   *)

Opendir(n) ==
  /\ dirHandle = NoDirHandle
  /\ tree[n].type = "dir"
  /\ dirHandle' = [node |-> n, offset |-> 0]
  /\ tree' = [tree EXCEPT ![n].dirOpens = @ + 1]
  /\ UNCHANGED <<mounted, unmounting, kids, fds, usedBytes>>

Readdir ==
  /\ dirHandle # NoDirHandle
  /\ dirHandle.offset < Len(kids[dirHandle.node])
  /\ dirHandle' = [dirHandle EXCEPT !.offset = @ + 1]
  /\ UNCHANGED <<mounted, unmounting, tree, kids, fds, usedBytes>>

Closedir ==
  /\ dirHandle # NoDirHandle
  /\ tree' = [tree EXCEPT ![dirHandle.node].dirOpens = IF @ > 0 THEN @ - 1 ELSE @]
  /\ dirHandle' = NoDirHandle
  /\ UNCHANGED <<mounted, unmounting, kids, fds, usedBytes>>

-----------------------------------------------------------------------------
(* Mounting *)

Register ==
  /\ ~mounted
  /\ mounted' = TRUE
  /\ UNCHANGED <<unmounting, tree, kids, fds, dirHandle, usedBytes>>

NoOpenHandles == (\A i \in Fds : ~fds[i].used) /\ (\A n \in DOMAIN tree : tree[n].dirOpens = 0)

\* The lock is released between the check of the handles and the freeing.
UnregisterChecks ==
  /\ mounted /\ ~unmounting
  /\ NoOpenHandles
  /\ unmounting' = TRUE
  /\ UNCHANGED <<mounted, tree, kids, fds, dirHandle, usedBytes>>

FreshRam ==
  /\ tree' = EmptyTree /\ kids' = NoKids
  /\ fds' = [i \in Fds |-> Closed] /\ dirHandle' = NoDirHandle
  /\ usedBytes' = 0 /\ unmounting' = FALSE

UnregisterFrees ==
  /\ unmounting
  /\ mounted' = FALSE
  /\ stray' = ~NoOpenHandles
  /\ FreshRam

-----------------------------------------------------------------------------
(* The mover: from RAM to flash *)

AtMover(pc) == mover.pc = pc
MoverTo(pc) == mover' = [mover EXCEPT !.pc = pc]
MoverEnds == mover' = Idle
MoverFails(pc) == mover' = [mover EXCEPT !.pc = pc, !.bytes = Absent]

\* A file's bytes are copied under the lock; a busy file is refused.
SnapshotFile ==
  LET n == ResolveNode(Target)
  IN  /\ AtMover("idle") /\ mounted
      /\ IsFile(Target) /\ ~IsBusy(n)
      /\ mover' = [pc |-> "s_tmp", job |-> "syncFile", bytes |-> tree[n].data, fd |-> 0]
      /\ UNCHANGED <<ramVars, flashVars>>

\* A directory is copied while the lock is held, when nothing below is open.
SyncTreeBegins ==
  /\ AtMover("idle") /\ mounted
  /\ Exists(Dir) /\ tree[ResolveNode(Dir)].type = "dir"
  /\ ~TreeIsBusy(ResolveNode(Dir))
  /\ mover' = IF IsFile(Target)
              THEN [pc |-> "s_tmp", job |-> "syncTree", bytes |-> tree[ResolveNode(Target)].data,
                    fd |-> 0]
              ELSE Idle
  /\ UNCHANGED <<ramVars, flashVars>>

HoldsLock == mover.job = "syncTree"

\* ramfs_write_file_atomic: a temporary file is written, then put in place.
FlashOpenTmp ==
  /\ AtMover("s_tmp")
  /\ \/ fat' = [fat EXCEPT !.tmp = <<>>] /\ MoverTo("s_write")
     \/ fat' = [fat EXCEPT !.tmp = Absent] /\ MoverEnds
  /\ UNCHANGED <<ramVars, kept, torn>>

\* Mutant: a failed write does not end the replacement.
FlashWriteGoesOn ==
  /\ AtMover("s_write")
  /\ \/ fat' = [fat EXCEPT !.tmp = mover.bytes]
     \/ UNCHANGED fat
  /\ MoverTo("s_unlink")
  /\ UNCHANGED <<ramVars, kept, torn>>

FlashWrite ==
  /\ AtMover("s_write")
  /\ \/ fat' = [fat EXCEPT !.tmp = mover.bytes] /\ MoverTo("s_unlink")
     \/ fat' = [fat EXCEPT !.tmp = Absent] /\ MoverEnds
  /\ UNCHANGED <<ramVars, kept, torn>>

FlashUnlink ==
  /\ AtMover("s_unlink")
  /\ fat' = [fat EXCEPT !.file = Absent]
  /\ MoverTo("s_rename")
  /\ UNCHANGED <<ramVars, kept, torn>>

FlashRename ==
  /\ AtMover("s_rename")
  /\ \/ /\ fat' = [file |-> fat.tmp, tmp |-> Absent]
        /\ kept' = mover.bytes
        /\ torn' = FALSE
     \/ /\ fat' = [fat EXCEPT !.tmp = Absent]
        /\ torn' = TRUE
        /\ UNCHANGED kept
  /\ MoverEnds
  /\ UNCHANGED ramVars

-----------------------------------------------------------------------------
(* The mover: from flash to RAM *)

Failed == mover.bytes = Absent

\* The target, or the whole tree, must not be in use when the load begins.
LoadBegins(whole) ==
  LET path == IF whole THEN Dir ELSE Target
  IN  /\ AtMover("idle") /\ mounted
      /\ fat.file # Absent
      /\ Exists(path) =>
           IF whole THEN ~TreeIsBusy(ResolveNode(path))
           ELSE IsFile(path) /\ ~IsBusy(ResolveNode(path))
      /\ mover' = [pc |-> "mkdir", job |-> IF whole THEN "loadTree" ELSE "loadFile",
                   bytes |-> fat.file, fd |-> 0]
      /\ UNCHANGED <<ramVars, flashVars>>

\* mkdir of the directory; of a tree, its file is then checked and loaded.
LoadMakesDir ==
  LET dir == ResolveNode(Dir)
      Made == Mkdir(Root, Last(Dir)) /\ MoverTo("unlinkTmp")
  IN  /\ AtMover("mkdir")
      /\ \/ dir = Nobody /\ Made
         \/ dir # Nobody /\ (mover.job = "loadFile" => tree[dir].type = "dir")
              /\ UNCHANGED ramVars /\ MoverTo("unlinkTmp")
         \/ ((dir = Nobody /\ FreeIds = {})
              \/ (dir # Nobody /\ mover.job = "loadFile" /\ tree[dir].type # "dir"))
              /\ UNCHANGED ramVars /\ MoverEnds
      /\ UNCHANGED flashVars

CanUnlink(path) == IsFile(path) /\ ~IsBusy(ResolveNode(path))
TryUnlink(path) == IF CanUnlink(path) THEN Unlink(ResolveNode(path)) ELSE UNCHANGED ramVars

\* The source may then fail to open.
LoadUnlinksTmp ==
  /\ AtMover("unlinkTmp")
  /\ TryUnlink(TmpTarget)
  /\ (MoverTo("openTmp") \/ MoverEnds)
  /\ UNCHANGED flashVars

LoadOpensTmp ==
  LET n == ResolveNode(TmpTarget)
      dir == ResolveParent(TmpTarget)
      can == (n >= 0 /\ tree[n].type = "file") \/ (n = Nobody /\ dir >= 0 /\ FreeIds # {})
  IN  /\ AtMover("openTmp")
      /\ IF ~can THEN UNCHANGED ramVars
         ELSE IF n >= 0 THEN OpenExisting(n, Overwrite)
         ELSE OpenNew(dir, Last(TmpTarget), Overwrite)
      /\ IF can /\ FreeFds # {} THEN mover' = [mover EXCEPT !.pc = "write", !.fd = NextFd]
         ELSE MoverEnds
      /\ UNCHANGED flashVars

\* A byte that does not fit, or a read error of flash, ends the copying.
LoadWrites ==
  LET at == fds[mover.fd].offset
  IN  /\ AtMover("write")
      /\ \/ /\ at < Len(mover.bytes)
            /\ Write(mover.fd, mover.bytes[at + 1])
            /\ UNCHANGED mover
         \/ /\ at < Len(mover.bytes)
            /\ MoverFails("close")
            /\ UNCHANGED ramVars
         \/ /\ at = Len(mover.bytes)
            /\ MoverTo("close")
            /\ UNCHANGED ramVars
      /\ UNCHANGED flashVars

\* Mutant: the copying is taken for complete.
LoadClosesAnyway ==
  /\ AtMover("close")
  /\ Close(mover.fd)
  /\ mover' = [mover EXCEPT !.pc = "unlink", !.bytes = IF Failed THEN fat.file ELSE @]
  /\ UNCHANGED flashVars

LoadCloses ==
  /\ AtMover("close")
  /\ Close(mover.fd)
  /\ IF Failed THEN MoverTo("cleanup") ELSE MoverTo("unlink")
  /\ UNCHANGED flashVars

LoadUnlinks ==
  /\ AtMover("unlink")
  /\ TryUnlink(Target)
  /\ MoverTo("rename")
  /\ UNCHANGED flashVars

LoadRenames ==
  /\ AtMover("rename")
  /\ LET n == ResolveNode(TmpTarget)
         can == n >= 0 /\ CanRename(n, ResolveParent(Target), ResolveNode(Target))
     IN  \/ can /\ Rename(n, Target) /\ MoverEnds
         \/ can /\ RenameNoMemory(n, Target) /\ MoverFails("cleanup")
         \/ ~can /\ UNCHANGED ramVars /\ MoverFails("cleanup")
  /\ UNCHANGED flashVars

LoadCleansUp ==
  /\ AtMover("cleanup")
  /\ TryUnlink(TmpTarget)
  /\ MoverEnds
  /\ UNCHANGED flashVars

MoverUsesRam ==
  \/ SnapshotFile \/ SyncTreeBegins
  \/ \E whole \in BOOLEAN : LoadBegins(whole)
  \/ LoadMakesDir \/ LoadUnlinksTmp \/ LoadOpensTmp \/ LoadWrites \/ LoadCloses
  \/ LoadUnlinks \/ LoadRenames \/ LoadCleansUp

MoverUsesFlash == FlashOpenTmp \/ FlashWrite \/ FlashUnlink \/ FlashRename

-----------------------------------------------------------------------------
ClientByte == 1
MoversFd(i) == mover.pc \in {"write", "close"} /\ mover.fd = i

UsesNode(n) ==
  \/ \E flags \in OpenFlags : OpenExisting(n, flags)
  \/ \E size \in 0 .. MaxBytes : Truncate(n, size)
  \/ Unlink(n) \/ Rmdir(n) \/ Opendir(n)
  \/ \E dst \in ClientPaths : Rename(n, dst) \/ RenameNoMemory(n, dst)

CreatesNode(dir, name) ==
  \/ \E flags \in OpenFlags : OpenNew(dir, name, flags)
  \/ Mkdir(dir, name)

UsesPath(path) ==
  LET n == ResolveNode(path)
  IN  \/ n >= 0 /\ UsesNode(n)
      \/ n = Nobody /\ ResolveParent(path) >= 0 /\ CreatesNode(ResolveParent(path), Last(path))

UsesFd(i) ==
  \/ Close(i) \/ Read(i) \/ Write(i, ClientByte)
  \/ \E offset \in 0 .. MaxOffset :
       Pwrite(i, ClientByte, offset) \/ Lseek(i, offset) \/ Ftruncate(i, offset)

Client ==
  /\ mounted /\ ~HoldsLock
  /\ \/ \E path \in ClientPaths : UsesPath(path)
     \/ \E i \in Fds : ~MoversFd(i) /\ UsesFd(i)
     \/ Readdir \/ Closedir
     \/ UnregisterChecks
  /\ callsLeft > 0 /\ callsLeft' = callsLeft - 1
  /\ UNCHANGED <<flashVars, mover, stray, cutsLeft>>

Remount ==
  /\ AtMover("idle")
  /\ \/ Register /\ UNCHANGED stray
     \/ UnregisterFrees
  /\ UNCHANGED <<flashVars, mover, callsLeft, cutsLeft>>

Mover ==
  /\ \/ mounted /\ MoverUsesRam
     \/ MoverUsesFlash
  /\ UNCHANGED <<stray, callsLeft, cutsLeft>>

\* The next boot mounts an empty file system.
PowerFails ==
  /\ cutsLeft > 0
  /\ cutsLeft' = cutsLeft - 1
  /\ torn' = (torn \/ AtMover("s_rename"))
  /\ mounted' = TRUE /\ FreshRam
  /\ MoverEnds
  /\ UNCHANGED <<fat, kept, stray, callsLeft>>

Init ==
  /\ mounted = TRUE /\ unmounting = FALSE
  /\ tree = EmptyTree /\ kids = NoKids
  /\ fds = [i \in Fds |-> Closed] /\ dirHandle = NoDirHandle
  /\ usedBytes = 0
  /\ kept = <<2>>
  /\ fat = [file |-> kept, tmp |-> Absent]
  /\ mover = Idle /\ torn = FALSE /\ stray = FALSE
  /\ callsLeft = MaxCalls /\ cutsLeft = MaxCuts

Next == ~stray /\ (Client \/ Mover \/ Remount \/ PowerFails)
Spec == Init /\ [][Next]_ramfsVars

-----------------------------------------------------------------------------
Bytes == Seq(0 .. 2) \cup {Absent}

TypeOK ==
  /\ mounted \in BOOLEAN /\ unmounting \in BOOLEAN /\ torn \in BOOLEAN /\ stray \in BOOLEAN
  /\ \A n \in {Root} \cup Ids :
       /\ tree[n].type \in {"free", "dir", "file"} /\ tree[n].parent \in Ids \cup {Root, Nobody}
       /\ tree[n].data \in Seq(0 .. 2) /\ tree[n].opens \in Nat /\ tree[n].dirOpens \in Nat
       /\ kids[n] \in Seq(Ids)
  /\ \A i \in Fds : fds[i].node \in {Root} \cup Ids /\ fds[i].offset \in Nat
  /\ dirHandle.node \in Ids \cup {Root, Nobody}
  /\ usedBytes \in 0 .. MaxBytes
  /\ fat.file \in Bytes /\ fat.tmp \in Bytes /\ kept \in Bytes /\ mover.bytes \in Bytes

\* used_bytes, from which the room for the next write is computed, is the sum
\* of the contents, whatever was truncated, replaced or given up
\* (claw_ramfs.c:426, 1038 and 1108).
BytesAccounted ==
  LET SumTo[n \in 0 .. MaxNodes] == IF n = 0 THEN 0 ELSE SumTo[n - 1] + Size(n)
  IN  usedBytes = SumTo[MaxNodes]

\* A descriptor or a directory stream refers to a node that is still in the
\* tree and counts it, so that nobody removes it (claw_ramfs.c:1015-1043).
HandlesAlive ==
  /\ \A i \in Fds : fds[i].used => tree[fds[i].node].type = "file"
  /\ dirHandle # NoDirHandle =>
       tree[dirHandle.node].type = "dir" /\ tree[dirHandle.node].dirOpens = 1
  /\ \A n \in Ids : tree[n].opens = Cardinality({i \in Fds : fds[i].used /\ fds[i].node = n})

\* Every node is reached from the root, once, through its parent, whichever
\* renames came before (claw_ramfs.c:1054-1130).
TreeIsWhole ==
  \A n \in Ids : tree[n].type # "free" =>
    /\ IsDescendantOf(n, Root)
    /\ \A m \in {Root} \cup Ids :
         Cardinality({k \in DOMAIN kids[m] : kids[m][k] = n}) = IF tree[n].parent = m THEN 1 ELSE 0

\* The temporary file that a load puts in place holds all of the source,
\* although other tasks write, rename and remove meanwhile (claw_ramfs.c:1654-1729).
LoadedWhole ==
  AtMover("rename") /\ IsFile(TmpTarget) => tree[ResolveNode(TmpTarget)].data = mover.bytes

\* The file on flash is what was synced last, through refused writes and power
\* failures, or there is none: that, only if one fell between the unlink and the
\* rename, and until the next sync (claw_ramfs.c:598-657).
SyncedIsKept ==
  /\ fat.file \in {kept, Absent}
  /\ ~torn /\ ~AtMover("s_rename") => fat.file = kept
=============================================================================
