------------------------------ MODULE AgelFs ------------------------------
(***************************************************************************)
(* The filesystem service: one unprivileged world that keeps a directory and *)
(* a bitmap of blocks in memory and asks the supervisor for every sector.    *)
(* It serves one request at a time, so what is hard is where a request       *)
(* stops: any sector write may fail, and the power or the world may go       *)
(* between any two, which leaves the disk as far as the writes had come.     *)
(*                                                                         *)
(* A handler is written as what it makes of a run [mem, disk, writes, ...]:  *)
(* the run counts the sector writes and stops at the one it was told to, and *)
(* from there nothing is done, as the code's `?` does.  A sector holds one    *)
(* block; a byte is zero or written; a path is a sequence of names.          *)
(***************************************************************************)
EXTENDS Integers, Sequences, FiniteSets, FiniteSetsExt

CONSTANTS
  Entries,         \* 0 .. ENTRIES - 1, 0 the root directory
  PerSector,       \* entries one directory sector holds
  Blocks,          \* 0 .. BLOCKS - 1
  EntryBlocks,     \* ENTRY_BLOCKS
  BlockBytes,      \* BLOCK_BYTES
  MaxRequest,      \* bytes one write carries
  Names,           \* names of entries other than Data
  Data,            \* the name of the read-only region's directory
  Roots,           \* the namespace roots requests carry
  Paths,           \* the paths they spell, with ".." where it climbs
  Moves,           \* the renames: an old path, a directory's path and a name
  Offsets,         \* the offsets and lengths they carry
  MaxStops         \* bound on the requests stopped part way

ASSUME AgelFsConstants ==
  /\ IsFiniteSet(Entries) /\ IsFiniteSet(Blocks)
  /\ Entries = 0 .. Cardinality(Entries) - 1 /\ 0 \in Entries
  /\ Blocks = 0 .. Cardinality(Blocks) - 1
  /\ {PerSector, EntryBlocks, BlockBytes, MaxRequest} \subseteq Nat \ {0}
  /\ Data \notin Names /\ Roots \subseteq Entries
  /\ Paths \subseteq Seq(Names \cup {Data, ".."})
  /\ \A move \in Moves : /\ {move.old, move.directory} \subseteq Paths
                         /\ move.name \in Names \cup {Data}
  /\ Offsets \subseteq 0 .. EntryBlocks * BlockBytes + 1 /\ MaxStops \in Nat

VARIABLES
  mem,             \* the service's own: mounted, used, entries
  disk,            \* the region: formatted, used, entries, data
  whole,           \* history: no removal stopped half way, nothing unsaved lost
  stops            \* history: requests stopped part way since the format

fsVars == <<mem, disk, whole, stops>>

FileBytesMax == EntryBlocks * BlockBytes
Slots == 0 .. EntryBlocks - 1
NoBlock == -1
Unset == [kind |-> "free", parent |-> 0, name |-> Data, length |-> 0,
          blocks |-> [s \in Slots |-> NoBlock]]
EmptyDirectory == [e \in Entries |-> IF e = 0 THEN [Unset EXCEPT !.kind = "directory"]
                                              ELSE Unset]
Unmounted == [mounted |-> FALSE, used |-> {},
              entries |-> [e \in Entries |-> Unset]]

Listed(entries, e) == {entries[e].blocks[s] : s \in Slots} \ {NoBlock}
-----------------------------------------------------------------------------
(* Runs: "ok" until a write fails or a check refuses.                       *)

Whole == -1         \* stops at no write
RunOf(stop, late) == [mem |-> mem, disk |-> disk, writes |-> 0, status |-> "ok",
                      stop |-> stop, late |-> late]
Ok(r) == r.status = "ok"
Refuse(r, error) == IF Ok(r) THEN [r EXCEPT !.status = error] ELSE r

(* write_sector through the supervisor, which writes and flushes.  A write    *)
(* that is reported failed may have reached the disk, its flush not.          *)
WriteSector(r, written) ==
  IF r.writes # r.stop THEN [r EXCEPT !.disk = written, !.writes = @ + 1]
  ELSE [r EXCEPT !.status = "EIO", !.disk = IF r.late THEN written ELSE @]

SectorOf(e) == {x \in Entries : x \div PerSector = e \div PerSector}

FlushEntry(r, e) ==
  IF ~Ok(r) THEN r
  ELSE WriteSector(r, [r.disk EXCEPT !.entries =
         [x \in Entries |-> IF x \in SectorOf(e) THEN r.mem.entries[x] ELSE @[x]]])

FlushSuperblock(r) ==
  IF ~Ok(r) THEN r
  ELSE WriteSector(r, [r.disk EXCEPT !.used = r.mem.used, !.formatted = TRUE])

Mount(r) ==
  IF ~Ok(r) \/ r.mem.mounted THEN r
  ELSE IF ~r.disk.formatted THEN Refuse(r, "EIO")
  ELSE [r EXCEPT !.mem = [mounted |-> TRUE, used |-> r.disk.used,
                          entries |-> r.disk.entries]]

(* ensure_block: the lowest free block, zeroed on the disk, marked, listed.   *)
Zeroed(r, b) ==
  IF ~Ok(r) THEN r
  ELSE WriteSector(r, [r.disk EXCEPT !.data[b] = [k \in 0 .. BlockBytes - 1 |-> 0]])
Marked(r, b) == IF ~Ok(r) THEN r ELSE [r EXCEPT !.mem.used = @ \cup {b}]
Lists(r, e, s, b) == IF ~Ok(r) THEN r ELSE [r EXCEPT !.mem.entries[e].blocks[s] = b]

(* Mutant: a fresh block keeps what an earlier file left in it.             *)
EnsureBlock_NotZeroed(r, e, s) ==
  IF ~Ok(r) THEN r
  ELSE IF s \notin Slots THEN Refuse(r, "EFBIG")
  ELSE IF r.mem.entries[e].blocks[s] # NoBlock THEN r
  ELSE IF Blocks \subseteq r.mem.used THEN Refuse(r, "ENOSPC")
  ELSE LET b == Min(Blocks \ r.mem.used) IN
       FlushEntry(Lists(FlushSuperblock(Marked(r, b)), e, s, b), e)
(* Mutant: the entry lists the block before the bitmap has it.              *)
EnsureBlock_ListedFirst(r, e, s) ==
  IF ~Ok(r) THEN r
  ELSE IF s \notin Slots THEN Refuse(r, "EFBIG")
  ELSE IF r.mem.entries[e].blocks[s] # NoBlock THEN r
  ELSE IF Blocks \subseteq r.mem.used THEN Refuse(r, "ENOSPC")
  ELSE LET b == Min(Blocks \ r.mem.used) IN
       FlushSuperblock(Marked(FlushEntry(Lists(Zeroed(r, b), e, s, b), e), b))

EnsureBlock(r, e, s) ==
  IF ~Ok(r) THEN r
  ELSE IF s \notin Slots THEN Refuse(r, "EFBIG")
  ELSE IF r.mem.entries[e].blocks[s] # NoBlock THEN r
  ELSE IF Blocks \subseteq r.mem.used THEN Refuse(r, "ENOSPC")
  ELSE LET b == Min(Blocks \ r.mem.used) IN
       FlushEntry(Lists(FlushSuperblock(Marked(Zeroed(r, b), b)), e, s, b), e)

ReleaseBlocks(r, e, kept) ==
  LET first == (kept + BlockBytes - 1) \div BlockBytes
      given == {s \in Slots : s >= first /\ r.mem.entries[e].blocks[s] # NoBlock} IN
  IF ~Ok(r) \/ given = {} THEN r
  ELSE FlushEntry(FlushSuperblock(
         [r EXCEPT !.mem.used = @ \ {r.mem.entries[e].blocks[s] : s \in given},
                   !.mem.entries[e].blocks =
                     [s \in Slots |-> IF s \in given THEN NoBlock ELSE @[s]]]), e)

(* A sector read, changed at some of its bytes and written back.            *)
Store(r, e, s, from, to, byte) ==
  IF ~Ok(r) THEN r
  ELSE LET b == r.mem.entries[e].blocks[s] IN
       WriteSector(r, [r.disk EXCEPT !.data[b] =
         [k \in 0 .. BlockBytes - 1 |->
            IF s * BlockBytes + k \in from .. to - 1 THEN byte ELSE @[k]]])

SetLength(r, e, length) ==
  IF ~Ok(r) THEN r
  ELSE FlushEntry([r EXCEPT !.mem.entries[e].length = length], e)

(* The slots the bytes from .. to - 1 fall in.                              *)
SlotsOf(from, to) == {s \in Slots : \E k \in from .. to - 1 : k \div BlockBytes = s}
-----------------------------------------------------------------------------
(* Requests on an entry.                                                    *)

IsFile(r, e) == r.mem.entries[e].kind = "file"

(* The bytes from .. to - 1 made zero, slot by slot: a fresh block is zero   *)
(* already.                                                                 *)
ZeroSlot(r, e, s, from, to) ==
  IF s \notin SlotsOf(from, to) THEN r
  ELSE IF Ok(r) /\ r.mem.entries[e].blocks[s] = NoBlock THEN EnsureBlock(r, e, s)
  ELSE Store(r, e, s, from, to, 0)

ZeroFill(r, e, from, to) ==
  LET filled[n \in 0 .. EntryBlocks] ==
        IF n = 0 THEN r ELSE ZeroSlot(filled[n - 1], e, n - 1, from, to) IN
  filled[EntryBlocks]

Truncate(r, e, length) ==
  LET m == Mount(r) IN
  IF ~Ok(m) THEN m
  ELSE IF ~IsFile(m, e) THEN Refuse(m, "EINVAL")
  ELSE IF length > FileBytesMax THEN Refuse(m, "EFBIG")
  ELSE LET old == m.mem.entries[e].length
           cut == IF length < old THEN ReleaseBlocks(m, e, length) ELSE m IN
       SetLength(ZeroFill(cut, e, old, length), e, length)

AtTheEnd == -1

(* write at an offset, or at the end when the descriptor appends: a hole is   *)
(* filled first, then each sector, then the length.                           *)
StoreSlot(r, e, s, from, to) ==
  IF s \notin SlotsOf(from, to) THEN r
  ELSE Store(EnsureBlock(r, e, s), e, s, from, to, 1)

StoreAll(r, e, from, to) ==
  LET stored[n \in 0 .. EntryBlocks] ==
        IF n = 0 THEN r ELSE StoreSlot(stored[n - 1], e, n - 1, from, to) IN
  stored[EntryBlocks]

Write(r, e, at, count) ==
  LET m == Mount(r) IN
  IF ~Ok(m) THEN m
  ELSE IF ~IsFile(m, e) THEN Refuse(m, "EINVAL")
  ELSE
  LET old == m.mem.entries[e].length
      offset == IF at = AtTheEnd THEN old ELSE at
      end == offset + count
      hole == IF offset > old THEN Truncate(m, e, offset) ELSE m
      stored == StoreAll(hole, e, offset, end) IN
  IF end > FileBytesMax THEN Refuse(m, "EFBIG")
  ELSE IF end > old THEN SetLength(stored, e, end) ELSE stored
-----------------------------------------------------------------------------
(* Requests on names.                                                       *)

Child(entries, directory, name) ==
  {e \in Entries \ {0} : /\ entries[e].kind # "free"
                         /\ entries[e].parent = directory
                         /\ entries[e].name = name}

(* A path that leads into the data region, which nothing changes.           *)
InData(root, path) == root = 0 /\ path # <<>> /\ path[1] = Data

(* Resolve a path from a namespace's root, name by name, never above it.    *)
WalkStart(r, root, path) ==
  [at |-> root, missing |-> FALSE,
   status |-> IF InData(root, path) THEN "EACCES"
              ELSE IF ~Ok(r) THEN r.status
              ELSE IF r.mem.entries[root].kind # "directory" THEN "ENOTDIR"
              ELSE "ok"]

WalkStep(entries, root, w, name, last) ==
  LET found == Child(entries, w.at, name) IN
  CASE w.status # "ok" -> w
    [] w.status = "ok" /\ name = ".." ->
         IF w.at = root THEN [w EXCEPT !.status = "EACCES"]
         ELSE [w EXCEPT !.at = entries[w.at].parent]
    [] w.status = "ok" /\ name # ".." ->
         IF found = {} THEN [w EXCEPT !.status = "ENOENT", !.missing = last]
         ELSE IF ~last /\ entries[Min(found)].kind # "directory"
              THEN [w EXCEPT !.status = "ENOTDIR"]
         ELSE [w EXCEPT !.at = Min(found)]

Walk(r, root, path) ==
  LET walked[n \in 0 .. Len(path)] ==
        IF n = 0 THEN WalkStart(r, root, path)
        ELSE WalkStep(r.mem.entries, root, walked[n - 1], path[n], n = Len(path)) IN
  walked[Len(path)]

(* open that creates: the first free entry, for the last name of the path.  *)
Create(r, root, kind, path) ==
  LET m == Mount(r)
      w == Walk(m, root, path)
      free == {e \in Entries \ {0} : m.mem.entries[e].kind = "free"} IN
  IF ~w.missing THEN Refuse(m, w.status)
  ELSE IF free = {} THEN Refuse(m, "ENOSPC")
  ELSE FlushEntry([m EXCEPT !.mem.entries[Min(free)] =
         [Unset EXCEPT !.kind = kind, !.parent = w.at, !.name = path[Len(path)]]], Min(free))

HasChildren(entries, e) ==
  \E x \in Entries : entries[x].kind # "free" /\ entries[x].parent = e

Protected(root, e) == e = 0 \/ e = root

(* Mutant: a directory is removed with what is in it.                       *)
Unlink_NotEmpty(r, root, path) ==
  LET m == Mount(r)
      w == Walk(m, root, path)
      released == ReleaseBlocks(m, w.at, 0) IN
  IF w.status # "ok" THEN Refuse(m, w.status)
  ELSE IF Protected(root, w.at) THEN Refuse(m, "EACCES")
  ELSE IF ~Ok(released) THEN released
  ELSE FlushEntry([released EXCEPT !.mem.entries[w.at] = Unset], w.at)

Unlink(r, root, path) ==
  LET m == Mount(r)
      w == Walk(m, root, path)
      released == ReleaseBlocks(m, w.at, 0) IN
  IF w.status # "ok" THEN Refuse(m, w.status)
  ELSE IF Protected(root, w.at) THEN Refuse(m, "EACCES")
  ELSE IF m.mem.entries[w.at].kind = "directory" /\ HasChildren(m.mem.entries, w.at)
       THEN Refuse(m, "ENOTEMPTY")
  ELSE IF ~Ok(released) THEN released
  ELSE FlushEntry([released EXCEPT !.mem.entries[w.at] = Unset], w.at)

(* The entries met climbing from a directory, itself included: the least set *)
(* with the parent of each of them but the root.                            *)
Climbs(entries, met) == \A d \in met \ {0} : entries[d].parent \in met
Above(entries, e) ==
  {x \in Entries : \A met \in SUBSET Entries : e \in met /\ Climbs(entries, met) => x \in met}

Rename(r, root, old, directory, name) ==
  LET m == Mount(r)
      w == Walk(m, root, old)
      d == Walk(m, root, directory) IN
  IF w.status # "ok" THEN Refuse(m, w.status)
  ELSE IF Protected(root, w.at) THEN Refuse(m, "EACCES")
  ELSE IF d.status # "ok" THEN Refuse(m, d.status)
  ELSE IF m.mem.entries[d.at].kind # "directory" THEN Refuse(m, "ENOTDIR")
  ELSE IF w.at \in Above(m.mem.entries, d.at) THEN Refuse(m, "EINVAL")
  ELSE IF Child(m.mem.entries, d.at, name) # {} THEN Refuse(m, "EEXIST")
  ELSE FlushEntry([m EXCEPT !.mem.entries[w.at].name = name,
                            !.mem.entries[w.at].parent = d.at], w.at)

(* format: the bitmap first, then every directory sector, by its first entry. *)
FlushSector(r, e) == IF e = Min(SectorOf(e)) THEN FlushEntry(r, e) ELSE r

FlushAll(r) ==
  LET flushed[n \in 0 .. Cardinality(Entries)] ==
        IF n = 0 THEN r ELSE FlushSector(flushed[n - 1], n - 1) IN
  flushed[Cardinality(Entries)]

Format(r) ==
  LET cleared == FlushSuperblock([r EXCEPT !.mem.used = {}])
      emptied == IF Ok(cleared) THEN [cleared EXCEPT !.mem.entries = EmptyDirectory]
                                ELSE cleared
      flushed == FlushAll(emptied) IN
  IF Ok(flushed) THEN [flushed EXCEPT !.mem.mounted = TRUE] ELSE flushed
-----------------------------------------------------------------------------
(* A request is served to its end or to one of its sector writes: the write   *)
(* is refused and the service answers EIO, or the machine or the service's    *)
(* world is gone and what it kept in memory with it.                         *)

Behind == mem.mounted /\ mem.entries # disk.entries

Completes(Handler(_)) ==
  LET done == Handler(RunOf(Whole, FALSE)) IN
  mem' = done.mem /\ disk' = done.disk

Stops(Handler(_), removes) ==
  /\ stops < MaxStops /\ stops' = stops + 1
  /\ \E stop \in 0 .. Handler(RunOf(Whole, FALSE)).writes - 1, late \in BOOLEAN :
       LET part == Handler(RunOf(stop, late)) IN
       /\ disk' = part.disk
       /\ \/ mem' = part.mem /\ whole' = (whole /\ ~removes)
          \/ /\ mem' = Unmounted
             /\ whole' = (whole /\ ~Behind /\ (removes => disk' = disk))

Served(Handler(_), removes) ==
  \/ Completes(Handler) /\ UNCHANGED <<whole, stops>>
  \/ Stops(Handler, removes)

(* The directory a request meets: the service's own, or what it will mount.   *)
Directory == IF mem.mounted THEN mem.entries
             ELSE IF disk.formatted THEN disk.entries ELSE EmptyDirectory

FormatRegion ==
  \/ Completes(Format) /\ whole' = TRUE /\ stops' = 0
  \/ Stops(Format, TRUE)

CreateEntry(root, kind, path) ==
  Served(LAMBDA r : Create(r, root, kind, path), FALSE)

WriteFile(e, at, count) == Served(LAMBDA r : Write(r, e, at, count), FALSE)

TruncateFile(e, length) ==
  Served(LAMBDA r : Truncate(r, e, length), length < Directory[e].length)

UnlinkEntry(root, path) == Served(LAMBDA r : Unlink(r, root, path), TRUE)

RenameEntry(root, move) ==
  Served(LAMBDA r : Rename(r, root, move.old, move.directory, move.name), FALSE)

(* :fs-restart, or a boot: the service begins again from the disk.          *)
Restart ==
  /\ mem' = Unmounted
  /\ whole' = (whole /\ ~Behind)
  /\ UNCHANGED <<disk, stops>>

FsInit ==
  /\ mem = Unmounted
  /\ disk = [formatted |-> FALSE, used |-> {}, entries |-> EmptyDirectory,
             data |-> [b \in Blocks |-> [k \in 0 .. BlockBytes - 1 |-> 1]]]
  /\ whole = TRUE /\ stops = 0

FsNext ==
  \/ FormatRegion
  \/ \E root \in Roots, kind \in {"file", "directory"}, path \in Paths :
       CreateEntry(root, kind, path)
  \/ \E e \in Entries, at \in {AtTheEnd} \cup Offsets, count \in 1 .. MaxRequest :
       WriteFile(e, at, count)
  \/ \E e \in Entries, length \in Offsets : TruncateFile(e, length)
  \/ \E root \in Roots, path \in Paths : UnlinkEntry(root, path)
  \/ \E root \in Roots, move \in Moves : RenameEntry(root, move)
  \/ Restart

FsSpec == FsInit /\ [][FsNext]_fsVars
-----------------------------------------------------------------------------
(* The directory and the bitmap have their shapes, on the disk and in the    *)
(* service; a descriptor's entry and a slot always name something.           *)
EntryType ==
  [kind : {"free", "file", "directory"}, parent : Entries,
   name : Names \cup {Data}, length : 0 .. FileBytesMax,
   blocks : [Slots -> Blocks \cup {NoBlock}]]
FsTypeOK ==
  /\ mem \in [mounted : BOOLEAN, used : SUBSET Blocks, entries : [Entries -> EntryType]]
  /\ disk \in [formatted : BOOLEAN, used : SUBSET Blocks,
               entries : [Entries -> EntryType],
               data : [Blocks -> [0 .. BlockBytes - 1 -> {0, 1}]]]
  /\ whole \in BOOLEAN /\ stops \in 0 .. MaxStops

OneOwner(entries) ==
  \A e, f \in Entries, s, t \in Slots :
    entries[e].blocks[s] = entries[f].blocks[t] /\ entries[e].blocks[s] # NoBlock
      => e = f /\ s = t
MarksListed(entries, used) == UNION {Listed(entries, e) : e \in Entries} \subseteq used

(* The bitmap's comment (user.rs:2050): bit k is set when block k is some     *)
(* entry's, so no block is ever given twice.                                  *)
BlocksAreMarked ==
  mem.mounted => MarksListed(mem.entries, mem.used) /\ OneOwner(mem.entries)

(* That holds, in the service and on the disk, through any failed write and    *)
(* any power cut that does not fall inside a removal: a block is marked before *)
(* it is listed, and listed before a length reaches it.                       *)
GrowthIsSafe ==
  whole => /\ BlocksAreMarked
           /\ disk.formatted => /\ MarksListed(disk.entries, disk.used)
                                /\ OneOwner(disk.entries)

(* Nothing is lost either while requests run to their end: the bitmap holds    *)
(* exactly the blocks that entries list.                                      *)
NoBlockLeaks ==
  stops = 0 /\ mem.mounted =>
    mem.used = UNION {Listed(mem.entries, e) : e \in Entries}

(* Each block has one owner or none, and the bitmap knows which.              *)
BlocksAreAccounted == FsTypeOK /\ GrowthIsSafe /\ NoBlockLeaks

(* The directory is a tree under any order of create, remove and rename, from  *)
(* any namespace: each entry's parent is a directory, every climb ends at the  *)
(* root, and two children of a directory differ in name.  Refused writes and   *)
(* cuts included, but not (`whole') those inside a shrink, a removal or a       *)
(* format, nor a restart of a service ahead of its disk: a directory whose     *)
(* write was refused stays in memory (user.rs:2434), its child may be written  *)
(* to another sector, and a restart finds the child alone.                     *)
StaysATree ==
  whole => \A e \in Entries \ {0} : Directory[e].kind # "free" =>
    /\ Directory[Directory[e].parent].kind = "directory"
    /\ 0 \in Above(Directory, e)
    /\ Child(Directory, Directory[e].parent, Directory[e].name) = {e}

(* The bytes a request on an entry meets; 2 is one that cannot be read.     *)
ByteAt(e, k) ==
  LET b == Directory[e].blocks[k \div BlockBytes] IN
  IF b = NoBlock THEN 2 ELSE disk.data[b][k % BlockBytes]
Contents(e) ==
  IF Directory[e].kind # "file" THEN <<-1>>
  ELSE [k \in 1 .. Directory[e].length |-> ByteAt(e, k - 1)]

(* The service implements files of bytes: whatever shares its blocks, a file   *)
(* changes as some one request would, its fresh bytes read zero, and a request  *)
(* cut short is a part of itself.  Under `whole', as above; which request was   *)
(* served is not compared with the change.                                    *)
Bytes == INSTANCE FileBytes WITH
  Files <- Entries, MaxFile <- FileBytesMax, bytes <- [e \in Entries |-> Contents(e)],
  trusted <- whole
ImplementsFiles == Bytes!BytesSpec
=============================================================================
