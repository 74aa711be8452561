----------------------------- MODULE AgelFsProofs -----------------------------
(***************************************************************************)
(* Proofs about the filesystem service, for any number of entries, sectors, *)
(* blocks, bytes, names, namespaces and requests: a block has one owner or  *)
(* none and the bitmap knows which, and the directory is a tree, whatever    *)
(* write a request stops at, as long as the region is `whole'.              *)
(*                                                                         *)
(* A handler is a function of runs, so the proofs are about what an          *)
(* operation makes of any run: Keeps(r, q) says what q has of what r had.    *)
(***************************************************************************)
EXTENDS AgelFs, FiniteSetTheorems, WellFoundedInduction, TLAPS

Statuses ==
  {"ok", "EIO", "EINVAL", "EFBIG", "ENOSPC", "EACCES", "ENOTDIR", "ENOENT", "ENOTEMPTY",
   "EEXIST"}

Directories == [Entries -> EntryType]
Sectors == [Blocks -> [0 .. BlockBytes - 1 -> {0, 1}]]
Memories == [mounted : BOOLEAN, used : SUBSET Blocks, entries : Directories]
Disks == [formatted : BOOLEAN, used : SUBSET Blocks, entries : Directories, data : Sectors]

Runs == [mem : Memories, disk : Disks, writes : Nat, status : Statuses, stop : Int,
         late : BOOLEAN]
Running == {r \in Runs : r.mem.mounted}

\* The bitmap has the blocks that entries list, and no others.
Marks(entries, used) ==
  \A e \in Entries, s \in Slots :
    entries[e].blocks[s] # NoBlock => entries[e].blocks[s] \in used
Uses(entries, used) ==
  \A b \in used : \E e \in Entries, s \in Slots : entries[e].blocks[s] = b

\* What the disk lists, the service lists too: it may be ahead, never behind.
Reflects(m, d) ==
  \A e \in Entries, s \in Slots :
    d.entries[e].blocks[s] # NoBlock => m.entries[e].blocks[s] = d.entries[e].blocks[s]

Sound(m, d) ==
  IF m.mounted
  THEN /\ d.formatted /\ OneOwner(m.entries) /\ Reflects(m, d)
       /\ Marks(m.entries, m.used) /\ Marks(m.entries, d.used)
  ELSE d.formatted => OneOwner(d.entries) /\ Marks(d.entries, d.used)

\* Nothing has stopped: the service and the disk are one.
Exact(m, d) ==
  IF m.mounted
  THEN m.used = d.used /\ m.entries = d.entries /\ Uses(m.entries, m.used)
  ELSE d.formatted => Uses(d.entries, d.used)

\* Who is called what and where, and what is free: what a file holds left out.
SameNames(a, b) ==
  \A e \in Entries : /\ a[e].kind = b[e].kind /\ a[e].parent = b[e].parent /\ a[e].name = b[e].name
                     /\ a[e].kind = "free" => a[e].blocks = b[e].blocks

Tree(entries) ==
  /\ entries[0].kind = "directory" /\ entries[0].parent = 0
  /\ \A e \in Entries \ {0} : entries[e].kind # "free" =>
       /\ entries[entries[e].parent].kind = "directory"
       /\ 0 \in Above(entries, e)
       /\ Child(entries, entries[e].parent, entries[e].name) = {e}

\* A free entry lists nothing: what is created has no blocks of an earlier file.
Vacant(entries) ==
  \A e \in Entries : entries[e].kind = "free" => entries[e].blocks = Unset.blocks

Met(m, d) == IF m.mounted THEN m.entries ELSE IF d.formatted THEN d.entries ELSE EmptyDirectory

\* From one run of a mounted service to another, in a request that removes nothing.
Goes(r, q) == q \in Running /\ q.stop = r.stop /\ q.late = r.late
Keeps(r, q) ==
  /\ Goes(r, q)
  /\ Sound(r.mem, r.disk) => Sound(q.mem, q.disk)
  /\ Sound(r.mem, r.disk) /\ Exact(r.mem, r.disk) /\ r.stop = Whole => Exact(q.mem, q.disk)
  /\ SameNames(r.mem.entries, q.mem.entries)
  /\ SameNames(r.mem.entries, r.disk.entries) => SameNames(r.mem.entries, q.disk.entries)

\* From one run to another in any request, and what the disk alone has after it.
Good(m, d) == Sound(m, d) /\ Tree(Met(m, d)) /\ Vacant(Met(m, d))
Ahead(m, d) == m.mounted /\ m.entries # d.entries
Serves(r, q) ==
  /\ q \in Runs
  /\ Good(r.mem, r.disk) => Good(q.mem, q.disk)
  /\ Good(r.mem, r.disk) /\ Exact(r.mem, r.disk) /\ r.stop = Whole => Exact(q.mem, q.disk)
Leaves(r, q) ==
  Good(r.mem, r.disk) /\ ~Ahead(r.mem, r.disk) =>
    Tree(Met(Unmounted, q.disk)) /\ Vacant(Met(Unmounted, q.disk))

FsInv ==
  /\ FsTypeOK
  /\ stops = 0 => whole /\ Exact(mem, disk)
  /\ whole => Good(mem, disk)

-----------------------------------------------------------------------------
\* The constants, and records of the types.

LEMMA ConstantsAre ==
  /\ Cardinality(Entries) \in Nat \ {0} /\ Entries = 0 .. Cardinality(Entries) - 1
  /\ 0 \in Entries /\ Entries \subseteq Nat /\ Blocks \subseteq Nat /\ NoBlock \notin Blocks
  /\ EntryBlocks \in Nat \ {0} /\ BlockBytes \in Nat \ {0} /\ PerSector \in Nat \ {0}
  /\ Slots = 0 .. EntryBlocks - 1 /\ FileBytesMax \in Nat /\ MaxRequest \in Nat
<1>1. /\ Cardinality(Entries) \in Nat /\ Cardinality(Blocks) \in Nat /\ Cardinality(Entries) # 0
  BY AgelFsConstants, FS_CardinalityType, FS_EmptySet
<1>2. Entries = 0 .. Cardinality(Entries) - 1 /\ Blocks = 0 .. Cardinality(Blocks) - 1
      /\ 0 \in Entries
  BY AgelFsConstants
<1>3. EntryBlocks \in Nat \ {0} /\ BlockBytes \in Nat \ {0} /\ PerSector \in Nat \ {0}
      /\ MaxRequest \in Nat
  BY AgelFsConstants
<1>4. Entries \subseteq Nat /\ Blocks \subseteq Nat /\ NoBlock \notin Blocks
  BY <1>1, <1>2 DEF NoBlock
<1>5. FileBytesMax \in Nat
  BY <1>3 DEF FileBytesMax
<1> QED BY <1>1, <1>2, <1>3, <1>4, <1>5 DEF Slots

\* A non-empty set of natural numbers has a least member.
LEMMA LeastOf ==
  ASSUME NEW T \in SUBSET Nat, T # {}
  PROVE  Min(T) \in T /\ \A n \in T : Min(T) <= n
<1> DEFINE R == {ss \in Nat \X Nat : ss[1] < ss[2]}
<1>1. IsWellFoundedOn(R, Nat)
  BY NatLessThanWellFounded DEF OpToRel
<1>2. PICK m \in T : \A n \in T : ~ (<<n, m>> \in R)
  BY <1>1, WFMin
<1>3. ASSUME NEW n \in T PROVE m <= n
  <2>1. ~(n < m)
    BY <1>2
  <2> QED BY <2>1
<1> QED BY <1>3 DEF Min

LEMMA TypeIs == FsTypeOK <=> mem \in Memories /\ disk \in Disks /\ whole \in BOOLEAN
                              /\ stops \in 0 .. MaxStops
BY DEF FsTypeOK, Memories, Disks, Directories, Sectors

LEMMA MemoryIs ==
  ASSUME NEW m \in Memories
  PROVE  m.mounted \in BOOLEAN /\ m.used \in SUBSET Blocks /\ m.entries \in [Entries -> EntryType]
BY DEF Memories, Directories

LEMMA RunIs ==
  ASSUME NEW r \in Runs
  PROVE  /\ r.mem \in Memories /\ r.disk \in Disks /\ r.writes \in Nat /\ r.status \in Statuses
         /\ r.stop \in Int /\ r.late \in BOOLEAN
         /\ r.mem.mounted \in BOOLEAN /\ r.mem.used \in SUBSET Blocks
         /\ r.mem.entries \in [Entries -> EntryType]
         /\ r.disk.formatted \in BOOLEAN /\ r.disk.used \in SUBSET Blocks
         /\ r.disk.entries \in [Entries -> EntryType] /\ r.disk.data \in Sectors
<1>1. r.mem \in Memories /\ r.disk \in Disks /\ r.writes \in Nat /\ r.status \in Statuses
      /\ r.stop \in Int /\ r.late \in BOOLEAN
  BY DEF Runs
<1> QED BY <1>1 DEF Memories, Disks, Directories

LEMMA EntryIs ==
  ASSUME NEW x \in EntryType
  PROVE  /\ x.kind \in {"free", "file", "directory"} /\ x.parent \in Entries
         /\ x.name \in Names \cup {Data} /\ x.length \in 0 .. FileBytesMax
         /\ x.blocks \in [Slots -> Blocks \cup {NoBlock}]
BY DEF EntryType

\* A write that succeeds, fails, or fails after it has reached the disk.
LEMMA WriteIs ==
  ASSUME NEW r \in Runs, Ok(r), NEW written \in Disks
  PROVE  /\ WriteSector(r, written) \in Runs
         /\ WriteSector(r, written).mem = r.mem
         /\ WriteSector(r, written).stop = r.stop /\ WriteSector(r, written).late = r.late
         /\ WriteSector(r, written).disk \in {r.disk, written}
         /\ Ok(WriteSector(r, written)) => WriteSector(r, written).disk = written
         /\ r.stop = Whole => Ok(WriteSector(r, written))
<1> DEFINE q == WriteSector(r, written)
<1>1. CASE r.writes # r.stop
  <2> DEFINE next == r.writes + 1
  <2>1. q = [r EXCEPT !.disk = written, !.writes = next]
    BY <1>1 DEF WriteSector
  <2>2. next \in Nat
    BY RunIs
  <2> HIDE DEF next
  <2>3. q \in Runs
    BY <2>1, <2>2 DEF Runs
  <2>4. q.mem = r.mem /\ q.stop = r.stop /\ q.late = r.late /\ q.disk = written
        /\ q.status = r.status
    BY <2>1 DEF Runs
  <2> QED BY <2>3, <2>4 DEF Ok
<1>2. CASE r.writes = r.stop
  <2> DEFINE left == IF r.late THEN written ELSE r.disk
  <2>1. q = [r EXCEPT !.status = "EIO", !.disk = left]
    BY <1>2, RunIs DEF WriteSector
  <2>2. left \in Disks /\ left \in {r.disk, written}
    BY RunIs
  <2> HIDE DEF left
  <2>3. q \in Runs /\ q.mem = r.mem /\ q.stop = r.stop /\ q.late = r.late /\ q.disk = left
        /\ q.status = "EIO"
    BY <2>1, <2>2, RunIs DEF Runs, Statuses
  <2>4. r.stop # Whole
    BY <1>2, RunIs DEF Whole
  <2> QED BY <2>2, <2>3, <2>4 DEF Ok
<1> QED BY <1>1, <1>2

\* The service writes the directory sector of an entry, and its bitmap.
LEMMA EntryFlushed ==
  ASSUME NEW r \in Runs, Ok(r), NEW e \in Entries
  PROVE  /\ FlushEntry(r, e) \in Runs /\ FlushEntry(r, e).mem = r.mem
         /\ FlushEntry(r, e).stop = r.stop /\ FlushEntry(r, e).late = r.late
         /\ r.stop = Whole => Ok(FlushEntry(r, e))
         /\ \/ FlushEntry(r, e).disk = r.disk /\ ~Ok(FlushEntry(r, e))
            \/ /\ FlushEntry(r, e).disk.formatted = r.disk.formatted
               /\ FlushEntry(r, e).disk.used = r.disk.used
               /\ \A y \in Entries : FlushEntry(r, e).disk.entries[y] =
                    IF y \in SectorOf(e) THEN r.mem.entries[y] ELSE r.disk.entries[y]
<1> DEFINE after == [y \in Entries |-> IF y \in SectorOf(e) THEN r.mem.entries[y]
                                       ELSE r.disk.entries[y]]
           written == [r.disk EXCEPT !.entries = after]
           q == FlushEntry(r, e)
<1>1. q = WriteSector(r, written)
  BY DEF FlushEntry
<1>2. after \in [Entries -> EntryType] /\ \A y \in Entries : after[y] =
                    IF y \in SectorOf(e) THEN r.mem.entries[y] ELSE r.disk.entries[y]
  BY RunIs
<1> HIDE DEF after
<1>3. written \in Disks /\ written.formatted = r.disk.formatted /\ written.used = r.disk.used
      /\ written.entries = after
  BY <1>2, RunIs DEF Disks, Directories
<1> HIDE DEF written, q
<1>4. /\ q \in Runs /\ q.mem = r.mem /\ q.stop = r.stop /\ q.late = r.late
      /\ q.disk \in {r.disk, written} /\ (Ok(q) => q.disk = written)
      /\ r.stop = Whole => Ok(q)
  BY <1>1, <1>3, WriteIs
<1> QED BY <1>2, <1>3, <1>4 DEF q

LEMMA SuperblockFlushed ==
  ASSUME NEW r \in Runs, Ok(r)
  PROVE  /\ FlushSuperblock(r) \in Runs /\ FlushSuperblock(r).mem = r.mem
         /\ FlushSuperblock(r).stop = r.stop /\ FlushSuperblock(r).late = r.late
         /\ r.stop = Whole => Ok(FlushSuperblock(r))
         /\ \/ FlushSuperblock(r).disk = r.disk /\ ~Ok(FlushSuperblock(r))
            \/ /\ FlushSuperblock(r).disk.formatted
               /\ FlushSuperblock(r).disk.used = r.mem.used
               /\ FlushSuperblock(r).disk.entries = r.disk.entries
<1> DEFINE written == [r.disk EXCEPT !.used = r.mem.used, !.formatted = TRUE]
           q == FlushSuperblock(r)
<1>1. q = WriteSector(r, written)
  BY DEF FlushSuperblock
<1>2. written \in Disks /\ written.formatted /\ written.used = r.mem.used
      /\ written.entries = r.disk.entries
  BY RunIs DEF Disks, Directories
<1> HIDE DEF written, q
<1>3. /\ q \in Runs /\ q.mem = r.mem /\ q.stop = r.stop /\ q.late = r.late
      /\ q.disk \in {r.disk, written} /\ (Ok(q) => q.disk = written)
      /\ r.stop = Whole => Ok(q)
  BY <1>1, <1>2, WriteIs
<1> QED BY <1>2, <1>3 DEF q

LEMMA KeepsItself ==
  ASSUME NEW r \in Running
  PROVE  Keeps(r, r)
BY DEF Keeps, Goes, SameNames

LEMMA KeepsOn ==
  ASSUME NEW r, NEW q, NEW p, Keeps(r, q), Keeps(q, p)
  PROVE  Keeps(r, p)
<1>1. /\ Goes(r, p) /\ Goes(r, q) /\ q.stop = r.stop
      /\ Sound(r.mem, r.disk) => Sound(q.mem, q.disk) /\ Sound(p.mem, p.disk)
  BY DEF Keeps, Goes
<1>2. Sound(r.mem, r.disk) /\ Exact(r.mem, r.disk) /\ r.stop = Whole => Exact(p.mem, p.disk)
  BY <1>1 DEF Keeps
<1>3. SameNames(r.mem.entries, q.mem.entries) /\ SameNames(q.mem.entries, p.mem.entries)
  BY DEF Keeps
<1>4. SameNames(r.mem.entries, p.mem.entries)
  BY <1>3 DEF SameNames
<1>5. ASSUME SameNames(r.mem.entries, r.disk.entries)
      PROVE  SameNames(r.mem.entries, p.disk.entries)
  <2>1. SameNames(r.mem.entries, q.disk.entries)
    BY <1>5 DEF Keeps
  <2>2. SameNames(q.mem.entries, q.disk.entries)
    BY <1>3, <2>1 DEF SameNames
  <2>3. SameNames(q.mem.entries, p.disk.entries)
    BY <2>2 DEF Keeps
  <2> QED BY <1>3, <2>3 DEF SameNames
<1> QED BY <1>1, <1>2, <1>4, <1>5 DEF Keeps

\* The service changes what it knows of an entry: the run it is then in.
Changed(r, e, x, used, u) ==
  /\ u \in Running /\ Goes(r, u) /\ u.disk = r.disk /\ u.status = r.status
  /\ u.mem.used = used /\ u.mem.entries[e] = x
  /\ \A y \in Entries : y # e => u.mem.entries[y] = r.mem.entries[y]

LEMMA ChangedIs ==
  ASSUME NEW r \in Running, NEW e \in Entries, NEW x \in EntryType
  PROVE  Changed(r, e, x, r.mem.used, [r EXCEPT !.mem.entries[e] = x])
<1> DEFINE E == [r.mem.entries EXCEPT ![e] = x]
           m == [r.mem EXCEPT !.entries = E]
           u == [r EXCEPT !.mem = m]
<1>1. r \in Runs /\ r.mem.mounted
  BY DEF Running
<1>2. E \in [Entries -> EntryType] /\ E[e] = x /\ \A y \in Entries : y # e => E[y] = r.mem.entries[y]
  BY <1>1, RunIs
<1>3. [r EXCEPT !.mem.entries[e] = x] = u
  BY <1>1 DEF Runs, Memories
<1> HIDE DEF E
<1>4. m \in Memories /\ m.mounted /\ m.used = r.mem.used /\ m.entries = E
  BY <1>1, <1>2, RunIs DEF Memories, Directories
<1> HIDE DEF m
<1>5. u \in Runs /\ u.mem = m /\ u.disk = r.disk /\ u.status = r.status /\ u.stop = r.stop
      /\ u.late = r.late
  BY <1>1, <1>4 DEF Runs
<1> HIDE DEF u
<1>6. Changed(r, e, x, r.mem.used, u)
  BY <1>2, <1>4, <1>5 DEF Changed, Goes, Running
<1> QED BY <1>3, <1>6

LEMMA SameBlocks ==
  ASSUME NEW m, NEW n, NEW d, m.mounted, n.mounted, n.used = m.used,
         \A y \in Entries : n.entries[y].blocks = m.entries[y].blocks
  PROVE  /\ Sound(m, d) => Sound(n, d)
         /\ Uses(m.entries, m.used) => Uses(n.entries, n.used)
<1>1. OneOwner(m.entries) => OneOwner(n.entries)
  BY DEF OneOwner
<1>2. Reflects(m, d) => Reflects(n, d)
  BY DEF Reflects
<1>3. \A used : Marks(m.entries, used) => Marks(n.entries, used)
  BY DEF Marks
<1>4. Uses(m.entries, m.used) => Uses(n.entries, n.used)
  BY DEF Uses
<1> QED BY <1>1, <1>2, <1>3, <1>4 DEF Sound

\* A flush keeps what is sound, and brings an entry to the disk.
LEMMA EntryKept ==
  ASSUME NEW r \in Running, Ok(r), NEW e \in Entries
  PROVE  /\ Goes(r, FlushEntry(r, e)) /\ FlushEntry(r, e).mem = r.mem
         /\ Sound(r.mem, r.disk) => Sound(r.mem, FlushEntry(r, e).disk)
<1> DEFINE q == FlushEntry(r, e)
<1>1. r \in Runs /\ r.mem.mounted
  BY DEF Running
<1>2. /\ q \in Runs /\ q.mem = r.mem /\ q.stop = r.stop /\ q.late = r.late
      /\ \/ q.disk = r.disk
         \/ /\ q.disk.formatted = r.disk.formatted /\ q.disk.used = r.disk.used
            /\ \A y \in Entries : q.disk.entries[y] =
                 IF y \in SectorOf(e) THEN r.mem.entries[y] ELSE r.disk.entries[y]
  BY <1>1, EntryFlushed
<1> HIDE DEF q
<1>3. Goes(r, q)
  BY <1>1, <1>2 DEF Goes, Running
<1>4. ASSUME Sound(r.mem, r.disk) PROVE Sound(r.mem, q.disk)
  <2>1. CASE q.disk = r.disk
    BY <1>4, <2>1
  <2>2. CASE /\ q.disk.formatted = r.disk.formatted /\ q.disk.used = r.disk.used
             /\ \A y \in Entries : q.disk.entries[y] =
                  IF y \in SectorOf(e) THEN r.mem.entries[y] ELSE r.disk.entries[y]
    <3>1. Reflects(r.mem, q.disk)
      BY <1>1, <1>4, <2>2 DEF Sound, Reflects
    <3> QED BY <1>1, <1>4, <2>2, <3>1 DEF Sound
  <2> QED BY <1>2, <2>1, <2>2
<1> QED BY <1>2, <1>3, <1>4 DEF q

LEMMA SuperblockKept ==
  ASSUME NEW r \in Running, Ok(r)
  PROVE  /\ Goes(r, FlushSuperblock(r)) /\ FlushSuperblock(r).mem = r.mem
         /\ Sound(r.mem, r.disk) => Sound(r.mem, FlushSuperblock(r).disk)
         /\ FlushSuperblock(r).disk.entries = r.disk.entries
         /\ Ok(FlushSuperblock(r)) => FlushSuperblock(r).disk.used = r.mem.used
         /\ r.stop = Whole => Ok(FlushSuperblock(r))
<1> DEFINE q == FlushSuperblock(r)
<1>1. r \in Runs /\ r.mem.mounted
  BY DEF Running
<1>2. /\ q \in Runs /\ q.mem = r.mem /\ q.stop = r.stop /\ q.late = r.late
      /\ r.stop = Whole => Ok(q)
      /\ \/ q.disk = r.disk /\ ~Ok(q)
         \/ /\ q.disk.formatted /\ q.disk.used = r.mem.used
            /\ q.disk.entries = r.disk.entries
  BY <1>1, SuperblockFlushed
<1> HIDE DEF q
<1>3. Goes(r, q)
  BY <1>1, <1>2 DEF Goes, Running
<1>4. Sound(r.mem, r.disk) => Sound(r.mem, q.disk)
  BY <1>1, <1>2 DEF Sound, Reflects
<1> QED BY <1>2, <1>3, <1>4 DEF q

-----------------------------------------------------------------------------
\* The bytes of a file.

LEMMA StoreKeeps ==
  ASSUME NEW r \in Running, NEW e \in Entries, NEW s, NEW from, NEW to, NEW byte \in {0, 1}
  PROVE  Keeps(r, Store(r, e, s, from, to, byte))
<1>1. CASE ~Ok(r)
  BY <1>1, KeepsItself DEF Store
<1>2. CASE Ok(r)
  <2> DEFINE b == r.mem.entries[e].blocks[s]
             old == r.disk.data[b]
             new == [k \in 0 .. BlockBytes - 1 |->
                       IF s * BlockBytes + k \in from .. to - 1 THEN byte ELSE old[k]]
             data == [r.disk.data EXCEPT ![b] = new]
             written == [r.disk EXCEPT !.data = data]
             q == Store(r, e, s, from, to, byte)
  <2>1. r \in Runs /\ r.disk \in Disks /\ r.disk.data \in Sectors
    BY RunIs DEF Running
  <2>2. q = WriteSector(r, written)
    BY <1>2, <2>1 DEF Store, Disks, Sectors
  <2>3. data \in Sectors
    <3>1. CASE b \in Blocks
      <4>1. new \in [0 .. BlockBytes - 1 -> {0, 1}]
        BY <2>1, <3>1 DEF Sectors
      <4> HIDE DEF new
      <4> QED BY <2>1, <4>1 DEF Sectors
    <3>2. CASE b \notin Blocks
      <4> HIDE DEF new, b
      <4> QED BY <2>1, <3>2 DEF Sectors
    <3> QED BY <3>1, <3>2
  <2> HIDE DEF data
  <2>4. written \in Disks /\ written.formatted = r.disk.formatted /\ written.used = r.disk.used
        /\ written.entries = r.disk.entries
    BY <2>1, <2>3 DEF Disks
  <2> HIDE DEF written, q
  <2>5. q \in Runs /\ q.mem = r.mem /\ q.stop = r.stop /\ q.late = r.late
        /\ q.disk \in {r.disk, written}
    BY <1>2, <2>1, <2>2, <2>4, WriteIs
  <2>6. /\ q.disk.formatted = r.disk.formatted /\ q.disk.used = r.disk.used
        /\ q.disk.entries = r.disk.entries
    BY <2>4, <2>5
  <2>7. Goes(r, q)
    BY <2>5 DEF Goes, Running
  <2>8. Sound(r.mem, r.disk) <=> Sound(q.mem, q.disk)
    BY <2>5, <2>6 DEF Sound, Reflects
  <2>9. Exact(r.mem, r.disk) <=> Exact(q.mem, q.disk)
    BY <2>5, <2>6 DEF Exact
  <2>10. Keeps(r, q)
    BY <2>5, <2>6, <2>7, <2>8, <2>9 DEF Keeps, SameNames
  <2> QED BY <2>10 DEF q
<1> QED BY <1>1, <1>2

\* An entry of the same blocks and the same name.
LEMMA LengthKeeps ==
  ASSUME NEW r \in Running, NEW e \in Entries, NEW length \in 0 .. FileBytesMax
  PROVE  Keeps(r, SetLength(r, e, length))
<1>1. CASE ~Ok(r)
  BY <1>1, KeepsItself DEF SetLength
<1>2. CASE Ok(r)
  <2> DEFINE old == r.mem.entries[e]
             x == [old EXCEPT !.length = length]
             u == [r EXCEPT !.mem.entries[e] = x]
             q == SetLength(r, e, length)
  <2>1. r \in Runs /\ r.mem.mounted /\ old \in EntryType
    BY RunIs DEF Running
  <2>2. x \in EntryType /\ x.kind = old.kind /\ x.parent = old.parent /\ x.name = old.name
        /\ x.blocks = old.blocks
    BY <2>1 DEF EntryType
  <2>3. q = FlushEntry(u, e)
    BY <1>2, <2>1 DEF SetLength, Runs, Memories, Directories
  <2> HIDE DEF x
  <2>4. Changed(r, e, x, r.mem.used, u)
    BY <2>2, ChangedIs
  <2> HIDE DEF u, q
  <2>5. u \in Running /\ Ok(u) /\ u.disk = r.disk /\ u.stop = r.stop /\ Goes(r, u)
        /\ u.mem.used = r.mem.used /\ u.mem.mounted
        /\ \A y \in Entries : y # e => u.mem.entries[y] = r.mem.entries[y]
    BY <1>2, <2>4 DEF Changed, Goes, Ok, Running
  <2>6. Goes(u, q) /\ q.mem = u.mem /\ (Sound(u.mem, u.disk) => Sound(u.mem, q.disk))
    BY <2>3, <2>5, EntryKept
  <2>7. u \in Runs
    BY <2>5 DEF Running
  <2>8. /\ r.stop = Whole => Ok(q)
        /\ \/ q.disk = r.disk /\ ~Ok(q)
           \/ /\ q.disk.formatted = r.disk.formatted /\ q.disk.used = r.disk.used
              /\ \A y \in Entries : q.disk.entries[y] =
                   IF y \in SectorOf(e) THEN u.mem.entries[y] ELSE r.disk.entries[y]
    BY <2>3, <2>5, <2>7, EntryFlushed
  <2>15. \A y \in Entries : u.mem.entries[y].blocks = r.mem.entries[y].blocks
    BY <2>2, <2>4 DEF Changed
  <2>9. /\ Sound(r.mem, r.disk) => Sound(u.mem, u.disk)
        /\ Uses(r.mem.entries, r.mem.used) => Uses(u.mem.entries, u.mem.used)
    BY <2>1, <2>5, <2>15, SameBlocks
  <2>10. SameNames(r.mem.entries, u.mem.entries)
    BY <2>2, <2>4 DEF SameNames, Changed
  <2>11. SameNames(r.mem.entries, r.disk.entries) => SameNames(r.mem.entries, q.disk.entries)
    BY <2>8, <2>10 DEF SameNames
  <2>12. ASSUME Exact(r.mem, r.disk), r.stop = Whole PROVE Exact(u.mem, q.disk)
    <3>1. e \in SectorOf(e) /\ q \in Runs
      BY <2>6 DEF SectorOf, Goes, Running
    <3>2. \A y \in Entries : q.disk.entries[y] = u.mem.entries[y]
      BY <2>1, <2>5, <2>8, <2>12, <3>1 DEF Exact
    <3>3. q.disk.entries = u.mem.entries
      BY <2>7, <3>1, <3>2, RunIs
    <3>4. q.disk.used = u.mem.used
      BY <2>1, <2>5, <2>8, <2>12 DEF Exact
    <3>5. Uses(u.mem.entries, u.mem.used)
      BY <2>1, <2>9, <2>12 DEF Exact
    <3> QED BY <2>5, <3>3, <3>4, <3>5 DEF Exact
  <2>13. Goes(r, q)
    BY <2>5, <2>6 DEF Goes
  <2>14. Keeps(r, q)
    BY <2>6, <2>5, <2>9, <2>10, <2>11, <2>12, <2>13 DEF Keeps
  <2> QED BY <2>14 DEF q
<1> QED BY <1>1, <1>2

\* What a flush of one entry leaves on the disk when the others are there.
LEMMA EntryOnDisk ==
  ASSUME NEW r \in Running, Ok(r), NEW e \in Entries
  PROVE  /\ FlushEntry(r, e).disk.used = r.disk.used
         /\ FlushEntry(r, e).disk.formatted = r.disk.formatted
         /\ r.stop = Whole => Ok(FlushEntry(r, e))
         /\ (\A y \in Entries : y # e => r.disk.entries[y] = r.mem.entries[y]) =>
              /\ FlushEntry(r, e).disk.entries \in {r.disk.entries, r.mem.entries}
              /\ r.stop = Whole => FlushEntry(r, e).disk.entries = r.mem.entries
         /\ SameNames(r.mem.entries, r.disk.entries) =>
              SameNames(r.mem.entries, FlushEntry(r, e).disk.entries)
<1> DEFINE q == FlushEntry(r, e)
<1>1. r \in Runs /\ r.mem.mounted /\ e \in SectorOf(e)
  BY DEF Running, SectorOf
<1>2. /\ q \in Runs /\ (r.stop = Whole => Ok(q))
      /\ \/ q.disk = r.disk /\ ~Ok(q)
         \/ /\ q.disk.formatted = r.disk.formatted /\ q.disk.used = r.disk.used
            /\ \A y \in Entries : q.disk.entries[y] =
                 IF y \in SectorOf(e) THEN r.mem.entries[y] ELSE r.disk.entries[y]
  BY <1>1, EntryFlushed
<1> HIDE DEF q
<1>3. ASSUME \A y \in Entries : y # e => r.disk.entries[y] = r.mem.entries[y],
             \A y \in Entries : q.disk.entries[y] =
                 IF y \in SectorOf(e) THEN r.mem.entries[y] ELSE r.disk.entries[y]
      PROVE  q.disk.entries = r.mem.entries
  <2>1. \A y \in Entries : q.disk.entries[y] = r.mem.entries[y]
    BY <1>1, <1>3
  <2> QED BY <1>1, <1>2, <2>1, RunIs
<1>4. SameNames(r.mem.entries, r.disk.entries) => SameNames(r.mem.entries, q.disk.entries)
  BY <1>2 DEF SameNames
<1> QED BY <1>2, <1>3, <1>4 DEF q

LEMMA NamesAre ==
  /\ \A a, b : SameNames(a, b) => SameNames(b, a)
  /\ \A a, b, c : SameNames(a, b) /\ SameNames(b, c) => SameNames(a, c)
BY DEF SameNames

LEMMA RefuseKeeps ==
  ASSUME NEW r \in Runs, NEW error \in Statuses
  PROVE  /\ Refuse(r, error) \in Runs /\ Refuse(r, error).mem = r.mem
         /\ Refuse(r, error).disk = r.disk /\ Refuse(r, error).stop = r.stop
         /\ Refuse(r, error).late = r.late
         /\ r.mem.mounted => Keeps(r, Refuse(r, error))
<1> DEFINE q == Refuse(r, error)
<1>1. q \in Runs /\ q.mem = r.mem /\ q.disk = r.disk /\ q.stop = r.stop /\ q.late = r.late
  BY DEF Refuse, Runs
<1> HIDE DEF q
<1>2. r.mem.mounted => Keeps(r, q)
  BY <1>1 DEF Keeps, Goes, Running, SameNames
<1> QED BY <1>1, <1>2 DEF q

\* A block is zeroed, marked and listed.
LEMMA ZeroedIs ==
  ASSUME NEW r \in Running, Ok(r), NEW b \in Blocks
  PROVE  /\ Goes(r, Zeroed(r, b)) /\ Zeroed(r, b).mem = r.mem
         /\ Zeroed(r, b).disk.formatted = r.disk.formatted
         /\ Zeroed(r, b).disk.used = r.disk.used /\ Zeroed(r, b).disk.entries = r.disk.entries
         /\ r.stop = Whole => Ok(Zeroed(r, b))
<1> DEFINE zeros == [k \in 0 .. BlockBytes - 1 |-> 0]
           data == [r.disk.data EXCEPT ![b] = zeros]
           written == [r.disk EXCEPT !.data = data]
           q == Zeroed(r, b)
<1>1. r \in Runs /\ r.disk \in Disks /\ r.disk.data \in Sectors
  BY RunIs DEF Running
<1>2. q = WriteSector(r, written)
  BY <1>1 DEF Zeroed, Disks, Sectors
<1>3. data \in Sectors
  <2>1. zeros \in [0 .. BlockBytes - 1 -> {0, 1}]
    OBVIOUS
  <2> HIDE DEF zeros
  <2> QED BY <1>1, <2>1 DEF Sectors
<1> HIDE DEF data
<1>4. written \in Disks /\ written.formatted = r.disk.formatted /\ written.used = r.disk.used
      /\ written.entries = r.disk.entries
  BY <1>1, <1>3 DEF Disks
<1> HIDE DEF written, q
<1>5. q \in Runs /\ q.mem = r.mem /\ q.stop = r.stop /\ q.late = r.late
      /\ q.disk \in {r.disk, written} /\ (r.stop = Whole => Ok(q))
  BY <1>1, <1>2, <1>4, WriteIs
<1>6. Goes(r, q)
  BY <1>5 DEF Goes, Running
<1> QED BY <1>4, <1>5, <1>6 DEF q

LEMMA MarkedIs ==
  ASSUME NEW r \in Running, Ok(r), NEW b \in Blocks
  PROVE  /\ Goes(r, Marked(r, b)) /\ Ok(Marked(r, b)) /\ Marked(r, b).disk = r.disk
         /\ Marked(r, b).mem.entries = r.mem.entries
         /\ Marked(r, b).mem.used = r.mem.used \cup {b}
         /\ Sound(r.mem, r.disk) => Sound(Marked(r, b).mem, r.disk)
<1> DEFINE used == r.mem.used \cup {b}
           m == [r.mem EXCEPT !.used = used]
           u == [r EXCEPT !.mem = m]
<1>1. r \in Runs /\ r.mem.mounted
  BY DEF Running
<1>2. Marked(r, b) = u
  BY <1>1 DEF Marked, Runs, Memories
<1>3. used \in SUBSET Blocks
  BY <1>1, RunIs
<1> HIDE DEF used
<1>4. m \in Memories /\ m.mounted /\ m.used = used /\ m.entries = r.mem.entries
  BY <1>1, <1>3, RunIs DEF Memories
<1> HIDE DEF m
<1>5. u \in Runs /\ u.mem = m /\ u.disk = r.disk /\ u.status = r.status /\ u.stop = r.stop
      /\ u.late = r.late
  BY <1>1, <1>4 DEF Runs
<1> HIDE DEF u
<1>6. Goes(r, u) /\ Ok(u)
  BY <1>4, <1>5 DEF Goes, Running, Ok
<1>7. Sound(r.mem, r.disk) => Sound(m, r.disk)
  BY <1>1, <1>4 DEF Sound, Reflects, Marks, used
<1> QED BY <1>2, <1>4, <1>5, <1>6, <1>7 DEF used

\* A block that is marked in the service and on the disk, and nobody's.
Fresh(r, e, s, b) ==
  /\ r.mem.entries[e].blocks[s] = NoBlock /\ b \in r.mem.used /\ b \in r.disk.used
  /\ \A y \in Entries, t \in Slots : r.mem.entries[y].blocks[t] # b

LEMMA ListsIs ==
  ASSUME NEW r \in Running, Ok(r), NEW e \in Entries, NEW s \in Slots, NEW b \in Blocks,
         r.mem.entries[e].kind # "free"
  PROVE  /\ Goes(r, Lists(r, e, s, b)) /\ Ok(Lists(r, e, s, b))
         /\ Lists(r, e, s, b).disk = r.disk
         /\ Lists(r, e, s, b).mem.used = r.mem.used
         /\ \A y \in Entries : y # e => Lists(r, e, s, b).mem.entries[y] = r.mem.entries[y]
         /\ \A y \in Entries, t \in Slots :
              Lists(r, e, s, b).mem.entries[y].blocks[t] =
                IF y = e /\ t = s THEN b ELSE r.mem.entries[y].blocks[t]
         /\ SameNames(r.mem.entries, Lists(r, e, s, b).mem.entries)
         /\ Fresh(r, e, s, b) /\ Sound(r.mem, r.disk) => Sound(Lists(r, e, s, b).mem, r.disk)
<1> DEFINE old == r.mem.entries[e]
           blocks == [old.blocks EXCEPT ![s] = b]
           x == [old EXCEPT !.blocks = blocks]
           u == [r EXCEPT !.mem.entries[e] = x]
<1>1. r \in Runs /\ r.mem.mounted /\ old \in EntryType
  BY RunIs DEF Running
<1>2. Lists(r, e, s, b) = u
  BY <1>1 DEF Lists, Runs, Memories, Directories, EntryType
<1>3. blocks \in [Slots -> Blocks \cup {NoBlock}]
      /\ \A t \in Slots : blocks[t] = IF t = s THEN b ELSE old.blocks[t]
  BY <1>1, EntryIs
<1> HIDE DEF blocks
<1>4. x \in EntryType /\ x.kind = old.kind /\ x.parent = old.parent /\ x.name = old.name
      /\ x.blocks = blocks
  BY <1>1, <1>3 DEF EntryType
<1> HIDE DEF x
<1>5. Changed(r, e, x, r.mem.used, u)
  BY <1>4, ChangedIs
<1> HIDE DEF u
<1>6. Goes(r, u) /\ u.disk = r.disk /\ u.mem.used = r.mem.used /\ u.mem.entries[e] = x
      /\ \A y \in Entries : y # e => u.mem.entries[y] = r.mem.entries[y]
  BY <1>5 DEF Changed
<1>7. Ok(u) /\ u.mem.mounted
  BY <1>5 DEF Changed, Ok, Running
<1>8. \A y \in Entries, t \in Slots : u.mem.entries[y].blocks[t] =
                IF y = e /\ t = s THEN b ELSE r.mem.entries[y].blocks[t]
  BY <1>3, <1>4, <1>6
<1>9. SameNames(r.mem.entries, u.mem.entries)
  BY <1>4, <1>6 DEF SameNames
<1>10. ASSUME Fresh(r, e, s, b), Sound(r.mem, r.disk) PROVE Sound(u.mem, r.disk)
  <2>1. OneOwner(u.mem.entries)
    <3>1. OneOwner(r.mem.entries)
      BY <1>1, <1>10 DEF Sound
    <3> QED BY <1>8, <1>10, <3>1 DEF OneOwner, Fresh
  <2>2. Reflects(u.mem, r.disk)
    <3>1. Reflects(r.mem, r.disk)
      BY <1>1, <1>10 DEF Sound
    <3> QED BY <1>8, <1>10, <3>1 DEF Reflects, Fresh
  <2>3. Marks(u.mem.entries, u.mem.used) /\ Marks(u.mem.entries, r.disk.used)
    <3>1. Marks(r.mem.entries, r.mem.used) /\ Marks(r.mem.entries, r.disk.used)
      BY <1>1, <1>10 DEF Sound
    <3> QED BY <1>6, <1>8, <1>10, <3>1 DEF Marks, Fresh
  <2> QED BY <1>1, <1>7, <1>10, <2>1, <2>2, <2>3 DEF Sound
<1> QED BY <1>2, <1>6, <1>7, <1>8, <1>9, <1>10

\* Until a block is listed, a run that stops has only marked it.
LEMMA MarkingKeeps ==
  ASSUME NEW r \in Running, NEW q, Goes(r, q), q.mem.entries = r.mem.entries,
         q.disk.entries = r.disk.entries, r.stop # Whole,
         Sound(r.mem, r.disk) => Sound(q.mem, q.disk)
  PROVE  Keeps(r, q)
BY DEF Keeps, SameNames

LEMMA EnsureKeeps ==
  ASSUME NEW r \in Running, NEW e \in Entries, NEW s, r.mem.entries[e].kind # "free"
  PROVE  Keeps(r, EnsureBlock(r, e, s))
<1> DEFINE b == Min(Blocks \ r.mem.used)
           z == Zeroed(r, b)
           k == Marked(z, b)
           f == FlushSuperblock(k)
           l == Lists(f, e, s, b)
           q == FlushEntry(l, e)
<1>1. r \in Runs /\ r.mem.mounted
  BY DEF Running
<1>2. CASE ~Ok(r) \/ (s \in Slots /\ r.mem.entries[e].blocks[s] # NoBlock)
  BY <1>2, KeepsItself DEF EnsureBlock
<1>3. CASE Ok(r) /\ s \notin Slots
  <2>1. EnsureBlock(r, e, s) = Refuse(r, "EFBIG")
    BY <1>3 DEF EnsureBlock
  <2> QED BY <1>1, <2>1, RefuseKeeps DEF Statuses
<1>4. CASE Ok(r) /\ s \in Slots /\ r.mem.entries[e].blocks[s] = NoBlock /\ Blocks \subseteq r.mem.used
  <2>1. EnsureBlock(r, e, s) = Refuse(r, "ENOSPC")
    BY <1>4 DEF EnsureBlock
  <2> QED BY <1>1, <2>1, RefuseKeeps DEF Statuses
<1>5. CASE Ok(r) /\ s \in Slots /\ r.mem.entries[e].blocks[s] = NoBlock /\ ~(Blocks \subseteq r.mem.used)
  <2>1. EnsureBlock(r, e, s) = q
    BY <1>5 DEF EnsureBlock
  <2>2. b \in Blocks /\ b \notin r.mem.used
    <3>1. Blocks \ r.mem.used \in SUBSET Nat /\ Blocks \ r.mem.used # {}
      BY <1>5, ConstantsAre
    <3> QED BY <3>1, LeastOf
  <2> HIDE DEF b
  <2>3. /\ Goes(r, z) /\ z.mem = r.mem /\ z.disk.formatted = r.disk.formatted
        /\ z.disk.used = r.disk.used /\ z.disk.entries = r.disk.entries
        /\ r.stop = Whole => Ok(z)
    BY <1>5, <2>2, ZeroedIs
  <2>4. z \in Running /\ z.stop = r.stop
    BY <2>3 DEF Goes
  <2>5. Sound(r.mem, r.disk) => Sound(z.mem, z.disk)
    BY <2>3 DEF Sound, Reflects
  <2>6. CASE ~Ok(z)
    <3>1. q = z
      BY <2>6 DEF Marked, FlushSuperblock, Lists, FlushEntry
    <3>2. Keeps(r, z)
      <4> HIDE DEF z
      <4> QED BY <2>3, <2>5, <2>6, MarkingKeeps
    <3> QED BY <2>1, <3>1, <3>2
  <2>7. CASE Ok(z)
    <3> HIDE DEF z
    <3>1. /\ Goes(z, k) /\ Ok(k) /\ k.disk = z.disk /\ k.mem.entries = z.mem.entries
          /\ k.mem.used = z.mem.used \cup {b}
          /\ Sound(z.mem, z.disk) => Sound(k.mem, z.disk)
      BY <2>2, <2>4, <2>7, MarkedIs
    <3>2. k \in Running /\ k.stop = r.stop /\ Goes(r, k)
      BY <2>3, <2>4, <3>1 DEF Goes
    <3> HIDE DEF k
    <3>3. /\ Goes(k, f) /\ f.mem = k.mem /\ (Sound(k.mem, k.disk) => Sound(k.mem, f.disk))
          /\ f.disk.entries = k.disk.entries /\ (Ok(f) => f.disk.used = k.mem.used)
          /\ k.stop = Whole => Ok(f)
      BY <3>1, <3>2, SuperblockKept
    <3>4. f \in Running /\ f.stop = r.stop /\ Goes(r, f)
      BY <3>2, <3>3 DEF Goes
    <3>5. /\ Sound(r.mem, r.disk) => Sound(f.mem, f.disk)
          /\ f.mem.entries = r.mem.entries /\ f.disk.entries = r.disk.entries
      BY <2>3, <2>5, <3>1, <3>3
    <3>6. CASE ~Ok(f)
      <4>1. q = f
        BY <3>6 DEF Lists, FlushEntry
      <4>2. Keeps(r, f)
        <5> HIDE DEF f
        <5> QED BY <3>2, <3>3, <3>4, <3>5, <3>6, MarkingKeeps
      <4> QED BY <2>1, <4>1, <4>2
    <3>7. CASE Ok(f)
      <4> HIDE DEF f
      <4>1. /\ f.mem.entries[e].blocks[s] = NoBlock /\ b \in f.mem.used /\ b \in f.disk.used
            /\ f.mem.used = r.mem.used \cup {b} /\ f.disk.used = f.mem.used
        BY <1>5, <2>3, <3>1, <3>3, <3>5, <3>7
      <4>2. /\ Goes(f, l) /\ Ok(l) /\ l.disk = f.disk /\ l.mem.used = f.mem.used
            /\ \A y \in Entries : y # e => l.mem.entries[y] = f.mem.entries[y]
            /\ \A y \in Entries, t \in Slots : l.mem.entries[y].blocks[t] =
                 IF y = e /\ t = s THEN b ELSE f.mem.entries[y].blocks[t]
            /\ SameNames(f.mem.entries, l.mem.entries)
            /\ Fresh(f, e, s, b) /\ Sound(f.mem, f.disk) => Sound(l.mem, f.disk)
        BY <1>5, <2>2, <3>4, <3>5, <3>7, ListsIs
      <4>3. l \in Running /\ l.stop = r.stop
        BY <3>4, <4>2 DEF Goes
      <4> HIDE DEF l
      <4>4. /\ Goes(l, q) /\ q.mem = l.mem /\ (Sound(l.mem, l.disk) => Sound(l.mem, q.disk))
        BY <4>2, <4>3, EntryKept
      <4>5. /\ q.disk.used = l.disk.used
            /\ (\A y \in Entries : y # e => l.disk.entries[y] = l.mem.entries[y]) =>
                 (l.stop = Whole => q.disk.entries = l.mem.entries)
            /\ SameNames(l.mem.entries, l.disk.entries) => SameNames(l.mem.entries, q.disk.entries)
        BY <4>2, <4>3, EntryOnDisk
      <4> HIDE DEF q
      <4>6. Goes(r, q) /\ r.mem.mounted /\ q.mem.mounted
        BY <1>1, <3>4, <4>2, <4>4 DEF Goes, Running
      <4>7. ASSUME Sound(r.mem, r.disk) PROVE Sound(q.mem, q.disk)
        <5>1. Marks(r.mem.entries, r.mem.used)
          BY <1>1, <4>7 DEF Sound
        <5>2. Fresh(f, e, s, b)
          BY <2>2, <3>5, <4>1, <5>1, ConstantsAre DEF Fresh, Marks
        <5> QED BY <3>5, <4>2, <4>4, <4>7, <5>2
      <4>8. ASSUME Exact(r.mem, r.disk), r.stop = Whole PROVE Exact(q.mem, q.disk)
        <5>1. r.mem.entries = r.disk.entries /\ Uses(r.mem.entries, r.mem.used)
          BY <1>1, <4>8 DEF Exact
        <5>2. q.disk.entries = q.mem.entries
          BY <3>5, <4>2, <4>3, <4>4, <4>5, <4>8, <5>1
        <5>3. q.disk.used = q.mem.used /\ q.mem.used = r.mem.used \cup {b}
          BY <4>1, <4>2, <4>4, <4>5
        <5>4. Uses(q.mem.entries, q.mem.used)
          <6>1. ASSUME NEW x \in r.mem.used
                PROVE  \E y \in Entries, t \in Slots : q.mem.entries[y].blocks[t] = x
            <7>1. PICK y \in Entries, t \in Slots : r.mem.entries[y].blocks[t] = x
              BY <5>1 DEF Uses
            <7>2. ~(y = e /\ t = s)
              <8>1. x \in Blocks
                BY <1>1, RunIs
              <8> QED BY <1>5, <7>1, <8>1, ConstantsAre
            <7> QED BY <3>5, <4>2, <4>4, <7>1, <7>2
          <6>2. q.mem.entries[e].blocks[s] = b
            BY <1>5, <4>2, <4>4
          <6> QED BY <1>5, <5>3, <6>1, <6>2 DEF Uses
        <5> QED BY <4>6, <5>2, <5>3, <5>4 DEF Exact
      <4>9. SameNames(r.mem.entries, q.mem.entries)
        BY <3>5, <4>2, <4>4
      <4>10. ASSUME SameNames(r.mem.entries, r.disk.entries)
             PROVE  SameNames(r.mem.entries, q.disk.entries)
        <5>1. SameNames(l.mem.entries, l.disk.entries)
          BY <3>5, <4>2, <4>4, <4>9, <4>10, NamesAre
        <5>2. SameNames(q.mem.entries, q.disk.entries)
          BY <4>4, <4>5, <5>1
        <5> QED BY <4>9, <5>2, NamesAre
      <4>11. Keeps(r, q)
        BY <4>6, <4>7, <4>8, <4>9, <4>10 DEF Keeps
      <4> QED BY <2>1, <4>11 DEF q, l, f, k, z
    <3> QED BY <3>6, <3>7
  <2> QED BY <2>6, <2>7
<1> QED BY <1>2, <1>3, <1>4, <1>5

-----------------------------------------------------------------------------
\* What is done slot by slot, name by name or sector by sector.

LEMMA LeastMember ==
  ASSUME NEW T \in SUBSET Nat, T # {}
  PROVE  \E m \in T : \A n \in T : m <= n
BY LeastOf

\* A step that stays in a set can be repeated as often as one likes.
Repeats(T, F, a, N, f) ==
  f \in [0 .. N -> T] /\ f[0] = a /\ \A n \in 1 .. N : f[n] = F[<<f[n - 1], n - 1>>]

LEMMA IterationExists ==
  ASSUME NEW T, NEW F \in [T \X Nat -> T], NEW a \in T
  PROVE  \A N \in Nat : \E f : Repeats(T, F, a, N, f)
<1> DEFINE Continues(N, f) == f[0] = a /\ \A n \in 1 .. N : f[n] = F[<<f[n - 1], n - 1>>]
           Bad == {N \in Nat : ~ \E f \in [0 .. N -> T] : Continues(N, f)}
<1>0. SUFFICES \A N \in Nat : \E f \in [0 .. N -> T] : Continues(N, f)
  <2>1. \A N, f : f \in [0 .. N -> T] /\ Continues(N, f) => Repeats(T, F, a, N, f)
    BY DEF Repeats
  <2> HIDE DEF Goes
  <2> QED BY <2>1
<1>1. SUFFICES ASSUME Bad # {} PROVE FALSE
  OBVIOUS
<1>2. PICK N \in Bad : \A n \in Bad : N <= n
  BY <1>1, LeastMember
<1>3. CASE N = 0
  <2> DEFINE f == [n \in 0 .. 0 |-> a]
  <2>1. f \in [0 .. 0 -> T] /\ f[0] = a
    OBVIOUS
  <2>2. \A n \in 1 .. 0 : FALSE
    OBVIOUS
  <2> HIDE DEF f
  <2>3. Continues(0, f)
    BY <2>1, <2>2
  <2> QED BY <1>2, <1>3, <2>1, <2>3
<1>4. CASE N # 0
  <2>1. N - 1 \in Nat /\ N - 1 \notin Bad
    BY <1>2, <1>4
  <2>2. PICK f \in [0 .. N - 1 -> T] : Continues(N - 1, f)
    BY <2>1
  <2> DEFINE new == F[<<f[N - 1], N - 1>>]
             g == [n \in 0 .. N |-> IF n = N THEN new ELSE f[n]]
  <2>3. f[N - 1] \in T
    BY <2>1, <2>2
  <2>4. new \in T
    BY <2>1, <2>3
  <2>5. \A n \in 0 .. N : n # N => n \in 0 .. N - 1
    BY <2>1
  <2>6. \A n \in 0 .. N - 1 : n \in 0 .. N /\ n # N
    BY <2>1
  <2> HIDE DEF new
  <2>7. g \in [0 .. N -> T]
    BY <2>4, <2>5
  <2>8. g[N] = new /\ \A n \in 0 .. N - 1 : g[n] = f[n]
    BY <2>1, <2>6
  <2> HIDE DEF g
  <2>9. ASSUME NEW n \in 1 .. N PROVE g[n] = F[<<g[n - 1], n - 1>>]
    <3>1. n - 1 \in 0 .. N - 1
      BY <2>1
    <3>2. CASE n = N
      BY <2>8, <3>1, <3>2 DEF new
    <3>3. CASE n # N
      <4>1. n \in 1 .. N - 1 /\ n \in 0 .. N - 1
        BY <2>1, <3>3
      <4> QED BY <2>2, <2>8, <3>1, <4>1
    <3> QED BY <3>2, <3>3
  <2>10. g[0] = a
    <3>1. 0 \in 0 .. N - 1
      BY <2>1
    <3> QED BY <2>2, <2>8, <3>1
  <2>11. Continues(N, g)
    BY <2>9, <2>10
  <2> QED BY <1>2, <2>7, <2>11
<1> QED BY <1>3, <1>4

\* What takes the same steps is that repetition.
LEMMA IterationFollows ==
  ASSUME NEW T, NEW F \in [T \X Nat -> T], NEW a \in T, NEW N \in Nat, NEW c,
         c[0] = a, \A n \in 1 .. N : c[n - 1] \in T => c[n] = F[<<c[n - 1], n - 1>>]
  PROVE  \A n \in 0 .. N : c[n] \in T
<1> DEFINE Bad == {n \in 0 .. N : c[n] \notin T}
<1>1. SUFFICES ASSUME Bad # {} PROVE FALSE
  OBVIOUS
<1>2. Bad \subseteq Nat
  OBVIOUS
<1>3. PICK n \in Bad : \A m \in Bad : n <= m
  BY <1>1, <1>2, LeastMember
<1>4. n # 0
  BY <1>3
<1>5. n - 1 \in 0 .. N /\ n - 1 \notin Bad /\ n \in 1 .. N /\ n - 1 \in Nat
  BY <1>3, <1>4
<1>6. c[n] = F[<<c[n - 1], n - 1>>] /\ c[n - 1] \in T
  BY <1>5
<1>7. <<c[n - 1], n - 1>> \in T \X Nat
  BY <1>5, <1>6
<1> QED BY <1>3, <1>6, <1>7

LEMMA ZeroSlotKeeps ==
  ASSUME NEW r \in Running, NEW e \in Entries, NEW s, NEW from, NEW to,
         r.mem.entries[e].kind # "free"
  PROVE  Keeps(r, ZeroSlot(r, e, s, from, to))
BY KeepsItself, EnsureKeeps, StoreKeeps DEF ZeroSlot

LEMMA StoreSlotKeeps ==
  ASSUME NEW r \in Running, NEW e \in Entries, NEW s, NEW from, NEW to,
         r.mem.entries[e].kind # "free"
  PROVE  Keeps(r, StoreSlot(r, e, s, from, to))
<1> DEFINE u == EnsureBlock(r, e, s)
<1>1. Keeps(r, u)
  BY EnsureKeeps
<1>2. u \in Running
  BY <1>1 DEF Keeps, Goes
<1> HIDE DEF u
<1>3. Keeps(u, Store(u, e, s, from, to, 1))
  BY <1>2, StoreKeeps
<1>4. Keeps(r, Store(u, e, s, from, to, 1))
  BY <1>1, <1>3, KeepsOn
<1> QED BY <1>4, KeepsItself DEF StoreSlot, u

\* What a run of a mounted service goes on to, entry e being one that is used.
LEMMA StillUsed ==
  ASSUME NEW r, NEW q, Keeps(r, q), NEW e \in Entries, r.mem.entries[e].kind # "free"
  PROVE  q \in Running /\ q.mem.entries[e].kind # "free" /\ q.mem.entries[e].kind = r.mem.entries[e].kind
BY DEF Keeps, Goes, SameNames

LEMMA ZeroFillKeeps ==
  ASSUME NEW r \in Running, NEW e \in Entries, NEW from, NEW to,
         r.mem.entries[e].kind # "free"
  PROVE  Keeps(r, ZeroFill(r, e, from, to))
<1> DEFINE T == {q \in Running : Keeps(r, q)}
           F == [v \in T \X Nat |-> ZeroSlot(v[1], e, v[2], from, to)]
           N == EntryBlocks
           Is(x) == x = [n \in 0 .. N |-> IF n = 0 THEN r
                                          ELSE ZeroSlot(x[n - 1], e, n - 1, from, to)]
           c == CHOOSE x : Is(x)
<1>1. N \in Nat
  BY ConstantsAre
<1>2. r \in T
  BY KeepsItself
<1>3. ASSUME NEW q \in T, NEW s \in Nat PROVE ZeroSlot(q, e, s, from, to) \in T
  <2>1. q \in Running /\ q.mem.entries[e].kind # "free"
    BY StillUsed
  <2>2. Keeps(q, ZeroSlot(q, e, s, from, to))
    BY <2>1, ZeroSlotKeeps
  <2>3. Keeps(r, ZeroSlot(q, e, s, from, to))
    BY <2>2, KeepsOn
  <2> QED BY <2>3 DEF Keeps, Goes
<1>4. ZeroFill(r, e, from, to) = c[N]
  BY DEF ZeroFill
<1> HIDE DEF N, T
<1>5. F \in [T \X Nat -> T] /\ \A q \in T, s \in Nat : F[<<q, s>>] = ZeroSlot(q, e, s, from, to)
  BY <1>3
<1> HIDE DEF F
<1>6. PICK x : Repeats(T, F, r, N, x)
  BY <1>1, <1>2, <1>5, IterationExists
<1>7. Is(x)
  <2>1. ASSUME NEW n \in 0 .. N
        PROVE  x[n] = IF n = 0 THEN r ELSE ZeroSlot(x[n - 1], e, n - 1, from, to)
    <3>1. CASE n = 0
      BY <1>6, <3>1 DEF Repeats
    <3>2. CASE n # 0
      <4>1. n \in 1 .. N /\ n - 1 \in 0 .. N /\ n - 1 \in Nat
        BY <1>1, <3>2
      <4> QED BY <1>5, <1>6, <3>2, <4>1 DEF Repeats
    <3> QED BY <3>1, <3>2
  <2> QED BY <1>6, <2>1 DEF Repeats
<1>8. Is(c)
  BY <1>7
<1> HIDE DEF c
<1>9. c[0] = r /\ \A n \in 1 .. N : c[n] = ZeroSlot(c[n - 1], e, n - 1, from, to)
  <2>1. 0 \in 0 .. N /\ \A n \in 1 .. N : n \in 0 .. N /\ n # 0
    BY <1>1
  <2> QED BY <1>8, <2>1
<1>10. \A n \in 1 .. N : c[n - 1] \in T => c[n] = F[<<c[n - 1], n - 1>>]
  <2>1. \A n \in 1 .. N : n - 1 \in Nat
    BY <1>1
  <2> QED BY <1>5, <1>9, <2>1
<1>11. c[N] \in T
  <2>1. N \in 0 .. N
    BY <1>1
  <2> HIDE DEF Is
  <2> QED BY <1>1, <1>2, <1>5, <1>9, <1>10, <2>1, IterationFollows
<1> QED BY <1>4, <1>11 DEF T

LEMMA StoreAllKeeps ==
  ASSUME NEW r \in Running, NEW e \in Entries, NEW from, NEW to,
         r.mem.entries[e].kind # "free"
  PROVE  Keeps(r, StoreAll(r, e, from, to))
<1> DEFINE T == {q \in Running : Keeps(r, q)}
           F == [v \in T \X Nat |-> StoreSlot(v[1], e, v[2], from, to)]
           N == EntryBlocks
           Is(x) == x = [n \in 0 .. N |-> IF n = 0 THEN r
                                          ELSE StoreSlot(x[n - 1], e, n - 1, from, to)]
           c == CHOOSE x : Is(x)
<1>1. N \in Nat
  BY ConstantsAre
<1>2. r \in T
  BY KeepsItself
<1>3. ASSUME NEW q \in T, NEW s \in Nat PROVE StoreSlot(q, e, s, from, to) \in T
  <2>1. q \in Running /\ q.mem.entries[e].kind # "free"
    BY StillUsed
  <2>2. Keeps(q, StoreSlot(q, e, s, from, to))
    BY <2>1, StoreSlotKeeps
  <2>3. Keeps(r, StoreSlot(q, e, s, from, to))
    BY <2>2, KeepsOn
  <2> QED BY <2>3 DEF Keeps, Goes
<1>4. StoreAll(r, e, from, to) = c[N]
  BY DEF StoreAll
<1> HIDE DEF N, T
<1>5. F \in [T \X Nat -> T] /\ \A q \in T, s \in Nat : F[<<q, s>>] = StoreSlot(q, e, s, from, to)
  BY <1>3
<1> HIDE DEF F
<1>6. PICK x : Repeats(T, F, r, N, x)
  BY <1>1, <1>2, <1>5, IterationExists
<1>7. Is(x)
  <2>1. ASSUME NEW n \in 0 .. N
        PROVE  x[n] = IF n = 0 THEN r ELSE StoreSlot(x[n - 1], e, n - 1, from, to)
    <3>1. CASE n = 0
      BY <1>6, <3>1 DEF Repeats
    <3>2. CASE n # 0
      <4>1. n \in 1 .. N /\ n - 1 \in 0 .. N /\ n - 1 \in Nat
        BY <1>1, <3>2
      <4> QED BY <1>5, <1>6, <3>2, <4>1 DEF Repeats
    <3> QED BY <3>1, <3>2
  <2> QED BY <1>6, <2>1 DEF Repeats
<1>8. Is(c)
  BY <1>7
<1> HIDE DEF c
<1>9. c[0] = r /\ \A n \in 1 .. N : c[n] = StoreSlot(c[n - 1], e, n - 1, from, to)
  <2>1. 0 \in 0 .. N /\ \A n \in 1 .. N : n \in 0 .. N /\ n # 0
    BY <1>1
  <2> QED BY <1>8, <2>1
<1>10. \A n \in 1 .. N : c[n - 1] \in T => c[n] = F[<<c[n - 1], n - 1>>]
  <2>1. \A n \in 1 .. N : n - 1 \in Nat
    BY <1>1
  <2> QED BY <1>5, <1>9, <2>1
<1>11. c[N] \in T
  <2>1. N \in 0 .. N
    BY <1>1
  <2> HIDE DEF Is
  <2> QED BY <1>1, <1>2, <1>5, <1>9, <1>10, <2>1, IterationFollows
<1> QED BY <1>4, <1>11 DEF T

-----------------------------------------------------------------------------
\* Blocks are given back: by a request that runs to its end, from every list at once.

Gives(r, e, given, u) ==
  /\ Goes(r, u) /\ Ok(u) /\ u.disk = r.disk
  /\ u.mem.used = r.mem.used \ {r.mem.entries[e].blocks[s] : s \in given}
  /\ \A y \in Entries : y # e => u.mem.entries[y] = r.mem.entries[y]
  /\ \A s \in Slots : u.mem.entries[e].blocks[s] =
                        IF s \in given THEN NoBlock ELSE r.mem.entries[e].blocks[s]
  /\ r.mem.entries[e].kind # "free" => SameNames(r.mem.entries, u.mem.entries)

LEMMA GivesIs ==
  ASSUME NEW r \in Running, Ok(r), NEW e \in Entries, NEW given \in SUBSET Slots
  PROVE  Gives(r, e, given,
           [r EXCEPT !.mem.used = @ \ {r.mem.entries[e].blocks[s] : s \in given},
                     !.mem.entries[e].blocks =
                       [s \in Slots |-> IF s \in given THEN NoBlock ELSE @[s]]])
<1> DEFINE old == r.mem.entries[e]
           used == r.mem.used \ {old.blocks[s] : s \in given}
           blocks == [s \in Slots |-> IF s \in given THEN NoBlock ELSE old.blocks[s]]
           x == [old EXCEPT !.blocks = blocks]
           E == [r.mem.entries EXCEPT ![e] = x]
           m == [r.mem EXCEPT !.used = used, !.entries = E]
           u == [r EXCEPT !.mem = m]
<1>1. r \in Runs /\ r.mem.mounted /\ old \in EntryType
  BY RunIs DEF Running
<1>2. u = [r EXCEPT !.mem.used = @ \ {r.mem.entries[e].blocks[s] : s \in given},
                    !.mem.entries[e].blocks =
                       [s \in Slots |-> IF s \in given THEN NoBlock ELSE @[s]]]
  BY <1>1 DEF Runs, Memories, Directories, EntryType
<1>3. used \in SUBSET Blocks
  BY <1>1, RunIs
<1>4. blocks \in [Slots -> Blocks \cup {NoBlock}]
      /\ \A s \in Slots : blocks[s] = IF s \in given THEN NoBlock ELSE old.blocks[s]
  BY <1>1, EntryIs
<1>5. used = r.mem.used \ {old.blocks[s] : s \in given}
  OBVIOUS
<1> HIDE DEF blocks, used
<1>6. x \in EntryType /\ x.kind = old.kind /\ x.parent = old.parent /\ x.name = old.name
      /\ x.blocks = blocks
  BY <1>1, <1>4 DEF EntryType
<1> HIDE DEF x
<1>7. E \in [Entries -> EntryType] /\ E[e] = x /\ \A y \in Entries : y # e => E[y] = r.mem.entries[y]
  BY <1>1, <1>6, RunIs
<1> HIDE DEF E
<1>8. m \in Memories /\ m.mounted /\ m.used = used /\ m.entries = E
  BY <1>1, <1>3, <1>7, RunIs DEF Memories, Directories
<1> HIDE DEF m
<1>9. u \in Runs /\ u.mem = m /\ u.disk = r.disk /\ u.status = r.status /\ u.stop = r.stop
      /\ u.late = r.late
  BY <1>1, <1>8 DEF Runs
<1> HIDE DEF u
<1>10. Goes(r, u) /\ Ok(u)
  BY <1>8, <1>9 DEF Goes, Running, Ok
<1>11. old.kind # "free" => SameNames(r.mem.entries, u.mem.entries)
  BY <1>6, <1>7, <1>8, <1>9 DEF SameNames
<1>12. Gives(r, e, given, u)
  BY <1>4, <1>5, <1>6, <1>7, <1>8, <1>9, <1>10, <1>11 DEF Gives
<1> QED BY <1>2, <1>12

\* The blocks an entry gives back are listed by no other.
LEMMA GivenIsSound ==
  ASSUME NEW r \in Running, NEW e \in Entries, NEW given \in SUBSET Slots, NEW u,
         Gives(r, e, given, u), Sound(r.mem, r.disk)
  PROVE  /\ OneOwner(u.mem.entries) /\ Marks(u.mem.entries, u.mem.used)
         /\ Uses(r.mem.entries, r.mem.used) => Uses(u.mem.entries, u.mem.used)
<1> DEFINE A == r.mem.entries
           B == u.mem.entries
<1>1. OneOwner(A) /\ Marks(A, r.mem.used)
  BY DEF Sound, Running
<1>2. \A y \in Entries, s \in Slots :
        B[y].blocks[s] = IF y = e /\ s \in given THEN NoBlock ELSE A[y].blocks[s]
  BY DEF Gives
<1>3. u.mem.used = r.mem.used \ {A[e].blocks[s] : s \in given}
  BY DEF Gives
<1> HIDE DEF A, B
<1>4. OneOwner(B)
  <2> SUFFICES ASSUME NEW y \in Entries, NEW f \in Entries, NEW s \in Slots, NEW t \in Slots,
                      B[y].blocks[s] = B[f].blocks[t], B[y].blocks[s] # NoBlock
               PROVE  y = f /\ s = t
    BY DEF OneOwner
  <2>1. B[y].blocks[s] = A[y].blocks[s] /\ B[f].blocks[t] = A[f].blocks[t]
    BY <1>2
  <2>2. A[y].blocks[s] = A[f].blocks[t] /\ A[y].blocks[s] # NoBlock
    BY <2>1
  <2> QED BY <1>1, <2>2 DEF OneOwner
<1>5. Marks(B, u.mem.used)
  <2> SUFFICES ASSUME NEW y \in Entries, NEW s \in Slots, B[y].blocks[s] # NoBlock
               PROVE  B[y].blocks[s] \in u.mem.used
    BY DEF Marks
  <2>1. B[y].blocks[s] = A[y].blocks[s] /\ ~(y = e /\ s \in given)
    BY <1>2
  <2>2. A[y].blocks[s] \in r.mem.used
    BY <1>1, <2>1 DEF Marks
  <2>3. ASSUME NEW t \in given, A[e].blocks[t] = A[y].blocks[s] PROVE FALSE
    BY <1>1, <2>1, <2>3 DEF OneOwner
  <2> QED BY <1>3, <2>1, <2>2, <2>3
<1>6. ASSUME Uses(A, r.mem.used) PROVE Uses(B, u.mem.used)
  <2> SUFFICES ASSUME NEW b \in u.mem.used
               PROVE  \E y \in Entries, s \in Slots : B[y].blocks[s] = b
    BY DEF Uses
  <2>1. PICK y \in Entries, s \in Slots : A[y].blocks[s] = b
    BY <1>3, <1>6 DEF Uses
  <2>2. ~(y = e /\ s \in given)
    BY <1>3, <2>1
  <2> QED BY <1>2, <2>1, <2>2
<1> QED BY <1>4, <1>5, <1>6 DEF A, B

LEMMA ReleaseIs ==
  ASSUME NEW r \in Running, Ok(r), NEW e \in Entries, NEW kept \in Nat
  PROVE  /\ Goes(r, ReleaseBlocks(r, e, kept))
         /\ r.mem.entries[e].kind # "free" =>
              /\ SameNames(r.mem.entries, ReleaseBlocks(r, e, kept).mem.entries)
              /\ r.stop = Whole => Keeps(r, ReleaseBlocks(r, e, kept))
         /\ r.stop = Whole => Ok(ReleaseBlocks(r, e, kept))
         /\ r.stop = Whole /\ kept = 0 =>
              \A s \in Slots : ReleaseBlocks(r, e, kept).mem.entries[e].blocks[s] = NoBlock
<1> DEFINE first == (kept + BlockBytes - 1) \div BlockBytes
           given == {s \in Slots : s >= first /\ r.mem.entries[e].blocks[s] # NoBlock}
           u == [r EXCEPT !.mem.used = @ \ {r.mem.entries[e].blocks[s] : s \in given},
                          !.mem.entries[e].blocks =
                            [s \in Slots |-> IF s \in given THEN NoBlock ELSE @[s]]]
           f == FlushSuperblock(u)
           q == FlushEntry(f, e)
<1>1. kept = 0 => \A s \in Slots : s \in given <=> r.mem.entries[e].blocks[s] # NoBlock
  <2>1. kept = 0 => first = 0
    <3>1. (0 + BlockBytes - 1) \div BlockBytes = 0
      BY ConstantsAre, SMTT(20)
    <3> QED BY <3>1
  <2> HIDE DEF first
  <2> QED BY <2>1, ConstantsAre
<1>2. CASE given = {}
  <2>1. ReleaseBlocks(r, e, kept) = r
    BY <1>2 DEF ReleaseBlocks
  <2>2. Keeps(r, r)
    BY KeepsItself
  <2> QED BY <1>1, <1>2, <2>1, <2>2 DEF Keeps
<1>3. CASE given # {}
  <2>1. ReleaseBlocks(r, e, kept) = q
    BY <1>3 DEF ReleaseBlocks
  <2>2. given \in SUBSET Slots
    OBVIOUS
  <2> HIDE DEF given
  <2>3. Gives(r, e, given, u)
    BY <2>2, GivesIs
  <2> HIDE DEF u
  <2>4. /\ Goes(r, u) /\ Ok(u) /\ u.disk = r.disk
        /\ r.mem.entries[e].kind # "free" => SameNames(r.mem.entries, u.mem.entries)
        /\ u.mem.used = r.mem.used \ {r.mem.entries[e].blocks[s] : s \in given}
        /\ \A y \in Entries : y # e => u.mem.entries[y] = r.mem.entries[y]
    BY <2>3 DEF Gives
  <2>5. u \in Running /\ u \in Runs /\ u.stop = r.stop
    BY <2>4 DEF Goes, Running
  <2>6. /\ f \in Runs /\ f.mem = u.mem /\ f.stop = r.stop /\ f.late = u.late
        /\ r.stop = Whole => Ok(f)
        /\ \/ ~Ok(f)
           \/ /\ f.disk.formatted /\ f.disk.used = u.mem.used
              /\ f.disk.entries = u.disk.entries
    BY <2>4, <2>5, SuperblockFlushed
  <2>7. f \in Running /\ Goes(r, f)
    BY <2>4, <2>5, <2>6 DEF Goes, Running
  <2>8. CASE ~Ok(f)
    <3>1. q = f
      BY <2>8 DEF FlushEntry
    <3> QED BY <2>1, <2>4, <2>6, <2>7, <2>8, <3>1
  <2>9. CASE Ok(f)
    <3> HIDE DEF f
    <3>1. Goes(f, q) /\ q.mem = f.mem
      BY <2>7, <2>9, EntryKept
    <3>2. /\ r.stop = Whole => Ok(q)
          /\ q.disk.used = f.disk.used /\ q.disk.formatted = f.disk.formatted
      BY <2>6, <2>7, <2>9, EntryOnDisk
    <3>3. \/ q.disk = f.disk /\ ~Ok(q)
          \/ \A y \in Entries : q.disk.entries[y] =
               IF y \in SectorOf(e) THEN f.mem.entries[y] ELSE f.disk.entries[y]
      BY <2>6, <2>9, EntryFlushed
    <3> HIDE DEF q
    <3>4. Goes(r, q)
      BY <2>7, <3>1 DEF Goes
    <3>5. \A s \in Slots : q.mem.entries[e].blocks[s] =
                        IF s \in given THEN NoBlock ELSE r.mem.entries[e].blocks[s]
      BY <2>3, <2>6, <3>1 DEF Gives
    <3>6. kept = 0 => \A s \in Slots : q.mem.entries[e].blocks[s] = NoBlock
      BY <1>1, <3>5
    <3>7. ASSUME r.stop = Whole, r.mem.entries[e].kind # "free" PROVE Keeps(r, q)
      <4>1. \A y \in Entries : q.disk.entries[y] =
               IF y \in SectorOf(e) THEN q.mem.entries[y] ELSE r.disk.entries[y]
        BY <2>4, <2>6, <2>9, <3>1, <3>2, <3>3, <3>7
      <4>2. e \in SectorOf(e) /\ q.mem = u.mem /\ q.mem.mounted /\ r.mem.mounted
        BY <2>6, <3>1, <3>4 DEF SectorOf, Goes, Running
      <4>3. q.disk.formatted /\ q.disk.used = q.mem.used
        BY <2>6, <2>9, <3>1, <3>2
      <4>4. ASSUME Sound(r.mem, r.disk) PROVE Sound(q.mem, q.disk)
        <5>1. OneOwner(q.mem.entries) /\ Marks(q.mem.entries, q.mem.used)
          BY <2>2, <2>3, <4>2, <4>4, GivenIsSound
        <5>2. Reflects(q.mem, q.disk)
          <6>1. Reflects(r.mem, r.disk)
            BY <4>2, <4>4 DEF Sound
          <6>2. ASSUME NEW y \in Entries, NEW s \in Slots,
                       q.disk.entries[y].blocks[s] # NoBlock
                PROVE  q.mem.entries[y].blocks[s] = q.disk.entries[y].blocks[s]
            <7>1. CASE y \in SectorOf(e)
              BY <4>1, <7>1
            <7>2. CASE y \notin SectorOf(e)
              <8>1. q.disk.entries[y] = r.disk.entries[y] /\ y # e
                BY <4>1, <4>2, <7>2
              <8>2. q.mem.entries[y] = r.mem.entries[y]
                BY <2>4, <4>2, <8>1
              <8> QED BY <6>1, <6>2, <8>1, <8>2 DEF Reflects
            <7> QED BY <7>1, <7>2
          <6> QED BY <6>2 DEF Reflects
        <5> QED BY <4>2, <4>3, <5>1, <5>2 DEF Sound
      <4>5. ASSUME Sound(r.mem, r.disk), Exact(r.mem, r.disk) PROVE Exact(q.mem, q.disk)
        <5>1. r.mem.entries = r.disk.entries /\ Uses(r.mem.entries, r.mem.used)
          BY <4>2, <4>5 DEF Exact
        <5>2. Uses(q.mem.entries, q.mem.used)
          BY <2>2, <2>3, <4>2, <4>5, <5>1, GivenIsSound
        <5>3. \A y \in Entries : q.disk.entries[y] = q.mem.entries[y]
          BY <2>4, <4>1, <4>2, <5>1
        <5>4. q.disk.entries = q.mem.entries
          BY <3>4, <5>3, RunIs DEF Goes, Running
        <5> QED BY <4>2, <4>3, <5>2, <5>4 DEF Exact
      <4>6. SameNames(r.mem.entries, q.mem.entries)
        BY <2>4, <3>7, <4>2
      <4>7. SameNames(r.mem.entries, r.disk.entries) => SameNames(r.mem.entries, q.disk.entries)
        BY <4>1, <4>6 DEF SameNames
      <4> QED BY <3>4, <4>4, <4>5, <4>6, <4>7 DEF Keeps
    <3>8. /\ Goes(r, q) /\ (r.stop = Whole => Ok(q))
          /\ r.mem.entries[e].kind # "free" =>
               SameNames(r.mem.entries, q.mem.entries) /\ (r.stop = Whole => Keeps(r, q))
          /\ r.stop = Whole /\ kept = 0 => \A s \in Slots : q.mem.entries[e].blocks[s] = NoBlock
      BY <2>4, <2>6, <3>1, <3>2, <3>4, <3>6, <3>7
    <3> QED BY <2>1, <3>8 DEF q, f
  <2> QED BY <2>8, <2>9
<1> QED BY <1>2, <1>3

-----------------------------------------------------------------------------
\* Requests on an entry.

LEMMA TruncateKeeps ==
  ASSUME NEW r \in Running, NEW e \in Entries, NEW length \in Nat
  PROVE  /\ Goes(r, Truncate(r, e, length))
         /\ r.stop = Whole \/ length >= r.mem.entries[e].length =>
              Keeps(r, Truncate(r, e, length))
<1> DEFINE old == r.mem.entries[e].length
           cut == IF length < old THEN ReleaseBlocks(r, e, length) ELSE r
           filled == ZeroFill(cut, e, old, length)
           q == SetLength(filled, e, length)
<1>1. r \in Runs /\ r.mem.mounted /\ Mount(r) = r /\ r.mem.entries[e] \in EntryType
  BY RunIs DEF Running, Mount
<1>2. CASE ~Ok(r)
  BY <1>1, <1>2, KeepsItself DEF Truncate, Keeps
<1>3. CASE Ok(r) /\ ~IsFile(r, e)
  BY <1>1, <1>3, RefuseKeeps DEF Truncate, Keeps, Statuses
<1>4. CASE Ok(r) /\ IsFile(r, e) /\ length > FileBytesMax
  BY <1>1, <1>4, RefuseKeeps DEF Truncate, Keeps, Statuses
<1>5. CASE Ok(r) /\ IsFile(r, e) /\ ~(length > FileBytesMax)
  <2>1. Truncate(r, e, length) = q
    BY <1>1, <1>5 DEF Truncate
  <2>2. length \in 0 .. FileBytesMax /\ old \in 0 .. FileBytesMax /\ r.mem.entries[e].kind # "free"
    BY <1>1, <1>5, ConstantsAre, EntryIs DEF IsFile
  <2>3. /\ Goes(r, cut) /\ SameNames(r.mem.entries, cut.mem.entries)
        /\ r.stop = Whole \/ length >= old => Keeps(r, cut)
    <3>1. CASE length < old
      <4>1. cut = ReleaseBlocks(r, e, length) /\ ~(length >= old)
        BY <2>2, <3>1
      <4> HIDE DEF cut, old
      <4> QED BY <1>5, <2>2, <4>1, ReleaseIs
    <3>2. CASE ~(length < old)
      <4>1. cut = r
        BY <3>2
      <4>2. Keeps(r, r)
        BY KeepsItself
      <4> QED BY <4>1, <4>2 DEF Keeps
    <3> QED BY <3>1, <3>2
  <2> HIDE DEF cut, old
  <2>4. cut \in Running /\ cut.mem.entries[e].kind # "free"
    BY <2>2, <2>3 DEF Goes, SameNames
  <2>5. Keeps(cut, filled)
    BY <2>4, ZeroFillKeeps
  <2>6. filled \in Running
    BY <2>5 DEF Keeps, Goes
  <2> HIDE DEF filled
  <2>7. Keeps(filled, q)
    BY <2>2, <2>6, LengthKeeps
  <2> HIDE DEF q
  <2>8. Keeps(cut, q)
    BY <2>5, <2>7, KeepsOn
  <2>9. Goes(r, q)
    BY <2>3, <2>8 DEF Keeps, Goes
  <2>10. r.stop = Whole \/ length >= old => Keeps(r, q)
    BY <2>3, <2>8, KeepsOn
  <2> QED BY <2>1, <2>9, <2>10 DEF old
<1> QED BY <1>2, <1>3, <1>4, <1>5

LEMMA WriteKeeps ==
  ASSUME NEW r \in Running, NEW e \in Entries, NEW at \in {AtTheEnd} \cup Offsets,
         NEW count \in 1 .. MaxRequest
  PROVE  Keeps(r, Write(r, e, at, count))
<1> DEFINE old == r.mem.entries[e].length
           offset == IF at = AtTheEnd THEN old ELSE at
           end == offset + count
           hole == IF offset > old THEN Truncate(r, e, offset) ELSE r
           stored == StoreAll(hole, e, offset, end)
           long == SetLength(stored, e, end)
<1>1. r \in Runs /\ r.mem.mounted /\ Mount(r) = r /\ r.mem.entries[e] \in EntryType
  BY RunIs DEF Running, Mount
<1>2. CASE ~Ok(r)
  BY <1>1, <1>2, KeepsItself DEF Write
<1>3. CASE Ok(r) /\ ~IsFile(r, e)
  BY <1>1, <1>3, RefuseKeeps DEF Write, Statuses
<1>4. CASE Ok(r) /\ IsFile(r, e)
  <2>1. Write(r, e, at, count) = IF end > FileBytesMax THEN Refuse(r, "EFBIG")
                                 ELSE IF end > old THEN long ELSE stored
    BY <1>1, <1>4 DEF Write
  <2>2. old \in 0 .. FileBytesMax /\ r.mem.entries[e].kind # "free"
    BY <1>1, <1>4, EntryIs DEF IsFile
  <2>3. offset \in Nat /\ count \in Nat /\ end \in Nat
    <3>1. count \in Nat /\ Offsets \subseteq Nat
      BY ConstantsAre, AgelFsConstants
    <3>2. offset \in Nat
      <4>1. CASE at = AtTheEnd
        BY <2>2, <4>1, ConstantsAre
      <4>2. CASE at # AtTheEnd
        <5>1. offset = at /\ at \in Offsets
          BY <4>2
        <5> QED BY <3>1, <5>1
      <4> QED BY <4>1, <4>2
    <3> HIDE DEF offset
    <3> QED BY <3>1, <3>2
  <2> HIDE DEF offset, old
  <2>4. CASE end > FileBytesMax
    BY <1>1, <2>1, <2>4, RefuseKeeps DEF Statuses
  <2>5. CASE ~(end > FileBytesMax)
    <3>1. end \in 0 .. FileBytesMax
      BY <2>3, <2>5, ConstantsAre
    <3> HIDE DEF end
    <3>2. Keeps(r, hole)
      <4>1. CASE offset > old
        <5>1. offset >= r.mem.entries[e].length
          BY <2>2, <2>3, <4>1 DEF old
        <5>2. Keeps(r, Truncate(r, e, offset))
          BY <2>3, <5>1, TruncateKeeps
        <5> QED BY <4>1, <5>2
      <4>2. CASE ~(offset > old)
        BY <4>2, KeepsItself
      <4> QED BY <4>1, <4>2
    <3> HIDE DEF hole
    <3>3. hole \in Running /\ hole.mem.entries[e].kind # "free"
      BY <2>2, <3>2, StillUsed
    <3>4. Keeps(hole, stored)
      BY <3>3, StoreAllKeeps
    <3>5. stored \in Running
      BY <3>4 DEF Keeps, Goes
    <3> HIDE DEF stored
    <3>6. Keeps(r, stored)
      BY <3>2, <3>4, KeepsOn
    <3>7. Keeps(stored, long)
      BY <3>1, <3>5, LengthKeeps
    <3> HIDE DEF long
    <3>8. Keeps(r, long)
      BY <3>6, <3>7, KeepsOn
    <3> QED BY <2>1, <2>5, <3>6, <3>8
  <2> QED BY <2>4, <2>5
<1> QED BY <1>2, <1>3, <1>4

-----------------------------------------------------------------------------
\* The service mounts the region it finds.

LEMMA MountIs ==
  ASSUME NEW r \in Runs, Ok(r)
  PROVE  /\ Mount(r) \in Runs /\ Mount(r).disk = r.disk /\ Mount(r).stop = r.stop
         /\ ~Ok(Mount(r)) => Mount(r).mem = r.mem
         /\ Ok(Mount(r)) =>
              /\ Mount(r) \in Running /\ Mount(r).mem.entries = Met(r.mem, r.disk)
              /\ Sound(r.mem, r.disk) => Sound(Mount(r).mem, r.disk)
              /\ Exact(r.mem, r.disk) => Exact(Mount(r).mem, r.disk)
<1> DEFINE m == [mounted |-> TRUE, used |-> r.disk.used, entries |-> r.disk.entries]
           q == [r EXCEPT !.mem = m]
<1>1. CASE r.mem.mounted
  BY <1>1 DEF Mount, Running, Met
<1>2. CASE ~r.mem.mounted /\ ~r.disk.formatted
  <2>1. Mount(r) = Refuse(r, "EIO")
    BY <1>2 DEF Mount
  <2>2. ~Ok(Refuse(r, "EIO"))
    BY DEF Refuse, Ok, Runs
  <2> QED BY <2>1, <2>2, RefuseKeeps DEF Statuses
<1>3. CASE ~r.mem.mounted /\ r.disk.formatted
  <2>1. Mount(r) = q
    BY <1>3 DEF Mount
  <2>2. m \in Memories /\ m.mounted /\ m.used = r.disk.used /\ m.entries = r.disk.entries
    BY RunIs DEF Memories, Directories
  <2> HIDE DEF m
  <2>3. q \in Runs /\ q.mem = m /\ q.disk = r.disk /\ q.stop = r.stop /\ Ok(q)
    BY <2>2 DEF Runs, Ok
  <2> HIDE DEF q
  <2>4. q \in Running /\ q.mem.entries = Met(r.mem, r.disk)
    BY <1>3, <2>2, <2>3 DEF Running, Met
  <2>5. Sound(r.mem, r.disk) => Sound(q.mem, r.disk)
    BY <1>3, <2>2, <2>3 DEF Sound, Reflects
  <2>6. Exact(r.mem, r.disk) => Exact(q.mem, r.disk)
    BY <1>3, <2>2, <2>3 DEF Exact
  <2> QED BY <2>1, <2>3, <2>4, <2>5, <2>6
<1> QED BY <1>1, <1>2, <1>3

LEMMA NamesKeep ==
  ASSUME NEW a, NEW b \in Directories, SameNames(a, b), Tree(a), Vacant(a)
  PROVE  Tree(b) /\ Vacant(b)
<1>1. \A e \in Entries : a[e].kind = b[e].kind /\ a[e].parent = b[e].parent /\ a[e].name = b[e].name
  BY DEF SameNames
<1>2. \A met \in SUBSET Entries : Climbs(a, met) <=> Climbs(b, met)
  BY <1>1 DEF Climbs
<1>3. \A e \in Entries : Above(a, e) = Above(b, e)
  BY <1>2 DEF Above
<1>4. \A d, n : Child(a, d, n) = Child(b, d, n)
  BY <1>1 DEF Child
<1>5. Vacant(b)
  BY DEF Vacant, SameNames
<1>6. Tree(b)
  <2>1. b[0].kind = "directory" /\ b[0].parent = 0
    BY <1>1, ConstantsAre DEF Tree
  <2>2. ASSUME NEW e \in Entries \ {0}, b[e].kind # "free"
        PROVE  /\ b[b[e].parent].kind = "directory" /\ 0 \in Above(b, e)
               /\ Child(b, b[e].parent, b[e].name) = {e}
    <3>1. a[e].kind # "free" /\ a[e].parent = b[e].parent /\ a[e].name = b[e].name
      BY <1>1, <2>2
    <3>2. /\ a[a[e].parent].kind = "directory" /\ 0 \in Above(a, e)
          /\ Child(a, a[e].parent, a[e].name) = {e}
      BY <3>1 DEF Tree
    <3>3. b[e].parent \in Entries
      BY EntryIs DEF Directories
    <3> QED BY <1>1, <1>3, <1>4, <3>1, <3>2, <3>3
  <2> QED BY <2>1, <2>2 DEF Tree
<1> QED BY <1>5, <1>6

\* A request that keeps what is there, or that changes nothing, serves.
LEMMA LeavesAsIs ==
  ASSUME NEW r, NEW q, q.mem = r.mem, q.disk = r.disk
  PROVE  Leaves(r, q)
BY DEF Leaves, Ahead, Good, Sound, Met, Unmounted

LEMMA KeepsServes ==
  ASSUME NEW r \in Running, NEW q, Keeps(r, q)
  PROVE  Serves(r, q) /\ Leaves(r, q)
<1>1. q \in Runs /\ q.mem.mounted /\ r.mem.mounted
  BY DEF Keeps, Goes, Running
<1>2. Met(r.mem, r.disk) = r.mem.entries /\ Met(q.mem, q.disk) = q.mem.entries
  BY <1>1 DEF Met
<1>3. q.mem.entries \in Directories /\ q.disk.entries \in Directories
  BY <1>1, RunIs DEF Directories
<1>4. ASSUME Good(r.mem, r.disk)
      PROVE  Sound(q.mem, q.disk) /\ Tree(q.mem.entries) /\ Vacant(q.mem.entries)
  <2>1. SameNames(r.mem.entries, q.mem.entries) /\ (Sound(r.mem, r.disk) => Sound(q.mem, q.disk))
    BY DEF Keeps
  <2> QED BY <1>2, <1>3, <1>4, <2>1, NamesKeep DEF Good
<1>5. ASSUME Good(r.mem, r.disk), ~Ahead(r.mem, r.disk)
      PROVE  Tree(Met(Unmounted, q.disk)) /\ Vacant(Met(Unmounted, q.disk))
  <2>1. SameNames(r.mem.entries, r.disk.entries)
    BY <1>1, <1>5 DEF Ahead, SameNames
  <2>2. SameNames(r.mem.entries, q.disk.entries)
    BY <2>1 DEF Keeps
  <2>3. Tree(q.disk.entries) /\ Vacant(q.disk.entries)
    BY <1>2, <1>3, <1>5, <2>2, NamesKeep DEF Good
  <2>4. Met(Unmounted, q.disk) = q.disk.entries
    BY <1>1, <1>4, <1>5 DEF Sound, Met, Unmounted
  <2> QED BY <2>3, <2>4
<1>6. Good(r.mem, r.disk) /\ Exact(r.mem, r.disk) /\ r.stop = Whole => Exact(q.mem, q.disk)
  BY DEF Good, Keeps
<1> QED BY <1>1, <1>2, <1>4, <1>5, <1>6 DEF Serves, Leaves, Good

LEMMA MountServes ==
  ASSUME NEW r \in Runs, Ok(r)
  PROVE  /\ ~Ok(Mount(r)) => Serves(r, Mount(r)) /\ Leaves(r, Mount(r))
         /\ Ok(Mount(r)) =>
              /\ Good(r.mem, r.disk) => Good(Mount(r).mem, r.disk)
              /\ \A q : Serves(Mount(r), q) => Serves(r, q)
              /\ \A q : Leaves(Mount(r), q) => Leaves(r, q)
<1> DEFINE m == Mount(r)
<1>1. /\ m \in Runs /\ m.disk = r.disk /\ m.stop = r.stop
      /\ ~Ok(m) => m.mem = r.mem
      /\ Ok(m) => /\ m \in Running /\ m.mem.entries = Met(r.mem, r.disk)
                  /\ Sound(r.mem, r.disk) => Sound(m.mem, r.disk)
                  /\ Exact(r.mem, r.disk) => Exact(m.mem, r.disk)
  BY MountIs
<1> HIDE DEF m
<1>2. ASSUME ~Ok(m) PROVE Serves(r, m) /\ Leaves(r, m)
  BY <1>1, <1>2, LeavesAsIs DEF Serves
<1>3. ASSUME Ok(m), Good(r.mem, r.disk) PROVE Good(m.mem, m.disk)
  BY <1>1, <1>3 DEF Good, Met, Running
<1>4. ASSUME Ok(m), Good(r.mem, r.disk), ~Ahead(r.mem, r.disk) PROVE ~Ahead(m.mem, m.disk)
  BY <1>1, <1>4 DEF Good, Sound, Met, Ahead, Mount, m
<1>5. ASSUME Ok(m), NEW q, Serves(m, q) PROVE Serves(r, q)
  BY <1>1, <1>3, <1>5 DEF Serves
<1>6. ASSUME Ok(m), NEW q, Leaves(m, q) PROVE Leaves(r, q)
  BY <1>1, <1>3, <1>4, <1>6 DEF Leaves
<1> QED BY <1>1, <1>2, <1>3, <1>5, <1>6 DEF m

-----------------------------------------------------------------------------
\* The tree under a new name, without an old one, and with one moved.

LEMMA AboveIs ==
  ASSUME NEW A \in Directories, NEW z \in Entries
  PROVE  /\ z \in Above(A, z) /\ Above(A, z) \in SUBSET Entries /\ Climbs(A, Above(A, z))
         /\ \A met \in SUBSET Entries : z \in met /\ Climbs(A, met) => Above(A, z) \subseteq met
<1>1. z \in Above(A, z) /\ Above(A, z) \in SUBSET Entries
      /\ \A met \in SUBSET Entries : z \in met /\ Climbs(A, met) => Above(A, z) \subseteq met
  BY DEF Above
<1>2. ASSUME NEW d \in Above(A, z) \ {0} PROVE A[d].parent \in Above(A, z)
  <2>1. d \in Entries /\ A[d].parent \in Entries
    BY <1>1, EntryIs DEF Directories
  <2>2. \A met \in SUBSET Entries : z \in met /\ Climbs(A, met) => A[d].parent \in met
    BY <1>1, <1>2 DEF Climbs
  <2> QED BY <2>1, <2>2 DEF Above
<1> QED BY <1>1, <1>2 DEF Climbs

\* In a tree a set that holds the parents of its used members leads to the root.
LEMMA ClimbingEnds ==
  ASSUME NEW A \in Directories, Tree(A), NEW met \in SUBSET Entries,
         \A d \in met \ {0} : A[d].kind # "free" => A[d].parent \in met,
         NEW z \in met, A[z].kind # "free"
  PROVE  0 \in met
<1> DEFINE used == {d \in met : A[d].kind # "free"}
<1>1. CASE z = 0
  BY <1>1
<1>2. CASE z # 0
  <2>1. 0 \in Above(A, z)
    BY <1>2 DEF Tree
  <2>2. Climbs(A, used)
    <3> SUFFICES ASSUME NEW d \in used \ {0} PROVE A[d].parent \in used
      BY DEF Climbs
    <3>1. d \in Entries \ {0} /\ A[d].kind # "free" /\ A[d].parent \in met
      OBVIOUS
    <3>2. A[A[d].parent].kind = "directory"
      BY <3>1 DEF Tree
    <3> QED BY <3>1, <3>2
  <2>3. z \in used /\ used \in SUBSET Entries
    OBVIOUS
  <2> HIDE DEF used
  <2>4. 0 \in used
    BY <2>1, <2>2, <2>3 DEF Above
  <2> QED BY <2>4 DEF used
<1> QED BY <1>1, <1>2

LEMMA TreeIs ==
  ASSUME NEW A \in Directories, Tree(A), NEW y \in Entries, A[y].kind # "free"
  PROVE  /\ A[y].parent \in Entries /\ A[A[y].parent].kind = "directory"
         /\ y # 0 => Child(A, A[y].parent, A[y].name) = {y}
BY EntryIs DEF Tree, Directories

LEMMA TreeGrows ==
  ASSUME NEW A \in Directories, NEW B \in Directories, Tree(A), Vacant(A), NEW f \in Entries \ {0},
         A[f].kind = "free", B[f].kind # "free", A[B[f].parent].kind = "directory",
         Child(A, B[f].parent, B[f].name) = {},
         \A y \in Entries : y # f => B[y] = A[y]
  PROVE  Tree(B) /\ Vacant(B)
<1>1. Vacant(B)
  BY DEF Vacant
<1>2. f # 0 /\ 0 \in Entries /\ B[0] = A[0]
  BY ConstantsAre
<1>3. B[f].parent \in Entries /\ B[f].parent # f
  BY EntryIs DEF Directories
<1>4. ASSUME NEW y \in Entries, y # f, A[y].kind # "free"
      PROVE  A[y].parent # f /\ A[y].parent \in Entries
  BY <1>4, TreeIs
<1>5. ASSUME NEW y \in Entries \ {0}, B[y].kind # "free"
      PROVE  B[B[y].parent].kind = "directory"
  BY <1>3, <1>4, <1>5, TreeIs
<1>6. ASSUME NEW y \in Entries \ {0}, B[y].kind # "free" PROVE 0 \in Above(B, y)
  <2> SUFFICES ASSUME NEW met \in SUBSET Entries, y \in met, Climbs(B, met) PROVE 0 \in met
    BY ConstantsAre DEF Above
  <2>1. \A d \in met \ {0} : A[d].kind # "free" => A[d].parent \in met
    BY DEF Climbs
  <2>2. CASE y # f
    BY <1>6, <2>1, <2>2, ClimbingEnds
  <2>3. CASE y = f
    <3>1. B[f].parent \in met
      BY <2>3 DEF Climbs
    <3> QED BY <2>1, <3>1, ClimbingEnds
  <2> QED BY <2>2, <2>3
<1>7. ASSUME NEW y \in Entries \ {0}, B[y].kind # "free"
      PROVE  Child(B, B[y].parent, B[y].name) = {y}
  <2>1. CASE y = f
    BY <1>7, <2>1 DEF Child
  <2>2. CASE y # f
    <3>1. B[y] = A[y] /\ Child(A, A[y].parent, A[y].name) = {y}
      BY <1>7, <2>2 DEF Tree
    <3>2. ~(B[f].parent = A[y].parent /\ B[f].name = A[y].name)
      BY <3>1
    <3> QED BY <3>1, <3>2 DEF Child
  <2> QED BY <2>1, <2>2
<1>8. B[0].kind = "directory" /\ B[0].parent = 0
  BY <1>2 DEF Tree
<1> QED BY <1>1, <1>5, <1>6, <1>7, <1>8 DEF Tree

LEMMA TreeShrinks ==
  ASSUME NEW A \in Directories, NEW B \in Directories, Tree(A), Vacant(A), NEW f \in Entries \ {0},
         B[f] = Unset, A[f].kind = "directory" => ~HasChildren(A, f),
         \A y \in Entries : y # f => B[y] = A[y]
  PROVE  Tree(B) /\ Vacant(B)
<1>1. Vacant(B)
  BY DEF Vacant
<1>2. f # 0 /\ 0 \in Entries /\ B[0] = A[0] /\ B[f].kind = "free"
  BY ConstantsAre DEF Unset
<1>3. ASSUME NEW y \in Entries, B[y].kind # "free"
      PROVE  y # f /\ B[y] = A[y] /\ A[y].parent # f /\ A[y].parent \in Entries
             /\ A[A[y].parent].kind = "directory"
  <2>1. y # f /\ B[y] = A[y]
    BY <1>2, <1>3
  <2>2. A[y].parent \in Entries /\ A[A[y].parent].kind = "directory"
    BY <1>3, <2>1, TreeIs
  <2>3. A[y].parent # f
    BY <1>3, <2>1, <2>2 DEF HasChildren
  <2> QED BY <2>1, <2>2, <2>3
<1>4. ASSUME NEW y \in Entries \ {0}, B[y].kind # "free" PROVE 0 \in Above(B, y)
  <2> SUFFICES ASSUME NEW met \in SUBSET Entries, y \in met, Climbs(B, met) PROVE 0 \in met
    BY ConstantsAre DEF Above
  <2> DEFINE rest == met \ {f}
  <2>1. \A d \in rest \ {0} : A[d].kind # "free" => A[d].parent \in rest
    <3> SUFFICES ASSUME NEW d \in rest \ {0}, A[d].kind # "free" PROVE A[d].parent \in rest
      OBVIOUS
    <3>1. d \in Entries /\ B[d] = A[d]
      OBVIOUS
    <3>2. B[d].parent \in met
      BY DEF Climbs
    <3> QED BY <1>3, <3>1, <3>2
  <2>2. y \in rest /\ A[y].kind # "free"
    BY <1>3, <1>4
  <2>3. rest \in SUBSET Entries
    OBVIOUS
  <2> HIDE DEF rest
  <2>4. 0 \in rest
    BY <2>1, <2>2, <2>3, ClimbingEnds
  <2> QED BY <2>4 DEF rest
<1>5. ASSUME NEW y \in Entries \ {0}, B[y].kind # "free"
      PROVE  B[B[y].parent].kind = "directory" /\ Child(B, B[y].parent, B[y].name) = {y}
  <2>1. B[y] = A[y] /\ y # f /\ B[B[y].parent].kind = "directory"
    BY <1>3, <1>5
  <2>2. Child(A, A[y].parent, A[y].name) = {y}
    BY <1>5, <2>1, TreeIs
  <2>3. Child(B, A[y].parent, A[y].name) = {y}
    BY <1>2, <1>5, <2>1, <2>2 DEF Child
  <2> QED BY <2>1, <2>3
<1>6. B[0].kind = "directory" /\ B[0].parent = 0
  BY <1>2 DEF Tree
<1> QED BY <1>1, <1>4, <1>5, <1>6 DEF Tree

\* An entry that is not above its new directory takes what is below it along.
LEMMA TreeMoves ==
  ASSUME NEW A \in Directories, NEW B \in Directories, Tree(A), Vacant(A), NEW f \in Entries \ {0},
         A[f].kind # "free", B[f].kind = A[f].kind, B[f].blocks = A[f].blocks,
         A[B[f].parent].kind = "directory", f \notin Above(A, B[f].parent),
         Child(A, B[f].parent, B[f].name) = {},
         \A y \in Entries : y # f => B[y] = A[y]
  PROVE  Tree(B) /\ Vacant(B)
<1>1. Vacant(B)
  BY DEF Vacant
<1>2. f # 0 /\ 0 \in Entries /\ B[0] = A[0] /\ \A y \in Entries : B[y].kind = A[y].kind
  BY ConstantsAre
<1>3. B[f].parent \in Entries
  BY EntryIs DEF Directories
<1>4. ASSUME NEW z \in Entries, A[z].kind # "free", f \notin Above(A, z),
             NEW met \in SUBSET Entries, z \in met, Climbs(B, met)
      PROVE  0 \in met
  <2> DEFINE S == met \cap Above(A, z)
  <2>1. \A d \in S \ {0} : A[d].parent \in S
    <3> SUFFICES ASSUME NEW d \in S \ {0} PROVE A[d].parent \in S
      OBVIOUS
    <3>1. d # f /\ d \in Entries
      BY <1>4
    <3>2. A[d].parent \in met
      BY <1>4, <3>1 DEF Climbs
    <3>3. A[d].parent \in Above(A, z)
      BY AboveIs DEF Climbs
    <3> QED BY <3>2, <3>3
  <2>2. z \in S /\ S \in SUBSET Entries
    BY <1>4, AboveIs
  <2> HIDE DEF S
  <2>3. 0 \in S
    BY <1>4, <2>1, <2>2, ClimbingEnds
  <2> QED BY <2>3 DEF S
<1>5. ASSUME NEW y \in Entries \ {0}, B[y].kind # "free" PROVE 0 \in Above(B, y)
  <2> SUFFICES ASSUME NEW met \in SUBSET Entries, y \in met, Climbs(B, met) PROVE 0 \in met
    BY ConstantsAre DEF Above
  <2>1. A[y].kind # "free"
    BY <1>2, <1>5
  <2>2. CASE f \notin Above(A, y)
    BY <1>4, <2>1, <2>2
  <2>3. CASE f \in Above(A, y)
    <3>1. f \in met
      <4> SUFFICES ASSUME f \notin met PROVE FALSE
        OBVIOUS
      <4>1. Climbs(A, met)
        BY DEF Climbs
      <4> QED BY <2>3, <4>1 DEF Above
    <3>2. B[f].parent \in met
      BY <3>1 DEF Climbs
    <3> QED BY <1>3, <1>4, <3>2
  <2> QED BY <2>2, <2>3
<1>6. ASSUME NEW y \in Entries \ {0}, B[y].kind # "free"
      PROVE  B[B[y].parent].kind = "directory" /\ Child(B, B[y].parent, B[y].name) = {y}
  <2>1. CASE y = f
    BY <1>2, <1>3, <1>6, <2>1 DEF Child
  <2>2. CASE y # f
    <3>1. B[y] = A[y] /\ A[y].kind # "free"
      BY <1>6, <2>2
    <3>2. /\ A[y].parent \in Entries /\ A[A[y].parent].kind = "directory"
          /\ Child(A, A[y].parent, A[y].name) = {y}
      BY <3>1, TreeIs
    <3>3. ~(B[f].parent = A[y].parent /\ B[f].name = A[y].name)
      BY <3>2
    <3>4. Child(B, A[y].parent, A[y].name) = {y}
      BY <2>2, <3>1, <3>2, <3>3 DEF Child
    <3> QED BY <1>2, <3>1, <3>2, <3>4
  <2> QED BY <2>1, <2>2
<1>7. B[0].kind = "directory" /\ B[0].parent = 0
  BY <1>2 DEF Tree
<1> QED BY <1>1, <1>5, <1>6, <1>7 DEF Tree

LEMMA EmptyIsTree == EmptyDirectory \in Directories /\ Tree(EmptyDirectory) /\ Vacant(EmptyDirectory)
<1> DEFINE root == [Unset EXCEPT !.kind = "directory"]
<1>1. Unset \in EntryType /\ Unset.kind = "free"
  BY ConstantsAre DEF Unset, EntryType
<1>2. root \in EntryType /\ root.kind = "directory" /\ root.parent = 0
  BY ConstantsAre DEF Unset, EntryType
<1> HIDE DEF root
<1>3. EmptyDirectory = [e \in Entries |-> IF e = 0 THEN root ELSE Unset]
  BY DEF EmptyDirectory, root
<1>4. /\ EmptyDirectory \in Directories /\ EmptyDirectory[0] = root
      /\ \A e \in Entries : e # 0 => EmptyDirectory[e] = Unset
  BY <1>1, <1>2, <1>3, ConstantsAre DEF Directories
<1> QED BY <1>1, <1>2, <1>4, ConstantsAre DEF Tree, Vacant

-----------------------------------------------------------------------------
\* Where a path leads.

Spelt == Seq(Names \cup {Data, ".."})
Walks == [at : Entries, missing : BOOLEAN, status : Statuses]

\* After n names: on an entry that is used, a directory while names are left, or
\* in the directory where the last name is missing.
Reaches(r, path, n, w) ==
  /\ w \in Walks
  /\ ~Ok(r) => w.status # "ok"
  /\ w.missing => /\ n = Len(path) /\ n # 0 /\ path[n] # ".." /\ w.status # "ok" /\ Ok(r)
                  /\ Child(r.mem.entries, w.at, path[n]) = {}
  /\ Tree(r.mem.entries) =>
       /\ w.status = "ok" => r.mem.entries[w.at].kind # "free"
       /\ w.status = "ok" /\ n < Len(path) => r.mem.entries[w.at].kind = "directory"
       /\ w.missing => r.mem.entries[w.at].kind = "directory"

LEMMA StepReaches ==
  ASSUME NEW r \in Runs, NEW root \in Entries, NEW path \in Spelt, NEW n \in 1 .. Len(path), NEW w,
         Reaches(r, path, n - 1, w)
  PROVE  Reaches(r, path, n, WalkStep(r.mem.entries, root, w, path[n], n = Len(path)))
<1> DEFINE E == r.mem.entries
           name == path[n]
           found == Child(E, w.at, name)
           v == WalkStep(E, root, w, name, n = Len(path))
<1>1. E \in Directories /\ Len(path) \in Nat /\ n \in Nat /\ n - 1 \in Nat /\ n - 1 < Len(path)
      /\ n <= Len(path) /\ n # 0
  BY RunIs DEF Directories, Spelt
<1>2. w \in Walks /\ ~w.missing /\ w.at \in Entries
  BY <1>1 DEF Reaches, Walks
<1>3. /\ ~Ok(r) => w.status # "ok"
      /\ Tree(E) /\ w.status = "ok" => E[w.at].kind = "directory"
  BY <1>1 DEF Reaches
<1>4. CASE w.status # "ok"
  <2>1. v = w
    BY <1>4 DEF WalkStep
  <2> QED BY <1>2, <1>4, <2>1 DEF Reaches
<1>5. CASE w.status = "ok" /\ name = ".."
  <2>1. CASE w.at = root
    <3>1. v = [w EXCEPT !.status = "EACCES"]
      BY <1>5, <2>1 DEF WalkStep
    <3>2. v \in Walks /\ v.status = "EACCES" /\ ~v.missing
      BY <1>2, <3>1 DEF Walks, Statuses
    <3> HIDE DEF v
    <3>3. Reaches(r, path, n, v)
      BY <3>2 DEF Reaches
    <3> QED BY <3>3 DEF v
  <2>2. CASE w.at # root
    <3>1. v = [w EXCEPT !.at = E[w.at].parent]
      BY <1>5, <2>2 DEF WalkStep
    <3>2. E[w.at].parent \in Entries
      BY <1>1, <1>2, EntryIs DEF Directories
    <3>3. v \in Walks /\ v.status = "ok" /\ ~v.missing /\ v.at = E[w.at].parent
      BY <1>2, <1>5, <3>1, <3>2 DEF Walks
    <3>4. Tree(E) => E[v.at].kind = "directory"
      BY <1>1, <1>2, <1>3, <1>5, <3>3, TreeIs
    <3> HIDE DEF v
    <3>5. Reaches(r, path, n, v)
      BY <1>3, <1>5, <3>3, <3>4 DEF Reaches
    <3> QED BY <3>5 DEF v
  <2> QED BY <2>1, <2>2
<1>6. CASE w.status = "ok" /\ name # ".." /\ found = {}
  <2>1. v = [w EXCEPT !.status = "ENOENT", !.missing = (n = Len(path))]
    BY <1>6 DEF WalkStep
  <2>2. v \in Walks /\ v.status = "ENOENT" /\ (v.missing <=> n = Len(path)) /\ v.at = w.at
    BY <1>2, <2>1 DEF Walks, Statuses
  <2> HIDE DEF v
  <2>3. Reaches(r, path, n, v)
    BY <1>1, <1>3, <1>6, <2>2 DEF Reaches
  <2> QED BY <2>3 DEF v
<1>7. CASE w.status = "ok" /\ name # ".." /\ found # {}
  <2> DEFINE next == Min(found)
  <2>1. next \in found /\ next \in Entries /\ E[next].kind # "free"
    <3>1. found \in SUBSET Nat
      BY ConstantsAre DEF Child
    <3>2. Min(found) \in found
      BY <1>7, <3>1, LeastOf
    <3> QED BY <3>2 DEF Child
  <2>2. CASE n # Len(path) /\ E[next].kind # "directory"
    <3>1. v = [w EXCEPT !.status = "ENOTDIR"]
      BY <1>7, <2>2 DEF WalkStep
    <3>2. v \in Walks /\ v.status = "ENOTDIR" /\ ~v.missing
      BY <1>2, <3>1 DEF Walks, Statuses
    <3> HIDE DEF v
    <3>3. Reaches(r, path, n, v)
      BY <3>2 DEF Reaches
    <3> QED BY <3>3 DEF v
  <2>3. CASE ~(n # Len(path) /\ E[next].kind # "directory")
    <3>1. v = [w EXCEPT !.at = next]
      BY <1>7, <2>3 DEF WalkStep
    <3> HIDE DEF next
    <3>2. v \in Walks /\ v.status = "ok" /\ ~v.missing /\ v.at = next
      BY <1>2, <1>7, <2>1, <3>1 DEF Walks
    <3> HIDE DEF v
    <3>3. n < Len(path) => E[v.at].kind = "directory"
      BY <1>1, <2>3, <3>2
    <3>4. Reaches(r, path, n, v)
      BY <1>3, <1>7, <2>1, <3>2, <3>3 DEF Reaches
    <3> QED BY <3>4 DEF v
  <2> QED BY <2>2, <2>3
<1> QED BY <1>4, <1>5, <1>6, <1>7

LEMMA StartReaches ==
  ASSUME NEW r \in Runs, NEW root \in Entries, NEW path \in Spelt
  PROVE  Reaches(r, path, 0, WalkStart(r, root, path))
<1> DEFINE w == WalkStart(r, root, path)
<1>1. w \in Walks /\ ~w.missing /\ w.at = root
  BY RunIs DEF WalkStart, Walks, Statuses
<1>2. w.status = "ok" => r.mem.entries[root].kind = "directory" /\ Ok(r)
  BY DEF WalkStart, Ok
<1> HIDE DEF w
<1>3. Reaches(r, path, 0, w)
  BY <1>1, <1>2 DEF Reaches
<1> QED BY <1>3 DEF w

LEMMA WalkIs ==
  ASSUME NEW r \in Runs, NEW root \in Entries, NEW path \in Spelt
  PROVE  Reaches(r, path, Len(path), Walk(r, root, path))
<1> DEFINE N == Len(path)
           T == Walks
           a == WalkStart(r, root, path)
           Step(w, n) == WalkStep(r.mem.entries, root, w, path[n], n = N)
           F == [v \in T \X Nat |-> Step(v[1], v[2] + 1)]
           Is(x) == x = [n \in 0 .. N |-> IF n = 0 THEN a ELSE Step(x[n - 1], n)]
           c == CHOOSE x : Is(x)
<1>1. N \in Nat
  BY DEF Spelt
<1>2. a \in T
  BY StartReaches DEF Reaches
<1>3. ASSUME NEW w \in T, NEW n \in Nat PROVE Step(w, n) \in T
  <2>1. w.at \in Entries /\ w.status \in Statuses /\ w.missing \in BOOLEAN
    BY DEF Walks
  <2>2. r.mem.entries[w.at].parent \in Entries
    BY <2>1, RunIs, EntryIs
  <2>3. Child(r.mem.entries, w.at, path[n]) # {} =>
          Min(Child(r.mem.entries, w.at, path[n])) \in Entries
    <3>1. Child(r.mem.entries, w.at, path[n]) \in SUBSET Nat
          /\ Child(r.mem.entries, w.at, path[n]) \in SUBSET Entries
      BY ConstantsAre DEF Child
    <3> QED BY <3>1, LeastOf
  <2>4. (n = N) \in BOOLEAN
    OBVIOUS
  <2> QED BY <2>1, <2>2, <2>3, <2>4 DEF WalkStep, Walks, Statuses
<1>4. Walk(r, root, path) = c[N]
  BY DEF Walk
<1> HIDE DEF N, T, a, Step
<1>5. F \in [T \X Nat -> T] /\ \A w \in T, n \in Nat : F[<<w, n>>] = Step(w, n + 1)
  BY <1>3
<1> HIDE DEF F
<1>6. PICK x : Repeats(T, F, a, N, x)
  BY <1>1, <1>2, <1>5, IterationExists
<1>7. Is(x)
  <2>1. ASSUME NEW n \in 0 .. N PROVE x[n] = IF n = 0 THEN a ELSE Step(x[n - 1], n)
    <3>1. CASE n = 0
      BY <1>6, <3>1 DEF Repeats
    <3>2. CASE n # 0
      <4>1. n \in 1 .. N /\ n - 1 \in 0 .. N /\ n - 1 \in Nat /\ (n - 1) + 1 = n
        BY <1>1, <3>2
      <4> QED BY <1>5, <1>6, <3>2, <4>1 DEF Repeats
    <3> QED BY <3>1, <3>2
  <2> QED BY <1>6, <2>1 DEF Repeats
<1>8. Is(c)
  BY <1>7
<1> HIDE DEF c
<1>9. c[0] = a /\ \A n \in 1 .. N : c[n] = Step(c[n - 1], n)
  <2>1. 0 \in 0 .. N /\ \A n \in 1 .. N : n \in 0 .. N /\ n # 0
    BY <1>1
  <2> QED BY <1>8, <2>1
<1>10. \A n \in 0 .. N : Reaches(r, path, n, c[n])
  <2> DEFINE Bad == {n \in 0 .. N : ~Reaches(r, path, n, c[n])}
  <2>1. SUFFICES ASSUME Bad # {} PROVE FALSE
    OBVIOUS
  <2>2. Bad \subseteq Nat
    OBVIOUS
  <2>3. PICK n \in Bad : \A m \in Bad : n <= m
    BY <2>1, <2>2, LeastMember
  <2>4. n # 0
    BY <1>9, <2>3, StartReaches DEF a
  <2>5. n - 1 \in 0 .. N /\ n \in 1 .. N /\ Reaches(r, path, n - 1, c[n - 1])
    <3>1. n \in 0 .. N
      OBVIOUS
    <3>2. n - 1 \in 0 .. N /\ n \in 1 .. N /\ ~(n <= n - 1)
      BY <1>1, <2>4, <3>1
    <3>3. n - 1 \notin Bad
      BY <2>3, <3>2
    <3> QED BY <3>2, <3>3
  <2>6. c[n] = Step(c[n - 1], n) /\ Reaches(r, path, n - 1, c[n - 1])
    BY <1>9, <2>5
  <2>7. Reaches(r, path, n, c[n])
    BY <2>5, <2>6, StepReaches DEF Step, N
  <2> QED BY <2>3, <2>7
<1> QED BY <1>1, <1>4, <1>10 DEF N

-----------------------------------------------------------------------------
\* Requests on names.

\* An entry of the same blocks in a tree that stays one.
LEMMA PutServes ==
  ASSUME NEW r \in Running, Ok(r), NEW e \in Entries, NEW x \in EntryType, NEW u,
         Changed(r, e, x, r.mem.used, u),
         Good(r.mem, r.disk) => /\ x.blocks = r.mem.entries[e].blocks
                                /\ Tree(u.mem.entries) /\ Vacant(u.mem.entries)
  PROVE  Serves(r, FlushEntry(u, e)) /\ Leaves(r, FlushEntry(u, e))
<1> DEFINE q == FlushEntry(u, e)
<1>1. /\ u \in Running /\ Ok(u) /\ u.disk = r.disk /\ u.stop = r.stop /\ u.mem.mounted
      /\ u.mem.used = r.mem.used /\ r.mem.mounted /\ u.mem.entries[e] = x
      /\ \A y \in Entries : y # e => u.mem.entries[y] = r.mem.entries[y]
  BY DEF Changed, Goes, Ok, Running
<1>2. /\ Goes(u, q) /\ q.mem = u.mem
      /\ Sound(u.mem, u.disk) => Sound(u.mem, q.disk)
  BY <1>1, EntryKept
<1>3. /\ q.disk.used = u.disk.used /\ q.disk.formatted = u.disk.formatted
      /\ (\A y \in Entries : y # e => u.disk.entries[y] = u.mem.entries[y]) =>
              /\ q.disk.entries \in {u.disk.entries, u.mem.entries}
              /\ u.stop = Whole => q.disk.entries = u.mem.entries
  BY <1>1, EntryOnDisk
<1> HIDE DEF q
<1>4. q \in Runs /\ q.mem.mounted
  BY <1>2 DEF Goes, Running
<1>5. ASSUME Good(r.mem, r.disk)
      PROVE  /\ Sound(q.mem, q.disk)
             /\ Uses(r.mem.entries, r.mem.used) => Uses(q.mem.entries, q.mem.used)
  <2>1. \A y \in Entries : u.mem.entries[y].blocks = r.mem.entries[y].blocks
    BY <1>1, <1>5
  <2>2. /\ Sound(r.mem, r.disk) => Sound(u.mem, r.disk)
        /\ Uses(r.mem.entries, r.mem.used) => Uses(u.mem.entries, u.mem.used)
    BY <1>1, <2>1, SameBlocks
  <2> QED BY <1>1, <1>2, <1>5, <2>2 DEF Good
<1>6. Good(r.mem, r.disk) => Good(q.mem, q.disk)
  BY <1>2, <1>4, <1>5 DEF Good, Met
<1>7. ASSUME Good(r.mem, r.disk), Exact(r.mem, r.disk), r.stop = Whole PROVE Exact(q.mem, q.disk)
  <2>1. /\ r.mem.used = r.disk.used /\ r.mem.entries = r.disk.entries
        /\ Uses(r.mem.entries, r.mem.used)
    BY <1>1, <1>7 DEF Exact
  <2>2. q.disk.entries = q.mem.entries
    BY <1>1, <1>2, <1>3, <1>7, <2>1
  <2> QED BY <1>1, <1>2, <1>3, <1>4, <1>5, <1>7, <2>1, <2>2 DEF Exact
<1>8. ASSUME Good(r.mem, r.disk), ~Ahead(r.mem, r.disk)
      PROVE  Tree(Met(Unmounted, q.disk)) /\ Vacant(Met(Unmounted, q.disk))
  <2>1. r.mem.entries = r.disk.entries /\ Tree(r.mem.entries) /\ Vacant(r.mem.entries)
    BY <1>1, <1>8 DEF Ahead, Good, Met
  <2>2. q.disk.entries \in {r.mem.entries, u.mem.entries}
    BY <1>1, <1>3, <2>1
  <2>3. Met(Unmounted, q.disk) = q.disk.entries
    BY <1>4, <1>5, <1>8 DEF Met, Unmounted, Sound
  <2> QED BY <1>8, <2>1, <2>2, <2>3
<1>9. Serves(r, q) /\ Leaves(r, q)
  BY <1>4, <1>6, <1>7, <1>8 DEF Serves, Leaves
<1> QED BY <1>9 DEF q

\* A request that is refused by what it mounted.
LEMMA RefuseServes ==
  ASSUME NEW r \in Runs, Ok(r), NEW error \in Statuses
  PROVE  Serves(r, Refuse(Mount(r), error)) /\ Leaves(r, Refuse(Mount(r), error))
<1> DEFINE m == Mount(r)
<1>1. m \in Runs /\ (Ok(m) => m \in Running)
  BY MountIs
<1>2. CASE ~Ok(m)
  <2>1. Refuse(m, error) = m
    BY <1>2 DEF Refuse
  <2> QED BY <1>2, <2>1, MountServes
<1>3. CASE Ok(m)
  <2>1. m \in Running /\ m.mem.mounted
    BY <1>1, <1>3 DEF Running
  <2> HIDE DEF m
  <2>2. Keeps(m, Refuse(m, error))
    BY <1>1, <2>1, RefuseKeeps
  <2>3. Serves(m, Refuse(m, error)) /\ Leaves(m, Refuse(m, error))
    BY <2>1, <2>2, KeepsServes
  <2> QED BY <1>3, <2>3, MountServes DEF m
<1> QED BY <1>2, <1>3

LEMMA CreateServes ==
  ASSUME NEW r \in Runs, Ok(r), NEW root \in Entries, NEW kind \in {"file", "directory"},
         NEW path \in Spelt
  PROVE  Serves(r, Create(r, root, kind, path)) /\ Leaves(r, Create(r, root, kind, path))
<1> DEFINE m == Mount(r)
           w == Walk(m, root, path)
           free == {e \in Entries \ {0} : m.mem.entries[e].kind = "free"}
           f == Min(free)
           name == path[Len(path)]
           x == [Unset EXCEPT !.kind = kind, !.parent = w.at, !.name = name]
           u == [m EXCEPT !.mem.entries[f] = x]
<1>1. m \in Runs /\ (Ok(m) => m \in Running)
  BY MountIs
<1>2. Reaches(m, path, Len(path), w)
  BY <1>1, WalkIs
<1>3. w.at \in Entries /\ w.status \in Statuses
  BY <1>2 DEF Reaches, Walks
<1>4. CASE ~w.missing
  <2>1. Create(r, root, kind, path) = Refuse(m, w.status)
    BY <1>4 DEF Create
  <2> QED BY <1>3, <2>1, RefuseServes
<1>5. CASE w.missing /\ free = {}
  <2>1. Create(r, root, kind, path) = Refuse(m, "ENOSPC")
    BY <1>5 DEF Create
  <2> QED BY <2>1, RefuseServes DEF Statuses
<1>6. CASE w.missing /\ free # {}
  <2>1. Create(r, root, kind, path) = FlushEntry(u, f)
    BY <1>6 DEF Create
  <2>2. f \in free
    BY <1>6, ConstantsAre, LeastOf
  <2>3. f \in Entries \ {0} /\ m.mem.entries[f].kind = "free"
    BY <2>2
  <2> HIDE DEF f
  <2>4. /\ Ok(m) /\ m \in Running /\ name # ".." /\ Len(path) # 0
        /\ Child(m.mem.entries, w.at, name) = {}
        /\ Tree(m.mem.entries) => m.mem.entries[w.at].kind = "directory"
    BY <1>1, <1>2, <1>6 DEF Reaches
  <2>5. name \in Names \cup {Data}
    <3>1. Len(path) \in 1 .. Len(path) /\ path \in [1 .. Len(path) -> Names \cup {Data, ".."}]
      BY <2>4 DEF Spelt
    <3> QED BY <2>4, <3>1
  <2> HIDE DEF m, w, name
  <2>6. /\ x \in EntryType /\ x.kind = kind /\ x.parent = w.at /\ x.name = name
        /\ x.blocks = Unset.blocks
    <3>1. Unset \in EntryType
      BY ConstantsAre DEF Unset, EntryType
    <3> QED BY <1>3, <2>5, <3>1 DEF EntryType
  <2> HIDE DEF x
  <2>7. Changed(m, f, x, m.mem.used, u)
    BY <2>3, <2>4, <2>6, ChangedIs
  <2> HIDE DEF u
  <2>8. u \in Runs /\ u.mem.entries \in Directories /\ m.mem.entries \in Directories
    BY <1>1, <2>7, RunIs DEF Changed, Running, Directories
  <2>9. ASSUME Good(m.mem, m.disk)
        PROVE  /\ x.blocks = m.mem.entries[f].blocks
               /\ Tree(u.mem.entries) /\ Vacant(u.mem.entries)
    <3>1. Tree(m.mem.entries) /\ Vacant(m.mem.entries)
      BY <2>4, <2>9 DEF Good, Met, Running
    <3>2. x.blocks = m.mem.entries[f].blocks
      BY <2>3, <2>6, <3>1 DEF Vacant
    <3>3. /\ u.mem.entries[f] = x
          /\ \A y \in Entries : y # f => u.mem.entries[y] = m.mem.entries[y]
      BY <2>7 DEF Changed
    <3>4. x.kind # "free"
      BY <2>6
    <3>5. Tree(u.mem.entries) /\ Vacant(u.mem.entries)
      BY <2>3, <2>4, <2>6, <2>8, <3>1, <3>3, <3>4, TreeGrows
    <3> QED BY <3>2, <3>5
  <2>10. Serves(m, FlushEntry(u, f)) /\ Leaves(m, FlushEntry(u, f))
    BY <2>3, <2>4, <2>6, <2>7, <2>9, PutServes
  <2> QED BY <2>1, <2>4, <2>10, MountServes DEF m
<1> QED BY <1>4, <1>5, <1>6

Renamed(r, e, name, d) ==
  [r EXCEPT !.mem.entries[e].name = name, !.mem.entries[e].parent = d]
Placed(old, name, d) == [old EXCEPT !.name = name, !.parent = d]

LEMMA RenamedIs ==
  ASSUME NEW r \in Running, NEW e \in Entries, NEW name \in Names \cup {Data}, NEW d \in Entries
  PROVE  Changed(r, e, Placed(r.mem.entries[e], name, d), r.mem.used, Renamed(r, e, name, d))
<1> DEFINE old == r.mem.entries[e]
           one == [old EXCEPT !.name = name]
           A == [r.mem.entries EXCEPT ![e] = one]
           m == [r.mem EXCEPT !.entries = A]
           u == [r EXCEPT !.mem = m]
           x == Placed(old, name, d)
           v == [r EXCEPT !.mem.entries[e] = x]
<1>1. r \in Runs /\ old \in EntryType /\ r.mem.entries \in [Entries -> EntryType]
  BY RunIs DEF Running
<1>2. [r EXCEPT !.mem.entries[e].name = name] = u
  BY <1>1 DEF Runs, Memories
<1>3. u.mem = m /\ m.entries = A /\ A[e] = one /\ DOMAIN A = Entries
  BY <1>1 DEF Runs, Memories
<1>4. [u EXCEPT !.mem.entries[e].parent = d] =
        [u EXCEPT !.mem = [m EXCEPT !.entries = [A EXCEPT ![e] = [one EXCEPT !.parent = d]]]]
  BY <1>3
<1>5. [A EXCEPT ![e] = [one EXCEPT !.parent = d]] = [r.mem.entries EXCEPT ![e] = x]
  BY <1>1 DEF EntryType, Placed
<1>6. Renamed(r, e, name, d) = v
  BY <1>1, <1>2, <1>4, <1>5 DEF Runs, Memories, Renamed
<1>7. x \in EntryType
  BY <1>1 DEF EntryType, Placed
<1> HIDE DEF x
<1>8. Changed(r, e, x, r.mem.used, v)
  BY <1>7, ChangedIs
<1> QED BY <1>6, <1>8 DEF x

LEMMA RenameServes ==
  ASSUME NEW r \in Runs, Ok(r), NEW root \in Entries, NEW old \in Spelt, NEW directory \in Spelt,
         NEW name \in Names \cup {Data}
  PROVE  /\ Serves(r, Rename(r, root, old, directory, name))
         /\ Leaves(r, Rename(r, root, old, directory, name))
<1> DEFINE m == Mount(r)
           w == Walk(m, root, old)
           d == Walk(m, root, directory)
           before == m.mem.entries[w.at]
           x == Placed(before, name, d.at)
           u == Renamed(m, w.at, name, d.at)
           q == Rename(r, root, old, directory, name)
           refused == \E error \in Statuses : q = Refuse(m, error)
<1>1. m \in Runs /\ (Ok(m) => m \in Running)
  BY MountIs
<1>2. Reaches(m, old, Len(old), w) /\ Reaches(m, directory, Len(directory), d)
  BY <1>1, WalkIs
<1>3. w.at \in Entries /\ w.status \in Statuses /\ d.at \in Entries /\ d.status \in Statuses
  BY <1>2 DEF Reaches, Walks
<1>4. CASE refused
  BY <1>4, RefuseServes
<1>5. CASE ~refused
  <2>1. {"EACCES", "ENOTDIR", "EINVAL", "EEXIST"} \subseteq Statuses
    BY DEF Statuses
  <2>2. /\ w.status = "ok" /\ ~Protected(root, w.at) /\ d.status = "ok"
        /\ m.mem.entries[d.at].kind = "directory" /\ w.at \notin Above(m.mem.entries, d.at)
        /\ Child(m.mem.entries, d.at, name) = {}
        /\ q = FlushEntry(Renamed(m, w.at, name, d.at), w.at)
    <3> HIDE DEF m, w, d
    <3> QED BY <1>3, <1>5, <2>1 DEF Rename, Renamed, m, w, d
  <2>3. Ok(m) /\ m \in Running /\ w.at \in Entries \ {0}
        /\ (Tree(m.mem.entries) => before.kind # "free")
    BY <1>1, <1>2, <1>3, <2>2 DEF Reaches, Protected
  <2> HIDE DEF m, w, d, q
  <2>4. q = FlushEntry(u, w.at) /\ before \in EntryType
    BY <1>1, <1>3, <2>2, RunIs
  <2>5. /\ x \in EntryType /\ x.kind = before.kind /\ x.parent = d.at /\ x.name = name
        /\ x.blocks = before.blocks
    BY <1>3, <2>4 DEF EntryType, Placed
  <2>6. Changed(m, w.at, x, m.mem.used, u)
    BY <1>3, <2>3, RenamedIs
  <2> HIDE DEF x
  <2> HIDE DEF u
  <2>7. u.mem.entries \in Directories /\ m.mem.entries \in Directories
    BY <1>1, <2>6, RunIs DEF Changed, Running, Directories
  <2>8. ASSUME Good(m.mem, m.disk)
        PROVE  Tree(u.mem.entries) /\ Vacant(u.mem.entries)
    <3>1. Tree(m.mem.entries) /\ Vacant(m.mem.entries)
      BY <2>3, <2>8 DEF Good, Met, Running
    <3>2. /\ u.mem.entries[w.at] = x
          /\ \A y \in Entries : y # w.at => u.mem.entries[y] = m.mem.entries[y]
      BY <2>6 DEF Changed
    <3> QED BY <2>2, <2>3, <2>5, <2>7, <3>1, <3>2, TreeMoves
  <2>9. Serves(m, q) /\ Leaves(m, q)
    BY <2>3, <2>4, <2>5, <2>6, <2>8, PutServes
  <2>10. Serves(r, q) /\ Leaves(r, q)
    BY <2>3, <2>9, MountServes DEF m
  <2> QED BY <2>10 DEF q
<1> QED BY <1>4, <1>5

\* A removal that runs to its end; one that stops leaves a run, and no more is promised.
LEMMA UnlinkServes ==
  ASSUME NEW r \in Runs, Ok(r), NEW root \in Entries, NEW path \in Spelt
  PROVE  /\ Unlink(r, root, path) \in Runs
         /\ r.stop = Whole => Serves(r, Unlink(r, root, path))
<1> DEFINE m == Mount(r)
           w == Walk(m, root, path)
           e == w.at
           released == ReleaseBlocks(m, e, 0)
           u == [released EXCEPT !.mem.entries[e] = Unset]
           q == Unlink(r, root, path)
           refused == \E error \in Statuses : q = Refuse(m, error)
<1>1. m \in Runs /\ (Ok(m) => m \in Running) /\ m.stop = r.stop
  BY MountIs
<1>2. Reaches(m, path, Len(path), w)
  BY <1>1, WalkIs
<1>3. e \in Entries /\ w.status \in Statuses
  BY <1>2 DEF Reaches, Walks
<1>4. CASE refused
  BY <1>4, RefuseServes DEF Serves
<1>5. CASE ~refused
  <2>1. {"EACCES", "ENOTEMPTY"} \subseteq Statuses
    BY DEF Statuses
  <2>2. /\ w.status = "ok" /\ ~Protected(root, e)
        /\ m.mem.entries[e].kind = "directory" => ~HasChildren(m.mem.entries, e)
        /\ q = IF ~Ok(released) THEN released ELSE FlushEntry(u, e)
    <3> HIDE DEF m, w
    <3> QED BY <1>3, <1>5, <2>1 DEF Unlink, m, w
  <2>3. Ok(m) /\ m \in Running /\ e \in Entries \ {0}
        /\ (Tree(m.mem.entries) => m.mem.entries[e].kind # "free")
    BY <1>1, <1>2, <1>3, <2>2 DEF Reaches, Protected
  <2> HIDE DEF m, w, q
  <2>4. /\ Goes(m, released)
        /\ m.mem.entries[e].kind # "free" =>
              /\ SameNames(m.mem.entries, released.mem.entries)
              /\ m.stop = Whole => Keeps(m, released)
        /\ m.stop = Whole => Ok(released)
        /\ m.stop = Whole => \A s \in Slots : released.mem.entries[e].blocks[s] = NoBlock
    BY <2>3, ReleaseIs
  <2> HIDE DEF released
  <2>5. CASE ~Ok(released)
    <3>1. q = released /\ q \in Runs /\ m.stop # Whole
      BY <2>2, <2>4, <2>5 DEF Goes, Running
    <3> QED BY <1>1, <3>1 DEF q
  <2>6. CASE Ok(released)
    <3>1. q = FlushEntry(u, e) /\ released \in Running /\ released \in Runs
          /\ released.stop = m.stop /\ released.mem.entries \in Directories
      BY <2>2, <2>4, <2>6, RunIs DEF Goes, Running, Directories
    <3>2. Unset \in EntryType /\ Unset.kind = "free"
      BY ConstantsAre DEF Unset, EntryType
    <3>3. Changed(released, e, Unset, released.mem.used, u)
      BY <2>3, <3>1, <3>2, ChangedIs
    <3> HIDE DEF u
    <3>4. u \in Running /\ u \in Runs /\ Ok(u) /\ u.mem.entries \in Directories
          /\ u.mem.entries[e] = Unset
          /\ \A y \in Entries : y # e => u.mem.entries[y] = released.mem.entries[y]
      BY <2>6, <3>3, RunIs DEF Changed, Running, Directories, Ok
    <3>5. q \in Runs
      BY <2>3, <3>1, <3>4, EntryFlushed
    <3>6. ASSUME r.stop = Whole PROVE Serves(m, q)
      <4>1. CASE ~Good(m.mem, m.disk)
        BY <3>5, <4>1 DEF Serves
      <4>2. CASE Good(m.mem, m.disk)
        <5>1. Tree(m.mem.entries) /\ Vacant(m.mem.entries) /\ m.mem.entries[e].kind # "free"
          BY <2>3, <4>2 DEF Good, Met, Running
        <5>2. Keeps(m, released) /\ SameNames(m.mem.entries, released.mem.entries)
          BY <1>1, <2>4, <3>6, <5>1
        <5>3. Tree(released.mem.entries) /\ Vacant(released.mem.entries)
          BY <3>1, <5>1, <5>2, NamesKeep
        <5>4. released.mem.entries[e].kind = "directory" =>
                ~HasChildren(released.mem.entries, e)
          BY <2>2, <2>3, <5>2 DEF SameNames, HasChildren
        <5>5. Tree(u.mem.entries) /\ Vacant(u.mem.entries)
          BY <2>3, <3>1, <3>4, <5>3, <5>4, TreeShrinks
        <5>6. Unset.blocks = released.mem.entries[e].blocks
          <6>1. released.mem.entries[e].blocks \in [Slots -> Blocks \cup {NoBlock}]
            BY <2>3, <3>1, EntryIs DEF Directories
          <6>2. \A s \in Slots : released.mem.entries[e].blocks[s] = NoBlock
            BY <1>1, <2>4, <3>6
          <6> QED BY <6>1, <6>2 DEF Unset
        <5>7. Serves(released, q)
          BY <2>3, <2>6, <3>1, <3>2, <3>3, <5>5, <5>6, PutServes
        <5>8. Serves(m, released)
          BY <2>3, <5>2, KeepsServes
        <5> QED BY <3>1, <5>7, <5>8 DEF Serves
      <4> QED BY <4>1, <4>2
    <3>7. r.stop = Whole => Serves(r, q)
      BY <2>3, <3>6, MountServes DEF m
    <3> QED BY <3>5, <3>7 DEF q
  <2> QED BY <2>5, <2>6
<1> QED BY <1>4, <1>5

-----------------------------------------------------------------------------
\* Format writes every sector of the directory, each by its first entry.

LEMMA SectorsAre ==
  /\ \A e, y \in Entries : y \in SectorOf(e) => SectorOf(y) = SectorOf(e)
  /\ \A e \in Entries : e \in SectorOf(e) /\ Min(SectorOf(e)) \in SectorOf(e)
                        /\ SectorOf(e) \in SUBSET Entries
<1>1. \A e \in Entries : e \in SectorOf(e) /\ SectorOf(e) \in SUBSET Entries
  BY DEF SectorOf
<1>2. \A e \in Entries : SectorOf(e) \in SUBSET Nat /\ SectorOf(e) # {}
  BY <1>1, ConstantsAre
<1>3. \A e \in Entries : Min(SectorOf(e)) \in SectorOf(e)
  BY <1>2, LeastOf
<1> QED BY <1>1, <1>3 DEF SectorOf

\* From one run to another that only writes the directory; Whole, all of it is written.
Writes(r, q) ==
  /\ q \in Runs /\ q.mem = r.mem /\ q.stop = r.stop
  /\ r.stop = Whole /\ Ok(r) =>
       Ok(q) /\ q.disk.used = r.disk.used /\ q.disk.formatted = r.disk.formatted

LEMMA SectorFlushed ==
  ASSUME NEW r \in Runs, NEW e \in Entries
  PROVE  /\ Writes(r, FlushSector(r, e))
         /\ r.stop = Whole /\ Ok(r) => \A y \in Entries :
              FlushSector(r, e).disk.entries[y] =
                IF e = Min(SectorOf(e)) /\ y \in SectorOf(e) THEN r.mem.entries[y]
                ELSE r.disk.entries[y]
<1>1. CASE ~Ok(r) \/ e # Min(SectorOf(e))
  <2>1. FlushSector(r, e) = r
    BY <1>1 DEF FlushSector, FlushEntry
  <2> QED BY <1>1, <2>1 DEF Writes
<1>2. CASE Ok(r) /\ e = Min(SectorOf(e))
  <2> DEFINE q == FlushEntry(r, e)
  <2>1. FlushSector(r, e) = q
    BY <1>2 DEF FlushSector
  <2>2. /\ q \in Runs /\ q.mem = r.mem /\ q.stop = r.stop /\ (r.stop = Whole => Ok(q))
        /\ \/ q.disk = r.disk /\ ~Ok(q)
           \/ /\ q.disk.formatted = r.disk.formatted
              /\ q.disk.used = r.disk.used
              /\ \A y \in Entries : q.disk.entries[y] =
                   IF y \in SectorOf(e) THEN r.mem.entries[y] ELSE r.disk.entries[y]
    BY <1>2, EntryFlushed
  <2> HIDE DEF q
  <2> QED BY <1>2, <2>1, <2>2 DEF Writes
<1> QED BY <1>1, <1>2

LEMMA FlushAllIs ==
  ASSUME NEW r \in Runs
  PROVE  /\ Writes(r, FlushAll(r))
         /\ r.stop = Whole /\ Ok(r) => FlushAll(r).disk.entries = r.mem.entries
<1> DEFINE N == Cardinality(Entries)
           T == {q \in Runs : Writes(r, q)}
           F == [v \in T \X Nat |-> IF v[2] \in Entries THEN FlushSector(v[1], v[2]) ELSE v[1]]
           Is(x) == x = [n \in 0 .. N |-> IF n = 0 THEN r ELSE FlushSector(x[n - 1], n - 1)]
           c == CHOOSE x : Is(x)
<1>1. N \in Nat /\ Entries = 0 .. N - 1
  BY ConstantsAre
<1>2. r \in T
  BY DEF Writes
<1>3. ASSUME NEW q \in T, NEW e \in Entries PROVE FlushSector(q, e) \in T
  <2>1. Writes(q, FlushSector(q, e)) /\ Writes(r, q)
    BY SectorFlushed
  <2> QED BY <2>1 DEF Writes
<1>4. FlushAll(r) = c[N]
  BY DEF FlushAll
<1>5. \A q \in T : q \in Runs /\ Writes(r, q)
  OBVIOUS
<1> HIDE DEF N, T
<1>6. F \in [T \X Nat -> T] /\ \A q \in T, e \in Nat : e \in Entries => F[<<q, e>>] = FlushSector(q, e)
  BY <1>3
<1> HIDE DEF F
<1>7. PICK x : Repeats(T, F, r, N, x)
  BY <1>1, <1>2, <1>6, IterationExists
<1>8. \A n \in 1 .. N : n \in 0 .. N /\ n # 0 /\ n - 1 \in 0 .. N /\ n - 1 \in Nat /\ n - 1 \in Entries
  BY <1>1
<1>9. Is(x)
  <2>1. ASSUME NEW n \in 0 .. N PROVE x[n] = IF n = 0 THEN r ELSE FlushSector(x[n - 1], n - 1)
    <3>1. CASE n = 0
      BY <1>7, <3>1 DEF Repeats
    <3>2. CASE n # 0
      <4>1. n \in 1 .. N
        BY <1>1, <3>2
      <4> QED BY <1>6, <1>7, <1>8, <3>2, <4>1 DEF Repeats
    <3> QED BY <3>1, <3>2
  <2> QED BY <1>7, <2>1 DEF Repeats
<1>10. Is(c)
  BY <1>9
<1> HIDE DEF c
<1>11. c[0] = r /\ \A n \in 1 .. N : c[n] = FlushSector(c[n - 1], n - 1)
  <2>1. 0 \in 0 .. N
    BY <1>1
  <2> QED BY <1>8, <1>10, <2>1
<1>12. \A n \in 1 .. N : c[n - 1] \in T => c[n] = F[<<c[n - 1], n - 1>>]
  BY <1>6, <1>8, <1>11
<1>13. \A n \in 0 .. N : c[n] \in T
  <2> HIDE DEF Is
  <2> QED BY <1>1, <1>2, <1>6, <1>11, <1>12, IterationFollows
<1>14. N \in 0 .. N
  BY <1>1
<1>15. ASSUME r.stop = Whole, Ok(r)
       PROVE  \A n \in 0 .. N : \A y \in Entries :
                Min(SectorOf(y)) < n => c[n].disk.entries[y] = r.mem.entries[y]
  <2> DEFINE Done(n) == \A y \in Entries :
                          Min(SectorOf(y)) < n => c[n].disk.entries[y] = r.mem.entries[y]
             Bad == {n \in 0 .. N : ~Done(n)}
  <2>1. SUFFICES ASSUME Bad # {} PROVE FALSE
    OBVIOUS
  <2>2. Bad \subseteq Nat
    OBVIOUS
  <2>3. PICK n \in Bad : \A m \in Bad : n <= m
    BY <2>1, <2>2, LeastMember
  <2>4. n \in 0 .. N /\ ~Done(n)
    OBVIOUS
  <2>5. \A y \in Entries : Min(SectorOf(y)) \in Nat
    BY SectorsAre, ConstantsAre
  <2>6. n # 0
    BY <2>4, <2>5
  <2>7. n - 1 \in 0 .. N /\ n \in 1 .. N /\ ~(n <= n - 1)
    BY <1>1, <2>4, <2>6
  <2>8. Done(n - 1)
    BY <2>3, <2>7
  <2> HIDE DEF Bad
  <2>9. c[n] = FlushSector(c[n - 1], n - 1) /\ c[n - 1] \in T /\ n - 1 \in Entries
    BY <1>8, <1>11, <1>13, <2>7
  <2> DEFINE q == c[n - 1]
             e == n - 1
             p == c[n]
  <2>10. q \in Runs /\ q.mem = r.mem /\ q.stop = Whole /\ Ok(q)
    BY <1>5, <1>15, <2>9 DEF Writes
  <2>11. p = FlushSector(q, e) /\ e \in Entries
    BY <2>9
  <2>12. \A y \in Entries : Min(SectorOf(y)) < n => Min(SectorOf(y)) < e \/ Min(SectorOf(y)) = e
    BY <2>5, <2>7
  <2>13. \A y \in Entries : Min(SectorOf(y)) < e => q.disk.entries[y] = r.mem.entries[y]
    BY <2>8
  <2> HIDE DEF q, e, p
  <2>14. \A y \in Entries : p.disk.entries[y] =
           IF e = Min(SectorOf(e)) /\ y \in SectorOf(e) THEN q.mem.entries[y] ELSE q.disk.entries[y]
    BY <2>10, <2>11, SectorFlushed
  <2>15. ASSUME NEW y \in Entries, Min(SectorOf(y)) < n PROVE p.disk.entries[y] = r.mem.entries[y]
    <3>1. CASE Min(SectorOf(y)) = e
      <4>1. SectorOf(e) = SectorOf(y) /\ y \in SectorOf(y)
        BY <2>11, <3>1, SectorsAre
      <4> QED BY <2>10, <2>14, <3>1, <4>1
    <3>2. CASE Min(SectorOf(y)) < e
      BY <2>10, <2>13, <2>14, <3>2
    <3> QED BY <2>12, <2>15, <3>1, <3>2
  <2> QED BY <2>4, <2>15 DEF p
<1>16. ASSUME r.stop = Whole, Ok(r) PROVE c[N].disk.entries = r.mem.entries
  <2>1. c[N] \in Runs
    BY <1>5, <1>13, <1>14
  <2>2. ASSUME NEW y \in Entries PROVE c[N].disk.entries[y] = r.mem.entries[y]
    <3>1. Min(SectorOf(y)) \in Entries
      BY SectorsAre
    <3>2. Min(SectorOf(y)) < N
      BY <1>1, <3>1
    <3> QED BY <1>14, <1>15, <1>16, <3>2
  <2> QED BY <2>1, <2>2, RunIs
<1> QED BY <1>4, <1>5, <1>13, <1>14, <1>16

LEMMA FormatServes ==
  ASSUME NEW r \in Runs, Ok(r)
  PROVE  /\ Format(r) \in Runs
         /\ r.stop = Whole =>
              Good(Format(r).mem, Format(r).disk) /\ Exact(Format(r).mem, Format(r).disk)
<1> DEFINE m == [r.mem EXCEPT !.used = {}]
           u == [r EXCEPT !.mem = m]
           cleared == FlushSuperblock(u)
           n == [cleared.mem EXCEPT !.entries = EmptyDirectory]
           v == [cleared EXCEPT !.mem = n]
           emptied == IF Ok(cleared) THEN v ELSE cleared
           flushed == FlushAll(emptied)
           l == [flushed.mem EXCEPT !.mounted = TRUE]
           q == [flushed EXCEPT !.mem = l]
           f == Format(r)
<1>1. m \in Memories /\ m.used = {}
  BY RunIs DEF Memories
<1>2. [r EXCEPT !.mem.used = {}] = u
  BY DEF Runs
<1>3. [cleared EXCEPT !.mem.entries = EmptyDirectory] = v
  OBVIOUS
<1>4. [flushed EXCEPT !.mem.mounted = TRUE] = q
  OBVIOUS
<1>5. f = IF Ok(flushed) THEN q ELSE flushed
  BY <1>2, <1>3, <1>4 DEF Format
<1> HIDE DEF m
<1>6. u \in Runs /\ u.mem = m /\ u.stop = r.stop /\ Ok(u)
  BY <1>1 DEF Runs, Ok
<1> HIDE DEF u
<1>7. /\ cleared \in Runs /\ cleared.mem = m /\ cleared.stop = r.stop
      /\ r.stop = Whole => Ok(cleared)
      /\ Ok(cleared) => cleared.disk.formatted /\ cleared.disk.used = {}
  BY <1>1, <1>6, SuperblockFlushed
<1> HIDE DEF cleared
<1>8. n \in Memories /\ n.used = {} /\ n.entries = EmptyDirectory
  BY <1>1, <1>7, EmptyIsTree DEF Memories
<1> HIDE DEF n
<1>9. /\ v \in Runs /\ v.mem = n /\ v.stop = r.stop /\ v.disk = cleared.disk
      /\ v.status = cleared.status
  BY <1>7, <1>8 DEF Runs
<1> HIDE DEF v
<1>10. /\ emptied \in Runs /\ emptied.stop = r.stop
       /\ r.stop = Whole => /\ Ok(emptied) /\ emptied.mem = n
                            /\ emptied.disk.formatted /\ emptied.disk.used = {}
  BY <1>7, <1>9 DEF Ok
<1> HIDE DEF emptied
<1>11. /\ flushed \in Runs /\ flushed.mem = emptied.mem
       /\ r.stop = Whole => /\ Ok(flushed) /\ flushed.disk.formatted /\ flushed.disk.used = {}
                            /\ flushed.disk.entries = emptied.mem.entries
  BY <1>10, FlushAllIs DEF Writes
<1> HIDE DEF flushed
<1>12. l \in Memories /\ l.mounted /\ l.used = flushed.mem.used /\ l.entries = flushed.mem.entries
  BY <1>11, RunIs DEF Memories
<1> HIDE DEF l
<1>13. q \in Runs /\ q.mem = l /\ q.disk = flushed.disk
  BY <1>11, <1>12 DEF Runs
<1> HIDE DEF q, f
<1>14. f \in Runs
  BY <1>5, <1>11, <1>13
<1>15. ASSUME r.stop = Whole PROVE Good(f.mem, f.disk) /\ Exact(f.mem, f.disk)
  <2>1. /\ f.mem.mounted /\ f.mem.used = {} /\ f.mem.entries = EmptyDirectory
        /\ f.disk.formatted /\ f.disk.used = {} /\ f.disk.entries = EmptyDirectory
    BY <1>5, <1>8, <1>10, <1>11, <1>12, <1>13, <1>15
  <2>2. \A e \in Entries, s \in Slots : EmptyDirectory[e].blocks[s] = NoBlock
    BY DEF EmptyDirectory, Unset
  <2>3. OneOwner(EmptyDirectory) /\ Marks(EmptyDirectory, {}) /\ Uses(EmptyDirectory, {})
    BY <2>2 DEF OneOwner, Marks, Uses
  <2>4. Reflects(f.mem, f.disk)
    BY <2>1, <2>2 DEF Reflects
  <2> QED BY <2>1, <2>3, <2>4, EmptyIsTree DEF Good, Exact, Sound, Met
<1> QED BY <1>14, <1>15 DEF f

-----------------------------------------------------------------------------
\* Requests of a service that may have to mount first.

LEMMA MountsOnce == \A r : Mount(Mount(r)) = Mount(r)
<1> SUFFICES ASSUME NEW r PROVE Mount(Mount(r)) = Mount(r)
  OBVIOUS
<1> DEFINE m == [mounted |-> TRUE, used |-> r.disk.used, entries |-> r.disk.entries]
           q == [r EXCEPT !.mem = m]
<1>1. CASE ~Ok(r) \/ r.mem.mounted
  BY <1>1 DEF Mount
<1>2. CASE Ok(r) /\ ~r.mem.mounted /\ ~r.disk.formatted
  <2>1. Mount(r) = [r EXCEPT !.status = "EIO"]
    BY <1>2 DEF Mount, Refuse
  <2> QED BY <1>2, <2>1 DEF Mount, Refuse, Ok
<1>3. CASE Ok(r) /\ ~r.mem.mounted /\ r.disk.formatted
  <2>1. Mount(r) = q
    BY <1>3 DEF Mount
  <2> QED BY <1>3, <2>1 DEF Mount
<1> QED BY <1>1, <1>2, <1>3

LEMMA TruncateServes ==
  ASSUME NEW r \in Runs, Ok(r), NEW e \in Entries, NEW length \in Nat
  PROVE  /\ Truncate(r, e, length) \in Runs
         /\ r.stop = Whole => Serves(r, Truncate(r, e, length))
         /\ length >= Met(r.mem, r.disk)[e].length =>
              Serves(r, Truncate(r, e, length)) /\ Leaves(r, Truncate(r, e, length))
<1> DEFINE m == Mount(r)
           q == Truncate(m, e, length)
<1>1. /\ m \in Runs /\ m.stop = r.stop
      /\ Ok(m) => m \in Running /\ m.mem.entries = Met(r.mem, r.disk)
  BY MountIs
<1>2. Truncate(r, e, length) = q
  BY MountsOnce DEF Truncate
<1>3. CASE ~Ok(m)
  <2>1. q = m
    BY <1>3, MountsOnce DEF Truncate
  <2> QED BY <1>1, <1>2, <1>3, <2>1, MountServes
<1>4. CASE Ok(m)
  <2> HIDE DEF m
  <2>1. /\ Goes(m, q)
        /\ m.stop = Whole \/ length >= m.mem.entries[e].length => Keeps(m, q)
    BY <1>1, <1>4, TruncateKeeps
  <2> HIDE DEF q
  <2>2. Keeps(m, q) => Serves(r, q) /\ Leaves(r, q)
    BY <1>1, <1>4, KeepsServes, MountServes DEF m
  <2> QED BY <1>1, <1>2, <1>4, <2>1, <2>2 DEF Goes, Running
<1> QED BY <1>3, <1>4

LEMMA WriteServes ==
  ASSUME NEW r \in Runs, Ok(r), NEW e \in Entries, NEW at \in {AtTheEnd} \cup Offsets,
         NEW count \in 1 .. MaxRequest
  PROVE  Serves(r, Write(r, e, at, count)) /\ Leaves(r, Write(r, e, at, count))
<1> DEFINE m == Mount(r)
           q == Write(m, e, at, count)
<1>1. Ok(m) => m \in Running
  BY MountIs
<1>2. Write(r, e, at, count) = q
  BY MountsOnce DEF Write
<1>3. CASE ~Ok(m)
  <2>1. q = m
    BY <1>3, MountsOnce DEF Write
  <2> QED BY <1>2, <1>3, <2>1, MountServes
<1>4. CASE Ok(m)
  <2> HIDE DEF m
  <2>1. Keeps(m, q)
    BY <1>1, <1>4, WriteKeeps
  <2> HIDE DEF q
  <2>2. Serves(m, q) /\ Leaves(m, q)
    BY <1>1, <1>4, <2>1, KeepsServes
  <2>3. Serves(r, q) /\ Leaves(r, q)
    BY <1>4, <2>2, MountServes DEF m
  <2> QED BY <1>2, <2>3
<1> QED BY <1>3, <1>4

-----------------------------------------------------------------------------
\* A request served to its end, and one that stops at a write.

LEMMA RunOfIs ==
  ASSUME FsTypeOK, NEW stop \in Int, NEW late \in BOOLEAN
  PROVE  /\ RunOf(stop, late) \in Runs /\ Ok(RunOf(stop, late))
         /\ RunOf(stop, late).mem = mem /\ RunOf(stop, late).disk = disk
         /\ RunOf(stop, late).stop = stop
BY TypeIs DEF RunOf, Runs, Ok, Statuses

LEMMA WholeIs == Whole \in Int /\ FALSE \in BOOLEAN
BY DEF Whole

LEMMA UnmountedIs == Unmounted \in Memories /\ ~Unmounted.mounted
<1>1. Unset \in EntryType
  BY ConstantsAre DEF Unset, EntryType
<1> QED BY <1>1 DEF Unmounted, Memories, Directories

LEMMA TypeNext ==
  ASSUME mem' \in Memories, disk' \in Disks, whole' \in BOOLEAN, stops' \in 0 .. MaxStops
  PROVE  FsTypeOK'
BY DEF FsTypeOK, Memories, Disks, Directories, Sectors

LEMMA CompletesInv ==
  ASSUME FsInv, NEW q, Serves(RunOf(Whole, FALSE), q), mem' = q.mem, disk' = q.disk,
         UNCHANGED <<whole, stops>>
  PROVE  FsInv'
<1> DEFINE r == RunOf(Whole, FALSE)
<1>1. r \in Runs /\ r.mem = mem /\ r.disk = disk /\ r.stop = Whole /\ FsTypeOK
  BY RunOfIs, WholeIs DEF FsInv
<1> HIDE DEF r
<1>2. /\ q \in Runs /\ (Good(mem, disk) => Good(q.mem, q.disk))
      /\ Good(mem, disk) /\ Exact(mem, disk) => Exact(q.mem, q.disk)
  BY <1>1 DEF Serves, r
<1>3. FsTypeOK'
  BY <1>1, <1>2, RunIs, TypeIs, TypeNext
<1> QED BY <1>2, <1>3 DEF FsInv

\* What the disk has is sound once the service has forgotten what it knew.
LEMMA Forgotten ==
  ASSUME NEW m, NEW d, Sound(m, d)
  PROVE  Sound(Unmounted, d)
<1>1. CASE m.mounted
  <2>1. OneOwner(d.entries)
    <3>1. OneOwner(m.entries) /\ Reflects(m, d)
      BY <1>1 DEF Sound
    <3> QED BY <3>1 DEF OneOwner, Reflects
  <2>2. Marks(d.entries, d.used)
    <3>1. Marks(m.entries, d.used) /\ Reflects(m, d)
      BY <1>1 DEF Sound
    <3> QED BY <3>1 DEF Marks, Reflects
  <2> QED BY <2>1, <2>2, UnmountedIs DEF Sound
<1>2. CASE ~m.mounted
  BY <1>2, UnmountedIs DEF Sound
<1> QED BY <1>1, <1>2

LEMMA StopsInv ==
  ASSUME FsInv, NEW removes \in BOOLEAN, NEW stop \in Int, NEW late \in BOOLEAN, NEW q \in Runs,
         ~removes => Serves(RunOf(stop, late), q) /\ Leaves(RunOf(stop, late), q),
         stops < MaxStops, stops' = stops + 1, disk' = q.disk,
         \/ mem' = q.mem /\ whole' = (whole /\ ~removes)
         \/ mem' = Unmounted /\ whole' = (whole /\ ~Behind /\ (removes => disk' = disk))
  PROVE  FsInv'
<1> DEFINE r == RunOf(stop, late)
<1>1. r \in Runs /\ r.mem = mem /\ r.disk = disk /\ FsTypeOK
  BY RunOfIs DEF FsInv
<1>2. ~removes => Serves(r, q) /\ Leaves(r, q)
  OBVIOUS
<1> HIDE DEF r
<1>3. stops \in Nat /\ stops' \in 0 .. MaxStops /\ stops' # 0 /\ whole \in BOOLEAN
  BY <1>1, AgelFsConstants, TypeIs
<1>4. mem' \in Memories /\ disk' \in Disks
  BY RunIs, UnmountedIs
<1>5. whole' \in BOOLEAN
  OBVIOUS
<1>6. FsTypeOK'
  BY <1>3, <1>4, <1>5, TypeNext
<1>7. ASSUME whole' PROVE Good(mem', disk')
  <2>1. whole /\ Good(mem, disk)
    BY <1>7 DEF FsInv
  <2>2. CASE mem' = q.mem /\ ~removes
    BY <1>1, <1>2, <2>1, <2>2 DEF Serves
  <2>3. CASE mem' = Unmounted /\ ~Behind /\ ~removes
    <3>1. ~Ahead(mem, disk)
      BY <2>3 DEF Behind, Ahead
    <3>2. Good(q.mem, q.disk) /\ Tree(Met(Unmounted, q.disk)) /\ Vacant(Met(Unmounted, q.disk))
      BY <1>1, <1>2, <2>1, <2>3, <3>1 DEF Serves, Leaves
    <3>3. Sound(Unmounted, q.disk)
      BY <3>2, Forgotten DEF Good
    <3> QED BY <2>3, <3>2, <3>3 DEF Good
  <2>4. CASE mem' = Unmounted /\ ~Behind /\ disk' = disk
    <3>1. Sound(Unmounted, disk)
      BY <2>1, Forgotten DEF Good
    <3>2. Met(Unmounted, disk) = Met(mem, disk)
      BY <2>1, <2>4, UnmountedIs DEF Good, Sound, Met, Behind
    <3> QED BY <2>1, <2>4, <3>1, <3>2 DEF Good
  <2> QED BY <1>7, <2>2, <2>3, <2>4
<1> QED BY <1>3, <1>6, <1>7 DEF FsInv

-----------------------------------------------------------------------------
\* The requests.

LEMMA FormatInv ==
  ASSUME FsInv, FormatRegion
  PROVE  FsInv'
<1> DEFINE done == Format(RunOf(Whole, FALSE))
<1>1. FsTypeOK
  BY DEF FsInv
<1>2. CASE mem' = done.mem /\ disk' = done.disk /\ whole' = TRUE /\ stops' = 0
  <2>1. done \in Runs /\ Good(done.mem, done.disk) /\ Exact(done.mem, done.disk)
    BY <1>1, RunOfIs, WholeIs, FormatServes
  <2> HIDE DEF done
  <2>2. FsTypeOK'
    <3>1. mem' \in Memories /\ disk' \in Disks
      BY <1>2, <2>1, RunIs
    <3>2. stops' \in 0 .. MaxStops
      BY <1>2, AgelFsConstants
    <3> QED BY <1>2, <3>1, <3>2, TypeNext
  <2> QED BY <1>2, <2>1, <2>2 DEF FsInv
<1>3. ASSUME NEW stop \in Int, NEW late \in BOOLEAN,
             stops < MaxStops, stops' = stops + 1, disk' = Format(RunOf(stop, late)).disk,
             \/ mem' = Format(RunOf(stop, late)).mem /\ whole' = (whole /\ ~TRUE)
             \/ mem' = Unmounted /\ whole' = (whole /\ ~Behind /\ (TRUE => disk' = disk))
      PROVE  FsInv'
  <2> DEFINE q == Format(RunOf(stop, late))
  <2>1. q \in Runs
    BY <1>1, RunOfIs, FormatServes
  <2> HIDE DEF q
  <2> QED BY <1>3, <2>1, StopsInv DEF q
<1>4. \/ mem' = done.mem /\ disk' = done.disk /\ whole' = TRUE /\ stops' = 0
      \/ \E stop \in 0 .. done.writes - 1, late \in BOOLEAN :
           /\ stops < MaxStops /\ stops' = stops + 1 /\ disk' = Format(RunOf(stop, late)).disk
           /\ \/ mem' = Format(RunOf(stop, late)).mem /\ whole' = (whole /\ ~TRUE)
              \/ mem' = Unmounted /\ whole' = (whole /\ ~Behind /\ (TRUE => disk' = disk))
  BY DEF FormatRegion, Completes, Stops
<1>5. done.writes \in Nat
  BY <1>1, RunOfIs, WholeIs, FormatServes, RunIs
<1> HIDE DEF done
<1>6. \A stop \in 0 .. done.writes - 1 : stop \in Int
  BY <1>5
<1> QED BY <1>2, <1>3, <1>4, <1>6

LEMMA CreateInv ==
  ASSUME FsInv, NEW root \in Roots, NEW kind \in {"file", "directory"}, NEW path \in Paths,
         CreateEntry(root, kind, path)
  PROVE  FsInv'
<1> DEFINE Done(r) == Create(r, root, kind, path)
           done == Done(RunOf(Whole, FALSE))
<1>1. FsTypeOK /\ root \in Entries /\ path \in Spelt
  BY AgelFsConstants DEF FsInv, Spelt
<1>2. ASSUME NEW stop \in Int, NEW late \in BOOLEAN
      PROVE  /\ Done(RunOf(stop, late)) \in Runs
             /\ stop = Whole => Serves(RunOf(stop, late), Done(RunOf(stop, late)))
             /\ ~FALSE => /\ Serves(RunOf(stop, late), Done(RunOf(stop, late)))
                       /\ Leaves(RunOf(stop, late), Done(RunOf(stop, late)))
  BY <1>1, RunOfIs, CreateServes DEF Serves
<1>3. \/ mem' = done.mem /\ disk' = done.disk /\ UNCHANGED <<whole, stops>>
      \/ \E stop \in 0 .. done.writes - 1, late \in BOOLEAN :
           /\ stops < MaxStops /\ stops' = stops + 1 /\ disk' = Done(RunOf(stop, late)).disk
           /\ \/ mem' = Done(RunOf(stop, late)).mem /\ whole' = (whole /\ ~FALSE)
              \/ mem' = Unmounted /\ whole' = (whole /\ ~Behind /\ (FALSE => disk' = disk))
  BY DEF CreateEntry, Served, Completes, Stops
<1> HIDE DEF Done
<1>4. CASE mem' = done.mem /\ disk' = done.disk /\ UNCHANGED <<whole, stops>>
  BY <1>2, <1>4, WholeIs, CompletesInv
<1>5. ASSUME NEW stop \in Int, NEW late \in BOOLEAN,
             stops < MaxStops, stops' = stops + 1, disk' = Done(RunOf(stop, late)).disk,
             \/ mem' = Done(RunOf(stop, late)).mem /\ whole' = (whole /\ ~FALSE)
             \/ mem' = Unmounted /\ whole' = (whole /\ ~Behind /\ (FALSE => disk' = disk))
      PROVE  FsInv'
  <2> DEFINE q == Done(RunOf(stop, late))
  <2>1. q \in Runs /\ (~FALSE => Serves(RunOf(stop, late), q) /\ Leaves(RunOf(stop, late), q))
    BY <1>2
  <2> HIDE DEF q
  <2> QED BY <1>1, <1>5, <2>1, StopsInv, WholeIs DEF q
<1>6. done.writes \in Nat
  BY <1>2, WholeIs, RunIs
<1> HIDE DEF done
<1>7. \A stop \in 0 .. done.writes - 1 : stop \in Int
  BY <1>6
<1> QED BY <1>3, <1>4, <1>5, <1>7

LEMMA WriteInv ==
  ASSUME FsInv, NEW e \in Entries, NEW at \in {AtTheEnd} \cup Offsets, NEW count \in 1 .. MaxRequest,
         WriteFile(e, at, count)
  PROVE  FsInv'
<1> DEFINE Done(r) == Write(r, e, at, count)
           done == Done(RunOf(Whole, FALSE))
<1>1. FsTypeOK
  BY DEF FsInv
<1>2. ASSUME NEW stop \in Int, NEW late \in BOOLEAN
      PROVE  /\ Done(RunOf(stop, late)) \in Runs
             /\ stop = Whole => Serves(RunOf(stop, late), Done(RunOf(stop, late)))
             /\ ~FALSE => /\ Serves(RunOf(stop, late), Done(RunOf(stop, late)))
                       /\ Leaves(RunOf(stop, late), Done(RunOf(stop, late)))
  BY <1>1, RunOfIs, WriteServes DEF Serves
<1>3. \/ mem' = done.mem /\ disk' = done.disk /\ UNCHANGED <<whole, stops>>
      \/ \E stop \in 0 .. done.writes - 1, late \in BOOLEAN :
           /\ stops < MaxStops /\ stops' = stops + 1 /\ disk' = Done(RunOf(stop, late)).disk
           /\ \/ mem' = Done(RunOf(stop, late)).mem /\ whole' = (whole /\ ~FALSE)
              \/ mem' = Unmounted /\ whole' = (whole /\ ~Behind /\ (FALSE => disk' = disk))
  BY DEF WriteFile, Served, Completes, Stops
<1> HIDE DEF Done
<1>4. CASE mem' = done.mem /\ disk' = done.disk /\ UNCHANGED <<whole, stops>>
  BY <1>2, <1>4, WholeIs, CompletesInv
<1>5. ASSUME NEW stop \in Int, NEW late \in BOOLEAN,
             stops < MaxStops, stops' = stops + 1, disk' = Done(RunOf(stop, late)).disk,
             \/ mem' = Done(RunOf(stop, late)).mem /\ whole' = (whole /\ ~FALSE)
             \/ mem' = Unmounted /\ whole' = (whole /\ ~Behind /\ (FALSE => disk' = disk))
      PROVE  FsInv'
  <2> DEFINE q == Done(RunOf(stop, late))
  <2>1. q \in Runs /\ (~FALSE => Serves(RunOf(stop, late), q) /\ Leaves(RunOf(stop, late), q))
    BY <1>2
  <2> HIDE DEF q
  <2> QED BY <1>1, <1>5, <2>1, StopsInv, WholeIs DEF q
<1>6. done.writes \in Nat
  BY <1>2, WholeIs, RunIs
<1> HIDE DEF done
<1>7. \A stop \in 0 .. done.writes - 1 : stop \in Int
  BY <1>6
<1> QED BY <1>3, <1>4, <1>5, <1>7

LEMMA TruncateInv ==
  ASSUME FsInv, NEW e \in Entries, NEW length \in Offsets,
         TruncateFile(e, length)
  PROVE  FsInv'
<1> DEFINE Done(r) == Truncate(r, e, length)
           done == Done(RunOf(Whole, FALSE))
           removes == length < Directory[e].length
<1>1. FsTypeOK /\ length \in Nat /\ removes \in BOOLEAN
      /\ (~removes => length >= Met(mem, disk)[e].length)
  <2>1. FsTypeOK /\ length \in Nat /\ Directory = Met(mem, disk)
    BY ConstantsAre, AgelFsConstants DEF FsInv, Directory, Met
  <2>2. Met(mem, disk) \in Directories
    BY <2>1, EmptyIsTree, TypeIs DEF Met, Memories, Disks
  <2>3. Met(mem, disk)[e].length \in 0 .. FileBytesMax
    BY <2>2, EntryIs DEF Directories
  <2>4. Met(mem, disk)[e].length \in Nat
    BY <2>3, ConstantsAre
  <2> QED BY <2>1, <2>4
<1>2. ASSUME NEW stop \in Int, NEW late \in BOOLEAN
      PROVE  /\ Done(RunOf(stop, late)) \in Runs
             /\ stop = Whole => Serves(RunOf(stop, late), Done(RunOf(stop, late)))
             /\ ~removes => /\ Serves(RunOf(stop, late), Done(RunOf(stop, late)))
                       /\ Leaves(RunOf(stop, late), Done(RunOf(stop, late)))
  BY <1>1, RunOfIs, TruncateServes
<1>3. \/ mem' = done.mem /\ disk' = done.disk /\ UNCHANGED <<whole, stops>>
      \/ \E stop \in 0 .. done.writes - 1, late \in BOOLEAN :
           /\ stops < MaxStops /\ stops' = stops + 1 /\ disk' = Done(RunOf(stop, late)).disk
           /\ \/ mem' = Done(RunOf(stop, late)).mem /\ whole' = (whole /\ ~removes)
              \/ mem' = Unmounted /\ whole' = (whole /\ ~Behind /\ (removes => disk' = disk))
  BY DEF TruncateFile, Served, Completes, Stops
<1> HIDE DEF Done, removes
<1>4. CASE mem' = done.mem /\ disk' = done.disk /\ UNCHANGED <<whole, stops>>
  BY <1>2, <1>4, WholeIs, CompletesInv
<1>5. ASSUME NEW stop \in Int, NEW late \in BOOLEAN,
             stops < MaxStops, stops' = stops + 1, disk' = Done(RunOf(stop, late)).disk,
             \/ mem' = Done(RunOf(stop, late)).mem /\ whole' = (whole /\ ~removes)
             \/ mem' = Unmounted /\ whole' = (whole /\ ~Behind /\ (removes => disk' = disk))
      PROVE  FsInv'
  <2> DEFINE q == Done(RunOf(stop, late))
  <2>1. q \in Runs /\ (~removes => Serves(RunOf(stop, late), q) /\ Leaves(RunOf(stop, late), q))
    BY <1>2
  <2> HIDE DEF q
  <2> QED BY <1>1, <1>5, <2>1, StopsInv, WholeIs DEF q
<1>6. done.writes \in Nat
  BY <1>2, WholeIs, RunIs
<1> HIDE DEF done
<1>7. \A stop \in 0 .. done.writes - 1 : stop \in Int
  BY <1>6
<1> QED BY <1>3, <1>4, <1>5, <1>7

LEMMA UnlinkInv ==
  ASSUME FsInv, NEW root \in Roots, NEW path \in Paths,
         UnlinkEntry(root, path)
  PROVE  FsInv'
<1> DEFINE Done(r) == Unlink(r, root, path)
           done == Done(RunOf(Whole, FALSE))
<1>1. FsTypeOK /\ root \in Entries /\ path \in Spelt
  BY AgelFsConstants DEF FsInv, Spelt
<1>2. ASSUME NEW stop \in Int, NEW late \in BOOLEAN
      PROVE  /\ Done(RunOf(stop, late)) \in Runs
             /\ stop = Whole => Serves(RunOf(stop, late), Done(RunOf(stop, late)))
             /\ ~TRUE => /\ Serves(RunOf(stop, late), Done(RunOf(stop, late)))
                       /\ Leaves(RunOf(stop, late), Done(RunOf(stop, late)))
  BY <1>1, RunOfIs, UnlinkServes
<1>3. \/ mem' = done.mem /\ disk' = done.disk /\ UNCHANGED <<whole, stops>>
      \/ \E stop \in 0 .. done.writes - 1, late \in BOOLEAN :
           /\ stops < MaxStops /\ stops' = stops + 1 /\ disk' = Done(RunOf(stop, late)).disk
           /\ \/ mem' = Done(RunOf(stop, late)).mem /\ whole' = (whole /\ ~TRUE)
              \/ mem' = Unmounted /\ whole' = (whole /\ ~Behind /\ (TRUE => disk' = disk))
  BY DEF UnlinkEntry, Served, Completes, Stops
<1> HIDE DEF Done
<1>4. CASE mem' = done.mem /\ disk' = done.disk /\ UNCHANGED <<whole, stops>>
  BY <1>2, <1>4, WholeIs, CompletesInv
<1>5. ASSUME NEW stop \in Int, NEW late \in BOOLEAN,
             stops < MaxStops, stops' = stops + 1, disk' = Done(RunOf(stop, late)).disk,
             \/ mem' = Done(RunOf(stop, late)).mem /\ whole' = (whole /\ ~TRUE)
             \/ mem' = Unmounted /\ whole' = (whole /\ ~Behind /\ (TRUE => disk' = disk))
      PROVE  FsInv'
  <2> DEFINE q == Done(RunOf(stop, late))
  <2>1. q \in Runs /\ (~TRUE => Serves(RunOf(stop, late), q) /\ Leaves(RunOf(stop, late), q))
    BY <1>2
  <2> HIDE DEF q
  <2> QED BY <1>1, <1>5, <2>1, StopsInv, WholeIs DEF q
<1>6. done.writes \in Nat
  BY <1>2, WholeIs, RunIs
<1> HIDE DEF done
<1>7. \A stop \in 0 .. done.writes - 1 : stop \in Int
  BY <1>6
<1> QED BY <1>3, <1>4, <1>5, <1>7

LEMMA RenameInv ==
  ASSUME FsInv, NEW root \in Roots, NEW move \in Moves,
         RenameEntry(root, move)
  PROVE  FsInv'
<1> DEFINE Done(r) == Rename(r, root, move.old, move.directory, move.name)
           done == Done(RunOf(Whole, FALSE))
<1>1. /\ FsTypeOK /\ root \in Entries /\ move.old \in Spelt /\ move.directory \in Spelt
      /\ move.name \in Names \cup {Data}
  BY AgelFsConstants DEF FsInv, Spelt
<1>2. ASSUME NEW stop \in Int, NEW late \in BOOLEAN
      PROVE  /\ Done(RunOf(stop, late)) \in Runs
             /\ stop = Whole => Serves(RunOf(stop, late), Done(RunOf(stop, late)))
             /\ ~FALSE => /\ Serves(RunOf(stop, late), Done(RunOf(stop, late)))
                       /\ Leaves(RunOf(stop, late), Done(RunOf(stop, late)))
  BY <1>1, RunOfIs, RenameServes DEF Serves
<1>3. \/ mem' = done.mem /\ disk' = done.disk /\ UNCHANGED <<whole, stops>>
      \/ \E stop \in 0 .. done.writes - 1, late \in BOOLEAN :
           /\ stops < MaxStops /\ stops' = stops + 1 /\ disk' = Done(RunOf(stop, late)).disk
           /\ \/ mem' = Done(RunOf(stop, late)).mem /\ whole' = (whole /\ ~FALSE)
              \/ mem' = Unmounted /\ whole' = (whole /\ ~Behind /\ (FALSE => disk' = disk))
  BY DEF RenameEntry, Served, Completes, Stops
<1> HIDE DEF Done
<1>4. CASE mem' = done.mem /\ disk' = done.disk /\ UNCHANGED <<whole, stops>>
  BY <1>2, <1>4, WholeIs, CompletesInv
<1>5. ASSUME NEW stop \in Int, NEW late \in BOOLEAN,
             stops < MaxStops, stops' = stops + 1, disk' = Done(RunOf(stop, late)).disk,
             \/ mem' = Done(RunOf(stop, late)).mem /\ whole' = (whole /\ ~FALSE)
             \/ mem' = Unmounted /\ whole' = (whole /\ ~Behind /\ (FALSE => disk' = disk))
      PROVE  FsInv'
  <2> DEFINE q == Done(RunOf(stop, late))
  <2>1. q \in Runs /\ (~FALSE => Serves(RunOf(stop, late), q) /\ Leaves(RunOf(stop, late), q))
    BY <1>2
  <2> HIDE DEF q
  <2> QED BY <1>1, <1>5, <2>1, StopsInv, WholeIs DEF q
<1>6. done.writes \in Nat
  BY <1>2, WholeIs, RunIs
<1> HIDE DEF done
<1>7. \A stop \in 0 .. done.writes - 1 : stop \in Int
  BY <1>6
<1> QED BY <1>3, <1>4, <1>5, <1>7

LEMMA RestartInv ==
  ASSUME FsInv, Restart
  PROVE  FsInv'
<1>1. FsTypeOK /\ mem' = Unmounted /\ whole' = (whole /\ ~Behind) /\ disk' = disk /\ stops' = stops
  BY DEF FsInv, Restart
<1>2. FsTypeOK'
  BY <1>1, TypeIs, UnmountedIs, TypeNext
<1>3. ASSUME stops' = 0 PROVE whole' /\ Exact(mem', disk')
  <2>1. whole /\ Exact(mem, disk)
    BY <1>1, <1>3 DEF FsInv
  <2>2. ~Behind
    BY <2>1 DEF Behind, Exact
  <2>3. Exact(Unmounted, disk)
    BY <2>1, UnmountedIs DEF Exact
  <2> QED BY <1>1, <2>1, <2>2, <2>3
<1>4. ASSUME whole' PROVE Good(mem', disk')
  <2>1. whole /\ ~Behind /\ Good(mem, disk)
    BY <1>1, <1>4 DEF FsInv
  <2>2. Sound(Unmounted, disk)
    BY <2>1, Forgotten DEF Good
  <2>3. Met(Unmounted, disk) = Met(mem, disk)
    BY <2>1, UnmountedIs DEF Good, Sound, Met, Behind
  <2> QED BY <1>1, <2>1, <2>2, <2>3 DEF Good
<1> QED BY <1>2, <1>3, <1>4 DEF FsInv

LEMMA InitInv ==
  ASSUME FsInit
  PROVE  FsInv
<1> DEFINE data == [b \in Blocks |-> [k \in 0 .. BlockBytes - 1 |-> 1]]
<1>1. data \in Sectors
  BY DEF Sectors
<1>2. mem = Unmounted /\ whole = TRUE /\ stops = 0
      /\ disk = [formatted |-> FALSE, used |-> {}, entries |-> EmptyDirectory, data |-> data]
  BY DEF FsInit
<1> HIDE DEF data
<1>3. disk \in Disks /\ ~disk.formatted
  BY <1>1, <1>2, EmptyIsTree DEF Disks
<1>4. FsTypeOK
  BY <1>2, <1>3, TypeIs, UnmountedIs, AgelFsConstants
<1>5. Good(mem, disk) /\ Exact(mem, disk)
  BY <1>2, <1>3, UnmountedIs, EmptyIsTree DEF Good, Exact, Sound, Met
<1> QED BY <1>2, <1>4, <1>5 DEF FsInv

LEMMA NextInv ==
  ASSUME FsInv, [FsNext]_fsVars
  PROVE  FsInv'
<1>1. CASE FormatRegion
  BY <1>1, FormatInv
<1>2. ASSUME NEW root \in Roots, NEW kind \in {"file", "directory"}, NEW path \in Paths,
             CreateEntry(root, kind, path)
      PROVE  FsInv'
  BY <1>2, CreateInv
<1>3. ASSUME NEW e \in Entries, NEW at \in {AtTheEnd} \cup Offsets, NEW count \in 1 .. MaxRequest,
             WriteFile(e, at, count)
      PROVE  FsInv'
  BY <1>3, WriteInv
<1>4. ASSUME NEW e \in Entries, NEW length \in Offsets, TruncateFile(e, length) PROVE FsInv'
  BY <1>4, TruncateInv
<1>5. ASSUME NEW root \in Roots, NEW path \in Paths, UnlinkEntry(root, path) PROVE FsInv'
  BY <1>5, UnlinkInv
<1>6. ASSUME NEW root \in Roots, NEW move \in Moves, RenameEntry(root, move) PROVE FsInv'
  BY <1>6, RenameInv
<1>7. CASE Restart
  BY <1>7, RestartInv
<1>8. CASE UNCHANGED fsVars
  <2>1. mem' = mem /\ disk' = disk /\ whole' = whole /\ stops' = stops
    BY <1>8 DEF fsVars
  <2>2. FsTypeOK'
    BY <2>1, TypeIs, TypeNext DEF FsInv
  <2> QED BY <2>1, <2>2 DEF FsInv
<1> QED BY <1>1, <1>2, <1>3, <1>4, <1>5, <1>6, <1>7, <1>8 DEF FsNext

-----------------------------------------------------------------------------
\* What the invariant says of the blocks.

LEMMA ListedIs ==
  \A entries, e : Listed(entries, e) = {entries[e].blocks[s] : s \in Slots} \ {NoBlock}
BY DEF Listed

LEMMA MarksAre ==
  ASSUME NEW entries, NEW used
  PROVE  /\ Marks(entries, used) => MarksListed(entries, used)
         /\ used \in SUBSET Blocks /\ Uses(entries, used) =>
              used \subseteq UNION {Listed(entries, e) : e \in Entries}
<1>1. ASSUME Marks(entries, used), NEW b \in UNION {Listed(entries, e) : e \in Entries}
      PROVE  b \in used
  <2>1. PICK e \in Entries : b \in Listed(entries, e)
    BY <1>1
  <2>2. PICK s \in Slots : b = entries[e].blocks[s] /\ b # NoBlock
    BY <2>1, ListedIs
  <2> QED BY <1>1, <2>2 DEF Marks
<1>2. ASSUME used \in SUBSET Blocks, Uses(entries, used), NEW b \in used
      PROVE  b \in UNION {Listed(entries, e) : e \in Entries}
  <2>1. PICK e \in Entries, s \in Slots : entries[e].blocks[s] = b
    BY <1>2 DEF Uses
  <2>2. b # NoBlock
    BY <1>2, ConstantsAre
  <2>3. b \in Listed(entries, e)
    BY <2>1, <2>2, ListedIs
  <2> QED BY <2>3
<1> QED BY <1>1, <1>2 DEF MarksListed

\* The inductive invariant: what the service knows covers what the disk lists, and both
\* bitmaps have it; while nothing has stopped, the service and the disk are one; and the
\* directory a request meets is a tree whose free entries list nothing.
THEOREM FsInvariant == FsSpec => []FsInv
<1>1. FsInit => FsInv
  BY InitInv
<1>2. FsInv /\ [FsNext]_fsVars => FsInv'
  BY NextInv
<1> QED BY <1>1, <1>2, PTL DEF FsSpec

\* user.rs:2050: bit k is set when block k is some entry's.  No block has two owners, none is
\* listed that the bitmap has not, through any failed write and any cut that is not inside
\* a removal; and while requests run to their end none is lost.
THEOREM BlocksAccounted == FsSpec => []BlocksAreAccounted
<1>1. FsInv => BlocksAreAccounted
  <2> SUFFICES ASSUME FsInv PROVE BlocksAreAccounted
    OBVIOUS
  <2>1. FsTypeOK /\ mem \in Memories /\ disk \in Disks
    BY TypeIs DEF FsInv
  <2>2. ASSUME whole PROVE BlocksAreMarked
    BY <2>2, MarksAre DEF FsInv, Good, Sound, BlocksAreMarked
  <2>3. ASSUME whole, disk.formatted
        PROVE  MarksListed(disk.entries, disk.used) /\ OneOwner(disk.entries)
    <3>1. Sound(Unmounted, disk)
      BY <2>3, Forgotten DEF FsInv, Good
    <3> QED BY <2>3, <3>1, MarksAre, UnmountedIs DEF Sound
  <2>4. GrowthIsSafe
    BY <2>2, <2>3 DEF GrowthIsSafe
  <2>5. ASSUME stops = 0, mem.mounted
        PROVE  mem.used = UNION {Listed(mem.entries, e) : e \in Entries}
    <3>1. Marks(mem.entries, mem.used) /\ Uses(mem.entries, mem.used)
      BY <2>5 DEF FsInv, Good, Sound, Exact
    <3>2. mem.used \in SUBSET Blocks
      BY <2>1, MemoryIs
    <3> QED BY <3>1, <3>2, MarksAre DEF MarksListed
  <2>6. NoBlockLeaks
    BY <2>5 DEF NoBlockLeaks
  <2> QED BY <2>1, <2>4, <2>6 DEF BlocksAreAccounted
<1> QED BY <1>1, FsInvariant, PTL

\* Each entry's parent is a directory, every climb ends at the root and two children of a
\* directory differ in name, under any order of create, remove and rename, from any namespace,
\* through refused writes and cuts, while no shrink, removal or format was cut and no service
\* was lost ahead of its disk.
THEOREM DirectoryIsATree == FsSpec => []StaysATree
<1>1. FsInv => StaysATree
  <2>1. Directory = Met(mem, disk)
    BY DEF Directory, Met
  <2> QED BY <2>1 DEF FsInv, Good, Tree, StaysATree
<1> QED BY <1>1, FsInvariant, PTL
=============================================================================
