-------------------------------- MODULE Qcow2 --------------------------------
(***************************************************************************)
(* The copy-on-write disk of a sandbox: internal/cow qcow2.go (layout,     *)
(* open, read), qcow2_write.go (allocating writes) and qcow2_compact.go.   *)
(*                                                                         *)
(* A cluster is Width words, a word is one 64-bit table entry or one unit  *)
(* of guest data.  Host clusters are numbered from 0, the header; a table  *)
(* entry is the number of a cluster (its COPIED flag is always set by this *)
(* code), 0 for an unallocated one, ZERO for the bare ZERO flag.  One step *)
(* of a write is one write of the host file.                               *)
(***************************************************************************)
EXTENDS Integers, Sequences, FiniteSets, FiniteSetsExt

CONSTANTS
  Width,        \* words per cluster
  Size,         \* virtual size of the disk, in words
  Base,         \* content of the backing image, a function on 0..k-1
  Values,       \* what the guest writes (0 included)
  MaxRun,       \* longest write of a guest, in words
  CacheTables,  \* L2 tables the cache holds before it is dropped
  HostClusters, \* bound on the length of the host file
  MaxOps,       \* bound on writes and compactions
  MaxFaults     \* bound on failed writes and crashes

ASSUME Qcow2Assumption ==
  /\ Width \in Nat \ {0} /\ Size \in Nat \ {0} /\ HostClusters \in Nat
  /\ Values \subseteq Nat /\ 0 \in Values
  /\ MaxRun \in Nat /\ CacheTables \in Nat \ {0}
  /\ MaxOps \in Nat /\ MaxFaults \in Nat
  /\ \A w \in DOMAIN Base : Base[w] \in Nat

VARIABLES
  file,   \* the image on disk
  mem,    \* what the process serving it keeps in memory
  op,     \* the write in progress
  res,    \* outcome of the last write, "busy" during one
  ops,    \* writes and compactions so far
  faults  \* failures so far

vars == <<file, mem, op, res, ops, faults>>

ZERO == -1
Refs == 4 * Width                  \* 16-bit counts per refcount block
divCeil(a, b) == (a + b - 1) \div b

-----------------------------------------------------------------------------
(* Layout of a fresh image. *)

L1Size == divCeil(Size, Width * Width)
Hosts == 0 .. HostClusters - 1
Blank == [i \in 0 .. Width - 1 |-> 0]

(* Clusters of metadata given the sizes of the refcount table and blocks. *)
PhysMeta(r, prealloc) ==
  1 + r.table + r.blocks + divCeil(L1Size, Width) + (IF prealloc THEN L1Size ELSE 0)

NextRound(r, prealloc) ==
  LET worst == PhysMeta(r, prealloc) + divCeil(Size, Width)
      blocks == divCeil(worst, Refs)
  IN  [blocks |-> blocks, table |-> divCeil(blocks, Width)]

(* The fixed point of the sizing loop. *)
computeQcow2Layout(prealloc) ==
  LET round[i \in 0 .. 31] ==
        IF i = 0 THEN [blocks |-> 1, table |-> 1] ELSE NextRound(round[i - 1], prealloc)
  IN  round[CHOOSE i \in 0 .. 31 : round[i] = NextRound(round[i], prealloc)]

(* The loop gives up when it does not settle; a fresh image fits the bound. *)
ASSUME LayoutAssumption ==
  \A prealloc \in BOOLEAN :
    LET r == computeQcow2Layout(prealloc) IN
    /\ r.blocks \in Nat /\ r.table \in Nat /\ r = NextRound(r, prealloc)
    /\ PhysMeta(r, prealloc) <= HostClusters

TableEntries(prealloc) == computeQcow2Layout(prealloc).table * Width

(* An empty overlay: refcount blocks for the worst case, and every L2 table *)
(* linked if they are preallocated.                                         *)
createQcow2(prealloc) ==
  LET r == computeQcow2Layout(prealloc)
      meta == PhysMeta(r, prealloc)
      l2Off == meta - L1Size
  IN  [ len |-> meta, ragged |-> FALSE, meta |-> meta,
        l1 |-> [i \in 0 .. L1Size - 1 |-> IF prealloc THEN l2Off + i ELSE 0],
        reft |-> [b \in 0 .. TableEntries(prealloc) - 1 |->
                    IF b < r.blocks THEN 1 + r.table + b ELSE 0],
        ref |-> [h \in Hosts |-> IF h < meta THEN 1 ELSE 0],
        cell |-> [h \in Hosts |-> Blank] ]

-----------------------------------------------------------------------------
(* Reading. *)

Cluster(w) == w \div Width
InCluster(w) == w % Width
L1Idx(c) == c \div Width
L2Idx(c) == c % Width

(* The chain below the overlay, zero past the end of a shorter one. *)
backingOrZero(w) == IF w \in DOMAIN Base THEN Base[w] ELSE 0

(* Entry j of the L2 table at l2Off, from the cache when it is there. *)
l2EntryAt(cache, l2Off, j) ==
  IF l2Off \in DOMAIN cache THEN cache[l2Off][j] ELSE file.cell[l2Off][j]

(* What a word reads as through an L1 table and a cache of L2 tables. *)
resolve(w, l1, cache) ==
  LET l2Off == l1[L1Idx(Cluster(w))]
      e == IF l2Off = 0 THEN 0 ELSE l2EntryAt(cache, l2Off, L2Idx(Cluster(w)))
  IN  IF e = 0 THEN backingOrZero(w)
      ELSE IF e = ZERO THEN 0 ELSE file.cell[e][InCluster(w)]

(* The cache after a lookup in the table at l2Off: a miss loads the table, *)
(* and drops all others when there is no room for it.                      *)
Loaded(l2Off) ==
  IF l2Off = 0 \/ l2Off \in DOMAIN mem.cache THEN mem.cache
  ELSE LET keep == IF Cardinality(DOMAIN mem.cache) >= CacheTables THEN {} ELSE DOMAIN mem.cache
       IN  [t \in keep \cup {l2Off} |-> IF t = l2Off THEN file.cell[t] ELSE mem.cache[t]]

(* What the guest sees of word w: through memory while the image is served. *)
View(w) == IF mem.open THEN resolve(w, mem.l1, mem.cache) ELSE resolve(w, file.l1, <<>>)

Closed == [open |-> FALSE, len |-> 0, ragged |-> FALSE, l1 |-> <<>>, cache |-> <<>>]

Idle == [pc |-> "idle", at |-> 0, end |-> 0, val |-> 0, data |-> 0,
         new |-> 0, idx |-> 0, deferred |-> <<>>, ret |-> "idle"]

Init ==
  /\ file \in {createQcow2(prealloc) : prealloc \in BOOLEAN}
  /\ mem = Closed /\ op = Idle /\ res = "ok" /\ ops = 0 /\ faults = 0

(* openGuestImage loads the L1 table; OpenWritable takes the file size. *)
OpenWritable ==
  /\ ~mem.open
  /\ mem' = [open |-> TRUE, len |-> file.len, ragged |-> file.ragged,
             l1 |-> file.l1, cache |-> <<>>]
  /\ UNCHANGED <<file, op, res, ops, faults>>

Close ==
  /\ mem.open /\ op.pc = "idle"
  /\ mem' = Closed
  /\ UNCHANGED <<file, op, res, ops, faults>>

ReadAt(w) ==
  /\ mem.open /\ op.pc = "idle"
  /\ mem' = [mem EXCEPT !.cache = Loaded(mem.l1[L1Idx(Cluster(w))])]
  /\ UNCHANGED <<file, op, res, ops, faults>>

-----------------------------------------------------------------------------
(* Writing.  w.mu is held from Begin to the end. *)

At(pc) == mem.open /\ op.pc = pc
C == Cluster(op.at)
ClusterEnd == Min({op.end, (C + 1) * Width})

(* The image with cluster h holding content. *)
WithCluster(h, content) ==
  IF h >= file.len THEN [file EXCEPT !.cell[h] = content, !.len = h + 1, !.ragged = FALSE]
  ELSE [file EXCEPT !.cell[h] = content]

Begin(at, end, v) ==
  /\ At("idle") /\ ops < MaxOps
  /\ op' = [Idle EXCEPT !.pc = "next", !.at = at, !.end = end, !.val = v]
  /\ res' = "busy" /\ ops' = ops + 1
  /\ UNCHANGED <<file, mem, faults>>

(* hostOffset: the cluster that may be written in place, 0 when there is none. *)
hostOffset(c) ==
  LET l2Off == mem.l1[L1Idx(c)]
      e == IF l2Off = 0 THEN 0 ELSE l2EntryAt(mem.cache, l2Off, L2Idx(c))
  IN  IF e = ZERO THEN 0 ELSE e

(* One cluster of the write is done. *)
Advanced ==
  IF ClusterEnd = op.end THEN Idle
  ELSE [Idle EXCEPT !.pc = "next", !.at = ClusterEnd, !.end = op.end, !.val = op.val]
Outcome == IF ClusterEnd = op.end THEN "ok" ELSE "busy"

(* The words of this cluster that the write covers, over its old content. *)
Patched(old) ==
  [i \in 0 .. Width - 1 |->
     IF C * Width + i \in op.at .. ClusterEnd - 1 THEN op.val ELSE old[i]]

WriteInPlace ==
  /\ At("next") /\ op.at < Size /\ hostOffset(C) # 0
  /\ file' = WithCluster(hostOffset(C), Patched(file.cell[hostOffset(C)]))
  /\ mem' = [mem EXCEPT !.cache = Loaded(mem.l1[L1Idx(C)])]
  /\ op' = Advanced /\ res' = Outcome
  /\ UNCHANGED <<ops, faults>>

(* Mutant: the length in memory is not advanced. *)
allocCluster_NotAdvanced(ret) ==
  /\ ~mem.ragged /\ mem.len < HostClusters
  /\ op' = [op EXCEPT !.pc = "bump", !.new = mem.len, !.idx = mem.len, !.ret = ret]
  /\ mem' = [mem EXCEPT !.cache = Loaded(mem.l1[L1Idx(C)])]

(* allocCluster: the next cluster at the end of the file, as memory has it. *)
allocCluster(ret) ==
  /\ ~mem.ragged /\ mem.len < HostClusters
  /\ op' = [op EXCEPT !.pc = "bump", !.new = mem.len, !.idx = mem.len, !.ret = ret]
  /\ mem' = [mem EXCEPT !.len = @ + 1, !.cache = Loaded(mem.l1[L1Idx(C)])]

AllocData ==
  /\ At("next") /\ op.at < Size /\ hostOffset(C) = 0
  /\ allocCluster("data")
  /\ UNCHANGED <<file, res, ops, faults>>

(* bumpRefcount, one pass of its loop: the block that counts idx is missing *)
(* and is put at the end of the file.                                       *)

Block == op.idx \div Refs
RegisterBlock ==
  /\ At("bump") /\ Block \in DOMAIN file.reft /\ file.reft[Block] = 0 /\ mem.len < HostClusters
  /\ file' = WithCluster(mem.len, Blank)
  /\ mem' = [mem EXCEPT !.len = @ + 1]
  /\ op' = [op EXCEPT !.pc = "table"]
  /\ UNCHANGED <<res, ops, faults>>

(* The block is entered in the table; its own cluster is counted first. *)
WriteTableEntry ==
  LET b == mem.len - 1 IN
  /\ At("table")
  /\ file' = [file EXCEPT !.reft[Block] = b]
  /\ op' = [op EXCEPT !.pc = "bump", !.idx = b, !.deferred = <<op.idx>> \o @]
  /\ UNCHANGED <<mem, res, ops, faults>>

WriteRefcount ==
  /\ At("bump") /\ Block \in DOMAIN file.reft /\ file.reft[Block] # 0
  /\ file' = [file EXCEPT !.ref[op.idx] = 1]
  /\ op' = IF op.deferred = <<>> THEN [op EXCEPT !.pc = op.ret]
           ELSE [op EXCEPT !.idx = Head(op.deferred), !.deferred = Tail(@)]
  /\ UNCHANGED <<mem, res, ops, faults>>

(* allocDataCluster: the whole cluster, its other words copied up. *)
WriteData ==
  /\ At("data")
  /\ file' = WithCluster(op.new,
               Patched([i \in 0 .. Width - 1 |->
                          IF C * Width + i < Size THEN View(C * Width + i) ELSE 0]))
  /\ op' = [op EXCEPT !.pc = "link", !.data = op.new]
  /\ UNCHANGED <<mem, res, ops, faults>>

(* setL2Entry: a missing L2 table is allocated, zeroed and linked first. *)
AllocL2 ==
  /\ At("link") /\ mem.l1[L1Idx(C)] = 0
  /\ allocCluster("zero")
  /\ UNCHANGED <<file, res, ops, faults>>

ZeroL2 ==
  /\ At("zero")
  /\ file' = WithCluster(op.new, Blank)
  /\ op' = [op EXCEPT !.pc = "l1"]
  /\ UNCHANGED <<mem, res, ops, faults>>

LinkL1 ==
  /\ At("l1")
  /\ file' = [file EXCEPT !.l1[L1Idx(C)] = op.new]
  /\ mem' = [mem EXCEPT !.l1[L1Idx(C)] = op.new]
  /\ op' = [op EXCEPT !.pc = "link"]
  /\ UNCHANGED <<res, ops, faults>>

updateL2Cache(l2Off, j, e) ==
  IF l2Off \in DOMAIN mem.cache THEN [mem.cache EXCEPT ![l2Off][j] = e] ELSE mem.cache

(* Mutant: the cached table keeps the old entry. *)
LinkL2_StaleCache ==
  LET l2Off == mem.l1[L1Idx(C)] IN
  /\ At("link") /\ l2Off # 0
  /\ file' = WithCluster(l2Off, [file.cell[l2Off] EXCEPT ![L2Idx(C)] = op.data])
  /\ op' = Advanced /\ res' = Outcome
  /\ UNCHANGED <<mem, ops, faults>>

LinkL2 ==
  LET l2Off == mem.l1[L1Idx(C)] IN
  /\ At("link") /\ l2Off # 0
  /\ file' = WithCluster(l2Off, [file.cell[l2Off] EXCEPT ![L2Idx(C)] = op.data])
  /\ mem' = [mem EXCEPT !.cache = updateL2Cache(l2Off, L2Idx(C), op.data)]
  /\ op' = Advanced /\ res' = Outcome
  /\ UNCHANGED <<ops, faults>>

-----------------------------------------------------------------------------
(* Errors and deaths. *)

Failed ==
  /\ faults < MaxFaults
  /\ op' = Idle /\ res' = "error" /\ faults' = faults + 1
  /\ UNCHANGED <<mem, ops>>

(* A write past the end of the disk, an image whose length is not a whole *)
(* number of clusters, or a refcount table that is full.                  *)
Refused ==
  /\ \/ At("next") /\ op.at >= Size
     \/ At("next") /\ op.at < Size /\ hostOffset(C) = 0 /\ mem.ragged
     \/ At("link") /\ mem.l1[L1Idx(C)] = 0 /\ mem.ragged
     \/ At("bump") /\ Block \notin DOMAIN file.reft
  /\ op' = Idle /\ res' = "error"
  /\ UNCHANGED <<file, mem, ops, faults>>

(* A write of the host file fails and leaves nothing. *)
WriteFails ==
  /\ \/ At("next") /\ op.at < Size /\ hostOffset(C) # 0
     \/ At("bump") /\ Block \in DOMAIN file.reft
     \/ \E pc \in {"table", "data", "zero", "l1"} : At(pc)
     \/ At("link") /\ mem.l1[L1Idx(C)] # 0
  /\ UNCHANGED file
  /\ Failed

(* A write of a whole cluster at the end of the file stops half way. *)
ShortWrite ==
  /\ \E pc \in {"data", "zero"} : At(pc)
  /\ op.new >= file.len
  /\ file' = [file EXCEPT !.len = op.new, !.ragged = TRUE]
  /\ Failed

(* A write in place stops after its first word. *)
ShortInPlace ==
  /\ At("next") /\ op.at < Size /\ hostOffset(C) # 0 /\ ClusterEnd > op.at + 1
  /\ file' = WithCluster(hostOffset(C),
               [file.cell[hostOffset(C)] EXCEPT ![InCluster(op.at)] = op.val])
  /\ Failed

(* The process dies; what it wrote is in the page cache. *)
Crash ==
  /\ mem.open /\ faults < MaxFaults
  /\ mem' = Closed /\ op' = Idle /\ faults' = faults + 1
  /\ res' = IF res = "busy" THEN "error" ELSE res
  /\ UNCHANGED <<file, ops>>

-----------------------------------------------------------------------------
(* Compact: the live clusters are written to a fresh image, which replaces *)
(* the old one with a rename.  A failure before the rename changes nothing. *)

(* f with the block that counts cluster h, if the table has room for it. *)
WithBlock(f, h) ==
  LET b == h \div Refs IN
  IF b \in DOMAIN f.reft /\ f.reft[b] = 0
  THEN [f EXCEPT !.reft[b] = f.len, !.len = @ + 1] ELSE f

(* f with one more cluster at its end, counted, and with the blocks that  *)
(* takes counted themselves.                                              *)
Grown(f) ==
  LET h == f.len
      first == WithBlock([f EXCEPT !.len = @ + 1], h)
      g == IF first.len > h + 1 THEN WithBlock(first, h + 1) ELSE first
  IN  [g EXCEPT !.ref = [i \in Hosts |-> IF i \in h .. g.len - 1 THEN 1 ELSE @[i]]]

setL2Entry(f, c, e) ==
  LET g == IF f.l1[L1Idx(c)] = 0
           THEN [Grown(f) EXCEPT !.l1[L1Idx(c)] = f.len, !.cell[f.len] = Blank] ELSE f
  IN  [g EXCEPT !.cell[g.l1[L1Idx(c)]][L2Idx(c)] = e]

WithData(f, c, content) ==
  setL2Entry([Grown(f) EXCEPT !.cell[f.len] = content], c, f.len)

(* What compactWalk does with guest cluster c of the old image. *)
Copied(f, c) ==
  LET l2Off == file.l1[L1Idx(c)]
      e == IF l2Off = 0 THEN 0 ELSE file.cell[l2Off][L2Idx(c)]
      content == [i \in 0 .. Width - 1 |->
                    IF c * Width + i < Size /\ e > 0 THEN file.cell[e][i] ELSE 0]
  IN  IF e = 0 THEN f
      ELSE IF content = Blank THEN setL2Entry(f, c, ZERO) ELSE WithData(f, c, content)

compactWalk ==
  LET walked[c \in 0 .. divCeil(Size, Width)] ==
        IF c = 0 THEN createQcow2(FALSE) ELSE Copied(walked[c - 1], c - 1)
  IN  walked[divCeil(Size, Width)]

Compact ==
  /\ ~mem.open /\ ops < MaxOps
  /\ compactWalk.len <= Refs * Cardinality(DOMAIN compactWalk.reft)
  /\ compactWalk.len <= HostClusters
  /\ file' = compactWalk
  /\ ops' = ops + 1
  /\ UNCHANGED <<mem, op, res, faults>>

Next ==
  \/ OpenWritable \/ Close \/ Compact
  \/ \E w \in 0 .. Size - 1 : ReadAt(w)
  \/ \E at \in 0 .. Size - 1, n \in 1 .. MaxRun, v \in Values : Begin(at, at + n, v)
  \/ WriteInPlace \/ AllocData \/ RegisterBlock \/ WriteTableEntry \/ WriteRefcount
  \/ WriteData \/ AllocL2 \/ ZeroL2 \/ LinkL1 \/ LinkL2
  \/ Refused \/ WriteFails \/ ShortWrite \/ ShortInPlace \/ Crash

Spec == Init /\ [][Next]_vars

-----------------------------------------------------------------------------
(* Properties. *)

GuestWords == 0 .. Size - 1

TypeOK ==
  /\ file.len \in 0 .. HostClusters /\ file.ragged \in BOOLEAN
  /\ file.cell \in [Hosts -> [0 .. Width - 1 -> Int]]
  /\ mem.open => mem.len >= file.len
  /\ res \in {"ok", "error", "busy"}
  /\ (res = "busy") = (op.pc # "idle")
  /\ ops \in 0 .. MaxOps /\ faults \in 0 .. MaxFaults

(* The number of table entries that refer to cluster h. *)
Tables == {file.l1[i] : i \in DOMAIN file.l1} \ {0}
DataRefs(h) == {p \in Tables \X (0 .. Width - 1) : file.cell[p[1]][p[2]] = h}
RefsTo(h) ==
  Cardinality(DataRefs(h))
  + Cardinality({i \in DOMAIN file.l1 : file.l1[i] = h})
  + Cardinality({b \in DOMAIN file.reft : file.reft[b] = h})

(* No two table entries of an image ever refer to one cluster, whatever    *)
(* allocation failed or process died half way; an entry refers to a        *)
(* cluster that is in the file, and what a data or L1 entry refers to is   *)
(* counted (allocCluster appends at the length it remembers, and writes    *)
(* and counts a cluster before it links it).                               *)
NoSharedCluster ==
  /\ TypeOK
  /\ \A h \in 1 .. HostClusters - 1 :
       /\ RefsTo(h) <= 1
       /\ RefsTo(h) = 1 => h < file.len
       /\ (DataRefs(h) # {} \/ h \in Tables) => file.ref[h] = 1
       /\ DataRefs(h) # {} => h >= file.meta

(* The refcount table, whose size is fixed when the image is created, is   *)
(* never full: allocation finds an entry for every cluster it appends.     *)
(* qcow2_write.go says so; it fails for some sizes, because the layout of  *)
(* an image without preallocation leaves its L2 tables out of the count.   *)
RefcountTableSuffices == op.pc = "bump" => Block \in DOMAIN file.reft

(* The image, with its tables, cache, copy-on-write and compaction, is a   *)
(* plain disk to the guest: a write changes only its own words, one that   *)
(* reported success is there for good, and failures, deaths and compaction *)
(* change nothing else.                                                    *)
Disk == INSTANCE BlockDev WITH
  Words <- GuestWords, Values <- Values \cup {Base[w] : w \in DOMAIN Base},
  disk <- [w \in GuestWords |-> View(w)],
  todo <- (op.at .. op.end - 1) \cap GuestWords,
  val <- op.val
IsDisk == Disk!Spec
=============================================================================
