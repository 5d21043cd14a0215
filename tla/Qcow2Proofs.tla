---------------------------- MODULE Qcow2Proofs ----------------------------
(***************************************************************************)
(* Theorems about Qcow2: no cluster of an image is ever used twice, and    *)
(* the image is a plain disk to the guest, for any sizes of clusters,      *)
(* disks, files and caches and any number of writes, compactions, failures *)
(* and crashes.                                                            *)
(*                                                                         *)
(* The inductive invariant, DiskInv, has four parts.  The image on disk:   *)
(* its entries are in range, no two are equal, and what is linked is       *)
(* counted (ImageOK).  The server: its tables and its cache are those of   *)
(* the file, which is never longer than it remembers (MemOK).  The write   *)
(* in progress: the clusters it has taken and not linked yet are referred  *)
(* to by nothing, and its copy holds what the disk reads, with the guest's *)
(* words in it (OpOK).  And the counters.                                  *)
(*                                                                         *)
(* Compaction builds the new image cluster by cluster with a recursive     *)
(* function: what holds of all of it is shown of a least cluster where it  *)
(* would fail.                                                             *)
(***************************************************************************)
EXTENDS Qcow2, FiniteSetTheorems, NaturalsInduction, WellFoundedInduction, TLAPS

(***************************************************************************)
(* The invariant, and where a word of the disk is.                         *)
(***************************************************************************)

L1Set == 0 .. L1Size - 1
Cols == 0 .. Width - 1
Cells == [Cols -> Int]
FileFields == {"len", "ragged", "meta", "l1", "reft", "ref", "cell"}

\* Entry j of L2 table i of image f.
Entry(f, i, j) == IF f.l1[i] = 0 THEN 0 ELSE f.cell[f.l1[i]][j]

\* The shape of an image.
ShapeOK(f) ==
    /\ f = [x \in FileFields |-> f[x]]
    /\ f.len \in 0 .. HostClusters /\ f.ragged \in BOOLEAN /\ f.meta \in Nat \ {0} /\ f.meta <= f.len
    /\ f.l1 \in [L1Set -> 0 .. f.len - 1]
    /\ f.reft = [b \in DOMAIN f.reft |-> f.reft[b]] /\ \A b \in DOMAIN f.reft : f.reft[b] \in 0 .. f.len - 1
    /\ f.ref = [h \in Hosts |-> f.ref[h]] /\ f.cell \in [Hosts -> Cells]
    /\ \A i \in L1Set, j \in Cols : Entry(f, i, j) \in {ZERO, 0} \cup (f.meta .. f.len - 1)

\* No cluster is referred to twice.
Apart(f) ==
    /\ \A i, k \in L1Set : f.l1[i] # 0 /\ f.l1[i] = f.l1[k] => i = k
    /\ \A b, c \in DOMAIN f.reft : f.reft[b] # 0 /\ f.reft[b] = f.reft[c] => b = c
    /\ \A i \in L1Set, b \in DOMAIN f.reft : f.l1[i] # 0 => f.l1[i] # f.reft[b]
    /\ \A i, k \in L1Set, j, m \in Cols : Entry(f, i, j) > 0 /\ Entry(f, i, j) = Entry(f, k, m) => i = k /\ j = m
    /\ \A i, k \in L1Set, j \in Cols : Entry(f, i, j) > 0 => Entry(f, i, j) # f.l1[k]
    /\ \A i \in L1Set, j \in Cols, b \in DOMAIN f.reft : Entry(f, i, j) > 0 => Entry(f, i, j) # f.reft[b]

\* What is linked is counted.
Counted(f) ==
    /\ \A i \in L1Set : f.l1[i] # 0 => f.ref[f.l1[i]] = 1
    /\ \A i \in L1Set, j \in Cols : Entry(f, i, j) > 0 => f.ref[Entry(f, i, j)] = 1

ImageOK(f) == ShapeOK(f) /\ Apart(f) /\ Counted(f)

\* Nothing refers to cluster h.
Unused(f, h) ==
    /\ \A i \in L1Set : f.l1[i] # h
    /\ \A b \in DOMAIN f.reft : f.reft[b] # h
    /\ \A i \in L1Set, j \in Cols : Entry(f, i, j) # h

Sizes == Width \in Nat \ {0} /\ Size \in Nat \ {0} /\ HostClusters \in Nat /\ L1Size \in Nat

\* Division with remainder.
LEMMA Divides == ASSUME NEW n \in Nat \ {0}, NEW x \in Nat
                 PROVE  x = n * (x \div n) + (x % n) /\ x % n \in 0 .. n - 1 /\ x \div n \in Nat
OBVIOUS

\* The sizes of the model are numbers.
LEMMA SizesOK == Sizes
<1>1. Width \in Nat \ {0} /\ Size \in Nat \ {0} /\ HostClusters \in Nat  BY Qcow2Assumption
<1> DEFINE m == Width * Width
<1>2. m \in Nat \ {0}  BY <1>1
<1> HIDE DEF m
<1>3. Size + m - 1 \in Nat  BY <1>1, <1>2
<1>4. (Size + m - 1) \div m \in Nat  BY <1>2, <1>3, Divides
<1>5. QED  BY <1>1, <1>4 DEF Sizes, L1Size, divCeil, m

\* Where a word of the disk is.
LEMMA Located ==
  ASSUME NEW w \in Nat, w < Size
  PROVE  /\ Cluster(w) \in Nat /\ L1Idx(Cluster(w)) \in L1Set /\ L2Idx(Cluster(w)) \in Cols /\ InCluster(w) \in Cols
         /\ w = Width * Cluster(w) + InCluster(w)
<1>1. Width \in Nat \ {0} /\ Size \in Nat \ {0}  BY SizesOK DEF Sizes
<1> DEFINE c == w \div Width
           r == w % Width
           i == c \div Width
           j == c % Width
           m == Width * Width
           k == (Size + m - 1) \div m
           t == (Size + m - 1) % m
<1>2. w = Width * c + r /\ r \in 0 .. Width - 1 /\ c \in Nat  BY <1>1, Divides
<1> HIDE DEF c, r
<1>3. c = Width * i + j /\ j \in 0 .. Width - 1 /\ i \in Nat  BY <1>1, <1>2, Divides
<1>4. m \in Nat \ {0}  BY <1>1
<1> HIDE DEF i, j
<1>5. m * i <= w
  <2>1. Width * (Width * i) = m * i  BY <1>1, <1>3
  <2>2. Width * c = Width * (Width * i) + Width * j  BY <1>1, <1>3
  <2>3. Width * j \in Nat /\ Width * c \in Nat /\ m * i \in Nat  BY <1>1, <1>2, <1>3, <1>4
  <2> HIDE DEF m
  <2>4. QED  BY <1>1, <1>2, <2>1, <2>2, <2>3
<1> HIDE DEF m
<1>6. Size + m - 1 \in Nat  BY <1>1, <1>4
<1>7. Size + m - 1 = m * k + t /\ t \in 0 .. m - 1 /\ k \in Nat  BY <1>4, <1>6, Divides
<1> HIDE DEF k, t
<1>8. i < k
  <2> SUFFICES ASSUME i >= k PROVE FALSE  BY <1>3, <1>7
  <2>1. m * k <= m * i  BY <1>3, <1>4, <1>7
  <2>2. m * k \in Nat /\ m * i \in Nat  BY <1>3, <1>4, <1>7
  <2>3. QED  BY <1>1, <1>4, <1>5, <1>7, <2>1, <2>2
<1>9. L1Size = k  BY DEF L1Size, divCeil, k, m
<1>10. QED  BY <1>2, <1>3, <1>7, <1>8, <1>9 DEF Cluster, InCluster, L1Idx, L2Idx, L1Set, Cols, c, r, i, j

\* The words of a cluster.
LEMMA InOne ==
  ASSUME NEW c \in Nat, NEW i \in Cols
  PROVE  Cluster(c * Width + i) = c /\ InCluster(c * Width + i) = i
<1>1. Width \in Nat \ {0}  BY SizesOK DEF Sizes
<1> DEFINE x == c * Width + i
           a == x \div Width
           r == x % Width
<1>2. c * Width \in Nat /\ x \in Nat  BY <1>1 DEF Cols
<1>3. x = c * Width + i  OBVIOUS
<1> HIDE DEF x
<1>4. x = Width * a + r /\ r \in 0 .. Width - 1 /\ a \in Nat  BY <1>1, <1>2, Divides
<1> HIDE DEF a, r
<1>5. a = c
  <2>1. CASE a < c
    <3>1. Width * (a + 1) <= Width * c  BY <1>1, <1>4, <2>1
    <3>2. Width * (a + 1) = Width * a + Width /\ Width * c = c * Width  BY <1>1, <1>4
    <3>3. Width * a \in Nat  BY <1>1, <1>4
    <3>4. QED  BY <1>1, <1>2, <1>3, <1>4, <3>1, <3>2, <3>3 DEF Cols
  <2>2. CASE c < a
    <3>1. Width * (c + 1) <= Width * a  BY <1>1, <1>4, <2>2
    <3>2. Width * (c + 1) = Width * c + Width /\ Width * c = c * Width  BY <1>1, <1>4
    <3>3. Width * a \in Nat  BY <1>1, <1>4
    <3>4. QED  BY <1>1, <1>2, <1>3, <1>4, <3>1, <3>2, <3>3 DEF Cols
  <2>3. QED  BY <1>4, <2>1, <2>2
<1>6. r = i
  <2>1. Width * a = c * Width  BY <1>1, <1>4, <1>5
  <2>2. QED  BY <1>1, <1>2, <1>3, <1>4, <2>1 DEF Cols
<1>7. QED  BY <1>5, <1>6 DEF Cluster, InCluster, a, r, x

\* What word w of the disk reads as in image f.
Reads(f, w) ==
    LET e == Entry(f, L1Idx(Cluster(w)), L2Idx(Cluster(w)))
    IN  IF e = 0 THEN backingOrZero(w) ELSE IF e = ZERO THEN 0 ELSE f.cell[e][InCluster(w)]

\* Memory agrees with the file, and the cache with the tables in it.
MemOK ==
    /\ mem.open \in BOOLEAN
    /\ ~mem.open => mem = Closed /\ op.pc = "idle"
    /\ mem.open => /\ mem = [open |-> TRUE, len |-> mem.len, ragged |-> mem.ragged, l1 |-> mem.l1, cache |-> mem.cache]
                   /\ mem.len \in file.len .. HostClusters /\ mem.l1 = file.l1
                   /\ \A t \in DOMAIN mem.cache : /\ mem.cache[t] = file.cell[t]
                                                  /\ \E i \in L1Set : file.l1[i] = t /\ t # 0

\* A cluster of the file, as memory has it, that nothing refers to.
Fresh(h) == h \in file.meta .. mem.len - 1 /\ Unused(file, h)

\* The content of the cluster being written, over what it reads as.
NewData == Patched([i \in 0 .. Width - 1 |-> IF C * Width + i < Size THEN Reads(file, C * Width + i) ELSE 0])

\* Its copy is in the file, counted, and not yet linked.
Holding == Fresh(op.data) /\ op.data < file.len /\ file.ref[op.data] = 1 /\ file.cell[op.data] = NewData

\* The cluster being allocated, and the copy that waits for its L2 table.
Allocating ==
    /\ op.ret \in {"data", "zero"} /\ Fresh(op.new)
    /\ op.ret = "zero" => Holding /\ op.data # op.new /\ file.l1[L1Idx(C)] = 0

\* The count that the loop of bumpRefcount owes in the end is that of the new cluster.
Owed == IF op.deferred = <<>> THEN op.idx ELSE op.deferred[Len(op.deferred)]

OpFields == {"pc", "at", "end", "val", "data", "new", "idx", "deferred", "ret"}

OpOK ==
    /\ op = [x \in OpFields |-> op[x]]
    /\ op.pc \in {"idle", "next", "bump", "table", "data", "link", "zero", "l1"}
    /\ op.pc = "idle" => op = Idle
    /\ op.at \in Nat /\ op.end \in Nat /\ op.val \in Values
    /\ op.pc # "idle" => op.at < op.end
    /\ op.pc \notin {"idle", "next"} => op.at < Size
    /\ op.pc \notin {"bump", "table"} => op.deferred = <<>>
    /\ op.pc \in {"bump", "table"} => Allocating /\ op.idx \in Hosts /\ op.deferred \in Seq(Hosts) /\ Owed = op.new
    /\ op.pc = "table" => /\ Fresh(mem.len - 1) /\ mem.len - 1 < file.len /\ mem.len - 1 # op.new
                          /\ op.ret = "zero" => mem.len - 1 # op.data
                          /\ Block \in DOMAIN file.reft
    /\ op.pc \in {"data", "zero", "l1"} => Allocating /\ file.ref[op.new] = 1
    /\ op.pc \in {"zero", "l1"} => op.ret = "zero"
    /\ op.pc = "data" => op.ret = "data"
    /\ op.pc = "l1" => op.new < file.len /\ file.cell[op.new] = Blank
    /\ op.pc = "link" => Holding

CountsOK == /\ res \in {"ok", "error", "busy"} /\ (res = "busy" <=> op.pc # "idle")
            /\ ops \in 0 .. MaxOps /\ faults \in 0 .. MaxFaults

DiskInv == ImageOK(file) /\ MemOK /\ OpOK /\ CountsOK

(***************************************************************************)
(* Steps that write or link one cluster.                                   *)
(***************************************************************************)

\* The fields that most steps leave alone.
SameLinks(f, f2) == f2.l1 = f.l1 /\ f2.reft = f.reft /\ f2.meta = f.meta
Rest(f, f2) ==
    /\ f2 = [x \in FileFields |-> f2[x]]
    /\ f2.len \in 0 .. HostClusters /\ f.len <= f2.len /\ f2.ragged \in BOOLEAN /\ f2.meta = f.meta
    /\ f2.ref = [h \in Hosts |-> f2.ref[h]] /\ \A h \in Hosts : f.ref[h] = 1 => f2.ref[h] = 1

\* Clusters of the file are clusters of the host.
LEMMA HostsOK ==
  ASSUME NEW f, ShapeOK(f)
  PROVE  /\ f.len \in Nat /\ f.meta \in Nat \ {0} /\ f.meta <= f.len /\ 0 .. f.len - 1 \subseteq Hosts
         /\ \A i \in L1Set : f.l1[i] \in Hosts
         /\ \A i \in L1Set, j \in Cols : Entry(f, i, j) \in Int /\ (Entry(f, i, j) > 0 => Entry(f, i, j) \in f.meta .. f.len - 1)
<1>1. HostClusters \in Nat  BY SizesOK DEF Sizes
<1>2. f.len \in Nat /\ f.meta \in Nat \ {0} /\ f.meta <= f.len /\ f.len <= HostClusters  BY <1>1 DEF ShapeOK
<1>3. 0 .. f.len - 1 \subseteq Hosts  BY <1>1, <1>2 DEF Hosts
<1>4. \A i \in L1Set : f.l1[i] \in Hosts  BY <1>3 DEF ShapeOK
<1>5. \A i \in L1Set, j \in Cols : Entry(f, i, j) \in {ZERO, 0} \cup (f.meta .. f.len - 1)  BY DEF ShapeOK
<1>6. QED  BY <1>2, <1>3, <1>4, <1>5 DEF ZERO

\* A step that changes no link.
LEMMA SameTables ==
  ASSUME NEW f, NEW f2, ImageOK(f), Rest(f, f2), SameLinks(f, f2), f2.cell \in [Hosts -> Cells],
         \A i \in L1Set, j \in Cols : Entry(f2, i, j) = Entry(f, i, j)
  PROVE  ImageOK(f2) /\ \A k : Unused(f, k) => Unused(f2, k)
<1>1. /\ f.len \in Nat /\ f.meta \in Nat \ {0} /\ f.meta <= f.len /\ 0 .. f.len - 1 \subseteq Hosts
      /\ \A i \in L1Set : f.l1[i] \in Hosts
      /\ \A i \in L1Set, j \in Cols : Entry(f, i, j) \in Int /\ (Entry(f, i, j) > 0 => Entry(f, i, j) \in f.meta .. f.len - 1)
  BY HostsOK DEF ImageOK
<1>2. f2.len \in Nat /\ f.len <= f2.len /\ \A x \in 0 .. f.len - 1 : x \in 0 .. f2.len - 1
  BY <1>1, SizesOK DEF Rest, Sizes
<1>3. ShapeOK(f2)
  <2>1. f2.l1 \in [L1Set -> 0 .. f2.len - 1]  BY <1>2 DEF ImageOK, ShapeOK, SameLinks
  <2>2. f2.reft = [b \in DOMAIN f2.reft |-> f2.reft[b]] /\ \A b \in DOMAIN f2.reft : f2.reft[b] \in 0 .. f2.len - 1
    BY <1>2 DEF ImageOK, ShapeOK, SameLinks
  <2>3. \A i \in L1Set, j \in Cols : Entry(f2, i, j) \in {ZERO, 0} \cup (f2.meta .. f2.len - 1)
    <3>1. \A x \in f.meta .. f.len - 1 : x \in f2.meta .. f2.len - 1  BY <1>1, <1>2 DEF Rest
    <3>2. QED  BY <3>1 DEF ImageOK, ShapeOK
  <2>4. f2.meta \in Nat \ {0} /\ f2.meta <= f2.len  BY <1>1, <1>2 DEF Rest
  <2>5. QED  BY <2>1, <2>2, <2>3, <2>4 DEF ShapeOK, Rest
<1>4. Apart(f2)  BY DEF Apart, ImageOK, SameLinks
<1>5. Counted(f2)
  <2>1. \A i \in L1Set, j \in Cols : Entry(f, i, j) > 0 => Entry(f, i, j) \in Hosts
    <3>1. \A x \in f.meta .. f.len - 1 : x \in 0 .. f.len - 1  BY <1>1
    <3>2. QED  BY <1>1, <3>1
  <2>2. QED  BY <1>1, <2>1 DEF Counted, ImageOK, SameLinks, Rest
<1>6. \A k : Unused(f, k) => Unused(f2, k)  BY DEF Unused, SameLinks
<1>7. QED  BY <1>3, <1>4, <1>5, <1>6 DEF ImageOK

\* A cluster that is no table is written.
LEMMA TouchImage ==
  ASSUME NEW f, NEW f2, ImageOK(f), Rest(f, f2), SameLinks(f, f2), NEW h \in Hosts, h # 0, NEW x \in Cells,
         f2.cell = [f.cell EXCEPT ![h] = x], \A i \in L1Set : f.l1[i] # h
  PROVE  /\ ImageOK(f2) /\ \A k : Unused(f, k) => Unused(f2, k)
         /\ \A i \in L1Set, j \in Cols : Entry(f2, i, j) = Entry(f, i, j)
<1>1. f.cell \in [Hosts -> Cells] /\ \A i \in L1Set : f.l1[i] \in Hosts  BY HostsOK DEF ImageOK, ShapeOK
<1>2. \A i \in L1Set, j \in Cols : Entry(f2, i, j) = Entry(f, i, j)  BY <1>1 DEF Entry, SameLinks
<1>3. f2.cell \in [Hosts -> Cells]  BY <1>1
<1>4. QED  BY <1>2, <1>3, SameTables

\* A blank L2 table is linked.
LEMMA LinkTable ==
  ASSUME NEW f, NEW f2, ImageOK(f), Rest(f, f2), f2.reft = f.reft, f2.cell = f.cell, NEW n \in L1Set, NEW h,
         f2.l1 = [f.l1 EXCEPT ![n] = h], f.l1[n] = 0, Unused(f, h), h \in f.meta .. f.len - 1,
         f.ref[h] = 1, f.cell[h] = Blank
  PROVE  /\ ImageOK(f2) /\ \A k : Unused(f, k) /\ k # h => Unused(f2, k)
         /\ \A i \in L1Set, j \in Cols : Entry(f2, i, j) = Entry(f, i, j)
<1>1. /\ f.len \in Nat /\ f.meta \in Nat \ {0} /\ f.meta <= f.len /\ 0 .. f.len - 1 \subseteq Hosts
      /\ \A i \in L1Set : f.l1[i] \in Hosts
      /\ \A i \in L1Set, j \in Cols : Entry(f, i, j) \in Int /\ (Entry(f, i, j) > 0 => Entry(f, i, j) \in f.meta .. f.len - 1)
  BY HostsOK DEF ImageOK
<1>2. h \in 0 .. f.len - 1 /\ h \in Hosts /\ h # 0 /\ h \in Nat  BY <1>1
<1>3. f2.len \in Nat /\ f.len <= f2.len /\ \A x \in 0 .. f.len - 1 : x \in 0 .. f2.len - 1
  BY <1>1, SizesOK DEF Rest, Sizes
<1>4. f2.l1 \in [L1Set -> 0 .. f2.len - 1] /\ f2.l1[n] = h /\ \A i \in L1Set : i # n => f2.l1[i] = f.l1[i]
  BY <1>2, <1>3 DEF ImageOK, ShapeOK
<1>5. \A i \in L1Set, j \in Cols : Entry(f2, i, j) = Entry(f, i, j)
  <2>1. \A j \in Cols : Entry(f2, n, j) = 0 /\ Entry(f, n, j) = 0
    <3>1. f2.cell[h] = Blank /\ \A j \in Cols : Blank[j] = 0  BY DEF Blank, Cols
    <3>2. QED  BY <1>2, <1>4, <3>1 DEF Entry
  <2>2. \A i \in L1Set, j \in Cols : i # n => Entry(f2, i, j) = Entry(f, i, j)  BY <1>4 DEF Entry
  <2>3. QED  BY <2>1, <2>2
<1>6. ShapeOK(f2)
  <2>1. f2.reft = [b \in DOMAIN f2.reft |-> f2.reft[b]] /\ \A b \in DOMAIN f2.reft : f2.reft[b] \in 0 .. f2.len - 1
    BY <1>3 DEF ImageOK, ShapeOK
  <2>2. \A i \in L1Set, j \in Cols : Entry(f2, i, j) \in {ZERO, 0} \cup (f2.meta .. f2.len - 1)
    <3>1. \A x \in f.meta .. f.len - 1 : x \in f2.meta .. f2.len - 1  BY <1>1, <1>3 DEF Rest
    <3>2. QED  BY <1>5, <3>1 DEF ImageOK, ShapeOK
  <2>3. f2.meta \in Nat \ {0} /\ f2.meta <= f2.len  BY <1>1, <1>3 DEF Rest
  <2>4. f2.cell \in [Hosts -> Cells]  BY DEF ImageOK, ShapeOK
  <2>5. QED  BY <1>4, <2>1, <2>2, <2>3, <2>4 DEF ShapeOK, Rest
<1>7. Apart(f2)
  <2>1. \A i, k \in L1Set : f2.l1[i] # 0 /\ f2.l1[i] = f2.l1[k] => i = k  BY <1>4 DEF ImageOK, Apart, Unused
  <2>2. \A i \in L1Set, b \in DOMAIN f2.reft : f2.l1[i] # 0 => f2.l1[i] # f2.reft[b]
    BY <1>4 DEF ImageOK, Apart, Unused
  <2>3. \A i, k \in L1Set, j \in Cols : Entry(f2, i, j) > 0 => Entry(f2, i, j) # f2.l1[k]
    BY <1>4, <1>5 DEF ImageOK, Apart, Unused
  <2>4. QED  BY <1>5, <2>1, <2>2, <2>3 DEF ImageOK, Apart
<1>8. Counted(f2)
  <2>1. \A i \in L1Set, j \in Cols : Entry(f, i, j) > 0 => Entry(f, i, j) \in Hosts
    <3>1. \A x \in f.meta .. f.len - 1 : x \in 0 .. f.len - 1  BY <1>1
    <3>2. QED  BY <1>1, <3>1
  <2>2. QED  BY <1>1, <1>2, <1>4, <1>5, <2>1 DEF Counted, ImageOK, Rest
<1>9. \A k : Unused(f, k) /\ k # h => Unused(f2, k)  BY <1>4, <1>5 DEF Unused
<1>10. QED  BY <1>5, <1>6, <1>7, <1>8, <1>9 DEF ImageOK

\* An entry of an L2 table is set.
LEMMA LinkEntry ==
  ASSUME NEW f, NEW f2, ImageOK(f), Rest(f, f2), SameLinks(f, f2), NEW n \in L1Set, NEW q \in Cols, NEW e,
         f.l1[n] # 0, f2.cell = [f.cell EXCEPT ![f.l1[n]] = [f.cell[f.l1[n]] EXCEPT ![q] = e]],
         e = ZERO \/ (Unused(f, e) /\ e \in f.meta .. f.len - 1 /\ f.ref[e] = 1)
  PROVE  /\ ImageOK(f2) /\ \A k : Unused(f, k) /\ k # e => Unused(f2, k)
         /\ \A i \in L1Set, j \in Cols : Entry(f2, i, j) = IF i = n /\ j = q THEN e ELSE Entry(f, i, j)
<1>1. /\ f.len \in Nat /\ f.meta \in Nat \ {0} /\ f.meta <= f.len /\ 0 .. f.len - 1 \subseteq Hosts
      /\ \A i \in L1Set : f.l1[i] \in Hosts
      /\ \A i \in L1Set, j \in Cols : Entry(f, i, j) \in Int /\ (Entry(f, i, j) > 0 => Entry(f, i, j) \in f.meta .. f.len - 1)
  BY HostsOK DEF ImageOK
<1>2. f2.len \in Nat /\ f.len <= f2.len /\ \A x \in 0 .. f.len - 1 : x \in 0 .. f2.len - 1
  BY <1>1, SizesOK DEF Rest, Sizes
<1>3. f.cell \in [Hosts -> Cells] /\ e \in Int /\ (e > 0 => e \in f.meta .. f.len - 1 /\ e \in Hosts /\ Unused(f, e) /\ f.ref[e] = 1)
  BY <1>1 DEF ImageOK, ShapeOK, ZERO
<1>4. /\ f2.cell \in [Hosts -> Cells] /\ \A t \in Hosts : t # f.l1[n] => f2.cell[t] = f.cell[t]
      /\ \A j \in Cols : f2.cell[f.l1[n]][j] = IF j = q THEN e ELSE f.cell[f.l1[n]][j]
  <2>1. f.cell[f.l1[n]] \in Cells  BY <1>1, <1>3
  <2>2. [f.cell[f.l1[n]] EXCEPT ![q] = e] \in Cells  BY <1>3, <2>1 DEF Cells
  <2>3. \A j \in Cols : [f.cell[f.l1[n]] EXCEPT ![q] = e][j] = IF j = q THEN e ELSE f.cell[f.l1[n]][j]
    BY <2>1 DEF Cells
  <2>4. QED  BY <1>1, <1>3, <2>2, <2>3
<1>5. \A i \in L1Set : i # n /\ f.l1[i] # 0 => f.l1[i] # f.l1[n]  BY DEF ImageOK, Apart
<1>6. \A i \in L1Set, j \in Cols : Entry(f2, i, j) = IF i = n /\ j = q THEN e ELSE Entry(f, i, j)
  <2>1. \A j \in Cols : Entry(f2, n, j) = IF j = q THEN e ELSE Entry(f, n, j)  BY <1>4 DEF Entry, SameLinks
  <2>2. \A i \in L1Set, j \in Cols : i # n => Entry(f2, i, j) = Entry(f, i, j)  BY <1>1, <1>4, <1>5 DEF Entry, SameLinks
  <2>3. QED  BY <2>1, <2>2
<1>7. ShapeOK(f2)
  <2>1. f2.l1 \in [L1Set -> 0 .. f2.len - 1]  BY <1>2 DEF ImageOK, ShapeOK, SameLinks
  <2>2. f2.reft = [b \in DOMAIN f2.reft |-> f2.reft[b]] /\ \A b \in DOMAIN f2.reft : f2.reft[b] \in 0 .. f2.len - 1
    BY <1>2 DEF ImageOK, ShapeOK, SameLinks
  <2>3. \A i \in L1Set, j \in Cols : Entry(f2, i, j) \in {ZERO, 0} \cup (f2.meta .. f2.len - 1)
    <3>1. \A x \in f.meta .. f.len - 1 : x \in f2.meta .. f2.len - 1  BY <1>1, <1>2 DEF Rest
    <3>2. \A i \in L1Set, j \in Cols : Entry(f, i, j) \in {ZERO, 0} \cup (f2.meta .. f2.len - 1)
      BY <3>1 DEF ImageOK, ShapeOK
    <3>3. e \in {ZERO, 0} \cup (f2.meta .. f2.len - 1)  BY <3>1
    <3>4. QED  BY <1>6, <3>2, <3>3
  <2>4. f2.meta \in Nat \ {0} /\ f2.meta <= f2.len  BY <1>1, <1>2 DEF Rest
  <2>5. QED  BY <1>4, <2>1, <2>2, <2>3, <2>4 DEF ShapeOK, Rest
<1>8. Apart(f2)
  <2>1. \A i, k \in L1Set, j, m \in Cols : Entry(f2, i, j) > 0 /\ Entry(f2, i, j) = Entry(f2, k, m) => i = k /\ j = m
    <3> SUFFICES ASSUME NEW i \in L1Set, NEW k \in L1Set, NEW j \in Cols, NEW m \in Cols,
                        Entry(f2, i, j) > 0, Entry(f2, i, j) = Entry(f2, k, m)
                 PROVE  i = k /\ j = m
      OBVIOUS
    <3>1. CASE i = n /\ j = q
      <4>1. Entry(f2, i, j) = e /\ Unused(f, e)  BY <1>3, <1>6, <3>1
      <4>2. Entry(f, k, m) # e  BY <4>1 DEF Unused
      <4>3. QED  BY <1>6, <3>1, <4>1, <4>2
    <3>2. CASE k = n /\ m = q
      <4>1. Entry(f2, k, m) = e /\ Unused(f, e)  BY <1>3, <1>6, <3>2
      <4>2. Entry(f, i, j) # e  BY <4>1 DEF Unused
      <4>3. QED  BY <1>6, <3>2, <4>1, <4>2
    <3>3. CASE ~(i = n /\ j = q) /\ ~(k = n /\ m = q)
      <4>1. Entry(f2, i, j) = Entry(f, i, j) /\ Entry(f2, k, m) = Entry(f, k, m)  BY <1>6, <3>3
      <4>2. Entry(f, i, j) > 0 /\ Entry(f, i, j) = Entry(f, k, m) => i = k /\ j = m  BY DEF ImageOK, Apart
      <4>3. QED  BY <4>1, <4>2
    <3>4. QED  BY <3>1, <3>2, <3>3
  <2>2. ASSUME NEW i \in L1Set, NEW j \in Cols, Entry(f2, i, j) > 0
        PROVE  /\ \A k \in L1Set : Entry(f2, i, j) # f2.l1[k]
               /\ \A b \in DOMAIN f2.reft : Entry(f2, i, j) # f2.reft[b]
    <3>1. CASE i = n /\ j = q
      <4>1. Entry(f2, i, j) = e /\ Unused(f, e)  BY <1>3, <1>6, <2>2, <3>1
      <4>2. QED  BY <4>1 DEF Unused, SameLinks
    <3>2. CASE ~(i = n /\ j = q)
      <4>1. Entry(f2, i, j) = Entry(f, i, j)  BY <1>6, <3>2
      <4>2. QED  BY <2>2, <4>1 DEF ImageOK, Apart, SameLinks
    <3>3. QED  BY <3>1, <3>2
  <2>3. QED  BY <2>1, <2>2 DEF ImageOK, Apart, SameLinks
<1>9. Counted(f2)
  <2>1. \A i \in L1Set, j \in Cols : Entry(f, i, j) > 0 => Entry(f, i, j) \in Hosts
    <3>1. \A x \in f.meta .. f.len - 1 : x \in 0 .. f.len - 1  BY <1>1
    <3>2. QED  BY <1>1, <3>1
  <2>2. \A i \in L1Set : f2.l1[i] # 0 => f2.ref[f2.l1[i]] = 1  BY <1>1 DEF ImageOK, Counted, Rest, SameLinks
  <2>3. ASSUME NEW i \in L1Set, NEW j \in Cols, Entry(f2, i, j) > 0 PROVE f2.ref[Entry(f2, i, j)] = 1
    <3>1. CASE i = n /\ j = q
      <4>1. Entry(f2, i, j) = e /\ e \in Hosts /\ f.ref[e] = 1  BY <1>3, <1>6, <2>3, <3>1
      <4>2. QED  BY <4>1 DEF Rest
    <3>2. CASE ~(i = n /\ j = q)
      <4>1. Entry(f2, i, j) = Entry(f, i, j)  BY <1>6, <3>2
      <4>2. QED  BY <2>1, <2>3, <4>1 DEF ImageOK, Counted, Rest
    <3>3. QED  BY <3>1, <3>2
  <2>4. QED  BY <2>2, <2>3 DEF Counted
<1>10. \A k : Unused(f, k) /\ k # e => Unused(f2, k)  BY <1>6 DEF Unused, SameLinks
<1>11. QED  BY <1>6, <1>7, <1>8, <1>9, <1>10 DEF ImageOK

\* A refcount block is entered in the table.
LEMMA LinkBlock ==
  ASSUME NEW f, NEW f2, ImageOK(f), Rest(f, f2), f2.l1 = f.l1, f2.cell = f.cell, NEW n \in DOMAIN f.reft, NEW h,
         f2.reft = [f.reft EXCEPT ![n] = h], Unused(f, h), h \in 1 .. f2.len - 1
  PROVE  /\ ImageOK(f2) /\ \A k : Unused(f, k) /\ k # h => Unused(f2, k)
         /\ \A i \in L1Set, j \in Cols : Entry(f2, i, j) = Entry(f, i, j)
         /\ DOMAIN f2.reft = DOMAIN f.reft
<1>1. /\ f.len \in Nat /\ f.meta \in Nat \ {0} /\ f.meta <= f.len /\ 0 .. f.len - 1 \subseteq Hosts
      /\ \A i \in L1Set : f.l1[i] \in Hosts
      /\ \A i \in L1Set, j \in Cols : Entry(f, i, j) \in Int /\ (Entry(f, i, j) > 0 => Entry(f, i, j) \in f.meta .. f.len - 1)
  BY HostsOK DEF ImageOK
<1>2. f2.len \in Nat /\ f.len <= f2.len /\ \A x \in 0 .. f.len - 1 : x \in 0 .. f2.len - 1
  BY <1>1, SizesOK DEF Rest, Sizes
<1>3. \A i \in L1Set, j \in Cols : Entry(f2, i, j) = Entry(f, i, j)  BY DEF Entry
<1>4. /\ DOMAIN f2.reft = DOMAIN f.reft /\ f2.reft = [b \in DOMAIN f2.reft |-> f2.reft[b]]
      /\ f2.reft[n] = h /\ \A b \in DOMAIN f.reft : b # n => f2.reft[b] = f.reft[b]
  OBVIOUS
<1>5. ShapeOK(f2)
  <2>1. f2.l1 \in [L1Set -> 0 .. f2.len - 1]  BY <1>2 DEF ImageOK, ShapeOK
  <2>2. \A b \in DOMAIN f2.reft : f2.reft[b] \in 0 .. f2.len - 1
    <3>1. h \in 0 .. f2.len - 1  BY <1>2
    <3>2. \A b \in DOMAIN f.reft : f.reft[b] \in 0 .. f2.len - 1  BY <1>2 DEF ImageOK, ShapeOK
    <3>3. QED  BY <1>4, <3>1, <3>2
  <2>3. \A i \in L1Set, j \in Cols : Entry(f2, i, j) \in {ZERO, 0} \cup (f2.meta .. f2.len - 1)
    <3>1. \A x \in f.meta .. f.len - 1 : x \in f2.meta .. f2.len - 1  BY <1>1, <1>2 DEF Rest
    <3>2. QED  BY <1>3, <3>1 DEF ImageOK, ShapeOK
  <2>4. f2.meta \in Nat \ {0} /\ f2.meta <= f2.len  BY <1>1, <1>2 DEF Rest
  <2>5. f2.cell \in [Hosts -> Cells]  BY DEF ImageOK, ShapeOK
  <2>6. QED  BY <1>4, <2>1, <2>2, <2>3, <2>4, <2>5 DEF ShapeOK, Rest
<1>6. Apart(f2)
  <2>1. \A b, c \in DOMAIN f2.reft : f2.reft[b] # 0 /\ f2.reft[b] = f2.reft[c] => b = c
    BY <1>4 DEF ImageOK, Apart, Unused
  <2>2. \A i \in L1Set, b \in DOMAIN f2.reft : f2.l1[i] # 0 => f2.l1[i] # f2.reft[b]  BY <1>4 DEF ImageOK, Apart, Unused
  <2>3. \A i \in L1Set, j \in Cols, b \in DOMAIN f2.reft : Entry(f2, i, j) > 0 => Entry(f2, i, j) # f2.reft[b]
    BY <1>3, <1>4 DEF ImageOK, Apart, Unused
  <2>4. QED  BY <1>3, <2>1, <2>2, <2>3 DEF ImageOK, Apart
<1>7. Counted(f2)
  <2>1. \A i \in L1Set, j \in Cols : Entry(f, i, j) > 0 => Entry(f, i, j) \in Hosts
    <3>1. \A x \in f.meta .. f.len - 1 : x \in 0 .. f.len - 1  BY <1>1
    <3>2. QED  BY <1>1, <3>1
  <2>2. QED  BY <1>1, <1>3, <2>1 DEF Counted, ImageOK, Rest
<1>8. \A k : Unused(f, k) /\ k # h => Unused(f2, k)  BY <1>3, <1>4 DEF Unused
<1>9. QED  BY <1>3, <1>4, <1>5, <1>6, <1>7, <1>8 DEF ImageOK

(***************************************************************************)
(* Compaction.                                                             *)
(***************************************************************************)

\* An image of any length, in the middle of a compaction.
Rough(f) == f = [x \in FileFields |-> f[x]] /\ f.len \in Nat /\ f.reft = [b \in DOMAIN f.reft |-> f.reft[b]]

\* A block may be appended for the counts of cluster h.
LEMMA WithBlockRough ==
  ASSUME NEW f, Rough(f), NEW h
  PROVE  LET g == WithBlock(f, h)
         IN  /\ Rough(g) /\ g.l1 = f.l1 /\ g.cell = f.cell /\ g.meta = f.meta /\ g.ref = f.ref /\ g.ragged = f.ragged
             /\ \/ g = f
                \/ \E b \in DOMAIN f.reft : g.len = f.len + 1 /\ g.reft = [f.reft EXCEPT ![b] = f.len]
             /\ DOMAIN g.reft = DOMAIN f.reft
<1> DEFINE b == h \div Refs
           g == WithBlock(f, h)
<1>1. CASE b \in DOMAIN f.reft /\ f.reft[b] = 0
  <2> DEFINE r == [f.reft EXCEPT ![b] = f.len]
             n == f.len + 1
             g2 == [f EXCEPT !.reft = r, !.len = n]
  <2>1. g = g2  BY <1>1 DEF WithBlock, Rough, FileFields
  <2>2. r = [c \in DOMAIN r |-> r[c]] /\ DOMAIN r = DOMAIN f.reft /\ n \in Nat  BY DEF Rough
  <2> HIDE DEF r, n
  <2>3. /\ Rough(g2) /\ g2.l1 = f.l1 /\ g2.cell = f.cell /\ g2.meta = f.meta /\ g2.ref = f.ref /\ g2.ragged = f.ragged
        /\ g2.len = n /\ g2.reft = r
    BY <2>2 DEF Rough, FileFields
  <2>4. QED  BY <1>1, <2>1, <2>2, <2>3 DEF r, n
<1>2. CASE ~(b \in DOMAIN f.reft /\ f.reft[b] = 0)
  <2>1. g = f  BY <1>2 DEF WithBlock
  <2>2. QED  BY <2>1
<1>3. QED  BY <1>1, <1>2

\* The same within the bound: the block is of its own.
LEMMA WithBlockOK ==
  ASSUME NEW f, ImageOK(f), NEW h, WithBlock(f, h).len <= HostClusters
  PROVE  LET g == WithBlock(f, h)
         IN  /\ ImageOK(g) /\ \A k : Unused(f, k) /\ k # f.len => Unused(g, k)
             /\ \A i \in L1Set, j \in Cols : Entry(g, i, j) = Entry(f, i, j)
<1> DEFINE g == WithBlock(f, h)
<1>1. Rough(f) /\ f.len \in Nat \ {0} /\ f.ragged \in BOOLEAN /\ f.ref = [x \in Hosts |-> f.ref[x]]
  BY HostsOK DEF ImageOK, ShapeOK, Rough
<1>2. /\ Rough(g) /\ g.l1 = f.l1 /\ g.cell = f.cell /\ g.meta = f.meta /\ g.ref = f.ref /\ g.ragged = f.ragged
      /\ \/ g = f
         \/ \E b \in DOMAIN f.reft : g.len = f.len + 1 /\ g.reft = [f.reft EXCEPT ![b] = f.len]
  BY <1>1, WithBlockRough
<1> HIDE DEF g
<1>3. CASE g = f  BY <1>3 DEF g
<1>4. ASSUME NEW b \in DOMAIN f.reft, g.len = f.len + 1, g.reft = [f.reft EXCEPT ![b] = f.len]
      PROVE  /\ ImageOK(g) /\ \A k : Unused(f, k) /\ k # f.len => Unused(g, k)
             /\ \A i \in L1Set, j \in Cols : Entry(g, i, j) = Entry(f, i, j)
  <2>1. Rest(f, g)
    <3>1. g.len \in 0 .. HostClusters /\ f.len <= g.len  BY <1>1, <1>2, <1>4, SizesOK DEF g, Sizes
    <3>2. QED  BY <1>1, <1>2, <3>1 DEF Rest, Rough
  <2>2. Unused(f, f.len)
    <3>1. \A i \in L1Set : f.l1[i] # f.len  BY <1>1 DEF ImageOK, ShapeOK
    <3>2. \A c \in DOMAIN f.reft : f.reft[c] # f.len  BY <1>1 DEF ImageOK, ShapeOK
    <3>3. \A i \in L1Set, j \in Cols : Entry(f, i, j) # f.len
      <4>1. \A x \in {ZERO, 0} \cup (f.meta .. f.len - 1) : x # f.len  BY <1>1, HostsOK DEF ZERO, ImageOK
      <4>2. QED  BY <4>1 DEF ImageOK, ShapeOK
    <3>4. QED  BY <3>1, <3>2, <3>3 DEF Unused
  <2>3. f.len \in 1 .. g.len - 1  BY <1>1, <1>4
  <2>4. QED  BY <1>2, <1>4, <2>1, <2>2, <2>3, LinkBlock
<1>5. QED  BY <1>2, <1>3, <1>4 DEF g

\* Nothing refers past the end of an image.
LEMMA BeyondUnused == ASSUME NEW f, ImageOK(f), NEW k \in Nat, k >= f.len PROVE Unused(f, k)
<1>1. f.len \in Nat \ {0} /\ f.meta \in Nat  BY HostsOK DEF ImageOK
<1>2. \A i \in L1Set : f.l1[i] # k  BY <1>1 DEF ImageOK, ShapeOK
<1>3. \A c \in DOMAIN f.reft : f.reft[c] # k  BY <1>1 DEF ImageOK, ShapeOK
<1>4. \A x \in {ZERO, 0} \cup (f.meta .. f.len - 1) : x # k  BY <1>1 DEF ZERO
<1>5. \A i \in L1Set, j \in Cols : Entry(f, i, j) # k  BY <1>4 DEF ImageOK, ShapeOK
<1>6. QED  BY <1>2, <1>3, <1>5 DEF Unused

\* A cluster is appended, with the blocks it takes.
LEMMA GrownRough ==
  ASSUME NEW f, Rough(f)
  PROVE  LET g == Grown(f)
         IN  /\ Rough(g) /\ g.len > f.len /\ g.l1 = f.l1 /\ g.cell = f.cell /\ g.meta = f.meta
             /\ DOMAIN g.reft = DOMAIN f.reft
<1> DEFINE h == f.len
           n == f.len + 1
           f1 == [f EXCEPT !.len = n]
           f2 == WithBlock(f1, h)
           f3 == IF f2.len > h + 1 THEN WithBlock(f2, h + 1) ELSE f2
           r == [i \in Hosts |-> IF i \in h .. f3.len - 1 THEN 1 ELSE f3.ref[i]]
           g == [f3 EXCEPT !.ref = r]
<1>1. n \in Nat /\ n > h /\ h \in Nat  BY DEF Rough
<1>2. f1 = [f EXCEPT !.len = f.len + 1]  OBVIOUS
<1> HIDE DEF n
<1>3. Rough(f1) /\ f1.len = n /\ f1.l1 = f.l1 /\ f1.cell = f.cell /\ f1.meta = f.meta /\ f1.reft = f.reft
  BY <1>1 DEF Rough, FileFields
<1> HIDE DEF f1
<1>4. /\ Rough(f2) /\ f2.len \in Nat /\ f2.len >= n /\ f2.l1 = f.l1 /\ f2.cell = f.cell /\ f2.meta = f.meta
      /\ DOMAIN f2.reft = DOMAIN f.reft
  <2>1. /\ Rough(f2) /\ f2.l1 = f1.l1 /\ f2.cell = f1.cell /\ f2.meta = f1.meta
        /\ f2 = f1 \/ f2.len = f1.len + 1
        /\ DOMAIN f2.reft = DOMAIN f1.reft
    BY <1>3, WithBlockRough
  <2> HIDE DEF f2
  <2>2. QED  BY <1>1, <1>3, <2>1 DEF Rough
<1>5. /\ Rough(f3) /\ f3.len \in Nat /\ f3.len >= n /\ f3.l1 = f.l1 /\ f3.cell = f.cell /\ f3.meta = f.meta
      /\ DOMAIN f3.reft = DOMAIN f.reft
  <2> DEFINE x == WithBlock(f2, h + 1)
  <2>1. /\ Rough(x) /\ x.l1 = f2.l1 /\ x.cell = f2.cell /\ x.meta = f2.meta
        /\ x = f2 \/ x.len = f2.len + 1
        /\ DOMAIN x.reft = DOMAIN f2.reft
    BY <1>4, WithBlockRough
  <2>2. f3 = x \/ f3 = f2  OBVIOUS
  <2> HIDE DEF x, f3, f2
  <2>3. QED  BY <1>1, <1>4, <2>1, <2>2 DEF Rough
<1>6. Grown(f) = g
  <2>1. g = [f3 EXCEPT !.ref = [i \in Hosts |-> IF i \in h .. f3.len - 1 THEN 1 ELSE f3.ref[i]]]  OBVIOUS
  <2>2. Grown(f) = [f3 EXCEPT !.ref = [i \in Hosts |-> IF i \in h .. f3.len - 1 THEN 1 ELSE f3.ref[i]]]
    BY <1>2 DEF Grown
  <2>3. QED  BY <2>1, <2>2
<1> HIDE DEF f3, r
<1>7. Rough(g) /\ g.len = f3.len /\ g.l1 = f3.l1 /\ g.cell = f3.cell /\ g.meta = f3.meta /\ g.reft = f3.reft
  BY <1>5 DEF Rough, FileFields
<1> HIDE DEF g
<1>8. g.len > h  BY <1>1, <1>5, <1>7
<1>9. QED  BY <1>5, <1>6, <1>7, <1>8

\* The same within the bound: the cluster is counted and nothing refers to it.
LEMMA GrownOK ==
  ASSUME NEW f, ImageOK(f), Grown(f).len <= HostClusters
  PROVE  LET g == Grown(f)
         IN  /\ ImageOK(g) /\ g.ref[f.len] = 1 /\ f.len \in g.meta .. g.len - 1
             /\ \A k \in Nat : Unused(f, k) /\ k <= f.len => Unused(g, k)
             /\ \A i \in L1Set, j \in Cols : Entry(g, i, j) = Entry(f, i, j)
             /\ \A x \in Hosts : f.ref[x] = 1 => g.ref[x] = 1
<1> DEFINE h == f.len
           n == f.len + 1
           f1 == [f EXCEPT !.len = n]
           f2 == WithBlock(f1, h)
           f3 == IF f2.len > h + 1 THEN WithBlock(f2, h + 1) ELSE f2
           r == [i \in Hosts |-> IF i \in h .. f3.len - 1 THEN 1 ELSE f3.ref[i]]
           g == [f3 EXCEPT !.ref = r]
<1>0. f = [x \in FileFields |-> f[x]] /\ f.len \in Nat \ {0} /\ f.meta \in Nat \ {0} /\ f.meta <= f.len /\ f.ragged \in BOOLEAN
      /\ f.ref = [x \in Hosts |-> f.ref[x]] /\ f.cell \in [Hosts -> Cells] /\ Rough(f)
  BY HostsOK DEF ImageOK, ShapeOK, Rough
<1>1. n \in Nat /\ n = h + 1 /\ h \in Nat  BY <1>0
<1>2. f1 = [f EXCEPT !.len = f.len + 1]  OBVIOUS
<1> HIDE DEF n
<1>3. /\ f1 = [x \in FileFields |-> f1[x]] /\ f1.len = n /\ f1.l1 = f.l1 /\ f1.cell = f.cell /\ f1.meta = f.meta
      /\ f1.ref = f.ref /\ f1.reft = f.reft /\ f1.ragged = f.ragged /\ Rough(f1)
  BY <1>0, <1>1 DEF FileFields, Rough
<1> HIDE DEF f1
<1>4. Rough(f2) /\ (f2 = f1 \/ f2.len = f1.len + 1)  BY <1>3, WithBlockRough
<1>5. Rough(f3) /\ (f3 = f2 \/ f3.len = f2.len + 1)
  <2> DEFINE x == WithBlock(f2, h + 1)
  <2>1. Rough(x) /\ (x = f2 \/ x.len = f2.len + 1)  BY <1>4, WithBlockRough
  <2>2. f3 = x \/ f3 = f2  OBVIOUS
  <2> HIDE DEF x, f3, f2
  <2>3. QED  BY <1>4, <2>1, <2>2
<1>6. Grown(f) = g
  <2>1. g = [f3 EXCEPT !.ref = [i \in Hosts |-> IF i \in h .. f3.len - 1 THEN 1 ELSE f3.ref[i]]]  OBVIOUS
  <2>2. Grown(f) = [f3 EXCEPT !.ref = [i \in Hosts |-> IF i \in h .. f3.len - 1 THEN 1 ELSE f3.ref[i]]]
    BY <1>2 DEF Grown
  <2>3. QED  BY <2>1, <2>2
<1>7. g.len = f3.len /\ g.l1 = f3.l1 /\ g.cell = f3.cell /\ g.meta = f3.meta /\ g.reft = f3.reft /\ g.ragged = f3.ragged
      /\ g.ref = r /\ g = [x \in FileFields |-> g[x]]
  <2> HIDE DEF r, f3
  <2>1. QED  BY <1>5 DEF Rough, FileFields
<1>8. f3.len <= HostClusters /\ f2.len <= HostClusters /\ n <= HostClusters
  <2> HIDE DEF f2, f3, g
  <2>1. f3.len <= HostClusters  BY <1>6, <1>7
  <2>2. QED  BY <1>1, <1>3, <1>4, <1>5, <2>1, SizesOK DEF Rough, Sizes
<1>9. ImageOK(f1) /\ (\A k : Unused(f, k) => Unused(f1, k)) /\ \A i \in L1Set, j \in Cols : Entry(f1, i, j) = Entry(f, i, j)
  <2>1. Rest(f, f1)
    <3>1. f1.len \in 0 .. HostClusters /\ f.len <= f1.len  BY <1>1, <1>3, <1>8, SizesOK DEF Sizes
    <3>2. QED  BY <1>0, <1>3, <3>1 DEF Rest
  <2>2. SameLinks(f, f1) /\ \A i \in L1Set, j \in Cols : Entry(f1, i, j) = Entry(f, i, j)  BY <1>3 DEF SameLinks, Entry
  <2>3. QED  BY <1>0, <1>3, <2>1, <2>2, SameTables
<1>10. /\ ImageOK(f2) /\ (\A k : Unused(f1, k) /\ k # n => Unused(f2, k))
       /\ \A i \in L1Set, j \in Cols : Entry(f2, i, j) = Entry(f1, i, j)
  BY <1>3, <1>8, <1>9, WithBlockOK
<1>11. f2.len \in Nat /\ f2.len >= n  BY <1>1, <1>3, <1>4 DEF Rough
<1> HIDE DEF f2
<1>12. /\ ImageOK(f3) /\ (\A k : Unused(f2, k) /\ k # f2.len => Unused(f3, k))
       /\ \A i \in L1Set, j \in Cols : Entry(f3, i, j) = Entry(f2, i, j)
  <2> DEFINE x == WithBlock(f2, h + 1)
  <2>1. CASE f2.len > h + 1
    <3>1. f3 = x  BY <2>1
    <3>2. x.len <= HostClusters  BY <1>8, <3>1
    <3>3. QED  BY <1>10, <3>1, <3>2, WithBlockOK
  <2>2. CASE ~(f2.len > h + 1)
    <3>1. f3 = f2  BY <2>2
    <3> HIDE DEF f3
    <3>2. QED  BY <1>10, <3>1
  <2>3. QED  BY <2>1, <2>2
<1>13. f3.len \in Nat /\ f3.len >= n
  <2> HIDE DEF f3
  <2>1. QED  BY <1>1, <1>5, <1>11 DEF Rough
<1>14. f3.ref = f.ref /\ f3.meta = f.meta
  <2>1. f2.ref = f1.ref /\ f2.meta = f1.meta  BY <1>3, WithBlockRough DEF f2
  <2> DEFINE x == WithBlock(f2, h + 1)
  <2>2. x.ref = f2.ref /\ x.meta = f2.meta  BY <1>4, WithBlockRough
  <2>3. f3 = x \/ f3 = f2  OBVIOUS
  <2> HIDE DEF x, f3
  <2>4. QED  BY <1>3, <2>1, <2>2, <2>3
<1> HIDE DEF f3
<1>15. /\ r = [x \in Hosts |-> r[x]] /\ r[h] = 1 /\ \A x \in Hosts : f.ref[x] = 1 => r[x] = 1
  <2>1. h \in Hosts /\ h \in h .. f3.len - 1  BY <1>1, <1>8, <1>13, SizesOK DEF Hosts, Sizes
  <2>2. QED  BY <1>14, <2>1
<1> HIDE DEF r
<1>16. Rest(f3, g)
  <2>1. f3.len \in 0 .. HostClusters /\ f3.ragged \in BOOLEAN  BY <1>12 DEF ImageOK, ShapeOK
  <2>2. QED  BY <1>7, <1>13, <1>14, <1>15, <2>1 DEF Rest
<1>17. SameLinks(f3, g) /\ (\A i \in L1Set, j \in Cols : Entry(g, i, j) = Entry(f3, i, j)) /\ g.cell \in [Hosts -> Cells]
  <2>1. f3.cell \in [Hosts -> Cells]  BY <1>12 DEF ImageOK, ShapeOK
  <2> HIDE DEF g
  <2>2. QED  BY <1>7, <2>1 DEF SameLinks, Entry
<1> HIDE DEF g
<1>18. ImageOK(g) /\ \A k : Unused(f3, k) => Unused(g, k)  BY <1>12, <1>16, <1>17, SameTables
<1>19. \A k \in Nat : Unused(f, k) /\ k <= f.len => Unused(g, k)
  <2>1. \A k \in Nat : k <= f.len => k # n /\ k # f2.len  BY <1>1, <1>11
  <2>2. QED  BY <1>9, <1>10, <1>12, <1>18, <2>1
<1>20. f.len \in g.meta .. g.len - 1  BY <1>0, <1>1, <1>7, <1>13, <1>14
<1>21. \A i \in L1Set, j \in Cols : Entry(g, i, j) = Entry(f, i, j)  BY <1>9, <1>10, <1>12, <1>17
<1>22. QED  BY <1>6, <1>7, <1>15, <1>18, <1>19, <1>20, <1>21

\* The L2 table of guest cluster c is there.
Tabled(f, c) ==
    IF f.l1[L1Idx(c)] = 0 THEN [Grown(f) EXCEPT !.l1[L1Idx(c)] = f.len, !.cell[f.len] = Blank] ELSE f

\* An L2 table is appended where there is none.
LEMMA TabledRough ==
  ASSUME NEW f, Rough(f), NEW c
  PROVE  /\ Rough(Tabled(f, c)) /\ Tabled(f, c).len >= f.len /\ Tabled(f, c).meta = f.meta
         /\ DOMAIN Tabled(f, c).reft = DOMAIN f.reft
<1>1. CASE f.l1[L1Idx(c)] # 0  BY <1>1 DEF Tabled, Rough
<1>2. CASE f.l1[L1Idx(c)] = 0
  <2> DEFINE g == Grown(f)
             l == [g.l1 EXCEPT ![L1Idx(c)] = f.len]
             x == [g.cell EXCEPT ![f.len] = Blank]
             t == [g EXCEPT !.l1 = l, !.cell = x]
  <2>1. Rough(g) /\ g.len > f.len /\ g.meta = f.meta /\ DOMAIN g.reft = DOMAIN f.reft  BY GrownRough
  <2> HIDE DEF g
  <2>2. Tabled(f, c) = t
    <3>1. Tabled(f, c) = [g EXCEPT !.l1[L1Idx(c)] = f.len, !.cell[f.len] = Blank]  BY <1>2 DEF Tabled, g
    <3>2. QED  BY <2>1, <3>1 DEF Rough, FileFields
  <2> HIDE DEF l, x
  <2>3. Rough(t) /\ t.len = g.len /\ t.meta = g.meta /\ t.reft = g.reft  BY <2>1 DEF Rough, FileFields
  <2> HIDE DEF t
  <2>4. QED  BY <2>1, <2>2, <2>3 DEF Rough
<1>3. QED  BY <1>1, <1>2

\* The same within the bound.
LEMMA TabledOK ==
  ASSUME NEW f, ImageOK(f), NEW c, L1Idx(c) \in L1Set, Tabled(f, c).len <= HostClusters
  PROVE  LET t == Tabled(f, c)
         IN  /\ ImageOK(t) /\ t.l1[L1Idx(c)] # 0 /\ t.meta = f.meta /\ t.len >= f.len
             /\ \A k \in Nat : Unused(f, k) /\ k < f.len => Unused(t, k)
             /\ \A i \in L1Set, j \in Cols : Entry(t, i, j) = Entry(f, i, j)
             /\ \A x \in Hosts : f.ref[x] = 1 => t.ref[x] = 1
             /\ \A x \in Hosts : x < f.len => t.cell[x] = f.cell[x]
             /\ \A i \in L1Set : t.l1[i] # f.l1[i] => t.l1[i] = f.len
<1>1. CASE f.l1[L1Idx(c)] # 0
  <2>1. Tabled(f, c) = f  BY <1>1 DEF Tabled
  <2>2. f.len \in Nat  BY HostsOK DEF ImageOK
  <2>3. QED  BY <1>1, <2>1, <2>2
<1>2. CASE f.l1[L1Idx(c)] = 0
  <2> DEFINE g == Grown(f)
             n == L1Idx(c)
             h == f.len
             l == [g.l1 EXCEPT ![n] = h]
             x == [g.cell EXCEPT ![h] = Blank]
             m == [g EXCEPT !.cell = x]
             t == [g EXCEPT !.l1 = l, !.cell = x]
  <2>1. Rough(f)  BY HostsOK DEF Rough, ImageOK, ShapeOK
  <2>2. Rough(g) /\ g.len > f.len /\ g.meta = f.meta /\ g.l1 = f.l1 /\ g.cell = f.cell  BY <2>1, GrownRough
  <2> HIDE DEF g
  <2>3. Tabled(f, c) = t
    <3>1. Tabled(f, c) = [g EXCEPT !.l1[n] = h, !.cell[h] = Blank]  BY <1>2 DEF Tabled, g
    <3>2. QED  BY <2>2, <3>1 DEF Rough, FileFields
  <2> HIDE DEF l, x
  <2>4. /\ t = [y \in FileFields |-> t[y]] /\ t.len = g.len /\ t.meta = g.meta /\ t.l1 = l /\ t.cell = x /\ t.reft = g.reft
        /\ t.ref = g.ref /\ t.ragged = g.ragged
    BY <2>2 DEF Rough, FileFields
  <2>5. /\ m = [y \in FileFields |-> m[y]] /\ m.len = g.len /\ m.meta = g.meta /\ m.l1 = g.l1 /\ m.cell = x /\ m.reft = g.reft
        /\ m.ref = g.ref /\ m.ragged = g.ragged
    BY <2>2 DEF Rough, FileFields
  <2> HIDE DEF m, t
  <2>6. g.len <= HostClusters  BY <2>3, <2>4
  <2>7. /\ ImageOK(g) /\ g.ref[h] = 1 /\ h \in g.meta .. g.len - 1
        /\ \A k \in Nat : Unused(f, k) /\ k <= f.len => Unused(g, k)
        /\ \A i \in L1Set, j \in Cols : Entry(g, i, j) = Entry(f, i, j)
        /\ \A y \in Hosts : f.ref[y] = 1 => g.ref[y] = 1
    BY <2>6, GrownOK DEF g
  <2>8. f.len \in Nat \ {0}  BY HostsOK DEF ImageOK
  <2>9. Unused(f, h) /\ Unused(g, h)  BY <2>7, <2>8, BeyondUnused
  <2>10. g.len \in 0 .. HostClusters /\ g.ragged \in BOOLEAN /\ g.ref = [y \in Hosts |-> g.ref[y]] /\ g.cell \in [Hosts -> Cells]
         /\ g.l1 \in [L1Set -> 0 .. g.len - 1]
    BY <2>7 DEF ImageOK, ShapeOK
  <2>11. h \in Hosts  BY <2>2, <2>6, <2>8, <2>10, SizesOK DEF Hosts, Sizes
  <2>12. Blank \in Cells  BY DEF Blank, Cells, Cols
  <2>13. Rest(g, m) /\ SameLinks(g, m) /\ Rest(m, t)  BY <2>4, <2>5, <2>10 DEF Rest, SameLinks
  <2>14. ImageOK(m) /\ (\A k : Unused(g, k) => Unused(m, k)) /\ \A i \in L1Set, j \in Cols : Entry(m, i, j) = Entry(g, i, j)
    <3>1. m.cell = [g.cell EXCEPT ![h] = Blank]  BY <2>5 DEF x
    <3>2. \A i \in L1Set : g.l1[i] # h  BY <2>9 DEF Unused
    <3>3. QED  BY <2>7, <2>8, <2>11, <2>12, <2>13, <3>1, <3>2, TouchImage
  <2>15. /\ ImageOK(t) /\ (\A k : Unused(m, k) /\ k # h => Unused(t, k))
         /\ \A i \in L1Set, j \in Cols : Entry(t, i, j) = Entry(m, i, j)
    <3>1. t.reft = m.reft /\ t.cell = m.cell /\ t.l1 = [m.l1 EXCEPT ![n] = h]  BY <2>4, <2>5 DEF l
    <3>2. m.l1[n] = 0 /\ Unused(m, h) /\ h \in m.meta .. m.len - 1 /\ m.ref[h] = 1
      BY <1>2, <2>2, <2>5, <2>7, <2>9, <2>14
    <3>3. m.cell[h] = Blank  BY <2>5, <2>10, <2>11 DEF x
    <3>4. QED  BY <2>13, <2>14, <3>1, <3>2, <3>3, LinkTable
  <2>16. t.l1[n] = h /\ \A i \in L1Set : i # n => t.l1[i] = f.l1[i]  BY <2>2, <2>4, <2>10 DEF l
  <2>17. \A y \in Hosts : y < f.len => t.cell[y] = f.cell[y]
    <3>1. \A y \in Hosts : y < f.len => y # h  BY <2>8 DEF Hosts
    <3>2. QED  BY <2>2, <2>4, <2>10, <2>11, <3>1 DEF x
  <2>18. \A k \in Nat : Unused(f, k) /\ k < f.len => Unused(t, k)
    <3>1. \A k \in Nat : k < f.len => k <= f.len /\ k # h  BY <2>8
    <3>2. QED  BY <2>7, <2>14, <2>15, <3>1
  <2>19. t.len >= f.len  BY <2>2, <2>4, <2>8, <2>10
  <2>20. QED  BY <2>2, <2>3, <2>4, <2>7, <2>8, <2>14, <2>15, <2>16, <2>17, <2>18, <2>19
<1>3. QED  BY <1>1, <1>2

\* setL2Entry on an image of any length.
LEMMA SetEntryRough ==
  ASSUME NEW f, Rough(f), NEW c, NEW e
  PROVE  /\ Rough(setL2Entry(f, c, e)) /\ setL2Entry(f, c, e).len >= f.len
         /\ DOMAIN setL2Entry(f, c, e).reft = DOMAIN f.reft
<1> DEFINE t == Tabled(f, c)
           x == [t.cell EXCEPT ![t.l1[L1Idx(c)]] = [t.cell[t.l1[L1Idx(c)]] EXCEPT ![L2Idx(c)] = e]]
           s == [t EXCEPT !.cell = x]
<1>1. Rough(t) /\ t.len >= f.len /\ DOMAIN t.reft = DOMAIN f.reft  BY TabledRough
<1>2. setL2Entry(f, c, e) = [t EXCEPT !.cell[t.l1[L1Idx(c)]][L2Idx(c)] = e]  BY DEF setL2Entry, Tabled
<1> HIDE DEF t
<1>3. setL2Entry(f, c, e) = s  BY <1>1, <1>2 DEF Rough, FileFields
<1> HIDE DEF x
<1>4. Rough(s) /\ s.len = t.len /\ s.reft = t.reft  BY <1>1 DEF Rough, FileFields
<1> HIDE DEF s
<1>5. QED  BY <1>1, <1>3, <1>4

\* Entry c of the tables is set.
LEMMA SetEntryOK ==
  ASSUME NEW f, ImageOK(f), NEW c, L1Idx(c) \in L1Set, L2Idx(c) \in Cols, NEW e,
         e = ZERO \/ (Unused(f, e) /\ e \in f.meta .. f.len - 1 /\ f.ref[e] = 1),
         setL2Entry(f, c, e).len <= HostClusters
  PROVE  LET s == setL2Entry(f, c, e)
         IN  /\ ImageOK(s) /\ s.meta = f.meta /\ s.len >= f.len
             /\ \A i \in L1Set, j \in Cols : Entry(s, i, j) = IF i = L1Idx(c) /\ j = L2Idx(c) THEN e ELSE Entry(f, i, j)
             /\ \A h \in Hosts : h < f.len /\ (\A i \in L1Set : f.l1[i] # h) => s.cell[h] = f.cell[h]
<1> DEFINE t == Tabled(f, c)
           n == L1Idx(c)
           q == L2Idx(c)
           x == [t.cell EXCEPT ![t.l1[n]] = [t.cell[t.l1[n]] EXCEPT ![q] = e]]
           s == [t EXCEPT !.cell = x]
<1>1. Rough(f)  BY HostsOK DEF Rough, ImageOK, ShapeOK
<1>2. Rough(t) /\ setL2Entry(f, c, e) = [t EXCEPT !.cell[t.l1[n]][q] = e]  BY <1>1, TabledRough DEF setL2Entry, Tabled
<1>3. t.len <= HostClusters =>
             /\ ImageOK(t) /\ t.l1[n] # 0 /\ t.meta = f.meta /\ t.len >= f.len
             /\ \A k \in Nat : Unused(f, k) /\ k < f.len => Unused(t, k)
             /\ \A i \in L1Set, j \in Cols : Entry(t, i, j) = Entry(f, i, j)
             /\ \A h \in Hosts : f.ref[h] = 1 => t.ref[h] = 1
             /\ \A h \in Hosts : h < f.len => t.cell[h] = f.cell[h]
             /\ \A i \in L1Set : t.l1[i] # f.l1[i] => t.l1[i] = f.len
  BY TabledOK
<1> HIDE DEF t
<1>4. setL2Entry(f, c, e) = s  BY <1>2 DEF Rough, FileFields
<1> HIDE DEF x
<1>5. /\ s = [y \in FileFields |-> s[y]] /\ s.len = t.len /\ s.meta = t.meta /\ s.l1 = t.l1 /\ s.cell = x /\ s.reft = t.reft
      /\ s.ref = t.ref /\ s.ragged = t.ragged
  BY <1>2 DEF Rough, FileFields
<1> HIDE DEF s
<1>6. t.len <= HostClusters  BY <1>4, <1>5
<1>7. Rest(t, s) /\ SameLinks(t, s)
  <2>1. t.len \in 0 .. HostClusters /\ t.ragged \in BOOLEAN /\ t.ref = [y \in Hosts |-> t.ref[y]]
    BY <1>3, <1>6 DEF ImageOK, ShapeOK
  <2>2. QED  BY <1>5, <2>1 DEF Rest, SameLinks
<1>8. f.len \in Nat \ {0} /\ t.len \in Nat /\ t.len >= f.len /\ f.meta \in Nat /\ 0 .. f.len - 1 \subseteq Hosts
  BY <1>3, <1>6, HostsOK DEF ImageOK
<1>9. e = ZERO \/ (Unused(t, e) /\ e \in t.meta .. t.len - 1 /\ t.ref[e] = 1)
  <2> SUFFICES ASSUME Unused(f, e) /\ e \in f.meta .. f.len - 1 /\ f.ref[e] = 1
               PROVE  Unused(t, e) /\ e \in t.meta .. t.len - 1 /\ t.ref[e] = 1
    OBVIOUS
  <2>1. e \in Nat /\ e < f.len /\ e \in 0 .. f.len - 1 /\ e \in t.meta .. t.len - 1  BY <1>3, <1>6, <1>8
  <2>2. QED  BY <1>3, <1>6, <1>8, <2>1
<1>10. ImageOK(s) /\ \A i \in L1Set, j \in Cols : Entry(s, i, j) = IF i = n /\ j = q THEN e ELSE Entry(t, i, j)
  <2>1. s.cell = [t.cell EXCEPT ![t.l1[n]] = [t.cell[t.l1[n]] EXCEPT ![q] = e]]  BY <1>5 DEF x
  <2>2. QED  BY <1>3, <1>6, <1>7, <1>9, <2>1, LinkEntry
<1>11. \A h \in Hosts : h < f.len /\ (\A i \in L1Set : f.l1[i] # h) => s.cell[h] = f.cell[h]
  <2> SUFFICES ASSUME NEW h \in Hosts, h < f.len, \A i \in L1Set : f.l1[i] # h PROVE s.cell[h] = f.cell[h]
    OBVIOUS
  <2>1. t.l1[n] # h  BY <1>3, <1>6, <1>8 DEF Hosts
  <2>2. t.cell \in [Hosts -> Cells]  BY <1>3, <1>6 DEF ImageOK, ShapeOK
  <2>3. s.cell[h] = t.cell[h]  BY <1>5, <2>1, <2>2 DEF x
  <2>4. QED  BY <1>3, <1>6, <2>3
<1>12. QED  BY <1>3, <1>4, <1>5, <1>6, <1>10, <1>11

\* WithData on an image of any length.
LEMMA WithDataRough ==
  ASSUME NEW f, Rough(f), NEW c, NEW content
  PROVE  /\ Rough(WithData(f, c, content)) /\ WithData(f, c, content).len > f.len
         /\ DOMAIN WithData(f, c, content).reft = DOMAIN f.reft
<1> DEFINE g == Grown(f)
           x == [g.cell EXCEPT ![f.len] = content]
           m == [g EXCEPT !.cell = x]
           s == setL2Entry(m, c, f.len)
<1>1. Rough(g) /\ g.len > f.len /\ DOMAIN g.reft = DOMAIN f.reft  BY GrownRough
<1>2. WithData(f, c, content) = setL2Entry([g EXCEPT !.cell[f.len] = content], c, f.len)  BY DEF WithData
<1> HIDE DEF g
<1>3. [g EXCEPT !.cell[f.len] = content] = m  BY <1>1 DEF Rough, FileFields
<1>4. WithData(f, c, content) = s  BY <1>2, <1>3
<1> HIDE DEF x
<1>5. Rough(m) /\ m.len = g.len /\ m.reft = g.reft  BY <1>1 DEF Rough, FileFields
<1> HIDE DEF m
<1>6. Rough(s) /\ s.len >= m.len /\ DOMAIN s.reft = DOMAIN m.reft  BY <1>5, SetEntryRough
<1> HIDE DEF s
<1>7. f.len \in Nat /\ g.len \in Nat /\ s.len \in Nat  BY <1>1, <1>6 DEF Rough
<1>8. QED  BY <1>1, <1>4, <1>5, <1>6, <1>7

\* A cluster of data is appended and linked.
LEMMA WithDataOK ==
  ASSUME NEW f, ImageOK(f), NEW c, L1Idx(c) \in L1Set, L2Idx(c) \in Cols, NEW content \in Cells,
         WithData(f, c, content).len <= HostClusters
  PROVE  LET s == WithData(f, c, content)
         IN  /\ ImageOK(s) /\ s.cell[f.len] = content /\ f.len > 0
             /\ \A i \in L1Set, j \in Cols : Entry(s, i, j) = IF i = L1Idx(c) /\ j = L2Idx(c) THEN f.len ELSE Entry(f, i, j)
             /\ \A h \in Hosts : h < f.len /\ (\A i \in L1Set : f.l1[i] # h) => s.cell[h] = f.cell[h]
<1> DEFINE g == Grown(f)
           h == f.len
           x == [g.cell EXCEPT ![h] = content]
           m == [g EXCEPT !.cell = x]
           s == setL2Entry(m, c, h)
<1>1. Rough(f) /\ h \in Nat \ {0}  BY HostsOK DEF Rough, ImageOK, ShapeOK
<1>2. Rough(g) /\ g.len > h /\ g.l1 = f.l1 /\ g.cell = f.cell /\ g.meta = f.meta  BY <1>1, GrownRough
<1>3. WithData(f, c, content) = setL2Entry([g EXCEPT !.cell[h] = content], c, h)  BY DEF WithData
<1>4. g.len <= HostClusters =>
             /\ ImageOK(g) /\ g.ref[h] = 1 /\ h \in g.meta .. g.len - 1
             /\ \A k \in Nat : Unused(f, k) /\ k <= h => Unused(g, k)
             /\ \A i \in L1Set, j \in Cols : Entry(g, i, j) = Entry(f, i, j)
  BY GrownOK
<1> HIDE DEF g
<1>5. WithData(f, c, content) = s
  <2>1. [g EXCEPT !.cell[h] = content] = m  BY <1>2 DEF Rough, FileFields
  <2>2. QED  BY <1>3, <2>1
<1> HIDE DEF x
<1>6. /\ m = [y \in FileFields |-> m[y]] /\ m.len = g.len /\ m.meta = g.meta /\ m.l1 = g.l1 /\ m.cell = x /\ m.reft = g.reft
      /\ m.ref = g.ref /\ m.ragged = g.ragged /\ Rough(m)
  BY <1>2 DEF Rough, FileFields
<1> HIDE DEF m
<1>7. Rough(s) /\ s.len >= m.len  BY <1>6, SetEntryRough
<1>8. g.len <= HostClusters /\ s.len <= HostClusters
  <2> HIDE DEF s
  <2>1. g.len \in Nat /\ s.len \in Nat  BY <1>2, <1>7 DEF Rough
  <2>2. QED  BY <1>5, <1>6, <1>7, <2>1, SizesOK DEF Sizes
<1>9. ImageOK(g) /\ Unused(g, h) /\ h \in g.meta .. g.len - 1 /\ g.ref[h] = 1  BY <1>1, <1>4, <1>8, BeyondUnused
<1>10. g.len \in 0 .. HostClusters /\ g.ragged \in BOOLEAN /\ g.ref = [y \in Hosts |-> g.ref[y]] /\ g.cell \in [Hosts -> Cells]
  BY <1>9 DEF ImageOK, ShapeOK
<1>11. h \in Hosts  BY <1>1, <1>2, <1>8, <1>10, SizesOK DEF Hosts, Sizes
<1>12. Rest(g, m) /\ SameLinks(g, m)  BY <1>6, <1>10 DEF Rest, SameLinks
<1>13. ImageOK(m) /\ Unused(m, h) /\ \A i \in L1Set, j \in Cols : Entry(m, i, j) = Entry(g, i, j)
  <2>1. m.cell = [g.cell EXCEPT ![h] = content]  BY <1>6 DEF x
  <2>2. \A i \in L1Set : g.l1[i] # h  BY <1>9 DEF Unused
  <2>3. QED  BY <1>1, <1>9, <1>11, <1>12, <2>1, <2>2, TouchImage
<1>14. /\ ImageOK(s) /\ s.meta = m.meta /\ s.len >= m.len
       /\ \A i \in L1Set, j \in Cols : Entry(s, i, j) = IF i = L1Idx(c) /\ j = L2Idx(c) THEN h ELSE Entry(m, i, j)
       /\ \A y \in Hosts : y < m.len /\ (\A i \in L1Set : m.l1[i] # y) => s.cell[y] = m.cell[y]
  <2>1. h \in m.meta .. m.len - 1 /\ m.ref[h] = 1  BY <1>6, <1>9
  <2>2. QED  BY <1>8, <1>13, <2>1, SetEntryOK
<1> HIDE DEF s
<1>15. s.cell[h] = content
  <2>1. m.cell[h] = content  BY <1>6, <1>10, <1>11 DEF x
  <2>2. h < m.len /\ \A i \in L1Set : m.l1[i] # h  BY <1>2, <1>6, <1>9 DEF Unused
  <2>3. QED  BY <1>11, <1>14, <2>1, <2>2
<1>16. \A y \in Hosts : y < f.len /\ (\A i \in L1Set : f.l1[i] # y) => s.cell[y] = f.cell[y]
  <2> SUFFICES ASSUME NEW y \in Hosts, y < h, \A i \in L1Set : f.l1[i] # y PROVE s.cell[y] = f.cell[y]
    OBVIOUS
  <2>1. y < m.len /\ y # h /\ \A i \in L1Set : m.l1[i] # y  BY <1>1, <1>2, <1>6, <1>10 DEF Hosts
  <2>2. m.cell[y] = f.cell[y]  BY <1>2, <1>6, <1>10, <2>1 DEF x
  <2>3. QED  BY <1>14, <2>1, <2>2
<1>17. QED  BY <1>1, <1>4, <1>5, <1>8, <1>13, <1>14, <1>15, <1>16

\* A fresh image is sound and holds nothing.
LEMMA FreshImage ==
  ASSUME NEW p \in BOOLEAN
  PROVE  LET f == createQcow2(p)
         IN  ImageOK(f) /\ f.ragged = FALSE /\ \A i \in L1Set, j \in Cols : Entry(f, i, j) = 0
<1> DEFINE r == computeQcow2Layout(p)
           dc == divCeil(L1Size, Width)
           meta == PhysMeta(r, p)
           off == meta - L1Size
           l == [i \in 0 .. L1Size - 1 |-> IF p THEN off + i ELSE 0]
           t == [b \in 0 .. TableEntries(p) - 1 |-> IF b < r.blocks THEN 1 + r.table + b ELSE 0]
           u == [h \in Hosts |-> IF h < meta THEN 1 ELSE 0]
           x == [h \in Hosts |-> Blank]
           f == createQcow2(p)
<1>1. r.blocks \in Nat /\ r.table \in Nat /\ meta <= HostClusters  BY LayoutAssumption
<1>2. Width \in Nat \ {0} /\ HostClusters \in Nat /\ L1Size \in Nat  BY SizesOK DEF Sizes
<1>3. dc \in Nat
  <2>1. L1Size + Width - 1 \in Nat  BY <1>2
  <2>2. QED  BY <1>2, <2>1, Divides DEF divCeil
<1>4. meta = 1 + r.table + r.blocks + dc + (IF p THEN L1Size ELSE 0)  BY DEF PhysMeta
<1>5. f = [len |-> meta, ragged |-> FALSE, meta |-> meta, l1 |-> l, reft |-> t, ref |-> u, cell |-> x]
  BY DEF createQcow2
<1> HIDE DEF r, dc, f
<1>6. meta \in Nat \ {0} /\ meta > r.table + r.blocks /\ (p => off \in Nat /\ off > r.table + r.blocks /\ off + L1Size = meta)
  BY <1>1, <1>2, <1>3, <1>4
<1> HIDE DEF meta
<1>7. /\ f = [y \in FileFields |-> f[y]] /\ f.len = meta /\ f.ragged = FALSE /\ f.meta = meta /\ f.l1 = l /\ f.reft = t
      /\ f.ref = u /\ f.cell = x
  <2> HIDE DEF l, t, u, x
  <2>1. QED  BY <1>5 DEF FileFields
<1>8. Blank \in Cells /\ \A j \in Cols : Blank[j] = 0  BY DEF Blank, Cells, Cols
<1>9. l \in [L1Set -> 0 .. meta - 1] /\ \A i \in L1Set : l[i] # 0 => p /\ l[i] = off + i
  BY <1>2, <1>6 DEF L1Set
<1>10. \A h \in 0 .. meta - 1 : h \in Hosts /\ u[h] = 1 /\ x[h] = Blank  BY <1>1, <1>2, <1>6 DEF Hosts
<1>11. \A b \in DOMAIN t : t[b] \in 0 .. meta - 1 /\ (t[b] # 0 => t[b] = 1 + r.table + b /\ b \in Int /\ b < r.blocks)
  <2> SUFFICES ASSUME NEW b \in 0 .. TableEntries(p) - 1
               PROVE  t[b] \in 0 .. meta - 1 /\ (t[b] # 0 => t[b] = 1 + r.table + b /\ b \in Int /\ b < r.blocks)
    OBVIOUS
  <2>1. b \in Nat  OBVIOUS
  <2>2. QED  BY <1>1, <1>6, <2>1
<1>13. t = [b \in DOMAIN t |-> t[b]] /\ u = [h \in Hosts |-> u[h]] /\ x \in [Hosts -> Cells]  BY <1>8
<1> HIDE DEF l, t, u, x, off
<1>12. \A i \in L1Set, j \in Cols : Entry(f, i, j) = 0
  <2>1. \A i \in L1Set : f.l1[i] \in 0 .. meta - 1  BY <1>7, <1>9
  <2>2. \A i \in L1Set, j \in Cols : f.cell[f.l1[i]][j] = 0  BY <1>7, <1>8, <1>10, <2>1
  <2>3. QED  BY <2>2 DEF Entry
<1>14. ShapeOK(f)
  <2>1. f.len \in 0 .. HostClusters /\ f.meta \in Nat \ {0} /\ f.meta <= f.len  BY <1>1, <1>2, <1>6, <1>7
  <2>2. QED  BY <1>7, <1>9, <1>11, <1>12, <1>13, <2>1 DEF ShapeOK
<1>15. Apart(f)
  <2>1. \A i, k \in L1Set : f.l1[i] # 0 /\ f.l1[i] = f.l1[k] => i = k  BY <1>2, <1>6, <1>7, <1>9 DEF L1Set
  <2>2. \A b, c \in DOMAIN f.reft : f.reft[b] # 0 /\ f.reft[b] = f.reft[c] => b = c  BY <1>1, <1>7, <1>11
  <2>3. \A i \in L1Set, b \in DOMAIN f.reft : f.l1[i] # 0 => f.l1[i] # f.reft[b]
    <3> SUFFICES ASSUME NEW i \in L1Set, NEW b \in DOMAIN t, l[i] # 0, l[i] = t[b] PROVE FALSE  BY <1>7
    <3>1. l[i] = off + i /\ off \in Nat /\ off > r.table + r.blocks /\ i \in Nat  BY <1>2, <1>6, <1>9 DEF L1Set
    <3>2. t[b] = 1 + r.table + b /\ b \in Int /\ b < r.blocks  BY <1>11
    <3>3. PICK k, n \in Nat : k = r.table /\ n = r.blocks  BY <1>1
    <3>4. off + i = 1 + k + b /\ off > k + n /\ b < n  BY <3>1, <3>2, <3>3
    <3>5. QED  BY <3>1, <3>2, <3>3, <3>4
  <2>4. QED  BY <1>12, <2>1, <2>2, <2>3 DEF Apart
<1>16. Counted(f)  BY <1>7, <1>9, <1>10, <1>12 DEF Counted
<1>17. QED  BY <1>7, <1>12, <1>14, <1>15, <1>16 DEF ImageOK, f

GuestClusters == divCeil(Size, Width)

\* The clusters of the disk.
LEMMA ClustersOK ==
  /\ GuestClusters \in Nat
  /\ \A c \in Nat : c < GuestClusters => L1Idx(c) \in L1Set /\ L2Idx(c) \in Cols
  /\ \A w \in Nat : w < Size => Cluster(w) < GuestClusters
<1>1. Width \in Nat \ {0} /\ Size \in Nat \ {0}  BY SizesOK DEF Sizes
<1> DEFINE n == (Size + Width - 1) \div Width
           t == (Size + Width - 1) % Width
<1>2. Size + Width - 1 \in Nat  BY <1>1
<1>3. Size + Width - 1 = Width * n + t /\ t \in 0 .. Width - 1 /\ n \in Nat  BY <1>1, <1>2, Divides
<1>4. GuestClusters = n  BY DEF GuestClusters, divCeil
<1> HIDE DEF n, t
<1>5. ASSUME NEW c \in Nat, c < n PROVE L1Idx(c) \in L1Set /\ L2Idx(c) \in Cols
  <2>1. Width * (c + 1) <= Width * n  BY <1>1, <1>3, <1>5
  <2>2. Width * (c + 1) = c * Width + Width /\ c * Width \in Nat /\ Width * n \in Nat  BY <1>1, <1>3
  <2>3. c * Width < Size  BY <1>1, <1>3, <2>1, <2>2
  <2>4. 0 \in Cols  BY <1>1 DEF Cols
  <2>5. Cluster(c * Width + 0) = c  BY <2>4, InOne
  <2>6. c * Width + 0 = c * Width  BY <2>2
  <2>7. QED  BY <2>2, <2>3, <2>5, <2>6, Located
<1>6. ASSUME NEW w \in Nat, w < Size PROVE Cluster(w) < n
  <2>1. Cluster(w) \in Nat /\ w = Width * Cluster(w) + InCluster(w) /\ InCluster(w) \in Nat  BY <1>1, <1>6, Located DEF Cols
  <2> SUFFICES ASSUME Cluster(w) >= n PROVE FALSE  BY <1>3, <2>1
  <2>2. Width * n <= Width * Cluster(w)  BY <1>1, <1>3, <2>1
  <2>3. Width * n \in Nat /\ Width * Cluster(w) \in Nat  BY <1>1, <1>3, <2>1
  <2>4. QED  BY <1>1, <1>3, <1>6, <2>1, <2>2, <2>3
<1>7. QED  BY <1>3, <1>4, <1>5, <1>6

\* Two clusters have two entries.
LEMMA OwnEntry ==
  ASSUME NEW c \in Nat, NEW d \in Nat, L1Idx(c) = L1Idx(d), L2Idx(c) = L2Idx(d)
  PROVE  c = d
<1>1. Width \in Nat \ {0}  BY SizesOK DEF Sizes
<1>2. c = Width * L1Idx(c) + L2Idx(c)  BY <1>1, Divides DEF L1Idx, L2Idx
<1>3. d = Width * L1Idx(d) + L2Idx(d)  BY <1>1, Divides DEF L1Idx, L2Idx
<1>4. QED  BY <1>2, <1>3

\* The compacted image holds the clusters below c as the old one does, and no other.
Holds(f, c) ==
    /\ ImageOK(f)
    /\ \A w \in Nat : w < Size /\ Cluster(w) < c => Reads(f, w) = Reads(file, w)
    /\ \A d \in Nat : d >= c /\ d < GuestClusters => Entry(f, L1Idx(d), L2Idx(d)) = 0

\* Image s is f with entry c set to e.
Sets(f, s, c, e) ==
    /\ \A i \in L1Set, j \in Cols : Entry(s, i, j) = IF i = L1Idx(c) /\ j = L2Idx(c) THEN e ELSE Entry(f, i, j)
    /\ \A h \in Hosts : h < f.len /\ (\A i \in L1Set : f.l1[i] # h) => s.cell[h] = f.cell[h]

\* Setting one entry leaves what the other clusters read.
LEMMA OthersRead ==
  ASSUME NEW f, ImageOK(f), NEW s, NEW c \in Nat, NEW e, c < GuestClusters, Sets(f, s, c, e)
  PROVE  /\ Entry(s, L1Idx(c), L2Idx(c)) = e
         /\ \A d \in Nat : d < GuestClusters /\ d # c => Entry(s, L1Idx(d), L2Idx(d)) = Entry(f, L1Idx(d), L2Idx(d))
         /\ \A w \in Nat : w < Size /\ Cluster(w) # c => Reads(s, w) = Reads(f, w)
<1>1. Entry(s, L1Idx(c), L2Idx(c)) = e  BY ClustersOK DEF Sets
<1>2. ASSUME NEW d \in Nat, d < GuestClusters, d # c
      PROVE  Entry(s, L1Idx(d), L2Idx(d)) = Entry(f, L1Idx(d), L2Idx(d))
  <2>1. L1Idx(d) \in L1Set /\ L2Idx(d) \in Cols  BY <1>2, ClustersOK
  <2>2. ~(L1Idx(d) = L1Idx(c) /\ L2Idx(d) = L2Idx(c))  BY <1>2, OwnEntry
  <2>3. QED  BY <2>1, <2>2 DEF Sets
<1>3. ASSUME NEW w \in Nat, w < Size, Cluster(w) # c PROVE Reads(s, w) = Reads(f, w)
  <2> DEFINE d == Cluster(w)
             x == Entry(f, L1Idx(d), L2Idx(d))
  <2>1. d \in Nat /\ d < GuestClusters /\ L1Idx(d) \in L1Set /\ L2Idx(d) \in Cols  BY <1>3, Located, ClustersOK
  <2>2. Entry(s, L1Idx(d), L2Idx(d)) = x  BY <1>2, <1>3, <2>1
  <2>3. CASE x = 0 \/ x = ZERO  BY <2>2, <2>3 DEF Reads
  <2>4. CASE x # 0 /\ x # ZERO
    <3>1. x \in f.meta .. f.len - 1 /\ x > 0 /\ x \in Hosts /\ x < f.len
      <4>1. x \in f.meta .. f.len - 1  BY <2>1, <2>4 DEF ImageOK, ShapeOK
      <4>2. f.len \in Nat /\ f.meta \in Nat \ {0} /\ 0 .. f.len - 1 \subseteq Hosts  BY HostsOK DEF ImageOK
      <4>3. QED  BY <4>1, <4>2
    <3>2. \A i \in L1Set : f.l1[i] # x  BY <2>1, <3>1 DEF ImageOK, Apart
    <3>3. s.cell[x] = f.cell[x]  BY <3>1, <3>2 DEF Sets
    <3>4. QED  BY <2>2, <3>3 DEF Reads
  <2>5. QED  BY <2>3, <2>4
<1>4. QED  BY <1>1, <1>2, <1>3

\* One cluster is copied.
LEMMA CopiedOK ==
  ASSUME ImageOK(file), NEW c \in Nat, c < GuestClusters, NEW f, Rough(f),
         f.len <= HostClusters => Holds(f, c)
  PROVE  LET s == Copied(f, c)
         IN  Rough(s) /\ (s.len <= HostClusters => Holds(s, c + 1))
<1> DEFINE e == Entry(file, L1Idx(c), L2Idx(c))
           content == [i \in 0 .. Width - 1 |-> IF c * Width + i < Size /\ e > 0 THEN file.cell[e][i] ELSE 0]
           s == Copied(f, c)
<1>1. L1Idx(c) \in L1Set /\ L2Idx(c) \in Cols  BY ClustersOK
<1>2. Copied(f, c) = IF e = 0 THEN f ELSE IF content = Blank THEN setL2Entry(f, c, ZERO) ELSE WithData(f, c, content)
  BY DEF Copied, Entry
<1>3. e \in {ZERO, 0} \cup (file.meta .. file.len - 1) /\ e \in Int  BY <1>1, HostsOK DEF ImageOK, ShapeOK
<1>4. content \in Cells
  <2>1. e > 0 => file.cell[e] \in Cells
    <3>1. e > 0 => e \in Hosts
      <4>1. file.meta \in Nat /\ file.len \in Nat /\ 0 .. file.len - 1 \subseteq Hosts  BY HostsOK DEF ImageOK
      <4>2. QED  BY <1>3, <4>1 DEF ZERO
    <3>2. QED  BY <3>1 DEF ImageOK, ShapeOK
  <2> HIDE DEF e
  <2>2. ASSUME NEW i \in 0 .. Width - 1 PROVE (IF c * Width + i < Size /\ e > 0 THEN file.cell[e][i] ELSE 0) \in Int
    <3>1. e > 0 => file.cell[e][i] \in Int  BY <2>1 DEF Cells, Cols
    <3>2. QED  BY <3>1
  <2>3. content \in [0 .. Width - 1 -> Int]  BY <2>2
  <2>4. QED  BY <2>3 DEF Cells, Cols
<1>5. ASSUME NEW w \in Nat, w < Size, Cluster(w) = c
      PROVE  /\ InCluster(w) \in Cols
             /\ e # 0 => Reads(file, w) = content[InCluster(w)]
             /\ e = 0 => Reads(file, w) = backingOrZero(w)
  <2>1. InCluster(w) \in Cols /\ w = Width * c + InCluster(w)  BY <1>5, Located
  <2>2. Width \in Nat /\ InCluster(w) \in 0 .. Width - 1  BY <2>1, SizesOK DEF Sizes, Cols
  <2>3. c * Width + InCluster(w) = w  BY <2>1, <2>2
  <2>4. content[InCluster(w)] = IF e > 0 THEN file.cell[e][InCluster(w)] ELSE 0  BY <1>5, <2>2, <2>3
  <2>5. e # 0 => (e = ZERO /\ ~(e > 0)) \/ (e # ZERO /\ e > 0)
    <3>1. file.meta \in Nat \ {0} /\ file.len \in Nat  BY HostsOK DEF ImageOK
    <3>2. QED  BY <1>3, <3>1 DEF ZERO
  <2>6. Reads(file, w) = IF e = 0 THEN backingOrZero(w) ELSE IF e = ZERO THEN 0 ELSE file.cell[e][InCluster(w)]
    BY <1>5 DEF Reads
  <2> HIDE DEF e, content
  <2>7. QED  BY <2>1, <2>4, <2>5, <2>6
<1>6. ASSUME NEW w \in Nat, w < Size PROVE Cluster(w) \in Nat  BY <1>6, Located
<1>7. CASE e = 0
  <2>1. s = f  BY <1>2, <1>7
  <2> HIDE DEF s
  <2>2. ASSUME Holds(f, c) PROVE Holds(f, c + 1)
    <3>1. \A d \in Nat : d >= c + 1 => d >= c  OBVIOUS
    <3>2. ASSUME NEW w \in Nat, w < Size, Cluster(w) < c + 1 PROVE Reads(f, w) = Reads(file, w)
      <4>1. Cluster(w) < c \/ Cluster(w) = c  BY <1>6, <3>2
      <4>2. ASSUME Cluster(w) = c PROVE Reads(f, w) = Reads(file, w)
        <5>1. Entry(f, L1Idx(c), L2Idx(c)) = 0  BY <2>2 DEF Holds
        <5>2. Reads(f, w) = backingOrZero(w)  BY <4>2, <5>1 DEF Reads
        <5>3. QED  BY <1>5, <1>7, <3>2, <4>2, <5>2
      <4>3. QED  BY <2>2, <3>2, <4>1, <4>2 DEF Holds
    <3>3. QED  BY <2>2, <3>1, <3>2 DEF Holds
  <2>3. QED  BY <2>1, <2>2 DEF s
<1>8. ASSUME NEW k, e # 0, Rough(s), s.len >= f.len, Holds(f, c), ImageOK(s),
             Sets(f, s, c, k),
             \/ k = ZERO /\ content = Blank
             \/ k \in Nat \ {0} /\ s.cell[k] = content
      PROVE  Holds(s, c + 1)
  <2> HIDE DEF s
  <2>0. ImageOK(f)  BY <1>8 DEF Holds
  <2>1. /\ Entry(s, L1Idx(c), L2Idx(c)) = k
        /\ \A d \in Nat : d < GuestClusters /\ d # c => Entry(s, L1Idx(d), L2Idx(d)) = Entry(f, L1Idx(d), L2Idx(d))
        /\ \A w \in Nat : w < Size /\ Cluster(w) # c => Reads(s, w) = Reads(f, w)
    <3> HIDE DEF e, content
    <3>1. QED  BY <1>8, <2>0, OthersRead
  <2>2. \A d \in Nat : d >= c + 1 /\ d < GuestClusters => Entry(s, L1Idx(d), L2Idx(d)) = 0
    <3>1. \A d \in Nat : d >= c + 1 => d >= c /\ d # c  OBVIOUS
    <3>2. QED  BY <1>8, <2>1, <3>1 DEF Holds
  <2>3. ASSUME NEW w \in Nat, w < Size, Cluster(w) < c + 1 PROVE Reads(s, w) = Reads(file, w)
    <3>1. (Cluster(w) < c /\ Cluster(w) # c) \/ Cluster(w) = c  BY <1>6, <2>3
    <3>2. ASSUME Cluster(w) = c PROVE Reads(s, w) = Reads(file, w)
      <4>1. Reads(file, w) = content[InCluster(w)] /\ InCluster(w) \in Cols  BY <1>5, <1>8, <2>3, <3>2
      <4>2. Reads(s, w) = IF k = 0 THEN backingOrZero(w) ELSE IF k = ZERO THEN 0 ELSE s.cell[k][InCluster(w)]
        BY <2>1, <3>2 DEF Reads
      <4>3. Blank[InCluster(w)] = 0  BY <4>1 DEF Blank, Cols
      <4> HIDE DEF content
      <4>4. QED  BY <1>8, <4>1, <4>2, <4>3 DEF ZERO
    <3>3. QED  BY <1>8, <2>1, <2>3, <3>1, <3>2 DEF Holds
  <2>4. QED  BY <1>8, <2>2, <2>3 DEF Holds
<1>9. f.len \in Nat /\ HostClusters \in Nat  BY SizesOK DEF Rough, Sizes
<1>10. CASE e # 0 /\ content = Blank
  <2>1. s = setL2Entry(f, c, ZERO)  BY <1>2, <1>10
  <2>2. Rough(s) /\ s.len >= f.len  BY <2>1, SetEntryRough
  <2>3. ASSUME s.len <= HostClusters PROVE Holds(s, c + 1)
    <3>1. Holds(f, c) /\ ImageOK(f)
      <4>1. s.len \in Nat  BY <2>2 DEF Rough
      <4> HIDE DEF s
      <4>2. f.len <= HostClusters  BY <1>9, <2>2, <2>3, <4>1
      <4>3. QED  BY <4>2 DEF Holds
    <3>2. /\ ImageOK(s)
          /\ Sets(f, s, c, ZERO)
      <4>1. setL2Entry(f, c, ZERO).len <= HostClusters  BY <2>1, <2>3
      <4>2. QED  BY <1>1, <2>1, <3>1, <4>1, SetEntryOK DEF Sets
    <3> HIDE DEF s, content, e
    <3>3. QED  BY <1>8, <1>10, <2>2, <3>1, <3>2
  <2>4. QED  BY <2>2, <2>3
<1>11. CASE e # 0 /\ content # Blank
  <2>1. s = WithData(f, c, content)  BY <1>2, <1>11
  <2>2. Rough(s) /\ s.len > f.len  BY <2>1, WithDataRough
  <2>3. ASSUME s.len <= HostClusters PROVE Holds(s, c + 1)
    <3>0. s.len \in Nat /\ s.len >= f.len
      <4>1. s.len \in Nat  BY <2>2 DEF Rough
      <4> HIDE DEF s
      <4>2. QED  BY <1>9, <2>2, <4>1
    <3>1. Holds(f, c) /\ ImageOK(f)
      <4> HIDE DEF s
      <4>2. f.len <= HostClusters  BY <1>9, <2>3, <3>0
      <4>3. QED  BY <4>2 DEF Holds
    <3>2. /\ ImageOK(s) /\ s.cell[f.len] = content /\ f.len > 0
          /\ Sets(f, s, c, f.len)
      <4>1. WithData(f, c, content).len <= HostClusters  BY <2>1, <2>3
      <4> HIDE DEF content
      <4>2. QED  BY <1>1, <1>4, <2>1, <3>1, <4>1, WithDataOK DEF Sets
    <3>3. f.len \in Nat \ {0}  BY <1>9, <3>2
    <3> HIDE DEF s, content, e
    <3>4. QED  BY <1>8, <1>11, <2>2, <3>0, <3>1, <3>2, <3>3
  <2>4. QED  BY <2>2, <2>3
<1>12. QED  BY <1>7, <1>10, <1>11

\* A set of numbers has a least member; the walk has no induction but this.
LEMMA LeastNumber == ASSUME NEW S \in SUBSET Nat, S # {} PROVE \E x \in S : \A y \in S : x <= y
<1>1. PICK R : R = {e \in Nat \X Nat : e[1] < e[2]}  OBVIOUS
<1>2. IsWellFoundedOn(R, Nat)  BY <1>1, NatLessThanWellFounded, Zenon DEF OpToRel
<1>3. PICK x \in S : \A y \in S : <<y, x>> \notin R  BY <1>2, WFMin
<1>4. \A y \in S : ~(y < x)  BY <1>1, <1>3
<1>5. \A y \in S : x <= y  BY <1>4
<1>6. QED  BY <1>5

\* Function g is the walk up to cluster n.
Walk(g, n) == g = [c \in 0 .. n |-> IF c = 0 THEN createQcow2(FALSE) ELSE Copied(g[c - 1], c - 1)]

\* The recursive function of compactWalk exists: no number is the least one without it.
LEMMA WalkExists == ASSUME NEW n \in Nat PROVE \E g : Walk(g, n)
<1> DEFINE S == {m \in Nat : ~\E g : Walk(g, m)}
<1> SUFFICES S = {}  OBVIOUS
<1> SUFFICES ASSUME S # {} PROVE FALSE  OBVIOUS
<1>1. PICK m \in S : \A y \in S : m <= y  BY LeastNumber
<1>2. CASE m = 0
  <2> DEFINE g == [c \in 0 .. 0 |-> createQcow2(FALSE)]
  <2>1. g = [c \in 0 .. 0 |-> IF c = 0 THEN createQcow2(FALSE) ELSE Copied(g[c - 1], c - 1)]  OBVIOUS
  <2>2. Walk(g, 0)  BY <2>1 DEF Walk
  <2>3. QED  BY <1>1, <1>2, <2>2
<1>3. CASE m # 0
  <2>1. m \in Nat /\ m - 1 \in Nat /\ m - 1 \notin S  BY <1>1, <1>3
  <2>2. PICK g : Walk(g, m - 1)  BY <2>1
  <2> DEFINE x == [c \in 0 .. m |-> IF c < m THEN g[c] ELSE Copied(g[m - 1], m - 1)]
  <2>3. ASSUME NEW c \in 0 .. m
        PROVE  x[c] = IF c = 0 THEN createQcow2(FALSE) ELSE Copied(x[c - 1], c - 1)
    <3>1. CASE c = 0
      <4>0. 0 < m /\ 0 \in 0 .. m /\ 0 \in 0 .. m - 1  BY <1>3, <2>1
      <4>1. x[0] = g[0]  BY <4>0
      <4>3. g[0] = createQcow2(FALSE)  BY <2>2, <4>0 DEF Walk
      <4>2. QED  BY <3>1, <4>1, <4>3
    <3>2. CASE c # 0 /\ c < m
      <4>1. c \in 0 .. m - 1 /\ c - 1 \in 0 .. m /\ c - 1 < m  BY <2>1, <3>2
      <4>2. x[c] = g[c] /\ x[c - 1] = g[c - 1]  BY <3>2, <4>1
      <4>3. g[c] = Copied(g[c - 1], c - 1)  BY <2>2, <3>2, <4>1 DEF Walk
      <4>4. QED  BY <3>2, <4>2, <4>3
    <3>3. CASE c = m
      <4>1. x[m] = Copied(g[m - 1], m - 1) /\ x[m - 1] = g[m - 1]  BY <2>1
      <4>2. QED  BY <1>3, <3>3, <4>1
    <3>4. c < m \/ c = m  BY <2>1
    <3> HIDE DEF x, S
    <3>5. QED  BY <3>1, <3>2, <3>3, <3>4
  <2>4. x = [c \in 0 .. m |-> x[c]]  OBVIOUS
  <2> HIDE DEF x
  <2>5. Walk(x, m)  BY <2>3, <2>4 DEF Walk
  <2>6. QED  BY <1>1, <2>5
<1>4. QED  BY <1>2, <1>3

\* The compacted image reads as the old one.
LEMMA CompactOK ==
  ASSUME ImageOK(file), compactWalk.len <= HostClusters
  PROVE  ImageOK(compactWalk) /\ \A w \in Nat : w < Size => Reads(compactWalk, w) = Reads(file, w)
<1> DEFINE g == CHOOSE g : Walk(g, GuestClusters)
           n == GuestClusters
<1>1. n \in Nat  BY ClustersOK
<1>2. compactWalk = g[n]  BY DEF compactWalk, GuestClusters, Walk
<1>3. Walk(g, n)  BY <1>1, WalkExists
<1> HIDE DEF g, n
<1>4. g[0] = createQcow2(FALSE) /\ \A c \in 1 .. n : g[c] = Copied(g[c - 1], c - 1)
  <2>1. g[0] = createQcow2(FALSE)  BY <1>1, <1>3 DEF Walk
  <2>2. ASSUME NEW c \in 1 .. n PROVE g[c] = Copied(g[c - 1], c - 1)
    <3>1. c \in 0 .. n /\ c # 0  BY <1>1
    <3>2. QED  BY <1>3, <3>1 DEF Walk
  <2>3. QED  BY <2>1, <2>2
<1> DEFINE S == {c \in Nat : c <= n /\ ~(Rough(g[c]) /\ (g[c].len <= HostClusters => Holds(g[c], c)))}
<1>5. S = {}
  <2> SUFFICES ASSUME S # {} PROVE FALSE  OBVIOUS
  <2>1. PICK c \in S : \A y \in S : c <= y  BY LeastNumber
  <2>2. CASE c = 0
    <3> DEFINE f == createQcow2(FALSE)
    <3>1. ImageOK(f) /\ \A i \in L1Set, j \in Cols : Entry(f, i, j) = 0  BY FreshImage
    <3> HIDE DEF f
    <3>2. Rough(f)  BY <3>1, HostsOK DEF Rough, ImageOK, ShapeOK
    <3>3. \A w \in Nat : w < Size => ~(Cluster(w) < 0)  BY Located
    <3>4. Holds(f, 0)  BY <3>1, <3>3, ClustersOK DEF Holds
    <3>5. g[0] = f  BY <1>4 DEF f
    <3>6. QED  BY <2>1, <2>2, <3>2, <3>4, <3>5
  <2>3. CASE c # 0
    <3>1. c - 1 \in Nat /\ c - 1 \notin S /\ c - 1 < n /\ c \in 1 .. n /\ c - 1 + 1 = c  BY <1>1, <2>1, <2>3
    <3>2. Rough(g[c - 1]) /\ (g[c - 1].len <= HostClusters => Holds(g[c - 1], c - 1))  BY <1>1, <3>1
    <3>3. g[c] = Copied(g[c - 1], c - 1)  BY <1>4, <3>1
    <3>4. Rough(g[c]) /\ (g[c].len <= HostClusters => Holds(g[c], c - 1 + 1))  BY <3>1, <3>2, <3>3, CopiedOK DEF n
    <3>5. QED  BY <2>1, <3>1, <3>4
  <2>4. QED  BY <2>2, <2>3
<1>6. Holds(g[n], n)
  <2>1. n \notin S  BY <1>5
  <2>2. QED  BY <1>1, <1>2, <2>1
<1>7. QED  BY <1>2, <1>6, ClustersOK DEF Holds, n

(***************************************************************************)
(* What the guest reads, and the steps of the server.                      *)
(***************************************************************************)

Keeps(f, f2) == \A w \in Nat : w < Size => Reads(f2, w) = Reads(f, w)

\* A word reads the same where its entry and its cluster do.
LEMMA ReadsSame ==
  ASSUME NEW f, ImageOK(f), NEW f2, NEW w \in Nat, w < Size,
         \A i \in L1Set, j \in Cols : Entry(f2, i, j) = Entry(f, i, j),
         LET e == Entry(f, L1Idx(Cluster(w)), L2Idx(Cluster(w))) IN e > 0 => f2.cell[e] = f.cell[e]
  PROVE  Reads(f2, w) = Reads(f, w)
<1> DEFINE d == Cluster(w)
           e == Entry(f, L1Idx(d), L2Idx(d))
<1>1. L1Idx(d) \in L1Set /\ L2Idx(d) \in Cols  BY Located
<1>2. Entry(f2, L1Idx(d), L2Idx(d)) = e  BY <1>1
<1>3. e = 0 \/ e = ZERO \/ e > 0
  <2>1. e \in {ZERO, 0} \cup (f.meta .. f.len - 1) /\ f.meta \in Nat \ {0} /\ f.len \in Nat  BY <1>1, HostsOK DEF ImageOK, ShapeOK
  <2> HIDE DEF e
  <2>2. QED  BY <2>1
<1>4. QED  BY <1>2, <1>3 DEF Reads

\* What an image reads is a number.
LEMMA ReadsInt == ASSUME NEW f, ImageOK(f), NEW w \in Nat, w < Size PROVE Reads(f, w) \in Int
<1> DEFINE d == Cluster(w)
           e == Entry(f, L1Idx(d), L2Idx(d))
<1>1. L1Idx(d) \in L1Set /\ L2Idx(d) \in Cols /\ InCluster(w) \in Cols  BY Located
<1>2. backingOrZero(w) \in Int  BY Qcow2Assumption DEF backingOrZero
<1>3. e = 0 \/ e = ZERO \/ f.cell[e][InCluster(w)] \in Int
  <2>1. e \in {ZERO, 0} \cup (f.meta .. f.len - 1) /\ f.meta \in Nat \ {0} /\ f.len \in Nat /\ 0 .. f.len - 1 \subseteq Hosts
    BY <1>1, HostsOK DEF ImageOK, ShapeOK
  <2>2. f.cell \in [Hosts -> Cells]  BY DEF ImageOK, ShapeOK
  <2> HIDE DEF e
  <2>3. e = 0 \/ e = ZERO \/ e \in Hosts  BY <2>1
  <2>4. QED  BY <1>1, <2>2, <2>3 DEF Cells
<1>4. QED  BY <1>2, <1>3 DEF Reads

\* The tables in memory are the ones in the file.
LEMMA Cached ==
  ASSUME DiskInv, mem.open, NEW i \in L1Set, NEW j \in Cols
  PROVE  (IF mem.l1[i] = 0 THEN 0 ELSE l2EntryAt(mem.cache, mem.l1[i], j)) = Entry(file, i, j)
BY DEF DiskInv, MemOK, l2EntryAt, Entry

\* What the guest sees, through memory or not, is what the file reads as.
LEMMA ViewReads == DiskInv => \A w \in Nat : w < Size => View(w) = Reads(file, w)
<1> SUFFICES ASSUME DiskInv, NEW w \in Nat, w < Size PROVE View(w) = Reads(file, w)  OBVIOUS
<1> DEFINE i == L1Idx(Cluster(w))
           j == L2Idx(Cluster(w))
<1>1. i \in L1Set /\ j \in Cols  BY Located
<1>2. CASE mem.open
  <2>1. (IF mem.l1[i] = 0 THEN 0 ELSE l2EntryAt(mem.cache, mem.l1[i], j)) = Entry(file, i, j)  BY <1>1, <1>2, Cached
  <2>2. QED  BY <1>2, <2>1 DEF View, resolve, Reads
<1>3. CASE ~mem.open
  <2>1. DOMAIN <<>> = {}  OBVIOUS
  <2>2. (IF file.l1[i] = 0 THEN 0 ELSE l2EntryAt(<<>>, file.l1[i], j)) = Entry(file, i, j)  BY <2>1 DEF l2EntryAt, Entry
  <2>3. QED  BY <1>3, <2>2 DEF View, resolve, Reads
<1>4. QED  BY <1>2, <1>3

\* The cluster that may be written in place.
LEMMA HostOffset ==
  ASSUME DiskInv, mem.open, NEW c \in Nat, c < GuestClusters
  PROVE  LET e == Entry(file, L1Idx(c), L2Idx(c))
         IN  /\ L1Idx(c) \in L1Set /\ L2Idx(c) \in Cols
             /\ hostOffset(c) = IF e = ZERO THEN 0 ELSE e
             /\ hostOffset(c) # 0 => e = hostOffset(c) /\ e > 0 /\ e \in Hosts /\ e \in file.meta .. file.len - 1
<1> DEFINE e == Entry(file, L1Idx(c), L2Idx(c))
<1>1. L1Idx(c) \in L1Set /\ L2Idx(c) \in Cols  BY ClustersOK
<1>2. hostOffset(c) = IF e = ZERO THEN 0 ELSE e
  <2>1. (IF mem.l1[L1Idx(c)] = 0 THEN 0 ELSE l2EntryAt(mem.cache, mem.l1[L1Idx(c)], L2Idx(c))) = e  BY <1>1, Cached
  <2>2. QED  BY <2>1 DEF hostOffset
<1>3. e \in {ZERO, 0} \cup (file.meta .. file.len - 1) /\ file.meta \in Nat \ {0} /\ file.len \in Nat /\ 0 .. file.len - 1 \subseteq Hosts
  BY <1>1, HostsOK DEF DiskInv, ImageOK, ShapeOK
<1> HIDE DEF e
<1>4. e # ZERO /\ e # 0 => e > 0 /\ e \in Hosts /\ e \in file.meta .. file.len - 1  BY <1>3
<1>5. QED  BY <1>1, <1>2, <1>4 DEF e

CacheIn(f, cache) == \A t \in DOMAIN cache : cache[t] = f.cell[t] /\ \E i \in L1Set : f.l1[i] = t /\ t # 0

\* A lookup leaves the cache in agreement with the file.
LEMMA LoadedOK ==
  ASSUME DiskInv, mem.open, NEW i \in L1Set
  PROVE  CacheIn(file, Loaded(mem.l1[i]))
<1> DEFINE l == mem.l1[i]
           keep == IF Cardinality(DOMAIN mem.cache) >= CacheTables THEN {} ELSE DOMAIN mem.cache
           x == [t \in keep \cup {l} |-> IF t = l THEN file.cell[t] ELSE mem.cache[t]]
<1>1. CacheIn(file, mem.cache) /\ l = file.l1[i]  BY DEF DiskInv, MemOK, CacheIn
<1>2. keep \subseteq DOMAIN mem.cache  OBVIOUS
<1>3. Loaded(l) = IF l = 0 \/ l \in DOMAIN mem.cache THEN mem.cache ELSE x  BY DEF Loaded
<1> HIDE DEF keep
<1>4. l # 0 => CacheIn(file, x)
  <2>1. \A t \in keep \cup {l} : t \in DOMAIN mem.cache \/ t = l  BY <1>2
  <2> HIDE DEF l
  <2>2. DOMAIN x = keep \cup {l} /\ \A t \in keep \cup {l} : x[t] = IF t = l THEN file.cell[t] ELSE mem.cache[t]  OBVIOUS
  <2> HIDE DEF x
  <2>3. QED  BY <1>1, <2>1, <2>2 DEF CacheIn
<1> HIDE DEF l, x
<1>5. QED  BY <1>1, <1>3, <1>4 DEF l

\* A cluster of the host is written.
LEMMA WithClusterOK ==
  ASSUME ImageOK(file), NEW h \in Hosts, NEW content \in Cells
  PROVE  LET f == WithCluster(h, content)
         IN  /\ Rest(file, f) /\ SameLinks(file, f) /\ f.cell = [file.cell EXCEPT ![h] = content] /\ h < f.len
             /\ f.len = (IF h >= file.len THEN h + 1 ELSE file.len) /\ f.ref = file.ref
<1> DEFINE x == [file.cell EXCEPT ![h] = content]
           n == IF h >= file.len THEN h + 1 ELSE file.len
           r == IF h >= file.len THEN FALSE ELSE file.ragged
           f == [file EXCEPT !.cell = x, !.len = n, !.ragged = r]
<1>1. file = [y \in FileFields |-> file[y]] /\ file.len \in 0 .. HostClusters /\ file.ragged \in BOOLEAN
      /\ file.ref = [y \in Hosts |-> file.ref[y]]
  BY DEF ImageOK, ShapeOK
<1>2. WithCluster(h, content) = f  BY <1>1 DEF WithCluster, FileFields
<1>3. n \in 0 .. HostClusters /\ file.len <= n /\ h < n /\ r \in BOOLEAN
  <2>1. HostClusters \in Nat /\ h \in Nat /\ h < HostClusters /\ file.len \in Nat /\ file.len <= HostClusters
    BY <1>1, SizesOK DEF Hosts, Sizes
  <2>2. n \in 0 .. HostClusters /\ file.len <= n /\ h < n  BY <2>1
  <2>3. r \in BOOLEAN  BY <1>1
  <2>4. QED  BY <2>2, <2>3
<1> HIDE DEF x, n, r
<1>4. /\ f = [y \in FileFields |-> f[y]] /\ f.len = n /\ f.ragged = r /\ f.meta = file.meta /\ f.l1 = file.l1
      /\ f.reft = file.reft /\ f.ref = file.ref /\ f.cell = x
  BY <1>1 DEF FileFields
<1> HIDE DEF f
<1>5. QED  BY <1>1, <1>2, <1>3, <1>4 DEF Rest, SameLinks, x, n

\* The smaller of two numbers.
LEMMA LeastOfTwo == ASSUME NEW a \in Nat, NEW b \in Nat PROVE Min({a, b}) = IF a <= b THEN a ELSE b
<1> DEFINE m == IF a <= b THEN a ELSE b
<1>1. m \in {a, b} /\ \A y \in {a, b} : m <= y  OBVIOUS
<1>2. \A x \in {a, b} : (\A y \in {a, b} : x <= y) => x = m  OBVIOUS
<1> HIDE DEF m
<1>3. Min({a, b}) = CHOOSE x \in {a, b} : \A y \in {a, b} : x <= y  BY DEF Min
<1>4. QED  BY <1>1, <1>2, <1>3 DEF m

\* Where the piece of a write that lies in one cluster ends.
LEMMA PieceEnds ==
  ASSUME OpOK, op.at < op.end
  PROVE  /\ C \in Nat /\ op.at \in C * Width .. (C + 1) * Width - 1 /\ C * Width \in Nat /\ (C + 1) * Width = C * Width + Width
         /\ ClusterEnd \in Nat /\ op.at < ClusterEnd /\ ClusterEnd <= op.end /\ ClusterEnd <= C * Width + Width
<1>1. Width \in Nat \ {0} /\ op.at \in Nat /\ op.end \in Nat  BY SizesOK DEF OpOK, Sizes
<1> DEFINE r == op.at % Width
<1>2. op.at = Width * C + r /\ r \in 0 .. Width - 1 /\ C \in Nat  BY <1>1, Divides DEF C, Cluster
<1> HIDE DEF r
<1>3. C * Width \in Nat /\ (C + 1) * Width = C * Width + Width /\ Width * C = C * Width  BY <1>1, <1>2
<1> DEFINE x == C * Width
           b == (C + 1) * Width
<1>4. ClusterEnd = Min({op.end, b})  BY DEF ClusterEnd
<1>5. x \in Nat /\ b = x + Width /\ op.at = x + r  BY <1>2, <1>3
<1> HIDE DEF x, b
<1>6. ClusterEnd = IF op.end <= b THEN op.end ELSE b  BY <1>1, <1>4, <1>5, LeastOfTwo
<1>7. ClusterEnd \in Nat /\ op.at < ClusterEnd /\ ClusterEnd <= op.end /\ ClusterEnd <= b /\ op.at \in x .. b - 1
  BY <1>1, <1>2, <1>5, <1>6
<1>8. QED  BY <1>2, <1>5, <1>7 DEF x, b

\* A patched cluster is a cluster.
LEMMA PatchedOK ==
  ASSUME OpOK, NEW old, \A i \in Cols : old[i] \in Int
  PROVE  Patched(old) \in Cells
<1>1. op.val \in Int  BY Qcow2Assumption DEF OpOK
<1>2. \A i \in 0 .. Width - 1 : (IF C * Width + i \in op.at .. ClusterEnd - 1 THEN op.val ELSE old[i]) \in Int
  BY <1>1 DEF Cols
<1>3. QED  BY <1>2 DEF Patched, Cells, Cols

\* So is the copy being made.
LEMMA NewDataOK == ASSUME DiskInv PROVE NewData \in Cells
<1> DEFINE old == [i \in 0 .. Width - 1 |-> IF C * Width + i < Size THEN Reads(file, C * Width + i) ELSE 0]
<1>1. \A i \in Cols : old[i] \in Int
  <2> SUFFICES ASSUME NEW i \in Cols PROVE (IF C * Width + i < Size THEN Reads(file, C * Width + i) ELSE 0) \in Int
    BY DEF Cols
  <2>1. C \in Nat /\ Width \in Nat
    <3>1. Width \in Nat \ {0} /\ op.at \in Nat  BY SizesOK DEF DiskInv, OpOK, Sizes
    <3>2. QED  BY <3>1, Divides DEF C, Cluster
  <2>2. C * Width + i \in Nat  BY <2>1 DEF Cols
  <2>3. QED  BY <2>2, ReadsInt DEF DiskInv
<1> HIDE DEF old
<1>2. NewData = Patched(old)  BY DEF NewData, old
<1>3. QED  BY <1>1, <1>2, PatchedOK DEF DiskInv

\* No write in progress.
LEMMA IdleNext == ASSUME op' = Idle PROVE OpOK'
<1>1. Idle = [x \in OpFields |-> Idle[x]]  BY DEF Idle, OpFields
<1>2. Idle.pc = "idle" /\ Idle.at = 0 /\ Idle.end = 0 /\ Idle.val = 0 /\ Idle.deferred = <<>>  BY DEF Idle
<1>3. 0 \in Values  BY Qcow2Assumption
<1>4. QED  BY <1>1, <1>2, <1>3 DEF OpOK

\* The write goes on with its next cluster.
LEMMA PieceNext ==
  ASSUME NEW a \in Nat, NEW b \in Nat, a < b, NEW v \in Values,
         op' = [Idle EXCEPT !.pc = "next", !.at = a, !.end = b, !.val = v]
  PROVE  OpOK' /\ op'.pc = "next" /\ op'.at = a /\ op'.end = b /\ op'.val = v
<1>1. op' = [x \in OpFields |-> op'[x]] /\ op'.pc = "next" /\ op'.at = a /\ op'.end = b /\ op'.val = v /\ op'.deferred = <<>>
  BY DEF Idle, OpFields
<1>2. QED  BY <1>1 DEF OpOK

\* The cache agrees with a file whose tables are the same.
LEMMA CacheMoves ==
  ASSUME NEW f, NEW f2, NEW cache, CacheIn(f, cache), f2.l1 = f.l1,
         \A i \in L1Set : f.l1[i] # 0 => f2.cell[f.l1[i]] = f.cell[f.l1[i]]
  PROVE  CacheIn(f2, cache)
BY DEF CacheIn

\* Memory grows the file or the cache.
LEMMA MemStep ==
  ASSUME DiskInv, mem.open, NEW n, NEW cache, mem' = [mem EXCEPT !.len = n, !.cache = cache],
         file'.l1 = file.l1, n \in file'.len .. HostClusters, CacheIn(file', cache)
  PROVE  MemOK' /\ mem'.open /\ mem'.len = n /\ mem'.cache = cache /\ mem'.l1 = mem.l1
<1>1. mem = [open |-> TRUE, len |-> mem.len, ragged |-> mem.ragged, l1 |-> mem.l1, cache |-> mem.cache] /\ mem.l1 = file.l1
  BY DEF DiskInv, MemOK
<1>2. mem' = [open |-> TRUE, len |-> n, ragged |-> mem.ragged, l1 |-> mem.l1, cache |-> cache]  BY <1>1
<1>3. mem'.open = TRUE /\ mem'.len = n /\ mem'.ragged = mem.ragged /\ mem'.l1 = mem.l1 /\ mem'.cache = cache  BY <1>2
<1>4. QED  BY <1>1, <1>2, <1>3 DEF MemOK, CacheIn

\* Memory stays as it is.
LEMMA MemStays ==
  ASSUME DiskInv, mem.open, UNCHANGED mem, file'.l1 = file.l1, file'.len <= mem.len, file'.len \in Nat,
         \A i \in L1Set : file.l1[i] # 0 => file'.cell[file.l1[i]] = file.cell[file.l1[i]]
  PROVE  MemOK'
<1>1. mem.len \in file'.len .. HostClusters
  <2>1. mem.len \in file.len .. HostClusters /\ file.len \in Nat  BY HostsOK DEF DiskInv, MemOK, ImageOK
  <2>2. QED  BY <2>1, SizesOK DEF Sizes
<1>2. CacheIn(file, mem.cache)  BY DEF DiskInv, MemOK, CacheIn
<1>3. CacheIn(file', mem.cache)  BY <1>2, CacheMoves
<1>4. QED  BY <1>1, <1>3 DEF DiskInv, MemOK, CacheIn

\* An image reads as itself.
LEMMA KeepsSame == ASSUME NEW f PROVE Keeps(f, f)
BY DEF Keeps

\* From here on, one lemma for each action: the invariant, and what the disk reads.
LEMMA OpenWritableOK == ASSUME DiskInv, OpenWritable PROVE DiskInv' /\ Keeps(file, file')
<1>1. file' = file /\ op' = op /\ res' = res /\ ops' = ops /\ faults' = faults /\ op.pc = "idle" /\ op = Idle
  BY DEF OpenWritable, DiskInv, MemOK, OpOK
<1>2. OpOK'  BY <1>1, IdleNext
<1>3. MemOK'
  <2>1. mem' = [open |-> TRUE, len |-> file.len, ragged |-> file.ragged, l1 |-> file.l1, cache |-> <<>>]  BY DEF OpenWritable
  <2>2. DOMAIN <<>> = {} /\ file.len \in file.len .. HostClusters
    <3>1. file.len \in 0 .. HostClusters  BY DEF DiskInv, ImageOK, ShapeOK
    <3>2. QED  BY <3>1, SizesOK DEF Sizes
  <2>3. mem'.open = TRUE /\ mem'.len = file.len /\ mem'.ragged = file.ragged /\ mem'.l1 = file.l1 /\ mem'.cache = <<>>  BY <2>1
  <2>4. QED  BY <1>1, <2>1, <2>2, <2>3 DEF MemOK
<1>4. ImageOK(file') /\ CountsOK'  BY <1>1 DEF DiskInv, CountsOK
<1>5. QED  BY <1>1, <1>2, <1>3, <1>4, KeepsSame DEF DiskInv

\* The server is gone.
LEMMA ClosedOK == ASSUME mem' = Closed, op' = Idle PROVE MemOK' /\ OpOK'
<1>1. Closed.open = FALSE /\ Idle.pc = "idle"  BY DEF Closed, Idle
<1>2. QED  BY <1>1, IdleNext DEF MemOK

LEMMA CloseOK == ASSUME DiskInv, Close PROVE DiskInv' /\ Keeps(file, file')
<1>1. file' = file /\ op' = op /\ res' = res /\ ops' = ops /\ faults' = faults /\ op.pc = "idle" /\ op = Idle
  BY DEF Close, DiskInv, OpOK
<1>2. MemOK' /\ OpOK'  BY <1>1, ClosedOK DEF Close
<1>3. ImageOK(file') /\ CountsOK'  BY <1>1 DEF DiskInv, CountsOK
<1>4. QED  BY <1>1, <1>2, <1>3, KeepsSame DEF DiskInv

LEMMA CrashOK == ASSUME DiskInv, Crash PROVE DiskInv' /\ Keeps(file, file')
<1>1. file' = file /\ op' = Idle /\ ops' = ops /\ Idle.pc = "idle"  BY DEF Crash, Idle
<1>2. MemOK' /\ OpOK'  BY <1>1, ClosedOK DEF Crash
<1>3. CountsOK'
  <2>1. faults' \in 0 .. MaxFaults  BY Qcow2Assumption DEF Crash, DiskInv, CountsOK
  <2>2. QED  BY <1>1, <2>1 DEF Crash, DiskInv, CountsOK
<1>4. QED  BY <1>1, <1>2, <1>3, KeepsSame DEF DiskInv

LEMMA ReadAtOK == ASSUME DiskInv, NEW w \in 0 .. Size - 1, ReadAt(w) PROVE DiskInv' /\ Keeps(file, file')
<1>1. file' = file /\ op' = op /\ res' = res /\ ops' = ops /\ faults' = faults /\ op = Idle /\ mem.open
  BY DEF ReadAt, DiskInv, OpOK
<1>2. w \in Nat /\ w < Size  BY SizesOK DEF Sizes
<1> DEFINE l == Loaded(mem.l1[L1Idx(Cluster(w))])
<1>3. CacheIn(file, l)  BY <1>1, <1>2, Located, LoadedOK
<1>4. mem' = [mem EXCEPT !.cache = l]  BY DEF ReadAt
<1> HIDE DEF l
<1>5. mem' = [mem EXCEPT !.len = mem.len, !.cache = l] /\ mem.len \in file.len .. HostClusters
  BY <1>1, <1>4 DEF DiskInv, MemOK
<1>6. MemOK'  BY <1>1, <1>3, <1>5, MemStep
<1>7. ImageOK(file') /\ CountsOK' /\ OpOK'  BY <1>1, IdleNext DEF DiskInv, CountsOK
<1>8. QED  BY <1>1, <1>6, <1>7, KeepsSame DEF DiskInv

LEMMA BeginOK ==
  ASSUME DiskInv, NEW a \in 0 .. Size - 1, NEW n \in 1 .. MaxRun, NEW v \in Values, Begin(a, a + n, v)
  PROVE  DiskInv' /\ Keeps(file, file')
<1>1. file' = file /\ mem' = mem /\ mem.open /\ ops < MaxOps /\ ops' = ops + 1 /\ res' = "busy" /\ faults' = faults
      /\ op' = [Idle EXCEPT !.pc = "next", !.at = a, !.end = a + n, !.val = v]
  BY DEF Begin, At
<1>2. a \in Nat /\ a + n \in Nat /\ a < a + n  BY SizesOK, Qcow2Assumption DEF Sizes
<1>3. OpOK' /\ op'.pc = "next"  BY <1>1, <1>2, PieceNext
<1>4. MemOK'  BY <1>1, <1>3 DEF DiskInv, MemOK
<1>5. CountsOK'  BY <1>1, <1>3, Qcow2Assumption DEF DiskInv, CountsOK
<1>6. QED  BY <1>1, <1>3, <1>4, <1>5, KeepsSame DEF DiskInv

LEMMA RefusedOK == ASSUME DiskInv, Refused PROVE DiskInv' /\ Keeps(file, file')
<1>1. file' = file /\ mem' = mem /\ mem.open /\ ops' = ops /\ faults' = faults /\ op' = Idle /\ res' = "error" /\ Idle.pc = "idle"
  BY DEF Refused, At, Idle
<1>2. OpOK'  BY <1>1, IdleNext
<1>3. MemOK'  BY <1>1 DEF DiskInv, MemOK
<1>4. CountsOK'  BY <1>1 DEF DiskInv, CountsOK
<1>5. QED  BY <1>1, <1>2, <1>3, <1>4, KeepsSame DEF DiskInv

\* A step of the write fails.
LEMMA FailedOK == ASSUME DiskInv, Failed PROVE OpOK' /\ CountsOK'
<1>1. op' = Idle /\ res' = "error" /\ ops' = ops /\ faults < MaxFaults /\ faults' = faults + 1 /\ Idle.pc = "idle"
  BY DEF Failed, Idle
<1>2. CountsOK'  BY <1>1, Qcow2Assumption DEF DiskInv, CountsOK
<1>3. QED  BY <1>1, <1>2, IdleNext

LEMMA WriteFailsOK == ASSUME DiskInv, WriteFails PROVE DiskInv' /\ Keeps(file, file')
<1>1. file' = file /\ mem' = mem /\ mem.open  BY DEF WriteFails, At, Failed
<1>2. OpOK' /\ CountsOK'  BY FailedOK DEF WriteFails
<1>3. MemOK'  BY <1>1 DEF DiskInv, MemOK
<1>4. QED  BY <1>1, <1>2, <1>3, KeepsSame DEF DiskInv

(***************************************************************************)
(* Writing in place.                                                       *)
(***************************************************************************)

\* The words of a write that are in one cluster.
LEMMA PieceIn == ASSUME OpOK, op.at < op.end, NEW w \in op.at .. ClusterEnd - 1 PROVE w \in Nat /\ Cluster(w) = C
<1>1. /\ C \in Nat /\ op.at \in C * Width .. (C + 1) * Width - 1 /\ C * Width \in Nat /\ (C + 1) * Width = C * Width + Width
      /\ ClusterEnd \in Nat /\ op.at < ClusterEnd /\ ClusterEnd <= op.end /\ ClusterEnd <= C * Width + Width
  BY PieceEnds
<1>2. Width \in Nat /\ op.at \in Nat  BY SizesOK DEF Sizes, OpOK
<1> DEFINE x == C * Width
           b == (C + 1) * Width
           i == w - x
<1>3. x \in Nat /\ op.at \in x .. b - 1 /\ b = x + Width /\ ClusterEnd \in Nat /\ ClusterEnd <= x + Width  BY <1>1
<1> HIDE DEF x, b
<1>4. i \in 0 .. Width - 1 /\ w = x + i /\ w \in Nat  BY <1>2, <1>3
<1> HIDE DEF i
<1>5. Cluster(C * Width + i) = C  BY <1>1, <1>4, InOne DEF Cols
<1>6. QED  BY <1>4, <1>5 DEF x

\* A word and its place in its cluster.
LEMMA PlaceOf == ASSUME NEW w \in Nat, w < Size PROVE Cluster(w) * Width + InCluster(w) = w /\ InCluster(w) \in 0 .. Width - 1
<1>1. Cluster(w) \in Nat /\ InCluster(w) \in Cols /\ w = Width * Cluster(w) + InCluster(w)  BY Located
<1>2. Width \in Nat /\ InCluster(w) \in 0 .. Width - 1  BY <1>1, SizesOK DEF Sizes, Cols
<1>3. Width * Cluster(w) = Cluster(w) * Width  BY <1>1, <1>2
<1>4. QED  BY <1>1, <1>2, <1>3

\* A data cluster is written over.
LEMMA DataWritten ==
  ASSUME NEW f, ImageOK(f), NEW f2, NEW c \in Nat, c < GuestClusters, NEW x, NEW h, h = Entry(f, L1Idx(c), L2Idx(c)), h > 0,
         \A i \in L1Set, j \in Cols : Entry(f2, i, j) = Entry(f, i, j), f2.cell = [f.cell EXCEPT ![h] = x]
  PROVE  \A w \in Nat : w < Size => Reads(f2, w) = IF Cluster(w) = c THEN x[InCluster(w)] ELSE Reads(f, w)
<1> SUFFICES ASSUME NEW w \in Nat, w < Size PROVE Reads(f2, w) = IF Cluster(w) = c THEN x[InCluster(w)] ELSE Reads(f, w)
  OBVIOUS
<1>1. L1Idx(c) \in L1Set /\ L2Idx(c) \in Cols  BY ClustersOK
<1>2. f.cell \in [Hosts -> Cells] /\ h \in Hosts
  <2>1. h \in f.meta .. f.len - 1 /\ f.meta \in Nat /\ f.len \in Nat /\ 0 .. f.len - 1 \subseteq Hosts
    BY <1>1, HostsOK DEF ImageOK
  <2>2. QED  BY <2>1 DEF ImageOK, ShapeOK
<1>3. CASE Cluster(w) = c
  <2>1. Entry(f2, L1Idx(c), L2Idx(c)) = h /\ f2.cell[h] = x  BY <1>1, <1>2
  <2>2. h # 0 /\ h # ZERO  BY <1>2 DEF Hosts, ZERO
  <2>3. QED  BY <1>3, <2>1, <2>2 DEF Reads
<1>4. CASE Cluster(w) # c
  <2> DEFINE d == Cluster(w)
             e == Entry(f, L1Idx(d), L2Idx(d))
  <2>1. d \in Nat /\ L1Idx(d) \in L1Set /\ L2Idx(d) \in Cols  BY Located
  <2>2. e > 0 => e # h
    <3>1. ~(L1Idx(d) = L1Idx(c) /\ L2Idx(d) = L2Idx(c))  BY <1>4, <2>1, OwnEntry
    <3>2. QED  BY <1>1, <2>1, <3>1 DEF ImageOK, Apart
  <2>3. e > 0 => e \in Hosts
    <3>1. f.meta \in Nat /\ f.len \in Nat /\ 0 .. f.len - 1 \subseteq Hosts /\ (e > 0 => e \in f.meta .. f.len - 1)
      BY <2>1, HostsOK DEF ImageOK
    <3>2. QED  BY <3>1
  <2>4. e > 0 => f2.cell[e] = f.cell[e]  BY <1>2, <2>2, <2>3
  <2>5. Reads(f2, w) = Reads(f, w)  BY <2>4, ReadsSame
  <2>6. QED  BY <1>4, <2>5
<1>5. QED  BY <1>3, <1>4

\* The words of S are written.
Writes(f, f2, S) == \A w \in Nat : w < Size => Reads(f2, w) = IF w \in S THEN op.val ELSE Reads(f, w)

Piece == op.at .. ClusterEnd - 1

\* The end of a piece: the next one starts, or the write ends.
LEMMA AdvancedOK ==
  ASSUME DiskInv, op.at < op.end, op' = Advanced, res' = Outcome, UNCHANGED <<ops, faults>>
  PROVE  OpOK' /\ CountsOK'
<1>1. ClusterEnd \in Nat /\ ClusterEnd <= op.end /\ op.end \in Nat /\ op.val \in Values  BY PieceEnds DEF DiskInv, OpOK
<1>2. CASE ClusterEnd = op.end
  <2>1. op' = Idle /\ res' = "ok" /\ Idle.pc = "idle"  BY <1>2 DEF Advanced, Outcome, Idle
  <2>2. QED  BY <2>1, IdleNext DEF DiskInv, CountsOK
<1>3. CASE ClusterEnd # op.end
  <2>1. op' = [Idle EXCEPT !.pc = "next", !.at = ClusterEnd, !.end = op.end, !.val = op.val] /\ res' = "busy"
    BY <1>3 DEF Advanced, Outcome
  <2>2. ClusterEnd < op.end  BY <1>1, <1>3
  <2>3. OpOK' /\ op'.pc = "next"
    <3>1. PICK a \in Nat, b \in Nat, v \in Values : a = ClusterEnd /\ b = op.end /\ v = op.val  BY <1>1
    <3>2. op' = [Idle EXCEPT !.pc = "next", !.at = a, !.end = b, !.val = v] /\ a < b  BY <2>1, <2>2, <3>1
    <3>3. QED  BY <3>2, PieceNext
  <2>4. QED  BY <2>1, <2>3 DEF DiskInv, CountsOK
<1>4. QED  BY <1>2, <1>3

\* What the two writes in place have in common.
LEMMA InPlace ==
  ASSUME DiskInv, mem.open, op.pc = "next", op.at < Size, hostOffset(C) # 0, NEW x \in Cells,
         file' = WithCluster(hostOffset(C), x)
  PROVE  /\ ImageOK(file') /\ file'.l1 = file.l1 /\ file'.len = file.len /\ C \in Nat /\ C < GuestClusters /\ op.at < op.end
         /\ \A i \in L1Set : file.l1[i] # 0 => file'.cell[file.l1[i]] = file.cell[file.l1[i]]
         /\ \A w \in Nat : w < Size => Reads(file', w) = IF Cluster(w) = C THEN x[InCluster(w)] ELSE Reads(file, w)
<1>1. op.at \in Nat /\ op.at < op.end  BY DEF DiskInv, OpOK
<1>2. C \in Nat /\ C < GuestClusters  BY <1>1, Located, ClustersOK DEF C
<1> DEFINE h == Entry(file, L1Idx(C), L2Idx(C))
<1>3. L1Idx(C) \in L1Set /\ L2Idx(C) \in Cols /\ hostOffset(C) = h /\ h > 0 /\ h \in Hosts /\ h \in file.meta .. file.len - 1
  BY <1>2, HostOffset
<1>4. ImageOK(file)  BY DEF DiskInv
<1>5. /\ Rest(file, file') /\ SameLinks(file, file') /\ file'.cell = [file.cell EXCEPT ![h] = x]
      /\ file'.len = (IF h >= file.len THEN h + 1 ELSE file.len)
  BY <1>3, <1>4, WithClusterOK
<1>6. \A i \in L1Set : file.l1[i] # h  BY <1>3, <1>4 DEF ImageOK, Apart
<1>7. h # 0 /\ file'.len = file.len
  <2>1. file.len \in Nat /\ file.meta \in Nat  BY <1>4, HostsOK DEF ImageOK
  <2> HIDE DEF h
  <2>2. QED  BY <1>3, <1>5, <2>1
<1>8. ImageOK(file') /\ \A i \in L1Set, j \in Cols : Entry(file', i, j) = Entry(file, i, j)
  BY <1>3, <1>4, <1>5, <1>6, <1>7, TouchImage
<1>9. \A w \in Nat : w < Size => Reads(file', w) = IF Cluster(w) = C THEN x[InCluster(w)] ELSE Reads(file, w)
  BY <1>2, <1>3, <1>4, <1>5, <1>8, DataWritten
<1>10. \A i \in L1Set : file.l1[i] # 0 => file'.cell[file.l1[i]] = file.cell[file.l1[i]]
  <2>1. \A i \in L1Set : file.l1[i] \in Hosts  BY <1>4, HostsOK DEF ImageOK
  <2>2. file.cell \in [Hosts -> Cells]  BY <1>4 DEF ImageOK, ShapeOK
  <2>3. QED  BY <1>5, <1>6, <2>1, <2>2
<1>11. QED  BY <1>1, <1>2, <1>5, <1>7, <1>8, <1>9, <1>10 DEF SameLinks

LEMMA WriteInPlaceOK == ASSUME DiskInv, WriteInPlace PROVE DiskInv' /\ Writes(file, file', Piece)
<1>1. mem.open /\ op.pc = "next" /\ op.at < Size /\ hostOffset(C) # 0 /\ op' = Advanced /\ res' = Outcome /\ UNCHANGED <<ops, faults>>
  BY DEF WriteInPlace, At
<1> DEFINE h == hostOffset(C)
           x == Patched(file.cell[h])
           l == Loaded(mem.l1[L1Idx(C)])
<1>2. op.at \in Nat /\ op.at < op.end /\ OpOK  BY <1>1 DEF DiskInv, OpOK
<1>3. C \in Nat /\ C < GuestClusters  BY <1>1, <1>2, Located, ClustersOK DEF C
<1>4. h \in Hosts /\ L1Idx(C) \in L1Set /\ h = Entry(file, L1Idx(C), L2Idx(C)) /\ h > 0  BY <1>1, <1>3, HostOffset
<1>5. \A i \in Cols : file.cell[h][i] \in Int  BY <1>4 DEF DiskInv, ImageOK, ShapeOK, Cells
<1>6. x \in Cells  BY <1>2, <1>5, PatchedOK
<1>7. file' = WithCluster(h, x) /\ mem' = [mem EXCEPT !.cache = l]  BY DEF WriteInPlace
<1>8. CacheIn(file, l)  BY <1>1, <1>4, LoadedOK
<1>9. x = [i \in 0 .. Width - 1 |-> IF C * Width + i \in op.at .. ClusterEnd - 1 THEN op.val ELSE file.cell[h][i]]
  BY DEF Patched
<1> HIDE DEF x, l
<1>10. /\ ImageOK(file') /\ file'.l1 = file.l1 /\ file'.len = file.len
       /\ \A i \in L1Set : file.l1[i] # 0 => file'.cell[file.l1[i]] = file.cell[file.l1[i]]
       /\ \A w \in Nat : w < Size => Reads(file', w) = IF Cluster(w) = C THEN x[InCluster(w)] ELSE Reads(file, w)
  BY <1>1, <1>6, <1>7, InPlace
<1>11. MemOK'
  <2>1. CacheIn(file', l)  BY <1>8, <1>10, CacheMoves
  <2>2. mem' = [mem EXCEPT !.len = mem.len, !.cache = l] /\ mem.len \in file'.len .. HostClusters
    BY <1>1, <1>7, <1>10 DEF DiskInv, MemOK
  <2>3. QED  BY <1>1, <1>10, <2>1, <2>2, MemStep
<1>12. OpOK' /\ CountsOK'  BY <1>1, <1>2, AdvancedOK
<1>13. Writes(file, file', Piece)
  <2> SUFFICES ASSUME NEW w \in Nat, w < Size PROVE Reads(file', w) = IF w \in op.at .. ClusterEnd - 1 THEN op.val ELSE Reads(file, w)
    BY DEF Writes, Piece
  <2>1. CASE Cluster(w) = C
    <3>1. C * Width + InCluster(w) = w /\ InCluster(w) \in 0 .. Width - 1  BY <2>1, PlaceOf
    <3>2. x[InCluster(w)] = IF w \in op.at .. ClusterEnd - 1 THEN op.val ELSE file.cell[h][InCluster(w)]  BY <1>9, <3>1
    <3>3. Reads(file, w) = file.cell[h][InCluster(w)]
      <4>1. h # 0 /\ h # ZERO  BY <1>4 DEF Hosts, ZERO
      <4> HIDE DEF h
      <4>2. QED  BY <1>4, <2>1, <4>1 DEF Reads
    <3>4. QED  BY <1>10, <2>1, <3>2, <3>3
  <2>2. CASE Cluster(w) # C
    <3>1. w \notin op.at .. ClusterEnd - 1  BY <1>2, <2>2, PieceIn
    <3>2. QED  BY <1>10, <2>2, <3>1
  <2>3. QED  BY <2>1, <2>2
<1>14. QED  BY <1>10, <1>11, <1>12, <1>13 DEF DiskInv

LEMMA ShortInPlaceOK == ASSUME DiskInv, ShortInPlace PROVE DiskInv' /\ Writes(file, file', {op.at})
<1>1. mem.open /\ op.pc = "next" /\ op.at < Size /\ hostOffset(C) # 0 /\ Failed /\ mem' = mem
  BY DEF ShortInPlace, At, Failed
<1> DEFINE h == hostOffset(C)
           x == [file.cell[h] EXCEPT ![InCluster(op.at)] = op.val]
<1>2. op.at \in Nat /\ op.at < op.end /\ OpOK /\ op.val \in Int  BY <1>1, Qcow2Assumption DEF DiskInv, OpOK
<1>3. C \in Nat /\ C < GuestClusters /\ InCluster(op.at) \in Cols  BY <1>1, <1>2, Located, ClustersOK DEF C
<1>4. h \in Hosts /\ L1Idx(C) \in L1Set /\ h = Entry(file, L1Idx(C), L2Idx(C)) /\ h > 0  BY <1>1, <1>3, HostOffset
<1>5. file.cell[h] \in Cells  BY <1>4 DEF DiskInv, ImageOK, ShapeOK
<1>6. x \in Cells /\ \A i \in Cols : x[i] = IF i = InCluster(op.at) THEN op.val ELSE file.cell[h][i]  BY <1>2, <1>3, <1>5 DEF Cells
<1>7. file' = WithCluster(h, x)  BY DEF ShortInPlace
<1> HIDE DEF x
<1>8. /\ ImageOK(file') /\ file'.l1 = file.l1 /\ file'.len = file.len
      /\ \A i \in L1Set : file.l1[i] # 0 => file'.cell[file.l1[i]] = file.cell[file.l1[i]]
      /\ \A w \in Nat : w < Size => Reads(file', w) = IF Cluster(w) = C THEN x[InCluster(w)] ELSE Reads(file, w)
  BY <1>1, <1>6, <1>7, InPlace
<1>9. MemOK'
  <2>1. file'.len <= mem.len /\ file'.len \in Nat
    <3>1. mem.len \in file.len .. HostClusters /\ file.len \in Nat  BY <1>1, HostsOK DEF DiskInv, MemOK, ImageOK
    <3>2. QED  BY <1>8, <3>1, SizesOK DEF Sizes
  <2>2. QED  BY <1>1, <1>8, <2>1, MemStays
<1>10. OpOK' /\ CountsOK'  BY <1>1, FailedOK
<1>11. Writes(file, file', {op.at})
  <2> SUFFICES ASSUME NEW w \in Nat, w < Size PROVE Reads(file', w) = IF w = op.at THEN op.val ELSE Reads(file, w)
    BY DEF Writes
  <2>1. CASE Cluster(w) = C
    <3>1. C * Width + InCluster(w) = w /\ InCluster(w) \in Cols  BY <2>1, PlaceOf DEF Cols
    <3>2. C * Width + InCluster(op.at) = op.at  BY <1>1, <1>2, PlaceOf DEF C
    <3>3. (w = op.at) <=> (InCluster(w) = InCluster(op.at))
      <4>1. InCluster(w) = InCluster(op.at) => w = op.at  BY <3>1, <3>2
      <4>2. QED  BY <4>1
    <3>4. x[InCluster(w)] = IF w = op.at THEN op.val ELSE file.cell[h][InCluster(w)]  BY <1>6, <3>1, <3>3
    <3>5. Reads(file, w) = file.cell[h][InCluster(w)]
      <4>1. h # 0 /\ h # ZERO  BY <1>4 DEF Hosts, ZERO
      <4> HIDE DEF h
      <4>2. QED  BY <1>4, <2>1, <4>1 DEF Reads
    <3>6. QED  BY <1>8, <2>1, <3>4, <3>5
  <2>2. CASE Cluster(w) # C
    <3>1. w # op.at  BY <2>2 DEF C
    <3>2. QED  BY <1>8, <2>2, <3>1
  <2>3. QED  BY <2>1, <2>2
<1>12. QED  BY <1>8, <1>9, <1>10, <1>11 DEF DiskInv

(***************************************************************************)
(* Allocating, counting and linking a cluster.                             *)
(***************************************************************************)

\* The same piece of the same write is in progress.
SameOp == op'.at = op.at /\ op'.end = op.end /\ op'.val = op.val

\* The copy is the same while the disk reads the same.
LEMMA NewDataKept == ASSUME DiskInv, Keeps(file, file'), SameOp PROVE NewData' = NewData /\ C' = C
<1>1. C' = C /\ ClusterEnd' = ClusterEnd  BY DEF SameOp, C, ClusterEnd
<1>2. C \in Nat /\ Width \in Nat
  <2>1. Width \in Nat \ {0} /\ op.at \in Nat  BY SizesOK DEF DiskInv, OpOK, Sizes
  <2>2. QED  BY <2>1, Divides DEF C, Cluster
<1>3. ASSUME NEW i \in 0 .. Width - 1
      PROVE  (IF C * Width + i < Size THEN Reads(file', C * Width + i) ELSE 0) = (IF C * Width + i < Size THEN Reads(file, C * Width + i) ELSE 0)
  <2>1. C * Width + i \in Nat  BY <1>2
  <2>2. QED  BY <2>1 DEF Keeps
<1>4. QED  BY <1>1, <1>3 DEF NewData, Patched, SameOp

\* The copy stays in the file.
LEMMA HoldingKept ==
  ASSUME DiskInv, Holding, Keeps(file, file'), SameOp, op'.data = op.data, file'.meta = file.meta, mem.len \in Nat, mem'.len \in Nat,
         file'.len \in Nat, file.len <= file'.len, mem.len <= mem'.len, Unused(file', op.data), file'.ref[op.data] = 1,
         file'.cell[op.data] = file.cell[op.data]
  PROVE  Holding'
<1>1. op.data \in file.meta .. mem.len - 1 /\ op.data < file.len /\ file.cell[op.data] = NewData  BY DEF Holding, Fresh
<1>2. file.meta \in Nat /\ file.len \in Nat  BY HostsOK DEF DiskInv, ImageOK
<1>3. op.data \in file'.meta .. mem'.len - 1 /\ op.data < file'.len  BY <1>1, <1>2
<1>4. NewData' = NewData  BY NewDataKept
<1>5. QED  BY <1>1, <1>3, <1>4 DEF Holding, Fresh

\* What is known while a cluster is held.
LEMMA HeldIn == ASSUME DiskInv, mem.open, Holding
                PROVE  op.data \in Hosts /\ op.data \in Nat /\ op.data < file.len /\ Unused(file, op.data) /\ op.data # 0
<1>1. op.data \in file.meta .. mem.len - 1 /\ op.data < file.len /\ Unused(file, op.data)  BY DEF Holding, Fresh
<1>2. file.meta \in Nat \ {0} /\ file.len \in Nat /\ mem.len \in Nat /\ 0 .. file.len - 1 \subseteq Hosts
  <2>1. mem.len \in file.len .. HostClusters  BY DEF DiskInv, MemOK
  <2>2. QED  BY <2>1, SizesOK, HostsOK DEF DiskInv, ImageOK, Sizes
<1>3. QED  BY <1>1, <1>2

\* The lengths of the file.
LEMMA Lengths == ASSUME DiskInv, mem.open
                 PROVE  /\ file.meta \in Nat \ {0} /\ file.len \in Nat /\ file.meta <= file.len /\ mem.len \in Nat
                        /\ file.len <= mem.len /\ mem.len <= HostClusters /\ HostClusters \in Nat
<1>1. mem.len \in file.len .. HostClusters  BY DEF DiskInv, MemOK
<1>2. QED  BY <1>1, SizesOK, HostsOK DEF DiskInv, ImageOK, Sizes

\* allocCluster: the new cluster is one past what memory knows of.
LEMMA AllocOK ==
  ASSUME DiskInv, mem.open, op.pc \in {"next", "link"}, op.at < Size, NEW ret \in {"data", "zero"}, allocCluster(ret),
         UNCHANGED <<file, res, ops, faults>>, ret = "zero" => Holding /\ file.l1[L1Idx(C)] = 0
  PROVE  DiskInv' /\ Keeps(file, file')
<1>1. mem.len < HostClusters /\ file' = file  BY DEF allocCluster
<1>2. /\ file.meta \in Nat \ {0} /\ file.len \in Nat /\ file.meta <= file.len /\ mem.len \in Nat
      /\ file.len <= mem.len /\ mem.len <= HostClusters /\ HostClusters \in Nat
  BY Lengths
<1> DEFINE l == Loaded(mem.l1[L1Idx(C)])
           n == mem.len + 1
<1>3. op.at \in Nat /\ op.at < op.end /\ op.deferred = <<>> /\ op = [x \in OpFields |-> op[x]]  BY DEF DiskInv, OpOK
<1>4. L1Idx(C) \in L1Set  BY <1>3, Located DEF C
<1>5. CacheIn(file, l)  BY <1>4, LoadedOK
<1>6. mem' = [mem EXCEPT !.len = n, !.cache = l]  BY DEF allocCluster
<1>7. n \in file.len .. HostClusters  BY <1>1, <1>2
<1> HIDE DEF l
<1>8. MemOK' /\ mem'.open /\ mem'.len = n
  <2> HIDE DEF n
  <2>1. QED  BY <1>1, <1>5, <1>6, <1>7, MemStep
<1>9. op' = [op EXCEPT !.pc = "bump", !.new = mem.len, !.idx = mem.len, !.ret = ret]  BY DEF allocCluster
<1>10. /\ op' = [x \in OpFields |-> op'[x]] /\ op'.pc = "bump" /\ op'.at = op.at /\ op'.end = op.end /\ op'.val = op.val
       /\ op'.data = op.data /\ op'.new = mem.len /\ op'.idx = mem.len /\ op'.ret = ret /\ op'.deferred = <<>>
  BY <1>3, <1>9 DEF OpFields
<1>11. Keeps(file, file') /\ SameOp  BY <1>1, <1>10, KeepsSame DEF SameOp
<1>12. Fresh(op.new)'
  <2>1. Unused(file, mem.len)  BY <1>2, BeyondUnused DEF DiskInv
  <2>2. mem.len \in file.meta .. n - 1  BY <1>2
  <2>3. QED  BY <1>1, <1>8, <1>10, <2>1, <2>2 DEF Fresh
<1>13. Allocating'
  <2>1. ret = "zero" => Holding' /\ op.data # mem.len /\ C' = C
    <3> SUFFICES ASSUME ret = "zero" PROVE Holding' /\ op.data # mem.len /\ C' = C  OBVIOUS
    <3>1. Unused(file, op.data) /\ op.data < file.len /\ op.data \in Nat  BY HeldIn
    <3>2. file.ref[op.data] = 1  BY DEF Holding
    <3>3. mem'.len \in Nat /\ mem.len <= mem'.len  BY <1>2, <1>8
    <3>4. Holding'  BY <1>1, <1>2, <1>10, <1>11, <3>1, <3>2, <3>3, HoldingKept
    <3>5. QED  BY <1>2, <1>11, <3>1, <3>4, NewDataKept
  <2>2. QED  BY <1>1, <1>10, <1>12, <2>1 DEF Allocating
<1>14. OpOK'
  <2>1. op'.idx \in Hosts  BY <1>1, <1>2, <1>10 DEF Hosts
  <2>2. Owed' = op'.new  BY <1>10 DEF Owed
  <2>3. <<>> \in Seq(Hosts) /\ op.end \in Nat /\ op.val \in Values  BY DEF DiskInv, OpOK
  <2>4. QED  BY <1>3, <1>10, <1>13, <2>1, <2>2, <2>3 DEF OpOK
<1>15. ImageOK(file') /\ CountsOK'  BY <1>1, <1>10 DEF DiskInv, CountsOK
<1>16. QED  BY <1>8, <1>11, <1>14, <1>15 DEF DiskInv

LEMMA AllocDataOK == ASSUME DiskInv, AllocData PROVE DiskInv' /\ Keeps(file, file')
BY AllocOK DEF AllocData, At

LEMMA AllocL2OK == ASSUME DiskInv, AllocL2 PROVE DiskInv' /\ Keeps(file, file')
<1>1. mem.open /\ op.pc = "link" /\ mem.l1[L1Idx(C)] = 0 /\ allocCluster("zero") /\ UNCHANGED <<file, res, ops, faults>>
  BY DEF AllocL2, At
<1>2. op.at < Size /\ Holding /\ mem.l1 = file.l1  BY <1>1 DEF DiskInv, OpOK, MemOK
<1>3. QED  BY <1>1, <1>2, AllocOK

\* A cluster that nothing refers to is written.
LEMMA FreshWritten ==
  ASSUME DiskInv, mem.open, NEW h \in file.meta .. HostClusters - 1, Unused(file, h), NEW x \in Cells, file' = WithCluster(h, x)
  PROVE  /\ ImageOK(file') /\ Keeps(file, file') /\ file'.l1 = file.l1 /\ file'.meta = file.meta /\ file'.reft = file.reft
         /\ file'.ref = file.ref /\ file'.len \in Nat /\ file'.len = (IF h >= file.len THEN h + 1 ELSE file.len) /\ h < file'.len
         /\ \A k : Unused(file, k) => Unused(file', k)
         /\ h \in Hosts /\ file'.cell[h] = x /\ \A k \in Hosts : k # h => file'.cell[k] = file.cell[k]
         /\ \A i \in L1Set : file.l1[i] # 0 => file'.cell[file.l1[i]] = file.cell[file.l1[i]]
<1>1. ImageOK(file) /\ file.cell \in [Hosts -> Cells] /\ \A i \in L1Set : file.l1[i] \in Hosts  BY HostsOK DEF DiskInv, ImageOK, ShapeOK
<1>2. h \in Hosts /\ h # 0  BY Lengths DEF Hosts
<1>3. /\ Rest(file, file') /\ SameLinks(file, file') /\ file'.cell = [file.cell EXCEPT ![h] = x] /\ h < file'.len
      /\ file'.len = (IF h >= file.len THEN h + 1 ELSE file.len) /\ file'.ref = file.ref
  BY <1>1, <1>2, WithClusterOK
<1>4. \A i \in L1Set : file.l1[i] # h  BY DEF Unused
<1>5. /\ ImageOK(file') /\ (\A k : Unused(file, k) => Unused(file', k))
      /\ \A i \in L1Set, j \in Cols : Entry(file', i, j) = Entry(file, i, j)
  BY <1>1, <1>2, <1>3, <1>4, TouchImage
<1>6. file'.cell[h] = x /\ \A k \in Hosts : k # h => file'.cell[k] = file.cell[k]  BY <1>1, <1>2, <1>3
<1>7. Keeps(file, file')
  <2> SUFFICES ASSUME NEW w \in Nat, w < Size PROVE Reads(file', w) = Reads(file, w)  BY DEF Keeps
  <2> DEFINE e == Entry(file, L1Idx(Cluster(w)), L2Idx(Cluster(w)))
  <2>1. L1Idx(Cluster(w)) \in L1Set /\ L2Idx(Cluster(w)) \in Cols  BY Located
  <2>2. e # h  BY <2>1 DEF Unused
  <2>3. e > 0 => e \in Hosts
    <3>1. e > 0 => e \in file.meta .. file.len - 1  BY <1>1, <2>1, HostsOK DEF ImageOK
    <3>2. 0 .. file.len - 1 \subseteq Hosts /\ file.meta \in Nat /\ file.len \in Nat  BY <1>1, HostsOK DEF ImageOK
    <3>3. QED  BY <3>1, <3>2
  <2>4. e > 0 => file'.cell[e] = file.cell[e]  BY <1>6, <2>2, <2>3
  <2>5. QED  BY <1>1, <1>5, <2>4, ReadsSame
<1>8. file'.len \in Nat  BY <1>3, SizesOK DEF Rest, Sizes
<1>9. QED  BY <1>1, <1>2, <1>3, <1>4, <1>5, <1>6, <1>7, <1>8 DEF SameLinks

\* A blank cluster is a cluster.
LEMMA BlankOK == Blank \in Cells
BY DEF Blank, Cells, Cols

\* The clusters of the allocation stay unused.
LEMMA AllocatingKept ==
  ASSUME DiskInv, mem.open, Allocating, Keeps(file, file'), SameOp, op'.data = op.data, op'.new = op.new, op'.ret = op.ret,
         file'.meta = file.meta, file'.l1 = file.l1, mem'.len \in Nat, file'.len \in Nat, file.len <= file'.len,
         mem.len <= mem'.len, Unused(file', op.new), \A h \in Hosts : file.ref[h] = 1 => file'.ref[h] = 1,
         op.ret = "zero" => Unused(file', op.data) /\ file'.cell[op.data] = file.cell[op.data]
  PROVE  Allocating'
<1>1. /\ file.meta \in Nat \ {0} /\ file.len \in Nat /\ file.meta <= file.len /\ mem.len \in Nat
      /\ file.len <= mem.len /\ mem.len <= HostClusters /\ HostClusters \in Nat
  BY Lengths
<1>2. op.new \in file.meta .. mem.len - 1 /\ op.ret \in {"data", "zero"}  BY DEF Allocating, Fresh
<1>3. op.new \in file.meta .. mem'.len - 1  BY <1>1, <1>2
<1>4. Fresh(op.new)'  BY <1>3 DEF Fresh
<1>5. ASSUME op.ret = "zero" PROVE Holding' /\ op.data # op.new /\ file'.l1[L1Idx(C')] = 0
  <2>1. Holding /\ op.data # op.new /\ file.l1[L1Idx(C)] = 0  BY <1>5 DEF Allocating
  <2>2. op.data \in Hosts /\ file.ref[op.data] = 1  BY <2>1, HeldIn DEF Holding
  <2>3. Holding'  BY <1>1, <1>5, <2>1, <2>2, HoldingKept
  <2>4. QED  BY <2>1, <2>3, NewDataKept
<1>6. QED  BY <1>2, <1>4, <1>5 DEF Allocating

LEMMA RegisterBlockOK == ASSUME DiskInv, RegisterBlock PROVE DiskInv' /\ Keeps(file, file')
<1>1. /\ mem.open /\ op.pc = "bump" /\ Block \in DOMAIN file.reft /\ mem.len < HostClusters
      /\ file' = WithCluster(mem.len, Blank) /\ mem' = [mem EXCEPT !.len = @ + 1] /\ op' = [op EXCEPT !.pc = "table"]
      /\ UNCHANGED <<res, ops, faults>>
  BY DEF RegisterBlock, At
<1>2. /\ file.meta \in Nat \ {0} /\ file.len \in Nat /\ file.meta <= file.len /\ mem.len \in Nat
      /\ file.len <= mem.len /\ mem.len <= HostClusters /\ HostClusters \in Nat
  BY <1>1, Lengths
<1>3. /\ op = [x \in OpFields |-> op[x]] /\ op.at \in Nat /\ op.end \in Nat /\ op.val \in Values /\ op.at < op.end /\ op.at < Size
      /\ Allocating /\ op.idx \in Hosts /\ op.deferred \in Seq(Hosts) /\ Owed = op.new
  BY <1>1 DEF DiskInv, OpOK
<1>4. Unused(file, mem.len) /\ mem.len \in file.meta .. HostClusters - 1  BY <1>1, <1>2, BeyondUnused DEF DiskInv
<1>5. /\ ImageOK(file') /\ Keeps(file, file') /\ file'.l1 = file.l1 /\ file'.meta = file.meta /\ file'.reft = file.reft
      /\ file'.ref = file.ref /\ file'.len \in Nat /\ file'.len = (IF mem.len >= file.len THEN mem.len + 1 ELSE file.len)
      /\ \A k : Unused(file, k) => Unused(file', k)
      /\ \A k \in Hosts : k # mem.len => file'.cell[k] = file.cell[k]
      /\ \A i \in L1Set : file.l1[i] # 0 => file'.cell[file.l1[i]] = file.cell[file.l1[i]]
  BY <1>1, <1>4, BlankOK, FreshWritten
<1> DEFINE n == mem.len + 1
<1>6. file'.len = n /\ n \in Nat /\ n <= HostClusters /\ mem.len < n  BY <1>1, <1>2, <1>5
<1>7. MemOK' /\ mem'.len = n /\ mem'.open
  <2>1. CacheIn(file', mem.cache)
    <3>1. CacheIn(file, mem.cache)  BY <1>1 DEF DiskInv, MemOK, CacheIn
    <3>2. QED  BY <1>5, <3>1, CacheMoves
  <2>2. mem' = [mem EXCEPT !.len = n, !.cache = mem.cache]  BY <1>1 DEF DiskInv, MemOK
  <2>3. n \in file'.len .. HostClusters  BY <1>2, <1>6
  <2> HIDE DEF n
  <2>4. QED  BY <1>1, <1>5, <2>1, <2>2, <2>3, MemStep
<1>8. /\ op' = [x \in OpFields |-> op'[x]] /\ op'.pc = "table" /\ op'.at = op.at /\ op'.end = op.end /\ op'.val = op.val
      /\ op'.data = op.data /\ op'.new = op.new /\ op'.idx = op.idx /\ op'.ret = op.ret /\ op'.deferred = op.deferred
  BY <1>1, <1>3 DEF OpFields
<1>9. op.new \in Nat /\ op.new < mem.len /\ Unused(file, op.new) /\ op.new # mem.len
  <2>1. op.new \in file.meta .. mem.len - 1 /\ Unused(file, op.new)  BY <1>3 DEF Allocating, Fresh
  <2>2. QED  BY <1>2, <2>1
<1>10. ASSUME op.ret = "zero" PROVE op.data # mem.len /\ Unused(file', op.data) /\ file'.cell[op.data] = file.cell[op.data]
  <2>1. op.data \in Hosts /\ op.data < file.len /\ Unused(file, op.data) /\ op.data \in Nat  BY <1>1, <1>3, <1>10, HeldIn DEF Allocating
  <2>2. op.data # mem.len  BY <1>2, <2>1
  <2>3. QED  BY <1>5, <2>1, <2>2
<1>11. Allocating'
  <2>1. SameOp /\ mem'.len \in Nat /\ mem.len <= mem'.len /\ file.len <= file'.len  BY <1>2, <1>6, <1>7, <1>8 DEF SameOp
  <2>2. QED  BY <1>1, <1>3, <1>5, <1>8, <1>9, <1>10, <2>1, AllocatingKept
<1>12. mem'.len - 1 = mem.len  BY <1>2, <1>7
<1>13. Fresh(mem.len - 1)' /\ mem'.len - 1 < file'.len
  <2>1. mem.len \in file'.meta .. mem'.len - 1 /\ Unused(file', mem.len)  BY <1>2, <1>4, <1>5, <1>12
  <2>2. QED  BY <1>6, <1>12, <2>1 DEF Fresh
<1>14. OpOK'
  <2>1. Block' = Block /\ Owed' = Owed  BY <1>8 DEF Block, Owed
  <2>2. QED  BY <1>1, <1>3, <1>5, <1>8, <1>9, <1>10, <1>11, <1>12, <1>13, <2>1 DEF OpOK
<1>15. CountsOK'  BY <1>1, <1>8 DEF DiskInv, CountsOK
<1>16. QED  BY <1>5, <1>7, <1>14, <1>15 DEF DiskInv

\* The last count owed, as the list of them grows and shrinks.
LEMMA OwedGrows ==
  ASSUME NEW S, NEW q \in Seq(S), NEW x \in S
  PROVE  LET p == <<x>> \o q
         IN  p \in Seq(S) /\ p # <<>> /\ p[Len(p)] = IF q = <<>> THEN x ELSE q[Len(q)]
OBVIOUS

LEMMA OwedShrinks ==
  ASSUME NEW S, NEW q \in Seq(S), q # <<>>
  PROVE  /\ Head(q) \in S /\ Tail(q) \in Seq(S)
         /\ q[Len(q)] = IF Tail(q) = <<>> THEN Head(q) ELSE Tail(q)[Len(Tail(q))]
<1>1. Len(q) \in Nat \ {0} /\ Head(q) = q[1] /\ Head(q) \in S  OBVIOUS
<1>2. Tail(q) \in Seq(S) /\ Len(Tail(q)) = Len(q) - 1 /\ \A i \in 1 .. Len(q) - 1 : Tail(q)[i] = q[i + 1]  BY <1>1
<1>3. CASE Tail(q) = <<>>
  <2>1. Len(q) = 1
    <3>1. Len(<<>>) = 0  OBVIOUS
    <3>2. Len(Tail(q)) = 0  BY <1>3, <3>1
    <3>3. PICK n \in Nat \ {0} : n = Len(q)  BY <1>1
    <3>4. n - 1 = 0  BY <1>2, <3>2, <3>3
    <3>5. n = 1  BY <3>4
    <3>6. QED  BY <3>3, <3>5
  <2>2. QED  BY <1>1, <1>2, <1>3, <2>1
<1>4. CASE Tail(q) # <<>>
  <2>1. Len(q) - 1 \in 1 .. Len(q) - 1 /\ Len(q) - 1 + 1 = Len(q)  BY <1>1, <1>2, <1>4
  <2>2. QED  BY <1>1, <1>2, <1>4, <2>1
<1>5. QED  BY <1>3, <1>4

LEMMA WriteTableEntryOK == ASSUME DiskInv, WriteTableEntry PROVE DiskInv' /\ Keeps(file, file')
<1> DEFINE b == mem.len - 1
           r == [file.reft EXCEPT ![Block] = b]
<1>1. /\ mem.open /\ op.pc = "table" /\ mem' = mem /\ UNCHANGED <<res, ops, faults>>
      /\ file' = [file EXCEPT !.reft[Block] = b]
      /\ op' = [op EXCEPT !.pc = "bump", !.idx = b, !.deferred = <<op.idx>> \o @]
  BY DEF WriteTableEntry, At
<1>2. /\ file.meta \in Nat \ {0} /\ file.len \in Nat /\ file.meta <= file.len /\ mem.len \in Nat
      /\ file.len <= mem.len /\ mem.len <= HostClusters /\ HostClusters \in Nat
  BY <1>1, Lengths
<1>3. /\ op = [x \in OpFields |-> op[x]] /\ op.at \in Nat /\ op.end \in Nat /\ op.val \in Values /\ op.at < op.end /\ op.at < Size
      /\ Allocating /\ op.idx \in Hosts /\ op.deferred \in Seq(Hosts) /\ Owed = op.new
      /\ Fresh(b) /\ b < file.len /\ b # op.new /\ (op.ret = "zero" => b # op.data) /\ Block \in DOMAIN file.reft
  BY <1>1 DEF DiskInv, OpOK
<1>4. Unused(file, b) /\ b \in Hosts /\ b \in 1 .. file.len - 1
  <2>1. Unused(file, b) /\ b \in file.meta .. mem.len - 1  BY <1>3 DEF Fresh
  <2>2. b \in Nat /\ b \in 1 .. file.len - 1 /\ b < HostClusters  BY <1>2, <1>3, <2>1
  <2>3. QED  BY <1>2, <2>1, <2>2 DEF Hosts
<1>5. ImageOK(file) /\ file = [x \in FileFields |-> file[x]]  BY DEF DiskInv, ImageOK, ShapeOK
<1> HIDE DEF b
<1>6. /\ file' = [x \in FileFields |-> file'[x]] /\ file'.len = file.len /\ file'.ragged = file.ragged /\ file'.meta = file.meta
      /\ file'.l1 = file.l1 /\ file'.ref = file.ref /\ file'.cell = file.cell /\ file'.reft = r
  <2>1. file' = [file EXCEPT !.reft = r]  BY <1>1, <1>5 DEF FileFields
  <2> HIDE DEF r
  <2>2. QED  BY <1>5, <2>1 DEF FileFields
<1>7. Rest(file, file')
  <2>1. file.len \in 0 .. HostClusters /\ file.ragged \in BOOLEAN /\ file.ref = [h \in Hosts |-> file.ref[h]]
    BY <1>5 DEF ImageOK, ShapeOK
  <2>2. QED  BY <1>2, <1>6, <2>1 DEF Rest
<1>8. /\ ImageOK(file') /\ (\A k : Unused(file, k) /\ k # b => Unused(file', k))
      /\ \A i \in L1Set, j \in Cols : Entry(file', i, j) = Entry(file, i, j)
  <2>1. b \in 1 .. file'.len - 1  BY <1>4, <1>6
  <2>2. PICK n \in DOMAIN file.reft : n = Block  BY <1>3
  <2>3. file'.reft = [file.reft EXCEPT ![n] = b]  BY <1>6, <2>2
  <2> HIDE DEF r
  <2>4. PICK g : g = file'  OBVIOUS
  <2>5. Rest(file, g) /\ g.l1 = file.l1 /\ g.cell = file.cell /\ g.reft = [file.reft EXCEPT ![n] = b] /\ b \in 1 .. g.len - 1
    BY <1>6, <1>7, <2>1, <2>3, <2>4
  <2>6. /\ ImageOK(g) /\ (\A k : Unused(file, k) /\ k # b => Unused(g, k))
        /\ \A i \in L1Set, j \in Cols : Entry(g, i, j) = Entry(file, i, j)
    BY <1>4, <1>5, <2>5, LinkBlock
  <2>7. QED  BY <2>4, <2>6
<1>9. Keeps(file, file')
  <2> SUFFICES ASSUME NEW w \in Nat, w < Size PROVE Reads(file', w) = Reads(file, w)  BY DEF Keeps
  <2>1. QED  BY <1>5, <1>6, <1>8, ReadsSame
<1>10. MemOK'  BY <1>1, <1>2, <1>6, MemStays
<1> DEFINE q == <<op.idx>> \o op.deferred
<1>11. q \in Seq(Hosts) /\ q # <<>> /\ q[Len(q)] = IF op.deferred = <<>> THEN op.idx ELSE op.deferred[Len(op.deferred)]
  BY <1>3, OwedGrows
<1> HIDE DEF q
<1>12. /\ op' = [x \in OpFields |-> op'[x]] /\ op'.pc = "bump" /\ op'.at = op.at /\ op'.end = op.end /\ op'.val = op.val
       /\ op'.data = op.data /\ op'.new = op.new /\ op'.idx = b /\ op'.ret = op.ret /\ op'.deferred = q
  <2>1. op' = [op EXCEPT !.pc = "bump", !.idx = b, !.deferred = q]  BY <1>1, <1>3 DEF OpFields, q
  <2>2. QED  BY <1>3, <2>1 DEF OpFields
<1>13. Allocating'
  <2>1. Unused(file', op.new)
    <3>1. Unused(file, op.new)  BY <1>3 DEF Allocating, Fresh
    <3>2. QED  BY <1>3, <1>8, <3>1
  <2>2. op.ret = "zero" => Unused(file', op.data)
    <3>1. op.ret = "zero" => Unused(file, op.data)  BY <1>3 DEF Allocating, Holding, Fresh
    <3>2. QED  BY <1>3, <1>8, <3>1
  <2>3. SameOp /\ mem'.len \in Nat /\ mem.len <= mem'.len /\ file.len <= file'.len  BY <1>1, <1>2, <1>6, <1>12 DEF SameOp
  <2>4. file'.len \in Nat  BY <1>2, <1>6
  <2>5. QED  BY <1>1, <1>3, <1>6, <1>9, <1>12, <2>1, <2>2, <2>3, <2>4, AllocatingKept
<1>14. Owed' = op'.new  BY <1>3, <1>11, <1>12 DEF Owed
<1>15. OpOK'  BY <1>3, <1>4, <1>11, <1>12, <1>13, <1>14 DEF OpOK
<1>16. CountsOK'  BY <1>1, <1>12 DEF DiskInv, CountsOK
<1>17. QED  BY <1>8, <1>9, <1>10, <1>15, <1>16 DEF DiskInv

LEMMA WriteRefcountOK == ASSUME DiskInv, WriteRefcount PROVE DiskInv' /\ Keeps(file, file')
<1> DEFINE r == [file.ref EXCEPT ![op.idx] = 1]
<1>1. /\ mem.open /\ op.pc = "bump" /\ mem' = mem /\ UNCHANGED <<res, ops, faults>>
      /\ file' = [file EXCEPT !.ref[op.idx] = 1]
      /\ op' = IF op.deferred = <<>> THEN [op EXCEPT !.pc = op.ret]
               ELSE [op EXCEPT !.idx = Head(op.deferred), !.deferred = Tail(@)]
  BY DEF WriteRefcount, At
<1>2. /\ file.meta \in Nat \ {0} /\ file.len \in Nat /\ file.meta <= file.len /\ mem.len \in Nat
      /\ file.len <= mem.len /\ mem.len <= HostClusters /\ HostClusters \in Nat
  BY <1>1, Lengths
<1>3. /\ op = [x \in OpFields |-> op[x]] /\ op.at \in Nat /\ op.end \in Nat /\ op.val \in Values /\ op.at < op.end /\ op.at < Size
      /\ Allocating /\ op.idx \in Hosts /\ op.deferred \in Seq(Hosts) /\ Owed = op.new
  BY <1>1 DEF DiskInv, OpOK
<1>4. ImageOK(file) /\ file = [x \in FileFields |-> file[x]] /\ file.ref = [h \in Hosts |-> file.ref[h]] /\ file.cell \in [Hosts -> Cells]
  BY DEF DiskInv, ImageOK, ShapeOK
<1>5. r = [h \in Hosts |-> r[h]] /\ r[op.idx] = 1 /\ \A h \in Hosts : file.ref[h] = 1 => r[h] = 1  BY <1>3, <1>4
<1>6. /\ file' = [x \in FileFields |-> file'[x]] /\ file'.len = file.len /\ file'.ragged = file.ragged /\ file'.meta = file.meta
      /\ file'.l1 = file.l1 /\ file'.reft = file.reft /\ file'.cell = file.cell /\ file'.ref = r
  <2>1. file' = [file EXCEPT !.ref = r]  BY <1>1, <1>4 DEF FileFields
  <2> HIDE DEF r
  <2>2. QED  BY <1>4, <2>1 DEF FileFields
<1> HIDE DEF r
<1>7. Rest(file, file') /\ SameLinks(file, file')
  <2>1. file.len \in 0 .. HostClusters /\ file.ragged \in BOOLEAN  BY <1>4 DEF ImageOK, ShapeOK
  <2>2. QED  BY <1>2, <1>5, <1>6, <2>1 DEF Rest, SameLinks
<1>8. \A i \in L1Set, j \in Cols : Entry(file', i, j) = Entry(file, i, j)  BY <1>6 DEF Entry
<1>9. ImageOK(file') /\ \A k : Unused(file, k) => Unused(file', k)  BY <1>4, <1>6, <1>7, <1>8, SameTables
<1>10. Keeps(file, file')
  <2> SUFFICES ASSUME NEW w \in Nat, w < Size PROVE Reads(file', w) = Reads(file, w)  BY DEF Keeps
  <2>1. QED  BY <1>4, <1>6, <1>8, ReadsSame
<1>11. MemOK'  BY <1>1, <1>2, <1>6, MemStays
<1>12. SameOp /\ op'.data = op.data /\ op'.new = op.new /\ op'.ret = op.ret => Allocating'
  <2>1. Unused(file', op.new)  BY <1>3, <1>9 DEF Allocating, Fresh
  <2>2. op.ret = "zero" => Unused(file', op.data)  BY <1>3, <1>9 DEF Allocating, Holding, Fresh
  <2>3. mem'.len \in Nat /\ mem.len <= mem'.len /\ file.len <= file'.len /\ file'.len \in Nat  BY <1>1, <1>2, <1>6
  <2>4. QED  BY <1>1, <1>3, <1>5, <1>6, <1>10, <2>1, <2>2, <2>3, AllocatingKept
<1>13. CASE op.deferred = <<>>
  <2>1. /\ op' = [x \in OpFields |-> op'[x]] /\ op'.pc = op.ret /\ op'.at = op.at /\ op'.end = op.end /\ op'.val = op.val
        /\ op'.data = op.data /\ op'.new = op.new /\ op'.idx = op.idx /\ op'.ret = op.ret /\ op'.deferred = <<>>
    BY <1>1, <1>3, <1>13 DEF OpFields
  <2>2. Allocating' /\ op.ret \in {"data", "zero"}  BY <1>3, <1>12, <2>1 DEF SameOp, Allocating
  <2>3. file'.ref[op'.new] = 1  BY <1>3, <1>5, <1>6, <1>13, <2>1 DEF Owed
  <2>4. OpOK'  BY <1>3, <2>1, <2>2, <2>3 DEF OpOK
  <2>5. CountsOK'  BY <1>1, <2>1, <2>2 DEF DiskInv, CountsOK
  <2>6. QED  BY <1>9, <1>10, <1>11, <2>4, <2>5 DEF DiskInv
<1>14. CASE op.deferred # <<>>
  <2> DEFINE a == Head(op.deferred)
             q == Tail(op.deferred)
  <2>1. /\ a \in Hosts /\ q \in Seq(Hosts)
        /\ op.deferred[Len(op.deferred)] = IF q = <<>> THEN a ELSE q[Len(q)]
    BY <1>3, <1>14, OwedShrinks
  <2>2. op' = [op EXCEPT !.idx = a, !.deferred = q]  BY <1>1, <1>3, <1>14 DEF OpFields
  <2> HIDE DEF a, q
  <2>3. /\ op' = [x \in OpFields |-> op'[x]] /\ op'.pc = "bump" /\ op'.at = op.at /\ op'.end = op.end /\ op'.val = op.val
        /\ op'.data = op.data /\ op'.new = op.new /\ op'.idx = a /\ op'.ret = op.ret /\ op'.deferred = q
    BY <1>1, <1>3, <2>2 DEF OpFields
  <2>4. Allocating'  BY <1>12, <2>3 DEF SameOp
  <2>5. Owed' = op'.new  BY <1>3, <1>14, <2>1, <2>3 DEF Owed
  <2>6. OpOK'  BY <1>3, <2>1, <2>3, <2>4, <2>5 DEF OpOK
  <2>7. CountsOK'  BY <1>1, <2>3 DEF DiskInv, CountsOK
  <2>8. QED  BY <1>9, <1>10, <1>11, <2>6, <2>7 DEF DiskInv
<1>15. QED  BY <1>13, <1>14

\* What is known at the steps that write the new cluster.
LEMMA NewIn == ASSUME DiskInv, mem.open, Fresh(op.new)
               PROVE  /\ op.new \in file.meta .. HostClusters - 1 /\ Unused(file, op.new) /\ op.new \in Hosts /\ op.new \in Nat
                      /\ op.new < mem.len /\ op.new # 0
<1>1. /\ file.meta \in Nat \ {0} /\ file.len \in Nat /\ file.meta <= file.len /\ mem.len \in Nat
      /\ file.len <= mem.len /\ mem.len <= HostClusters /\ HostClusters \in Nat
  BY Lengths
<1>2. op.new \in file.meta .. mem.len - 1 /\ Unused(file, op.new)  BY DEF Fresh
<1>3. QED  BY <1>1, <1>2 DEF Hosts

LEMMA WriteDataOK == ASSUME DiskInv, WriteData PROVE DiskInv' /\ Keeps(file, file')
<1>1. mem.open /\ op.pc = "data" /\ mem' = mem /\ UNCHANGED <<res, ops, faults>> /\ op' = [op EXCEPT !.pc = "link", !.data = op.new]
  BY DEF WriteData, At
<1>2. /\ op = [x \in OpFields |-> op[x]] /\ op.at \in Nat /\ op.end \in Nat /\ op.val \in Values /\ op.at < op.end /\ op.at < Size
      /\ Allocating /\ file.ref[op.new] = 1 /\ op.deferred = <<>>
  BY <1>1 DEF DiskInv, OpOK
<1>3. /\ op.new \in file.meta .. HostClusters - 1 /\ Unused(file, op.new) /\ op.new \in Hosts /\ op.new \in Nat
      /\ op.new < mem.len /\ Fresh(op.new)
  BY <1>1, <1>2, NewIn DEF Allocating
<1>4. file' = WithCluster(op.new, NewData)
  <2>1. C \in Nat /\ Width \in Nat  BY <1>2, Located, SizesOK DEF C, Sizes
  <2>2. ASSUME NEW i \in 0 .. Width - 1
        PROVE  (IF C * Width + i < Size THEN View(C * Width + i) ELSE 0) = (IF C * Width + i < Size THEN Reads(file, C * Width + i) ELSE 0)
    <3>1. C * Width + i \in Nat  BY <2>1
    <3>2. QED  BY <3>1, ViewReads
  <2>3. [i \in 0 .. Width - 1 |-> IF C * Width + i < Size THEN View(C * Width + i) ELSE 0]
          = [i \in 0 .. Width - 1 |-> IF C * Width + i < Size THEN Reads(file, C * Width + i) ELSE 0]
    BY <2>2
  <2>4. QED  BY <2>3 DEF WriteData, NewData
<1>5. /\ ImageOK(file') /\ Keeps(file, file') /\ file'.l1 = file.l1 /\ file'.meta = file.meta
      /\ file'.ref = file.ref /\ file'.len \in Nat /\ file'.len = (IF op.new >= file.len THEN op.new + 1 ELSE file.len)
      /\ op.new < file'.len /\ \A k : Unused(file, k) => Unused(file', k)
      /\ file'.cell[op.new] = NewData
      /\ \A i \in L1Set : file.l1[i] # 0 => file'.cell[file.l1[i]] = file.cell[file.l1[i]]
  BY <1>1, <1>3, <1>4, NewDataOK, FreshWritten
<1>6. file'.len <= mem.len  BY <1>1, <1>3, <1>5, Lengths
<1>7. MemOK'  BY <1>1, <1>5, <1>6, MemStays
<1>8. /\ op' = [x \in OpFields |-> op'[x]] /\ op'.pc = "link" /\ op'.at = op.at /\ op'.end = op.end /\ op'.val = op.val
      /\ op'.data = op.new /\ op'.deferred = <<>>
  BY <1>1, <1>2 DEF OpFields
<1>9. Holding'
  <2>1. NewData' = NewData  BY <1>5, <1>8, NewDataKept DEF SameOp
  <2>2. op'.data \in file'.meta .. mem'.len - 1 /\ Unused(file', op'.data)  BY <1>1, <1>3, <1>5, <1>8 DEF Fresh
  <2>3. QED  BY <1>2, <1>5, <1>8, <2>1, <2>2 DEF Holding, Fresh
<1>10. OpOK'  BY <1>2, <1>8, <1>9 DEF OpOK
<1>11. CountsOK'  BY <1>1, <1>8 DEF DiskInv, CountsOK
<1>12. QED  BY <1>5, <1>7, <1>10, <1>11 DEF DiskInv

LEMMA ZeroL2OK == ASSUME DiskInv, ZeroL2 PROVE DiskInv' /\ Keeps(file, file')
<1>1. /\ mem.open /\ op.pc = "zero" /\ mem' = mem /\ UNCHANGED <<res, ops, faults>> /\ op' = [op EXCEPT !.pc = "l1"]
      /\ file' = WithCluster(op.new, Blank)
  BY DEF ZeroL2, At
<1>2. /\ op = [x \in OpFields |-> op[x]] /\ op.at \in Nat /\ op.end \in Nat /\ op.val \in Values /\ op.at < op.end /\ op.at < Size
      /\ Allocating /\ file.ref[op.new] = 1 /\ op.deferred = <<>> /\ op.ret = "zero"
  BY <1>1 DEF DiskInv, OpOK
<1>3. /\ op.new \in file.meta .. HostClusters - 1 /\ Unused(file, op.new) /\ op.new \in Hosts /\ op.new \in Nat
      /\ op.new < mem.len /\ Fresh(op.new) /\ Holding /\ op.data # op.new
  BY <1>1, <1>2, NewIn DEF Allocating
<1>4. /\ ImageOK(file') /\ Keeps(file, file') /\ file'.l1 = file.l1 /\ file'.meta = file.meta
      /\ file'.ref = file.ref /\ file'.len \in Nat /\ file'.len = (IF op.new >= file.len THEN op.new + 1 ELSE file.len)
      /\ op.new < file'.len /\ \A k : Unused(file, k) => Unused(file', k)
      /\ file'.cell[op.new] = Blank /\ \A k \in Hosts : k # op.new => file'.cell[k] = file.cell[k]
      /\ \A i \in L1Set : file.l1[i] # 0 => file'.cell[file.l1[i]] = file.cell[file.l1[i]]
  BY <1>1, <1>3, BlankOK, FreshWritten
<1>5. file'.len <= mem.len /\ file.len <= file'.len /\ mem.len \in Nat  BY <1>1, <1>3, <1>4, Lengths
<1>6. MemOK'  BY <1>1, <1>4, <1>5, MemStays
<1>7. /\ op' = [x \in OpFields |-> op'[x]] /\ op'.pc = "l1" /\ op'.at = op.at /\ op'.end = op.end /\ op'.val = op.val
      /\ op'.data = op.data /\ op'.new = op.new /\ op'.ret = op.ret /\ op'.deferred = <<>>
  BY <1>1, <1>2 DEF OpFields
<1>8. Allocating'
  <2>1. Unused(file', op.new)  BY <1>3, <1>4
  <2>2. Unused(file', op.data) /\ file'.cell[op.data] = file.cell[op.data]  BY <1>1, <1>3, <1>4, HeldIn
  <2>3. SameOp /\ mem'.len \in Nat /\ mem.len <= mem'.len  BY <1>1, <1>5, <1>7 DEF SameOp
  <2>4. QED  BY <1>1, <1>2, <1>4, <1>5, <1>7, <2>1, <2>2, <2>3, AllocatingKept
<1>9. OpOK'  BY <1>2, <1>4, <1>7, <1>8 DEF OpOK
<1>10. CountsOK'  BY <1>1, <1>7 DEF DiskInv, CountsOK
<1>11. QED  BY <1>4, <1>6, <1>9, <1>10 DEF DiskInv

LEMMA LinkL1OK == ASSUME DiskInv, LinkL1 PROVE DiskInv' /\ Keeps(file, file')
<1> DEFINE n == L1Idx(C)
           h == op.new
           l == [file.l1 EXCEPT ![n] = h]
<1>1. /\ mem.open /\ op.pc = "l1" /\ UNCHANGED <<res, ops, faults>> /\ op' = [op EXCEPT !.pc = "link"]
      /\ file' = [file EXCEPT !.l1[n] = h] /\ mem' = [mem EXCEPT !.l1[n] = h]
  BY DEF LinkL1, At
<1>2. /\ op = [x \in OpFields |-> op[x]] /\ op.at \in Nat /\ op.end \in Nat /\ op.val \in Values /\ op.at < op.end /\ op.at < Size
      /\ Allocating /\ file.ref[h] = 1 /\ op.deferred = <<>> /\ op.ret = "zero" /\ h < file.len /\ file.cell[h] = Blank
  BY <1>1 DEF DiskInv, OpOK
<1>3. /\ h \in file.meta .. HostClusters - 1 /\ Unused(file, h) /\ h \in Nat
      /\ h < mem.len /\ Holding /\ op.data # h /\ file.l1[n] = 0
  BY <1>1, <1>2, NewIn DEF Allocating
<1>4. n \in L1Set  BY <1>2, Located DEF C
<1>5. /\ ImageOK(file) /\ file = [x \in FileFields |-> file[x]] /\ file.l1 \in [L1Set -> 0 .. file.len - 1]
      /\ mem.l1 = file.l1
      /\ mem = [open |-> TRUE, len |-> mem.len, ragged |-> mem.ragged, l1 |-> mem.l1, cache |-> mem.cache]
  BY <1>1 DEF DiskInv, ImageOK, ShapeOK, MemOK
<1>6. file' = [file EXCEPT !.l1 = l] /\ mem' = [open |-> TRUE, len |-> mem.len, ragged |-> mem.ragged, l1 |-> l, cache |-> mem.cache]
  BY <1>1, <1>5 DEF FileFields
<1>7. l[n] = h /\ \A i \in L1Set : i # n => l[i] = file.l1[i]  BY <1>4, <1>5
<1>8. /\ file' = [x \in FileFields |-> file'[x]] /\ file'.len = file.len /\ file'.ragged = file.ragged /\ file'.meta = file.meta
      /\ file'.l1 = l /\ file'.reft = file.reft /\ file'.cell = file.cell /\ file'.ref = file.ref
      /\ mem'.open = TRUE /\ mem'.len = mem.len /\ mem'.ragged = mem.ragged /\ mem'.l1 = l /\ mem'.cache = mem.cache
  <2> HIDE DEF l
  <2>1. QED  BY <1>5, <1>6 DEF FileFields
<1>9. file.len \in Nat /\ file.meta \in Nat /\ mem.len \in Nat /\ file.len <= mem.len  BY <1>1, Lengths
<1>10. /\ ImageOK(file') /\ (\A k : Unused(file, k) /\ k # h => Unused(file', k))
       /\ \A i \in L1Set, j \in Cols : Entry(file', i, j) = Entry(file, i, j)
  <2>1. PICK g : g = file'  OBVIOUS
  <2>2. Rest(file, g)
    <3>1. file.len \in 0 .. HostClusters /\ file.ragged \in BOOLEAN /\ file.ref = [x \in Hosts |-> file.ref[x]]
      BY <1>5 DEF ImageOK, ShapeOK
    <3>2. QED  BY <1>8, <1>9, <2>1, <3>1 DEF Rest
  <2>3. g.reft = file.reft /\ g.cell = file.cell /\ g.l1 = [file.l1 EXCEPT ![n] = h]  BY <1>8, <2>1
  <2>4. h \in file.meta .. file.len - 1  BY <1>2, <1>3, <1>9
  <2> HIDE DEF l, n, h
  <2>5. /\ ImageOK(g) /\ (\A k : Unused(file, k) /\ k # h => Unused(g, k))
        /\ \A i \in L1Set, j \in Cols : Entry(g, i, j) = Entry(file, i, j)
    BY <1>2, <1>3, <1>4, <1>5, <2>2, <2>3, <2>4, LinkTable
  <2>6. QED  BY <2>1, <2>5
<1>11. Keeps(file, file')
  <2> SUFFICES ASSUME NEW w \in Nat, w < Size PROVE Reads(file', w) = Reads(file, w)  BY DEF Keeps
  <2>1. QED  BY <1>5, <1>8, <1>10, ReadsSame
<1> HIDE DEF l
<1>12. MemOK'
  <2>1. CacheIn(file, mem.cache)  BY <1>1 DEF DiskInv, MemOK, CacheIn
  <2>2. CacheIn(file', mem.cache)
    <3>1. \A i \in L1Set : file.l1[i] # 0 => file'.l1[i] = file.l1[i]  BY <1>3, <1>7, <1>8
    <3>2. QED  BY <1>8, <2>1, <3>1 DEF CacheIn
  <2>3. mem'.len \in file'.len .. HostClusters  BY <1>1, <1>8 DEF DiskInv, MemOK
  <2>4. QED  BY <1>6, <1>8, <2>2, <2>3 DEF MemOK, CacheIn
<1>13. /\ op' = [x \in OpFields |-> op'[x]] /\ op'.pc = "link" /\ op'.at = op.at /\ op'.end = op.end /\ op'.val = op.val
       /\ op'.data = op.data /\ op'.deferred = <<>>
  BY <1>1, <1>2 DEF OpFields
<1>14. Holding'
  <2>1. Unused(file', op.data)  BY <1>1, <1>3, <1>10, HeldIn
  <2>2. file.ref[op.data] = 1  BY <1>3 DEF Holding
  <2>3. SameOp  BY <1>13 DEF SameOp
  <2>4. QED  BY <1>3, <1>8, <1>9, <1>11, <1>13, <2>1, <2>2, <2>3, HoldingKept
<1>15. OpOK'  BY <1>2, <1>13, <1>14 DEF OpOK
<1>16. CountsOK'  BY <1>1, <1>13 DEF DiskInv, CountsOK
<1>17. QED  BY <1>10, <1>11, <1>12, <1>15, <1>16 DEF DiskInv

LEMMA ShortWriteOK == ASSUME DiskInv, ShortWrite PROVE DiskInv' /\ Keeps(file, file')
<1>1. mem.open /\ op.pc \in {"data", "zero"} /\ op.new >= file.len /\ file' = [file EXCEPT !.len = op.new, !.ragged = TRUE]
      /\ Failed /\ mem' = mem
  BY DEF ShortWrite, At, Failed
<1>2. op.new \in Nat /\ op.new < mem.len
  <2>1. Fresh(op.new)  BY <1>1 DEF DiskInv, OpOK, Allocating
  <2>2. QED  BY <1>1, <2>1, NewIn
<1>3. /\ file.meta \in Nat \ {0} /\ file.len \in Nat /\ file.meta <= file.len /\ mem.len \in Nat
      /\ file.len <= mem.len /\ mem.len <= HostClusters /\ HostClusters \in Nat
  BY <1>1, Lengths
<1>4. /\ ImageOK(file) /\ file = [x \in FileFields |-> file[x]] /\ file.ref = [x \in Hosts |-> file.ref[x]]
      /\ file.cell \in [Hosts -> Cells]
  BY DEF DiskInv, ImageOK, ShapeOK
<1>5. /\ file' = [x \in FileFields |-> file'[x]] /\ file'.len = op.new /\ file'.ragged = TRUE /\ file'.meta = file.meta
      /\ file'.l1 = file.l1 /\ file'.reft = file.reft /\ file'.cell = file.cell /\ file'.ref = file.ref
  BY <1>1, <1>4 DEF FileFields
<1>6. Rest(file, file') /\ SameLinks(file, file')
  <2>1. op.new \in 0 .. HostClusters /\ file.len <= op.new  BY <1>1, <1>2, <1>3
  <2>2. QED  BY <1>4, <1>5, <2>1 DEF Rest, SameLinks
<1>7. \A i \in L1Set, j \in Cols : Entry(file', i, j) = Entry(file, i, j)  BY <1>5 DEF Entry
<1>8. ImageOK(file')  BY <1>4, <1>5, <1>6, <1>7, SameTables
<1>9. Keeps(file, file')
  <2> SUFFICES ASSUME NEW w \in Nat, w < Size PROVE Reads(file', w) = Reads(file, w)  BY DEF Keeps
  <2>1. QED  BY <1>4, <1>5, <1>7, ReadsSame
<1>10. MemOK'
  <2>1. file'.len <= mem.len /\ file'.len \in Nat  BY <1>2, <1>3, <1>5
  <2>2. QED  BY <1>1, <1>5, <2>1, MemStays
<1>11. QED  BY <1>1, <1>8, <1>9, <1>10, FailedOK DEF DiskInv

LEMMA CompactStepOK == ASSUME DiskInv, Compact PROVE DiskInv' /\ Keeps(file, file')
<1>1. /\ ~mem.open /\ compactWalk.len <= HostClusters /\ file' = compactWalk /\ ops < MaxOps /\ ops' = ops + 1
      /\ UNCHANGED <<mem, op, res, faults>>
  BY DEF Compact
<1>2. ImageOK(file') /\ Keeps(file, file')  BY <1>1, CompactOK DEF DiskInv, Keeps
<1>3. op = Idle /\ mem = Closed  BY <1>1 DEF DiskInv, MemOK, OpOK
<1>4. MemOK' /\ OpOK'  BY <1>1, <1>3, ClosedOK
<1>5. CountsOK'  BY <1>1, Qcow2Assumption DEF DiskInv, CountsOK
<1>6. QED  BY <1>2, <1>4, <1>5 DEF DiskInv

LEMMA LinkL2OK == ASSUME DiskInv, LinkL2 PROVE DiskInv' /\ Writes(file, file', Piece)
<1> DEFINE n == L1Idx(C)
           q == L2Idx(C)
           l == mem.l1[n]
           e == op.data
           x == [file.cell[l] EXCEPT ![q] = e]
           cache == updateL2Cache(l, q, e)
<1>1. /\ mem.open /\ op.pc = "link" /\ l # 0 /\ UNCHANGED <<ops, faults>> /\ op' = Advanced /\ res' = Outcome
      /\ file' = WithCluster(l, x) /\ mem' = [mem EXCEPT !.cache = cache]
  BY DEF LinkL2, At
<1>2. op.at \in Nat /\ op.at < op.end /\ op.at < Size /\ Holding /\ OpOK /\ mem.l1 = file.l1 /\ CacheIn(file, mem.cache)
  BY <1>1 DEF DiskInv, OpOK, MemOK, CacheIn
<1>3. e \in Hosts /\ e \in Nat /\ e < file.len /\ Unused(file, e) /\ e # 0  BY <1>1, <1>2, HeldIn
<1>4. C \in Nat /\ C < GuestClusters /\ n \in L1Set /\ q \in Cols  BY <1>2, Located, ClustersOK DEF C
<1>5. /\ ImageOK(file) /\ file.cell \in [Hosts -> Cells] /\ l \in Hosts /\ l = file.l1[n] /\ l < file.len
      /\ file.len \in Nat /\ file.meta \in Nat
  <2>1. ImageOK(file) /\ file.l1 \in [L1Set -> 0 .. file.len - 1]  BY DEF DiskInv, ImageOK, ShapeOK
  <2>2. QED  BY <1>2, <1>4, <2>1, HostsOK DEF ImageOK, ShapeOK
<1>6. x \in Cells  BY <1>3, <1>4, <1>5 DEF Cells
<1>7. file.ref[e] = 1 /\ e \in file.meta .. file.len - 1 /\ file.cell[e] = NewData  BY <1>2, <1>3, <1>5 DEF Holding, Fresh
<1>8. e # l  BY <1>3, <1>4, <1>5 DEF Unused
<1> HIDE DEF n, q, l, e, cache
<1>9. /\ Rest(file, file') /\ SameLinks(file, file') /\ file'.cell = [file.cell EXCEPT ![l] = x]
      /\ file'.len = (IF l >= file.len THEN l + 1 ELSE file.len)
  BY <1>1, <1>5, <1>6, WithClusterOK
<1>10. file'.len = file.len  BY <1>5, <1>9 DEF Hosts
<1>11. /\ ImageOK(file')
       /\ \A i \in L1Set, j \in Cols : Entry(file', i, j) = IF i = n /\ j = q THEN e ELSE Entry(file, i, j)
  <2>1. PICK g : g = file'  OBVIOUS
  <2>2. Rest(file, g) /\ SameLinks(file, g) /\ g.cell = [file.cell EXCEPT ![file.l1[n]] = [file.cell[file.l1[n]] EXCEPT ![q] = e]]
    BY <1>5, <1>9, <2>1
  <2>3. file.l1[n] # 0  BY <1>1, <1>5
  <2>4. ImageOK(g) /\ \A i \in L1Set, j \in Cols : Entry(g, i, j) = IF i = n /\ j = q THEN e ELSE Entry(file, i, j)
    <3>1. ImageOK(file) /\ n \in L1Set /\ q \in Cols  BY <1>4, <1>5
    <3>2. Unused(file, e) /\ e \in file.meta .. file.len - 1 /\ file.ref[e] = 1  BY <1>3, <1>7
    <3> HIDE DEF x
    <3>3. QED  BY <2>2, <2>3, <3>1, <3>2, LinkEntry
  <2>5. QED  BY <2>1, <2>4
<1>12. \A h \in Hosts : h # l => file'.cell[h] = file.cell[h]  BY <1>5, <1>9
<1>13. file'.cell[l] = x  BY <1>5, <1>9
<1>14. Sets(file, file', C, e)
  <2>1. \A h \in Hosts : h < file.len /\ (\A i \in L1Set : file.l1[i] # h) => file'.cell[h] = file.cell[h]  BY <1>4, <1>5, <1>12
  <2>2. QED  BY <1>11, <2>1 DEF Sets, n, q
<1> HIDE DEF x
<1>15. MemOK'
  <2>1. CacheIn(file', cache)
    <3>1. CASE l \in DOMAIN mem.cache
      <4>1. cache = [mem.cache EXCEPT ![l] = [mem.cache[l] EXCEPT ![q] = e]]  BY <3>1 DEF cache, updateL2Cache
      <4>2. mem.cache[l] = file.cell[l]  BY <1>2, <3>1 DEF CacheIn
      <4>3. DOMAIN cache = DOMAIN mem.cache /\ cache[l] = x /\ \A t \in DOMAIN cache : t # l => cache[t] = mem.cache[t]
        BY <3>1, <4>1, <4>2 DEF x
      <4>4. file'.l1 = file.l1 /\ \A i \in L1Set : file.l1[i] \in Hosts  BY <1>5, <1>9, HostsOK DEF SameLinks, ImageOK
      <4>5. ASSUME NEW t \in DOMAIN cache PROVE cache[t] = file'.cell[t] /\ \E i \in L1Set : file'.l1[i] = t /\ t # 0
        <5>1. PICK i \in L1Set : file.l1[i] = t /\ t # 0  BY <1>2, <4>3, <4>5 DEF CacheIn
        <5>2. t \in Hosts /\ file'.l1[i] = t  BY <4>4, <5>1
        <5>3. CASE t = l  BY <1>13, <4>3, <5>1, <5>2, <5>3
        <5>4. CASE t # l
          <6>1. cache[t] = file.cell[t]  BY <1>2, <4>3, <4>5, <5>4 DEF CacheIn
          <6>2. QED  BY <1>12, <5>1, <5>2, <5>4, <6>1
        <5>5. QED  BY <5>3, <5>4
      <4>6. QED  BY <4>5 DEF CacheIn
    <3>2. CASE l \notin DOMAIN mem.cache
      <4>1. cache = mem.cache  BY <3>2 DEF cache, updateL2Cache
      <4>2. file'.l1 = file.l1 /\ \A i \in L1Set : file.l1[i] \in Hosts  BY <1>5, <1>9, HostsOK DEF SameLinks, ImageOK
      <4>3. ASSUME NEW t \in DOMAIN mem.cache PROVE mem.cache[t] = file'.cell[t] /\ \E i \in L1Set : file'.l1[i] = t /\ t # 0
        <5>1. PICK i \in L1Set : file.l1[i] = t /\ t # 0  BY <1>2, <4>3 DEF CacheIn
        <5>2. t \in Hosts /\ file'.l1[i] = t /\ t # l  BY <3>2, <4>2, <4>3, <5>1
        <5>3. mem.cache[t] = file.cell[t]  BY <1>2, <4>3 DEF CacheIn
        <5>4. QED  BY <1>12, <5>1, <5>2, <5>3
      <4>4. QED  BY <4>1, <4>3 DEF CacheIn
    <3>3. QED  BY <3>1, <3>2
  <2>2. mem' = [mem EXCEPT !.len = mem.len, !.cache = cache] /\ mem.len \in file'.len .. HostClusters
    BY <1>1, <1>10 DEF DiskInv, MemOK
  <2>3. QED  BY <1>1, <1>9, <2>1, <2>2, MemStep DEF SameLinks
<1>16. OpOK' /\ CountsOK'  BY <1>1, <1>2, AdvancedOK
<1>17. Writes(file, file', Piece)
  <2> SUFFICES ASSUME NEW w \in Nat, w < Size PROVE Reads(file', w) = IF w \in op.at .. ClusterEnd - 1 THEN op.val ELSE Reads(file, w)
    BY DEF Writes, Piece
  <2>1. /\ Entry(file', L1Idx(C), L2Idx(C)) = e
        /\ \A v \in Nat : v < Size /\ Cluster(v) # C => Reads(file', v) = Reads(file, v)
    BY <1>4, <1>5, <1>14, OthersRead
  <2>2. CASE Cluster(w) = C
    <3>1. C * Width + InCluster(w) = w /\ InCluster(w) \in 0 .. Width - 1  BY <2>2, PlaceOf
    <3>2. Reads(file', w) = file'.cell[e][InCluster(w)]
      <4>1. e # 0 /\ e # ZERO  BY <1>3 DEF ZERO
      <4>2. QED  BY <2>1, <2>2, <4>1 DEF Reads
    <3>3. file'.cell[e] = NewData  BY <1>3, <1>7, <1>8, <1>12
    <3>4. NewData[InCluster(w)] = IF w \in op.at .. ClusterEnd - 1 THEN op.val ELSE Reads(file, w)
      BY <3>1 DEF NewData, Patched
    <3>5. QED  BY <3>2, <3>3, <3>4
  <2>3. CASE Cluster(w) # C
    <3>1. w \notin op.at .. ClusterEnd - 1  BY <1>2, <2>3, PieceIn
    <3>2. QED  BY <2>1, <2>3, <3>1
  <2>4. QED  BY <2>2, <2>3
<1>18. QED  BY <1>11, <1>15, <1>16, <1>17 DEF DiskInv

(***************************************************************************)
(* The invariant holds, and no cluster is shared.                          *)
(***************************************************************************)

\* A created image satisfies the invariant.
LEMMA DiskInit == Init => DiskInv
<1> SUFFICES ASSUME Init PROVE DiskInv  OBVIOUS
<1>1. PICK p \in BOOLEAN : file = createQcow2(p)  BY DEF Init
<1>2. ImageOK(file)  BY <1>1, FreshImage
<1>3. mem = Closed /\ op = Idle /\ res = "ok" /\ ops = 0 /\ faults = 0  BY DEF Init
<1>4. MemOK  BY <1>3 DEF MemOK, Closed, Idle
<1>5. OpOK
  <2>1. Idle = [x \in OpFields |-> Idle[x]]  BY DEF Idle, OpFields
  <2>2. Idle.pc = "idle" /\ Idle.at = 0 /\ Idle.end = 0 /\ Idle.val = 0 /\ Idle.deferred = <<>>  BY DEF Idle
  <2>3. 0 \in Values  BY Qcow2Assumption
  <2>4. QED  BY <1>3, <2>1, <2>2, <2>3 DEF OpOK
<1>6. CountsOK
  <2>1. Idle.pc = "idle"  BY DEF Idle
  <2>2. QED  BY <1>3, <2>1, Qcow2Assumption DEF CountsOK
<1>7. QED  BY <1>2, <1>4, <1>5, <1>6 DEF DiskInv

\* Every step keeps it.
LEMMA DiskStep == ASSUME DiskInv, Next PROVE DiskInv'
<1>1. CASE OpenWritable  BY <1>1, OpenWritableOK
<1>2. CASE Close  BY <1>2, CloseOK
<1>3. CASE Compact  BY <1>3, CompactStepOK
<1>4. CASE \E w \in 0 .. Size - 1 : ReadAt(w)  BY <1>4, ReadAtOK
<1>5. CASE \E at \in 0 .. Size - 1, n \in 1 .. MaxRun, v \in Values : Begin(at, at + n, v)  BY <1>5, BeginOK
<1>6. CASE WriteInPlace  BY <1>6, WriteInPlaceOK
<1>7. CASE AllocData  BY <1>7, AllocDataOK
<1>8. CASE RegisterBlock  BY <1>8, RegisterBlockOK
<1>9. CASE WriteTableEntry  BY <1>9, WriteTableEntryOK
<1>10. CASE WriteRefcount  BY <1>10, WriteRefcountOK
<1>11. CASE WriteData  BY <1>11, WriteDataOK
<1>12. CASE AllocL2  BY <1>12, AllocL2OK
<1>13. CASE ZeroL2  BY <1>13, ZeroL2OK
<1>14. CASE LinkL1  BY <1>14, LinkL1OK
<1>15. CASE LinkL2  BY <1>15, LinkL2OK
<1>16. CASE Refused  BY <1>16, RefusedOK
<1>17. CASE WriteFails  BY <1>17, WriteFailsOK
<1>18. CASE ShortWrite  BY <1>18, ShortWriteOK
<1>19. CASE ShortInPlace  BY <1>19, ShortInPlaceOK
<1>20. CASE Crash  BY <1>20, CrashOK
<1>21. QED
  BY <1>1, <1>2, <1>3, <1>4, <1>5, <1>6, <1>7, <1>8, <1>9, <1>10, <1>11, <1>12, <1>13, <1>14, <1>15, <1>16, <1>17, <1>18,
     <1>19, <1>20 DEF Next

\* And so does no step.
LEMMA DiskStutters == ASSUME DiskInv, UNCHANGED vars PROVE DiskInv'
<1>1. file' = file /\ mem' = mem /\ op' = op /\ res' = res /\ ops' = ops /\ faults' = faults  BY DEF vars
<1>2. ImageOK(file') /\ MemOK' /\ CountsOK'  BY <1>1 DEF DiskInv, MemOK, CountsOK
<1>3. NewData' = NewData /\ C' = C /\ Block' = Block /\ Owed' = Owed
  BY <1>1, KeepsSame, NewDataKept DEF SameOp, Block, Owed
<1>4. Holding' = Holding /\ Allocating' = Allocating  BY <1>1, <1>3 DEF Holding, Allocating, Fresh
<1>5. OpOK'  BY <1>1, <1>3, <1>4 DEF DiskInv, OpOK, Fresh
<1>6. QED  BY <1>2, <1>5 DEF DiskInv

\* A set whose members are all equal.
LEMMA AtMostOne ==
  ASSUME NEW S, \A x, y \in S : x = y
  PROVE  Cardinality(S) \in {0, 1} /\ (S = {} => Cardinality(S) = 0) /\ (Cardinality(S) = 1 => S # {})
<1>1. CASE S = {}  BY <1>1, FS_EmptySet
<1>2. CASE S # {}
  <2>1. PICK x \in S : TRUE  BY <1>2
  <2>2. S = {x}  BY <2>1
  <2>3. Cardinality(S) = 1  BY <2>2, FS_Singleton
  <2>4. QED  BY <1>2, <2>3
<1>3. QED  BY <1>1, <1>2

\* The invariant implies the types.
LEMMA DiskTyped == ASSUME DiskInv PROVE TypeOK
<1>1. file.len \in 0 .. HostClusters /\ file.ragged \in BOOLEAN /\ file.cell \in [Hosts -> [0 .. Width - 1 -> Int]]
  BY DEF DiskInv, ImageOK, ShapeOK, Cells, Cols
<1>2. mem.open => mem.len >= file.len  BY Lengths
<1>3. QED  BY <1>1, <1>2 DEF TypeOK, DiskInv, CountsOK

\* The invariant implies that no cluster is shared.
LEMMA NotShared == DiskInv => NoSharedCluster
<1> SUFFICES ASSUME DiskInv PROVE NoSharedCluster  OBVIOUS
<1>1. /\ ImageOK(file) /\ file.l1 \in [L1Set -> 0 .. file.len - 1] /\ file.len \in Nat /\ file.meta \in Nat
      /\ \A b \in DOMAIN file.reft : file.reft[b] \in 0 .. file.len - 1
  BY HostsOK DEF DiskInv, ImageOK, ShapeOK
<1> SUFFICES ASSUME NEW h \in 1 .. HostClusters - 1
             PROVE  /\ RefsTo(h) <= 1
                    /\ RefsTo(h) = 1 => h < file.len
                    /\ (DataRefs(h) # {} \/ h \in Tables) => file.ref[h] = 1
                    /\ DataRefs(h) # {} => h >= file.meta
  BY DiskTyped DEF NoSharedCluster
<1> DEFINE A == DataRefs(h)
           B == {i \in DOMAIN file.l1 : file.l1[i] = h}
           D == {b \in DOMAIN file.reft : file.reft[b] = h}
<1>2. h > 0 /\ h # 0 /\ h \in Nat  OBVIOUS
<1>3. DOMAIN file.l1 = L1Set  BY <1>1
<1>4. ASSUME NEW p \in A
      PROVE  \E i \in L1Set, j \in Cols : p = <<file.l1[i], j>> /\ Entry(file, i, j) = h
  <2>1. p \in Tables \X (0 .. Width - 1) /\ file.cell[p[1]][p[2]] = h  BY <1>4 DEF DataRefs
  <2>2. p = <<p[1], p[2]>> /\ p[1] \in Tables /\ p[2] \in Cols  BY <2>1 DEF Cols
  <2>3. PICK i \in L1Set : file.l1[i] = p[1] /\ p[1] # 0  BY <1>3, <2>2 DEF Tables
  <2>4. Entry(file, i, p[2]) = h  BY <2>1, <2>3 DEF Entry
  <2>5. QED  BY <2>2, <2>3, <2>4
<1>5. \A p, q \in A : p = q
  <2> SUFFICES ASSUME NEW p \in A, NEW q \in A PROVE p = q  OBVIOUS
  <2>1. PICK i \in L1Set, j \in Cols : p = <<file.l1[i], j>> /\ Entry(file, i, j) = h  BY <1>4
  <2>2. PICK k \in L1Set, m \in Cols : q = <<file.l1[k], m>> /\ Entry(file, k, m) = h  BY <1>4
  <2>3. i = k /\ j = m  BY <1>1, <1>2, <2>1, <2>2 DEF ImageOK, Apart
  <2>4. QED  BY <2>1, <2>2, <2>3
<1>6. \A i, k \in B : i = k  BY <1>1, <1>2, <1>3 DEF ImageOK, Apart
<1>7. \A b, c \in D : b = c  BY <1>1, <1>2 DEF ImageOK, Apart
<1>8. A # {} => B = {} /\ D = {} /\ h < file.len /\ file.ref[h] = 1 /\ h >= file.meta
  <2> SUFFICES ASSUME A # {} PROVE B = {} /\ D = {} /\ h < file.len /\ file.ref[h] = 1 /\ h >= file.meta  OBVIOUS
  <2>1. PICK p \in A : TRUE  OBVIOUS
  <2>2. PICK i \in L1Set, j \in Cols : Entry(file, i, j) = h  BY <1>4, <2>1
  <2>3. B = {} /\ D = {}  BY <1>1, <1>2, <1>3, <2>2 DEF ImageOK, Apart
  <2>4. h \in file.meta .. file.len - 1  BY <1>1, <1>2, <2>2, HostsOK DEF ImageOK
  <2>5. file.ref[h] = 1  BY <1>1, <1>2, <2>2 DEF ImageOK, Counted
  <2>6. QED  BY <1>1, <2>3, <2>4, <2>5
<1>9. B # {} => D = {} /\ h < file.len
  <2> SUFFICES ASSUME B # {} PROVE D = {} /\ h < file.len  OBVIOUS
  <2>1. PICK i \in L1Set : file.l1[i] = h  BY <1>3
  <2>2. D = {}  BY <1>1, <1>2, <2>1 DEF ImageOK, Apart
  <2>3. h \in 0 .. file.len - 1  BY <1>1, <2>1
  <2>4. QED  BY <1>1, <2>2, <2>3
<1>10. D # {} => h < file.len
  <2> SUFFICES ASSUME D # {} PROVE h < file.len  OBVIOUS
  <2>1. h \in 0 .. file.len - 1  BY <1>1
  <2>2. QED  BY <1>1, <2>1
<1>11. h \in Tables => file.ref[h] = 1
  <2> SUFFICES ASSUME h \in Tables PROVE file.ref[h] = 1  OBVIOUS
  <2>1. PICK i \in L1Set : file.l1[i] = h  BY <1>3 DEF Tables
  <2>2. QED  BY <1>1, <1>2, <2>1 DEF ImageOK, Counted
<1>12. RefsTo(h) = Cardinality(A) + Cardinality(B) + Cardinality(D)  BY DEF RefsTo
<1> HIDE DEF A, B, D
<1>13. /\ Cardinality(A) \in {0, 1} /\ (A = {} => Cardinality(A) = 0) /\ (Cardinality(A) = 1 => A # {})
       /\ Cardinality(B) \in {0, 1} /\ (B = {} => Cardinality(B) = 0) /\ (Cardinality(B) = 1 => B # {})
       /\ Cardinality(D) \in {0, 1} /\ (D = {} => Cardinality(D) = 0) /\ (Cardinality(D) = 1 => D # {})
  BY <1>5, <1>6, <1>7, AtMostOne
<1>14. RefsTo(h) <= 1 /\ (RefsTo(h) = 1 => h < file.len)  BY <1>8, <1>9, <1>10, <1>12, <1>13
<1>15. QED  BY <1>8, <1>11, <1>14 DEF A

\* No two table entries of an image ever refer to one cluster, every entry
\* refers to a cluster that is in the file, and what a data or L1 entry refers
\* to is counted (NoSharedCluster), whatever write failed or server died between
\* the steps of allocCluster, bumpRefcount, allocDataCluster and setL2Entry, and
\* after every Compact: for any cluster, disk and file size, cache and backing
\* image.
THEOREM ClustersApart == Spec => []NoSharedCluster
<1>1. DiskInv /\ [Next]_vars => DiskInv'  BY DiskStep, DiskStutters
<1>2. QED  BY <1>1, DiskInit, NotShared, PTL DEF Spec

(***************************************************************************)
(* The refinement.                                                         *)
(***************************************************************************)

Holdable == Values \cup {Base[w] : w \in DOMAIN Base}
Seen(f) == [w \in GuestWords |-> Reads(f, w)]
Todo == (op.at .. op.end - 1) \cap GuestWords

\* What the guest sees is what the file reads as.
LEMMA SeenNow == DiskInv => [w \in GuestWords |-> View(w)] = Seen(file)
<1> SUFFICES ASSUME DiskInv, NEW w \in GuestWords PROVE View(w) = Reads(file, w)  BY DEF Seen
<1>1. w \in Nat /\ w < Size  BY SizesOK DEF GuestWords, Sizes
<1>2. QED  BY <1>1, ViewReads

\* The same after the step.
LEMMA SeenNext == DiskInv' => [w \in GuestWords |-> View(w)]' = Seen(file')
<1>1. ([w \in GuestWords |-> View(w)] = Seen(file))' => [w \in GuestWords |-> View(w)]' = Seen(file')
  BY DEF Seen
<1>2. (DiskInv => [w \in GuestWords |-> View(w)] = Seen(file))'  BY SeenNow, PTL
<1>3. QED  BY <1>1, <1>2

LEMMA SeenKept == ASSUME Keeps(file, file') PROVE Seen(file') = Seen(file)
<1>1. \A w \in GuestWords : w \in Nat /\ w < Size  BY SizesOK DEF GuestWords, Sizes
<1>2. QED  BY <1>1 DEF Seen, Keeps

\* A write changes its own words.
LEMMA SeenWritten ==
  ASSUME NEW S, Writes(file, file', S)
  PROVE  Seen(file') = [w \in GuestWords |-> IF w \in S \cap GuestWords THEN op.val ELSE Seen(file)[w]]
<1>1. \A w \in GuestWords : w \in Nat /\ w < Size  BY SizesOK DEF GuestWords, Sizes
<1>2. QED  BY <1>1 DEF Seen, Writes

\* The image is a disk: the first state.
LEMMA IsDiskInit == Init => Disk!Init
<1> SUFFICES ASSUME Init PROVE Disk!Init  OBVIOUS
<1>1. PICK p \in BOOLEAN : file = createQcow2(p)  BY DEF Init
<1>2. DiskInv /\ \A i \in L1Set, j \in Cols : Entry(file, i, j) = 0  BY <1>1, DiskInit, FreshImage
<1>3. \A w \in GuestWords : Reads(file, w) \in Holdable
  <2> SUFFICES ASSUME NEW w \in GuestWords PROVE Reads(file, w) \in Holdable  OBVIOUS
  <2>1. w \in Nat /\ w < Size  BY SizesOK DEF GuestWords, Sizes
  <2>2. Reads(file, w) = backingOrZero(w)  BY <1>2, <2>1, Located DEF Reads
  <2>3. QED  BY <2>2, Qcow2Assumption DEF backingOrZero, Holdable
<1>4. [w \in GuestWords |-> View(w)] \in [GuestWords -> Holdable]  BY <1>2, <1>3, SeenNow DEF Seen
<1>5. op.at = 0 /\ op.end = 0 /\ op.val = 0 /\ res = "ok"  BY DEF Init, Idle
<1>6. Todo = {}  BY <1>5 DEF Todo
<1>7. op.val \in Holdable  BY <1>5, Qcow2Assumption DEF Holdable
<1>8. QED  BY <1>4, <1>5, <1>6, <1>7 DEF Disk!Init, Holdable, Todo

\* A step that the guest does not see.
LEMMA Unseen ==
  ASSUME DiskInv, DiskInv', Keeps(file, file'), SameOp, res' = res
  PROVE  UNCHANGED Disk!vars
<1>1. [w \in GuestWords |-> View(w)]' = [w \in GuestWords |-> View(w)]  BY SeenNow, SeenNext, SeenKept
<1>2. Todo' = Todo /\ op'.val = op.val  BY DEF SameOp, Todo
<1>3. QED  BY <1>1, <1>2 DEF Disk!vars, Todo

\* Some words of the write reach the disk.
LEMMA Applied ==
  ASSUME DiskInv, DiskInv', res = "busy", NEW S \in SUBSET Todo,
         Seen(file') = [w \in GuestWords |-> IF w \in S THEN op.val ELSE Seen(file)[w]],
         \/ res' = "busy" /\ Todo' = Todo \ S /\ op'.val = op.val
         \/ /\ res' = "error" \/ (res' = "ok" /\ S = Todo)
            /\ Todo' = {} /\ op'.val \in Values
  PROVE  Disk!Next
<1> DEFINE d == [w \in GuestWords |-> View(w)]
<1>1. d = Seen(file) /\ d' = Seen(file')  BY SeenNow, SeenNext
<1>2. d' = [w \in GuestWords |-> IF w \in S THEN op.val ELSE d[w]]  BY <1>1
<1>3. op'.val \in Values => op'.val \in Holdable  BY DEF Holdable
<1>4. Disk!Apply  BY <1>2, <1>3 DEF Disk!Apply, Todo, Holdable
<1>5. QED  BY <1>4 DEF Disk!Next

\* A write that ended has nothing left to do.
LEMMA IdleAfter == ASSUME op' = Idle PROVE Todo' = {} /\ op'.val \in Values
<1>1. op'.at = 0 /\ op'.end = 0 /\ op'.val = 0  BY DEF Idle
<1>2. QED  BY <1>1, Qcow2Assumption DEF Todo

\* The write fails and leaves nothing.
LEMMA Lost == ASSUME DiskInv, DiskInv', Keeps(file, file'), res = "busy", op' = Idle, res' = "error" PROVE Disk!Next
<1>1. {} \in SUBSET Todo  OBVIOUS
<1>2. Seen(file') = [w \in GuestWords |-> IF w \in {} THEN op.val ELSE Seen(file)[w]]  BY SeenKept DEF Seen
<1>3. QED  BY <1>1, <1>2, Applied, IdleAfter

\* One piece of the write is done.
LEMMA PieceDone ==
  ASSUME DiskInv, DiskInv', Writes(file, file', Piece), res = "busy", op' = Advanced, res' = Outcome
  PROVE  Disk!Next
<1>1. op.at \in Nat /\ op.end \in Nat /\ op.at < op.end  BY DEF DiskInv, OpOK, CountsOK
<1>2. ClusterEnd \in Nat /\ op.at < ClusterEnd /\ ClusterEnd <= op.end  BY <1>1, PieceEnds DEF DiskInv
<1> DEFINE S == Piece \cap GuestWords
<1>3. S \in SUBSET Todo  BY <1>1, <1>2 DEF Piece, Todo
<1>4. Seen(file') = [w \in GuestWords |-> IF w \in S THEN op.val ELSE Seen(file)[w]]  BY SeenWritten
<1>5. CASE ClusterEnd = op.end
  <2>1. op' = Idle /\ res' = "ok"  BY <1>5 DEF Advanced, Outcome
  <2>2. S = Todo  BY <1>5 DEF Piece, Todo
  <2> HIDE DEF S
  <2>3. QED  BY <1>3, <1>4, <2>1, <2>2, Applied, IdleAfter
<1>6. CASE ClusterEnd # op.end
  <2>1. op'.at = ClusterEnd /\ op'.end = op.end /\ op'.val = op.val /\ res' = "busy"
    BY <1>6 DEF Advanced, Outcome, Idle
  <2>2. Todo' = Todo \ S  BY <1>1, <1>2, <2>1 DEF Todo, Piece, GuestWords
  <2> HIDE DEF S
  <2>3. QED  BY <1>3, <1>4, <2>1, <2>2, Applied
<1>7. QED  BY <1>5, <1>6

\* A write starts.
LEMMA Accepted ==
  ASSUME DiskInv, DiskInv', Keeps(file, file'), NEW a \in 0 .. Size - 1, NEW n \in 1 .. MaxRun, NEW v \in Values, Begin(a, a + n, v)
  PROVE  Disk!Next
<1>1. res # "busy"  BY DEF DiskInv, CountsOK, Begin, At
<1>2. op'.val = v /\ res' = "busy"  BY DEF Begin, Idle
<1>3. [w \in GuestWords |-> View(w)]' = [w \in GuestWords |-> View(w)]  BY SeenNow, SeenNext, SeenKept
<1>4. Todo' \in SUBSET GuestWords  BY DEF Todo
<1>5. op'.val \in Holdable  BY <1>2 DEF Holdable
<1>6. Disk!Begin  BY <1>1, <1>2, <1>3, <1>4, <1>5 DEF Disk!Begin, Todo, Holdable
<1>7. QED  BY <1>6 DEF Disk!Next

\* A write is in progress.
LEMMA BusyWhen == ASSUME DiskInv, op.pc # "idle" PROVE res = "busy"
BY DEF DiskInv, CountsOK

\* A step in the middle of the write of one cluster.
LEMMA SameOpSteps ==
  ASSUME DiskInv, AllocData \/ RegisterBlock \/ WriteTableEntry \/ WriteRefcount \/ WriteData \/ AllocL2 \/ ZeroL2 \/ LinkL1
  PROVE  SameOp /\ res' = res
<1>1. op = [x \in OpFields |-> op[x]]  BY DEF DiskInv, OpOK
<1>2. CASE AllocData  BY <1>1, <1>2 DEF AllocData, allocCluster, SameOp, OpFields
<1>3. CASE AllocL2  BY <1>1, <1>3 DEF AllocL2, allocCluster, SameOp, OpFields
<1>4. CASE RegisterBlock  BY <1>1, <1>4 DEF RegisterBlock, SameOp, OpFields
<1>5. CASE WriteTableEntry
  <2>1. PICK b, q : op' = [op EXCEPT !.pc = "bump", !.idx = b, !.deferred = q]  BY <1>1, <1>5 DEF WriteTableEntry, OpFields
  <2>2. QED  BY <1>1, <1>5, <2>1 DEF WriteTableEntry, SameOp, OpFields
<1>6. CASE WriteRefcount
  <2>1. \/ op' = [op EXCEPT !.pc = op.ret]
        \/ \E a, q : op' = [op EXCEPT !.idx = a, !.deferred = q]
    BY <1>1, <1>6 DEF WriteRefcount, OpFields
  <2>2. QED  BY <1>1, <1>6, <2>1 DEF WriteRefcount, SameOp, OpFields
<1>7. CASE WriteData  BY <1>1, <1>7 DEF WriteData, SameOp, OpFields
<1>8. CASE ZeroL2  BY <1>1, <1>8 DEF ZeroL2, SameOp, OpFields
<1>9. CASE LinkL1  BY <1>1, <1>9 DEF LinkL1, SameOp, OpFields
<1>10. QED  BY <1>2, <1>3, <1>4, <1>5, <1>6, <1>7, <1>8, <1>9

\* Every step is one of the disk, or none.
LEMMA IsDiskStep == ASSUME DiskInv, Next PROVE Disk!Next \/ UNCHANGED Disk!vars
<1>1. CASE OpenWritable \/ Close \/ Compact \/ \E w \in 0 .. Size - 1 : ReadAt(w)
  <2>1. DiskInv' /\ Keeps(file, file')  BY <1>1, OpenWritableOK, CloseOK, CompactStepOK, ReadAtOK
  <2>2. SameOp /\ res' = res  BY <1>1 DEF OpenWritable, Close, Compact, ReadAt, SameOp
  <2>3. QED  BY <2>1, <2>2, Unseen
<1>2. CASE \E a \in 0 .. Size - 1, n \in 1 .. MaxRun, v \in Values : Begin(a, a + n, v)
  <2>1. PICK a \in 0 .. Size - 1, n \in 1 .. MaxRun, v \in Values : Begin(a, a + n, v)  BY <1>2
  <2>2. QED  BY <2>1, BeginOK, Accepted
<1>3. CASE AllocData \/ RegisterBlock \/ WriteTableEntry \/ WriteRefcount \/ WriteData \/ AllocL2 \/ ZeroL2 \/ LinkL1
  <2>1. DiskInv' /\ Keeps(file, file')
    BY <1>3, AllocDataOK, RegisterBlockOK, WriteTableEntryOK, WriteRefcountOK, WriteDataOK, AllocL2OK, ZeroL2OK, LinkL1OK
  <2>2. QED  BY <1>3, <2>1, SameOpSteps, Unseen
<1>4. CASE WriteInPlace \/ LinkL2
  <2>1. DiskInv' /\ Writes(file, file', Piece)  BY <1>4, WriteInPlaceOK, LinkL2OK
  <2>2. op' = Advanced /\ res' = Outcome /\ op.pc # "idle"  BY <1>4 DEF WriteInPlace, LinkL2, At
  <2>3. QED  BY <2>1, <2>2, PieceDone, BusyWhen
<1>5. CASE Refused \/ WriteFails \/ ShortWrite
  <2>1. DiskInv' /\ Keeps(file, file')  BY <1>5, RefusedOK, WriteFailsOK, ShortWriteOK
  <2>2. op' = Idle /\ res' = "error" /\ op.pc # "idle"  BY <1>5 DEF Refused, WriteFails, ShortWrite, Failed, At
  <2>3. QED  BY <2>1, <2>2, Lost, BusyWhen
<1>6. CASE ShortInPlace
  <2>1. DiskInv' /\ Writes(file, file', {op.at})  BY <1>6, ShortInPlaceOK
  <2>2. op' = Idle /\ res' = "error" /\ op.pc = "next" /\ op.at < Size  BY <1>6 DEF ShortInPlace, Failed, At
  <2>3. op.at \in Nat /\ op.end \in Nat /\ op.at < op.end  BY <2>2 DEF DiskInv, OpOK
  <2> DEFINE S == {op.at} \cap GuestWords
  <2>4. S \in SUBSET Todo  BY <2>3 DEF Todo
  <2>5. Seen(file') = [w \in GuestWords |-> IF w \in S THEN op.val ELSE Seen(file)[w]]  BY <2>1, SeenWritten
  <2> HIDE DEF S
  <2>6. QED  BY <2>1, <2>2, <2>4, <2>5, Applied, IdleAfter, BusyWhen
<1>7. CASE Crash
  <2>1. DiskInv' /\ Keeps(file, file')  BY <1>7, CrashOK
  <2>2. op' = Idle /\ res' = IF res = "busy" THEN "error" ELSE res  BY <1>7 DEF Crash
  <2>3. CASE res = "busy"  BY <2>1, <2>2, <2>3, Lost
  <2>4. CASE res # "busy"
    <3>1. op = Idle  BY <2>4 DEF DiskInv, CountsOK, OpOK
    <3>2. SameOp /\ res' = res  BY <2>2, <2>4, <3>1 DEF SameOp
    <3>3. QED  BY <2>1, <3>2, Unseen
  <2>5. QED  BY <2>3, <2>4
<1>8. QED  BY <1>1, <1>2, <1>3, <1>4, <1>5, <1>6, <1>7 DEF Next

LEMMA IsDiskStutters == ASSUME UNCHANGED vars PROVE UNCHANGED Disk!vars
<1>1. file' = file /\ mem' = mem /\ op' = op /\ res' = res  BY DEF vars
<1>2. [w \in GuestWords |-> View(w)]' = [w \in GuestWords |-> View(w)]  BY <1>1 DEF View, resolve, l2EntryAt
<1>3. QED  BY <1>1, <1>2 DEF Disk!vars

\* The image is a plain disk to the guest (IsDisk): WriteAt, with its tables,
\* cache, copy-on-write and partial failures, changes only the words of the
\* write; one it reported as done stays; Compact, a restart and a crash change
\* nothing.
THEOREM ImageIsDisk == Spec => IsDisk
<1>1. DiskInv /\ [Next]_vars => DiskInv'  BY DiskStep, DiskStutters
<1>2. DiskInv /\ [Next]_vars => [Disk!Next]_(Disk!vars)  BY IsDiskStep, IsDiskStutters
<1>3. QED  BY <1>1, <1>2, DiskInit, IsDiskInit, PTL DEF Spec, IsDisk, Disk!Spec
=============================================================================
