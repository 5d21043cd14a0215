---------------------------- MODULE LedgerProofs ----------------------------
(***************************************************************************)
(* Theorems about Ledger: the records and the watermark on disk stay       *)
(* intact and Verify raises no false alarm, for any number of objects,     *)
(* records and faults.                                                     *)
(*                                                                         *)
(* The invariant adds to these what every object remembers of the file:    *)
(* the tail it chains its next record to is the record its offset names,   *)
(* and each watermark that is pending or being written names a record that *)
(* is already in the file.                                                 *)
(*                                                                         *)
(* The second part is about Vhost: the memory of the block server stays    *)
(* mapped while a pump uses it, and a queue that is set up once has no     *)
(* request answered twice or falsely, for any number of sessions and any   *)
(* queue.                                                                  *)
(***************************************************************************)
EXTENDS Ledger, Vhost, FiniteSetTheorems, SequenceTheorems, WellFoundedInduction, TLAPS

\* The watermarks of an object that may be on their way to disk.
Marks(x) == {x.pending, x.writing, x.closing}

\* A watermark names a record of the file.
Names(h) == h # None => h.seq \in DOMAIN file /\ file[h.seq].hash = h.hash

\* Numbers and offsets never run ahead of the file, races included, and what is
\* about to be written exists.
Within(x) ==
    /\ x.seq <= Len(file) /\ x.off <= Len(file)
    /\ \A h \in Marks(x) : h # None => h.seq <= Len(file)
    /\ x.dirty => x.pending # None
    /\ x.flusher \in {"write", "last"} => x.writing # None /\ x.pending # None
    /\ x.pc = "closing" => x.closing # None

\* The object's tail is a record of the file, or its empty beginning, and no
\* record before its offset is newer: a refresh that starts at the offset
\* misses nothing.  Half a record stops a refresh short of moving the offset.
InStep(x) ==
    /\ x.pc \in {"scan", "open", "torn"} => x.last = PrevOf(x.seq + 1)
    /\ x.pc = "scan" => x.seq = Len(file)
    /\ x.pc \in {"open", "torn"} => x.off <= x.seq
    /\ \A h \in Marks(x) : Names(h)

ObjectsOK == \A o \in Objects : Within(obj[o]) /\ (~raced => InStep(obj[o]))

\* The file and its watermark.
FileOK ==
    /\ \A i \in DOMAIN file : file[i].seq <= i
    /\ peak <= Len(file)
    /\ torn => faults > 0
    /\ ChainIntact /\ HeadNeverAhead

\* A replay in progress has read a prefix of the file.
VerifyOK ==
    /\ ver.count <= Len(file)
    /\ ~raced /\ ver.pc = "head" => ver.last = PrevOf(ver.count + 1)
    /\ VerifySound

IInv == TypeOK /\ ObjectsOK /\ FileOK /\ VerifyOK

-----------------------------------------------------------------------------
(* Facts about digests and about the record before another. *)

\* The digest of a record tells its writer, and carries its own number.
LEMMA Digest ==
    ASSUME NEW p \in Hash, NEW s \in Nat, NEW o \in Objects
    PROVE  LET h == hashRecord(s, o, p)
           IN  h \in Hash /\ Len(h) > 0 /\ h = hashRecord(s, h[Len(h)][2], p)
<1> DEFINE e == <<s, o>>
           h == Append(p, e)
<1>1. p \in Seq(Nat \X Objects) /\ e \in Nat \X Objects  BY DEF Hash
<1> HIDE DEF e
<1>2. h \in Seq(Nat \X Objects) /\ Len(h) = Len(p) + 1 /\ h[Len(p) + 1] = e /\ Len(p) \in Nat
  BY <1>1, AppendProperties, LenProperties
<1>3. h[Len(h)][2] = o  BY <1>2 DEF e
<1>4. QED  BY <1>2, <1>3 DEF hashRecord, Hash, e

\* The digest a record is chained to.
LEMMA PrevType ==
    ASSUME TypeOK, NEW n \in 0 .. Len(file)
    PROVE  PrevOf(n + 1) \in Hash
<1>1. file \in Seq(Record) /\ Len(file) \in Nat  BY LenProperties DEF TypeOK
<1>2. CASE n = 0
  <2>1. PrevOf(n + 1) = <<>>  BY <1>2 DEF PrevOf
  <2>2. QED  BY <2>1, EmptySeq DEF Hash
<1>3. CASE n # 0
  <2>1. PrevOf(n + 1) = file[n].hash /\ n \in 1 .. Len(file)  BY <1>1, <1>3 DEF PrevOf
  <2>2. file[n] \in Record  BY <1>1, <2>1, ElementOfSeq
  <2>3. QED  BY <2>1, <2>2 DEF Record
<1>4. QED  BY <1>2, <1>3

\* A tail after a refresh is at the end of the file and no mark has moved.
LEMMA Refreshed ==
    ASSUME IInv, NEW o \in Objects, At(o, "open")
    PROVE  LET x == refreshTailLocked(obj[o])
           IN  /\ x \in Object /\ x.pc = "open" /\ Within(x)
               /\ ~raced => InStep(x) /\ x.seq = Len(file)
               /\ ~torn => x.off = Len(file)
               /\ Marks(x) = Marks(obj[o])
<1> DEFINE y == obj[o]
           x == refreshTailLocked(y)
           n == Len(file)
<1>0. /\ file \in Seq(Record) /\ n \in 0 .. MaxRecords /\ DOMAIN file = 1 .. n
      /\ y \in Object /\ y.pc = "open" /\ Within(y) /\ (~raced => InStep(y)) /\ MaxRecords \in Nat
      /\ torn \in BOOLEAN
  BY LedgerAssumption, LenProperties DEF IInv, TypeOK, ObjectsOK, At
<1>1. CASE n <= y.off
  <2>1. x = [y EXCEPT !.off = IF torn THEN @ ELSE n]  BY <1>1 DEF refreshTailLocked, Decoded
  <2>2. y.off = n  BY <1>0, <1>1 DEF Within, Object
  <2>3. x = y  BY <1>0, <2>1, <2>2 DEF Object
  <2>4. ~raced => y.seq = n  BY <1>0, <2>2 DEF Within, InStep, Object
  <2>5. QED  BY <1>0, <2>2, <2>3, <2>4
<1>2. CASE ~(n <= y.off)
  <2>1. x = [y EXCEPT !.seq = file[n].seq, !.last = file[n].hash, !.off = IF torn THEN @ ELSE n]
    BY <1>2 DEF refreshTailLocked, Decoded
  <2>2. n \in 1 .. n /\ file[n] \in Record  BY <1>0, <1>2, ElementOfSeq DEF Object
  <2>3. file[n].seq \in 0 .. n  BY <2>2 DEF IInv, FileOK, Record, TypeOK
  <2>4. x \in Object /\ x.pc = "open" /\ Marks(x) = Marks(y)
    <3>1. file[n].seq \in 0 .. MaxRecords /\ file[n].hash \in Hash
      BY <1>0, <2>2, <2>3 DEF Record
    <3>2. (IF torn THEN y.off ELSE n) \in 0 .. MaxRecords  BY <1>0 DEF Object
    <3>3. QED  BY <1>0, <2>1, <3>1, <3>2 DEF Object, Marks
  <2>5. Within(x)  BY <1>0, <2>1, <2>3, <2>4 DEF Within, Object
  <2>6. ASSUME ~raced  PROVE InStep(x) /\ x.seq = n
    <3>1. file[n].seq = n  BY <2>2, <2>6 DEF IInv, FileOK, ChainIntact, Chained
    <3>2. x.last = PrevOf(x.seq + 1) /\ x.seq = n
      BY <1>0, <2>1, <2>2, <3>1 DEF PrevOf, Object
    <3>3. x.off <= x.seq  BY <1>0, <2>1, <3>2 DEF Within, Object
    <3>4. QED  BY <1>0, <2>4, <2>6, <3>2, <3>3 DEF InStep
  <2>7. ~torn => x.off = n  BY <1>0, <2>1 DEF Object
  <2>8. QED  BY <2>4, <2>5, <2>6, <2>7
<1>3. QED  BY <1>1, <1>2

-----------------------------------------------------------------------------
(* Steps that leave the records alone. *)

\* One object changes and stays in step with the file.
LEMMA OneObject ==
    ASSUME IInv, NEW o \in Objects, NEW y \in Object, Within(y), ~raced => InStep(y),
           obj' = [obj EXCEPT ![o] = y], UNCHANGED <<file, raced>>
    PROVE  obj' \in [Objects -> Object] /\ ObjectsOK'
<1>1. obj \in [Objects -> Object] /\ ObjectsOK  BY DEF IInv, TypeOK
<1>2. obj' \in [Objects -> Object]  BY <1>1
<1>3. ASSUME NEW p \in Objects
      PROVE  Within(obj'[p]) /\ (~raced => InStep(obj'[p]))
  BY <1>1 DEF ObjectsOK
<1>4. QED  BY <1>2, <1>3 DEF ObjectsOK, Within, InStep, Names, PrevOf

\* Only the objects change.
LEMMA OnlyObjects ==
    ASSUME IInv, obj' \in [Objects -> Object], ObjectsOK',
           UNCHANGED <<file, torn, head, ver, alarm, peak, raced>>,
           faults' \in faults .. MaxFaults, lost' \in BOOLEAN
    PROVE  IInv'
<1>1. TypeOK'  BY DEF IInv, TypeOK
<1>2. faults \in Nat /\ faults' \in Nat /\ faults <= faults'  BY LedgerAssumption DEF IInv, TypeOK
<1>3. FileOK'
  BY <1>2 DEF IInv, FileOK, ChainIntact, Chained, Links, PrevOf, HeadNeverAhead
<1>4. VerifyOK'  BY <1>2 DEF IInv, VerifyOK, VerifySound, PrevOf
<1>5. QED  BY <1>1, <1>3, <1>4 DEF IInv

\* A step that may fail.
LEMMA Faults ==
    ASSUME IInv, Works \/ Fails
    PROVE  faults' \in faults .. MaxFaults
BY LedgerAssumption DEF IInv, TypeOK, Works, Fails

LEMMA FreshOK ==
    ASSUME IInv
    PROVE  Fresh \in Object /\ Within(Fresh) /\ InStep(Fresh)
<1>1. <<>> \in Hash  BY EmptySeq DEF Hash
<1>2. Fresh \in Object  BY <1>1, LedgerAssumption DEF Fresh, Object
<1>3. Len(file) \in Nat  BY LenProperties DEF IInv, TypeOK
<1>4. QED  BY <1>2, <1>3 DEF Within, InStep, Names, Marks, Fresh

LEMMA OpenScanInv == ASSUME IInv, NEW o \in Objects, OpenScan(o) PROVE IInv'
<1> DEFINE y == [Decoded(Fresh, 0) EXCEPT !.pc = "scan"]
           n == Len(file)
<1>0. /\ file \in Seq(Record) /\ n \in 0 .. MaxRecords /\ DOMAIN file = 1 .. n /\ MaxRecords \in Nat
      /\ Fresh \in Object
  BY LedgerAssumption, LenProperties, FreshOK DEF IInv, TypeOK
<1>1. y \in Object /\ Within(y) /\ (~raced => InStep(y))
  <2>1. CASE n = 0
    <3>1. y = [Fresh EXCEPT !.pc = "scan"]  BY <1>0, <2>1 DEF Decoded
    <3>2. y \in Object  BY <1>0, <3>1 DEF Object
    <3>3. /\ y.pc = "scan" /\ y.seq = 0 /\ y.last = <<>> /\ y.off = 0 /\ ~y.dirty
          /\ y.flusher = "none" /\ Marks(y) = {None}
      BY <3>1 DEF Fresh, Marks
    <3>4. Within(y)  BY <2>1, <3>3 DEF Within
    <3>5. InStep(y)  BY <2>1, <3>3 DEF InStep, Names, PrevOf
    <3>6. QED  BY <3>2, <3>4, <3>5
  <2>2. CASE n # 0
    <3>1. y = [[Fresh EXCEPT !.seq = file[n].seq, !.last = file[n].hash] EXCEPT !.pc = "scan"]
      <4>1. ~(Len(file) <= 0)  BY <1>0, <2>2
      <4>2. QED  BY <4>1, Zenon DEF Decoded
    <3>2. n \in 1 .. n /\ file[n] \in Record  BY <1>0, <2>2, ElementOfSeq
    <3>3. file[n].seq \in 0 .. n /\ file[n].hash \in Hash  BY <3>2 DEF IInv, FileOK, Record
    <3>4. /\ y.pc = "scan" /\ y.seq = file[n].seq /\ y.last = file[n].hash /\ y.off = 0 /\ ~y.dirty
          /\ y.flusher = "none" /\ Marks(y) = {None}
      BY <3>1 DEF Fresh, Marks
    <3>5. y \in Object /\ Within(y)
      <4>1. file[n].seq \in 0 .. MaxRecords  BY <1>0, <3>3
      <4>2. y \in Object  BY <1>0, <3>1, <3>3, <4>1 DEF Object
      <4>3. QED  BY <1>0, <3>3, <3>4, <4>2 DEF Within
    <3>6. ~raced => file[n].seq = n  BY <1>0, <3>2 DEF IInv, FileOK, ChainIntact, Chained
    <3>7. ~raced => InStep(y)  BY <1>0, <2>2, <3>4, <3>6 DEF InStep, Names, PrevOf
    <3>8. QED  BY <3>5, <3>7
  <2>3. QED  BY <2>1, <2>2
<1>2. obj' = [obj EXCEPT ![o] = y] /\ UNCHANGED <<file, torn, head, ver, alarm, peak, raced, lost, faults>>
  BY DEF OpenScan
<1> HIDE DEF y
<1>3. obj' \in [Objects -> Object] /\ ObjectsOK'  BY <1>1, <1>2, OneObject
<1>4. lost' \in BOOLEAN /\ faults' \in faults .. MaxFaults
  BY <1>2, LedgerAssumption DEF IInv, TypeOK
<1>5. QED  BY <1>2, <1>3, <1>4, OnlyObjects

LEMMA OpenStatInv == ASSUME IInv, NEW o \in Objects, OpenStat(o) PROVE IInv'
<1> DEFINE x == obj[o]
           y == [x EXCEPT !.pc = "open", !.off = Len(file)]
<1>0. /\ Len(file) \in 0 .. MaxRecords /\ MaxRecords \in Nat
      /\ x \in Object /\ x.pc = "scan" /\ Within(x) /\ (~raced => InStep(x))
  BY LedgerAssumption, LenProperties DEF IInv, TypeOK, ObjectsOK, OpenStat, At
<1>1. y \in Object /\ Within(y)
  <2>1. y \in Object  BY <1>0 DEF Object
  <2>2. QED  BY <1>0, <2>1 DEF Object, Within, Marks
<1>2. ~raced => InStep(y)  BY <1>0 DEF Object, InStep, Marks
<1>3. obj' = [obj EXCEPT ![o] = y] /\ UNCHANGED <<file, torn, head, ver, alarm, peak, raced, lost, faults>>
  BY DEF OpenStat
<1> HIDE DEF y
<1>4. obj' \in [Objects -> Object] /\ ObjectsOK'  BY <1>1, <1>2, <1>3, OneObject
<1>5. lost' \in BOOLEAN /\ faults' \in faults .. MaxFaults
  BY <1>3, LedgerAssumption DEF IInv, TypeOK
<1>6. QED  BY <1>3, <1>4, <1>5, OnlyObjects

LEMMA FlushTakeInv == ASSUME IInv, NEW o \in Objects, NEW final \in BOOLEAN, FlushTake(o, final) PROVE IInv'
<1> DEFINE x == obj[o]
           y == IF ~x.dirty THEN [x EXCEPT !.flusher = IF final THEN "done" ELSE "idle"]
                ELSE [x EXCEPT !.dirty = FALSE, !.writing = x.pending,
                               !.flusher = IF final THEN "last" ELSE "write"]
<1>0. x \in Object /\ x.flusher = "idle" /\ Within(x) /\ (~raced => InStep(x))
  BY DEF IInv, TypeOK, ObjectsOK, FlushTake
<1>1. y \in Object /\ Within(y)  BY <1>0 DEF Object, Within, Marks
<1>2. ~raced => InStep(y)  BY <1>0 DEF Object, InStep, Marks
<1>3. obj' = [obj EXCEPT ![o] = y] /\ UNCHANGED <<file, torn, head, ver, alarm, peak, raced, lost, faults>>
  BY Zenon DEF FlushTake
<1> HIDE DEF y
<1>4. obj' \in [Objects -> Object] /\ ObjectsOK'  BY <1>1, <1>2, <1>3, OneObject
<1>5. lost' \in BOOLEAN /\ faults' \in faults .. MaxFaults
  BY <1>3, LedgerAssumption DEF IInv, TypeOK
<1>6. QED  BY <1>3, <1>4, <1>5, OnlyObjects

LEMMA CloseInv == ASSUME IInv, NEW o \in Objects, CloseStop(o) \/ CloseTake(o) PROVE IInv'
<1> DEFINE x == obj[o]
<1>0. x \in Object /\ Within(x) /\ (~raced => InStep(x))
  BY DEF IInv, TypeOK, ObjectsOK
<1>1. PICK y \in Object : /\ Within(y) /\ (~raced => InStep(y))
                          /\ obj' = [obj EXCEPT ![o] = y]
  <2>1. CASE CloseStop(o)
    <3> DEFINE y == [x EXCEPT !.pc = "stopping"]
    <3>1. y \in Object /\ Within(y)  BY <1>0 DEF Object, Within, Marks
    <3>2. ~raced => InStep(y)  BY <1>0 DEF Object, InStep, Marks
    <3>3. obj' = [obj EXCEPT ![o] = y]  BY <2>1 DEF CloseStop
    <3>4. QED  BY <3>1, <3>2, <3>3
  <2>2. CASE CloseTake(o)
    <3> DEFINE y == IF x.dirty THEN [x EXCEPT !.pc = "closing", !.dirty = FALSE, !.closing = x.pending]
                    ELSE [x EXCEPT !.pc = "closed"]
    <3>1. y \in Object /\ Within(y)  BY <1>0 DEF Object, Within, Marks
    <3>2. ~raced => InStep(y)  BY <1>0 DEF Object, InStep, Marks
    <3>3. obj' = [obj EXCEPT ![o] = y]  BY <2>2 DEF CloseTake
    <3>4. QED  BY <3>1, <3>2, <3>3
  <2>3. QED  BY <2>1, <2>2
<1>2. UNCHANGED <<file, torn, head, ver, alarm, peak, raced, lost, faults>>  BY DEF CloseStop, CloseTake
<1>3. obj' \in [Objects -> Object] /\ ObjectsOK'  BY <1>1, <1>2, OneObject
<1>4. lost' \in BOOLEAN /\ faults' \in faults .. MaxFaults
  BY <1>2, LedgerAssumption DEF IInv, TypeOK
<1>5. QED  BY <1>2, <1>3, <1>4, OnlyObjects

LEMMA CrashInv == ASSUME IInv, NEW o \in Objects, Crash(o) PROVE IInv'
<1> DEFINE y == [Fresh EXCEPT !.pc = "closed", !.flusher = "done"]
<1>1. Fresh \in Object /\ Within(Fresh) /\ InStep(Fresh)  BY FreshOK
<1>2. y \in Object /\ Within(y) /\ InStep(y)  BY <1>1 DEF Object, Within, InStep, Marks, Fresh
<1>3. /\ obj' = [obj EXCEPT ![o] = y] /\ lost' = TRUE /\ Fails
      /\ UNCHANGED <<file, torn, head, ver, alarm, peak, raced>>
  BY DEF Crash
<1> HIDE DEF y
<1>4. obj' \in [Objects -> Object] /\ ObjectsOK'  BY <1>2, <1>3, OneObject
<1>5. QED  BY <1>3, <1>4, Faults, OnlyObjects

-----------------------------------------------------------------------------
(* Steps that write the watermark, mend the file or verify it. *)

\* Writing a mark that names a record keeps the watermark on disk sound,
\* whether the write fails before or after its rename.
LEMMA HeadWritten ==
    ASSUME IInv, NEW h \in Watermark, h.seq <= Len(file), ~raced => Names(h),
           NEW ok \in BOOLEAN, writeHeadAtomic(h, ok), obj' \in [Objects -> Object], ObjectsOK',
           UNCHANGED <<file, torn, ver, alarm, raced>>, lost' \in BOOLEAN
    PROVE  IInv'
<1>0. Len(file) \in 0 .. MaxRecords /\ MaxRecords \in Nat /\ peak \in 0 .. MaxRecords /\ peak <= Len(file)
  BY LedgerAssumption, LenProperties DEF IInv, TypeOK, FileOK
<1>1. Works \/ Fails  BY DEF writeHeadAtomic
<1>2. faults' \in faults .. MaxFaults  BY <1>1, Faults
<1>3. faults \in Nat /\ faults' \in 0 .. MaxFaults /\ faults <= faults'
  BY <1>2, LedgerAssumption DEF IInv, TypeOK
<1>4. head' \in {head, h} /\ peak' \in {peak, h.seq}  BY DEF writeHeadAtomic
<1>5. peak' \in 0 .. MaxRecords /\ peak' <= Len(file)  BY <1>0, <1>4 DEF Watermark
<1>6. TypeOK'  BY <1>3, <1>4, <1>5 DEF IInv, TypeOK
<1>7. HeadNeverAhead'
  <2>1. HeadNeverAhead  BY DEF IInv, FileOK
  <2>2. QED  BY <1>4, <2>1 DEF HeadNeverAhead, Names
<1>8. FileOK'  BY <1>3, <1>5, <1>7 DEF IInv, FileOK, ChainIntact, Chained, Links, PrevOf
<1>9. VerifyOK'  BY <1>3 DEF IInv, VerifyOK, VerifySound, PrevOf
<1>10. QED  BY <1>6, <1>8, <1>9 DEF IInv

LEMMA FlushWriteInv == ASSUME IInv, NEW o \in Objects, FlushWrite(o) PROVE IInv'
<1> DEFINE x == obj[o]
           h == x.writing
<1>0. x \in Object /\ x.flusher \in {"write", "last"} /\ Within(x) /\ (~raced => InStep(x))
  BY DEF IInv, TypeOK, ObjectsOK, FlushWrite
<1>1. h \in Watermark /\ h.seq <= Len(file) /\ (~raced => Names(h))
  BY <1>0 DEF Object, Within, InStep, Marks
<1>2. PICK ok \in BOOLEAN : /\ writeHeadAtomic(h, ok) /\ obj' = AfterFlush(o, ~ok)
                            /\ ok \/ ~At(o, "torn")
                            /\ lost' = (lost \/ (~ok /\ x.flusher = "last"))
  BY DEF FlushWrite
<1> DEFINE y == [x EXCEPT !.writing = None, !.dirty = x.dirty \/ ~ok,
                          !.flusher = IF x.flusher = "last" THEN "done" ELSE "idle"]
<1>3. obj' = [obj EXCEPT ![o] = y]
  BY <1>0, <1>2 DEF AfterFlush, IInv, TypeOK, Object
<1>4. y \in Object  BY <1>0 DEF Object
<1>5. Within(y)  BY <1>0, <1>4 DEF Object, Within, Marks
<1>6. ~raced => InStep(y)  BY <1>0 DEF Object, InStep, Marks, Names
<1>7. lost' \in BOOLEAN /\ UNCHANGED <<file, torn, ver, alarm, raced>>
  BY <1>2 DEF IInv, TypeOK, FlushWrite
<1> HIDE DEF y
<1>8. obj' \in [Objects -> Object] /\ ObjectsOK'  BY <1>3, <1>4, <1>5, <1>6, <1>7, OneObject
<1>9. QED  BY <1>1, <1>2, <1>7, <1>8, HeadWritten

LEMMA CloseWriteInv == ASSUME IInv, NEW o \in Objects, CloseWrite(o) PROVE IInv'
<1> DEFINE x == obj[o]
           h == x.closing
           y == [x EXCEPT !.pc = "closed", !.closing = None]
<1>0. x \in Object /\ x.pc = "closing" /\ Within(x) /\ (~raced => InStep(x))
  BY DEF IInv, TypeOK, ObjectsOK, CloseWrite, At
<1>1. h \in Watermark /\ h.seq <= Len(file) /\ (~raced => Names(h))
  BY <1>0 DEF Object, Within, InStep, Marks
<1>2. PICK ok \in BOOLEAN : /\ writeHeadAtomic(h, ok) /\ lost' = (lost \/ ~ok)
                            /\ obj' = [obj EXCEPT ![o] = y]
  BY DEF CloseWrite
<1>3. y \in Object /\ Within(y)
  <2>1. y \in Object  BY <1>0 DEF Object
  <2>2. QED  BY <1>0, <2>1 DEF Object, Within, Marks
<1>4. ~raced => InStep(y)  BY <1>0 DEF Object, InStep, Marks, Names
<1>5. lost' \in BOOLEAN /\ UNCHANGED <<file, torn, ver, alarm, raced>>
  BY <1>2 DEF IInv, TypeOK, CloseWrite
<1> HIDE DEF y
<1>6. obj' \in [Objects -> Object] /\ ObjectsOK'  BY <1>2, <1>3, <1>4, <1>5, OneObject
<1>7. QED  BY <1>1, <1>2, <1>5, <1>6, HeadWritten

LEMMA TruncateInv == ASSUME IInv, NEW o \in Objects, Truncate(o) PROVE IInv'
<1> DEFINE x == obj[o]
           y == [x EXCEPT !.pc = "open"]
<1>0. x \in Object /\ x.pc = "torn" /\ Within(x) /\ (~raced => InStep(x))
  BY DEF IInv, TypeOK, ObjectsOK, Truncate, At
<1>1. /\ obj' = [obj EXCEPT ![o] = y] /\ UNCHANGED <<file, head, ver, alarm, peak, raced, lost>>
      /\ torn' = FALSE \/ torn' = torn
      /\ Works \/ Fails
  BY DEF Truncate
<1>2. y \in Object /\ Within(y)
  <2>1. y \in Object  BY <1>0 DEF Object
  <2>2. QED  BY <1>0, <2>1 DEF Object, Within, Marks
<1>3. ~raced => InStep(y)  BY <1>0 DEF Object, InStep, Marks
<1>4. faults' \in faults .. MaxFaults  BY <1>1, Faults
<1>5. faults \in Nat /\ faults' \in 0 .. MaxFaults /\ faults <= faults'
  BY <1>4, LedgerAssumption DEF IInv, TypeOK
<1> HIDE DEF y
<1>6. obj' \in [Objects -> Object] /\ ObjectsOK'  BY <1>1, <1>2, <1>3, OneObject
<1>7. TypeOK'  BY <1>1, <1>5, <1>6 DEF IInv, TypeOK
<1>8. FileOK'  BY <1>1, <1>5 DEF IInv, FileOK, ChainIntact, Chained, Links, PrevOf, HeadNeverAhead
<1>9. VerifyOK'  BY <1>1, <1>5 DEF IInv, VerifyOK, VerifySound, PrevOf
<1>10. QED  BY <1>6, <1>7, <1>8, <1>9 DEF IInv

\* A Verify changes only its own progress and the verdict.
LEMMA VerifyStep ==
    ASSUME IInv, UNCHANGED <<file, torn, head, obj, peak, raced, lost, faults>>,
           ver' \in [pc: {"idle", "head"}, count: 0 .. MaxRecords, last: Hash],
           alarm' \in [is: {"none", "chain", "decode", "truncated", "mismatch"}, count: 0 .. MaxRecords],
           VerifyOK'
    PROVE  IInv'
<1>1. TypeOK'  BY DEF IInv, TypeOK
<1>2. ObjectsOK'  BY DEF IInv, ObjectsOK, Within, InStep, Names, PrevOf
<1>3. FileOK'  BY DEF IInv, FileOK, ChainIntact, Chained, Links, PrevOf, HeadNeverAhead
<1>4. QED  BY <1>1, <1>2, <1>3 DEF IInv

\* The replay finds the chain whole, and half a record only after a failure.
LEMMA VerifyScanInv == ASSUME IInv, VerifyScan PROVE IInv'
<1> DEFINE n == Len(file)
<1>0. /\ file \in Seq(Record) /\ n \in 0 .. MaxRecords /\ DOMAIN file = 1 .. n /\ MaxRecords \in Nat
      /\ UNCHANGED <<file, torn, head, obj, peak, raced, lost, faults>>
      /\ TypeOK /\ VerifyOK
  BY LedgerAssumption, LenProperties DEF IInv, TypeOK, VerifyScan
<1>1. PrevOf(n + 1) \in Hash  BY <1>0, PrevType
<1>2. CASE alarm' = Quiet /\ ver' = ver
  <2>1. alarm'.is = "none" /\ alarm' \in [is: {"none", "chain", "decode", "truncated", "mismatch"}, count: 0 .. MaxRecords]
    BY <1>0, <1>2 DEF Quiet
  <2>2. VerifyOK'  BY <1>0, <1>2, <2>1 DEF VerifyOK, VerifySound, PrevOf
  <2>3. QED  BY <1>0, <1>2, <2>1, <2>2, VerifyStep DEF TypeOK
<1>3. CASE (\E i \in DOMAIN file : ~Links(i)) /\ Verdict("chain", n) /\ ver' = ver
  <2>1. raced  BY <1>3 DEF IInv, FileOK, ChainIntact, Chained
  <2>2. alarm' \in [is: {"none", "chain", "decode", "truncated", "mismatch"}, count: 0 .. MaxRecords]
    BY <1>0, <1>3 DEF Verdict
  <2>3. VerifyOK'  BY <1>0, <1>3, <2>1 DEF VerifyOK, VerifySound, PrevOf
  <2>4. QED  BY <1>0, <1>3, <2>2, <2>3, VerifyStep DEF TypeOK
<1>4. CASE torn /\ Verdict("decode", n) /\ ver' = ver
  <2>1. faults > 0  BY <1>4 DEF IInv, FileOK
  <2>2. alarm' = [is |-> "decode", count |-> n]  BY <1>4 DEF Verdict
  <2>3. VerifyOK'  BY <1>0, <1>4, <2>1, <2>2 DEF VerifyOK, VerifySound, PrevOf
  <2>4. alarm' \in [is: {"none", "chain", "decode", "truncated", "mismatch"}, count: 0 .. MaxRecords]
    BY <1>0, <2>2
  <2>5. QED  BY <1>0, <1>4, <2>3, <2>4, VerifyStep DEF TypeOK
<1>5. CASE alarm' = alarm /\ ver' = [pc |-> "head", count |-> n, last |-> PrevOf(n + 1)]
  <2>1. ver' \in [pc: {"idle", "head"}, count: 0 .. MaxRecords, last: Hash]  BY <1>0, <1>1, <1>5
  <2>2. ver'.count = n /\ ver'.last = PrevOf(n + 1)  BY <1>5
  <2>3. PrevOf(ver.count + 1)' = PrevOf(n + 1)  BY <1>0, <2>2 DEF PrevOf
  <2>4. VerifyOK'  BY <1>0, <1>5, <2>2, <2>3 DEF VerifyOK, VerifySound
  <2>5. QED  BY <1>0, <1>5, <2>1, <2>4, VerifyStep DEF TypeOK
<1>6. QED  BY <1>2, <1>3, <1>4, <1>5 DEF VerifyScan

\* The watermark names a record the replay has read, with the digest it has
\* computed, or one that was appended since.
LEMMA VerifyHeadInv == ASSUME IInv, VerifyHead PROVE IInv'
<1> DEFINE n == Len(file)
<1>0. /\ file \in Seq(Record) /\ n \in 0 .. MaxRecords /\ DOMAIN file = 1 .. n /\ MaxRecords \in Nat
      /\ UNCHANGED <<file, torn, head, obj, peak, raced, lost, faults>>
      /\ TypeOK /\ VerifyOK /\ ver' = Unread /\ ver.pc = "head"
  BY LedgerAssumption, LenProperties DEF IInv, TypeOK, VerifyHead
<1>1. ver.count \in 0 .. n  BY <1>0 DEF TypeOK, VerifyOK
<1>2. ver' \in [pc: {"idle", "head"}, count: 0 .. MaxRecords, last: Hash] /\ ver'.pc = "idle" /\ ver'.count = 0
  BY <1>0, EmptySeq DEF Unread, Hash
<1>3. CASE alarm' = Quiet
  <2>1. alarm'.is = "none" /\ alarm' \in [is: {"none", "chain", "decode", "truncated", "mismatch"}, count: 0 .. MaxRecords]
    BY <1>0, <1>3 DEF Quiet
  <2>2. VerifyOK'  BY <1>0, <1>2, <2>1 DEF VerifyOK, VerifySound
  <2>3. QED  BY <1>0, <1>2, <2>1, <2>2, VerifyStep
<1>4. CASE head # None /\ ver.count < head.seq /\ Verdict("truncated", ver.count)
  <2>1. alarm' = [is |-> "truncated", count |-> ver.count]  BY <1>4 DEF Verdict
  <2>2. alarm' \in [is: {"none", "chain", "decode", "truncated", "mismatch"}, count: 0 .. MaxRecords]
    BY <1>0, <1>1, <2>1
  <2>3. ~raced => ver.count < n
    BY <1>0, <1>1, <1>4 DEF IInv, FileOK, HeadNeverAhead, TypeOK, Watermark
  <2>4. VerifyOK'  BY <1>0, <1>2, <2>1, <2>3 DEF VerifyOK, VerifySound
  <2>5. QED  BY <1>0, <1>2, <2>2, <2>4, VerifyStep
<1>5. CASE head # None /\ ver.count = head.seq /\ ver.last # head.hash /\ Verdict("mismatch", ver.count)
  <2>1. alarm' = [is |-> "mismatch", count |-> ver.count]  BY <1>5 DEF Verdict
  <2>2. alarm' \in [is: {"none", "chain", "decode", "truncated", "mismatch"}, count: 0 .. MaxRecords]
    BY <1>0, <1>1, <2>1
  <2>3. raced
    <3>1. SUFFICES ASSUME ~raced  PROVE FALSE  OBVIOUS
    <3>2. head.seq \in 1 .. n /\ file[head.seq].hash = head.hash
      BY <1>0, <1>5, <3>1 DEF IInv, FileOK, HeadNeverAhead
    <3>3. ver.last = PrevOf(ver.count + 1)  BY <1>0, <3>1 DEF VerifyOK
    <3>4. PrevOf(ver.count + 1) = file[ver.count].hash  BY <1>0, <1>5, <3>2 DEF PrevOf
    <3>5. QED  BY <1>5, <3>2, <3>3, <3>4
  <2>4. VerifyOK'  BY <1>0, <1>2, <2>1, <2>3 DEF VerifyOK, VerifySound
  <2>5. QED  BY <1>0, <1>2, <2>2, <2>4, VerifyStep
<1>6. QED  BY <1>3, <1>4, <1>5 DEF VerifyHead

-----------------------------------------------------------------------------
(* Append. *)

\* The record that Append adds, and the file after it.
NextRecord(o) ==
    LET x == refreshTailLocked(obj[o])
    IN  [seq |-> x.seq + 1, prev |-> x.last, hash |-> hashRecord(x.seq + 1, o, x.last)]

LEMMA NextRecordType ==
    ASSUME IInv, NEW o \in Objects, At(o, "open")
    PROVE  /\ NextRecord(o) \in Record
           /\ NextRecord(o).seq = refreshTailLocked(obj[o]).seq + 1
           /\ NextRecord(o).seq <= Len(file) + 1
<1> DEFINE x == refreshTailLocked(obj[o])
<1>1. x \in Object /\ Within(x)  BY Refreshed
<1>2. x.seq \in Nat /\ x.last \in Hash /\ x.seq <= Len(file)
  BY <1>1, LedgerAssumption DEF Object, Within
<1> HIDE DEF x
<1>6. x.seq + 1 \in Nat  BY <1>2
<1>3. hashRecord(x.seq + 1, o, x.last) \in Hash  BY <1>2, <1>6, Digest
<1>4. Len(file) \in Nat  BY LenProperties DEF IInv, TypeOK
<1>5. QED  BY <1>2, <1>3, <1>4 DEF NextRecord, Record, x

\* A longer file keeps what is known of the shorter one.
LEMMA Longer ==
    ASSUME IInv, NEW r \in Record, file' = Append(file, r)
    PROVE  /\ file' \in Seq(Record) /\ Len(file') = Len(file) + 1 /\ Len(file) \in Nat
           /\ DOMAIN file = 1 .. Len(file) /\ DOMAIN file' = 1 .. Len(file) + 1
           /\ \A i \in 1 .. Len(file) : file'[i] = file[i]
           /\ file'[Len(file) + 1] = r
           /\ \A n \in 1 .. Len(file) + 1 : PrevOf(n)' = PrevOf(n)
           /\ \A h \in Watermark \cup {None} : Names(h) => Names(h)'
<1>1. file \in Seq(Record) /\ Len(file) \in Nat /\ DOMAIN file = 1 .. Len(file)
  BY LenProperties DEF IInv, TypeOK
<1>2. file' \in Seq(Record) /\ Len(file') = Len(file) + 1 /\ DOMAIN file' = 1 .. Len(file')
  BY <1>1, AppendProperties, LenProperties
<1>3. \A i \in 1 .. Len(file) : file'[i] = file[i]  BY <1>1, AppendProperties
<1>4. file'[Len(file) + 1] = r  BY <1>1, AppendProperties
<1>5. \A n \in 1 .. Len(file) + 1 : PrevOf(n)' = PrevOf(n)
  BY <1>1, <1>3 DEF PrevOf
<1>6. \A h \in Watermark \cup {None} : Names(h) => Names(h)'
  BY <1>1, <1>2, <1>3 DEF Names
<1>7. QED  BY <1>1, <1>2, <1>3, <1>4, <1>5, <1>6

\* The record is written: it is chained to the last one, and the other objects,
\* the watermark and a replay in progress see a longer file.
LEMMA WrittenInv ==
    ASSUME IInv, NEW o \in Objects, At(o, "open"), ~torn, Len(file) < MaxRecords,
           file' = Append(file, NextRecord(o)),
           obj' = [obj EXCEPT ![o] = Written(refreshTailLocked(obj[o]), NextRecord(o))],
           raced' = (raced \/ \E p \in Objects : At(p, "scan")),
           UNCHANGED <<torn, head, ver, alarm, peak, lost, faults>>
    PROVE  IInv'
<1>a. PICK n \in Nat : n = Len(file)  BY LenProperties DEF IInv, TypeOK
<1>b. PICK x \in Object : x = refreshTailLocked(obj[o])  BY Refreshed
<1>c. PICK r \in Record : r = NextRecord(o)  BY NextRecordType
<1>d. PICK y : y = Written(x, r)  OBVIOUS
<1>0. /\ MaxRecords \in Nat /\ TypeOK /\ ObjectsOK /\ FileOK /\ VerifyOK
      /\ raced \in BOOLEAN /\ raced' \in BOOLEAN /\ (~raced' => ~raced)
  BY LedgerAssumption DEF IInv, TypeOK
<1>1. /\ x \in Object /\ x.pc = "open" /\ Within(x) /\ x.off = n
      /\ ~raced => InStep(x) /\ x.seq = n
      /\ Marks(x) = Marks(obj[o])
  BY <1>a, <1>b, Refreshed
<1>2. r \in Record /\ r.seq = x.seq + 1 /\ r.seq <= n + 1  BY <1>a, <1>b, <1>c, NextRecordType
<1>3. r.prev = x.last /\ r.hash = hashRecord(x.seq + 1, o, x.last)  BY <1>b, <1>c DEF NextRecord
<1>4. /\ file' \in Seq(Record) /\ Len(file') = n + 1 /\ n \in Nat
      /\ DOMAIN file = 1 .. n /\ DOMAIN file' = 1 .. n + 1
      /\ \A i \in 1 .. n : file'[i] = file[i]
      /\ file'[n + 1] = r
      /\ \A k \in 1 .. n + 1 : PrevOf(k)' = PrevOf(k)
      /\ \A h \in Watermark \cup {None} : Names(h) => Names(h)'
  BY <1>a, <1>c, Longer
<1>5. /\ y.seq = r.seq /\ y.last = r.hash /\ y.off = n + 1 /\ y.pc = "open" /\ y.dirty = TRUE
      /\ y.pending = [seq |-> r.seq, hash |-> r.hash] /\ y.writing = x.writing /\ y.closing = x.closing
      /\ y.flusher = IF x.flusher = "none" THEN "idle" ELSE x.flusher
  BY <1>1, <1>d DEF Written, Object
<1>6. y.pending \in Watermark  BY <1>2, <1>5 DEF Watermark, Record
<1>7. y \in Object
  <2>1. r.seq \in 0 .. MaxRecords /\ n + 1 \in 0 .. MaxRecords  BY <1>0, <1>2, <1>4, <1>a DEF Record
  <2>2. y = [x EXCEPT !.seq = r.seq, !.last = r.hash, !.off = n + 1, !.dirty = TRUE,
                      !.pending = y.pending, !.flusher = y.flusher]
    BY <1>1, <1>5, <1>d DEF Written, Object
  <2>3. y.flusher \in {"none", "idle", "write", "last", "done"}  BY <1>1, <1>5 DEF Object
  <2>4. r.hash \in Hash  BY <1>2 DEF Record
  <2>5. QED  BY <1>1, <1>6, <2>1, <2>2, <2>3, <2>4 DEF Object
<1>8. obj' \in [Objects -> Object] /\ obj'[o] = y /\ (\A p \in Objects : p # o => obj'[p] = obj[p])
  BY <1>0, <1>7, <1>b, <1>c, <1>d DEF TypeOK
<1>9. ASSUME ~raced'  PROVE r.seq = n + 1 /\ r.prev = PrevOf(n + 1) /\ Links(n + 1)'
  <2>1. ~raced /\ x.seq = n /\ x.last = PrevOf(n + 1)  BY <1>0, <1>1, <1>9 DEF InStep
  <2>2. PrevOf(n + 1)' = PrevOf(n + 1)  BY <1>4
  <2>3. x.last \in Hash  BY <1>1 DEF Object
  <2>4. Len(r.hash) > 0 /\ r.hash = hashRecord(n + 1, r.hash[Len(r.hash)][2], x.last)
    <3>1. n + 1 \in Nat /\ r.hash = hashRecord(n + 1, o, x.last)  BY <1>3, <1>4, <2>1
    <3>2. PICK m \in Nat : m = n + 1  BY <3>1
    <3>3. LET h == hashRecord(m, o, x.last)
          IN  h \in Hash /\ Len(h) > 0 /\ h = hashRecord(m, h[Len(h)][2], x.last)
      BY <2>3, Digest
    <3>4. QED  BY <3>1, <3>2, <3>3
  <2>5. r.seq = n + 1  BY <1>2, <2>1
  <2>6. QED  BY <1>3, <1>4, <2>1, <2>2, <2>4, <2>5 DEF Links
<1>10. FileOK'
  <2>1. \A i \in DOMAIN file' : file'[i].seq <= i  BY <1>0, <1>2, <1>4 DEF FileOK
  <2>2. peak' <= Len(file') /\ (torn' => faults' > 0)  BY <1>0, <1>4, <1>a DEF FileOK, TypeOK
  <2>3. ChainIntact'
    <3>1. SUFFICES ASSUME ~raced', NEW i \in 1 .. n + 1  PROVE file'[i].seq = i /\ Links(i)'
      BY <1>4 DEF ChainIntact, Chained
    <3>2. CASE i = n + 1  BY <1>4, <1>9, <3>1, <3>2
    <3>3. CASE i # n + 1
      <4>1. i \in 1 .. n /\ file'[i] = file[i] /\ PrevOf(i)' = PrevOf(i)  BY <1>4, <3>3
      <4>2. file[i].seq = i /\ Links(i)  BY <1>0, <1>4, <3>1, <4>1 DEF FileOK, ChainIntact, Chained
      <4>3. QED  BY <4>1, <4>2 DEF Links
    <3>4. QED  BY <3>2, <3>3
  <2>4. HeadNeverAhead'
    <3>1. head \in Watermark \cup {None}  BY <1>0 DEF TypeOK
    <3>2. ~raced => Names(head)  BY <1>0 DEF FileOK, HeadNeverAhead, Names
    <3>3. ~raced' => Names(head)'  BY <1>0, <1>4, <3>1, <3>2
    <3>4. QED  BY <3>3 DEF HeadNeverAhead, Names
  <2>5. QED  BY <2>1, <2>2, <2>3, <2>4 DEF FileOK
<1>11. ObjectsOK'
  <2>1. \A h \in Marks(x) : h \in Watermark \cup {None}  BY <1>1 DEF Object, Marks
  <2>2. Marks(y) \subseteq Marks(x) \cup {y.pending}  BY <1>5 DEF Marks
  <2>3. Within(y)'
    <3>1. \A h \in Marks(y) : h # None => h.seq <= n + 1
      BY <1>1, <1>2, <1>4, <1>5, <1>a, <2>1, <2>2 DEF Within, Watermark
    <3>2. y.pending # None  BY <1>6, LedgerAssumption
    <3>3. QED  BY <1>1, <1>2, <1>4, <1>5, <1>a, <3>1, <3>2 DEF Within
  <2>4. ~raced' => InStep(y)'
    <3>1. SUFFICES ASSUME ~raced'  PROVE InStep(y)'  OBVIOUS
    <3>2. Names(y.pending)'  BY <1>4, <1>5, <1>9, <3>1 DEF Names
    <3>3. \A h \in Marks(x) : Names(h)'  BY <1>0, <1>1, <1>4, <2>1, <3>1 DEF InStep
    <3>4. y.last = PrevOf(y.seq + 1)'  BY <1>4, <1>5, <1>9, <3>1 DEF PrevOf
    <3>5. y.off <= y.seq  BY <1>4, <1>5, <1>9, <3>1
    <3>6. QED  BY <1>5, <2>2, <3>2, <3>3, <3>4, <3>5 DEF InStep
  <2>5. ASSUME NEW p \in Objects, p # o
        PROVE  Within(obj[p])' /\ (~raced' => InStep(obj[p])')
    <3>z. PICK z : z = obj[p]  OBVIOUS
    <3>1. obj'[p] = z /\ z \in Object /\ Within(z) /\ (~raced => InStep(z))
      BY <1>0, <1>8, <2>5, <3>z DEF TypeOK, ObjectsOK
    <3>2. \A h \in Marks(z) : h \in Watermark \cup {None}  BY <3>1 DEF Object, Marks
    <3>3. Within(z)'  BY <1>4, <1>a, <3>1, <3>2 DEF Within, Object, Watermark
    <3>4. ~raced' => InStep(z)'
      <4>1. SUFFICES ASSUME ~raced'  PROVE InStep(z)'  OBVIOUS
      <4>2. z.pc # "scan" /\ InStep(z)  BY <1>0, <3>1, <3>z, <4>1 DEF At
      <4>3. \A h \in Marks(z) : Names(h)'  BY <1>4, <3>2, <4>2 DEF InStep
      <4>4. z.seq + 1 \in 1 .. n + 1  BY <1>0, <1>4, <1>a, <3>1 DEF Within, Object
      <4>5. PrevOf(z.seq + 1)' = PrevOf(z.seq + 1)  BY <1>4, <4>4
      <4>6. QED  BY <4>2, <4>3, <4>5 DEF InStep
    <3>5. QED  BY <3>1, <3>3, <3>4
  <2>6. QED  BY <1>8, <2>3, <2>4, <2>5 DEF ObjectsOK
<1>12. VerifyOK'
  <2>1. ver.count \in 0 .. n /\ ver' = ver /\ alarm' = alarm /\ faults' = faults
    BY <1>0, <1>4, <1>a DEF VerifyOK, TypeOK
  <2>2. PrevOf(ver.count + 1)' = PrevOf(ver.count + 1)  BY <1>4, <2>1
  <2>3. ~raced' /\ ver.pc = "head" => ver.last = PrevOf(ver.count + 1)  BY <1>0 DEF VerifyOK
  <2>4. VerifySound'  BY <1>0, <1>4, <1>a, <2>1 DEF VerifyOK, VerifySound, TypeOK
  <2>5. QED  BY <1>4, <2>1, <2>2, <2>3, <2>4 DEF VerifyOK
<1>13. TypeOK'  BY <1>0, <1>4, <1>8, <1>a DEF TypeOK
<1>14. QED  BY <1>10, <1>11, <1>12, <1>13 DEF IInv

LEMMA AppendRecordInv == ASSUME IInv, NEW o \in Objects, AppendRecord(o) PROVE IInv'
<1> DEFINE x == refreshTailLocked(obj[o])
<1>1. /\ At(o, "open") /\ Len(file) < MaxRecords /\ UNCHANGED <<head, ver, alarm, peak, lost>>
  BY DEF AppendRecord
<1>2. /\ x \in Object /\ x.pc = "open" /\ Within(x) /\ (~raced => InStep(x))  BY <1>1, Refreshed
<1>3. lost' \in BOOLEAN  BY <1>1 DEF IInv, TypeOK
<1>4. CASE torn /\ obj' = [obj EXCEPT ![o] = x] /\ Works /\ UNCHANGED <<file, torn, raced>>
  <2> HIDE DEF x
  <2>1. obj' \in [Objects -> Object] /\ ObjectsOK'  BY <1>2, <1>4, OneObject
  <2>2. faults' \in faults .. MaxFaults  BY <1>4, Faults
  <2>3. QED  BY <1>1, <1>3, <1>4, <2>1, <2>2, OnlyObjects
<1>5. CASE /\ ~torn /\ file' = Append(file, NextRecord(o)) /\ obj' = [obj EXCEPT ![o] = Written(x, NextRecord(o))]
           /\ raced' = (raced \/ \E p \in Objects : At(p, "scan"))
           /\ Works /\ UNCHANGED torn
  <2>1. UNCHANGED faults  BY <1>5 DEF Works
  <2>2. QED  BY <1>1, <1>5, <2>1, WrittenInv
<1>6. CASE ~torn /\ obj' = [obj EXCEPT ![o] = x] /\ Fails /\ UNCHANGED <<file, torn, raced>>
  <2> HIDE DEF x
  <2>1. obj' \in [Objects -> Object] /\ ObjectsOK'  BY <1>2, <1>6, OneObject
  <2>2. faults' \in faults .. MaxFaults  BY <1>6, Faults
  <2>3. QED  BY <1>1, <1>3, <1>6, <2>1, <2>2, OnlyObjects
<1>7. CASE ~torn /\ torn' = TRUE /\ obj' = [obj EXCEPT ![o] = [x EXCEPT !.pc = "torn"]]
           /\ Fails /\ UNCHANGED <<file, raced>>
  <2> DEFINE y == [x EXCEPT !.pc = "torn"]
  <2> HIDE DEF x
  <2>1. y \in Object /\ Within(y) /\ (~raced => InStep(y))
    <3>1. y \in Object  BY <1>2 DEF Object
    <3>2. Within(y)  BY <1>2, <3>1 DEF Object, Within, Marks
    <3>3. ~raced => InStep(y)  BY <1>2 DEF Object, InStep, Marks
    <3>4. QED  BY <3>1, <3>2, <3>3
  <2> HIDE DEF y
  <2>2. obj' \in [Objects -> Object] /\ ObjectsOK'  BY <1>7, <2>1, OneObject DEF y
  <2>3. faults' \in 0 .. MaxFaults /\ faults' > 0 /\ faults' >= faults
    BY <1>7, LedgerAssumption DEF Fails, IInv, TypeOK
  <2>4. TypeOK'  BY <1>1, <1>7, <2>2, <2>3 DEF IInv, TypeOK
  <2>5. FileOK'  BY <1>1, <1>7, <2>3 DEF IInv, FileOK, ChainIntact, Chained, Links, PrevOf, HeadNeverAhead
  <2>6. VerifyOK'  BY <1>1, <1>7, <2>3 DEF IInv, VerifyOK, VerifySound, PrevOf
  <2>7. QED  BY <2>2, <2>4, <2>5, <2>6 DEF IInv
<1>8. QED  BY <1>4, <1>5, <1>6, <1>7 DEF AppendRecord, NextRecord, Unwound

-----------------------------------------------------------------------------
(* The theorems. *)

LEMMA InitInv == ASSUME Init PROVE IInv
<1>1. Fresh \in Object
  <2>1. <<>> \in Hash  BY EmptySeq DEF Hash
  <2>2. QED  BY <2>1, LedgerAssumption DEF Fresh, Object
<1>2. file = <<>> /\ Len(file) = 0 /\ DOMAIN file = {} /\ file \in Seq(Record)
  BY EmptySeq DEF Init
<1>3. TypeOK
  <2>1. Unread \in [pc: {"idle", "head"}, count: 0 .. MaxRecords, last: Hash]
    BY EmptySeq, LedgerAssumption DEF Unread, Hash
  <2>2. Quiet \in [is: {"none", "chain", "decode", "truncated", "mismatch"}, count: 0 .. MaxRecords]
    BY LedgerAssumption DEF Quiet
  <2>3. obj \in [Objects -> Object]  BY <1>1 DEF Init
  <2>4. ver = Unread /\ alarm = Quiet /\ head = None /\ torn = FALSE /\ raced = FALSE /\ lost = FALSE
        /\ peak = 0 /\ faults = 0
    BY DEF Init
  <2>5. ver \in [pc: {"idle", "head"}, count: 0 .. MaxRecords, last: Hash]  BY <2>1, <2>4
  <2>6. alarm \in [is: {"none", "chain", "decode", "truncated", "mismatch"}, count: 0 .. MaxRecords]
    BY <2>2, <2>4
  <2>7. Len(file) <= MaxRecords /\ peak \in 0 .. MaxRecords /\ faults \in 0 .. MaxFaults
    BY <1>2, <2>4, LedgerAssumption
  <2>8. QED  BY <1>2, <2>3, <2>4, <2>5, <2>6, <2>7 DEF TypeOK
<1>4. ObjectsOK
  <2>1. Marks(Fresh) = {None} /\ Fresh.seq = 0 /\ Fresh.off = 0 /\ Fresh.pc = "new"
        /\ Fresh.dirty = FALSE /\ Fresh.flusher = "none"
    BY DEF Fresh, Marks
  <2>2. \A o \in Objects : obj[o] = Fresh  BY DEF Init
  <2>3. Within(Fresh)  BY <1>2, <2>1 DEF Within
  <2>4. InStep(Fresh)  BY <2>1 DEF InStep, Names
  <2>5. QED  BY <2>2, <2>3, <2>4 DEF ObjectsOK
<1>5. FileOK  BY <1>2 DEF Init, FileOK, ChainIntact, Chained, HeadNeverAhead
<1>6. VerifyOK  BY <1>2 DEF Init, VerifyOK, VerifySound, Unread, Quiet
<1>7. QED  BY <1>3, <1>4, <1>5, <1>6 DEF IInv

LEMMA NextInv == ASSUME IInv, [Next]_vars PROVE IInv'
<1>1. CASE UNCHANGED vars
  BY <1>1 DEF vars, IInv, TypeOK, ObjectsOK, Within, InStep, Names, PrevOf, FileOK, ChainIntact,
              Chained, Links, HeadNeverAhead, VerifyOK, VerifySound
<1>2. CASE Next
  BY <1>2, OpenScanInv, OpenStatInv, AppendRecordInv, TruncateInv, FlushTakeInv, FlushWriteInv,
     CloseInv, CloseWriteInv, CrashInv, VerifyScanInv, VerifyHeadInv DEF Next
<1>3. QED  BY <1>1, <1>2

\* The records on disk stay numbered and chained and the watermark names one of
\* them, for any number of objects, records, failed writes and deaths, unless
\* an append fell inside an Open (Append, flushHead, Close).
THEOREM LedgerIntact == Spec => []RecordsIntact
<1>1. Init => IInv  BY InitInv
<1>2. IInv /\ [Next]_vars => IInv'  BY NextInv
<1>3. IInv => RecordsIntact  BY DEF IInv, FileOK, RecordsIntact
<1>4. QED  BY <1>1, <1>2, <1>3, PTL DEF Spec

\* On such a ledger a Verify that runs beside the writers never reports a broken
\* chain or a wrong head, and reports truncation only when the file grew under
\* it (Verify takes no lock).
THEOREM NoFalseAlarm == Spec => []VerifySound
<1>1. Init => IInv  BY InitInv
<1>2. IInv /\ [Next]_vars => IInv'  BY NextInv
<1>3. IInv => VerifySound  BY DEF IInv, VerifyOK
<1>4. QED  BY <1>1, <1>2, <1>3, PTL DEF Spec

---------------------------------------------------------------------------
(* The block server. *)

\* The fields of a guest's and of a session's record.
GuestFields == {"up", "next", "setups", "desc", "avail", "availIdx", "kicked", "used", "usedIdx", "seen",
                "inflight", "posts", "odd"}
SessionFields == {"msg", "run", "closed", "closer", "torn", "mem", "ring", "lastAvail", "usedIdx", "kick",
                  "pending", "enabled", "pump", "pumpKick", "batch", "sg"}

Busy(v) == v.pump \in {"io", "publish"}
Gone(v) == v.pump \in {"off", "done"}

\* The guest's side of a session: its descriptors are slots of the queue.
GuestOK(u) ==
    /\ u = [x \in GuestFields |-> u[x]]
    /\ u.setups \in Nat /\ u.availIdx \in Nat /\ u.avail \in [Slots -> Slots]
    /\ u.inflight \subseteq Slots

\* The server's side: a batch in its IO points into the current memory table.
SessionOK(v) ==
    /\ v = [x \in SessionFields |-> v[x]]
    /\ v.closed \in BOOLEAN
    /\ v.pump \in {"off", "top", "wait", "drain", "io", "publish", "done"}
    /\ v.lastAvail \in 0 .. IdxMod - 1 /\ v.usedIdx \in 0 .. IdxMod - 1
    /\ v.mem \in Nat /\ v.ring \in Nat /\ v.kick \in Nat /\ v.pending \subseteq Nat
    /\ v.batch \in BoundedSeq(Slots, pumpMaxBatch)
    /\ Busy(v) => v.sg = v.mem

\* With n queues set up: no table and no rings before the first, and rings of the
\* current table until the second, so the new table comes before any rings and a
\* pump that is busy holds rings.
Mapped(n, v) ==
    /\ n = 0 => v.mem = 0 /\ v.ring = 0
    /\ n <= 1 => /\ v.ring \in {0, v.mem}
                 /\ v.msg = "mem" => v.ring = 0
                 /\ Busy(v) /\ ~v.closed => v.ring # 0

\* A session that will never run a pump again, and one no frontend has reached.
Settled(v) == v.closed /\ Gone(v)
Untouched(u, v) == ~u.up /\ v.msg = "none" /\ Gone(v)

\* Every session before the current one is settled and every later one untouched.
ServerOK ==
    /\ lim \in Limits
    /\ server = [state |-> server.state, accept |-> server.accept, cur |-> server.cur]
    /\ server.state \in {"serving", "closing", "closed"}
    /\ server.accept \in {"accept", "closing"} /\ server.cur \in 0 .. lim.sessions
    /\ server.accept = "closing" => /\ server.state = "serving" /\ server.cur \in 1 .. lim.sessions - 1
                                    /\ d[server.cur].closed
    /\ \A s \in Sessions : /\ s < server.cur => Settled(d[s])
                           /\ server.state = "closed" /\ s = server.cur => Settled(d[s])
                           /\ s > server.cur => Untouched(g[s], d[s])

\* The inductive invariant.
VhostInv ==
    /\ g = [s \in Sessions |-> g[s]] /\ d = [s \in Sessions |-> d[s]]
    /\ \A s \in Sessions : GuestOK(g[s]) /\ SessionOK(d[s]) /\ Mapped(g[s].setups, d[s])
    /\ ServerOK /\ RingMapped

\* A step of one session keeps what the other sessions and the listener rely on.
Moves(u, v, u2, v2) ==
    /\ GuestOK(u2) /\ SessionOK(v2) /\ Mapped(u2.setups, v2)
    /\ v.closed => v2.closed
    /\ Settled(v) => Settled(v2)
    /\ Untouched(u, v) => Untouched(u2, v2)

LEMMA SessionsNat == Sessions \subseteq Nat \ {0}
BY VhostAssumption DEF Sessions

\* An update of one session leaves the others.
LEMMA OneSession ==
  ASSUME NEW f, f = [x \in Sessions |-> f[x]], NEW s \in Sessions, NEW e, NEW f2, f2 = [f EXCEPT ![s] = e]
  PROVE  /\ f2 = [x \in Sessions |-> f2[x]] /\ f2[s] = e
         /\ \A x \in Sessions : x # s => f2[x] = f[x]
OBVIOUS

LEMMA NewGuestOK == GuestOK(NewGuest) /\ NewGuest.setups = 0 /\ ~NewGuest.up
<1>1. NewGuest = [x \in GuestFields |-> NewGuest[x]]
  BY DEF NewGuest, GuestFields
<1>2. NewGuest.avail = [i \in Slots |-> 0] /\ NewGuest.setups = 0 /\ NewGuest.availIdx = 0
      /\ NewGuest.inflight = {} /\ NewGuest.up = FALSE
  BY DEF NewGuest
<1>3. 0 \in Slots  BY VhostAssumption DEF Slots
<1>4. QED  BY <1>1, <1>2, <1>3 DEF GuestOK

LEMMA NewSessionOK == /\ SessionOK(newSession) /\ newSession.msg = "none" /\ Gone(newSession)
                      /\ newSession.mem = 0 /\ newSession.ring = 0
<1>1. newSession = [x \in SessionFields |-> newSession[x]]
  BY DEF newSession, SessionFields
<1>2. /\ newSession.msg = "none" /\ newSession.pump = "off" /\ newSession.mem = 0 /\ newSession.ring = 0
      /\ newSession.closed = FALSE /\ newSession.lastAvail = 0 /\ newSession.usedIdx = 0
      /\ newSession.kick = 0 /\ newSession.pending = {} /\ newSession.batch = <<>>
  BY DEF newSession
<1>3. 0 \in 0 .. IdxMod - 1  BY VhostAssumption
<1>4. <<>> \in BoundedSeq(Slots, pumpMaxBatch)
  BY VhostAssumption DEF BoundedSeq, SeqOf
<1>5. newSession.closed \in BOOLEAN  BY <1>2
<1>6. Gone(newSession) /\ ~Busy(newSession)  BY <1>2 DEF Gone, Busy
<1>7. SessionOK(newSession)
  <2>1. newSession.pump \in {"off", "top", "wait", "drain", "io", "publish", "done"}  BY <1>2
  <2>2. newSession.pending \subseteq Nat  BY <1>2
  <2>3. newSession.batch \in BoundedSeq(Slots, pumpMaxBatch)  BY <1>2, <1>4
  <2>4. /\ newSession.lastAvail \in 0 .. IdxMod - 1 /\ newSession.usedIdx \in 0 .. IdxMod - 1
        /\ newSession.mem \in Nat /\ newSession.ring \in Nat /\ newSession.kick \in Nat
    BY <1>2, <1>3
  <2>5. QED  BY <1>1, <1>5, <1>6, <2>1, <2>2, <2>3, <2>4 DEF SessionOK
<1>8. QED  BY <1>2, <1>6, <1>7

LEMMA VhostInitInv == ASSUME VhostInit PROVE VhostInv
<1>1. g = [s \in Sessions |-> g[s]] /\ d = [s \in Sessions |-> d[s]]
      /\ \A s \in Sessions : g[s] = NewGuest /\ d[s] = newSession
  BY DEF VhostInit
<1>2. \A s \in Sessions : GuestOK(g[s]) /\ SessionOK(d[s]) /\ Mapped(g[s].setups, d[s]) /\ Untouched(g[s], d[s])
  BY <1>1, NewGuestOK, NewSessionOK DEF Mapped, Untouched, Gone, Busy
<1>3. server.state = "serving" /\ server.accept = "accept" /\ server.cur = 0 /\ lim \in Limits
      /\ server = [state |-> server.state, accept |-> server.accept, cur |-> server.cur] /\ fault = FALSE
  BY DEF VhostInit
<1>4. ServerOK  BY <1>2, <1>3, SessionsNat, VhostAssumption DEF ServerOK
<1>5. QED  BY <1>1, <1>2, <1>3, <1>4 DEF VhostInv, RingMapped

\* A step of one session: what it must keep of that session.
LEMMA SessionStep ==
  ASSUME VhostInv, lim' = lim, server' = server, NEW s \in Sessions,
         g' = [x \in Sessions |-> g'[x]], d' = [x \in Sessions |-> d'[x]],
         \A x \in Sessions : x # s => g'[x] = g[x] /\ d'[x] = d[x],
         Moves(g[s], d[s], g'[s], d'[s]), fault' => g'[s].setups > 1
  PROVE  VhostInv'
<1>1. \A x \in Sessions : GuestOK(g'[x]) /\ SessionOK(d'[x]) /\ Mapped(g'[x].setups, d'[x])
  BY DEF VhostInv, Moves
<1>2. \A x \in Sessions : /\ d[x].closed => d'[x].closed
                          /\ Settled(d[x]) => Settled(d'[x])
                          /\ Untouched(g[x], d[x]) => Untouched(g'[x], d'[x])
  BY DEF Moves
<1>3. RingMapped'  BY DEF RingMapped
<1>4. server.accept = "closing" => server.cur \in Sessions
  BY VhostAssumption DEF VhostInv, ServerOK, Sessions
<1>5. ServerOK'  BY <1>2, <1>4 DEF VhostInv, ServerOK, Settled, Untouched, Gone
<1>6. QED  BY <1>1, <1>3, <1>5 DEF VhostInv

\* The same for a step of the server alone, and of the guest alone.
LEMMA ServerStep ==
  ASSUME VhostInv, ~fault, lim' = lim, server' = server, g' = g, NEW s \in Sessions, NEW v, d' = [d EXCEPT ![s] = v],
         SessionOK(v), Mapped(g[s].setups, v), d[s].closed => v.closed,
         Settled(d[s]) => Settled(v), Untouched(g[s], d[s]) => Untouched(g[s], v),
         fault' => g[s].setups > 1
  PROVE  VhostInv'
<1>1. d = [x \in Sessions |-> d[x]] /\ g = [x \in Sessions |-> g[x]] /\ GuestOK(g[s])  BY DEF VhostInv
<1>2. d' = [x \in Sessions |-> d'[x]] /\ d'[s] = v /\ \A x \in Sessions : x # s => d'[x] = d[x]
  BY <1>1, OneSession
<1>3. Moves(g[s], d[s], g'[s], d'[s])  BY <1>1, <1>2 DEF Moves
<1>4. g' = [x \in Sessions |-> g'[x]]  BY <1>1
<1>5. QED  BY <1>2, <1>3, <1>4, SessionStep

LEMMA GuestStep ==
  ASSUME VhostInv, ~fault, lim' = lim, server' = server, d' = d, NEW s \in Sessions, NEW u, g' = [g EXCEPT ![s] = u],
         GuestOK(u), u.setups = g[s].setups, ~g[s].up => ~u.up, fault' = fault
  PROVE  VhostInv'
<1>1. d = [x \in Sessions |-> d[x]] /\ g = [x \in Sessions |-> g[x]]
      /\ SessionOK(d[s]) /\ Mapped(g[s].setups, d[s])  BY DEF VhostInv
<1>2. g' = [x \in Sessions |-> g'[x]] /\ g'[s] = u /\ \A x \in Sessions : x # s => g'[x] = g[x]
  BY <1>1, OneSession
<1>3. Moves(g[s], d[s], g'[s], d'[s])  BY <1>1, <1>2 DEF Moves, Untouched
<1>4. d' = [x \in Sessions |-> d'[x]]  BY <1>1
<1>5. ~fault'  OBVIOUS
<1>6. QED  BY <1>2, <1>3, <1>4, <1>5, SessionStep

LEMMA LeaveInv == ASSUME VhostInv, ~fault, lim' = lim, NEW s \in Sessions, Leave(s) PROVE VhostInv'
<1> DEFINE u == [g[s] EXCEPT !.up = FALSE]
<1>1. GuestOK(g[s]) /\ g = [x \in Sessions |-> g[x]]  BY DEF VhostInv
<1>2. g' = [g EXCEPT ![s] = u] /\ d' = d /\ server' = server /\ fault' = fault  BY <1>1 DEF Leave
<1>3. GuestOK(u) /\ u.setups = g[s].setups /\ ~u.up  BY <1>1 DEF GuestOK, GuestFields
<1> HIDE DEF u
<1>4. QED  BY <1>2, <1>3, GuestStep

LEMMA ReapInv == ASSUME VhostInv, ~fault, lim' = lim, NEW s \in Sessions, Reap(s) PROVE VhostInv'
<1> DEFINE u == [g[s] EXCEPT !.seen = (@ + 1) % IdxMod, !.inflight = @ \ {Answer(s)[1]}]
<1>1. GuestOK(g[s]) /\ g = [x \in Sessions |-> g[x]]  BY DEF VhostInv
<1>2. g' = [g EXCEPT ![s] = u] /\ d' = d /\ server' = server /\ fault' = fault  BY <1>1 DEF Reap
<1>3. u = [x \in GuestFields |-> u[x]] /\ u.setups = g[s].setups /\ u.up = g[s].up
      /\ u.availIdx = g[s].availIdx /\ u.avail = g[s].avail /\ u.inflight = g[s].inflight \ {Answer(s)[1]}
  BY <1>1 DEF GuestOK, GuestFields
<1> HIDE DEF u
<1>4. GuestOK(u)  BY <1>1, <1>3 DEF GuestOK
<1>5. QED  BY <1>2, <1>3, <1>4, GuestStep

LEMMA PostInv ==
  ASSUME VhostInv, ~fault, lim' = lim, NEW s \in Sessions, NEW h \in Slots, NEW k \in Kinds, Post(s, h, k)
  PROVE  VhostInv'
<1> DEFINE at == g[s].availIdx % Num
           u == [g[s] EXCEPT !.desc = [g[s].desc EXCEPT ![h] = [id |-> g[s].posts + 1, kind |-> k]],
                             !.avail = [g[s].avail EXCEPT ![at] = h],
                             !.availIdx = (g[s].availIdx + 1) % IdxMod, !.kicked = FALSE,
                             !.inflight = g[s].inflight \cup {h}, !.posts = g[s].posts + 1,
                             !.odd = IF k = "out" THEN g[s].odd ELSE g[s].odd + 1]
<1>1. GuestOK(g[s]) /\ g = [x \in Sessions |-> g[x]]  BY DEF VhostInv
<1>2. g' = [g EXCEPT ![s] = u] /\ d' = d /\ server' = server /\ fault' = fault
  BY <1>1 DEF Post, GuestOK, GuestFields
<1>3. u = [x \in GuestFields |-> u[x]] /\ u.setups = g[s].setups /\ u.up = g[s].up
      /\ u.availIdx = (g[s].availIdx + 1) % IdxMod /\ u.avail = [g[s].avail EXCEPT ![at] = h]
      /\ u.inflight = g[s].inflight \cup {h}
  BY <1>1 DEF GuestOK, GuestFields
<1> HIDE DEF u
<1>4. u.availIdx \in Nat  BY <1>1, <1>3, VhostAssumption DEF GuestOK
<1>5. GuestOK(u)  BY <1>1, <1>3, <1>4 DEF GuestOK
<1>6. QED  BY <1>2, <1>3, <1>5, GuestStep

\* And for one of both.
LEMMA BothStep ==
  ASSUME VhostInv, lim' = lim, server' = server, NEW s \in Sessions, NEW u, g' = [g EXCEPT ![s] = u],
         NEW v, d' = [d EXCEPT ![s] = v], Moves(g[s], d[s], u, v), fault' => u.setups > 1
  PROVE  VhostInv'
<1>1. d = [x \in Sessions |-> d[x]] /\ g = [x \in Sessions |-> g[x]]  BY DEF VhostInv
<1>2. g' = [x \in Sessions |-> g'[x]] /\ g'[s] = u /\ \A x \in Sessions : x # s => g'[x] = g[x]
  BY <1>1, OneSession
<1>3. d' = [x \in Sessions |-> d'[x]] /\ d'[s] = v /\ \A x \in Sessions : x # s => d'[x] = d[x]
  BY <1>1, OneSession
<1>4. QED  BY <1>2, <1>3, SessionStep

LEMMA KickInv == ASSUME VhostInv, ~fault, lim' = lim, NEW s \in Sessions, Kick(s) PROVE VhostInv'
<1> DEFINE u == [g[s] EXCEPT !.kicked = TRUE]
           v == [d[s] EXCEPT !.pending = d[s].pending \cup {g[s].setups}]
<1>1. /\ GuestOK(g[s]) /\ SessionOK(d[s]) /\ Mapped(g[s].setups, d[s])
      /\ g = [x \in Sessions |-> g[x]] /\ d = [x \in Sessions |-> d[x]]
  BY DEF VhostInv
<1>2. g' = [g EXCEPT ![s] = u] /\ server' = server /\ fault' = fault  BY <1>1 DEF Kick
<1>3. d' = [d EXCEPT ![s] = v]  BY <1>1 DEF Kick
<1>4. GuestOK(u) /\ u.setups = g[s].setups /\ u.up = g[s].up  BY <1>1 DEF GuestOK, GuestFields
<1>5. SessionOK(v)  BY <1>1 DEF SessionOK, SessionFields, GuestOK, Busy
<1>6. v.closed = d[s].closed /\ v.pump = d[s].pump /\ v.msg = d[s].msg /\ v.mem = d[s].mem /\ v.ring = d[s].ring
  BY <1>1 DEF SessionOK, SessionFields
<1> HIDE DEF u, v
<1>7. Moves(g[s], d[s], u, v)
  BY <1>1, <1>4, <1>5, <1>6 DEF Moves, Mapped, Busy, Gone, Settled, Untouched
<1>8. QED  BY <1>2, <1>3, <1>7, BothStep

LEMMA SendInv ==
  ASSUME VhostInv, ~fault, lim' = lim, NEW s \in Sessions, NEW m, Send(s, m)
  PROVE  VhostInv'
<1> DEFINE v == [d[s] EXCEPT !.msg = m]
<1>1. /\ GuestOK(g[s]) /\ SessionOK(d[s]) /\ Mapped(g[s].setups, d[s])
      /\ g = [x \in Sessions |-> g[x]] /\ d = [x \in Sessions |-> d[x]]
  BY DEF VhostInv
<1>2. d' = [d EXCEPT ![s] = v] /\ server' = server /\ fault' = fault /\ g[s].up /\ ~d[s].closed
  BY <1>1 DEF Send
<1>3. SessionOK(v)  BY <1>1 DEF SessionOK, SessionFields, Busy
<1>4. v.closed = d[s].closed /\ v.pump = d[s].pump /\ v.msg = m /\ v.mem = d[s].mem /\ v.ring = d[s].ring
  BY <1>1 DEF SessionOK, SessionFields
<1> HIDE DEF v
<1>5. CASE m = "mem"
  <2> DEFINE u == [NewGuest EXCEPT !.up = TRUE, !.next = Then(s, m), !.setups = g[s].setups + 1,
                                   !.posts = g[s].posts, !.odd = g[s].odd]
  <2>1. g' = [g EXCEPT ![s] = u]  BY <1>5 DEF Send
  <2>2. u.setups = g[s].setups + 1 /\ u = [x \in GuestFields |-> u[x]] /\ u.availIdx = NewGuest.availIdx
        /\ u.avail = NewGuest.avail /\ u.inflight = NewGuest.inflight
    BY NewGuestOK DEF GuestOK, GuestFields
  <2> HIDE DEF u
  <2>3. GuestOK(u)
    <3>1. u.setups \in Nat  BY <1>1, <2>2 DEF GuestOK
    <3>2. NewGuest.availIdx \in Nat /\ NewGuest.avail \in [Slots -> Slots] /\ NewGuest.inflight \subseteq Slots
      BY NewGuestOK DEF GuestOK
    <3>3. QED  BY <2>2, <3>1, <3>2 DEF GuestOK
  <2>4. Mapped(u.setups, v)
    BY <1>1, <1>2, <1>4, <2>2 DEF Mapped, Busy, GuestOK
  <2>5. Moves(g[s], d[s], u, v)
    BY <1>2, <1>3, <1>4, <2>3, <2>4 DEF Moves, Settled, Untouched
  <2>6. QED  BY <1>2, <2>1, <2>5, BothStep
<1>6. CASE m # "mem"
  <2> DEFINE u == [g[s] EXCEPT !.next = Then(s, m)]
  <2>1. g' = [g EXCEPT ![s] = u]  BY <1>1, <1>6 DEF Send
  <2>2. GuestOK(u) /\ u.setups = g[s].setups  BY <1>1 DEF GuestOK, GuestFields
  <2> HIDE DEF u
  <2>3. Mapped(u.setups, v)
    BY <1>1, <1>2, <1>4, <1>6, <2>2 DEF Mapped, Busy, GuestOK
  <2>4. Moves(g[s], d[s], u, v)
    BY <1>2, <1>3, <1>4, <2>2, <2>3 DEF Moves, Settled, Untouched
  <2>5. QED  BY <1>2, <2>1, <2>4, BothStep
<1>7. QED  BY <1>5, <1>6

\* Closing marks the session and signals the pump, and unmaps nothing yet.
LEMMA BeginCloseOK ==
  ASSUME VhostInv, NEW s \in Sessions, NEW who
  PROVE  LET v == BeginClose(s, who)
         IN  /\ SessionOK(v) /\ v.closed = TRUE /\ v.pump = d[s].pump /\ v.msg = d[s].msg
             /\ v.mem = d[s].mem /\ v.ring = d[s].ring /\ v.sg = d[s].sg
<1> DEFINE v == BeginClose(s, who)
<1>1. SessionOK(d[s])  BY DEF VhostInv
<1>2. CASE d[s].closed
  BY <1>1, <1>2 DEF BeginClose, SessionOK
<1>3. CASE ~d[s].closed
  <2> DEFINE p == IF d[s].kick = 0 THEN d[s].pending ELSE d[s].pending \cup {d[s].kick}
  <2>1. v = [d[s] EXCEPT !.closed = TRUE, !.closer = who, !.pending = p]  BY <1>3 DEF BeginClose
  <2>2. p \subseteq Nat  BY <1>1 DEF SessionOK
  <2> HIDE DEF p
  <2>3. QED  BY <1>1, <2>1, <2>2 DEF SessionOK, SessionFields, Busy
<1>4. QED  BY <1>2, <1>3

LEMMA RunEndsInv == ASSUME VhostInv, ~fault, lim' = lim, NEW s \in Sessions, RunEnds(s) PROVE VhostInv'
<1> DEFINE b == BeginClose(s, "run")
           v == [b EXCEPT !.run = "ended"]
<1>1. /\ GuestOK(g[s]) /\ Mapped(g[s].setups, d[s]) /\ d = [x \in Sessions |-> d[x]]
  BY DEF VhostInv
<1>2. d' = [d EXCEPT ![s] = v] /\ server' = server /\ g' = g /\ fault' = fault  BY DEF RunEnds
<1>3. /\ SessionOK(b) /\ b.closed = TRUE /\ b.pump = d[s].pump /\ b.msg = d[s].msg
      /\ b.mem = d[s].mem /\ b.ring = d[s].ring
  BY BeginCloseOK
<1> HIDE DEF b
<1>4. SessionOK(v)  BY <1>3 DEF SessionOK, SessionFields, Busy
<1>5. v.closed = TRUE /\ v.pump = d[s].pump /\ v.msg = d[s].msg /\ v.mem = d[s].mem /\ v.ring = d[s].ring
  BY <1>3 DEF SessionOK, SessionFields
<1> HIDE DEF v
<1>6. Mapped(g[s].setups, v)  BY <1>1, <1>5 DEF Mapped, Busy
<1>7. Settled(d[s]) => Settled(v)  BY <1>5 DEF Settled, Gone
<1>8. Untouched(g[s], d[s]) => Untouched(g[s], v)  BY <1>5 DEF Untouched, Gone
<1>9. QED  BY <1>2, <1>4, <1>5, <1>6, <1>7, <1>8, ServerStep

LEMMA TeardownInv == ASSUME VhostInv, ~fault, lim' = lim, NEW s \in Sessions, Teardown(s) PROVE VhostInv'
<1> DEFINE u == [NewGuest EXCEPT !.up = g[s].up, !.setups = g[s].setups, !.posts = g[s].posts,
                                 !.odd = g[s].odd]
           v == [newSession EXCEPT !.closed = TRUE, !.torn = TRUE, !.msg = d[s].msg, !.run = d[s].run,
                                   !.closer = d[s].closer, !.pump = "done"]
<1>1. /\ GuestOK(g[s]) /\ SessionOK(d[s]) /\ Mapped(g[s].setups, d[s])  BY DEF VhostInv
<1>2. g' = [g EXCEPT ![s] = u] /\ d' = [d EXCEPT ![s] = v] /\ server' = server /\ fault' = fault
  BY DEF Teardown
<1>3. u.up = g[s].up /\ u.setups = g[s].setups /\ u = [x \in GuestFields |-> u[x]]
      /\ u.availIdx = NewGuest.availIdx /\ u.avail = NewGuest.avail /\ u.inflight = NewGuest.inflight
  BY NewGuestOK DEF GuestOK, GuestFields
<1>4. v.closed = TRUE /\ v.pump = "done" /\ v.msg = d[s].msg /\ v.mem = 0 /\ v.ring = 0
  BY NewSessionOK DEF SessionOK, SessionFields
<1>5. SessionOK(v)  BY NewSessionOK DEF SessionOK, SessionFields, Busy
<1> HIDE DEF u, v
<1>6. GuestOK(u)
  <2>1. NewGuest.availIdx \in Nat /\ NewGuest.avail \in [Slots -> Slots] /\ NewGuest.inflight \subseteq Slots
    BY NewGuestOK DEF GuestOK
  <2>2. g[s].setups \in Nat  BY <1>1 DEF GuestOK
  <2>3. QED  BY <1>3, <2>1, <2>2 DEF GuestOK
<1>7. Mapped(u.setups, v)  BY <1>4 DEF Mapped, Busy
<1>8. Moves(g[s], d[s], u, v)
  BY <1>3, <1>4, <1>5, <1>6, <1>7 DEF Moves, Settled, Untouched, Gone
<1>9. QED  BY <1>2, <1>8, BothStep

LEMMA PumpTopInv == ASSUME VhostInv, ~fault, lim' = lim, NEW s \in Sessions, PumpTop(s) PROVE VhostInv'
<1> DEFINE v == IF d[s].closed \/ d[s].kick = 0 THEN [d[s] EXCEPT !.pump = "done"]
                ELSE [d[s] EXCEPT !.pump = "wait", !.pumpKick = d[s].kick]
<1>1. SessionOK(d[s]) /\ Mapped(g[s].setups, d[s]) /\ d = [x \in Sessions |-> d[x]]  BY DEF VhostInv
<1>2. d' = [d EXCEPT ![s] = v] /\ server' = server /\ g' = g /\ fault' = fault /\ d[s].pump = "top"
  BY <1>1 DEF PumpTop
<1>3. v.closed = d[s].closed /\ v.pump \in {"done", "wait"} /\ v.msg = d[s].msg /\ v.mem = d[s].mem
      /\ v.ring = d[s].ring
  BY <1>1 DEF SessionOK, SessionFields
<1>4. SessionOK(v)  BY <1>1 DEF SessionOK, SessionFields, Busy
<1> HIDE DEF v
<1>5. Mapped(g[s].setups, v)  BY <1>1, <1>3 DEF Mapped, Busy
<1>6. ~Gone(d[s])  BY <1>2 DEF Gone
<1>7. QED  BY <1>2, <1>3, <1>4, <1>5, <1>6, ServerStep DEF Settled, Untouched

LEMMA PumpWakeInv == ASSUME VhostInv, ~fault, lim' = lim, NEW s \in Sessions, PumpWake(s) PROVE VhostInv'
<1> DEFINE v == [d[s] EXCEPT !.pump = "drain", !.pending = d[s].pending \ {d[s].pumpKick}]
<1>1. SessionOK(d[s]) /\ Mapped(g[s].setups, d[s]) /\ d = [x \in Sessions |-> d[x]]  BY DEF VhostInv
<1>2. d' = [d EXCEPT ![s] = v] /\ server' = server /\ g' = g /\ fault' = fault /\ d[s].pump = "wait"
  BY <1>1 DEF PumpWake, SessionOK, SessionFields
<1>3. v.closed = d[s].closed /\ v.pump = "drain" /\ v.msg = d[s].msg /\ v.mem = d[s].mem /\ v.ring = d[s].ring
  BY <1>1 DEF SessionOK, SessionFields
<1>4. SessionOK(v)  BY <1>1 DEF SessionOK, SessionFields, Busy
<1> HIDE DEF v
<1>5. Mapped(g[s].setups, v)  BY <1>1, <1>3 DEF Mapped, Busy
<1>6. ~Gone(d[s])  BY <1>2 DEF Gone
<1>7. QED  BY <1>2, <1>3, <1>4, <1>5, <1>6, ServerStep DEF Settled, Untouched

LEMMA PumpWaitFailsInv == ASSUME VhostInv, ~fault, lim' = lim, NEW s \in Sessions, PumpWaitFails(s) PROVE VhostInv'
<1> DEFINE v == [d[s] EXCEPT !.pump = "done"]
<1>1. SessionOK(d[s]) /\ Mapped(g[s].setups, d[s]) /\ d = [x \in Sessions |-> d[x]]  BY DEF VhostInv
<1>2. d' = [d EXCEPT ![s] = v] /\ server' = server /\ g' = g /\ fault' = fault /\ d[s].pump = "wait"
  BY <1>1 DEF PumpWaitFails
<1>3. v.closed = d[s].closed /\ v.pump = "done" /\ v.msg = d[s].msg /\ v.mem = d[s].mem /\ v.ring = d[s].ring
  BY <1>1 DEF SessionOK, SessionFields
<1>4. SessionOK(v)  BY <1>1 DEF SessionOK, SessionFields, Busy
<1> HIDE DEF v
<1>5. Mapped(g[s].setups, v)  BY <1>1, <1>3 DEF Mapped, Busy
<1>6. ~Gone(d[s])  BY <1>2 DEF Gone
<1>7. QED  BY <1>2, <1>3, <1>4, <1>5, <1>6, ServerStep DEF Settled, Untouched

LEMMA runBatchInv == ASSUME VhostInv, ~fault, lim' = lim, NEW s \in Sessions, runBatch(s) PROVE VhostInv'
<1> DEFINE v == [d[s] EXCEPT !.pump = "publish"]
<1>1. SessionOK(d[s]) /\ Mapped(g[s].setups, d[s]) /\ d = [x \in Sessions |-> d[x]]  BY DEF VhostInv
<1>2. d' = [d EXCEPT ![s] = v] /\ server' = server /\ g' = g /\ fault' = (d[s].sg # d[s].mem) /\ d[s].pump = "io"
  BY <1>1 DEF runBatch
<1>3. Busy(d[s]) /\ d[s].sg = d[s].mem /\ ~fault'  BY <1>1, <1>2 DEF Busy, SessionOK
<1>4. v.closed = d[s].closed /\ v.pump = "publish" /\ v.msg = d[s].msg /\ v.mem = d[s].mem
      /\ v.ring = d[s].ring /\ v.sg = d[s].sg
  BY <1>1 DEF SessionOK, SessionFields
<1>5. SessionOK(v)  BY <1>1, <1>3 DEF SessionOK, SessionFields
<1> HIDE DEF v
<1>6. Mapped(g[s].setups, v)  BY <1>1, <1>3, <1>4 DEF Mapped
<1>7. ~Gone(d[s])  BY <1>2 DEF Gone
<1>8. QED  BY <1>2, <1>3, <1>4, <1>5, <1>6, <1>7, ServerStep DEF Settled, Untouched

\* A closed session starts no pump.
LEMMA StartPumpOK ==
  ASSUME NEW v, SessionOK(v)
  PROVE  LET w == maybeStartPump(v)
         IN  /\ SessionOK(w) /\ w.closed = v.closed /\ w.msg = v.msg /\ w.mem = v.mem /\ w.ring = v.ring
             /\ w.pump = v.pump \/ (~v.closed /\ w.pump = "top")
<1> DEFINE w == maybeStartPump(v)
<1>1. CASE w = v  BY <1>1
<1>2. CASE w = [v EXCEPT !.pump = "top"] /\ ~v.closed
  <2>1. SessionOK(w)  BY <1>2 DEF SessionOK, SessionFields, Busy
  <2>2. QED  BY <1>2, <2>1 DEF SessionOK, SessionFields
<1>3. QED  BY <1>1, <1>2 DEF maybeStartPump

\* What a message handler may do to a session.
LEMMA HandlerStep ==
  ASSUME VhostInv, ~fault, lim' = lim, server' = server, g' = g, fault' = fault, NEW s \in Sessions, d[s].msg # "none",
         NEW v, d' = [d EXCEPT ![s] = v], SessionOK(v), Mapped(g[s].setups, v),
         d[s].closed => v.closed, v.pump = d[s].pump \/ (~d[s].closed /\ v.pump = "top")
  PROVE  VhostInv'
<1>1. Settled(d[s]) => Settled(v)  BY DEF Settled, Gone
<1>2. ~Untouched(g[s], d[s])  BY DEF Untouched
<1>3. QED  BY <1>1, <1>2, ServerStep

LEMMA handleInv == ASSUME VhostInv, ~fault, lim' = lim, NEW s \in Sessions, handle(s) PROVE VhostInv'
<1>1. /\ GuestOK(g[s]) /\ SessionOK(d[s]) /\ Mapped(g[s].setups, d[s]) /\ d = [x \in Sessions |-> d[x]]
  BY DEF VhostInv
<1>2. d[s].msg # "none" /\ server' = server /\ g' = g /\ fault' = fault  BY DEF handle
<1>3. CASE d[s].msg = "mem"
  <2>1. ~Busy(d[s]) /\ (setMemTable(s) \/ setMemTableFails(s))
    BY <1>3 DEF handle, waitPumpIdleLocked, PumpBusy, Busy
  <2>2. CASE setMemTable(s)
    <3> DEFINE v == [d[s] EXCEPT !.mem = g[s].setups, !.msg = "none"]
    <3>1. d' = [d EXCEPT ![s] = v]  BY <1>1, <2>2 DEF setMemTable
    <3>2. v.closed = d[s].closed /\ v.pump = d[s].pump /\ v.msg = "none" /\ v.mem = g[s].setups
          /\ v.ring = d[s].ring
      BY <1>1 DEF SessionOK, SessionFields
    <3>3. SessionOK(v)  BY <1>1, <2>1 DEF SessionOK, SessionFields, Busy, GuestOK
    <3> HIDE DEF v
    <3>4. Mapped(g[s].setups, v)  BY <1>1, <1>3, <2>1, <3>2 DEF Mapped, Busy
    <3>5. QED  BY <1>2, <3>1, <3>2, <3>3, <3>4, HandlerStep
  <2>3. CASE setMemTableFails(s)
    <3> DEFINE b == BeginClose(s, "run")
               v == [b EXCEPT !.mem = 0, !.msg = "none", !.run = "ended"]
    <3>1. d' = [d EXCEPT ![s] = v]  BY <2>3 DEF setMemTableFails
    <3>2. SessionOK(b) /\ b.closed = TRUE /\ b.pump = d[s].pump /\ b.ring = d[s].ring  BY BeginCloseOK
    <3> HIDE DEF b
    <3>3. v.closed = TRUE /\ v.pump = d[s].pump /\ v.msg = "none" /\ v.mem = 0 /\ v.ring = d[s].ring
      BY <3>2 DEF SessionOK, SessionFields
    <3>4. ~Busy(v)  BY <2>1, <3>3 DEF Busy
    <3>5. SessionOK(v)  BY <3>2, <3>4 DEF SessionOK, SessionFields
    <3> HIDE DEF v
    <3>6. Mapped(g[s].setups, v)  BY <1>1, <1>3, <3>3, <3>4 DEF Mapped
    <3>7. QED  BY <1>2, <3>1, <3>3, <3>5, <3>6, HandlerStep
  <2>4. QED  BY <2>1, <2>2, <2>3
<1>4. CASE d[s].msg = "addr"
  <2> DEFINE v == [d[s] EXCEPT !.ring = d[s].mem, !.msg = "none"]
  <2>1. d' = [d EXCEPT ![s] = v]  BY <1>1, <1>4 DEF handle, setup
  <2>2. v.closed = d[s].closed /\ v.pump = d[s].pump /\ v.msg = "none" /\ v.mem = d[s].mem /\ v.ring = d[s].mem
    BY <1>1 DEF SessionOK, SessionFields
  <2>3. SessionOK(v)  BY <1>1 DEF SessionOK, SessionFields, Busy
  <2> HIDE DEF v
  <2>4. Mapped(g[s].setups, v)  BY <1>1, <2>2 DEF Mapped, Busy
  <2>5. QED  BY <1>2, <2>1, <2>2, <2>3, <2>4, HandlerStep
<1>5. CASE d[s].msg = "kick"
  <2> DEFINE a == [d[s] EXCEPT !.kick = g[s].setups, !.msg = "none"]
             v == maybeStartPump(a)
  <2>1. d' = [d EXCEPT ![s] = v]  BY <1>5 DEF handle, setVringFile
  <2>2. SessionOK(a)  BY <1>1 DEF SessionOK, SessionFields, Busy, GuestOK
  <2>3. a.closed = d[s].closed /\ a.pump = d[s].pump /\ a.msg = "none" /\ a.mem = d[s].mem /\ a.ring = d[s].ring
    BY <1>1 DEF SessionOK, SessionFields
  <2> HIDE DEF a
  <2>4. /\ SessionOK(v) /\ v.closed = a.closed /\ v.msg = a.msg /\ v.mem = a.mem /\ v.ring = a.ring
        /\ v.pump = a.pump \/ (~a.closed /\ v.pump = "top")
    BY <2>2, StartPumpOK
  <2> HIDE DEF v
  <2>5. Mapped(g[s].setups, v)  BY <1>1, <2>3, <2>4 DEF Mapped, Busy
  <2>6. QED  BY <1>2, <2>1, <2>3, <2>4, <2>5, HandlerStep
<1>6. CASE d[s].msg = "enable"
  <2> DEFINE a == [d[s] EXCEPT !.enabled = TRUE, !.msg = "none"]
             v == maybeStartPump(a)
  <2>1. d' = [d EXCEPT ![s] = v]  BY <1>6 DEF handle
  <2>2. SessionOK(a)  BY <1>1 DEF SessionOK, SessionFields, Busy
  <2>3. a.closed = d[s].closed /\ a.pump = d[s].pump /\ a.msg = "none" /\ a.mem = d[s].mem /\ a.ring = d[s].ring
    BY <1>1 DEF SessionOK, SessionFields
  <2> HIDE DEF a
  <2>4. /\ SessionOK(v) /\ v.closed = a.closed /\ v.msg = a.msg /\ v.mem = a.mem /\ v.ring = a.ring
        /\ v.pump = a.pump \/ (~a.closed /\ v.pump = "top")
    BY <2>2, StartPumpOK
  <2> HIDE DEF v
  <2>5. Mapped(g[s].setups, v)  BY <1>1, <2>3, <2>4 DEF Mapped, Busy
  <2>6. QED  BY <1>2, <2>1, <2>3, <2>4, <2>5, HandlerStep
<1>7. CASE d[s].msg \notin {"mem", "addr", "kick", "enable"}
  <2>1. PICK v : /\ d' = [d EXCEPT ![s] = v]
                 /\ v \in {[d[s] EXCEPT !.lastAvail = 0, !.msg = "none"],
                           [d[s] EXCEPT !.enabled = FALSE, !.msg = "none"], [d[s] EXCEPT !.msg = "none"]}
    BY <1>1, <1>2, <1>7 DEF handle
  <2>2. v.closed = d[s].closed /\ v.pump = d[s].pump /\ v.msg = "none" /\ v.mem = d[s].mem /\ v.ring = d[s].ring
    BY <1>1, <2>1 DEF SessionOK, SessionFields
  <2>3. SessionOK(v)
    <3>1. CASE v = [d[s] EXCEPT !.lastAvail = 0, !.msg = "none"]
      <4>1. 0 \in 0 .. IdxMod - 1  BY VhostAssumption
      <4>2. QED  BY <1>1, <3>1, <4>1 DEF SessionOK, SessionFields, Busy
    <3>2. CASE v = [d[s] EXCEPT !.enabled = FALSE, !.msg = "none"]
      BY <1>1, <3>2 DEF SessionOK, SessionFields, Busy
    <3>3. CASE v = [d[s] EXCEPT !.msg = "none"]
      BY <1>1, <3>3 DEF SessionOK, SessionFields, Busy
    <3>4. QED  BY <2>1, <3>1, <3>2, <3>3
  <2>4. Mapped(g[s].setups, v)  BY <1>1, <2>2 DEF Mapped, Busy
  <2>5. QED  BY <1>2, <2>1, <2>2, <2>3, <2>4, HandlerStep
<1>8. QED  BY <1>3, <1>4, <1>5, <1>6, <1>7

\* What a pop phase takes fits in a batch.
LEMMA Room == ASSUME NEW n \in Nat PROVE LET k == Min({n, pumpMaxBatch}) IN k \in Nat /\ k <= n /\ k <= pumpMaxBatch
<1>1. pumpMaxBatch \in Nat  BY VhostAssumption
<1>2. CASE n <= pumpMaxBatch
  <2>1. \E x \in {n, pumpMaxBatch} : \A y \in {n, pumpMaxBatch} : x <= y  BY <1>1, <1>2
  <2>2. QED  BY <1>1, <2>1 DEF Min
<1>3. CASE pumpMaxBatch <= n
  <2>1. \E x \in {n, pumpMaxBatch} : \A y \in {n, pumpMaxBatch} : x <= y  BY <1>1, <1>3
  <2>2. QED  BY <1>1, <2>1 DEF Min
<1>4. QED  BY <1>1, <1>2, <1>3

LEMMA Index == ASSUME NEW n \in Nat PROVE n % IdxMod \in 0 .. IdxMod - 1 /\ n % Num \in Slots
BY VhostAssumption DEF Slots

LEMMA Bounded == ASSUME NEW q \in Seq(Slots), Len(q) <= pumpMaxBatch PROVE q \in BoundedSeq(Slots, pumpMaxBatch)
<1>1. Len(q) \in Nat /\ q \in [1 .. Len(q) -> Slots]  OBVIOUS
<1>2. Len(q) \in 0 .. pumpMaxBatch  BY <1>1, VhostAssumption
<1>3. QED  BY <1>1, <1>2 DEF BoundedSeq, SeqOf

LEMMA LeastSlot == ASSUME NEW S \in SUBSET Nat, S # {} PROVE \E x \in S : \A y \in S : x <= y
<1>1. PICK R : R = {e \in Nat \X Nat : e[1] < e[2]}  OBVIOUS
<1>2. IsWellFoundedOn(R, Nat)  BY <1>1, NatLessThanWellFounded, Zenon DEF OpToRel
<1>3. PICK x \in S : \A y \in S : <<y, x>> \notin R  BY <1>2, WFMin
<1>4. \A y \in S : ~(y < x)  BY <1>1, <1>3
<1>5. \A y \in S : x <= y  BY <1>4
<1>6. QED  BY <1>5

\* A pop phase yields slots, no more than a batch, and a count.
LEMMA PoppedOK ==
  ASSUME NEW s \in Sessions, GuestOK(g[s]), SessionOK(d[s])
  PROVE  Popped(s).batch \in BoundedSeq(Slots, pumpMaxBatch) /\ Popped(s).count \in Nat
<1> DEFINE a == Available(s)
           bad == {i \in DOMAIN a : g[s].desc[a[i]].kind = "bad"}
           k == Min({Waiting(s), pumpMaxBatch})
<1>1. d[s].lastAvail \in Nat /\ d[s].lastAvail < IdxMod /\ g[s].availIdx \in Nat /\ IdxMod \in Nat
  BY VhostAssumption DEF SessionOK, GuestOK
<1>2. Waiting(s) \in Nat
  <2>1. g[s].availIdx + IdxMod - d[s].lastAvail \in Nat  BY <1>1
  <2>2. (g[s].availIdx + IdxMod - d[s].lastAvail) % IdxMod \in Nat  BY <2>1, Index
  <2>3. QED  BY <2>2 DEF Waiting
<1>3. k \in Nat /\ k <= pumpMaxBatch  BY <1>2, Room
<1>4. a \in Seq(Slots) /\ Len(a) = k /\ DOMAIN a = 1 .. k
  <2>1. a = [i \in 1 .. k |-> g[s].avail[(d[s].lastAvail + i - 1) % Num]]  BY DEF Available
  <2>2. \A i \in 1 .. k : g[s].avail[(d[s].lastAvail + i - 1) % Num] \in Slots
    <3>1. \A i \in 1 .. k : d[s].lastAvail + i - 1 \in Nat  BY <1>1, <1>3
    <3>2. QED  BY <3>1, Index DEF GuestOK
  <2> HIDE DEF a, k
  <2>3. QED  BY <1>3, <2>1, <2>2
<1>5. CASE bad = {}
  <2>1. Popped(s) = [batch |-> a, count |-> Len(a)]  BY <1>5 DEF Popped
  <2> HIDE DEF a, k
  <2>2. QED  BY <1>3, <1>4, <2>1, Bounded
<1>6. CASE bad # {}
  <2> DEFINE i == CHOOSE i \in bad : \A j \in bad : i <= j
  <2>1. Popped(s) = [batch |-> SubSeq(a, 1, i - 1), count |-> i]  BY <1>6 DEF Popped
  <2>2. i \in bad
    <3>1. bad \subseteq 1 .. k  BY <1>4
    <3> HIDE DEF bad
    <3>2. \E x \in bad : \A j \in bad : x <= j
      BY <1>3, <1>6, <3>1, LeastSlot
    <3>3. QED  BY <3>2
  <2>3. i \in 1 .. k  BY <1>4, <2>2
  <2> HIDE DEF i, a, k
  <2>4. SubSeq(a, 1, i - 1) \in Seq(Slots) /\ Len(SubSeq(a, 1, i - 1)) <= k
    BY <1>3, <1>4, <2>3, SubSeqProperties
  <2>5. Len(SubSeq(a, 1, i - 1)) \in Nat  BY <2>4
  <2>6. SubSeq(a, 1, i - 1) \in BoundedSeq(Slots, pumpMaxBatch)
    <3>1. Len(SubSeq(a, 1, i - 1)) <= pumpMaxBatch  BY <1>3, <2>4, <2>5, VhostAssumption
    <3>2. QED  BY <2>4, <3>1, Bounded
  <2>7. QED  BY <1>3, <2>1, <2>3, <2>6
<1>7. QED  BY <1>5, <1>6

LEMMA popBatchInv == ASSUME VhostInv, ~fault, lim' = lim, NEW s \in Sessions, popBatch(s) PROVE VhostInv'
<1>1. /\ GuestOK(g[s]) /\ SessionOK(d[s]) /\ Mapped(g[s].setups, d[s]) /\ d = [x \in Sessions |-> d[x]]
  BY DEF VhostInv
<1>2. server' = server /\ g' = g /\ d[s].pump = "drain" /\ ~Gone(d[s])  BY DEF popBatch, Gone
<1>3. CASE d[s].closed \/ d[s].ring = 0
  <2> DEFINE v == [d[s] EXCEPT !.pump = "top"]
  <2>1. d' = [d EXCEPT ![s] = v] /\ fault' = fault  BY <1>1, <1>3 DEF popBatch
  <2>2. v.closed = d[s].closed /\ v.pump = "top" /\ v.msg = d[s].msg /\ v.mem = d[s].mem /\ v.ring = d[s].ring
    BY <1>1 DEF SessionOK, SessionFields
  <2>3. SessionOK(v)  BY <1>1 DEF SessionOK, SessionFields, Busy
  <2> HIDE DEF v
  <2>4. Mapped(g[s].setups, v)  BY <1>1, <2>2 DEF Mapped, Busy
  <2>5. QED  BY <1>2, <2>1, <2>2, <2>3, <2>4, ServerStep DEF Settled, Untouched
<1>4. CASE ~(d[s].closed \/ d[s].ring = 0)
  <2> DEFINE p == Popped(s)
             next == IF p.batch = <<>> THEN "top" ELSE "io"
             last == Advanced(d[s], p.count)
             v == [d[s] EXCEPT !.batch = p.batch, !.sg = d[s].mem, !.lastAvail = last, !.pump = next]
  <2>1. d' = [d EXCEPT ![s] = v] /\ fault' = (d[s].ring # d[s].mem)  BY <1>1, <1>4 DEF popBatch
  <2>2. p.batch \in BoundedSeq(Slots, pumpMaxBatch) /\ p.count \in Nat  BY <1>1, PoppedOK
  <2>3. last \in 0 .. IdxMod - 1
    <3>1. d[s].lastAvail + p.count \in Nat  BY <1>1, <2>2, VhostAssumption DEF SessionOK
    <3>2. QED  BY <3>1, Index DEF Advanced
  <2>4. next \in {"top", "io"}  OBVIOUS
  <2> HIDE DEF p, next, last
  <2>5. v.closed = d[s].closed /\ v.pump = next /\ v.msg = d[s].msg /\ v.mem = d[s].mem /\ v.ring = d[s].ring
    BY <1>1 DEF SessionOK, SessionFields
  <2>6. SessionOK(v)  BY <1>1, <2>2, <2>3, <2>4 DEF SessionOK, SessionFields
  <2> HIDE DEF v
  <2>7. Mapped(g[s].setups, v)  BY <1>1, <1>4, <2>5 DEF Mapped
  <2>8. fault' => g[s].setups > 1
    <3>1. g[s].setups \in Nat  BY <1>1 DEF GuestOK
    <3>2. d[s].ring # d[s].mem => ~(g[s].setups <= 1)  BY <1>1, <1>4 DEF Mapped
    <3>3. fault' => d[s].ring # d[s].mem  BY <2>1, Zenon
    <3>4. QED  BY <3>1, <3>2, <3>3
  <2>9. QED  BY <1>2, <2>1, <2>5, <2>6, <2>7, <2>8, ServerStep DEF Settled, Untouched
<1>5. QED  BY <1>3, <1>4

\* A batch has finitely many answers.
LEMMA ResultsOK == ASSUME NEW s \in Sessions, SessionOK(d[s]) PROVE Len(Results(s)) \in Nat
<1>1. PICK n \in Nat : d[s].batch \in [1 .. n -> Slots]
  BY VhostAssumption DEF SessionOK, BoundedSeq, SeqOf
<1>2. Answered(s) \subseteq 1 .. n  BY <1>1 DEF Answered
<1>3. IsFiniteSet(1 .. n)  BY FS_Interval
<1>4. Cardinality(Answered(s)) \in Nat  BY <1>2, <1>3, FS_Subset, FS_CardinalityType
<1>5. DOMAIN Results(s) = 1 .. Cardinality(Answered(s))  BY DEF Results
<1>6. \A q, k : k \in Nat /\ DOMAIN q = 1 .. k => Len(q) = k  OBVIOUS
<1>7. QED  BY <1>4, <1>5, <1>6

LEMMA publishInv == ASSUME VhostInv, ~fault, lim' = lim, NEW s \in Sessions, publish(s) PROVE VhostInv'
<1>1. /\ GuestOK(g[s]) /\ SessionOK(d[s]) /\ Mapped(g[s].setups, d[s])
      /\ d = [x \in Sessions |-> d[x]] /\ g = [x \in Sessions |-> g[x]]
  BY DEF VhostInv
<1>2. server' = server /\ d[s].pump = "publish" /\ ~Gone(d[s]) /\ Busy(d[s])  BY DEF publish, Gone, Busy
<1>3. <<>> \in BoundedSeq(Slots, pumpMaxBatch)  BY VhostAssumption DEF BoundedSeq, SeqOf
<1>4. CASE d[s].closed
  <2> DEFINE v == [d[s] EXCEPT !.pump = "done", !.batch = <<>>]
  <2>1. d' = [d EXCEPT ![s] = v] /\ fault' = fault /\ g' = g  BY <1>1, <1>4 DEF publish
  <2>2. v.closed = d[s].closed /\ v.pump = "done" /\ v.msg = d[s].msg /\ v.mem = d[s].mem /\ v.ring = d[s].ring
    BY <1>1 DEF SessionOK, SessionFields
  <2>3. SessionOK(v)  BY <1>1, <1>3 DEF SessionOK, SessionFields, Busy
  <2> HIDE DEF v
  <2>4. Mapped(g[s].setups, v)  BY <1>1, <2>2 DEF Mapped, Busy
  <2>5. QED  BY <1>2, <2>1, <2>2, <2>3, <2>4, ServerStep DEF Settled, Untouched
<1>5. CASE ~d[s].closed
  <2> DEFINE r == Results(s)
             next == NextPump(s)
             idx == (d[s].usedIdx + Len(r)) % IdxMod
             v == [d[s] EXCEPT !.usedIdx = idx, !.batch = <<>>, !.pump = next]
             u == IF Current(s) THEN push(s, r)[s] ELSE g[s]
  <2>1. d' = [d EXCEPT ![s] = v] /\ fault' = (d[s].ring # d[s].mem)  BY <1>1, <1>5 DEF publish
  <2>2. g' = [g EXCEPT ![s] = u]  BY <1>1, <1>5 DEF publish, push
  <2>3. GuestOK(u) /\ u.setups = g[s].setups /\ u.up = g[s].up
    <3>1. CASE ~Current(s)  BY <1>1, <3>1
    <3>2. CASE Current(s)
      <4>1. PICK a, b : u = [g[s] EXCEPT !.used = a, !.usedIdx = b]
        BY <1>1, <3>2 DEF push, GuestOK, GuestFields
      <4>2. QED  BY <1>1, <4>1 DEF GuestOK, GuestFields
    <3>3. QED  BY <3>1, <3>2
  <2>4. idx \in 0 .. IdxMod - 1
    <3>1. d[s].usedIdx + Len(r) \in Nat  BY <1>1, ResultsOK, VhostAssumption DEF SessionOK
    <3>2. QED  BY <3>1, Index
  <2>5. next \in {"top", "drain"}  BY DEF NextPump
  <2> HIDE DEF r, next, idx, u
  <2>6. v.closed = d[s].closed /\ v.pump = next /\ v.msg = d[s].msg /\ v.mem = d[s].mem /\ v.ring = d[s].ring
    BY <1>1 DEF SessionOK, SessionFields
  <2>7. SessionOK(v)  BY <1>1, <1>3, <2>4, <2>5 DEF SessionOK, SessionFields, Busy
  <2> HIDE DEF v
  <2>8. Mapped(u.setups, v)  BY <1>1, <2>3, <2>5, <2>6 DEF Mapped, Busy
  <2>9. fault' => u.setups > 1
    <3>1. g[s].setups \in Nat  BY <1>1 DEF GuestOK
    <3>2. d[s].ring # d[s].mem => ~(g[s].setups <= 1)  BY <1>1, <1>2, <1>5 DEF Mapped
    <3>3. fault' => d[s].ring # d[s].mem  BY <2>1, Zenon
    <3>4. QED  BY <2>3, <3>1, <3>2, <3>3
  <2>10. Moves(g[s], d[s], u, v)
    BY <1>2, <2>3, <2>6, <2>7, <2>8 DEF Moves, Settled, Untouched
  <2>11. QED  BY <1>2, <2>1, <2>2, <2>9, <2>10, BothStep
<1>6. QED  BY <1>4, <1>5

LEMMA CurNat == ASSUME VhostInv
  PROVE /\ lim.sessions \in Nat /\ server.cur \in Nat /\ 1 .. lim.sessions \subseteq Sessions
        /\ server.cur <= lim.sessions
BY VhostAssumption DEF VhostInv, ServerOK, Sessions

\* The listener closes the session it serves, for a new frontend or for good.
LEMMA ListenerStep ==
  ASSUME VhostInv, fault' = fault, ~fault, lim' = lim, g' = g, server.cur # 0,
         d' = [d EXCEPT ![server.cur] = BeginClose(server.cur, "server")], server.state = "serving",
         server.accept = "accept",
         \/ server' = [server EXCEPT !.accept = "closing"] /\ server.cur < lim.sessions
         \/ server' = [server EXCEPT !.state = "closing"]
  PROVE  VhostInv'
<1> DEFINE s == server.cur
           v == BeginClose(s, "server")
<1>1. s \in Sessions /\ s \in Nat /\ lim.sessions \in Nat  BY CurNat
<1>2. d = [x \in Sessions |-> d[x]] /\ g = [x \in Sessions |-> g[x]] /\ Mapped(g[s].setups, d[s])
      /\ \A x \in Sessions : GuestOK(g[x]) /\ SessionOK(d[x]) /\ Mapped(g[x].setups, d[x])
  BY <1>1 DEF VhostInv
<1>3. SessionOK(v) /\ v.closed = TRUE /\ v.pump = d[s].pump /\ v.msg = d[s].msg /\ v.mem = d[s].mem
      /\ v.ring = d[s].ring
  BY <1>1, BeginCloseOK
<1> HIDE DEF v
<1>4. d' = [x \in Sessions |-> d'[x]] /\ d'[s] = v /\ \A x \in Sessions : x # s => d'[x] = d[x]
  BY <1>1, <1>2, OneSession DEF v
<1>5. Mapped(g[s].setups, v)  BY <1>2, <1>3 DEF Mapped, Busy
<1>6. \A x \in Sessions : GuestOK(g'[x]) /\ SessionOK(d'[x]) /\ Mapped(g'[x].setups, d'[x])
  BY <1>2, <1>3, <1>4, <1>5
<1>7. RingMapped'  BY DEF RingMapped
<1>8. \A x \in Sessions : (x < s => Settled(d'[x])) /\ (x > s => Untouched(g'[x], d'[x]))
  BY <1>1, <1>4, SessionsNat DEF VhostInv, ServerOK
<1>9. /\ server' = [state |-> server'.state, accept |-> server'.accept, cur |-> server'.cur]
      /\ server'.cur = s
      /\ \/ server'.state = "serving" /\ server'.accept = "closing" /\ s < lim.sessions
         \/ server'.state = "closing" /\ server'.accept = "accept"
  BY DEF VhostInv, ServerOK
<1>10. ServerOK'
  <2>1. lim' \in Limits /\ s \in 0 .. lim.sessions /\ s # 0 BY DEF VhostInv, ServerOK
  <2>2. d'[s].closed  BY <1>3, <1>4
  <2>3. QED  BY <1>1, <1>8, <1>9, <2>1, <2>2 DEF ServerOK
<1>11. QED  BY <1>2, <1>4, <1>6, <1>7, <1>10 DEF VhostInv

\* The listener serves the next frontend.
LEMMA ServingStep ==
  ASSUME VhostInv, fault' = fault, ~fault, lim' = lim, d' = d, server.cur < lim.sessions,
         server.state = "serving", server.cur # 0 => Settled(d[server.cur]),
         server' = Serving(server.cur + 1), g' = [g EXCEPT ![server.cur + 1].up = TRUE]
  PROVE  VhostInv'
<1> DEFINE s == server.cur + 1
           u == [g[s] EXCEPT !.up = TRUE]
<1>1. s \in Sessions /\ s \in Nat /\ lim.sessions \in Nat /\ server.cur \in Nat  BY CurNat
<1>2. d = [x \in Sessions |-> d[x]] /\ g = [x \in Sessions |-> g[x]]
      /\ \A x \in Sessions : GuestOK(g[x]) /\ SessionOK(d[x]) /\ Mapped(g[x].setups, d[x])
  BY DEF VhostInv
<1>3. g' = [g EXCEPT ![s] = u]  BY <1>1, <1>2
<1>4. GuestOK(u) /\ u.setups = g[s].setups  BY <1>1, <1>2 DEF GuestOK, GuestFields
<1> HIDE DEF u
<1>5. g' = [x \in Sessions |-> g'[x]] /\ g'[s] = u /\ \A x \in Sessions : x # s => g'[x] = g[x]
  BY <1>1, <1>2, <1>3, OneSession
<1>6. \A x \in Sessions : GuestOK(g'[x]) /\ SessionOK(d'[x]) /\ Mapped(g'[x].setups, d'[x])
  BY <1>1, <1>2, <1>4, <1>5
<1>7. RingMapped'  BY DEF RingMapped
<1>8. \A x \in Sessions : (x < s => Settled(d'[x])) /\ (x > s => Untouched(g'[x], d'[x]))
  BY <1>1, <1>5, SessionsNat DEF VhostInv, ServerOK
<1>9. /\ server' = [state |-> server'.state, accept |-> server'.accept, cur |-> server'.cur]
      /\ server'.cur = s /\ server'.state = "serving" /\ server'.accept = "accept"
  BY DEF VhostInv, ServerOK, Serving
<1>10. ServerOK'
  <2>1. lim' \in Limits /\ s \in 0 .. lim.sessions  BY <1>1 DEF VhostInv, ServerOK
  <2>2. QED  BY <1>1, <1>8, <1>9, <2>1 DEF ServerOK
<1>11. d' = [x \in Sessions |-> d'[x]]  BY <1>2
<1>12. QED  BY <1>5, <1>6, <1>7, <1>10, <1>11 DEF VhostInv

LEMMA AcceptInv == ASSUME VhostInv, ~fault, lim' = lim, Accept PROVE VhostInv'
<1>1. CASE server.cur = 0
  BY <1>1, ServingStep DEF Accept
<1>2. CASE server.cur # 0
  BY <1>2, ListenerStep DEF Accept
<1>3. QED  BY <1>1, <1>2

LEMMA ReplaceInv == ASSUME VhostInv, ~fault, lim' = lim, Replace PROVE VhostInv'
<1>1. server.state = "serving" /\ server.cur < lim.sessions
  BY CurNat DEF Replace, VhostInv, ServerOK
<1>2. Settled(d[server.cur])  BY DEF Replace, closeReturned, PumpGone, Settled, Gone
<1>3. QED  BY <1>1, <1>2, ServingStep DEF Replace

LEMMA ServerCloseInv == ASSUME VhostInv, ~fault, lim' = lim, Close PROVE VhostInv'
<1>1. CASE server.cur # 0  BY <1>1, ListenerStep DEF Close
<1>2. CASE server.cur = 0
  <2>1. d' = d /\ g' = g /\ fault' = fault  BY <1>2 DEF Close
  <2>2. /\ server' = [state |-> server'.state, accept |-> server'.accept, cur |-> server'.cur]
        /\ server'.cur = 0 /\ server'.state = "closing" /\ server'.accept = "accept"
    BY <1>2 DEF Close, VhostInv, ServerOK
  <2>3. ServerOK'  BY <1>2, <2>1, <2>2 DEF VhostInv, ServerOK, Settled, Untouched, Gone
  <2>4. RingMapped'  BY <2>1 DEF VhostInv, RingMapped
  <2>5. QED  BY <2>1, <2>3, <2>4 DEF VhostInv
<1>3. QED  BY <1>1, <1>2

LEMMA CloseDoneInv == ASSUME VhostInv, ~fault, lim' = lim, CloseDone PROVE VhostInv'
<1>1. d' = d /\ g' = g /\ fault' = fault  BY DEF CloseDone
<1>2. /\ server' = [state |-> server'.state, accept |-> server'.accept, cur |-> server'.cur]
      /\ server'.cur = server.cur /\ server'.state = "closed" /\ server'.accept = server.accept
  BY DEF CloseDone, VhostInv, ServerOK
<1>3. server.accept = "accept"  BY DEF CloseDone, VhostInv, ServerOK
<1>4. server.cur \in Sessions => Settled(d[server.cur])
  BY CurNat, SessionsNat DEF CloseDone, closeReturned, PumpGone, Settled, Gone
<1>5. ServerOK'  BY <1>1, <1>2, <1>3, <1>4 DEF VhostInv, ServerOK, Settled, Untouched, Gone
<1>6. RingMapped'  BY <1>1 DEF VhostInv, RingMapped
<1>7. QED  BY <1>1, <1>5, <1>6 DEF VhostInv

LEMMA VhostNextInv == ASSUME VhostInv, [VhostNext]_vhostVars PROVE VhostInv'
<1>1. CASE UNCHANGED vhostVars
  BY <1>1 DEF vhostVars, VhostInv, ServerOK, RingMapped
<1>2. ASSUME VhostNext PROVE VhostInv'
  <2>1. ~fault /\ lim' = lim  BY <1>2 DEF VhostNext
  <2>2. CASE Accept \/ Replace \/ Close \/ CloseDone
    BY <2>1, <2>2, AcceptInv, ReplaceInv, ServerCloseInv, CloseDoneInv
  <2>3. ASSUME NEW s \in Sessions, Guest(s) PROVE VhostInv'
    BY <2>1, <2>3, PostInv, KickInv, ReapInv, LeaveInv, SendInv DEF Guest
  <2>4. ASSUME NEW s \in Sessions, Pump(s) PROVE VhostInv'
    BY <2>1, <2>4, PumpTopInv, PumpWakeInv, popBatchInv, runBatchInv, publishInv DEF Pump
  <2>5. ASSUME NEW s \in Sessions, handle(s) \/ RunEnds(s) \/ Teardown(s) \/ PumpWaitFails(s) PROVE VhostInv'
    BY <2>1, <2>5, handleInv, RunEndsInv, TeardownInv, PumpWaitFailsInv
  <2>6. QED  BY <1>2, <2>2, <2>3, <2>4, <2>5 DEF VhostNext
<1>3. QED  BY <1>1, <1>2

LEMMA VhostInvSafe == ASSUME VhostInv PROVE MemorySafe
<1>1. OnePump
  <2> SUFFICES ASSUME NEW s \in Sessions, ~PumpGone(s) PROVE server.cur = s /\ server.state # "closed"
    BY DEF OnePump
  <2>1. ~Gone(d[s])  BY DEF PumpGone, Gone
  <2>2. ~(s < server.cur) /\ ~(s > server.cur) /\ ~(server.state = "closed" /\ s = server.cur)
    BY <2>1 DEF VhostInv, ServerOK, Settled, Untouched
  <2>3. QED  BY <2>2, CurNat, SessionsNat
<1>2. BatchMapped  BY DEF VhostInv, SessionOK, Busy, PumpBusy, BatchMapped
<1>3. VhostTypeOK  BY DEF VhostInv, ServerOK, SessionOK, GuestOK, VhostTypeOK
<1>4. QED  BY <1>1, <1>2, <1>3 DEF VhostInv, MemorySafe

\* Whatever frontends, guests and closes do in any number of sessions: one pump
\* at most is alive, none once the image is closed, a batch in its IO points into
\* mapped memory, and so do the rings of a queue that is set up once
\* (SET_MEM_TABLE, session.close, acceptLoop, Server.Close).
THEOREM MemoryKept == VhostSpec => []MemorySafe
<1>1. VhostInit => VhostInv  BY VhostInitInv
<1>2. VhostInv /\ [VhostNext]_vhostVars => VhostInv'  BY VhostNextInv
<1>3. VhostInv => MemorySafe  BY VhostInvSafe
<1>4. QED  BY <1>1, <1>2, <1>3, PTL DEF VhostSpec

---------------------------------------------------------------------------
(* Its answers. *)
\* How far an index is behind another, and what lies between them: the requests
\* not yet popped, and the answers the guest has not yet read.
Behind(a, b) == (a + IdxMod - b) % IdxMod
Queued(u, v) == Behind(u.availIdx, v.lastAvail)
QueuedAt(u, v, k) == u.avail[(v.lastAvail + k) % Num]
Left(u) == Behind(u.usedIdx, u.seen)
LeftAt(u, k) == u.used[(u.seen + k) % Num]

\* The requests in flight have their own descriptors and numbers.
RequestsOK(u) ==
    /\ u.availIdx \in 0 .. IdxMod - 1 /\ u.usedIdx \in 0 .. IdxMod - 1 /\ u.seen \in 0 .. IdxMod - 1
    /\ u.posts \in Nat /\ DOMAIN u.desc = Slots /\ DOMAIN u.used = Slots
    /\ \A h \in u.inflight : u.desc[h].id \in 1 .. u.posts
    /\ \A h, k \in u.inflight : u.desc[h].id = u.desc[k].id => h = k

\* The write of a request was applied.
Wrote(s, u, h, done) == <<s, u.desc[h].id>> \in done

\* The writes of session s, of which done are applied, that are still queued.
QueueOK(s, u, v, done) ==
    /\ \A k \in 0 .. Queued(u, v) - 1 : QueuedAt(u, v, k) \in u.inflight /\ ~Wrote(s, u, QueuedAt(u, v, k), done)
    /\ \A j, k \in 0 .. Queued(u, v) - 1 : QueuedAt(u, v, j) = QueuedAt(u, v, k) => j = k

\* Those the pump has taken: applied between the IO and the publication.
BatchOK(s, u, v, done) ==
    /\ \A i \in DOMAIN v.batch : /\ v.batch[i] \in u.inflight
                                 /\ v.pump = "io" => ~Wrote(s, u, v.batch[i], done)
                                 /\ v.pump = "publish" => (Wrote(s, u, v.batch[i], done) <=> u.desc[v.batch[i]].kind = "out")
    /\ \A i, j \in DOMAIN v.batch : v.batch[i] = v.batch[j] => i = j
    /\ \A i \in DOMAIN v.batch, k \in 0 .. Queued(u, v) - 1 : v.batch[i] # QueuedAt(u, v, k)

\* Those that are answered.
AnswersOK(s, u, v, done) ==
    /\ \A k \in 0 .. Left(u) - 1 : /\ LeftAt(u, k)[1] \in u.inflight
                                   /\ LeftAt(u, k)[2] = "ok" <=> Wrote(s, u, LeftAt(u, k)[1], done)
    /\ \A j, k \in 0 .. Left(u) - 1 : LeftAt(u, j)[1] = LeftAt(u, k)[1] => j = k
    /\ \A j \in 0 .. Left(u) - 1, k \in 0 .. Queued(u, v) - 1 : LeftAt(u, j)[1] # QueuedAt(u, v, k)
    /\ \A j \in 0 .. Left(u) - 1, i \in DOMAIN v.batch : LeftAt(u, j)[1] # v.batch[i]

\* The set-up of the first queue, in its order.
SetupOK(u, v) ==
    /\ v.mem \in {0, 1}
    /\ v.ring = 0 => v.lastAvail = 0
    /\ v.msg = "base" => v.ring = 0
    /\ u.next = "base" => v.ring = 0 /\ v.msg # "addr"

\* A queue that is set up at most once.
OnceOK(s, u, v, done) ==
    /\ u.setups = 0 => v.lastAvail = 0 /\ v.usedIdx = 0 /\ u.usedIdx = u.seen /\ ~Busy(v)
    /\ u.setups <= 1 => \A i : <<s, i>> \in done => i \in Nat /\ i <= u.posts
    /\ u.setups = 1 => /\ SetupOK(u, v) /\ v.usedIdx = u.usedIdx
                       /\ Queued(u, v) + Len(v.batch) + Left(u) <= Cardinality(u.inflight)
                       /\ QueueOK(s, u, v, done) /\ BatchOK(s, u, v, done) /\ AnswersOK(s, u, v, done)

\* The guest and the server of one session.
AnswerOK(s, u, v, done) == RequestsOK(u) /\ OnceOK(s, u, v, done) /\ (~Busy(v) => v.batch = <<>>)

\* The inductive invariant.
AnswerInv ==
    /\ VhostInv
    /\ \A s \in Sessions : /\ AnswerOK(s, g[s], d[s], written)
                           /\ g[s].setups <= 1 => s \notin twice

LEMMA Divides == ASSUME NEW n \in Nat \ {0}, NEW x \in Nat
                 PROVE  x = n * (x \div n) + (x % n) /\ x % n \in 0 .. n - 1 /\ x \div n \in Nat
OBVIOUS

LEMMA Quotient ==
  ASSUME NEW n \in Nat \ {0}, NEW q \in Int, NEW r \in 0 .. n - 1, NEW x \in Nat, x = n * q + r
  PROVE  x % n = r
<1> DEFINE a == x \div n
           t == x % n
<1>1. x = n * a + t /\ t \in 0 .. n - 1 /\ a \in Nat  BY Divides
<1> HIDE DEF a, t
<1>2. n * (q - a) = t - r  BY <1>1
<1>3. q = a
  <2>1. CASE q - a >= 1
    <3>1. n * (q - a) >= n  BY <1>1, <2>1
    <3>2. QED  BY <1>1, <1>2, <3>1
  <2>2. CASE q - a <= -1
    <3>1. n * (q - a) <= -n  BY <1>1, <2>2
    <3>2. QED  BY <1>1, <1>2, <3>1
  <2>3. QED  BY <1>1, <2>1, <2>2
<1>4. t = r  BY <1>1, <1>3
<1>5. QED  BY <1>4 DEF t

\* Slots less than a ring apart differ.
LEMMA SlotsApart == ASSUME NEW x \in Nat, NEW y \in Nat, x < y, y < x + Num PROVE x % Num # y % Num
<1> SUFFICES ASSUME x % Num = y % Num PROVE FALSE  OBVIOUS
<1> DEFINE a == x \div Num
           b == y \div Num
           r == x % Num
<1>1. Num \in Nat \ {0}  BY VhostAssumption
<1>2. x = Num * a + r /\ a \in Nat /\ r \in 0 .. Num - 1  BY <1>1, Divides
<1>3. y = Num * b + (y % Num) /\ b \in Nat  BY <1>1, Divides
<1>4. y = Num * b + r  BY <1>3
<1> HIDE DEF a, b, r
<1>5. y - x = Num * (b - a)  BY <1>1, <1>2, <1>3, <1>4
<1>6. CASE b - a <= 0
  <2>1. Num * (b - a) <= 0  BY <1>1, <1>2, <1>3, <1>6
  <2>2. QED  BY <1>5, <2>1
<1>7. CASE b - a >= 1
  <2>1. Num * (b - a) >= Num  BY <1>1, <1>2, <1>3, <1>7
  <2>2. QED  BY <1>1, <1>5, <2>1
<1>8. QED  BY <1>2, <1>3, <1>6, <1>7

\* The slot of an index does not notice that the index wrapped.
LEMMA SlotWraps == ASSUME NEW x \in Nat PROVE (x + IdxMod) % Num = x % Num
<1> DEFINE k == IdxMod \div Num
           a == x \div Num
           r == x % Num
<1>1. Num \in Nat \ {0} /\ IdxMod \in Nat /\ IdxMod % Num = 0  BY VhostAssumption
<1>2. IdxMod = Num * k + (IdxMod % Num) /\ k \in Nat  BY <1>1, Divides
<1>3. x = Num * a + r /\ a \in Nat /\ r \in 0 .. Num - 1  BY <1>1, Divides
<1>4. IdxMod = Num * k  BY <1>1, <1>2
<1> HIDE DEF k, a, r
<1>5. x + IdxMod = Num * (k + a) + r  BY <1>1, <1>2, <1>3, <1>4
<1>6. x + IdxMod \in Nat /\ k + a \in Int  BY <1>1, <1>2, <1>3
<1>7. (x + IdxMod) % Num = r
  <2> DEFINE y == x + IdxMod
             q == k + a
  <2>1. y = Num * q + r /\ y \in Nat /\ q \in Int  BY <1>5, <1>6
  <2> HIDE DEF y, q
  <2>2. y % Num = r  BY <1>1, <1>3, <2>1, Quotient
  <2>3. QED  BY <2>2 DEF y
<1>8. QED  BY <1>7 DEF r

LEMMA Wraps == ASSUME NEW x \in Nat, x < 2 * IdxMod
               PROVE  x % IdxMod = IF x < IdxMod THEN x ELSE x - IdxMod
<1>1. IdxMod \in Nat \ {0}  BY VhostAssumption
<1>2. CASE x < IdxMod
  <2>1. x = IdxMod * 0 + x /\ x \in 0 .. IdxMod - 1  BY <1>1, <1>2
  <2>2. QED  BY <1>1, <1>2, <2>1, Quotient
<1>3. CASE x >= IdxMod
  <2>1. x = IdxMod * 1 + (x - IdxMod) /\ x - IdxMod \in 0 .. IdxMod - 1  BY <1>1, <1>3
  <2>2. x % IdxMod = x - IdxMod  BY <1>1, <2>1, Quotient
  <2>3. QED  BY <1>1, <1>3, <2>2
<1>4. QED  BY <1>1, <1>2, <1>3

LEMMA SlotShift == ASSUME NEW x \in Nat, x < 2 * IdxMod, NEW k \in Nat
                   PROVE  ((x % IdxMod) + k) % Num = (x + k) % Num
<1>1. IdxMod \in Nat \ {0}  BY VhostAssumption
<1>2. CASE x < IdxMod  BY <1>2, Wraps
<1>3. CASE x >= IdxMod
  <2>1. x % IdxMod = x - IdxMod /\ x - IdxMod + k \in Nat  BY <1>1, <1>3, Wraps
  <2>2. ((x - IdxMod + k) + IdxMod) % Num = (x - IdxMod + k) % Num  BY <2>1, SlotWraps
  <2>3. (x - IdxMod + k) + IdxMod = x + k  BY <1>1
  <2>4. QED  BY <2>1, <2>2, <2>3
<1>4. QED  BY <1>1, <1>2, <1>3

Indices == 0 .. IdxMod - 1

LEMMA BehindOK ==
  ASSUME NEW a \in Indices, NEW b \in Indices
  PROVE  /\ Behind(a, b) \in Indices
         /\ Behind(a, b) = IF a >= b THEN a - b ELSE a + IdxMod - b
<1>1. IdxMod \in Nat \ {0}  BY VhostAssumption
<1>2. a + IdxMod - b \in Nat /\ a + IdxMod - b < 2 * IdxMod  BY <1>1 DEF Indices
<1>3. QED  BY <1>1, <1>2, Wraps DEF Behind, Indices

\* The slot of the newest index is as far from the oldest as it is behind.
LEMMA BehindSlot ==
  ASSUME NEW a \in Indices, NEW b \in Indices, NEW k \in Nat
  PROVE  (a + k) % Num = (b + Behind(a, b) + k) % Num
<1>1. IdxMod \in Nat \ {0}  BY VhostAssumption
<1>2. CASE a >= b
  <2>1. b + Behind(a, b) + k = a + k  BY <1>2, BehindOK DEF Indices
  <2>2. QED  BY <2>1
<1>3. CASE a < b
  <2>1. b + Behind(a, b) + k = (a + k) + IdxMod /\ a + k \in Nat  BY <1>1, <1>3, BehindOK DEF Indices
  <2>2. QED  BY <2>1, SlotWraps
<1>4. QED  BY <1>2, <1>3 DEF Indices

LEMMA NewestMoves ==
  ASSUME NEW a \in Indices, NEW b \in Indices, NEW c \in Nat, Behind(a, b) + c < IdxMod
  PROVE  (a + c) % IdxMod \in Indices /\ Behind((a + c) % IdxMod, b) = Behind(a, b) + c
<1>1. IdxMod \in Nat \ {0}  BY VhostAssumption
<1>2. Behind(a, b) \in Indices /\ Behind(a, b) = IF a >= b THEN a - b ELSE a + IdxMod - b  BY BehindOK
<1>3. a + c \in Nat /\ a + c < 2 * IdxMod  BY <1>1, <1>2 DEF Indices
<1> DEFINE n == (a + c) % IdxMod
<1>4. n = (IF a + c < IdxMod THEN a + c ELSE a + c - IdxMod)
  <2> DEFINE x == a + c
  <2>1. x \in Nat /\ x < 2 * IdxMod  BY <1>3
  <2> HIDE DEF x
  <2>2. x % IdxMod = IF x < IdxMod THEN x ELSE x - IdxMod  BY <2>1, Wraps
  <2>3. QED  BY <1>1, <2>2 DEF x, Indices
<1>5. n \in Indices  BY <1>1, <1>3, <1>4 DEF Indices
<1>6. Behind(n, b) = IF n >= b THEN n - b ELSE n + IdxMod - b  BY <1>5, BehindOK
<1> HIDE DEF n
<1>7. Behind(n, b) = Behind(a, b) + c  BY <1>1, <1>2, <1>4, <1>6 DEF Indices
<1>8. QED  BY <1>5, <1>7 DEF n

LEMMA OldestMoves ==
  ASSUME NEW a \in Indices, NEW b \in Indices, NEW c \in Nat, c <= Behind(a, b)
  PROVE  (b + c) % IdxMod \in Indices /\ Behind(a, (b + c) % IdxMod) = Behind(a, b) - c
<1>1. IdxMod \in Nat \ {0}  BY VhostAssumption
<1>2. Behind(a, b) \in Indices /\ Behind(a, b) = IF a >= b THEN a - b ELSE a + IdxMod - b  BY BehindOK
<1>3. b + c \in Nat /\ b + c < 2 * IdxMod  BY <1>1, <1>2 DEF Indices
<1> DEFINE n == (b + c) % IdxMod
<1>4. n = (IF b + c < IdxMod THEN b + c ELSE b + c - IdxMod)
  <2> DEFINE x == b + c
  <2>1. x \in Nat /\ x < 2 * IdxMod  BY <1>3
  <2> HIDE DEF x
  <2>2. x % IdxMod = IF x < IdxMod THEN x ELSE x - IdxMod  BY <2>1, Wraps
  <2>3. QED  BY <1>1, <2>2 DEF x, Indices
<1>5. n \in Indices  BY <1>1, <1>3, <1>4 DEF Indices
<1>6. Behind(a, n) = IF a >= n THEN a - n ELSE a + IdxMod - n  BY <1>5, BehindOK
<1> HIDE DEF n
<1>7. Behind(a, n) = Behind(a, b) - c  BY <1>1, <1>2, <1>4, <1>6 DEF Indices
<1>8. QED  BY <1>5, <1>7 DEF n

\* The guest's rings and requests are the same.
SameRings(u, u2) ==
    /\ u2.setups = u.setups /\ u2.availIdx = u.availIdx /\ u2.avail = u.avail
    /\ u2.usedIdx = u.usedIdx /\ u2.used = u.used /\ u2.seen = u.seen
    /\ u2.inflight = u.inflight /\ u2.desc = u.desc /\ u2.posts = u.posts

\* A step that leaves the rings alone.
LEMMA SameQueue ==
  ASSUME NEW s, NEW u, NEW v, NEW u2, NEW v2, NEW done, OnceOK(s, u, v, done), SameRings(u, u2),
         u.setups <= 1 => v2.lastAvail = v.lastAvail, v2.usedIdx = v.usedIdx, v2.batch = v.batch,
         Busy(v2) => v2.pump = v.pump, u.setups = 1 => SetupOK(u2, v2)
  PROVE  OnceOK(s, u2, v2, done)
<1>1. u2.setups = u.setups /\ u2.posts = u.posts /\ u2.inflight = u.inflight /\ u2.desc = u.desc
      /\ u2.usedIdx = u.usedIdx
  BY DEF SameRings
<1>2. Left(u2) = Left(u) /\ \A k : LeftAt(u2, k) = LeftAt(u, k)  BY DEF SameRings, Left, LeftAt
<1>3. \A h : Wrote(s, u2, h, done) = Wrote(s, u, h, done)  BY <1>1 DEF Wrote
<1>4. u.setups = 0 => v2.lastAvail = 0 /\ v2.usedIdx = 0 /\ u2.usedIdx = u2.seen /\ ~Busy(v2)
  BY DEF OnceOK, Busy, SameRings
<1>5. ASSUME u.setups = 1
      PROVE  /\ Queued(u2, v2) + Len(v2.batch) + Left(u2) <= Cardinality(u2.inflight)
             /\ QueueOK(s, u2, v2, done) /\ BatchOK(s, u2, v2, done) /\ AnswersOK(s, u2, v2, done)
  <2>1. Queued(u2, v2) = Queued(u, v) /\ \A k : QueuedAt(u2, v2, k) = QueuedAt(u, v, k)
    BY <1>5 DEF SameRings, Queued, QueuedAt
  <2>2. /\ Queued(u, v) + Len(v.batch) + Left(u) <= Cardinality(u.inflight)
        /\ QueueOK(s, u, v, done) /\ BatchOK(s, u, v, done) /\ AnswersOK(s, u, v, done)
    BY <1>5 DEF OnceOK
  <2>3. QueueOK(s, u2, v2, done)  BY <1>1, <1>3, <2>1, <2>2 DEF QueueOK
  <2>4. AnswersOK(s, u2, v2, done)  BY <1>1, <1>2, <1>3, <2>1, <2>2 DEF AnswersOK
  <2>5. BatchOK(s, u2, v2, done)
    <3>1. v2.pump \in {"io", "publish"} => v2.pump = v.pump  BY DEF Busy
    <3>2. QED  BY <1>1, <1>3, <2>1, <2>2, <3>1 DEF BatchOK
  <2>6. QED  BY <1>1, <1>2, <2>1, <2>2, <2>3, <2>4, <2>5
<1>6. QED  BY <1>1, <1>4, <1>5 DEF OnceOK

\* Nobody else's writes matter.
LEMMA OthersWrites ==
  ASSUME NEW s, NEW u, NEW v, NEW done, NEW more, OnceOK(s, u, v, done), done \subseteq more,
         \A i : <<s, i>> \in more => <<s, i>> \in done
  PROVE  OnceOK(s, u, v, more)
<1>1. \A h : Wrote(s, u, h, more) = Wrote(s, u, h, done)  BY DEF Wrote
<1>2. QueueOK(s, u, v, done) => QueueOK(s, u, v, more)  BY <1>1 DEF QueueOK
<1>3. BatchOK(s, u, v, done) => BatchOK(s, u, v, more)  BY <1>1 DEF BatchOK
<1>4. AnswersOK(s, u, v, done) => AnswersOK(s, u, v, more)  BY <1>1 DEF AnswersOK
<1>5. QED  BY <1>2, <1>3, <1>4 DEF OnceOK

\* A queue whose rings are new is empty.
LEMMA EmptyQueue ==
  ASSUME NEW s, NEW u, NEW v, NEW done, u.setups \in Nat \ {0},
         \A i : <<s, i>> \in done /\ u.setups <= 1 => i \in Nat /\ i <= u.posts,
         u.availIdx = 0, u.usedIdx = 0, u.seen = 0, u.inflight = {},
         u.setups = 1 => SetupOK(u, v) /\ v.lastAvail = 0 /\ v.usedIdx = 0 /\ v.batch = <<>>
  PROVE  OnceOK(s, u, v, done)
<1>1. IdxMod \in Nat \ {0} /\ 0 \in Indices  BY VhostAssumption DEF Indices
<1>2. Behind(0, 0) = 0  BY <1>1, BehindOK
<1>3. ASSUME u.setups = 1
      PROVE  /\ Queued(u, v) + Len(v.batch) + Left(u) <= Cardinality(u.inflight)
             /\ QueueOK(s, u, v, done) /\ BatchOK(s, u, v, done) /\ AnswersOK(s, u, v, done)
  <2>1. Queued(u, v) = 0 /\ Left(u) = 0  BY <1>2, <1>3 DEF Queued, Left
  <2>2. v.batch = <<>> /\ Len(v.batch) = 0 /\ DOMAIN v.batch = {}  BY <1>3
  <2>3. Cardinality(u.inflight) = 0  BY FS_EmptySet
  <2>4. 0 .. 0 - 1 = {}  OBVIOUS
  <2>5. QED  BY <2>1, <2>2, <2>3, <2>4 DEF QueueOK, BatchOK, AnswersOK
<1>4. QED  BY <1>3 DEF OnceOK

\* The driver of a queue has a descriptor left only if its rings have room.
LEMMA RoomLeft ==
  ASSUME NEW u, u.inflight \subseteq Slots
  PROVE  /\ IsFiniteSet(u.inflight) /\ Cardinality(u.inflight) \in Nat /\ Cardinality(u.inflight) <= Num
         /\ \A h \in Slots : h \notin u.inflight => Cardinality(u.inflight) < Num
<1>1. Num \in Nat \ {0}  BY VhostAssumption
<1>2. IsFiniteSet(Slots) /\ Cardinality(Slots) = Num
  <2>1. 0 \in Int /\ Num - 1 \in Int  BY <1>1
  <2>2. IsFiniteSet(0 .. Num - 1) /\ Cardinality(0 .. Num - 1) = IF 0 > Num - 1 THEN 0 ELSE (Num - 1) - 0 + 1
    BY <2>1, FS_Interval
  <2>3. QED  BY <1>1, <2>2 DEF Slots
<1>3. /\ IsFiniteSet(u.inflight) /\ Cardinality(u.inflight) <= Cardinality(Slots)
      /\ Cardinality(u.inflight) = Cardinality(Slots) => u.inflight = Slots
  BY <1>2, FS_Subset
<1>4. Cardinality(u.inflight) \in Nat  BY <1>3, FS_CardinalityType
<1>5. QED  BY <1>1, <1>2, <1>3, <1>4

LEMMA PostQueue ==
  ASSUME NEW s, NEW u, NEW v, NEW u2, NEW done, NEW h \in Slots, NEW k,
         GuestOK(u), SessionOK(v), RequestsOK(u), OnceOK(s, u, v, done), h \notin u.inflight,
         u2.setups = u.setups, u2.next = u.next, u2.usedIdx = u.usedIdx, u2.used = u.used, u2.seen = u.seen,
         u2.desc = [u.desc EXCEPT ![h] = [id |-> u.posts + 1, kind |-> k]],
         u2.avail = [u.avail EXCEPT ![u.availIdx % Num] = h],
         u2.availIdx = (u.availIdx + 1) % IdxMod, u2.inflight = u.inflight \cup {h}, u2.posts = u.posts + 1
  PROVE  RequestsOK(u2) /\ OnceOK(s, u2, v, done)
<1>1. /\ u.posts \in Nat /\ DOMAIN u.desc = Slots /\ DOMAIN u.used = Slots /\ u.inflight \subseteq Slots
      /\ u.availIdx \in Indices /\ u.usedIdx \in Indices /\ u.seen \in Indices /\ v.lastAvail \in Indices
      /\ u.avail \in [Slots -> Slots] /\ Num \in Nat \ {0} /\ IdxMod \in Nat /\ IdxMod > Num
  BY VhostAssumption DEF RequestsOK, GuestOK, SessionOK, Indices
<1>2. u2.desc[h].id = u.posts + 1 /\ \A x \in u.inflight : u2.desc[x] = u.desc[x]  BY <1>1
<1>3. RequestsOK(u2)
  <2>1. u2.availIdx \in Indices
    <3>1. u.availIdx + 1 \in Nat  BY <1>1 DEF Indices
    <3>2. QED  BY <3>1, Index DEF Indices
  <2>2. DOMAIN u2.desc = Slots  BY <1>1
  <2>3. \A x \in u2.inflight : u2.desc[x].id \in 1 .. u2.posts
    BY <1>1, <1>2 DEF RequestsOK
  <2>4. \A x, y \in u2.inflight : u2.desc[x].id = u2.desc[y].id => x = y
    BY <1>1, <1>2 DEF RequestsOK
  <2>5. u2.posts \in Nat  BY <1>1
  <2>6. QED  BY <1>1, <2>1, <2>2, <2>3, <2>4, <2>5 DEF RequestsOK, Indices
<1>4. \A i : <<s, i>> \in done /\ u.setups <= 1 => i \in Nat /\ i <= u.posts  BY DEF OnceOK
<1>5. ASSUME u.setups = 1
      PROVE  /\ Queued(u2, v) + Len(v.batch) + Left(u2) <= Cardinality(u2.inflight)
             /\ QueueOK(s, u2, v, done) /\ BatchOK(s, u2, v, done) /\ AnswersOK(s, u2, v, done)
  <2> DEFINE q == Queued(u, v)
  <2>1. /\ q + Len(v.batch) + Left(u) <= Cardinality(u.inflight) /\ QueueOK(s, u, v, done)
        /\ BatchOK(s, u, v, done) /\ AnswersOK(s, u, v, done)
    BY <1>5 DEF OnceOK
  <2>2. q \in Nat /\ Len(v.batch) \in Nat /\ Left(u) \in Nat
    <3>1. q \in Indices /\ Left(u) \in Indices  BY <1>1, BehindOK DEF Queued, Left
    <3>2. PICK n \in Nat : v.batch \in [1 .. n -> Slots]
      BY VhostAssumption DEF SessionOK, BoundedSeq, SeqOf
    <3>3. QED  BY <1>1, <3>1, <3>2 DEF Indices
  <2>3. Cardinality(u.inflight) \in Nat /\ Cardinality(u.inflight) < Num /\ IsFiniteSet(u.inflight)
    BY <1>1, RoomLeft
  <2>4. q + 1 <= Num  BY <1>1, <2>1, <2>2, <2>3
  <2>5. Queued(u2, v) = q + 1
    <3>1. Behind(u.availIdx, v.lastAvail) + 1 < IdxMod  BY <1>1, <2>2, <2>4 DEF Queued
    <3>2. QED  BY <1>1, <3>1, NewestMoves DEF Queued
  <2>6. Cardinality(u2.inflight) = Cardinality(u.inflight) + 1  BY <2>3, FS_AddElement
  <2>7. Left(u2) = Left(u) /\ \A j : LeftAt(u2, j) = LeftAt(u, j)  BY DEF Left, LeftAt
  <2>8. u.availIdx % Num = (v.lastAvail + q) % Num /\ u.availIdx % Num \in Slots
    <3>1. (u.availIdx + 0) % Num = (v.lastAvail + Behind(u.availIdx, v.lastAvail) + 0) % Num  BY <1>1, BehindSlot
    <3>2. u.availIdx + 0 = u.availIdx /\ v.lastAvail + q + 0 = v.lastAvail + q /\ u.availIdx \in Nat
      BY <1>1, <2>2 DEF Indices
    <3>3. QED  BY <3>1, <3>2, Index DEF Queued
  <2>9. QueuedAt(u2, v, q) = h  BY <1>1, <2>8 DEF QueuedAt
  <2>10. \A j \in 0 .. q - 1 : QueuedAt(u2, v, j) = QueuedAt(u, v, j)
    <3> SUFFICES ASSUME NEW j \in 0 .. q - 1 PROVE QueuedAt(u2, v, j) = QueuedAt(u, v, j)  OBVIOUS
    <3>1. v.lastAvail + j \in Nat /\ v.lastAvail + q \in Nat /\ v.lastAvail + j < v.lastAvail + q
          /\ v.lastAvail + q < v.lastAvail + j + Num
      <4>1. v.lastAvail \in Nat /\ j \in Nat /\ j < q  BY <1>1, <2>2 DEF Indices
      <4> HIDE DEF q
      <4>2. QED  BY <1>1, <2>2, <2>4, <4>1
    <3>2. (v.lastAvail + j) % Num # (v.lastAvail + q) % Num  BY <3>1, SlotsApart
    <3>3. (v.lastAvail + j) % Num \in Slots  BY <3>1, Index
    <3>4. QED  BY <1>1, <2>8, <3>2, <3>3 DEF QueuedAt
  <2>11. \A x \in u.inflight : Wrote(s, u2, x, done) = Wrote(s, u, x, done)  BY <1>2 DEF Wrote
  <2>12. ~Wrote(s, u2, h, done)  BY <1>1, <1>2, <1>4, <1>5 DEF Wrote
  <2> HIDE DEF q
  <2>13. \A j \in 0 .. q : j # q => j \in 0 .. q - 1  BY <2>2
  <2>14. 0 .. Queued(u2, v) - 1 = 0 .. q  BY <2>2, <2>5
  <2>15. QueueOK(s, u2, v, done)
    <3>1. \A j \in 0 .. q - 1 : QueuedAt(u, v, j) \in u.inflight /\ ~Wrote(s, u, QueuedAt(u, v, j), done)
      BY <2>1 DEF QueueOK, q
    <3>2. \A i, j \in 0 .. q - 1 : QueuedAt(u, v, i) = QueuedAt(u, v, j) => i = j  BY <2>1 DEF QueueOK, q
    <3>3. \A j \in 0 .. q : QueuedAt(u2, v, j) \in u2.inflight /\ ~Wrote(s, u2, QueuedAt(u2, v, j), done)
      BY <2>9, <2>10, <2>11, <2>12, <2>13, <3>1
    <3>4. \A i, j \in 0 .. q : QueuedAt(u2, v, i) = QueuedAt(u2, v, j) => i = j
      BY <2>9, <2>10, <2>13, <3>1, <3>2
    <3>5. QED  BY <2>14, <3>3, <3>4 DEF QueueOK
  <2>16. BatchOK(s, u2, v, done)
    <3>1. \A i \in DOMAIN v.batch : v.batch[i] \in u.inflight /\ u2.desc[v.batch[i]] = u.desc[v.batch[i]]
      BY <1>2, <2>1 DEF BatchOK
    <3>2. \A i \in DOMAIN v.batch, j \in 0 .. q : v.batch[i] # QueuedAt(u2, v, j)
      BY <2>1, <2>9, <2>10, <2>13, <3>1 DEF BatchOK, q
    <3>3. QED  BY <2>1, <2>11, <2>14, <3>1, <3>2 DEF BatchOK
  <2>17. AnswersOK(s, u2, v, done)
    <3>1. \A j \in 0 .. Left(u) - 1 : LeftAt(u, j)[1] \in u.inflight  BY <2>1 DEF AnswersOK
    <3>2. \A i \in 0 .. Left(u) - 1, j \in 0 .. q : LeftAt(u, i)[1] # QueuedAt(u2, v, j)
      BY <2>1, <2>9, <2>10, <2>13, <3>1 DEF AnswersOK, q
    <3>3. \A j \in 0 .. Left(u) - 1 : LeftAt(u, j)[2] = "ok" <=> Wrote(s, u2, LeftAt(u, j)[1], done)
      BY <2>1, <2>11, <3>1 DEF AnswersOK
    <3>4. /\ \A i, j \in 0 .. Left(u) - 1 : LeftAt(u, i)[1] = LeftAt(u, j)[1] => i = j
          /\ \A j \in 0 .. Left(u) - 1, i \in DOMAIN v.batch : LeftAt(u, j)[1] # v.batch[i]
      BY <2>1 DEF AnswersOK
    <3>5. \A j \in 0 .. Left(u2) - 1 : /\ LeftAt(u2, j)[1] \in u2.inflight
                                       /\ LeftAt(u2, j)[2] = "ok" <=> Wrote(s, u2, LeftAt(u2, j)[1], done)
      BY <2>7, <3>1, <3>3
    <3>6. /\ \A i, j \in 0 .. Left(u2) - 1 : LeftAt(u2, i)[1] = LeftAt(u2, j)[1] => i = j
          /\ \A j \in 0 .. Left(u2) - 1, i \in DOMAIN v.batch : LeftAt(u2, j)[1] # v.batch[i]
      BY <2>7, <3>4
    <3>7. \A i \in 0 .. Left(u2) - 1, j \in 0 .. Queued(u2, v) - 1 : LeftAt(u2, i)[1] # QueuedAt(u2, v, j)
      BY <2>2, <2>5, <2>7, <3>2
    <3>8. QED  BY <3>5, <3>6, <3>7 DEF AnswersOK
  <2>18. Queued(u2, v) + Len(v.batch) + Left(u2) <= Cardinality(u2.inflight)
    BY <2>1, <2>2, <2>3, <2>5, <2>6, <2>7 DEF q
  <2>19. QED  BY <2>15, <2>16, <2>17, <2>18
<1>6. u.setups = 1 => SetupOK(u2, v)  BY DEF OnceOK, SetupOK
<1>7. u2.setups <= 1 => \A i : <<s, i>> \in done => i \in Nat /\ i <= u2.posts  BY <1>1, <1>4
<1>8. QED  BY <1>3, <1>5, <1>6, <1>7 DEF OnceOK

\* The numbers of a queue.
LEMMA Counts ==
  ASSUME NEW u, NEW v, GuestOK(u), SessionOK(v), RequestsOK(u)
  PROVE  /\ Queued(u, v) \in Nat /\ Left(u) \in Nat /\ Len(v.batch) \in Nat /\ DOMAIN v.batch = 1 .. Len(v.batch)
         /\ v.batch \in Seq(Slots)
         /\ u.availIdx \in Indices /\ u.usedIdx \in Indices /\ u.seen \in Indices /\ v.lastAvail \in Indices
         /\ Num \in Nat \ {0} /\ IdxMod \in Nat \ {0} /\ IdxMod > Num
         /\ IsFiniteSet(u.inflight) /\ Cardinality(u.inflight) \in Nat /\ Cardinality(u.inflight) <= Num
<1>1. u.availIdx \in Indices /\ u.usedIdx \in Indices /\ u.seen \in Indices /\ v.lastAvail \in Indices
  BY DEF RequestsOK, SessionOK, Indices
<1>2. Queued(u, v) \in Indices /\ Left(u) \in Indices  BY <1>1, BehindOK DEF Queued, Left
<1>3. PICK n \in Nat : v.batch \in [1 .. n -> Slots]
  <2>1. v.batch \in BoundedSeq(Slots, pumpMaxBatch)  BY DEF SessionOK
  <2>2. QED  BY <2>1, VhostAssumption DEF BoundedSeq, SeqOf
<1>4. v.batch \in Seq(Slots) /\ Len(v.batch) = n /\ DOMAIN v.batch = 1 .. n  BY <1>3
<1>5. u.inflight \subseteq Slots  BY DEF GuestOK
<1>6. IsFiniteSet(u.inflight) /\ Cardinality(u.inflight) \in Nat /\ Cardinality(u.inflight) <= Num  BY <1>5, RoomLeft
<1>7. Num \in Nat \ {0} /\ IdxMod \in Nat \ {0} /\ IdxMod > Num  BY VhostAssumption
<1>8. Queued(u, v) \in Nat /\ Left(u) \in Nat  BY <1>2, <1>7 DEF Indices
<1>9. QED  BY <1>1, <1>4, <1>6, <1>7, <1>8

LEMMA ReapQueue ==
  ASSUME NEW s, NEW u, NEW v, NEW u2, NEW done,
         GuestOK(u), SessionOK(v), RequestsOK(u), OnceOK(s, u, v, done), u.seen # u.usedIdx,
         u2.setups = u.setups, u2.next = u.next, u2.usedIdx = u.usedIdx, u2.used = u.used,
         u2.availIdx = u.availIdx, u2.avail = u.avail, u2.desc = u.desc, u2.posts = u.posts,
         u2.seen = (u.seen + 1) % IdxMod, u2.inflight = u.inflight \ {u.used[u.seen % Num][1]}
  PROVE  RequestsOK(u2) /\ OnceOK(s, u2, v, done)
<1> DEFINE l == Left(u)
           a == u.used[u.seen % Num][1]
<1>1. /\ Queued(u, v) \in Nat /\ l \in Nat /\ Len(v.batch) \in Nat /\ u.usedIdx \in Indices /\ u.seen \in Indices
      /\ Num \in Nat \ {0} /\ IdxMod \in Nat \ {0} /\ IsFiniteSet(u.inflight) /\ Cardinality(u.inflight) \in Nat
  BY Counts
<1>2. RequestsOK(u2)
  <2>1. u.seen + 1 \in Nat  BY <1>1 DEF Indices
  <2>2. u2.seen \in 0 .. IdxMod - 1  BY <2>1, Index
  <2>3. QED  BY <2>2 DEF RequestsOK
<1>3. ASSUME u.setups = 1
      PROVE  /\ Queued(u2, v) + Len(v.batch) + Left(u2) <= Cardinality(u2.inflight)
             /\ QueueOK(s, u2, v, done) /\ BatchOK(s, u2, v, done) /\ AnswersOK(s, u2, v, done)
  <2>1. /\ Queued(u, v) + Len(v.batch) + l <= Cardinality(u.inflight) /\ QueueOK(s, u, v, done)
        /\ BatchOK(s, u, v, done) /\ AnswersOK(s, u, v, done)
    BY <1>3 DEF OnceOK
  <2>2. l >= 1
    <3>1. Behind(u.usedIdx, u.seen) = IF u.usedIdx >= u.seen THEN u.usedIdx - u.seen
                                     ELSE u.usedIdx + IdxMod - u.seen
      BY <1>1, BehindOK
    <3>2. l # 0  BY <1>1, <3>1 DEF Left, Indices
    <3>3. QED  BY <1>1, <3>2
  <2>3. Left(u2) = l - 1  BY <1>1, <2>2, OldestMoves DEF Left
  <2>4. \A j \in 0 .. l - 2 : LeftAt(u2, j) = LeftAt(u, j + 1)
    <3> SUFFICES ASSUME NEW j \in 0 .. l - 2 PROVE LeftAt(u2, j) = LeftAt(u, j + 1)  OBVIOUS
    <3>1. u.seen \in Nat /\ u.seen + 1 \in Nat /\ u.seen + 1 < 2 * IdxMod /\ j \in Nat  BY <1>1, <2>2 DEF Indices
    <3>2. (((u.seen + 1) % IdxMod) + j) % Num = ((u.seen + 1) + j) % Num  BY <3>1, SlotShift
    <3>3. (u.seen + 1) + j = u.seen + (j + 1)  BY <3>1
    <3>4. QED  BY <3>2, <3>3 DEF LeftAt
  <2>5. LeftAt(u, 0)[1] = a
    <3>1. u.seen + 0 = u.seen  BY <1>1 DEF Indices
    <3>2. QED  BY <3>1 DEF LeftAt
  <2> HIDE DEF a
  <2>6. a \in u.inflight  BY <1>1, <2>1, <2>2, <2>5 DEF AnswersOK
  <2>7. Cardinality(u2.inflight) = Cardinality(u.inflight) - 1  BY <1>1, <2>6, FS_RemoveElement DEF a
  <2>8. Queued(u2, v) = Queued(u, v) /\ \A j : QueuedAt(u2, v, j) = QueuedAt(u, v, j)  BY DEF Queued, QueuedAt
  <2>9. \A h : Wrote(s, u2, h, done) = Wrote(s, u, h, done)  BY DEF Wrote
  <2>10. u2.inflight = u.inflight \ {a}  BY DEF a
  <2> HIDE DEF l
  <2>11. \A j \in 0 .. l - 2 : j + 1 \in 0 .. l - 1 /\ j + 1 # 0 /\ 0 \in 0 .. l - 1  BY <1>1, <2>2
  <2>12. QueueOK(s, u2, v, done)
    <3>1. \A k \in 0 .. Queued(u, v) - 1 : a # QueuedAt(u, v, k)
      BY <1>1, <2>1, <2>2, <2>5 DEF AnswersOK, l
    <3>2. QED  BY <2>1, <2>8, <2>9, <2>10, <3>1 DEF QueueOK
  <2>13. BatchOK(s, u2, v, done)
    <3>1. \A i \in DOMAIN v.batch : a # v.batch[i]  BY <1>1, <2>1, <2>2, <2>5 DEF AnswersOK, l
    <3>2. QED  BY <2>1, <2>8, <2>9, <2>10, <3>1 DEF BatchOK
  <2>14. AnswersOK(s, u2, v, done)
    <3>1. \A j \in 0 .. l - 1 : /\ LeftAt(u, j)[1] \in u.inflight
                                /\ LeftAt(u, j)[2] = "ok" <=> Wrote(s, u, LeftAt(u, j)[1], done)
                                /\ \A k \in 0 .. Queued(u, v) - 1 : LeftAt(u, j)[1] # QueuedAt(u, v, k)
                                /\ \A i \in DOMAIN v.batch : LeftAt(u, j)[1] # v.batch[i]
      BY <2>1 DEF AnswersOK, l
    <3>2. \A i, j \in 0 .. l - 1 : LeftAt(u, i)[1] = LeftAt(u, j)[1] => i = j  BY <2>1 DEF AnswersOK, l
    <3>3. \A j \in 0 .. l - 2 : /\ LeftAt(u2, j)[1] \in u2.inflight
                                /\ LeftAt(u2, j)[2] = "ok" <=> Wrote(s, u2, LeftAt(u2, j)[1], done)
                                /\ \A k \in 0 .. Queued(u, v) - 1 : LeftAt(u2, j)[1] # QueuedAt(u, v, k)
                                /\ \A i \in DOMAIN v.batch : LeftAt(u2, j)[1] # v.batch[i]
      BY <2>4, <2>5, <2>9, <2>10, <2>11, <3>1, <3>2
    <3>4. \A i, j \in 0 .. l - 2 : LeftAt(u2, i)[1] = LeftAt(u2, j)[1] => i = j
      <4> SUFFICES ASSUME NEW i \in 0 .. l - 2, NEW j \in 0 .. l - 2, LeftAt(u2, i)[1] = LeftAt(u2, j)[1]
                   PROVE  i = j
        OBVIOUS
      <4>1. i + 1 = j + 1  BY <2>4, <2>11, <3>2
      <4>2. QED  BY <1>1, <4>1
    <3>5. \A j \in 0 .. Left(u2) - 1 : j \in 0 .. l - 2  BY <1>1, <2>3
    <3>6. /\ \A j \in 0 .. Left(u2) - 1 : /\ LeftAt(u2, j)[1] \in u2.inflight
                                          /\ LeftAt(u2, j)[2] = "ok" <=> Wrote(s, u2, LeftAt(u2, j)[1], done)
          /\ \A j \in 0 .. Left(u2) - 1, i \in DOMAIN v.batch : LeftAt(u2, j)[1] # v.batch[i]
      BY <3>3, <3>5
    <3>7. \A j \in 0 .. Left(u2) - 1, k \in 0 .. Queued(u2, v) - 1 : LeftAt(u2, j)[1] # QueuedAt(u2, v, k)
      BY <2>8, <3>3, <3>5
    <3>8. QED  BY <3>4, <3>5, <3>6, <3>7 DEF AnswersOK
  <2>15. Queued(u2, v) + Len(v.batch) + Left(u2) <= Cardinality(u2.inflight)
    BY <1>1, <2>1, <2>3, <2>7, <2>8 DEF l
  <2>16. QED  BY <2>12, <2>13, <2>14, <2>15
<1>4. u.setups = 1 => SetupOK(u2, v)  BY DEF OnceOK, SetupOK
<1>5. QED  BY <1>2, <1>3, <1>4 DEF OnceOK

LEMMA TwoIndices ==
  ASSUME NEW a \in Nat, NEW b \in Nat, a < IdxMod, b < IdxMod
  PROVE  a + b \in Nat /\ a + b < 2 * IdxMod
BY VhostAssumption

\* A pop phase takes the first c of the queued requests and keeps a prefix of them.
LEMMA PopQueue ==
  ASSUME NEW s, NEW u, NEW v, NEW v2, NEW done, NEW c \in Nat,
         GuestOK(u), SessionOK(v), RequestsOK(u), OnceOK(s, u, v, done), u.setups = 1,
         v.batch = <<>>, c <= Queued(u, v), v2.batch \in Seq(Slots), Len(v2.batch) <= c,
         \A i \in 1 .. Len(v2.batch) : v2.batch[i] = QueuedAt(u, v, i - 1),
         v2.lastAvail = (v.lastAvail + c) % IdxMod, v2.pump \in {"top", "io"},
         v2.usedIdx = v.usedIdx, v2.mem = v.mem, v2.ring = v.ring, v2.msg = v.msg, v.ring # 0
  PROVE  OnceOK(s, u, v2, done)
<1> DEFINE q == Queued(u, v)
           n == Len(v2.batch)
<1>1. /\ q \in Nat /\ Left(u) \in Nat /\ v.lastAvail \in Indices /\ u.availIdx \in Indices
      /\ Num \in Nat \ {0} /\ IdxMod \in Nat \ {0} /\ Cardinality(u.inflight) \in Nat
  BY Counts
<1>2. /\ q + Len(v.batch) + Left(u) <= Cardinality(u.inflight) /\ QueueOK(s, u, v, done)
      /\ BatchOK(s, u, v, done) /\ AnswersOK(s, u, v, done) /\ SetupOK(u, v) /\ v.usedIdx = u.usedIdx
  BY DEF OnceOK
<1>3. Len(v.batch) = 0 /\ n \in Nat /\ DOMAIN v2.batch = 1 .. n  OBVIOUS
<1>4. Queued(u, v2) = q - c  BY <1>1, OldestMoves DEF Queued
<1>5. \A j \in 0 .. q - c - 1 : QueuedAt(u, v2, j) = QueuedAt(u, v, c + j)
  <2> SUFFICES ASSUME NEW j \in 0 .. q - c - 1 PROVE QueuedAt(u, v2, j) = QueuedAt(u, v, c + j)  OBVIOUS
  <2>1. v.lastAvail \in Nat /\ v.lastAvail < IdxMod /\ j \in Nat /\ q < IdxMod
    <3>1. q \in Indices  BY <1>1, BehindOK DEF Queued
    <3>2. QED  BY <1>1, <3>1 DEF Indices
  <2>2. v.lastAvail + c \in Nat /\ v.lastAvail + c < 2 * IdxMod
    <3>1. c < IdxMod  BY <1>1, <2>1
    <3>2. QED  BY <1>1, <2>1, <3>1, TwoIndices
  <2>3. (((v.lastAvail + c) % IdxMod) + j) % Num = ((v.lastAvail + c) + j) % Num  BY <2>1, <2>2, SlotShift
  <2>4. (v.lastAvail + c) + j = v.lastAvail + (c + j)  BY <2>1
  <2>5. QED  BY <2>3, <2>4 DEF QueuedAt
<1> HIDE DEF q, n
<1>6. \A j \in 0 .. q - c - 1 : c + j \in 0 .. q - 1  BY <1>1
<1>7. \A i \in 1 .. n : i - 1 \in 0 .. q - 1 /\ i - 1 < c  BY <1>1, <1>3 DEF q, n
<1>8. /\ \A k \in 0 .. q - 1 : QueuedAt(u, v, k) \in u.inflight /\ ~Wrote(s, u, QueuedAt(u, v, k), done)
      /\ \A j, k \in 0 .. q - 1 : QueuedAt(u, v, j) = QueuedAt(u, v, k) => j = k
  BY <1>2 DEF QueueOK, q
<1>9. \A j \in 0 .. Queued(u, v2) - 1 : j \in 0 .. q - c - 1  BY <1>4
<1>10. QueueOK(s, u, v2, done)
  <2>1. \A j \in 0 .. q - c - 1 : QueuedAt(u, v2, j) \in u.inflight /\ ~Wrote(s, u, QueuedAt(u, v2, j), done)
    BY <1>5, <1>6, <1>8
  <2>2. ASSUME NEW j \in 0 .. q - c - 1, NEW k \in 0 .. q - c - 1, QueuedAt(u, v2, j) = QueuedAt(u, v2, k)
        PROVE  j = k
    <3>1. c + j = c + k  BY <1>5, <1>6, <1>8, <2>2
    <3>2. QED  BY <1>1, <3>1
  <2>3. QED  BY <1>9, <2>1, <2>2 DEF QueueOK
<1>11. BatchOK(s, u, v2, done)
  <2>1. \A i \in 1 .. n : v2.batch[i] = QueuedAt(u, v, i - 1)  BY DEF n
  <2>2. \A i \in 1 .. n : v2.batch[i] \in u.inflight /\ ~Wrote(s, u, v2.batch[i], done)
    BY <1>7, <1>8, <2>1
  <2>3. ASSUME NEW i \in 1 .. n, NEW j \in 1 .. n, v2.batch[i] = v2.batch[j] PROVE i = j
    <3>1. i - 1 = j - 1  BY <1>7, <1>8, <2>1, <2>3
    <3>2. QED  BY <1>3, <3>1
  <2>4. ASSUME NEW i \in 1 .. n, NEW k \in 0 .. q - c - 1 PROVE v2.batch[i] # QueuedAt(u, v2, k)
    <3>1. i - 1 # c + k  BY <1>1, <1>3, <1>7
    <3>2. QED  BY <1>5, <1>6, <1>7, <1>8, <2>1, <3>1
  <2>5. v2.pump # "publish"  OBVIOUS
  <2>6. QED  BY <1>3, <1>9, <2>2, <2>3, <2>4, <2>5 DEF BatchOK
<1>12. AnswersOK(s, u, v2, done)
  <2>1. /\ \A k \in 0 .. Left(u) - 1 : /\ LeftAt(u, k)[1] \in u.inflight
                                       /\ LeftAt(u, k)[2] = "ok" <=> Wrote(s, u, LeftAt(u, k)[1], done)
        /\ \A j, k \in 0 .. Left(u) - 1 : LeftAt(u, j)[1] = LeftAt(u, k)[1] => j = k
        /\ \A j \in 0 .. Left(u) - 1, k \in 0 .. q - 1 : LeftAt(u, j)[1] # QueuedAt(u, v, k)
    BY <1>2 DEF AnswersOK, q
  <2>2. \A j \in 0 .. Left(u) - 1, k \in 0 .. q - c - 1 : LeftAt(u, j)[1] # QueuedAt(u, v2, k)
    BY <1>5, <1>6, <2>1
  <2>3. \A j \in 0 .. Left(u) - 1, i \in 1 .. n : LeftAt(u, j)[1] # v2.batch[i]
    BY <1>7, <2>1 DEF n
  <2>4. \A j \in 0 .. Left(u) - 1, k \in 0 .. Queued(u, v2) - 1 : LeftAt(u, j)[1] # QueuedAt(u, v2, k)
    BY <1>9, <2>2
  <2>5. \A j \in 0 .. Left(u) - 1, i \in DOMAIN v2.batch : LeftAt(u, j)[1] # v2.batch[i]  BY <1>3, <2>3
  <2>6. QED  BY <2>1, <2>4, <2>5 DEF AnswersOK
<1>13. Queued(u, v2) + Len(v2.batch) + Left(u) <= Cardinality(u.inflight)
  BY <1>1, <1>2, <1>3, <1>4 DEF q, n
<1>14. SetupOK(u, v2)  BY <1>2 DEF SetupOK
<1>15. \A i : <<s, i>> \in done => i \in Nat /\ i <= u.posts  BY DEF OnceOK
<1>16. QED  BY <1>2, <1>10, <1>11, <1>12, <1>13, <1>14, <1>15 DEF OnceOK

\* The IO of a batch applies its writes, none of which was.
LEMMA IoQueue ==
  ASSUME NEW s, NEW u, NEW v, NEW v2, NEW done, NEW outs,
         GuestOK(u), SessionOK(v), RequestsOK(u), OnceOK(s, u, v, done), u.setups <= 1, v.pump = "io",
         v2.pump = "publish", v2.batch = v.batch, v2.lastAvail = v.lastAvail, v2.usedIdx = v.usedIdx,
         v2.mem = v.mem, v2.ring = v.ring, v2.msg = v.msg,
         \A p : p \in outs <=> \E i \in DOMAIN v.batch : /\ p = <<s, u.desc[v.batch[i]].id>>
                                                         /\ u.desc[v.batch[i]].kind = "out"
  PROVE  /\ OnceOK(s, u, v2, done \cup outs) /\ outs \cap done = {}
         /\ \A i, j \in DOMAIN v.batch : v.batch[i] = v.batch[j] => i = j
<1> DEFINE more == done \cup outs
<1>1. u.setups = 1 /\ u.setups \in Nat
  <2>1. u.setups \in Nat  BY DEF GuestOK
  <2>2. u.setups # 0  BY DEF OnceOK, Busy
  <2>3. QED  BY <2>1, <2>2
<1>2. /\ Queued(u, v) + Len(v.batch) + Left(u) <= Cardinality(u.inflight) /\ QueueOK(s, u, v, done)
      /\ BatchOK(s, u, v, done) /\ AnswersOK(s, u, v, done) /\ SetupOK(u, v) /\ v.usedIdx = u.usedIdx
      /\ \A i : <<s, i>> \in done => i \in Nat /\ i <= u.posts
  BY <1>1 DEF OnceOK
<1>3. \A i \in DOMAIN v.batch : v.batch[i] \in u.inflight /\ ~Wrote(s, u, v.batch[i], done)  BY <1>2 DEF BatchOK
<1>4. \A h \in u.inflight : (\A i \in DOMAIN v.batch : h # v.batch[i]) => <<s, u.desc[h].id>> \notin outs
  BY <1>3 DEF RequestsOK
<1>5. \A h \in u.inflight : (\A i \in DOMAIN v.batch : h # v.batch[i])
                            => Wrote(s, u, h, more) = Wrote(s, u, h, done)
  BY <1>4 DEF Wrote
<1>6. \A i \in DOMAIN v.batch : Wrote(s, u, v.batch[i], more) <=> u.desc[v.batch[i]].kind = "out"
  <2> SUFFICES ASSUME NEW i \in DOMAIN v.batch
               PROVE  Wrote(s, u, v.batch[i], more) <=> u.desc[v.batch[i]].kind = "out"
    OBVIOUS
  <2>1. <<s, u.desc[v.batch[i]].id>> \notin done  BY <1>3 DEF Wrote
  <2>2. \A j \in DOMAIN v.batch : u.desc[v.batch[i]].id = u.desc[v.batch[j]].id => v.batch[i] = v.batch[j]
    BY <1>3 DEF RequestsOK
  <2>3. <<s, u.desc[v.batch[i]].id>> \in outs <=> u.desc[v.batch[i]].kind = "out"  BY <2>2
  <2>4. QED  BY <2>1, <2>3 DEF Wrote
<1> HIDE DEF more
<1>7. Queued(u, v2) = Queued(u, v) /\ \A k : QueuedAt(u, v2, k) = QueuedAt(u, v, k)  BY DEF Queued, QueuedAt
<1>8. QueueOK(s, u, v2, more)
  <2>1. \A k \in 0 .. Queued(u, v) - 1 : QueuedAt(u, v, k) \in u.inflight
                                         /\ \A i \in DOMAIN v.batch : QueuedAt(u, v, k) # v.batch[i]
    BY <1>2 DEF QueueOK, BatchOK
  <2>2. QED  BY <1>2, <1>5, <1>7, <2>1 DEF QueueOK
<1>9. BatchOK(s, u, v2, more)  BY <1>2, <1>3, <1>6, <1>7 DEF BatchOK
<1>10. AnswersOK(s, u, v2, more)
  <2>1. \A j \in 0 .. Left(u) - 1 : LeftAt(u, j)[1] \in u.inflight
                                    /\ \A i \in DOMAIN v.batch : LeftAt(u, j)[1] # v.batch[i]
    BY <1>2 DEF AnswersOK
  <2>2. \A j \in 0 .. Left(u) - 1 : LeftAt(u, j)[2] = "ok" <=> Wrote(s, u, LeftAt(u, j)[1], more)
    BY <1>2, <1>5, <2>1 DEF AnswersOK
  <2>3. QED  BY <1>2, <1>7, <2>1, <2>2 DEF AnswersOK
<1>11. outs \cap done = {}
  <2>1. \A p \in outs : p \notin done  BY <1>3 DEF Wrote
  <2>2. QED  BY <2>1
<1>12. \A i : <<s, i>> \in more => i \in Nat /\ i <= u.posts
  <2>1. \A h \in u.inflight : u.desc[h].id \in Nat /\ u.desc[h].id <= u.posts  BY DEF RequestsOK
  <2>2. \A i : <<s, i>> \in outs => i \in Nat /\ i <= u.posts  BY <1>3, <2>1
  <2>3. QED  BY <1>2, <2>2 DEF more
<1>13. SetupOK(u, v2)  BY <1>2 DEF SetupOK
<1>14. OnceOK(s, u, v2, more)  BY <1>1, <1>2, <1>7, <1>8, <1>9, <1>10, <1>12, <1>13 DEF OnceOK
<1>15. QED  BY <1>2, <1>11, <1>14 DEF BatchOK, more

\* A batch that is dropped leaves its requests without an answer.
LEMMA DropQueue ==
  ASSUME NEW s, NEW u, NEW v, NEW v2, NEW done,
         GuestOK(u), SessionOK(v), RequestsOK(u), OnceOK(s, u, v, done),
         ~Busy(v2), v2.batch = <<>>, v2.lastAvail = v.lastAvail, v2.usedIdx = v.usedIdx,
         v2.mem = v.mem, v2.ring = v.ring, v2.msg = v.msg
  PROVE  OnceOK(s, u, v2, done)
<1>1. Queued(u, v) \in Nat /\ Left(u) \in Nat /\ Len(v.batch) \in Nat /\ Cardinality(u.inflight) \in Nat
  BY Counts
<1>2. Queued(u, v2) = Queued(u, v) /\ \A k : QueuedAt(u, v2, k) = QueuedAt(u, v, k)  BY DEF Queued, QueuedAt
<1>3. Len(v2.batch) = 0 /\ DOMAIN v2.batch = {}  OBVIOUS
<1>4. QueueOK(s, u, v, done) => QueueOK(s, u, v2, done)  BY <1>2 DEF QueueOK
<1>5. BatchOK(s, u, v2, done)  BY <1>3 DEF BatchOK
<1>6. AnswersOK(s, u, v, done) => AnswersOK(s, u, v2, done)  BY <1>2, <1>3 DEF AnswersOK
<1>7. SetupOK(u, v) => SetupOK(u, v2)  BY DEF SetupOK
<1>8. QED  BY <1>1, <1>2, <1>3, <1>4, <1>5, <1>6, <1>7 DEF OnceOK

\* The first l of r are answers, each to a request of its own of the batch.
Answering(u, v, l, r, f) ==
    /\ f \in [1 .. l -> DOMAIN v.batch] /\ l \in Nat /\ l <= Len(v.batch)
    /\ \A i, j \in 1 .. l : f[i] = f[j] => i = j
    /\ \A i \in 1 .. l : /\ r[i][1] = v.batch[f[i]]
                         /\ r[i][2] = "ok" <=> u.desc[v.batch[f[i]]].kind = "out"

\* The used ring after push has written them.
Pushed(n, l, r, old, new) ==
    /\ DOMAIN new = Slots
    /\ \A x \in Slots : \/ \E i \in 1 .. l : (n + i - 1) % Num = x /\ new[x] = r[i]
                        \/ (\A i \in 1 .. l : (n + i - 1) % Num # x) /\ new[x] = old[x]

LEMMA PublishQueue ==
  ASSUME NEW s, NEW u, NEW v, NEW u2, NEW v2, NEW done, NEW l, NEW r, NEW f,
         GuestOK(u), SessionOK(v), RequestsOK(u), OnceOK(s, u, v, done), u.setups = 1, v.pump = "publish",
         Answering(u, v, l, r, f), Pushed(v.usedIdx, l, r, u.used, u2.used),
         u2.setups = u.setups, u2.next = u.next, u2.availIdx = u.availIdx, u2.avail = u.avail,
         u2.seen = u.seen, u2.inflight = u.inflight, u2.desc = u.desc, u2.posts = u.posts,
         u2.usedIdx = (v.usedIdx + l) % IdxMod,
         ~Busy(v2), v2.batch = <<>>, v2.lastAvail = v.lastAvail, v2.usedIdx = (v.usedIdx + l) % IdxMod,
         v2.mem = v.mem, v2.ring = v.ring, v2.msg = v.msg
  PROVE  RequestsOK(u2) /\ OnceOK(s, u2, v2, done)
<1> DEFINE n == Left(u)
<1>1. /\ Queued(u, v) \in Nat /\ n \in Nat /\ Len(v.batch) \in Nat /\ DOMAIN v.batch = 1 .. Len(v.batch)
      /\ u.usedIdx \in Indices /\ u.seen \in Indices
      /\ Num \in Nat \ {0} /\ IdxMod \in Nat \ {0} /\ IdxMod > Num
      /\ Cardinality(u.inflight) \in Nat /\ Cardinality(u.inflight) <= Num
  BY Counts
<1>2. /\ Queued(u, v) + Len(v.batch) + n <= Cardinality(u.inflight) /\ QueueOK(s, u, v, done)
      /\ BatchOK(s, u, v, done) /\ AnswersOK(s, u, v, done) /\ SetupOK(u, v) /\ v.usedIdx = u.usedIdx
      /\ \A i : <<s, i>> \in done => i \in Nat /\ i <= u.posts
  BY DEF OnceOK
<1>3. l \in Nat /\ l <= Len(v.batch) /\ n + l <= Num  BY <1>1, <1>2 DEF Answering
<1>4. u2.usedIdx \in Indices /\ Left(u2) = n + l
  <2>1. Behind(u.usedIdx, u.seen) + l < IdxMod  BY <1>1, <1>3 DEF Left
  <2>2. QED  BY <1>1, <1>2, <1>3, <2>1, NewestMoves DEF Left
<1>5. RequestsOK(u2)  BY <1>4 DEF RequestsOK, Indices, Pushed
<1>6. \A i \in 1 .. l : (v.usedIdx + i - 1) % Num = (u.seen + (n + i - 1)) % Num
  <2> SUFFICES ASSUME NEW i \in 1 .. l PROVE (v.usedIdx + i - 1) % Num = (u.seen + (n + i - 1)) % Num  OBVIOUS
  <2>1. i - 1 \in Nat /\ u.usedIdx \in Nat /\ u.seen \in Nat  BY <1>1, <1>3 DEF Indices
  <2>2. (u.usedIdx + (i - 1)) % Num = (u.seen + Behind(u.usedIdx, u.seen) + (i - 1)) % Num
    BY <1>1, <2>1, BehindSlot
  <2>3. u.usedIdx + (i - 1) = u.usedIdx + i - 1 /\ u.seen + n + (i - 1) = u.seen + (n + i - 1)  BY <1>1, <2>1
  <2>4. QED  BY <1>2, <2>2, <2>3 DEF Left
<1> HIDE DEF n
<1>7. \A j \in 0 .. n - 1 : LeftAt(u2, j) = LeftAt(u, j)
  <2> SUFFICES ASSUME NEW j \in 0 .. n - 1 PROVE LeftAt(u2, j) = LeftAt(u, j)  OBVIOUS
  <2> DEFINE x == (u.seen + j) % Num
  <2>1. u.seen \in Nat /\ j \in Nat /\ u.seen + j \in Nat  BY <1>1 DEF Indices
  <2>2. x \in Slots  BY <2>1, Index
  <2>3. ASSUME NEW i \in 1 .. l PROVE (v.usedIdx + i - 1) % Num # x
    <3>1. u.seen + (n + i - 1) \in Nat /\ u.seen + j < u.seen + (n + i - 1)
          /\ u.seen + (n + i - 1) < (u.seen + j) + Num
      BY <1>1, <1>3, <2>1
    <3>2. QED  BY <1>6, <2>1, <3>1, SlotsApart
  <2>4. u2.used[x] = u.used[x]  BY <2>2, <2>3 DEF Pushed
  <2>5. QED  BY <2>4 DEF LeftAt
<1>8. \A i \in 1 .. l : LeftAt(u2, n + i - 1) = r[i]
  <2> SUFFICES ASSUME NEW i \in 1 .. l PROVE LeftAt(u2, n + i - 1) = r[i]  OBVIOUS
  <2> DEFINE x == (u.seen + (n + i - 1)) % Num
  <2>1. u.seen \in Nat /\ u.seen + (n + i - 1) \in Nat  BY <1>1, <1>3 DEF Indices
  <2>2. x \in Slots  BY <2>1, Index
  <2>3. PICK k \in 1 .. l : (v.usedIdx + k - 1) % Num = x /\ u2.used[x] = r[k]  BY <1>6, <2>2 DEF Pushed
  <2>4. k = i
    <3>1. (u.seen + (n + k - 1)) % Num = (u.seen + (n + i - 1)) % Num  BY <1>6, <2>3
    <3>2. CASE k < i
      <4>1. u.seen + (n + k - 1) \in Nat /\ u.seen + (n + k - 1) < u.seen + (n + i - 1)
            /\ u.seen + (n + i - 1) < (u.seen + (n + k - 1)) + Num
        BY <1>1, <1>3, <2>1, <3>2
      <4>2. QED  BY <2>1, <3>1, <4>1, SlotsApart
    <3>3. CASE i < k
      <4>1. u.seen + (n + k - 1) \in Nat /\ u.seen + (n + i - 1) < u.seen + (n + k - 1)
            /\ u.seen + (n + k - 1) < (u.seen + (n + i - 1)) + Num
        BY <1>1, <1>3, <2>1, <3>3
      <4>2. QED  BY <2>1, <3>1, <4>1, SlotsApart
    <3>4. QED  BY <3>2, <3>3
  <2>5. QED  BY <2>3, <2>4 DEF LeftAt
<1>9. \A h : Wrote(s, u2, h, done) = Wrote(s, u, h, done)  BY DEF Wrote
<1>10. Queued(u2, v2) = Queued(u, v) /\ \A k : QueuedAt(u2, v2, k) = QueuedAt(u, v, k)  BY DEF Queued, QueuedAt
<1>11. QueueOK(s, u2, v2, done)  BY <1>2, <1>9, <1>10 DEF QueueOK
<1>12. Len(v2.batch) = 0 /\ DOMAIN v2.batch = {}  OBVIOUS
<1>13. BatchOK(s, u2, v2, done)  BY <1>12 DEF BatchOK
<1>14. AnswersOK(s, u2, v2, done)
  <2>1. \A j \in 0 .. n + l - 1 : j \in 0 .. n - 1 \/ \E i \in 1 .. l : j = n + i - 1
    <3> SUFFICES ASSUME NEW j \in 0 .. n + l - 1, j \notin 0 .. n - 1 PROVE \E i \in 1 .. l : j = n + i - 1  OBVIOUS
    <3>1. j - n + 1 \in 1 .. l /\ j = n + (j - n + 1) - 1  BY <1>1, <1>3
    <3>2. QED  BY <3>1
  <2>2. \A i \in 1 .. l : /\ f[i] \in DOMAIN v.batch /\ v.batch[f[i]] \in u.inflight
                          /\ Wrote(s, u, v.batch[f[i]], done) <=> u.desc[v.batch[f[i]]].kind = "out"
                          /\ \A k \in 0 .. Queued(u, v) - 1 : v.batch[f[i]] # QueuedAt(u, v, k)
    BY <1>2 DEF BatchOK, Answering
  <2>3. \A i \in 1 .. l : /\ r[i][1] \in u.inflight /\ (r[i][2] = "ok" <=> Wrote(s, u, r[i][1], done))
                          /\ \A k \in 0 .. Queued(u, v) - 1 : r[i][1] # QueuedAt(u, v, k)
    BY <2>2 DEF Answering
  <2>4. \A j \in 0 .. n - 1 : /\ LeftAt(u, j)[1] \in u.inflight
                              /\ LeftAt(u, j)[2] = "ok" <=> Wrote(s, u, LeftAt(u, j)[1], done)
                              /\ \A k \in 0 .. Queued(u, v) - 1 : LeftAt(u, j)[1] # QueuedAt(u, v, k)
                              /\ \A i \in DOMAIN v.batch : LeftAt(u, j)[1] # v.batch[i]
    BY <1>2 DEF AnswersOK, n
  <2>5. \A j \in 0 .. n + l - 1 : /\ LeftAt(u2, j)[1] \in u.inflight
                                  /\ LeftAt(u2, j)[2] = "ok" <=> Wrote(s, u, LeftAt(u2, j)[1], done)
                                  /\ \A k \in 0 .. Queued(u, v) - 1 : LeftAt(u2, j)[1] # QueuedAt(u, v, k)
    BY <1>7, <1>8, <2>1, <2>3, <2>4
  <2>6. \A j \in 0 .. n - 1, i \in 1 .. l : LeftAt(u, j)[1] # r[i][1]  BY <2>2, <2>4 DEF Answering
  <2>7. \A i, j \in 1 .. l : r[i][1] = r[j][1] => i = j  BY <1>2, <2>2 DEF BatchOK, Answering
  <2>8. \A i, j \in 0 .. n - 1 : LeftAt(u, i)[1] = LeftAt(u, j)[1] => i = j  BY <1>2 DEF AnswersOK, n
  <2>9. ASSUME NEW j \in 0 .. n + l - 1, NEW k \in 0 .. n + l - 1, LeftAt(u2, j)[1] = LeftAt(u2, k)[1]
        PROVE  j = k
    <3>1. CASE j \in 0 .. n - 1 /\ k \in 0 .. n - 1  BY <1>7, <2>8, <2>9, <3>1
    <3>2. CASE j \in 0 .. n - 1 /\ \E i \in 1 .. l : k = n + i - 1  BY <1>7, <1>8, <2>6, <2>9, <3>2
    <3>3. CASE k \in 0 .. n - 1 /\ \E i \in 1 .. l : j = n + i - 1  BY <1>7, <1>8, <2>6, <2>9, <3>3
    <3>4. CASE (\E i \in 1 .. l : j = n + i - 1) /\ \E i \in 1 .. l : k = n + i - 1
      BY <1>8, <2>7, <2>9, <3>4
    <3>5. QED  BY <2>1, <3>1, <3>2, <3>3, <3>4
  <2>10. \A j \in 0 .. Left(u2) - 1 : j \in 0 .. n + l - 1  BY <1>1, <1>3, <1>4
  <2>11. \A j \in 0 .. Left(u2) - 1 : /\ LeftAt(u2, j)[1] \in u2.inflight
                                      /\ LeftAt(u2, j)[2] = "ok" <=> Wrote(s, u2, LeftAt(u2, j)[1], done)
    BY <1>9, <2>5, <2>10
  <2>12. \A j \in 0 .. Left(u2) - 1, k \in 0 .. Queued(u2, v2) - 1 : LeftAt(u2, j)[1] # QueuedAt(u2, v2, k)
    BY <1>10, <2>5, <2>10
  <2>13. QED  BY <1>12, <2>9, <2>10, <2>11, <2>12 DEF AnswersOK
<1>15. Queued(u2, v2) + Len(v2.batch) + Left(u2) <= Cardinality(u2.inflight)
  BY <1>1, <1>2, <1>3, <1>4, <1>10, <1>12 DEF n
<1>16. SetupOK(u2, v2)  BY <1>2 DEF SetupOK
<1>17. QED  BY <1>2, <1>5, <1>11, <1>13, <1>14, <1>15, <1>16 DEF OnceOK

\* Every place among the elements of a set of positions is taken.
LEMMA Ranked ==
  ASSUME NEW m \in Nat, NEW A \in SUBSET (1 .. m), NEW n \in 1 .. Cardinality(A)
  PROVE  \E i \in A : Cardinality({j \in A : j <= i}) = n
<1> DEFINE below(i) == {j \in A : j <= i}
           L == Cardinality(A)
           rank == [i \in A |-> Cardinality(below(i))]
<1>1. IsFiniteSet(A) /\ L \in Nat
  <2>1. IsFiniteSet(1 .. m)  BY FS_Interval
  <2>2. QED  BY <2>1, FS_Subset, FS_CardinalityType
<1>2. \A i \in A : IsFiniteSet(below(i)) /\ Cardinality(below(i)) \in Nat /\ Cardinality(below(i)) <= L
  BY <1>1, FS_Subset, FS_CardinalityType
<1>3. \A i \in A : Cardinality(below(i)) # 0
  <2>1. \A i \in A : i \in below(i)  OBVIOUS
  <2>2. \A i \in A : below(i) # {}  BY <2>1
  <2>3. QED  BY <1>2, <2>2, FS_EmptySet
<1>4. ASSUME NEW i \in A, NEW k \in A, i < k PROVE Cardinality(below(i)) # Cardinality(below(k))
  <2>0. i \in Nat /\ k \in Nat /\ \A j \in A : j \in Nat /\ (j <= i => j <= k)  BY <1>4
  <2>1. below(i) \in SUBSET below(k)  BY <2>0
  <2>2. k \in below(k) /\ k \notin below(i)  BY <1>4
  <2>3. below(i) # below(k)  BY <2>2
  <2>4. IsFiniteSet(below(k))  BY <1>2
  <2> HIDE DEF below
  <2>5. QED  BY <2>1, <2>3, <2>4, FS_Subset
<1>5. rank \in [A -> 1 .. L]  BY <1>1, <1>2, <1>3
<1>6. \A i, k \in A : rank[i] = rank[k] => i = k  BY <1>4
<1>7. rank \in Injection(A, 1 .. L)  BY <1>5, <1>6 DEF Injection, IsInjective
<1>8. IsFiniteSet(1 .. L) /\ Cardinality(1 .. L) = L
  <2>1. IsFiniteSet(1 .. L) /\ Cardinality(1 .. L) = IF 1 > L THEN 0 ELSE L - 1 + 1  BY <1>1, FS_Interval
  <2>2. QED  BY <1>1, <2>1
<1>9. rank \in Surjection(A, 1 .. L)
  <2> HIDE DEF rank, L
  <2>1. Cardinality(A) = Cardinality(1 .. L)  BY <1>8 DEF L
  <2>2. QED  BY <1>7, <1>8, <2>1, FS_Injection
<1>10. \E i \in A : rank[i] = n  BY <1>9 DEF Surjection
<1>11. QED  BY <1>10

\* The answers to a batch are answers to requests of their own.
LEMMA ResultsAnswer ==
  ASSUME NEW s \in Sessions, GuestOK(g[s]), SessionOK(d[s]), RequestsOK(g[s])
  PROVE  \E f : Answering(g[s], d[s], Len(Results(s)), Results(s), f)
<1> DEFINE A == Answered(s)
           b == d[s].batch
           L == Cardinality(A)
           pick(n) == CHOOSE i \in A : Cardinality({j \in A : j <= i}) = n
           f == [n \in 1 .. L |-> pick(n)]
           r == Results(s)
<1>1. Len(b) \in Nat /\ DOMAIN b = 1 .. Len(b) /\ b \in Seq(Slots)  BY Counts
<1>2. A \in SUBSET (1 .. Len(b))  BY <1>1 DEF Answered
<1>3. IsFiniteSet(1 .. Len(b)) /\ Cardinality(1 .. Len(b)) = Len(b)
  <2>1. IsFiniteSet(1 .. Len(b)) /\ Cardinality(1 .. Len(b)) = IF 1 > Len(b) THEN 0 ELSE Len(b) - 1 + 1
    BY <1>1, FS_Interval
  <2>2. QED  BY <1>1, <2>1
<1>4. L \in Nat /\ L <= Len(b)  BY <1>2, <1>3, FS_Subset, FS_CardinalityType
<1>5. \A n \in 1 .. L : pick(n) \in A /\ Cardinality({j \in A : j <= pick(n)}) = n
  <2> HIDE DEF A, b
  <2>1. \A n \in 1 .. L : \E i \in A : Cardinality({j \in A : j <= i}) = n  BY <1>1, <1>2, Ranked
  <2>2. QED  BY <2>1
<1>6. r = [n \in 1 .. L |-> <<b[pick(n)], process(s, b[pick(n)])>>]  BY DEF Results
<1>7. \A n \in 1 .. L : process(s, b[pick(n)]) = "ok" <=> g[s].desc[b[pick(n)]].kind = "out"
  BY DEF process
<1> HIDE DEF A, b, r, pick
<1>8. Len(r) = L
  <2>1. DOMAIN r = 1 .. L  BY <1>6
  <2>2. \A q, k : k \in Nat /\ DOMAIN q = 1 .. k => Len(q) = k  OBVIOUS
  <2> HIDE DEF L
  <2>3. QED  BY <1>4, <2>1, <2>2
<1>9. f \in [1 .. L -> DOMAIN b]  BY <1>1, <1>2, <1>5
<1>10. \A i, j \in 1 .. L : f[i] = f[j] => i = j  BY <1>5
<1>11. \A i \in 1 .. L : r[i][1] = b[f[i]] /\ (r[i][2] = "ok" <=> g[s].desc[b[f[i]]].kind = "out")
  BY <1>6, <1>7
<1> HIDE DEF f, L
<1>12. Answering(g[s], d[s], L, r, f)  BY <1>4, <1>9, <1>10, <1>11 DEF Answering, b
<1>13. QED  BY <1>8, <1>12 DEF r

\* What a pop phase keeps is a prefix of what is queued.
LEMMA PoppedPrefix ==
  ASSUME NEW s \in Sessions, GuestOK(g[s]), SessionOK(d[s]), RequestsOK(g[s]), Current(s)
  PROVE  /\ Popped(s).count \in Nat /\ Popped(s).count <= Queued(g[s], d[s])
         /\ Popped(s).batch \in Seq(Slots) /\ Len(Popped(s).batch) <= Popped(s).count
         /\ \A i \in 1 .. Len(Popped(s).batch) : Popped(s).batch[i] = QueuedAt(g[s], d[s], i - 1)
<1> DEFINE a == Available(s)
           bad == {i \in DOMAIN a : g[s].desc[a[i]].kind = "bad"}
           k == Min({Waiting(s), pumpMaxBatch})
           q == Queued(g[s], d[s])
<1>1. q \in Nat /\ d[s].lastAvail \in Indices /\ Num \in Nat \ {0} /\ IdxMod \in Nat \ {0}  BY Counts
<1>2. Waiting(s) = q  BY DEF Waiting, Queued, Behind
<1>3. k \in Nat /\ k <= q  BY <1>1, <1>2, Room
<1>4. \A i \in 1 .. k : g[s].avail[(d[s].lastAvail + i - 1) % Num] = QueuedAt(g[s], d[s], i - 1)
  <2>1. \A i \in 1 .. k : d[s].lastAvail + i - 1 = d[s].lastAvail + (i - 1)  BY <1>1, <1>3 DEF Indices
  <2>2. QED  BY <2>1 DEF QueuedAt
<1>5. a \in Seq(Slots) /\ Len(a) = k /\ DOMAIN a = 1 .. k /\ \A i \in 1 .. k : a[i] = QueuedAt(g[s], d[s], i - 1)
  <2>1. a = [i \in 1 .. k |-> g[s].avail[(d[s].lastAvail + i - 1) % Num]]  BY DEF Available
  <2>2. \A i \in 1 .. k : g[s].avail[(d[s].lastAvail + i - 1) % Num] \in Slots
    <3>1. \A i \in 1 .. k : d[s].lastAvail + i - 1 \in Nat  BY <1>1, <1>3 DEF Indices
    <3>2. QED  BY <3>1, Index DEF GuestOK
  <2> HIDE DEF a, k
  <2>3. QED  BY <1>3, <1>4, <2>1, <2>2
<1>6. CASE bad = {}
  <2>1. Popped(s) = [batch |-> a, count |-> Len(a)]  BY <1>6 DEF Popped
  <2> HIDE DEF a, k, q
  <2>2. Popped(s).batch = a /\ Popped(s).count = k  BY <1>5, <2>1
  <2>3. QED  BY <1>3, <1>5, <2>2 DEF q
<1>7. CASE bad # {}
  <2> DEFINE i == CHOOSE i \in bad : \A j \in bad : i <= j
  <2>1. Popped(s) = [batch |-> SubSeq(a, 1, i - 1), count |-> i]  BY <1>7 DEF Popped
  <2>2. i \in bad
    <3>1. bad \subseteq 1 .. k  BY <1>5
    <3> HIDE DEF bad
    <3> HIDE DEF k
    <3>2. bad \in SUBSET Nat /\ bad # {}  BY <1>3, <1>7, <3>1
    <3>3. \E x \in bad : \A j \in bad : x <= j  BY <3>2, LeastSlot
    <3>4. QED  BY <3>3
  <2>3. i \in 1 .. k  BY <1>5, <2>2
  <2> HIDE DEF i, a, k, q
  <2>4. Popped(s).batch = SubSeq(a, 1, i - 1) /\ Popped(s).count = i
    <3>1. \A x, y : [batch |-> x, count |-> y].batch = x /\ [batch |-> x, count |-> y].count = y  OBVIOUS
    <3>2. QED  BY <2>1, <3>1, Zenon
  <2>5. \A j \in 1 .. i - 1 : a[j] \in Slots  BY <1>3, <1>5, <2>3
  <2>6. /\ SubSeq(a, 1, i - 1) \in Seq(Slots)
        /\ Len(SubSeq(a, 1, i - 1)) = IF 1 <= i - 1 THEN i - 1 - 1 + 1 ELSE 0
        /\ \A j \in 1 .. i - 1 - 1 + 1 : SubSeq(a, 1, i - 1)[j] = a[1 + j - 1]
    BY <1>3, <2>3, <2>5, SubSeqProperties
  <2>7. Len(SubSeq(a, 1, i - 1)) = i - 1  BY <1>3, <2>3, <2>6
  <2>8. \A j \in 1 .. i - 1 : j \in 1 .. i - 1 - 1 + 1 /\ j \in 1 .. k /\ 1 + j - 1 = j  BY <1>3, <2>3
  <2>9. \A j \in 1 .. i - 1 : SubSeq(a, 1, i - 1)[j] = QueuedAt(g[s], d[s], j - 1)
    BY <1>5, <2>6, <2>8
  <2>10. i \in Nat /\ i <= q  BY <1>1, <1>3, <2>3
  <2>11. QED  BY <2>4, <2>6, <2>7, <2>9, <2>10 DEF q
<1>8. QED  BY <1>6, <1>7

\* A step of one session.
LEMMA AnswerStep ==
  ASSUME AnswerInv, VhostInv', NEW s \in Sessions,
         \A x \in Sessions : x # s => g'[x] = g[x] /\ d'[x] = d[x],
         AnswerOK(s, g'[s], d'[s], written'), written \subseteq written',
         \A x, i : x # s /\ <<x, i>> \in written' => <<x, i>> \in written,
         g'[s].setups <= 1 => s \notin twice', \A x : x # s /\ x \in twice' => x \in twice
  PROVE  AnswerInv'
<1> SUFFICES ASSUME NEW x \in Sessions
             PROVE  AnswerOK(x, g'[x], d'[x], written') /\ (g'[x].setups <= 1 => x \notin twice')
  BY DEF AnswerInv
<1>1. CASE x = s  BY <1>1
<1>2. CASE x # s
  <2>1. AnswerOK(x, g[x], d[x], written) /\ (g[x].setups <= 1 => x \notin twice)  BY DEF AnswerInv
  <2>2. OnceOK(x, g[x], d[x], written')  BY <1>2, <2>1, OthersWrites DEF AnswerOK
  <2>3. QED  BY <1>2, <2>1, <2>2 DEF AnswerOK
<1>3. QED  BY <1>1, <1>2

\* What the server keeps of a queue in most steps.
SameServer(v, v2) == /\ v2.lastAvail = v.lastAvail /\ v2.usedIdx = v.usedIdx /\ v2.batch = v.batch
                     /\ Busy(v2) <=> Busy(v)
                     /\ Busy(v2) => v2.pump = v.pump

\* A step of one session that leaves its rings alone.
LEMMA QuietStep ==
  ASSUME AnswerInv, VhostInv', NEW s \in Sessions, written' = written, twice' = twice,
         \A x \in Sessions : x # s => g'[x] = g[x] /\ d'[x] = d[x],
         SameRings(g[s], g'[s]), SameServer(d[s], d'[s]), g[s].setups = 1 => SetupOK(g'[s], d'[s])
  PROVE  AnswerInv'
<1>1. AnswerOK(s, g[s], d[s], written) /\ (g[s].setups <= 1 => s \notin twice)  BY DEF AnswerInv
<1>2. OnceOK(s, g'[s], d'[s], written)  BY <1>1, SameQueue DEF AnswerOK, SameServer
<1>3. RequestsOK(g'[s])  BY <1>1 DEF AnswerOK, SameRings, RequestsOK
<1>4. AnswerOK(s, g'[s], d'[s], written')  BY <1>1, <1>2, <1>3 DEF AnswerOK, SameServer
<1>5. g'[s].setups = g[s].setups  BY DEF SameRings
<1>6. QED  BY <1>1, <1>4, <1>5, AnswerStep

\* The same for a step of the server.
LEMMA QuietServer ==
  ASSUME AnswerInv, VhostInv', NEW s \in Sessions, written' = written, twice' = twice, g' = g,
         NEW v, d' = [d EXCEPT ![s] = v], SameServer(d[s], v), g[s].setups = 1 => SetupOK(g[s], v)
  PROVE  AnswerInv'
<1>1. d = [x \in Sessions |-> d[x]]  BY DEF AnswerInv, VhostInv
<1>2. d'[s] = v /\ \A x \in Sessions : x # s => d'[x] = d[x]  BY <1>1, OneSession
<1>3. SameRings(g[s], g'[s])  BY DEF SameRings
<1>4. QED  BY <1>2, <1>3, QuietStep

\* And of the guest.
LEMMA QuietGuest ==
  ASSUME AnswerInv, VhostInv', NEW s \in Sessions, written' = written, twice' = twice, d' = d,
         NEW u, g' = [g EXCEPT ![s] = u], SameRings(g[s], u), u.next = g[s].next
  PROVE  AnswerInv'
<1>1. g = [x \in Sessions |-> g[x]]  BY DEF AnswerInv, VhostInv
<1>2. g'[s] = u /\ \A x \in Sessions : x # s => g'[x] = g[x]  BY <1>1, OneSession
<1>3. SameServer(d[s], d'[s])  BY DEF SameServer
<1>4. g[s].setups = 1 => SetupOK(g'[s], d'[s])
  <2>1. OnceOK(s, g[s], d[s], written)  BY DEF AnswerInv, AnswerOK
  <2>2. QED  BY <1>2, <2>1 DEF OnceOK, SetupOK
<1>5. QED  BY <1>2, <1>3, <1>4, QuietStep

LEMMA AnswerInit == ASSUME VhostInit PROVE AnswerInv
<1>1. VhostInv  BY VhostInitInv
<1> SUFFICES ASSUME NEW s \in Sessions PROVE AnswerOK(s, g[s], d[s], written) /\ s \notin twice
  BY <1>1 DEF AnswerInv
<1>2. g[s] = NewGuest /\ d[s] = newSession /\ written = {} /\ twice = {}  BY DEF VhostInit
<1>3. /\ NewGuest.setups = 0 /\ NewGuest.usedIdx = 0 /\ NewGuest.seen = 0 /\ NewGuest.availIdx = 0
      /\ NewGuest.posts = 0 /\ NewGuest.inflight = {} /\ DOMAIN NewGuest.desc = Slots /\ DOMAIN NewGuest.used = Slots
  BY DEF NewGuest
<1>4. newSession.lastAvail = 0 /\ newSession.usedIdx = 0 /\ ~Busy(newSession) /\ newSession.batch = <<>>
  BY DEF newSession, Busy
<1>5. RequestsOK(NewGuest)  BY <1>3, VhostAssumption DEF RequestsOK
<1>6. OnceOK(s, NewGuest, newSession, written)  BY <1>2, <1>3, <1>4 DEF OnceOK
<1>7. QED  BY <1>2, <1>4, <1>5, <1>6 DEF AnswerOK

\* What is known of one session.
LEMMA Known ==
  ASSUME AnswerInv, NEW s \in Sessions
  PROVE  /\ GuestOK(g[s]) /\ SessionOK(d[s]) /\ Mapped(g[s].setups, d[s])
         /\ g = [x \in Sessions |-> g[x]] /\ d = [x \in Sessions |-> d[x]]
         /\ RequestsOK(g[s]) /\ OnceOK(s, g[s], d[s], written) /\ (~Busy(d[s]) => d[s].batch = <<>>)
         /\ (g[s].setups = 1 => SetupOK(g[s], d[s])) /\ (g[s].setups <= 1 => s \notin twice)
<1>1. VhostInv /\ AnswerOK(s, g[s], d[s], written) /\ (g[s].setups <= 1 => s \notin twice)  BY DEF AnswerInv
<1>2. /\ GuestOK(g[s]) /\ SessionOK(d[s]) /\ Mapped(g[s].setups, d[s])
      /\ g = [x \in Sessions |-> g[x]] /\ d = [x \in Sessions |-> d[x]]
  BY <1>1 DEF VhostInv
<1>3. RequestsOK(g[s]) /\ OnceOK(s, g[s], d[s], written) /\ (~Busy(d[s]) => d[s].batch = <<>>)  BY <1>1 DEF AnswerOK
<1>4. g[s].setups = 1 => SetupOK(g[s], d[s])  BY <1>3 DEF OnceOK
<1>5. QED  BY <1>1, <1>2, <1>3, <1>4

\* Closing leaves the queue alone.
LEMMA ClosingQueue ==
  ASSUME AnswerInv, NEW s \in Sessions, NEW who
  PROVE  LET v == BeginClose(s, who)
         IN  /\ v = [x \in SessionFields |-> v[x]] /\ SameServer(d[s], v)
             /\ v.mem = d[s].mem /\ v.ring = d[s].ring /\ v.msg = d[s].msg
<1>1. SessionOK(d[s])  BY Known
<1>2. QED  BY <1>1 DEF BeginClose, SessionOK, SessionFields, SameServer, Busy

\* The listener.
LEMMA ListenerAnswers == ASSUME AnswerInv, VhostInv', Accept \/ Replace \/ Close \/ CloseDone PROVE AnswerInv'
<1>1. written' = written /\ twice' = twice  BY DEF Accept, Replace, Close, CloseDone
<1>2. VhostInv  BY DEF AnswerInv
<1>3. CASE g' = g /\ d' = d  BY <1>1, <1>3 DEF AnswerInv
<1>4. ASSUME g' = g, server.cur # 0, d' = [d EXCEPT ![server.cur] = BeginClose(server.cur, "server")] PROVE AnswerInv'
  <2>1. server.cur \in Sessions  BY <1>2, <1>4, CurNat
  <2> DEFINE v == BeginClose(server.cur, "server")
  <2>2. SameServer(d[server.cur], v) /\ v.mem = d[server.cur].mem /\ v.ring = d[server.cur].ring
        /\ v.msg = d[server.cur].msg
    BY <2>1, ClosingQueue
  <2>3. g[server.cur].setups = 1 => SetupOK(g[server.cur], v)
    BY <2>1, <2>2, Known DEF SetupOK, SameServer
  <2> HIDE DEF v
  <2>4. QED  BY <1>1, <1>4, <2>1, <2>2, <2>3, QuietServer DEF v
<1>5. ASSUME NEW s \in Sessions, d' = d, g' = [g EXCEPT ![s].up = TRUE] PROVE AnswerInv'
  <2> DEFINE u == [g[s] EXCEPT !.up = TRUE]
  <2>1. g' = [g EXCEPT ![s] = u]  BY <1>5, Known
  <2>2. SameRings(g[s], u) /\ u.next = g[s].next  BY Known DEF GuestOK, GuestFields, SameRings
  <2> HIDE DEF u
  <2>3. QED  BY <1>1, <1>5, <2>1, <2>2, QuietGuest
<1>6. CASE Accept
  <2>1. server.cur < lim.sessions /\ 1 \in 1 .. lim.sessions  BY <1>2, <1>6, CurNat DEF Accept
  <2>2. 1 \in Sessions  BY <1>2, <2>1, CurNat
  <2>3. CASE server.cur = 0  BY <1>5, <1>6, <2>2, <2>3 DEF Accept
  <2>4. CASE server.cur # 0  BY <1>4, <1>6, <2>4 DEF Accept
  <2>5. QED  BY <2>3, <2>4
<1>7. CASE Replace
  <2>1. server.cur \in 1 .. lim.sessions - 1  BY <1>2, <1>7 DEF Replace, VhostInv, ServerOK
  <2>2. server.cur + 1 \in 1 .. lim.sessions  BY <1>2, <2>1, CurNat
  <2>3. server.cur + 1 \in Sessions  BY <1>2, <2>2, CurNat
  <2>4. QED  BY <1>5, <1>7, <2>3 DEF Replace
<1>8. CASE Close  BY <1>3, <1>4, <1>8 DEF Close
<1>9. CASE CloseDone  BY <1>3, <1>9 DEF CloseDone
<1>10. QED  BY <1>6, <1>7, <1>8, <1>9

LEMMA LeaveAnswers == ASSUME AnswerInv, VhostInv', NEW s \in Sessions, Leave(s) PROVE AnswerInv'
<1> DEFINE u == [g[s] EXCEPT !.up = FALSE]
<1>1. g' = [g EXCEPT ![s] = u] /\ d' = d /\ written' = written /\ twice' = twice  BY Known DEF Leave
<1>2. SameRings(g[s], u) /\ u.next = g[s].next  BY Known DEF GuestOK, GuestFields, SameRings
<1> HIDE DEF u
<1>3. QED  BY <1>1, <1>2, QuietGuest

LEMMA KickAnswers == ASSUME AnswerInv, VhostInv', NEW s \in Sessions, Kick(s) PROVE AnswerInv'
<1> DEFINE u == [g[s] EXCEPT !.kicked = TRUE]
           v == [d[s] EXCEPT !.pending = d[s].pending \cup {g[s].setups}]
<1>1. g' = [g EXCEPT ![s] = u] /\ d' = [d EXCEPT ![s] = v] /\ written' = written /\ twice' = twice  BY Known DEF Kick
<1>2. SameRings(g[s], u) /\ u.next = g[s].next  BY Known DEF GuestOK, GuestFields, SameRings
<1>3. SameServer(d[s], v) /\ v.mem = d[s].mem /\ v.ring = d[s].ring /\ v.msg = d[s].msg
  BY Known DEF SessionOK, SessionFields, SameServer, Busy
<1> HIDE DEF u, v
<1>4. g[s].setups = 1 => SetupOK(u, v)  BY <1>2, <1>3, Known DEF SetupOK, SameServer
<1>5. g'[s] = u /\ d'[s] = v /\ \A x \in Sessions : x # s => g'[x] = g[x] /\ d'[x] = d[x]
  BY <1>1, Known, OneSession
<1>6. QED  BY <1>1, <1>2, <1>3, <1>4, <1>5, QuietStep

\* The pump outside a batch, and the end of the control loop.
LEMMA PumpAnswers ==
  ASSUME AnswerInv, VhostInv', NEW s \in Sessions, PumpTop(s) \/ PumpWake(s) \/ PumpWaitFails(s) \/ RunEnds(s)
  PROVE  AnswerInv'
<1>1. written' = written /\ twice' = twice /\ g' = g  BY DEF PumpTop, PumpWake, PumpWaitFails, RunEnds
<1>2. ASSUME NEW v, d' = [d EXCEPT ![s] = v], SameServer(d[s], v), v.mem = d[s].mem, v.ring = d[s].ring, v.msg = d[s].msg
      PROVE  AnswerInv'
  <2>1. g[s].setups = 1 => SetupOK(g[s], v)  BY <1>2, Known DEF SetupOK, SameServer
  <2>2. QED  BY <1>1, <1>2, <2>1, QuietServer
<1>3. CASE PumpTop(s)
  <2> DEFINE v == IF d[s].closed \/ d[s].kick = 0 THEN [d[s] EXCEPT !.pump = "done"]
                  ELSE [d[s] EXCEPT !.pump = "wait", !.pumpKick = d[s].kick]
  <2>1. d' = [d EXCEPT ![s] = v]  BY <1>3, Known DEF PumpTop
  <2>2. SameServer(d[s], v) /\ v.mem = d[s].mem /\ v.ring = d[s].ring /\ v.msg = d[s].msg
    BY <1>3, Known DEF SessionOK, SessionFields, SameServer, Busy, PumpTop
  <2> HIDE DEF v
  <2>3. QED  BY <1>2, <2>1, <2>2
<1>4. CASE PumpWake(s)
  <2> DEFINE v == [d[s] EXCEPT !.pump = "drain", !.pending = d[s].pending \ {d[s].pumpKick}]
  <2>1. d' = [d EXCEPT ![s] = v]  BY <1>4, Known DEF PumpWake
  <2>2. SameServer(d[s], v) /\ v.mem = d[s].mem /\ v.ring = d[s].ring /\ v.msg = d[s].msg
    BY <1>4, Known DEF SessionOK, SessionFields, SameServer, Busy, PumpWake
  <2> HIDE DEF v
  <2>3. QED  BY <1>2, <2>1, <2>2
<1>5. CASE PumpWaitFails(s)
  <2> DEFINE v == [d[s] EXCEPT !.pump = "done"]
  <2>1. d' = [d EXCEPT ![s] = v]  BY <1>5, Known DEF PumpWaitFails
  <2>2. SameServer(d[s], v) /\ v.mem = d[s].mem /\ v.ring = d[s].ring /\ v.msg = d[s].msg
    BY <1>5, Known DEF SessionOK, SessionFields, SameServer, Busy, PumpWaitFails
  <2> HIDE DEF v
  <2>3. QED  BY <1>2, <2>1, <2>2
<1>6. CASE RunEnds(s)
  <2> DEFINE b == BeginClose(s, "run")
             v == [b EXCEPT !.run = "ended"]
  <2>1. d' = [d EXCEPT ![s] = v]  BY <1>6 DEF RunEnds
  <2>2. b = [x \in SessionFields |-> b[x]] /\ SameServer(d[s], b) /\ b.mem = d[s].mem /\ b.ring = d[s].ring
        /\ b.msg = d[s].msg
    BY ClosingQueue
  <2> HIDE DEF b
  <2>3. SameServer(d[s], v) /\ v.mem = d[s].mem /\ v.ring = d[s].ring /\ v.msg = d[s].msg
    BY <2>2 DEF SessionFields, SameServer, Busy
  <2> HIDE DEF v
  <2>4. QED  BY <1>2, <2>1, <2>3
<1>7. QED  BY <1>3, <1>4, <1>5, <1>6

\* The frontend's messages, in their order.
LEMMA SendAnswers ==
  ASSUME AnswerInv, VhostInv', NEW s \in Sessions, NEW m, Send(s, m)
  PROVE  AnswerInv'
<1> DEFINE v == [d[s] EXCEPT !.msg = m]
<1>1. d' = [d EXCEPT ![s] = v] /\ written' = written /\ twice' = twice  BY Known DEF Send
<1>2. SameServer(d[s], v) /\ v.mem = d[s].mem /\ v.ring = d[s].ring /\ v.msg = m
  BY Known DEF SessionOK, SessionFields, SameServer, Busy
<1> HIDE DEF v
<1>3. d'[s] = v /\ \A x \in Sessions : x # s => d'[x] = d[x]  BY <1>1, Known, OneSession
<1>4. m \in {"mem", "base", "addr"} => g[s].next = m  BY DEF Send, Messages
<1>5. CASE m = "mem"
  <2> DEFINE u == [NewGuest EXCEPT !.up = TRUE, !.next = Then(s, m), !.setups = g[s].setups + 1,
                                   !.posts = g[s].posts, !.odd = g[s].odd]
  <2>1. g' = [g EXCEPT ![s] = u]  BY <1>5 DEF Send
  <2>2. g'[s] = u /\ \A x \in Sessions : x # s => g'[x] = g[x]  BY <2>1, Known, OneSession
  <2>3. /\ u.setups = g[s].setups + 1 /\ u.posts = g[s].posts /\ u.availIdx = 0 /\ u.usedIdx = 0 /\ u.seen = 0
        /\ u.inflight = {} /\ DOMAIN u.desc = Slots /\ DOMAIN u.used = Slots
    BY DEF NewGuest
  <2> HIDE DEF u
  <2>4. g[s].setups \in Nat /\ u.setups \in Nat \ {0}
    <3>1. g[s].setups \in Nat  BY Known DEF GuestOK
    <3>2. QED  BY <2>3, <3>1
  <2>5. RequestsOK(u)  BY <2>3, Known, VhostAssumption DEF RequestsOK
  <2>6. \A i : <<s, i>> \in written /\ u.setups <= 1 => i \in Nat /\ i <= u.posts
    <3>1. u.setups <= 1 => g[s].setups <= 1  BY <2>3, <2>4
    <3>2. OnceOK(s, g[s], d[s], written)  BY Known
    <3>3. QED  BY <2>3, <3>1, <3>2 DEF OnceOK
  <2>7. u.setups = 1 => SetupOK(u, v) /\ v.lastAvail = 0 /\ v.usedIdx = 0 /\ v.batch = <<>>
    <3>1. u.setups = 1 => g[s].setups = 0  BY <2>3, <2>4
    <3>2. g[s].setups = 0 => d[s].mem = 0 /\ d[s].ring = 0  BY Known DEF Mapped
    <3>3. g[s].setups = 0 => d[s].lastAvail = 0 /\ d[s].usedIdx = 0 /\ ~Busy(d[s])  BY Known DEF OnceOK
    <3>4. g[s].setups = 0 => d[s].batch = <<>>  BY <3>3, Known
    <3>5. QED  BY <1>2, <1>5, <3>1, <3>2, <3>3, <3>4 DEF SetupOK, SameServer
  <2>8. OnceOK(s, u, v, written)  BY <2>3, <2>4, <2>6, <2>7, EmptyQueue
  <2>9. ~Busy(v) => v.batch = <<>>  BY <1>2, Known DEF SameServer
  <2>10. AnswerOK(s, u, v, written)  BY <2>5, <2>8, <2>9 DEF AnswerOK
  <2>11. u.setups <= 1 => s \notin twice
    <3>1. u.setups <= 1 => g[s].setups <= 1  BY <2>3, <2>4
    <3>2. QED  BY <3>1, Known
  <2>12. QED  BY <1>1, <1>3, <2>2, <2>10, <2>11, AnswerStep
<1>6. CASE m # "mem"
  <2> DEFINE u == [g[s] EXCEPT !.next = Then(s, m)]
  <2>1. g' = [g EXCEPT ![s] = u]  BY <1>6, Known DEF Send
  <2>2. g'[s] = u /\ \A x \in Sessions : x # s => g'[x] = g[x]  BY <2>1, Known, OneSession
  <2>3. SameRings(g[s], u) /\ u.next = Then(s, m)  BY Known DEF GuestOK, GuestFields, SameRings
  <2> HIDE DEF u
  <2>4. u.next # "base"  BY <1>6, <2>3 DEF Then
  <2>5. g[s].setups = 1 => SetupOK(u, v)
    BY <1>2, <1>4, <2>4, Known DEF SetupOK, SameServer
  <2>6. QED  BY <1>1, <1>2, <1>3, <2>2, <2>3, <2>5, QuietStep
<1>7. QED  BY <1>5, <1>6

\* The pump may start, which leaves the queue alone.
LEMMA StartQueue ==
  ASSUME NEW v, SessionOK(v)
  PROVE  LET w == maybeStartPump(v)
         IN  SameServer(v, w) /\ w.mem = v.mem /\ w.ring = v.ring /\ w.msg = v.msg
BY DEF maybeStartPump, SessionOK, SessionFields, SameServer, Busy

\* The handlers.
LEMMA handleAnswers == ASSUME AnswerInv, VhostInv', NEW s \in Sessions, handle(s) PROVE AnswerInv'
<1>1. written' = written /\ twice' = twice /\ g' = g  BY DEF handle
<1>2. SessionOK(d[s]) /\ Mapped(g[s].setups, d[s]) /\ (g[s].setups = 1 => SetupOK(g[s], d[s]))  BY Known
<1>3. ASSUME NEW v, d' = [d EXCEPT ![s] = v], SameServer(d[s], v), v.mem = d[s].mem \/ v.mem \in {0, g[s].setups},
             v.ring = d[s].ring, v.msg = "none"
      PROVE  AnswerInv'
  <2>1. g[s].setups = 1 => SetupOK(g[s], v)  BY <1>2, <1>3 DEF SetupOK, SameServer
  <2>2. QED  BY <1>1, <1>3, <2>1, QuietServer
<1>4. CASE d[s].msg = "mem"
  <2>1. CASE setMemTable(s)
    <3> DEFINE v == [d[s] EXCEPT !.mem = g[s].setups, !.msg = "none"]
    <3>1. d' = [d EXCEPT ![s] = v]  BY <2>1, Known DEF setMemTable
    <3>2. SameServer(d[s], v) /\ v.mem = g[s].setups /\ v.ring = d[s].ring /\ v.msg = "none"
      BY <1>2 DEF SessionOK, SessionFields, SameServer, Busy
    <3> HIDE DEF v
    <3>3. QED  BY <1>3, <3>1, <3>2
  <2>2. CASE setMemTableFails(s)
    <3> DEFINE b == BeginClose(s, "run")
               v == [b EXCEPT !.mem = 0, !.msg = "none", !.run = "ended"]
    <3>1. d' = [d EXCEPT ![s] = v]  BY <2>2 DEF setMemTableFails
    <3>2. b = [x \in SessionFields |-> b[x]] /\ SameServer(d[s], b) /\ b.ring = d[s].ring  BY ClosingQueue
    <3> HIDE DEF b
    <3>3. SameServer(d[s], v) /\ v.mem = 0 /\ v.ring = d[s].ring /\ v.msg = "none"
      BY <3>2 DEF SessionFields, SameServer, Busy
    <3> HIDE DEF v
    <3>4. QED  BY <1>3, <3>1, <3>3
  <2>3. QED  BY <1>4, <2>1, <2>2 DEF handle
<1>5. CASE d[s].msg = "base"
  <2> DEFINE v == [d[s] EXCEPT !.lastAvail = 0, !.msg = "none"]
  <2>1. d' = [d EXCEPT ![s] = v]  BY <1>5, Known DEF handle
  <2>2. /\ v.mem = d[s].mem /\ v.ring = d[s].ring /\ v.msg = "none" /\ v.lastAvail = 0 /\ v.batch = d[s].batch
        /\ v.usedIdx = d[s].usedIdx /\ v.pump = d[s].pump
    BY <1>2 DEF SessionOK, SessionFields
  <2> HIDE DEF v
  <2>3. g[s].setups = 1 => d[s].lastAvail = 0 /\ SetupOK(g[s], v)  BY <1>2, <1>5, <2>2 DEF SetupOK
  <2>4. g[s].setups = 0 => d[s].lastAvail = 0  BY Known DEF OnceOK
  <2>5. g[s].setups \in Nat  BY Known DEF GuestOK
  <2>6. g[s].setups <= 1 => v.lastAvail = d[s].lastAvail  BY <2>2, <2>3, <2>4, <2>5
  <2>7. SameRings(g[s], g[s]) /\ (Busy(v) => v.pump = d[s].pump)  BY <2>2 DEF SameRings
  <2>8. OnceOK(s, g[s], v, written)  BY <2>2, <2>3, <2>6, <2>7, Known, SameQueue
  <2>9. AnswerOK(s, g[s], v, written)  BY <2>2, <2>8, Known DEF AnswerOK, Busy
  <2>10. d'[s] = v /\ \A x \in Sessions : x # s => d'[x] = d[x]  BY <2>1, Known, OneSession
  <2>11. QED  BY <1>1, <2>9, <2>10, Known, AnswerStep
<1>6. CASE d[s].msg = "addr"
  <2> DEFINE v == [d[s] EXCEPT !.ring = d[s].mem, !.msg = "none"]
  <2>1. d' = [d EXCEPT ![s] = v]  BY <1>6, Known DEF handle, setup
  <2>2. SameServer(d[s], v) /\ v.mem = d[s].mem /\ v.ring = d[s].mem /\ v.msg = "none"
    BY <1>2 DEF SessionOK, SessionFields, SameServer, Busy
  <2> HIDE DEF v
  <2>3. g[s].setups = 1 => d[s].ring \in {0, d[s].mem}  BY <1>2 DEF Mapped
  <2>4. g[s].setups = 1 => SetupOK(g[s], v)  BY <1>2, <1>6, <2>2, <2>3 DEF SetupOK, SameServer
  <2>5. QED  BY <1>1, <2>1, <2>2, <2>4, QuietServer
<1>7. CASE d[s].msg = "kick"
  <2> DEFINE w == [d[s] EXCEPT !.kick = g[s].setups, !.msg = "none"]
             v == maybeStartPump(w)
  <2>1. d' = [d EXCEPT ![s] = v]  BY <1>7 DEF handle, setVringFile
  <2>2. SessionOK(w)  BY <1>2, Known DEF SessionOK, SessionFields, Busy, GuestOK
  <2>3. SameServer(d[s], w) /\ w.mem = d[s].mem /\ w.ring = d[s].ring /\ w.msg = "none"
    BY <1>2 DEF SessionOK, SessionFields, SameServer, Busy
  <2> HIDE DEF w
  <2>4. SameServer(w, v) /\ v.mem = w.mem /\ v.ring = w.ring /\ v.msg = w.msg  BY <2>2, StartQueue
  <2> HIDE DEF v
  <2>5. SameServer(d[s], v)  BY <2>3, <2>4 DEF SameServer
  <2>6. QED  BY <1>3, <2>1, <2>3, <2>4, <2>5
<1>8. CASE d[s].msg = "enable"
  <2> DEFINE w == [d[s] EXCEPT !.enabled = TRUE, !.msg = "none"]
             v == maybeStartPump(w)
  <2>1. d' = [d EXCEPT ![s] = v]  BY <1>8 DEF handle
  <2>2. SessionOK(w)  BY <1>2 DEF SessionOK, SessionFields, Busy
  <2>3. SameServer(d[s], w) /\ w.mem = d[s].mem /\ w.ring = d[s].ring /\ w.msg = "none"
    BY <1>2 DEF SessionOK, SessionFields, SameServer, Busy
  <2> HIDE DEF w
  <2>4. SameServer(w, v) /\ v.mem = w.mem /\ v.ring = w.ring /\ v.msg = w.msg  BY <2>2, StartQueue
  <2> HIDE DEF v
  <2>5. SameServer(d[s], v)  BY <2>3, <2>4 DEF SameServer
  <2>6. QED  BY <1>3, <2>1, <2>3, <2>4, <2>5
<1>9. CASE d[s].msg \notin {"mem", "base", "addr", "kick", "enable"}
  <2> DEFINE v == [d[s] EXCEPT !.enabled = IF d[s].msg = "disable" THEN FALSE ELSE d[s].enabled, !.msg = "none"]
  <2>1. d' = [d EXCEPT ![s] = v]
    <3>1. CASE d[s].msg = "disable"  BY <1>9, <3>1, Known DEF handle
    <3>2. CASE d[s].msg # "disable"
      <4>1. d' = [d EXCEPT ![s].msg = "none"]  BY <1>9, <3>2 DEF handle
      <4>2. v = [d[s] EXCEPT !.msg = "none"]  BY <1>2, <3>2 DEF SessionOK, SessionFields
      <4>3. QED  BY <4>1, <4>2
    <3>3. QED  BY <3>1, <3>2
  <2>2. SameServer(d[s], v) /\ v.mem = d[s].mem /\ v.ring = d[s].ring /\ v.msg = "none"
    BY <1>2 DEF SessionOK, SessionFields, SameServer, Busy
  <2> HIDE DEF v
  <2>3. QED  BY <1>3, <2>1, <2>2
<1>10. QED  BY <1>4, <1>5, <1>6, <1>7, <1>8, <1>9

LEMMA TeardownAnswers == ASSUME AnswerInv, VhostInv', NEW s \in Sessions, Teardown(s) PROVE AnswerInv'
<1> DEFINE u == [NewGuest EXCEPT !.up = g[s].up, !.setups = g[s].setups, !.posts = g[s].posts, !.odd = g[s].odd]
           v == [newSession EXCEPT !.closed = TRUE, !.torn = TRUE, !.msg = d[s].msg, !.run = d[s].run,
                                   !.closer = d[s].closer, !.pump = "done"]
<1>1. g' = [g EXCEPT ![s] = u] /\ d' = [d EXCEPT ![s] = v] /\ written' = written /\ twice' = twice
  BY DEF Teardown
<1>2. /\ u.setups = g[s].setups /\ u.posts = g[s].posts /\ u.availIdx = 0 /\ u.usedIdx = 0 /\ u.seen = 0
      /\ u.inflight = {} /\ DOMAIN u.desc = Slots /\ DOMAIN u.used = Slots /\ u.next = "mem"
  BY DEF NewGuest
<1>3. /\ v.lastAvail = 0 /\ v.usedIdx = 0 /\ v.batch = <<>> /\ v.pump = "done" /\ v.mem = 0 /\ v.ring = 0
      /\ v.msg = d[s].msg
  BY DEF newSession
<1> HIDE DEF u, v
<1>4. g'[s] = u /\ d'[s] = v /\ \A x \in Sessions : x # s => g'[x] = g[x] /\ d'[x] = d[x]
  BY <1>1, Known, OneSession
<1>5. RequestsOK(u)
  <2>1. u.posts \in Nat  BY <1>2, Known DEF RequestsOK
  <2>2. 0 \in 0 .. IdxMod - 1  BY VhostAssumption
  <2>3. QED  BY <1>2, <2>1, <2>2 DEF RequestsOK
<1>6. SetupOK(u, v)  BY <1>2, <1>3 DEF SetupOK
<1>7. \A i : <<s, i>> \in written /\ u.setups <= 1 => i \in Nat /\ i <= u.posts  BY <1>2, Known DEF OnceOK
<1>8. OnceOK(s, u, v, written)
  <2>1. u.setups \in Nat  BY <1>2, Known DEF GuestOK
  <2>2. CASE u.setups = 0  BY <1>2, <1>3, <1>7, <2>2 DEF OnceOK, Busy
  <2>3. CASE u.setups # 0
    <3>1. u.setups \in Nat \ {0}  BY <2>1, <2>3
    <3>2. QED  BY <1>2, <1>3, <1>6, <1>7, <3>1, EmptyQueue
  <2>4. QED  BY <2>2, <2>3
<1>9. AnswerOK(s, u, v, written)  BY <1>3, <1>5, <1>8 DEF AnswerOK
<1>10. u.setups <= 1 => s \notin twice  BY <1>2, Known
<1>11. QED  BY <1>1, <1>4, <1>9, <1>10, AnswerStep

\* A step of the guest that changes its rings.
LEMMA GuestAnswers ==
  ASSUME AnswerInv, VhostInv', NEW s \in Sessions, written' = written, twice' = twice, d' = d,
         NEW u, g' = [g EXCEPT ![s] = u], u.setups = g[s].setups, RequestsOK(u), OnceOK(s, u, d[s], written)
  PROVE  AnswerInv'
<1>1. g'[s] = u /\ \A x \in Sessions : x # s => g'[x] = g[x]  BY Known, OneSession
<1>2. AnswerOK(s, u, d[s], written)  BY Known DEF AnswerOK
<1>3. u.setups <= 1 => s \notin twice  BY Known
<1>4. QED  BY <1>1, <1>2, <1>3, AnswerStep

LEMMA ReapAnswers == ASSUME AnswerInv, VhostInv', NEW s \in Sessions, Reap(s) PROVE AnswerInv'
<1> DEFINE u == [g[s] EXCEPT !.seen = (g[s].seen + 1) % IdxMod, !.inflight = g[s].inflight \ {Answer(s)[1]}]
<1>1. /\ g' = [g EXCEPT ![s] = u] /\ d' = d /\ written' = written /\ twice' = twice /\ g[s].seen # g[s].usedIdx
  BY Known DEF Reap
<1>2. /\ u.setups = g[s].setups /\ u.next = g[s].next /\ u.usedIdx = g[s].usedIdx /\ u.used = g[s].used
      /\ u.availIdx = g[s].availIdx /\ u.avail = g[s].avail /\ u.desc = g[s].desc /\ u.posts = g[s].posts
      /\ u.seen = (g[s].seen + 1) % IdxMod /\ u.inflight = g[s].inflight \ {Answer(s)[1]}
  BY Known DEF GuestOK, GuestFields
<1> HIDE DEF u
<1>3. u.inflight = g[s].inflight \ {g[s].used[g[s].seen % Num][1]}  BY <1>2 DEF Answer
<1>4. RequestsOK(u) /\ OnceOK(s, u, d[s], written)  BY <1>1, <1>2, <1>3, Known, ReapQueue
<1>5. QED  BY <1>1, <1>2, <1>4, GuestAnswers

LEMMA PostAnswers ==
  ASSUME AnswerInv, VhostInv', NEW s \in Sessions, NEW h \in Slots, NEW k \in Kinds, Post(s, h, k)
  PROVE  AnswerInv'
<1> DEFINE at == g[s].availIdx % Num
           u == [g[s] EXCEPT !.desc = [g[s].desc EXCEPT ![h] = [id |-> g[s].posts + 1, kind |-> k]],
                             !.avail = [g[s].avail EXCEPT ![at] = h],
                             !.availIdx = (g[s].availIdx + 1) % IdxMod, !.kicked = FALSE,
                             !.inflight = g[s].inflight \cup {h}, !.posts = g[s].posts + 1,
                             !.odd = IF k = "out" THEN g[s].odd ELSE g[s].odd + 1]
<1>0. GuestOK(g[s]) /\ g = [x \in Sessions |-> g[x]]  BY Known
<1>1. g' = [g EXCEPT ![s] = u] /\ d' = d /\ written' = written /\ twice' = twice /\ h \notin g[s].inflight
  BY <1>0 DEF Post, GuestOK, GuestFields
<1>2. /\ u.setups = g[s].setups /\ u.next = g[s].next /\ u.usedIdx = g[s].usedIdx /\ u.used = g[s].used
      /\ u.seen = g[s].seen /\ u.desc = [g[s].desc EXCEPT ![h] = [id |-> g[s].posts + 1, kind |-> k]]
      /\ u.avail = [g[s].avail EXCEPT ![g[s].availIdx % Num] = h]
      /\ u.availIdx = (g[s].availIdx + 1) % IdxMod /\ u.inflight = g[s].inflight \cup {h}
      /\ u.posts = g[s].posts + 1
  BY Known DEF GuestOK, GuestFields
<1> HIDE DEF u
<1>3. RequestsOK(u) /\ OnceOK(s, u, d[s], written)  BY <1>1, <1>2, Known, PostQueue
<1>4. QED  BY <1>1, <1>2, <1>3, GuestAnswers

\* A queue that was set up again promises nothing.
LEMMA Again == ASSUME NEW s, NEW u, NEW v, NEW done, u.setups \in Nat, ~(u.setups <= 1) PROVE OnceOK(s, u, v, done)
BY DEF OnceOK

\* A pump with rings of the first queue has those of the guest.
LEMMA FirstRings ==
  ASSUME AnswerInv, NEW s \in Sessions, g[s].setups <= 1, d[s].ring # 0
  PROVE  g[s].setups = 1 /\ Current(s)
<1>1. g[s].setups \in Nat  BY Known DEF GuestOK
<1>2. g[s].setups # 0 /\ d[s].ring = d[s].mem  BY Known DEF Mapped
<1>3. g[s].setups = 1  BY <1>1, <1>2
<1>4. d[s].mem \in {0, 1}  BY <1>3, Known DEF SetupOK
<1>5. QED  BY <1>2, <1>3, <1>4 DEF Current

LEMMA popBatchAnswers == ASSUME AnswerInv, VhostInv', NEW s \in Sessions, popBatch(s) PROVE AnswerInv'
<1>1. /\ GuestOK(g[s]) /\ SessionOK(d[s]) /\ d = [x \in Sessions |-> d[x]] /\ RequestsOK(g[s])
      /\ OnceOK(s, g[s], d[s], written) /\ (g[s].setups = 1 => SetupOK(g[s], d[s]))
  BY Known
<1>2. written' = written /\ twice' = twice /\ g' = g /\ d[s].pump = "drain" /\ ~Busy(d[s])  BY DEF popBatch, Busy
<1>3. CASE d[s].closed \/ d[s].ring = 0
  <2> DEFINE v == [d[s] EXCEPT !.pump = "top"]
  <2>1. d' = [d EXCEPT ![s] = v]  BY <1>1, <1>3 DEF popBatch
  <2>2. SameServer(d[s], v) /\ v.mem = d[s].mem /\ v.ring = d[s].ring /\ v.msg = d[s].msg
    BY <1>1, <1>2 DEF SessionOK, SessionFields, SameServer, Busy
  <2> HIDE DEF v
  <2>3. g[s].setups = 1 => SetupOK(g[s], v)  BY <1>1, <2>2 DEF SetupOK, SameServer
  <2>4. QED  BY <1>2, <2>1, <2>2, <2>3, QuietServer
<1>4. CASE ~(d[s].closed \/ d[s].ring = 0)
  <2> DEFINE p == Popped(s)
             next == IF p.batch = <<>> THEN "top" ELSE "io"
             last == Advanced(d[s], p.count)
             v == [d[s] EXCEPT !.batch = p.batch, !.sg = d[s].mem, !.lastAvail = last, !.pump = next]
  <2>1. d' = [d EXCEPT ![s] = v]  BY <1>1, <1>4 DEF popBatch
  <2>2. next \in {"top", "io"} /\ (next = "top" => p.batch = <<>>)  OBVIOUS
  <2>3. last = (d[s].lastAvail + p.count) % IdxMod  BY DEF Advanced
  <2> HIDE DEF p, next, last
  <2>4. /\ v.pump = next /\ v.msg = d[s].msg /\ v.mem = d[s].mem /\ v.ring = d[s].ring /\ v.usedIdx = d[s].usedIdx
        /\ v.batch = p.batch /\ v.lastAvail = last
    BY <1>1 DEF SessionOK, SessionFields
  <2> HIDE DEF v
  <2>5. ~Busy(v) => v.batch = <<>>  BY <2>2, <2>4 DEF Busy
  <2>6. OnceOK(s, g[s], v, written)
    <3>1. CASE g[s].setups <= 1
      <4>1. g[s].setups = 1 /\ Current(s)  BY <1>4, <3>1, FirstRings
      <4>2. /\ p.count \in Nat /\ p.count <= Queued(g[s], d[s])
            /\ p.batch \in Seq(Slots) /\ Len(p.batch) <= p.count
            /\ \A i \in 1 .. Len(p.batch) : p.batch[i] = QueuedAt(g[s], d[s], i - 1)
        BY <1>1, <4>1, PoppedPrefix DEF p
      <4>3. d[s].batch = <<>> /\ d[s].ring # 0  BY <1>2, <1>4, Known
      <4>4. QED  BY <1>1, <2>2, <2>3, <2>4, <4>1, <4>2, <4>3, PopQueue
    <3>2. CASE ~(g[s].setups <= 1)  BY <1>1, <3>2, Again DEF GuestOK
    <3>3. QED  BY <3>1, <3>2
  <2>7. AnswerOK(s, g[s], v, written)  BY <1>1, <2>5, <2>6 DEF AnswerOK
  <2>8. d'[s] = v /\ \A x \in Sessions : x # s => d'[x] = d[x]  BY <1>1, <2>1, OneSession
  <2>9. QED  BY <1>2, <2>7, <2>8, Known, AnswerStep
<1>5. QED  BY <1>3, <1>4

LEMMA runBatchAnswers == ASSUME AnswerInv, VhostInv', NEW s \in Sessions, runBatch(s) PROVE AnswerInv'
<1> DEFINE b == d[s].batch
           outs == {<<s, g[s].desc[h].id>> : h \in {h \in Range(b) : process(s, h) = "ok"}}
           v == [d[s] EXCEPT !.pump = "publish"]
<1>1. /\ GuestOK(g[s]) /\ SessionOK(d[s]) /\ d = [x \in Sessions |-> d[x]] /\ RequestsOK(g[s])
      /\ OnceOK(s, g[s], d[s], written)
  BY Known
<1>2. d' = [d EXCEPT ![s] = v] /\ g' = g /\ d[s].pump = "io" /\ written' = written \cup outs
  BY <1>1 DEF runBatch
<1>3. twice' = IF outs \cap written = {} /\ IsInjective(b) THEN twice ELSE twice \cup {s}  BY DEF runBatch
<1>4. /\ v.pump = "publish" /\ v.msg = d[s].msg /\ v.mem = d[s].mem /\ v.ring = d[s].ring
      /\ v.usedIdx = d[s].usedIdx /\ v.batch = b /\ v.lastAvail = d[s].lastAvail
  BY <1>1 DEF SessionOK, SessionFields
<1>5. \A h : process(s, h) = "ok" <=> g[s].desc[h].kind = "out"  BY DEF process
<1>6. \A p : p \in outs <=> \E i \in DOMAIN b : p = <<s, g[s].desc[b[i]].id>> /\ g[s].desc[b[i]].kind = "out"
  BY <1>5 DEF Range
<1> HIDE DEF v, outs
<1>7. \A x, i : x # s /\ <<x, i>> \in written' => <<x, i>> \in written
  <2>1. \A x, i : x # s => <<x, i>> \notin outs  BY <1>6
  <2>2. QED  BY <1>2, <2>1
<1>8. ASSUME g[s].setups <= 1 PROVE OnceOK(s, g[s], v, written \cup outs) /\ twice' = twice
  <2>1. /\ OnceOK(s, g[s], v, written \cup outs) /\ outs \cap written = {}
        /\ \A i, j \in DOMAIN b : b[i] = b[j] => i = j
    BY <1>1, <1>2, <1>4, <1>6, <1>8, IoQueue
  <2>2. QED  BY <1>3, <2>1 DEF IsInjective
<1>9. OnceOK(s, g[s], v, written')
  <2>1. CASE ~(g[s].setups <= 1)  BY <1>1, <2>1, Again DEF GuestOK
  <2>2. QED  BY <1>2, <1>8, <2>1
<1>10. AnswerOK(s, g[s], v, written')  BY <1>1, <1>4, <1>9 DEF AnswerOK, Busy
<1>11. d'[s] = v /\ \A x \in Sessions : x # s => d'[x] = d[x]  BY <1>1, <1>2, OneSession
<1>12. g[s].setups <= 1 => s \notin twice'  BY <1>8, Known
<1>13. \A x : x # s /\ x \in twice' => x \in twice  BY <1>3
<1>14. written \subseteq written'  BY <1>2
<1>15. QED  BY <1>2, <1>7, <1>10, <1>11, <1>12, <1>13, <1>14, AnswerStep

\* push puts the answers behind the index it is at.
LEMMA PushedAt ==
  ASSUME NEW s \in Sessions, NEW r, NEW l \in Nat, DOMAIN r = 1 .. l, GuestOK(g[s]), g = [x \in Sessions |-> g[x]]
  PROVE  LET u == push(s, r)[s]
         IN  /\ u.usedIdx = (d[s].usedIdx + Len(r)) % IdxMod /\ Pushed(d[s].usedIdx, l, r, g[s].used, u.used)
             /\ u.setups = g[s].setups /\ u.next = g[s].next /\ u.availIdx = g[s].availIdx /\ u.avail = g[s].avail
             /\ u.seen = g[s].seen /\ u.inflight = g[s].inflight /\ u.desc = g[s].desc /\ u.posts = g[s].posts
<1> DEFINE n == d[s].usedIdx
           at(x) == {i \in DOMAIN r : (n + i - 1) % Num = x}
           new == [x \in Slots |-> IF at(x) = {} THEN g[s].used[x] ELSE r[CHOOSE i \in at(x) : TRUE]]
           idx == (n + Len(r)) % IdxMod
<1>1. push(s, r) = [g EXCEPT ![s] = [g[s] EXCEPT !.used = new, !.usedIdx = idx]]
  BY DEF push, GuestOK, GuestFields
<1>2. Pushed(n, l, r, g[s].used, new)
  <2>1. DOMAIN new = Slots  OBVIOUS
  <2>2. ASSUME NEW x \in Slots, at(x) = {}
        PROVE  (\A i \in 1 .. l : (n + i - 1) % Num # x) /\ new[x] = g[s].used[x]
    BY <2>2
  <2>3. ASSUME NEW x \in Slots, at(x) # {}
        PROVE  \E i \in 1 .. l : (n + i - 1) % Num = x /\ new[x] = r[i]
    <3>1. (CHOOSE i \in at(x) : TRUE) \in at(x)  BY <2>3
    <3>2. new[x] = r[CHOOSE i \in at(x) : TRUE]  BY <2>3
    <3>3. QED  BY <3>1, <3>2
  <2> HIDE DEF new, at
  <2>4. QED  BY <2>1, <2>2, <2>3 DEF Pushed
<1> HIDE DEF new, idx
<1>3. push(s, r)[s] = [g[s] EXCEPT !.used = new, !.usedIdx = idx]  BY <1>1
<1>4. QED  BY <1>2, <1>3 DEF GuestOK, GuestFields, idx

LEMMA publishAnswers == ASSUME AnswerInv, VhostInv', NEW s \in Sessions, publish(s) PROVE AnswerInv'
<1>1. /\ GuestOK(g[s]) /\ SessionOK(d[s]) /\ Mapped(g[s].setups, d[s]) /\ RequestsOK(g[s])
      /\ d = [x \in Sessions |-> d[x]] /\ g = [x \in Sessions |-> g[x]] /\ OnceOK(s, g[s], d[s], written)
  BY Known
<1>2. written' = written /\ twice' = twice /\ d[s].pump = "publish" /\ Busy(d[s])  BY DEF publish, Busy
<1>3. CASE d[s].closed
  <2> DEFINE v == [d[s] EXCEPT !.pump = "done", !.batch = <<>>]
  <2>1. d' = [d EXCEPT ![s] = v] /\ g' = g  BY <1>1, <1>3 DEF publish
  <2>2. /\ v.pump = "done" /\ v.msg = d[s].msg /\ v.mem = d[s].mem /\ v.ring = d[s].ring
        /\ v.usedIdx = d[s].usedIdx /\ v.batch = <<>> /\ v.lastAvail = d[s].lastAvail
    BY <1>1 DEF SessionOK, SessionFields
  <2> HIDE DEF v
  <2>3. ~Busy(v)  BY <2>2 DEF Busy
  <2>4. OnceOK(s, g[s], v, written)  BY <1>1, <2>2, <2>3, DropQueue
  <2>5. AnswerOK(s, g[s], v, written)  BY <1>1, <2>2, <2>4 DEF AnswerOK
  <2>6. d'[s] = v /\ \A x \in Sessions : x # s => d'[x] = d[x]  BY <1>1, <2>1, OneSession
  <2>7. QED  BY <1>2, <2>1, <2>5, <2>6, Known, AnswerStep
<1>4. CASE ~d[s].closed
  <2> DEFINE r == Results(s)
             l == Len(r)
             next == NextPump(s)
             idx == (d[s].usedIdx + l) % IdxMod
             v == [d[s] EXCEPT !.usedIdx = idx, !.batch = <<>>, !.pump = next]
             u == IF Current(s) THEN push(s, r)[s] ELSE g[s]
  <2>1. d' = [d EXCEPT ![s] = v]  BY <1>1, <1>4 DEF publish
  <2>2. g' = [g EXCEPT ![s] = u]  BY <1>1, <1>4 DEF publish, push
  <2>3. PICK f : Answering(g[s], d[s], l, r, f)  BY <1>1, ResultsAnswer
  <2>4. l \in Nat  BY <2>3 DEF Answering
  <2>5. DOMAIN r = 1 .. l
    <3>1. DOMAIN r = 1 .. Cardinality(Answered(s))  BY DEF Results
    <3>2. Cardinality(Answered(s)) \in Nat
      <4>1. DOMAIN d[s].batch = 1 .. Len(d[s].batch) /\ Len(d[s].batch) \in Nat  BY <1>1, Counts
      <4>2. IsFiniteSet(1 .. Len(d[s].batch))  BY <4>1, FS_Interval
      <4>3. Answered(s) \subseteq 1 .. Len(d[s].batch)  BY <4>1 DEF Answered
      <4>4. QED  BY <4>2, <4>3, FS_Subset, FS_CardinalityType
    <3>3. \A q, k : k \in Nat /\ DOMAIN q = 1 .. k => Len(q) = k  OBVIOUS
    <3>4. QED  BY <3>1, <3>2, <3>3
  <2>6. next \in {"top", "drain"}  BY DEF NextPump
  <2>7. idx \in 0 .. IdxMod - 1
    <3>1. d[s].usedIdx + l \in Nat  BY <1>1, <2>4, VhostAssumption DEF SessionOK
    <3>2. QED  BY <3>1, Index
  <2>8. Current(s) => u = push(s, r)[s]  OBVIOUS
  <2>9. ~Current(s) => u = g[s]  OBVIOUS
  <2> HIDE DEF r, next, u
  <2>10. /\ v.pump = next /\ v.msg = d[s].msg /\ v.mem = d[s].mem /\ v.ring = d[s].ring
         /\ v.usedIdx = idx /\ v.batch = <<>> /\ v.lastAvail = d[s].lastAvail
    BY <1>1 DEF SessionOK, SessionFields
  <2>11. Current(s) =>
           /\ u.usedIdx = idx /\ Pushed(d[s].usedIdx, l, r, g[s].used, u.used)
           /\ u.setups = g[s].setups /\ u.next = g[s].next /\ u.availIdx = g[s].availIdx /\ u.avail = g[s].avail
           /\ u.seen = g[s].seen /\ u.inflight = g[s].inflight /\ u.desc = g[s].desc /\ u.posts = g[s].posts
    <3> HIDE DEF l
    <3>1. QED  BY <1>1, <2>4, <2>5, <2>8, PushedAt DEF l
  <2>12. ~Busy(v)  BY <2>6, <2>10 DEF Busy
  <2> HIDE DEF v, l
  <2>13. RequestsOK(u)
    <3>1. CASE Current(s)
      <4>1. DOMAIN u.used = Slots  BY <2>11, <3>1 DEF Pushed
      <4>2. QED  BY <1>1, <2>7, <2>11, <3>1, <4>1 DEF RequestsOK
    <3>2. QED  BY <1>1, <2>9, <3>1
  <2>14. u.setups = g[s].setups  BY <2>9, <2>11
  <2>15. OnceOK(s, u, v, written)
    <3>1. CASE g[s].setups <= 1
      <4>1. d[s].ring # 0  BY <1>1, <1>2, <1>4, <3>1 DEF Mapped
      <4>2. g[s].setups = 1 /\ Current(s)  BY <3>1, <4>1, FirstRings
      <4>3. QED  BY <1>1, <1>2, <2>3, <2>10, <2>11, <2>12, <4>2, PublishQueue
    <3>2. CASE ~(g[s].setups <= 1)  BY <1>1, <2>14, <3>2, Again DEF GuestOK
    <3>3. QED  BY <3>1, <3>2
  <2>16. AnswerOK(s, u, v, written)  BY <2>10, <2>13, <2>15 DEF AnswerOK
  <2>17. g'[s] = u /\ d'[s] = v /\ \A x \in Sessions : x # s => g'[x] = g[x] /\ d'[x] = d[x]
    BY <1>1, <2>1, <2>2, OneSession
  <2>18. u.setups <= 1 => s \notin twice  BY <2>14, Known
  <2>19. QED  BY <1>2, <2>16, <2>17, <2>18, AnswerStep
<1>5. QED  BY <1>3, <1>4

LEMMA AnswerNext == ASSUME AnswerInv, [VhostNext]_vhostVars PROVE AnswerInv'
<1>1. VhostInv'  BY VhostNextInv DEF AnswerInv
<1>2. CASE UNCHANGED vhostVars
  <2>1. g' = g /\ d' = d /\ written' = written /\ twice' = twice  BY <1>2 DEF vhostVars
  <2>2. QED  BY <1>1, <2>1 DEF AnswerInv
<1>3. ASSUME VhostNext PROVE AnswerInv'
  <2>1. CASE Accept \/ Replace \/ Close \/ CloseDone  BY <1>1, <2>1, ListenerAnswers
  <2>2. ASSUME NEW s \in Sessions, Guest(s) PROVE AnswerInv'
    BY <1>1, <2>2, PostAnswers, KickAnswers, ReapAnswers, LeaveAnswers, SendAnswers DEF Guest
  <2>3. ASSUME NEW s \in Sessions, Pump(s) PROVE AnswerInv'
    BY <1>1, <2>3, PumpAnswers, popBatchAnswers, runBatchAnswers, publishAnswers DEF Pump
  <2>4. ASSUME NEW s \in Sessions, handle(s) \/ RunEnds(s) \/ Teardown(s) \/ PumpWaitFails(s) PROVE AnswerInv'
    BY <1>1, <2>4, handleAnswers, PumpAnswers, TeardownAnswers
  <2>5. QED  BY <1>3, <2>1, <2>2, <2>3, <2>4 DEF VhostNext
<1>4. QED  BY <1>2, <1>3

LEMMA AnswerInvSound == ASSUME AnswerInv PROVE AnsweredOnce
<1> SUFFICES ASSUME NEW s \in Sessions, g[s].setups <= 1
             PROVE  /\ s \notin twice
                    /\ \A i \in Unseen(s) : /\ g[s].used[i % Num][1] \in g[s].inflight
                                            /\ g[s].used[i % Num][2] = "ok"
                                               <=> <<s, g[s].desc[g[s].used[i % Num][1]].id>> \in written
                    /\ \A i, j \in Unseen(s) : g[s].used[i % Num][1] = g[s].used[j % Num][1] => i = j
  BY DEF AnsweredOnce
<1>1. /\ GuestOK(g[s]) /\ SessionOK(d[s]) /\ RequestsOK(g[s]) /\ OnceOK(s, g[s], d[s], written) /\ s \notin twice
  BY Known
<1>2. /\ g[s].usedIdx \in Indices /\ g[s].seen \in Indices /\ IdxMod \in Nat \ {0} /\ Num \in Nat \ {0}
      /\ Left(g[s]) \in Nat
  BY <1>1, Counts
<1>3. \A i \in Unseen(s) : i \in Indices /\ Behind(i, g[s].seen) < Left(g[s])
  BY DEF Unseen, Indices, Behind, Left
<1> DEFINE o == g[s].seen
<1>4. \A i \in Indices : /\ Behind(i, o) \in Nat
                         /\ Behind(i, o) = IF i >= o THEN i - o ELSE i + IdxMod - o
                         /\ i % Num = (o + Behind(i, o)) % Num
  <2> SUFFICES ASSUME NEW i \in Indices
               PROVE  /\ Behind(i, o) \in Nat /\ Behind(i, o) = IF i >= o THEN i - o ELSE i + IdxMod - o
                      /\ i % Num = (o + Behind(i, o)) % Num
    OBVIOUS
  <2>1. Behind(i, o) \in Indices /\ Behind(i, o) = IF i >= o THEN i - o ELSE i + IdxMod - o  BY <1>2, BehindOK
  <2>2. Behind(i, o) \in Nat  BY <1>2, <2>1 DEF Indices
  <2> HIDE DEF o
  <2>3. (i + 0) % Num = (o + Behind(i, o) + 0) % Num  BY <1>2, BehindSlot DEF o
  <2>4. i + 0 = i /\ o + Behind(i, o) + 0 = o + Behind(i, o)  BY <1>2, <2>2 DEF o, Indices
  <2>5. QED  BY <2>1, <2>2, <2>3, <2>4
<1>5. CASE g[s].setups = 0
  <2>1. g[s].usedIdx = g[s].seen  BY <1>1, <1>5 DEF OnceOK
  <2>2. Left(g[s]) = 0
    <3>1. (g[s].usedIdx + IdxMod - g[s].seen) = IdxMod  BY <1>2, <2>1 DEF Indices
    <3>2. IdxMod % IdxMod = 0  BY <1>2
    <3>3. QED  BY <3>1, <3>2 DEF Left, Behind
  <2>3. Unseen(s) = {}  BY <1>3, <1>4, <2>2
  <2>4. QED  BY <1>1, <2>3
<1>6. CASE g[s].setups = 1
  <2>1. AnswersOK(s, g[s], d[s], written)  BY <1>1, <1>6 DEF OnceOK
  <2>2. \A i \in Unseen(s) : /\ Behind(i, g[s].seen) \in 0 .. Left(g[s]) - 1
                             /\ g[s].used[i % Num] = LeftAt(g[s], Behind(i, g[s].seen))
    BY <1>2, <1>3, <1>4 DEF LeftAt
  <2>3. \A i, j \in Unseen(s) : Behind(i, g[s].seen) = Behind(j, g[s].seen) => i = j
    <3>1. ASSUME NEW i \in Indices, NEW j \in Indices, Behind(i, o) = Behind(j, o) PROVE i = j
      <4>1. (IF i >= o THEN i - o ELSE i + IdxMod - o) = IF j >= o THEN j - o ELSE j + IdxMod - o  BY <1>4, <3>1
      <4>2. i \in 0 .. IdxMod - 1 /\ j \in 0 .. IdxMod - 1 /\ o \in 0 .. IdxMod - 1  BY <1>2 DEF Indices
      <4> HIDE DEF o
      <4>3. QED  BY <1>2, <4>1, <4>2
    <3>2. QED  BY <1>3, <3>1
  <2>4. QED  BY <1>1, <2>1, <2>2, <2>3 DEF AnswersOK, Wrote
<1>7. g[s].setups \in Nat  BY <1>1 DEF GuestOK
<1>8. QED  BY <1>5, <1>6, <1>7

\* For any queue size, batch size and number of sessions: while a queue is set up
\* once, no write of it is applied twice, and every answer the guest has not yet
\* read is for a request of its own that is in flight, one at most for each, and
\* says "ok" exactly if its write was applied (vring.pop, BlkDev.process, vring.push).
THEOREM RequestsAnswered == VhostSpec => []AnsweredOnce
<1>1. VhostInit => AnswerInv  BY AnswerInit
<1>2. AnswerInv /\ [VhostNext]_vhostVars => AnswerInv'  BY AnswerNext
<1>3. AnswerInv => AnsweredOnce  BY AnswerInvSound
<1>4. QED  BY <1>1, <1>2, <1>3, PTL DEF VhostSpec
=============================================================================
