------------------------------- MODULE Ledger -------------------------------
(***************************************************************************)
(* internal/audit/ledger.go: the append-only, hash-chained journal of one  *)
(* task, its head watermark, and Verify.                                   *)
(*                                                                         *)
(* A Ledger object stands for one audit.Open, in this process or another.  *)
(* obj[o].pc: "new", "scan" (loadTail between its last read and its Stat), *)
(* "open", "torn" (Append after a short write, mu and flock held),         *)
(* "stopping" and "closing" (Close before and after its second section),   *)
(* "closed".  obj[o].flusher is the group-commit goroutine.  A section     *)
(* under mu, with the flock Append takes inside it, is one step; the       *)
(* readers Open and Verify take neither.                                   *)
(***************************************************************************)
EXTENDS Integers, Sequences

CONSTANTS
    Objects,     \* Ledger objects of one task
    MaxRecords,  \* bound: records in the file
    MaxFaults,   \* bound: failed writes, failed truncates and crashes
    None         \* no watermark

\* SHA-256 over the length-prefixed fields: no two chains share a digest.
hashRecord(seq, who, prev) == Append(prev, <<seq, who>>)
Hash == Seq(Nat \X Objects)

Record == [seq: Nat, prev: Hash, hash: Hash]
Watermark == [seq: Nat, hash: Hash]

\* A Ledger object.
Object == [pc: {"new", "scan", "open", "torn", "stopping", "closing", "closed"},
           seq: 0 .. MaxRecords, last: Hash, off: 0 .. MaxRecords,
           pending: Watermark \cup {None}, dirty: BOOLEAN,
           flusher: {"none", "idle", "write", "last", "done"},
           writing: Watermark \cup {None}, closing: Watermark \cup {None}]

ASSUME LedgerAssumption ==
    /\ MaxRecords \in Nat /\ MaxFaults \in Nat
    /\ None \notin Watermark

VARIABLES
    file,    \* the complete records of ledger.jsonl
    torn,    \* half a record follows them
    head,    \* the head watermark file
    obj,     \* the Ledger objects
    ver,     \* a Verify in progress: what it has replayed
    alarm,   \* the last verdict of a Verify
    peak,    \* the highest watermark ever written
    raced,   \* an append fell between the scan and the Stat of an Open
    lost,    \* a pending watermark died with its object
    faults

vars == <<file, torn, head, obj, ver, alarm, peak, raced, lost, faults>>

Fresh == [pc |-> "new", seq |-> 0, last |-> <<>>, off |-> 0, pending |-> None,
          dirty |-> FALSE, flusher |-> "none", writing |-> None, closing |-> None]

Unread == [pc |-> "idle", count |-> 0, last |-> <<>>]
Quiet  == [is |-> "none", count |-> 0]

Init ==
    /\ file = <<>> /\ torn = FALSE /\ head = None
    /\ obj = [o \in Objects |-> Fresh]
    /\ ver = Unread /\ alarm = Quiet
    /\ peak = 0 /\ raced = FALSE /\ lost = FALSE /\ faults = 0

At(o, label) == obj[o].pc = label
Works == UNCHANGED faults
Fails == faults < MaxFaults /\ faults' = faults + 1

\* The flock of the file is free: nobody is inside Append.
Unlocked == \A o \in Objects : ~At(o, "torn")

-----------------------------------------------------------------------------
(* Open and the tail.  Offsets count records: the bytes of a file whose last *)
(* record is whole.  The fall-back for a file that shrank is for tampering.  *)

\* The object's tail after decoding the records from number n + 1 on.
Decoded(x, n) ==
    IF Len(file) <= n THEN x
    ELSE [x EXCEPT !.seq = file[Len(file)].seq, !.last = file[Len(file)].hash]

\* loadTail, to its last read.  Half a record is an error of Open.
OpenScan(o) ==
    /\ At(o, "new") /\ ~torn
    /\ obj' = [obj EXCEPT ![o] = [Decoded(Fresh, 0) EXCEPT !.pc = "scan"]]
    /\ UNCHANGED <<file, torn, head, ver, alarm, peak, raced, lost, faults>>

\* The offset is the size of the file now.  A Stat that counts half a record
\* is left out.
OpenStat(o) ==
    /\ At(o, "scan") /\ ~torn
    /\ obj' = [obj EXCEPT ![o].pc = "open", ![o].off = Len(file)]
    /\ UNCHANGED <<file, torn, head, ver, alarm, peak, raced, lost, faults>>

\* Mutant: the tail is trusted, as if nobody else appended.
refreshTailLocked_Skipped(x) == x

\* Decoding resumes at the offset.  Half a record is an error that leaves the
\* offset where it is.
refreshTailLocked(x) ==
    [Decoded(x, x.off) EXCEPT !.off = IF torn THEN @ ELSE Len(file)]

-----------------------------------------------------------------------------
(* Append. *)

\* The record is in the file: the tail moves, the watermark is pending and the
\* flusher exists.
Written(x, r) ==
    [x EXCEPT !.seq = r.seq, !.last = r.hash, !.off = @ + 1, !.dirty = TRUE,
              !.pending = [seq |-> r.seq, hash |-> r.hash],
              !.flusher = IF @ = "none" THEN "idle" ELSE @]

\* Nothing was written: a retry takes the same number.
Unwound(x) == x

AppendRecord(o) ==
    LET x == refreshTailLocked(obj[o])
        r == [seq |-> x.seq + 1, prev |-> x.last, hash |-> hashRecord(x.seq + 1, o, x.last)]
    IN
    /\ At(o, "open") /\ Unlocked
    /\ Len(file) < MaxRecords
    /\ \/ \* refreshTailLocked failed
          /\ torn /\ obj' = [obj EXCEPT ![o] = x]
          /\ Works /\ UNCHANGED <<file, torn, raced>>
       \/ /\ ~torn /\ file' = Append(file, r) /\ obj' = [obj EXCEPT ![o] = Written(x, r)]
          /\ raced' = (raced \/ \E p \in Objects : At(p, "scan"))
          /\ Works /\ UNCHANGED torn
       \/ \* Encode, Stat or the whole write failed
          /\ ~torn /\ obj' = [obj EXCEPT ![o] = Unwound(x)]
          /\ Fails /\ UNCHANGED <<file, torn, raced>>
       \/ \* a short write
          /\ ~torn /\ torn' = TRUE /\ obj' = [obj EXCEPT ![o] = [Unwound(x) EXCEPT !.pc = "torn"]]
          /\ Fails /\ UNCHANGED <<file, raced>>
    /\ UNCHANGED <<head, ver, alarm, peak, lost>>

\* Truncate to the size before the write; when that fails too the half record stays.
Truncate(o) ==
    /\ At(o, "torn")
    /\ \/ torn' = FALSE /\ Works
       \/ Fails /\ UNCHANGED torn
    /\ obj' = [obj EXCEPT ![o].pc = "open"]
    /\ UNCHANGED <<file, head, ver, alarm, peak, raced, lost>>

-----------------------------------------------------------------------------
(* The watermark. *)

\* writeHeadAtomic replaces the file; it may fail after its rename.
writeHeadAtomic(h, ok) ==
    /\ \/ ok /\ Works /\ head' = h
       \/ ~ok /\ Fails /\ head' \in {head, h}
    /\ peak' = IF head' = h /\ h.seq > peak THEN h.seq ELSE peak

Stopped(o) == obj[o].pc \in {"stopping", "closing", "closed"}

\* flushHead, to its unlock: on a tick, or for the last time after flushStop.
FlushTake(o, final) ==
    /\ obj[o].flusher = "idle" /\ ~At(o, "torn")
    /\ final => Stopped(o)
    /\ obj' = [obj EXCEPT ![o] =
         IF ~obj[o].dirty THEN [@ EXCEPT !.flusher = IF final THEN "done" ELSE "idle"]
         ELSE [@ EXCEPT !.dirty = FALSE, !.writing = obj[o].pending,
                        !.flusher = IF final THEN "last" ELSE "write"]]
    /\ UNCHANGED <<file, torn, head, ver, alarm, peak, raced, lost, faults>>

AfterFlush(o, redo) ==
    [obj EXCEPT ![o].writing = None, ![o].dirty = @ \/ redo,
                ![o].flusher = IF @ = "last" THEN "done" ELSE "idle"]

\* Mutant: a failed write does not mark the watermark again.
FlushWrite_NotMarked(o) ==
    /\ obj[o].flusher \in {"write", "last"}
    /\ \E ok \in BOOLEAN :
         /\ writeHeadAtomic(obj[o].writing, ok) /\ obj' = AfterFlush(o, FALSE)
         /\ lost' = (lost \/ (~ok /\ obj[o].flusher = "last"))
    /\ UNCHANGED <<file, torn, ver, alarm, raced>>

\* The write outside the lock; a failure marks the watermark again, which the
\* last flush can no longer help.
FlushWrite(o) ==
    /\ obj[o].flusher \in {"write", "last"}
    /\ \E ok \in BOOLEAN :
         /\ ok \/ ~At(o, "torn")   \* marking it takes mu
         /\ writeHeadAtomic(obj[o].writing, ok) /\ obj' = AfterFlush(o, ~ok)
         /\ lost' = (lost \/ (~ok /\ obj[o].flusher = "last"))
    /\ UNCHANGED <<file, torn, ver, alarm, raced>>

CloseStop(o) ==
    /\ At(o, "open")
    /\ obj' = [obj EXCEPT ![o].pc = "stopping"]
    /\ UNCHANGED <<file, torn, head, ver, alarm, peak, raced, lost, faults>>

CloseTake(o) ==
    /\ At(o, "stopping")
    /\ obj' = [obj EXCEPT ![o] =
         IF obj[o].dirty THEN [@ EXCEPT !.pc = "closing", !.dirty = FALSE, !.closing = obj[o].pending]
         ELSE [@ EXCEPT !.pc = "closed"]]
    /\ UNCHANGED <<file, torn, head, ver, alarm, peak, raced, lost, faults>>

\* A failure is returned to the caller and the watermark is given up.
CloseWrite(o) ==
    /\ At(o, "closing")
    /\ \E ok \in BOOLEAN :
         /\ writeHeadAtomic(obj[o].closing, ok) /\ lost' = (lost \/ ~ok)
         /\ obj' = [obj EXCEPT ![o].pc = "closed", ![o].closing = None]
    /\ UNCHANGED <<file, torn, ver, alarm, raced>>

\* The process of the object dies; the kernel drops its flock.
Crash(o) ==
    /\ ~At(o, "new") /\ ~At(o, "closed") /\ Fails
    /\ obj' = [obj EXCEPT ![o] = [Fresh EXCEPT !.pc = "closed", !.flusher = "done"]]
    /\ lost' = TRUE
    /\ UNCHANGED <<file, torn, head, ver, alarm, peak, raced>>

-----------------------------------------------------------------------------
(* Verify, from the handler and the online monitor. *)

PrevOf(i) == IF i = 1 THEN <<>> ELSE file[i - 1].hash

\* Record i follows record i - 1 and carries its own digest.
Links(i) == /\ file[i].prev = PrevOf(i)
            /\ Len(file[i].hash) > 0
            /\ file[i].hash = hashRecord(file[i].seq, file[i].hash[Len(file[i].hash)][2], PrevOf(i))

Verdict(what, n) == alarm' = [is |-> what, count |-> n]

VerifyScan ==
    /\ ver.pc = "idle"
    /\ \/ file = <<>> /\ ~torn /\ alarm' = Quiet /\ UNCHANGED ver   \* no file yet
       \/ \E i \in DOMAIN file : ~Links(i) /\ Verdict("chain", Len(file)) /\ UNCHANGED ver
       \/ /\ \A i \in DOMAIN file : Links(i)
          /\ \/ torn /\ Verdict("decode", Len(file)) /\ UNCHANGED ver
             \/ /\ ~torn /\ UNCHANGED alarm
                /\ ver' = [pc |-> "head", count |-> Len(file), last |-> PrevOf(Len(file) + 1)]
    /\ UNCHANGED <<file, torn, head, obj, peak, raced, lost, faults>>

\* Mutant: a watermark the replay has just reached counts as truncation.
VerifyHead_OffByOne ==
    /\ ver.pc = "head"
    /\ IF head # None /\ ver.count <= head.seq THEN Verdict("truncated", ver.count)
       ELSE alarm' = Quiet
    /\ ver' = Unread
    /\ UNCHANGED <<file, torn, head, obj, peak, raced, lost, faults>>

\* The watermark is read after the records.
VerifyHead ==
    /\ ver.pc = "head"
    /\ CASE head # None /\ ver.count < head.seq -> Verdict("truncated", ver.count)
         [] head # None /\ ver.count = head.seq /\ ver.last # head.hash -> Verdict("mismatch", ver.count)
         [] OTHER -> alarm' = Quiet
    /\ ver' = Unread
    /\ UNCHANGED <<file, torn, head, obj, peak, raced, lost, faults>>

Next ==
    \/ \E o \in Objects : \/ OpenScan(o) \/ OpenStat(o) \/ AppendRecord(o) \/ Truncate(o)
                          \/ \E final \in BOOLEAN : FlushTake(o, final)
                          \/ FlushWrite(o) \/ CloseStop(o) \/ CloseTake(o) \/ CloseWrite(o)
                          \/ Crash(o)
    \/ VerifyScan \/ VerifyHead

\* The ticker of a flusher keeps firing, a stopped flusher sees flushStop, and
\* a started Append or Close goes on.
Fairness == \A o \in Objects :
    /\ WF_vars(Truncate(o)) /\ WF_vars(CloseTake(o)) /\ WF_vars(CloseWrite(o))
    /\ WF_vars(FlushTake(o, FALSE)) /\ WF_vars(FlushTake(o, TRUE)) /\ WF_vars(FlushWrite(o))

Spec == Init /\ [][Next]_vars /\ Fairness

-----------------------------------------------------------------------------
(* Properties. *)

\* Every variable has its type; a number is taken only with its record.
TypeOK ==
    /\ file \in Seq(Record) /\ Len(file) <= MaxRecords /\ torn \in BOOLEAN
    /\ head \in Watermark \cup {None}
    /\ obj \in [Objects -> Object]
    /\ ver \in [pc: {"idle", "head"}, count: 0 .. MaxRecords, last: Hash]
    /\ alarm \in [is: {"none", "chain", "decode", "truncated", "mismatch"}, count: 0 .. MaxRecords]
    /\ peak \in 0 .. MaxRecords /\ raced \in BOOLEAN /\ lost \in BOOLEAN
    /\ faults \in 0 .. MaxFaults

\* The records on disk are numbered from one and each is chained to the one
\* before it, whichever objects wrote them and whatever writes failed
\* (Append: "multiple processes appending ... serialize correctly").
Chained == \A i \in DOMAIN file : file[i].seq = i /\ Links(i)

\* The same, as long as no append falls inside an Open (loadTail takes no lock).
ChainIntact == ~raced => Chained

\* The watermark on disk names a record on disk by its number and digest, even
\* after stale flushes, failed writes and crashes (flushHead, Close).
HeadNeverAhead ==
    ~raced /\ head # None => head.seq \in DOMAIN file /\ file[head.seq].hash = head.hash

\* On a ledger nobody tampered with, Verify reports neither a broken chain nor
\* a wrong head; it reports truncation only when the file grew under it, and
\* an unreadable record only after a write failed (Verify reads file and head
\* without a lock).
VerifySound ==
    ~raced =>
        /\ alarm.is \notin {"chain", "mismatch"}
        /\ alarm.is = "truncated" => alarm.count < Len(file)
        /\ alarm.is = "decode" => faults > 0

\* Every record written is covered by a watermark write in the end, unless the
\* object died or gave its last write up (groupCommitLoop, Close: a failed
\* flush is retried), or the numbers are no longer those of the file.
EveryRecordMarked ==
    \A n \in 1 .. MaxRecords : Len(file) >= n ~> (peak >= n \/ lost \/ raced)

\* The records and the watermark on disk belong together, through races of
\* appends and flushes, failed writes and deaths (Append, flushHead, Close).
RecordsIntact == TypeOK /\ ChainIntact /\ HeadNeverAhead
=============================================================================
