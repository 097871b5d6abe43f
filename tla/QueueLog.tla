------------------------------ MODULE QueueLog ------------------------------
(***************************************************************************)
(* queue.log (crates/spnrd/src/queue.rs): appends of length-prefixed       *)
(* records, as bytes, under short writes, errors, process crashes and      *)
(* power loss, and the reader that the daemon and `spnr audit` share.      *)
(*                                                                         *)
(* The length prefix has HEADER bytes of BASE values each (the code has 4  *)
(* of 256).  `file` is what a reader sees and `durable` what survives a    *)
(* power loss, after which any prefix of the rest may be there as well. The *)
(* directory entry of the file is taken to be durable.                     *)
(***************************************************************************)
EXTENDS Integers, SequencesExt

CONSTANTS
  HEADER, BASE,
  Payloads,      \* the records appended: sequences of bytes
  MaxAppends     \* bound: appends tried

Byte == 0..(BASE - 1)

ASSUME QueueAssumption ==
  /\ HEADER \in Nat \ {0} /\ BASE \in Nat \ {0} /\ MaxAppends \in Nat
  /\ Payloads \subseteq Seq(Byte)

VARIABLES
  file, durable,
  record,      \* the record being appended, or NoRecord
  toWrite,     \* bytes of its frame still to write
  appends,     \* appends tried
  whole,       \* history: records whose frame is in the file, while it is undamaged
  synced,      \* history: those of them that are durable
  damaged      \* history: some frame was cut short

QueueVars == <<file, durable, record, toWrite, appends, whole, synced, damaged>>

NoRecord == <<-1>>
QueueInit ==
  /\ file = <<>> /\ durable = <<>> /\ record = NoRecord /\ toWrite = <<>> /\ appends = 0
  /\ whole = <<>> /\ synced = <<>> /\ damaged = FALSE

\* len.to_be_bytes and from_be_bytes.
Power(k) == LET power[i \in 0..k] == IF i = 0 THEN 1 ELSE BASE * power[i - 1] IN power[k]
Bug_LengthInOneByte(len) == [i \in 1..HEADER |-> IF i = HEADER THEN len ELSE 0]
ToBytes(len) == [i \in 1..HEADER |-> (len \div Power(HEADER - i)) % BASE]
FromBytes(bytes) ==
  LET value[i \in 0..Len(bytes)] == IF i = 0 THEN 0 ELSE value[i - 1] * BASE + bytes[i]
  IN  value[Len(bytes)]

\* read_all and read_queue: stop at the first frame that runs past the end.
Bug_ReadTruncated(bytes) ==
  LET from[i \in 0..Len(bytes)] ==
        IF i + HEADER > Len(bytes) THEN <<>>
        ELSE LET start == i + HEADER
                 end   == start + FromBytes(SubSeq(bytes, i + 1, start))
             IN  IF end > Len(bytes) THEN <<SubSeq(bytes, start + 1, Len(bytes))>>
                 ELSE <<SubSeq(bytes, start + 1, end)>> \o from[end]
  IN  from[0]
ReadAll(bytes) ==
  LET from[i \in 0..Len(bytes)] ==
        IF i + HEADER > Len(bytes) THEN <<>>
        ELSE LET start == i + HEADER
                 end   == start + FromBytes(SubSeq(bytes, i + 1, start))
             IN  IF end > Len(bytes) THEN <<>>
                 ELSE <<SubSeq(bytes, start + 1, end)>> \o from[end]
  IN  from[0]

-----------------------------------------------------------------------------
\* append: a record whose length does not fit the prefix is refused outright.
Append_(r) ==
  /\ record = NoRecord /\ appends < MaxAppends
  /\ Len(r) < Power(HEADER)
  /\ record' = r /\ toWrite' = ToBytes(Len(r)) \o r
  /\ appends' = appends + 1
  /\ UNCHANGED <<file, durable, whole, synced, damaged>>

\* write_all: one write, which may be short.
Write ==
  /\ toWrite # <<>>
  /\ \E n \in 1..Len(toWrite) :
       /\ file' = file \o SubSeq(toWrite, 1, n)
       /\ toWrite' = SubSeq(toWrite, n + 1, Len(toWrite))
       /\ whole' = IF n = Len(toWrite) /\ ~damaged THEN Append(whole, record) ELSE whole
  /\ UNCHANGED <<durable, record, appends, synced, damaged>>

Bug_NotSynced == durable
AfterSync == file
Sync ==
  /\ record # NoRecord /\ toWrite = <<>>
  /\ durable' = AfterSync /\ synced' = whole
  /\ record' = NoRecord
  /\ UNCHANGED <<file, toWrite, appends, whole, damaged>>

\* The append ends early: a write or the sync fails, or the process dies.
CutShort == toWrite # <<>> /\ Len(toWrite) < HEADER + Len(record)
Abandon ==
  /\ record # NoRecord
  /\ record' = NoRecord /\ toWrite' = <<>>
  /\ damaged' = (damaged \/ CutShort)
  /\ UNCHANGED <<file, durable, appends, whole, synced>>

\* Power loss: the durable bytes remain and so may some that follow them.
PowerLoss ==
  /\ record' = NoRecord /\ toWrite' = <<>>
  /\ \E n \in Len(durable)..Len(file) :
       /\ file' = SubSeq(file, 1, n) /\ durable' = file'
       /\ IF n = Len(file)
            THEN damaged' = (damaged \/ CutShort) /\ synced' = whole /\ UNCHANGED whole
            ELSE /\ damaged' = (damaged \/ n > Len(durable))
                 /\ whole' = synced /\ UNCHANGED synced
  /\ UNCHANGED appends

QueueNext == (\E r \in Payloads : Append_(r)) \/ Write \/ Sync \/ Abandon \/ PowerLoss

QueueSpec == QueueInit /\ [][QueueNext]_QueueVars

-----------------------------------------------------------------------------
(* PROPERTIES *)

QueueTypeOK ==
  /\ file \in Seq(Byte) /\ durable \in Seq(Byte) /\ IsPrefix(durable, file)
  /\ record \in Seq(Byte) \cup {NoRecord} /\ toWrite \in Seq(Byte)
  /\ appends \in Nat /\ damaged \in BOOLEAN
  /\ whole \in Seq(Payloads) /\ synced \in Seq(Payloads)

\* What was synced before the first cut frame is read back, in order and ahead
\* of anything else, after any crashes, errors, power losses and later appends
\* (queue.rs:16-27, 35-61).
EarlierRecordsSurvive == IsPrefix(synced, ReadAll(file))

\* Until a frame is cut short a reader finds exactly the records whose frame is
\* complete, also in the middle of a write: never half a record (queue.rs:35-61).
OnlyWholeRecords == ~damaged => ReadAll(file) = whole
=============================================================================
