------------------------- MODULE LockFreeRingBuffer -------------------------
(***************************************************************************)
(* LockFreeRingBuffer (src/lock_free_ring_buffer.h) used by one writer      *)
(* thread and one reader thread.  The two indices are std::atomic; each     *)
(* load and each store is one step.  A thread is the only one that stores   *)
(* its own index, so only its loads of the OTHER index are placed in time:  *)
(* size() loads it twice, once to compare and once to subtract.             *)
(***************************************************************************)
EXTENDS RingIndex

CONSTANTS
    WriteCounts,  \* the counts the writer passes to write()
    ReadCounts    \* the counts the reader passes to read()

ASSUME CountsAssumption ==
    /\ WriteCounts \subseteq 1 .. Capacity - 1
    /\ ReadCounts \subseteq 1 .. Capacity - 1

VARIABLES
    write_idx,  \* write_idx_
    read_idx,   \* read_idx_
    writer,     \* the writer's call: [pc, count]
    reader,     \* the reader's call, likewise
    occupancy,  \* history: elements stored minus elements taken
    replies     \* history: the last answers, [write |-> ..., read |-> ...]

vars == <<write_idx, read_idx, writer, reader, occupancy, replies>>

(* "ge" and "lt" are the two branches of size(), chosen by its comparison.   *)
Phase == {"idle", "ge", "lt", "accepted"}
Reply == {"none", "true", "false"}

TypeOK ==
    /\ write_idx \in Index
    /\ read_idx \in Index
    /\ writer \in [pc : Phase, count : WriteCounts \cup {0}]
    /\ reader \in [pc : Phase, count : ReadCounts \cup {0}]
    /\ occupancy \in Int
    /\ replies \in [write : Reply, read : Reply]

NoCall == [pc |-> "idle", count |-> 0]

Init ==
    /\ write_idx = 0 /\ read_idx = 0
    /\ writer = NoCall /\ reader = NoCall
    /\ occupancy = 0
    /\ replies = [write |-> "none", read |-> "none"]

-----------------------------------------------------------------------------
(* The comparison at the head of size(), on the indices of this instant.     *)
Branch == IF write_idx >= read_idx THEN "ge" ELSE "lt"

(* write(count): `count > available()` needs size(), whose comparison loads *)
(* read_idx_ first.                                                         *)
WriteCompare(n) ==
    /\ writer.pc = "idle"
    /\ writer' = [pc |-> Branch, count |-> n]
    /\ UNCHANGED <<write_idx, read_idx, reader, occupancy, replies>>

WriteSize == SizeOf(writer.pc = "ge", write_idx, read_idx)

(* An available() that forgets the slot kept free to tell full from empty.  *)
MutAllSlotsFits == ~(writer.count > (Capacity - WriteSize) % SizeModulus)

WriteFits == ~(writer.count > AvailableOf(WriteSize))

(* The second load of read_idx_ decides the answer.                         *)
WriteDecide ==
    /\ writer.pc \in {"ge", "lt"}
    /\ IF WriteFits
       THEN /\ writer' = [writer EXCEPT !.pc = "accepted"]
            /\ UNCHANGED replies
       ELSE /\ writer' = NoCall
            /\ replies' = [replies EXCEPT !.write = "false"]
    /\ UNCHANGED <<write_idx, read_idx, reader, occupancy>>

WriteStore ==
    /\ writer.pc = "accepted"
    /\ write_idx' = Advance(write_idx, writer.count)
    /\ occupancy' = occupancy + writer.count
    /\ replies' = [replies EXCEPT !.write = "true"]
    /\ writer' = NoCall
    /\ UNCHANGED <<read_idx, reader>>

-----------------------------------------------------------------------------
(* read(count): the same two loads, of write_idx_ this time.                *)
ReadCompare(n) ==
    /\ reader.pc = "idle"
    /\ reader' = [pc |-> Branch, count |-> n]
    /\ UNCHANGED <<write_idx, read_idx, writer, occupancy, replies>>

ReadSize == SizeOf(reader.pc = "ge", write_idx, read_idx)

(* A read() that refuses to take the last element.                          *)
MutReadKeepsLast == ~(reader.count >= ReadSize)

ReadFits == ~(reader.count > ReadSize)

ReadDecide ==
    /\ reader.pc \in {"ge", "lt"}
    /\ IF ReadFits
       THEN /\ reader' = [reader EXCEPT !.pc = "accepted"]
            /\ UNCHANGED replies
       ELSE /\ reader' = NoCall
            /\ replies' = [replies EXCEPT !.read = "false"]
    /\ UNCHANGED <<write_idx, read_idx, writer, occupancy>>

ReadStore ==
    /\ reader.pc = "accepted"
    /\ read_idx' = Advance(read_idx, reader.count)
    /\ occupancy' = occupancy - reader.count
    /\ replies' = [replies EXCEPT !.read = "true"]
    /\ reader' = NoCall
    /\ UNCHANGED <<write_idx, writer>>

WriterStep == (\E n \in WriteCounts : WriteCompare(n)) \/ WriteDecide \/ WriteStore
ReaderStep == (\E n \in ReadCounts : ReadCompare(n)) \/ ReadDecide \/ ReadStore

Next == WriterStep \/ ReaderStep

Spec == Init /\ [][Next]_vars

-----------------------------------------------------------------------------
(* Neither index ever overtakes the other: the indices and the true number  *)
(* of elements agree, and that number stays within the usable slots.  An    *)
(* overrun would hand the writer a slot the reader still owns, or the       *)
(* reader a slot nobody filled.                                             *)
NoOverrun ==
    /\ occupancy \in 0 .. Capacity - 1
    /\ occupancy = Occupancy(write_idx, read_idx)

(* Why the second load may be trusted: the other thread can only have made   *)
(* room since the comparison, and if it wrapped it made room for one more.  *)
WriterPromise ==
    /\ writer.pc = "ge" => write_idx >= read_idx
    /\ writer.pc = "lt" /\ write_idx >= read_idx => occupancy <= Capacity - 2
    /\ writer.pc = "accepted" => occupancy + writer.count <= Capacity - 1
    /\ writer.pc # "idle" => writer.count \in WriteCounts

ReaderPromise ==
    /\ reader.pc = "lt" => write_idx < read_idx
    /\ reader.pc = "accepted" => reader.count <= occupancy
    /\ reader.pc # "idle" => reader.count \in ReadCounts

(* The inductive invariant behind NoOverrun for single-element calls.       *)
IInv == TypeOK /\ NoOverrun /\ WriterPromise /\ ReaderPromise

(* Each accepted or refused call is one atomic operation of a bounded queue. *)
Abstract == INSTANCE BoundedQueue WITH
    Bound <- Capacity - 1,
    Counts <- WriteCounts \cup ReadCounts,
    used <- occupancy,
    writeReply <- replies.write,
    readReply <- replies.read

(* The buffer is linearizable: refusals happen when the elements do not fit *)
(* (or are not there), successes when they do.                              *)
ImplementsBoundedQueue == Abstract!Spec
=============================================================================
