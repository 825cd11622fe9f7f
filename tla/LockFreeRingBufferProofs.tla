---------------------- MODULE LockFreeRingBufferProofs ----------------------
(***************************************************************************)
(* Proofs about LockFreeRingBuffer for every capacity and every width of    *)
(* size_t.                                                                  *)
(***************************************************************************)
EXTENDS LockFreeRingBuffer, RingIndexProofs, TLAPS

-----------------------------------------------------------------------------
(* Every store keeps the indices within the buffer, whatever the counts.    *)
LEMMA TypeStep == TypeOK /\ [Next]_vars => TypeOK'
<1> SUFFICES ASSUME TypeOK, [Next]_vars PROVE TypeOK'
  OBVIOUS
<1> USE RingAssumption, CountsAssumption DEF TypeOK, Phase, Reply, NoCall, Index
<1>1. CASE UNCHANGED vars
  BY <1>1 DEF vars
<1>2. ASSUME NEW n \in WriteCounts, WriteCompare(n) PROVE TypeOK'
  BY <1>2 DEF WriteCompare, Branch
<1>3. CASE WriteDecide
  BY <1>3 DEF WriteDecide
<1>4. CASE WriteStore
  <2>1. writer.count \in 1 .. Capacity - 1 \/ writer.count = 0
    OBVIOUS
  <2>2. write_idx' \in Index
    BY <1>4, <2>1, AdvanceIndex, ModBelow DEF WriteStore, Advance, Index
  <2> QED BY <1>4, <2>2 DEF WriteStore
<1>5. ASSUME NEW n \in ReadCounts, ReadCompare(n) PROVE TypeOK'
  BY <1>5 DEF ReadCompare, Branch
<1>6. CASE ReadDecide
  BY <1>6 DEF ReadDecide
<1>7. CASE ReadStore
  <2>1. reader.count \in 1 .. Capacity - 1 \/ reader.count = 0
    OBVIOUS
  <2>2. read_idx' \in Index
    BY <1>7, <2>1, AdvanceIndex, ModBelow DEF ReadStore, Advance, Index
  <2> QED BY <1>7, <2>2 DEF ReadStore
<1> QED BY <1>1, <1>2, <1>3, <1>4, <1>5, <1>6, <1>7
        DEF Next, WriterStep, ReaderStep

(* The indices stay inside the buffer for every capacity and all counts.    *)
THEOREM TypeCorrect == Spec => []TypeOK
<1>1. Init => TypeOK
  BY RingAssumption DEF Init, TypeOK, NoCall, Index, Phase, Reply
<1> QED BY <1>1, TypeStep, PTL DEF Spec

-----------------------------------------------------------------------------
SingleElement == WriteCounts = {1} /\ ReadCounts = {1}

LEMMA InitIInv == Init => IInv
  BY RingAssumption
  DEF Init, IInv, TypeOK, NoOverrun, WriterPromise, ReaderPromise, NoCall,
      Index, Phase, Reply, Occupancy

(* An accepted write(1) leaves room, an accepted read(1) finds an element:  *)
(* what the two decisions conclude from their second load.                  *)
LEMMA WriteAnswer ==
    ASSUME IInv, SingleElement, writer.pc \in {"ge", "lt"}
    PROVE  WriteFits <=> occupancy + writer.count <= Capacity - 1
<1> USE RingAssumption
<1>1. /\ write_idx \in Index /\ read_idx \in Index /\ occupancy \in Int
      /\ writer.count = 1
      /\ occupancy = Occupancy(write_idx, read_idx)
      /\ occupancy \in 0 .. Capacity - 1
  BY DEF IInv, TypeOK, NoOverrun, WriterPromise, SingleElement
<1>2. CASE writer.pc = "ge"
  <2>1. write_idx >= read_idx
    BY <1>2 DEF IInv, WriterPromise
  <2>2. WriteSize = occupancy
    BY <1>1, <1>2, <2>1, SizeValue DEF WriteSize, Occupancy, Index
  <2> QED BY <1>1, <2>2, AvailableValue DEF WriteFits
<1>3. CASE writer.pc = "lt"
  <2>1. WriteSize = write_idx + Capacity - read_idx
    BY <1>1, <1>3, SizeValue DEF WriteSize
  <2>2. CASE write_idx < read_idx
    BY <1>1, <2>1, <2>2, AvailableValue DEF WriteFits, Occupancy, Index
  <2>3. CASE write_idx >= read_idx
    <3>1. occupancy <= Capacity - 2
      BY <1>3, <2>3 DEF IInv, WriterPromise
    <3>2. WriteSize \in Capacity .. 2 * Capacity
      BY <1>1, <2>1, <2>3 DEF Index
    <3> QED BY <1>1, <3>1, <3>2, AvailableValue DEF WriteFits
  <2> QED BY <1>1, <2>2, <2>3 DEF Index
<1> QED BY <1>1, <1>2, <1>3

LEMMA ReadAnswer ==
    ASSUME IInv, SingleElement, reader.pc \in {"ge", "lt"}
    PROVE  ReadFits <=> reader.count <= occupancy
<1> USE RingAssumption
<1>1. /\ write_idx \in Index /\ read_idx \in Index /\ occupancy \in Int
      /\ reader.count = 1
      /\ occupancy = Occupancy(write_idx, read_idx)
  BY DEF IInv, TypeOK, NoOverrun, ReaderPromise, SingleElement
<1>2. CASE reader.pc = "ge"
  <2>1. ReadSize = IF write_idx >= read_idx THEN write_idx - read_idx
                   ELSE write_idx - read_idx + SizeModulus
    BY <1>1, <1>2, SizeValue DEF ReadSize
  <2> QED BY <1>1, <2>1 DEF ReadFits, Occupancy, Index
<1>3. CASE reader.pc = "lt"
  <2>1. write_idx < read_idx
    BY <1>3 DEF IInv, ReaderPromise
  <2>2. ReadSize = write_idx + Capacity - read_idx
    BY <1>1, <1>3, SizeValue DEF ReadSize
  <2> QED BY <1>1, <2>1, <2>2 DEF ReadFits, Occupancy, Index
<1> QED BY <1>1, <1>2, <1>3

LEMMA InductiveStep ==
    ASSUME SingleElement, IInv, [Next]_vars
    PROVE  IInv'
<1> USE RingAssumption, CountsAssumption
<1>t. TypeOK'
  BY TypeStep DEF IInv
<1>1. /\ write_idx \in Index /\ read_idx \in Index
      /\ occupancy \in 0 .. Capacity - 1
      /\ occupancy = Occupancy(write_idx, read_idx)
      /\ writer \in [pc : Phase, count : WriteCounts \cup {0}]
      /\ reader \in [pc : Phase, count : ReadCounts \cup {0}]
  BY DEF IInv, TypeOK, NoOverrun
<1>2. CASE UNCHANGED vars
  BY <1>2, <1>t DEF vars, IInv, NoOverrun, WriterPromise, ReaderPromise, Occupancy
<1>3. ASSUME NEW n \in WriteCounts, WriteCompare(n) PROVE IInv'
  BY <1>1, <1>3, <1>t
  DEF WriteCompare, Branch, IInv, NoOverrun, WriterPromise, ReaderPromise, Occupancy, Index
<1>4. CASE WriteDecide
  <2>1. WriteFits <=> occupancy + writer.count <= Capacity - 1
    BY <1>4, WriteAnswer DEF WriteDecide
  <2> QED BY <1>1, <1>4, <1>t, <2>1
          DEF WriteDecide, NoCall, IInv, NoOverrun, WriterPromise, ReaderPromise, Occupancy
<1>5. CASE WriteStore
  <2>1. writer.count = 1 /\ occupancy + 1 <= Capacity - 1
    BY <1>5 DEF WriteStore, IInv, WriterPromise, SingleElement
  <2>2. write_idx' = IF write_idx + 1 < Capacity THEN write_idx + 1
                     ELSE write_idx + 1 - Capacity
    BY <1>1, <1>5, <2>1, AdvanceIndex DEF WriteStore
  <2>3. NoOverrun'
    BY <1>1, <1>5, <2>1, <2>2 DEF WriteStore, NoOverrun, Occupancy, Index
  <2>4. WriterPromise'
    BY <1>5 DEF WriteStore, WriterPromise, NoCall
  <2>5. ReaderPromise'
    BY <1>1, <1>5, <2>1, <2>2
    DEF WriteStore, IInv, ReaderPromise, Occupancy, Index, SingleElement
  <2> QED BY <1>t, <2>3, <2>4, <2>5 DEF IInv
<1>6. ASSUME NEW n \in ReadCounts, ReadCompare(n) PROVE IInv'
  BY <1>1, <1>6, <1>t
  DEF ReadCompare, Branch, IInv, NoOverrun, WriterPromise, ReaderPromise, Occupancy, Index
<1>7. CASE ReadDecide
  <2>1. ReadFits <=> reader.count <= occupancy
    BY <1>7, ReadAnswer DEF ReadDecide
  <2> QED BY <1>1, <1>7, <1>t, <2>1
          DEF ReadDecide, NoCall, IInv, NoOverrun, WriterPromise, ReaderPromise, Occupancy
<1>8. CASE ReadStore
  <2>1. reader.count = 1 /\ 1 <= occupancy
    BY <1>8 DEF ReadStore, IInv, ReaderPromise, SingleElement
  <2>2. read_idx' = IF read_idx + 1 < Capacity THEN read_idx + 1
                    ELSE read_idx + 1 - Capacity
    BY <1>1, <1>8, <2>1, AdvanceIndex DEF ReadStore
  <2>3. NoOverrun'
    BY <1>1, <1>8, <2>1, <2>2 DEF ReadStore, NoOverrun, Occupancy, Index
  <2>4. ReaderPromise'
    BY <1>8 DEF ReadStore, ReaderPromise, NoCall
  <2>5. WriterPromise'
    BY <1>1, <1>8, <2>1, <2>2
    DEF ReadStore, IInv, WriterPromise, Occupancy, Index, SingleElement
  <2> QED BY <1>t, <2>3, <2>4, <2>5 DEF IInv
<1> QED BY <1>2, <1>3, <1>4, <1>5, <1>6, <1>7, <1>8
        DEF Next, WriterStep, ReaderStep

(* Calls of one element never make an index overtake the other, for every   *)
(* capacity and however the loads and stores interleave.                    *)
THEOREM SingleElementSafe ==
    ASSUME SingleElement
    PROVE  Spec => []NoOverrun
<1>1. Init => IInv
  BY InitIInv
<1>2. IInv /\ [Next]_vars => IInv'
  BY InductiveStep
<1>3. IInv => NoOverrun
  BY DEF IInv
<1> QED BY <1>1, <1>2, <1>3, PTL DEF Spec

(* Calls of one element are linearizable: the concurrent buffer implements  *)
(* the atomic bounded queue, answers included.                              *)
THEOREM Refinement ==
    ASSUME SingleElement
    PROVE  Spec => ImplementsBoundedQueue
<1> USE RingAssumption
<1>1. Init => Abstract!Init
  BY DEF Init, Abstract!Init
<1>2. IInv /\ [Next]_vars => [Abstract!Next]_<<occupancy, replies.write, replies.read>>
  <2> SUFFICES ASSUME IInv, [Next]_vars
               PROVE  [Abstract!Next]_<<occupancy, replies.write, replies.read>>
    OBVIOUS
  <2> USE DEF Abstract!Next, Abstract!Put, Abstract!PutRefused, Abstract!Take,
              Abstract!TakeRefused
  <2>1. CASE WriteDecide
    <3>1. WriteFits <=> occupancy + writer.count <= Capacity - 1
      BY <2>1, WriteAnswer DEF WriteDecide
    <3>2. writer.count = 1 /\ occupancy \in Int
      BY <2>1 DEF WriteDecide, IInv, TypeOK, WriterPromise, SingleElement
    <3> QED BY <2>1, <3>1, <3>2 DEF WriteDecide, IInv, TypeOK, SingleElement
  <2>2. CASE WriteStore
    BY <2>2 DEF WriteStore, IInv, TypeOK, WriterPromise, SingleElement
  <2>3. CASE ReadDecide
    <3>1. ReadFits <=> reader.count <= occupancy
      BY <2>3, ReadAnswer DEF ReadDecide
    <3>2. reader.count = 1 /\ occupancy \in Int
      BY <2>3 DEF ReadDecide, IInv, TypeOK, ReaderPromise, SingleElement
    <3> QED BY <2>3, <3>1, <3>2 DEF ReadDecide, IInv, TypeOK, SingleElement
  <2>4. CASE ReadStore
    BY <2>4 DEF ReadStore, IInv, TypeOK, ReaderPromise, SingleElement
  <2>5. CASE (\E n \in WriteCounts : WriteCompare(n))
             \/ (\E n \in ReadCounts : ReadCompare(n)) \/ UNCHANGED vars
    BY <2>5 DEF WriteCompare, Branch, ReadCompare, vars
  <2> QED BY <2>1, <2>2, <2>3, <2>4, <2>5 DEF Next, WriterStep, ReaderStep
<1>3. Init => IInv
  BY InitIInv
<1>4. IInv /\ [Next]_vars => IInv'
  BY InductiveStep
<1> QED BY <1>1, <1>2, <1>3, <1>4, PTL
        DEF Spec, ImplementsBoundedQueue, Abstract!Spec
=============================================================================
