---------------------- MODULE LidarPacketHandlerProofs ----------------------
(***************************************************************************)
(* Proofs about LidarPacketHandler for every ring capacity, throttling      *)
(* threshold, number of processors, packets per scan and frames.            *)
(***************************************************************************)
EXTENDS LidarPacketHandler, RingIndexProofs, SequenceTheorems, TLAPS

(* How an advance of either head changes the number of scans held.          *)
LEMMA HeldAfterWrite ==
    ASSUME NEW w \in Index, NEW r \in Index, Occupancy(w, r) <= Capacity - 2
    PROVE  /\ Advance(w, 1) \in Index
           /\ Occupancy(Advance(w, 1), r) = Occupancy(w, r) + 1
           /\ w >= r /\ Advance(w, 1) < r => Advance(w, 1) = 0
           /\ w < r => Advance(w, 1) < r
<1> USE RingAssumption DEF Index, Occupancy
<1>1. Advance(w, 1) = IF w + 1 < Capacity THEN w + 1 ELSE w + 1 - Capacity
  BY AdvanceIndex
<1> QED BY <1>1

LEMMA HeldAfterRead ==
    ASSUME NEW w \in Index, NEW r \in Index, NEW n \in {1, 2},
           Occupancy(w, r) >= n
    PROVE  /\ Advance(r, n) \in Index
           /\ Occupancy(w, Advance(r, n)) = Occupancy(w, r) - n
           /\ w >= r => w >= Advance(r, n)
<1> USE RingAssumption DEF Index, Occupancy
<1>1. n \in 1 .. Capacity - 1
  OBVIOUS
<1>2. Advance(r, n) = IF r + n < Capacity THEN r + n ELSE r + n - Capacity
  BY <1>1, AdvanceIndex
<1> QED BY <1>1, <1>2

(* full() is exact for the packet thread, which alone moves the write head. *)
LEMMA FullMeansHeld ==
    ASSUME NEW w \in Index, NEW r \in Index
    PROVE  IsFull(w, r) <=> Occupancy(w, r) = Capacity - 1
<1> USE RingAssumption DEF Index, Occupancy, IsFull
<1>1. Advance(w, 1) = IF w + 1 < Capacity THEN w + 1 ELSE w + 1 - Capacity
  BY AdvanceIndex
<1> QED BY <1>1

-----------------------------------------------------------------------------
LEMMA InitHandlerInv == Init => HandlerInv
  BY RingAssumption, HandlerAssumption
  DEF Init, HandlerInv, RingTypeOK, PacketThreadKnows, ScanThreadKnows, Processing,
      ConsumerPC, Index, Held, Occupancy

(* What the invariant says of the answers of write() and read().            *)
LEMMA NeverRefused == HandlerInv => RingNeverRefuses
<1> SUFFICES ASSUME HandlerInv PROVE RingNeverRefuses
  OBVIOUS
<1> USE RingAssumption
<1>1. write_idx \in Index /\ read_idx \in Index /\ consumer.read_step \in {1, 2}
  BY DEF HandlerInv, RingTypeOK
<1>2. ASSUME ppc \in {"ge", "lt"} PROVE WriteFits
  <2>1. Held <= Capacity - 2
    BY <1>2 DEF HandlerInv, PacketThreadKnows
  <2>2. CASE ppc = "ge"
    <3>1. write_idx >= read_idx
      BY <2>2 DEF HandlerInv, PacketThreadKnows
    <3>2. SizeOf(ppc = "ge", write_idx, read_idx) = Held
      BY <1>1, <2>2, <3>1, SizeValue DEF SizeOf, Held, Occupancy
    <3> QED BY <1>1, <2>1, <3>2, AvailableValue DEF WriteFits, Held, Occupancy, Index
  <2>3. CASE ppc = "lt"
    <3>1. SizeOf(ppc = "ge", write_idx, read_idx) = write_idx + Capacity - read_idx
      BY <1>1, <2>3, SizeValue DEF SizeOf
    <3>2. AvailableOf(write_idx + Capacity - read_idx) >= 1
      <4>1. CASE write_idx < read_idx
        BY <1>1, <2>1, <4>1, AvailableValue DEF Held, Occupancy, Index
      <4>2. CASE write_idx >= read_idx
        <5>1. write_idx + Capacity - read_idx \in Capacity .. 2 * Capacity
          BY <1>1, <4>2 DEF Index
        <5> QED BY <5>1, AvailableValue
      <4> QED BY <1>1, <4>1, <4>2 DEF Index
    <3> QED BY <1>1, <3>1, <3>2 DEF WriteFits, AvailableOf, Index
  <2> QED BY <1>2, <2>2, <2>3
<1>3. ASSUME consumer.pc \in {"rge", "rlt"} PROVE ReadFits
  <2>1. Held >= consumer.read_step
    BY <1>3 DEF HandlerInv, ScanThreadKnows
  <2>2. CASE consumer.pc = "rge"
    <3>1. SizeOf(consumer.pc = "rge", write_idx, read_idx)
            = IF write_idx >= read_idx THEN write_idx - read_idx
              ELSE write_idx - read_idx + SizeModulus
      BY <1>1, <2>2, SizeValue DEF SizeOf
    <3> QED BY <1>1, <2>1, <3>1 DEF ReadFits, Held, Occupancy, Index
  <2>3. CASE consumer.pc = "rlt"
    <3>1. write_idx < read_idx
      BY <2>3 DEF HandlerInv, ScanThreadKnows
    <3>2. SizeOf(consumer.pc = "rge", write_idx, read_idx)
            = write_idx + Capacity - read_idx
      BY <1>1, <2>3, SizeValue DEF SizeOf
    <3> QED BY <1>1, <2>1, <3>1, <3>2 DEF ReadFits, Held, Occupancy, Index
  <2> QED BY <1>3, <2>2, <2>3
<1> QED BY <1>2, <1>3 DEF RingNeverRefuses

(* Steps that touch neither index: the threads' own control.                *)
LEMMA PacketThreadStep ==
    ASSUME HandlerInv, Receive \/ PacketThread
    PROVE  HandlerInv'
<1> USE RingAssumption, HandlerAssumption
<1>1. write_idx \in Index /\ read_idx \in Index /\ consumer.read_step \in {1, 2}
  BY DEF HandlerInv, RingTypeOK
<1>2. CASE Receive
  <2>1. ~RingFull => Held <= Capacity - 2
    BY <1>1, FullMeansHeld DEF RingFull, Held, Occupancy, Index
  <2> QED BY <1>2, <2>1
          DEF Receive, ring, HandlerInv, RingTypeOK, PacketThreadKnows,
              ScanThreadKnows, Processing, Held
<1>3. CASE LockWriteHead \/ Batch \/ StampScan \/ StampMessage
  BY <1>3
  DEF LockWriteHead, Batch, StampScan, StampMessage, ring, stamps, HandlerInv,
      RingTypeOK, PacketThreadKnows, ScanThreadKnows, Processing, Held
<1>4. CASE WriteCompare \/ WriteDecide
  BY <1>1, <1>4
  DEF WriteCompare, WriteDecide, Ge, ring, stamps, HandlerInv, RingTypeOK,
      PacketThreadKnows, ScanThreadKnows, Processing, Held
<1>5. CASE WriteStore
  <2>1. Held <= Capacity - 2
    BY <1>5 DEF WriteStore, HandlerInv, PacketThreadKnows
  <2>2. write_idx' = Advance(write_idx, 1) /\ read_idx' = read_idx
        /\ consumer' = consumer /\ ppc' = "notify"
    BY <1>5 DEF WriteStore
  <2>3. /\ write_idx' \in Index /\ Held' = Held + 1
        /\ write_idx < read_idx => write_idx' < read_idx
    BY <1>1, <2>1, <2>2, HeldAfterWrite DEF Held
  <2>4. RingTypeOK'
    BY <2>2, <2>3 DEF HandlerInv, RingTypeOK
  <2>5. PacketThreadKnows'
    BY <2>2 DEF PacketThreadKnows
  <2>6. Held \in Int
    BY <1>1 DEF Held, Occupancy, Index
  <2>7. ScanThreadKnows'
    BY <1>1, <2>2, <2>3, <2>6 DEF HandlerInv, ScanThreadKnows, Processing
  <2> QED BY <2>4, <2>5, <2>7 DEF HandlerInv
<1>6. CASE Notify
  BY <1>6
  DEF Notify, ring, HandlerInv, RingTypeOK, PacketThreadKnows, ScanThreadKnows,
      Processing, Held, ConsumerPC
<1> QED BY <1>2, <1>3, <1>4, <1>5, <1>6 DEF PacketThread

LEMMA ScanThreadStep ==
    ASSUME HandlerInv, ScanThread \/ Timeout \/ SpuriousWakeup
    PROVE  HandlerInv'
<1> USE RingAssumption, HandlerAssumption
<1>1. /\ write_idx \in Index /\ read_idx \in Index
      /\ consumer.read_step \in {1, 2} /\ consumer.processor \in 1 .. Processors
      /\ Held \in Int
  BY DEF HandlerInv, RingTypeOK, Held, Occupancy, Index
<1>2. CASE Loop \/ TestPredicate \/ Block \/ AfterTimeout \/ Timeout \/ SpuriousWakeup
  <2>1. ~Nothing => Held >= 1
    BY <1>1 DEF Nothing, IsEmpty, Held, Occupancy, Index
  <2> QED BY <1>2, <2>1
          DEF Loop, TestPredicate, Block, AfterTimeout, Timeout, SpuriousWakeup, Goto,
              ring, packetVars, HandlerInv, RingTypeOK, PacketThreadKnows,
              ScanThreadKnows, Processing, Held, ConsumerPC
<1>p. 1 \in 1 .. Processors
  OBVIOUS
<1>3. CASE LockReadHead
  <2>1. RingTypeOK'
    BY <1>p, <1>1, <1>3 DEF LockReadHead, ring, HandlerInv, RingTypeOK, ConsumerPC
  <2>2. consumer'.pc = "call" /\ consumer'.slot = read_idx
    BY <1>3 DEF LockReadHead, HandlerInv, RingTypeOK
  <2> QED BY <1>3, <2>1, <2>2
          DEF LockReadHead, ring, packetVars, HandlerInv, PacketThreadKnows,
              ScanThreadKnows, Processing, Held
<1>10. CASE CallProcessor
  BY <1>1, <1>10
  DEF CallProcessor, ring, packetVars, HandlerInv, RingTypeOK,
      PacketThreadKnows, ScanThreadKnows, Processing, Held, ConsumerPC
<1>9. CASE RunProcessor
  <2>1. consumer' \in {[consumer EXCEPT !.pc = "call", !.processor = @ + 1],
                       [consumer EXCEPT !.pc = "measure", !.processor = 1]}
        /\ (consumer'.pc = "call" => consumer.processor < Processors)
    BY <1>9 DEF RunProcessor, HandlerInv, RingTypeOK
  <2>2. RingTypeOK'
    <3>1. CASE consumer.processor < Processors
      <4>1. consumer.processor + 1 \in 1 .. Processors
        BY <1>1, <3>1
      <4>2. consumer' = [consumer EXCEPT !.pc = "call", !.processor = @ + 1]
        BY <1>9, <3>1 DEF RunProcessor
      <4> QED BY <1>9, <4>1, <4>2
              DEF RunProcessor, ring, HandlerInv, RingTypeOK, ConsumerPC
    <3>2. CASE ~(consumer.processor < Processors)
      BY <1>p, <1>9, <3>2 DEF RunProcessor, ring, HandlerInv, RingTypeOK, ConsumerPC
    <3> QED BY <3>1, <3>2
  <2> QED BY <1>9, <2>1, <2>2
          DEF RunProcessor, ring, packetVars, HandlerInv, RingTypeOK,
              PacketThreadKnows, ScanThreadKnows, Processing, Held
<1>4. CASE MeasureCompare
  BY <1>1, <1>4
  DEF MeasureCompare, Goto, Ge, ring, packetVars, HandlerInv, RingTypeOK,
      PacketThreadKnows, ScanThreadKnows, Processing, Held, ConsumerPC, Index
<1>5. CASE Measure
  <2>1. Throttling => Held >= 2
    <3>1. CASE consumer.pc = "mge"
      <4>1. write_idx < read_idx => Held >= 2
        BY <3>1 DEF HandlerInv, ScanThreadKnows
      <4>2. write_idx >= read_idx
              => SizeOf(consumer.pc = "mge", write_idx, read_idx) = write_idx - read_idx
        BY <1>1, <3>1, SizeValue DEF SizeOf
      <4> QED BY <1>1, <4>1, <4>2 DEF Throttling, Held, Occupancy, Index
    <3>2. CASE consumer.pc = "mlt"
      <4>1. write_idx < read_idx
        BY <3>2 DEF HandlerInv, ScanThreadKnows
      <4>2. SizeOf(consumer.pc = "mge", write_idx, read_idx)
              = write_idx + Capacity - read_idx
        BY <1>1, <3>2, SizeValue DEF SizeOf
      <4> QED BY <1>1, <4>1, <4>2 DEF Throttling, Held, Occupancy, Index
    <3> QED BY <1>5, <3>1, <3>2 DEF Measure
  <2>2. Held >= 1
    BY <1>5 DEF Measure, HandlerInv, ScanThreadKnows, Processing
  <2> QED BY <1>1, <1>5, <2>1, <2>2
          DEF Measure, ring, packetVars, HandlerInv, RingTypeOK, PacketThreadKnows,
              ScanThreadKnows, Processing, Held, ConsumerPC
<1>6. CASE ReadCompare \/ ReadDecide
  BY <1>1, <1>6
  DEF ReadCompare, ReadDecide, Goto, Ge, ring, packetVars, HandlerInv, RingTypeOK,
      PacketThreadKnows, ScanThreadKnows, Processing, Held, ConsumerPC, Index
<1>7. CASE ReadStore
  <2>1. Held >= consumer.read_step
    BY <1>7 DEF ReadStore, HandlerInv, ScanThreadKnows
  <2>2. /\ read_idx' = Advance(read_idx, consumer.read_step)
        /\ write_idx' = write_idx /\ ppc' = ppc
        /\ consumer' = [consumer EXCEPT !.pc = "unlock"]
    BY <1>7 DEF ReadStore, packetVars
  <2>3. /\ read_idx' \in Index /\ Held' = Held - consumer.read_step
        /\ write_idx >= read_idx => write_idx >= read_idx'
    BY <1>1, <2>1, <2>2, HeldAfterRead DEF Held
  <2>4. RingTypeOK'
    BY <2>2, <2>3 DEF HandlerInv, RingTypeOK, ConsumerPC
  <2>5. PacketThreadKnows'
    BY <1>1, <2>2, <2>3 DEF HandlerInv, PacketThreadKnows
  <2>6. consumer'.pc = "unlock"
    BY <2>2 DEF HandlerInv, RingTypeOK
  <2>7. ScanThreadKnows'
    BY <2>6 DEF ScanThreadKnows, Processing
  <2> QED BY <2>4, <2>5, <2>7 DEF HandlerInv
<1>8. CASE UnlockSlot
  BY <1>8
  DEF UnlockSlot, ring, packetVars, HandlerInv, RingTypeOK, PacketThreadKnows,
      ScanThreadKnows, Processing, Held, ConsumerPC
<1> QED BY <1>2, <1>3, <1>4, <1>5, <1>6, <1>7, <1>8, <1>9, <1>10 DEF ScanThread

LEMMA HandlerStep == HandlerInv /\ [Next]_vars => HandlerInv'
<1>1. HandlerInv /\ (Destroy \/ UNCHANGED vars) => HandlerInv'
  BY DEF Destroy, vars, ring, packetVars, HandlerInv, RingTypeOK, PacketThreadKnows,
         ScanThreadKnows, Processing, Held
<1> QED BY <1>1, PacketThreadStep, ScanThreadStep DEF Next, Destroyed

LEMMA HandlerInvariant == Spec => []HandlerInv
  BY InitHandlerInv, HandlerStep, PTL DEF Spec

(* No packet is ever batched into the slot the processors are working on,   *)
(* even with the slot mutexes left out of the argument.                     *)
THEOREM NoSlotSharing == Spec => []WriterElsewhere
<1>1. HandlerInv => WriterElsewhere
  BY RingAssumption
  DEF HandlerInv, RingTypeOK, ScanThreadKnows, WriterElsewhere, Held, Occupancy, Index
<1> QED BY <1>1, HandlerInvariant, PTL

(* The ring's answers, which the code throws away, are always true: no      *)
(* completed scan is lost by write() and none is processed twice.           *)
THEOREM AnswersAreTrue == Spec => []RingNeverRefuses
  BY NeverRefused, HandlerInvariant, PTL

-----------------------------------------------------------------------------
(* Multiples of PacketsPerScan are ordered like what they are multiples of. *)
LEMMA MultiplesOrdered ==
    ASSUME NEW a \in Int, NEW b \in Int
    PROVE  a * PacketsPerScan < b * PacketsPerScan <=> a < b
<1> DEFINE p == PacketsPerScan
<1>1. p \in Nat /\ p > 0
  BY HandlerAssumption
<1> HIDE DEF p
<1>2. a * p \in Int /\ b * p \in Int
  BY <1>1
<1>3. ASSUME NEW c \in Int, NEW d \in Int, c <= d PROVE c * p <= d * p
  <2>1. (d - c) * p >= 0
    BY <1>1, <1>3
  <2>2. (d - c) * p = d * p - c * p
    BY <1>1
  <2> QED BY <1>1, <2>1, <2>2
<1>4. ASSUME NEW c \in Int, NEW d \in Int, c < d PROVE c * p < d * p
  <2>1. (c + 1) * p <= d * p
    BY <1>3, <1>4
  <2>2. (c + 1) * p = c * p + p
    BY <1>1
  <2> QED BY <1>1, <2>1, <2>2
<1>5. a < b => a * p < b * p
  BY <1>4
<1>6. b <= a => b * p <= a * p
  BY <1>3
<1> QED BY <1>2, <1>5, <1>6 DEF p

(* The frame of the n-th packet is the one whose packets n is among.        *)
LEMMA FrameOfBounds ==
    ASSUME NEW n \in Nat \ {0}
    PROVE  /\ FrameOf(n) \in Nat \ {0}
           /\ (FrameOf(n) - 1) * PacketsPerScan < n
           /\ n <= FrameOf(n) * PacketsPerScan
<1> DEFINE p == PacketsPerScan
           m == n - 1
           q == m \div p
<1>1. p \in Nat \ {0} /\ m \in Nat /\ n = m + 1
  BY HandlerAssumption
<1>2. FrameOf(n) = q + 1
  BY DEF FrameOf
<1> HIDE DEF p, m
<1>3. q \in Nat /\ m % p \in 0 .. p - 1
  BY <1>1
<1>4. m = p * q + (m % p)
  BY <1>1
<1> HIDE DEF q
<1>5. (q + 1 - 1) * p = p * q /\ (q + 1) * p = p * q + p /\ p * q \in Nat
  BY <1>1, <1>3
<1>6. (q + 1 - 1) * p < n /\ n <= (q + 1) * p
  BY <1>1, <1>3, <1>4, <1>5
<1> QED BY <1>2, <1>3, <1>6 DEF p

LEMMA LaterFrame ==
    ASSUME NEW n \in Nat, NEW f \in Nat, f * PacketsPerScan < n
    PROVE  f < FrameOf(n)
<1>1. f * PacketsPerScan \in Nat
  BY HandlerAssumption
<1>2. n \in Nat \ {0}
  BY <1>1
<1>3. FrameOf(n) \in Nat /\ n <= FrameOf(n) * PacketsPerScan
  BY <1>2, FrameOfBounds
<1>4. FrameOf(n) * PacketsPerScan \in Nat
  BY <1>3, HandlerAssumption
<1>5. f * PacketsPerScan < FrameOf(n) * PacketsPerScan
  BY <1>1, <1>3, <1>4
<1> QED BY <1>3, <1>5, MultiplesOrdered

LEMMA SentFrame ==
    ASSUME NEW n \in 1 .. MaxFrames * PacketsPerScan
    PROVE  FrameOf(n) \in Frames
<1>1. MaxFrames * PacketsPerScan \in Nat
  BY HandlerAssumption
<1>2. /\ FrameOf(n) \in Nat \ {0}
      /\ (FrameOf(n) - 1) * PacketsPerScan < n
  BY <1>1, FrameOfBounds
<1>3. (FrameOf(n) - 1) * PacketsPerScan \in Int
  BY <1>2, HandlerAssumption
<1>4. (FrameOf(n) - 1) * PacketsPerScan < MaxFrames * PacketsPerScan
  BY <1>1, <1>2, <1>3
<1>5. FrameOf(n) - 1 < MaxFrames
  BY <1>2, <1>4, MultiplesOrdered, HandlerAssumption
<1> QED BY <1>2, <1>5, HandlerAssumption DEF Frames

-----------------------------------------------------------------------------
LEMMA InitType == Init => TypeOK /\ BatcherKnows
<1> SUFFICES ASSUME Init PROVE TypeOK /\ BatcherKnows
  OBVIOUS
<1> USE RingAssumption, HandlerAssumption DEF Init
<1>1. /\ 0 \in Index /\ 0 \in Frame0 /\ 0 \in 0 .. PacketsPerScan
      /\ MaxFrames * PacketsPerScan \in Nat /\ 0 * PacketsPerScan = 0
  BY DEF Index, Frame0
<1>2. TypeOK
  <2>1. RingTypeOK
    BY InitHandlerInv DEF HandlerInv
  <2>2. lidar_scans \in [Index -> Scan]
    BY <1>1 DEF Scan
  <2>3. sent \in 0 .. MaxFrames * PacketsPerScan
    BY <1>1
  <2>4. /\ delivered \in [frame : Frame0, ts : Frame0, msg_ts : Frame0]
        /\ handled \in [frame : Frame0, times : 0 .. 2]
    BY <1>1
  <2> QED BY <1>1, <2>1, <2>2, <2>3, <2>4 DEF TypeOK, RingTypeOK, PacketPC
<1>3. BatcherKnows
  BY <1>1 DEF BatcherKnows, Counted, InHand, LastFrame
<1> QED BY <1>2, <1>3

(* A slot holds at most the packets of one frame: the scan the batcher has  *)
(* open is one packet short, at least.                                      *)
LEMMA BatchType ==
    ASSUME TypeOK, BatcherKnows, Batch
    PROVE  /\ lidar_scans' \in [Index -> Scan]
           /\ cached' \in Frame0 /\ batching' \in BOOLEAN
<1> USE HandlerAssumption DEF TypeOK
<1>1. OpenScan \in Scan /\ OpenScan.packets + 1 \in 0 .. PacketsPerScan
  BY DEF OpenScan, BatcherKnows, Scan, Frame0
<1>2. ASSUME NEW scan \in Scan, scan.packets + 1 \in 0 .. PacketsPerScan
      PROVE  [scan EXCEPT !.packets = @ + 1] \in Scan
  BY <1>2 DEF Scan
<1>3. lidar_scans' \in [Index -> Scan]
  BY <1>1, <1>2 DEF Batch
<1>4. cached' \in {0, packet} /\ batching' \in BOOLEAN
  BY DEF Batch
<1> QED BY <1>3, <1>4 DEF Frame0

LEMMA TypePreserved ==
    ASSUME TypeOK, BatcherKnows, HandlerInv, [Next]_vars
    PROVE  TypeOK'
<1> USE RingAssumption, HandlerAssumption
<1>1. RingTypeOK'
  BY HandlerStep DEF HandlerInv
<1>2. SUFFICES
        /\ mutexes' \in [Index -> {"free", "packet", "consumer"}]
        /\ lidar_scans' \in [Index -> Scan]
        /\ cached' \in Frame0 /\ batching' \in BOOLEAN
        /\ lidar_scan_estimated_ts' \in Frame0 /\ lidar_scan_estimated_msg_ts' \in Frame0
        /\ sent' \in 0 .. MaxFrames * PacketsPerScan
        /\ packet' \in Frame0 /\ ppc' \in PacketPC /\ active' \in BOOLEAN
        /\ delivered' \in [frame : Frame0, ts : Frame0, msg_ts : Frame0]
        /\ handled' \in [frame : Frame0, times : 0 .. 2]
  BY <1>1 DEF TypeOK, RingTypeOK
<1> USE DEF TypeOK
<1>3. CASE Receive
  <2>1. PICK n \in Arrivals : sent' = n /\ packet' \in {packet, FrameOf(n)}
                              /\ ppc' \in {ppc, "lock"}
    BY <1>3 DEF Receive
  <2>2. MaxFrames * PacketsPerScan \in Nat
    OBVIOUS
  <2>3. n \in 1 .. MaxFrames * PacketsPerScan
    BY <2>1, <2>2 DEF Arrivals
  <2>4. FrameOf(n) \in Frame0
    BY <2>3, SentFrame DEF Frames, Frame0
  <2> QED BY <1>3, <2>1, <2>2, <2>3, <2>4 DEF Receive, ring, stamps, PacketPC
<1>4. CASE LockWriteHead
  BY <1>4 DEF LockWriteHead, ring, stamps, PacketPC
<1>5. CASE Batch
  <2>1. /\ lidar_scans' \in [Index -> Scan]
        /\ cached' \in Frame0 /\ batching' \in BOOLEAN
    BY <1>5, BatchType
  <2>2. ppc' \in PacketPC /\ mutexes' \in [Index -> {"free", "packet", "consumer"}]
    BY <1>5 DEF Batch, PacketPC
  <2> QED BY <1>5, <2>1, <2>2 DEF Batch, ring, stamps
<1>6. CASE StampScan \/ StampMessage
  BY <1>6 DEF StampScan, StampMessage, ring, PacketPC, Scan
<1>7. CASE WriteCompare \/ WriteDecide \/ WriteStore \/ Notify
  BY <1>7 DEF WriteCompare, WriteDecide, WriteStore, Notify, ring, stamps, PacketPC
<1>8. CASE Loop \/ TestPredicate \/ Block \/ AfterTimeout \/ Timeout \/ SpuriousWakeup
           \/ MeasureCompare \/ ReadCompare \/ ReadDecide
  BY <1>8
  DEF Loop, TestPredicate, Block, AfterTimeout, Timeout, SpuriousWakeup,
      MeasureCompare, ReadCompare, ReadDecide, Goto, ring, stamps, packetVars
<1>9. CASE LockReadHead \/ Measure \/ ReadStore \/ UnlockSlot
  BY <1>9
  DEF LockReadHead, Measure, ReadStore, UnlockSlot, ring, stamps, packetVars
<1>10. CASE CallProcessor
  BY <1>10 DEF CallProcessor, ring, stamps, packetVars, Scan, Frame0
<1>11. CASE RunProcessor
  <2>1. Seen(lidar_scans[consumer.slot].frame) \in [frame : Frame0, times : 0 .. 2]
    BY DEF Seen, Scan
  <2> QED BY <1>11, <2>1 DEF RunProcessor, ring, stamps, packetVars
<1>12. CASE Destroy \/ UNCHANGED vars
  BY <1>12 DEF Destroy, vars, ring, stamps, packetVars
<1> QED
  BY <1>3, <1>4, <1>5, <1>6, <1>7, <1>8, <1>9, <1>10, <1>11, <1>12
  DEF Next, PacketThread, ScanThread, Destroyed

(* The batcher never opens a frame that it has completed before.            *)
LEMMA OpensLaterFrame ==
    ASSUME TypeOK, BatcherKnows, ppc = "batch"
    PROVE  /\ OpenScan.frame \in Nat /\ OpenScan.packets \in Nat
           /\ OpenScan = [frame |-> OpenScan.frame, packets |-> OpenScan.packets]
           /\ OpenScan.packets < PacketsPerScan
           /\ (OpenScan.frame - 1) * PacketsPerScan + OpenScan.packets + 1 <= sent
           /\ OpenScan.frame > lidar_scan_estimated_ts
<1> DEFINE P == PacketsPerScan
           s == OpenScan
           w == write_idx
<1> USE HandlerAssumption
<1>1. /\ InHand /\ packet = FrameOf(sent) /\ w \in Index
      /\ LastFrame = lidar_scan_estimated_ts /\ LastFrame \in Nat
      /\ sent \in Nat
  BY DEF BatcherKnows, InHand, LastFrame, TypeOK, Frame0
<1>2. /\ s.frame \in Nat /\ s.packets \in Nat /\ s.packets < P
      /\ s = [frame |-> s.frame, packets |-> s.packets]
      /\ (s.frame - 1) * P + s.packets + 1 <= sent
      /\ s.frame > LastFrame
  <2>1. CASE cached # 0 \/ batching
    <3>1. s = Opened /\ s \in Scan /\ s.packets < P
      BY <2>1 DEF OpenScan, Opened, BatcherKnows, TypeOK, Scan, Frame0
    <3>2. /\ Opened.frame > LastFrame
          /\ Counted((Opened.frame - 1) * P + Opened.packets) <= sent
      BY <2>1 DEF BatcherKnows
    <3> HIDE DEF s
    <3> QED BY <1>1, <3>1, <3>2 DEF Counted, Scan, Frame0
  <2>2. CASE cached = 0 /\ ~batching
    <3>1. s = [frame |-> packet, packets |-> 0]
      BY <2>2 DEF OpenScan
    <3>2. LastFrame * P + 1 <= sent
      BY <1>1, <2>2 DEF BatcherKnows, Counted
    <3>3. LastFrame * P \in Nat
      BY <1>1
    <3>4. LastFrame * P < sent /\ sent \in Nat \ {0}
      BY <1>1, <3>2, <3>3
    <3>5. packet > LastFrame /\ packet \in Nat
      BY <1>1, <3>4, LaterFrame, FrameOfBounds
    <3>6. (packet - 1) * P < sent /\ (packet - 1) * P \in Int
      BY <1>1, <3>4, <3>5, FrameOfBounds
    <3> QED BY <1>1, <3>1, <3>5, <3>6
  <2> QED BY <2>1, <2>2 DEF TypeOK
<1> QED BY <1>1, <1>2

LEMMA BatchKnows ==
    ASSUME TypeOK, BatcherKnows, Batch
    PROVE  BatcherKnows'
<1> DEFINE P == PacketsPerScan
           s == OpenScan
           w == write_idx
<1> USE HandlerAssumption
<1>1. /\ ppc = "batch" /\ InHand /\ packet = FrameOf(sent)
      /\ w \in Index /\ write_idx' = w /\ sent' = sent /\ packet' = packet
      /\ lidar_scan_estimated_ts' = lidar_scan_estimated_ts
      /\ LastFrame = lidar_scan_estimated_ts /\ LastFrame \in Nat
      /\ sent \in Nat
  BY DEF Batch, BatcherKnows, InHand, LastFrame, TypeOK, ring, stamps, Frame0
<1>2. /\ s.frame \in Nat /\ s.packets \in Nat /\ s.packets < P
      /\ s = [frame |-> s.frame, packets |-> s.packets]
      /\ (s.frame - 1) * P + s.packets + 1 <= sent
      /\ s.frame > LastFrame
  BY <1>1, OpensLaterFrame
<1> HIDE DEF s
<1>3. /\ (s.frame - 1) * P \in Int /\ s.frame * P \in Int
      /\ (s.frame - 1) * P + P = s.frame * P
  BY <1>2
<1>4. CASE packet = s.frame
  <2> DEFINE now == [s EXCEPT !.packets = @ + 1]
  <2>1. now.frame = s.frame /\ now.packets = s.packets + 1
    BY <1>2
  <2>2. lidar_scans'[w] = now /\ cached' = 0
    BY <1>1, <1>4 DEF Batch, s, TypeOK
  <2>3. CASE now.packets = P
    <3>1. batching' = FALSE /\ ppc' = "ts"
      BY <1>4, <2>3 DEF Batch, s
    <3>2. LastFrame' = s.frame
      BY <1>1, <2>1, <2>2, <3>1 DEF LastFrame
    <3>3. s.frame * P <= sent
      BY <1>1, <1>2, <1>3, <2>1, <2>3
    <3> QED BY <1>1, <2>2, <3>1, <3>2, <3>3 DEF BatcherKnows, Counted, InHand
  <2>4. CASE now.packets # P
    <3>1. batching' = TRUE /\ ppc' = "idle"
      BY <1>4, <2>4 DEF Batch, s
    <3>2. LastFrame' = LastFrame /\ Opened' = now
      BY <1>1, <2>2, <3>1 DEF LastFrame, Opened
    <3>3. (s.frame - 1) * P + (s.packets + 1) <= sent
      BY <1>1, <1>2, <1>3
    <3>4. now.packets < P
      BY <1>2, <2>1, <2>4
    <3> HIDE DEF now
    <3> QED BY <1>1, <1>2, <2>1, <2>2, <3>1, <3>2, <3>3, <3>4
            DEF BatcherKnows, Counted, InHand
  <2> QED BY <2>3, <2>4
<1>5. CASE packet # s.frame
  <2>1. /\ lidar_scans'[w] = s /\ cached' = packet
        /\ batching' = FALSE /\ ppc' = "ts"
    BY <1>1, <1>5 DEF Batch, s, TypeOK
  <2>2. (s.frame - 1) * P < sent /\ sent \in Nat \ {0} /\ s.frame - 1 \in Nat
    BY <1>1, <1>2, <1>3
  <2>3. packet > s.frame /\ packet \in Nat
    BY <1>1, <1>2, <1>5, <2>2, LaterFrame, FrameOfBounds
  <2>4. (packet - 1) * P < sent /\ (packet - 1) * P \in Int
    BY <1>1, <2>2, <2>3, FrameOfBounds
  <2>5. LastFrame' = s.frame /\ Opened' = [frame |-> packet, packets |-> 1]
    BY <1>1, <1>2, <2>1, <2>3 DEF LastFrame, Opened
  <2>6. (packet - 1) * P + 1 <= sent
    BY <1>1, <2>4
  <2> QED BY <1>1, <1>2, <2>1, <2>3, <2>5, <2>6 DEF BatcherKnows, Counted, InHand
<1> QED BY <1>4, <1>5

LEMMA BatcherStep ==
    ASSUME TypeOK, BatcherKnows, [Next]_vars
    PROVE  BatcherKnows'
<1> USE HandlerAssumption
<1> DEFINE P == PacketsPerScan
           held == (Opened.frame - 1) * P + Opened.packets
<1>1. /\ write_idx \in Index /\ sent \in Nat /\ lidar_scans[write_idx] \in Scan
      /\ lidar_scan_estimated_ts \in Nat /\ cached \in Nat
  BY DEF TypeOK, Frame0
<1>2. /\ LastFrame \in Nat /\ Opened.frame \in Nat /\ Opened.packets \in Nat
      /\ held \in Int /\ LastFrame * P \in Int
  <2>1. LastFrame \in Nat /\ Opened.frame \in Nat /\ Opened.packets \in Nat
    BY <1>1 DEF LastFrame, Opened, Scan, Frame0
  <2> QED BY <2>1
<1>3. ASSUME UNCHANGED <<write_idx, lidar_scans, cached, batching, packet, sent,
                         lidar_scan_estimated_ts>>,
             ppc' = ppc \/ (ppc \notin {"lock", "ts"} /\ ppc' \notin {"lock", "batch", "ts"}
                            /\ ~InHand /\ ~batching)
      PROVE  BatcherKnows'
  BY <1>3 DEF BatcherKnows, InHand, LastFrame, Opened, Counted
<1>4. CASE Receive
  <2>1. PICK n \in Arrivals :
          /\ sent' = n
          /\ IF RingFull THEN UNCHANGED <<packet, ppc>>
             ELSE packet' = FrameOf(n) /\ ppc' = "lock"
    BY <1>4 DEF Receive
  <2>2. n \in Nat /\ n >= sent + 1
    BY <1>1, <2>1 DEF Arrivals
  <2>3. /\ ppc = "idle" /\ ppc' \in {"idle", "lock"}
        /\ InHand' => packet' = FrameOf(sent')
        /\ LastFrame' = LastFrame /\ Opened' = Opened
        /\ cached' = cached /\ batching' = batching
        /\ lidar_scans' = lidar_scans /\ write_idx' = write_idx
    BY <1>4, <2>1 DEF Receive, ring, stamps, LastFrame, Opened, InHand
  <2>4. IF cached # 0 \/ batching THEN held <= sent ELSE LastFrame * P <= sent
    BY <2>3 DEF BatcherKnows, Counted, InHand
  <2>5. IF cached # 0 \/ batching THEN held + 1 <= sent' ELSE LastFrame * P + 1 <= sent'
    <3> HIDE DEF held
    <3>1. \A x \in Int : x <= sent => x + 1 <= sent' /\ x <= sent'
      BY <1>1, <2>1, <2>2
    <3> QED BY <1>2, <2>4, <3>1
  <2>6. IF cached # 0 \/ batching THEN Counted(held)' <= sent'
        ELSE Counted(LastFrame * P)' <= sent'
    <3>1. held' = held /\ (LastFrame * P)' = LastFrame * P
      BY <2>3
    <3> HIDE DEF held
    <3>2. \A x \in Int : x + 1 <= sent' => x <= sent'
      BY <2>1, <2>2
    <3> QED BY <1>2, <2>5, <3>1, <3>2 DEF Counted
  <2> QED BY <2>3, <2>6 DEF BatcherKnows
<1>5. CASE LockWriteHead
  BY <1>5 DEF LockWriteHead, ring, stamps, BatcherKnows, InHand, LastFrame, Opened, Counted
<1>6. CASE Batch
  BY <1>6, BatchKnows
<1>7. CASE StampScan
  BY <1>7 DEF StampScan, ring, BatcherKnows, InHand, LastFrame, Opened, Counted
<1>8. CASE WriteStore
  BY <1>8 DEF WriteStore, stamps, BatcherKnows, InHand, LastFrame, Opened, Counted
<1>9. CASE StampMessage \/ WriteCompare \/ WriteDecide \/ Notify
  BY <1>3, <1>9
  DEF StampMessage, WriteCompare, WriteDecide, Notify, ring, stamps, BatcherKnows, InHand
<1>10. CASE ScanThread \/ Timeout \/ SpuriousWakeup \/ Destroy \/ UNCHANGED vars
  BY <1>3, <1>10
  DEF ScanThread, Loop, TestPredicate, Block, AfterTimeout, Timeout, SpuriousWakeup,
      MeasureCompare, ReadCompare, ReadDecide, Goto, LockReadHead, CallProcessor,
      RunProcessor, Measure, ReadStore, UnlockSlot, Destroy, vars, ring, stamps,
      packetVars
<1> QED BY <1>4, <1>5, <1>6, <1>7, <1>8, <1>9, <1>10
        DEF Next, PacketThread, Destroyed

LEMMA TypeInvariant == Spec => [](TypeOK /\ BatcherKnows)
<1>1. TypeOK /\ BatcherKnows /\ HandlerInv /\ [Next]_vars => (TypeOK /\ BatcherKnows)'
  BY TypePreserved, BatcherStep
<1> QED BY <1>1, InitType, HandlerInvariant, PTL DEF Spec

(* The variables keep their types; in particular a slot never counts more   *)
(* packets than its frame has.                                              *)
THEOREM HandlerTypeCorrect == Spec => []TypeOK
  BY TypeInvariant, PTL

-----------------------------------------------------------------------------
(* The slots between the heads, when one of the heads moves.                *)
LEMMA WaitingAfterWrite ==
    ASSUME NEW w \in Index, NEW r \in Index, Occupancy(w, r) <= Capacity - 2,
           NEW i \in Index
    PROVE  Occupancy(i, r) < Occupancy(Advance(w, 1), r)
             <=> i = w \/ Occupancy(i, r) < Occupancy(w, r)
<1>1. Occupancy(Advance(w, 1), r) = Occupancy(w, r) + 1
  BY HeldAfterWrite
<1> QED BY <1>1, RingAssumption DEF Index, Occupancy

LEMMA WaitingAfterRead ==
    ASSUME NEW w \in Index, NEW r \in Index, NEW n \in {1, 2},
           Occupancy(w, r) >= n, NEW i \in Index,
           Occupancy(i, Advance(r, n)) < Occupancy(w, Advance(r, n))
    PROVE  /\ Occupancy(i, r) = Occupancy(i, Advance(r, n)) + n
           /\ Occupancy(i, r) < Occupancy(w, r)
           /\ Occupancy(r, r) < Occupancy(i, r)
<1> USE RingAssumption DEF Index, Occupancy
<1>1. n \in 1 .. Capacity - 1
  OBVIOUS
<1>2. Advance(r, n) = IF r + n < Capacity THEN r + n ELSE r + n - Capacity
  BY <1>1, AdvanceIndex
<1> QED BY <1>1, <1>2

LEMMA WaitingFacts ==
    ASSUME TypeOK
    PROVE  /\ write_idx \in Index /\ read_idx \in Index
           /\ \A i \in Index : Occupancy(i, read_idx) \in Int
           /\ ~Waiting(write_idx)
           /\ Held >= 1 => Waiting(read_idx)
           /\ \A i \in Index : i # read_idx =>
                Occupancy(read_idx, read_idx) < Occupancy(i, read_idx)
           /\ \A i \in Index : lidar_scans[i].frame \in Int
           /\ lidar_scan_estimated_ts \in Int /\ lidar_scan_estimated_msg_ts \in Int
           /\ handled.frame \in Int /\ Held \in Int
<1>1. /\ write_idx \in Index /\ read_idx \in Index
      /\ lidar_scans \in [Index -> Scan] /\ handled.frame \in Frame0
      /\ lidar_scan_estimated_ts \in Frame0 /\ lidar_scan_estimated_msg_ts \in Frame0
  BY DEF TypeOK
<1>2. Frame0 \subseteq Int /\ \A s \in Scan : s.frame \in Frame0
  BY DEF Frame0, Scan
<1>3. /\ \A i \in Index : Occupancy(i, read_idx) \in Int
      /\ ~Waiting(write_idx) /\ Held \in Int
      /\ Held >= 1 => Waiting(read_idx)
      /\ \A i \in Index : i # read_idx =>
           Occupancy(read_idx, read_idx) < Occupancy(i, read_idx)
  BY <1>1, RingAssumption DEF Waiting, Held, Occupancy, Index
<1> QED BY <1>1, <1>2, <1>3

LEMMA InitFrameInv == Init => FrameInv
  BY RingAssumption
  DEF Init, FrameInv, FramesAhead, StampsKnow, HandledKnows, Waiting, Held, Occupancy,
      Index, LastFrame, Leaving

(* Steps of the packet thread.                                              *)
LEMMA BatchFrames ==
    ASSUME TypeOK, HandlerInv, BatcherKnows, FrameInv, Batch
    PROVE  FrameInv'
<1> DEFINE w == write_idx
           now == lidar_scans'[w]
<1>1. /\ write_idx' = w /\ read_idx' = read_idx /\ consumer' = consumer
      /\ handled' = handled /\ delivered' = delivered
      /\ lidar_scan_estimated_ts' = lidar_scan_estimated_ts
      /\ lidar_scan_estimated_msg_ts' = lidar_scan_estimated_msg_ts
      /\ ppc = "batch" /\ ppc' \in {"ts", "idle"}
      /\ \A i \in Index : i # w => lidar_scans'[i] = lidar_scans[i]
  BY DEF Batch, ring, stamps, TypeOK
<1>2. now.frame > lidar_scan_estimated_ts /\ now.frame \in Int
  <2>1. now.frame = OpenScan.frame
    BY OpensLaterFrame DEF Batch, TypeOK
  <2> QED BY <1>1, <2>1, OpensLaterFrame
<1>3. \A i \in Index : Waiting(i)' <=> Waiting(i)
  BY <1>1 DEF Waiting, Held
<1>4. \A i \in Index : Waiting(i) => lidar_scans'[i] = lidar_scans[i]
  BY <1>1, WaitingFacts
<1>5. FramesAhead'
  BY <1>1, <1>3, <1>4 DEF FrameInv, FramesAhead
<1>6. StampsKnow'
  <2>1. LastFrame = lidar_scan_estimated_ts
        /\ LastFrame' = IF ppc' = "ts" THEN now.frame ELSE lidar_scan_estimated_ts
    BY <1>1 DEF LastFrame
  <2> HIDE DEF now
  <2>2. handled.frame < now.frame /\ handled.frame <= LastFrame'
    BY <1>1, <1>2, <2>1, WaitingFacts DEF FrameInv, StampsKnow
  <2>3. \A i \in Index : Waiting(i) => lidar_scans[i].frame < now.frame
    BY <1>2, WaitingFacts DEF FrameInv, StampsKnow
  <2> QED BY <1>1, <1>3, <1>4, <2>2, <2>3 DEF FrameInv, StampsKnow, now
<1>7. HandledKnows'
  <2>1. Leaving \/ consumer.pc = "called" => lidar_scans'[read_idx] = lidar_scans[read_idx]
    BY <1>4, WaitingFacts DEF HandlerInv, ScanThreadKnows, Processing, Leaving
  <2> QED BY <1>1, <1>3, <1>4, <2>1 DEF FrameInv, HandledKnows, Leaving
<1> QED BY <1>5, <1>6, <1>7 DEF FrameInv

LEMMA StoreFrames ==
    ASSUME TypeOK, HandlerInv, FrameInv, WriteStore
    PROVE  FrameInv'
<1> DEFINE w == write_idx
<1>1. /\ write_idx' = Advance(w, 1) /\ read_idx' = read_idx /\ consumer' = consumer
      /\ handled' = handled /\ delivered' = delivered /\ lidar_scans' = lidar_scans
      /\ lidar_scan_estimated_ts' = lidar_scan_estimated_ts
      /\ lidar_scan_estimated_msg_ts' = lidar_scan_estimated_msg_ts
      /\ ppc = "store" /\ ppc' = "notify"
  BY DEF WriteStore, stamps
<1>2. Held <= Capacity - 2
  BY <1>1 DEF HandlerInv, PacketThreadKnows
<1>3. \A i \in Index : Waiting(i)' <=> i = w \/ Waiting(i)
  BY <1>1, <1>2, WaitingAfterWrite, WaitingFacts DEF Waiting, Held
<1>4. \A i \in Index : Waiting(i) =>
        /\ Occupancy(i, read_idx) < Occupancy(w, read_idx)
        /\ lidar_scans[i].frame < lidar_scans[w].frame
  BY <1>1 DEF FrameInv, StampsKnow, Waiting, Held
<1>5. FramesAhead'
  <2> SUFFICES ASSUME NEW i \in Index, NEW j \in Index, Waiting(i)', Waiting(j)',
                      Occupancy(i, read_idx) < Occupancy(j, read_idx)
               PROVE  lidar_scans[i].frame < lidar_scans[j].frame
    BY <1>1 DEF FramesAhead
  <2>1. CASE Waiting(i) /\ Waiting(j)
    BY <2>1 DEF FrameInv, FramesAhead
  <2>2. CASE j = w /\ Waiting(i)
    BY <1>4, <2>2
  <2>3. CASE i = w
    BY <1>3, <1>4, <2>3, WaitingFacts
  <2> QED BY <1>3, <2>1, <2>2, <2>3
<1>6. StampsKnow'
  BY <1>1, <1>3, WaitingFacts DEF FrameInv, StampsKnow, LastFrame
<1>7. HandledKnows'
  BY <1>1, <1>3, WaitingFacts DEF FrameInv, HandledKnows, StampsKnow, Leaving
<1> QED BY <1>5, <1>6, <1>7 DEF FrameInv

LEMMA PacketFrames ==
    ASSUME TypeOK, HandlerInv, BatcherKnows, FrameInv, Receive \/ PacketThread
    PROVE  FrameInv'
<1>1. CASE Receive \/ LockWriteHead \/ WriteCompare \/ WriteDecide
  BY <1>1
  DEF Receive, LockWriteHead, WriteCompare, WriteDecide, ring, stamps, FrameInv,
      FramesAhead, StampsKnow, HandledKnows, Waiting, Held, LastFrame, Leaving
<1>2. CASE Batch
  BY <1>2, BatchFrames
<1>3. CASE StampScan
  <2>1. /\ \A i \in Index : Waiting(i)' <=> Waiting(i)
        /\ FramesAhead' /\ HandledKnows'
    BY <1>3
    DEF StampScan, ring, FrameInv, FramesAhead, HandledKnows, Waiting, Held, Leaving
  <2>2. StampsKnow'
    BY <1>3, <2>1, WaitingFacts
    DEF StampScan, ring, FrameInv, StampsKnow, LastFrame
  <2> QED BY <2>1, <2>2 DEF FrameInv
<1>4. CASE StampMessage
  <2>1. /\ \A i \in Index : Waiting(i)' <=> Waiting(i)
        /\ FramesAhead' /\ HandledKnows'
    BY <1>4
    DEF StampMessage, ring, FrameInv, FramesAhead, HandledKnows, Waiting, Held, Leaving
  <2>2. StampsKnow'
    BY <1>4, <2>1, WaitingFacts
    DEF StampMessage, ring, FrameInv, StampsKnow, LastFrame
  <2> QED BY <2>1, <2>2 DEF FrameInv
<1>5. CASE WriteStore
  BY <1>5, StoreFrames
<1>6. CASE Notify
  <2>1. /\ consumer'.pc = consumer.pc \/ (consumer.pc = "waiting" /\ consumer'.pc = "enter")
        /\ UNCHANGED <<write_idx, read_idx, lidar_scans, handled, delivered,
                       lidar_scan_estimated_ts, lidar_scan_estimated_msg_ts>>
        /\ ppc = "notify" /\ ppc' = "idle"
    BY <1>6 DEF Notify, ring, stamps, TypeOK
  <2> QED BY <2>1
          DEF FrameInv, FramesAhead, StampsKnow, HandledKnows, Waiting, Held, LastFrame,
              Leaving
<1> QED BY <1>1, <1>2, <1>3, <1>4, <1>5, <1>6 DEF PacketThread

(* Steps of the scan thread.                                                *)
LEMMA ReadFrames ==
    ASSUME TypeOK, HandlerInv, FrameInv, ReadStore
    PROVE  FrameInv'
<1> DEFINE r == read_idx
           n == consumer.read_step
<1>1. /\ write_idx' = write_idx /\ read_idx' = Advance(r, n)
      /\ ppc' = ppc /\ handled' = handled /\ lidar_scans' = lidar_scans
      /\ lidar_scan_estimated_ts' = lidar_scan_estimated_ts
      /\ lidar_scan_estimated_msg_ts' = lidar_scan_estimated_msg_ts
      /\ consumer.pc = "advance" /\ consumer'.pc = "unlock"
  BY DEF ReadStore, stamps, packetVars, TypeOK
<1>2. n \in {1, 2} /\ Held >= n /\ Held >= 1
  BY <1>1, WaitingFacts DEF TypeOK, HandlerInv, ScanThreadKnows
<1>3. \A i \in Index : Waiting(i)' =>
        /\ Waiting(i)
        /\ Occupancy(i, r) = Occupancy(i, Advance(r, n)) + n
        /\ Occupancy(r, r) < Occupancy(i, r)
  BY <1>1, <1>2, WaitingAfterRead, WaitingFacts DEF Waiting, Held
<1>4. FramesAhead'
  <2> SUFFICES ASSUME NEW i \in Index, NEW j \in Index, Waiting(i)', Waiting(j)',
                      Occupancy(i, Advance(r, n)) < Occupancy(j, Advance(r, n))
               PROVE  lidar_scans[i].frame < lidar_scans[j].frame
    BY <1>1 DEF FramesAhead
  <2>1. Advance(r, n) \in Index
    BY <1>2, HeldAfterRead, WaitingFacts DEF Held
  <2>2. Occupancy(i, r) < Occupancy(j, r)
    BY <1>2, <1>3, <2>1, RingAssumption DEF Occupancy, Index
  <2> QED BY <1>3, <2>2 DEF FrameInv, FramesAhead
<1>5. StampsKnow'
  BY <1>1, <1>3 DEF FrameInv, StampsKnow, LastFrame
<1>6. HandledKnows'
  <2>1. Waiting(r) /\ handled.frame = lidar_scans[r].frame
    BY <1>1, <1>2, WaitingFacts DEF FrameInv, HandledKnows, Leaving
  <2>2. \A i \in Index : Waiting(i)' => handled.frame < lidar_scans[i].frame
    BY <1>3, <2>1, WaitingFacts DEF FrameInv, FramesAhead
  <2> QED BY <1>1, <2>2 DEF HandledKnows, Leaving
<1> QED BY <1>4, <1>5, <1>6 DEF FrameInv

(* What a call of the processors sees is the scan at the read head.         *)
LEMMA RunFrames ==
    ASSUME TypeOK, HandlerInv, FrameInv, RunProcessor
    PROVE  FrameInv'
<1> DEFINE r == read_idx
<1>1. /\ UNCHANGED <<write_idx, read_idx, lidar_scans, lidar_scan_estimated_ts,
                     lidar_scan_estimated_msg_ts, ppc>>
      /\ \/ consumer'.pc = "call" /\ handled' = handled
         \/ consumer'.pc = "measure" /\ handled'.frame = lidar_scans[consumer.slot].frame
  <2>1. \/ consumer'.pc = "call" /\ handled' = handled
        \/ consumer'.pc = "measure" /\ handled' = Seen(lidar_scans[consumer.slot].frame)
    BY DEF RunProcessor, TypeOK
  <2> QED BY <2>1 DEF RunProcessor, Seen, ring, stamps, packetVars
<1>2. consumer.pc = "called" /\ consumer.slot = r /\ Waiting(r)
  BY WaitingFacts DEF RunProcessor, HandlerInv, ScanThreadKnows, Processing
<1>3. FramesAhead'
  BY <1>1 DEF FrameInv, FramesAhead, Waiting, Held
<1>4. LastFrame' = LastFrame /\ lidar_scans[r].frame <= LastFrame
  BY <1>1, <1>2, WaitingFacts DEF LastFrame, FrameInv, StampsKnow
<1>5. StampsKnow'
  BY <1>1, <1>2, <1>4, WaitingFacts DEF FrameInv, StampsKnow, Waiting, Held
<1>6. HandledKnows'
  BY <1>1, <1>2 DEF FrameInv, HandledKnows, Leaving, Waiting, Held
<1> QED BY <1>3, <1>5, <1>6 DEF FrameInv

LEMMA ScanFrames ==
    ASSUME TypeOK, HandlerInv, FrameInv, ScanThread \/ Timeout \/ SpuriousWakeup
    PROVE  FrameInv'
<1>1. ASSUME UNCHANGED <<write_idx, read_idx, lidar_scans, lidar_scan_estimated_ts,
                         lidar_scan_estimated_msg_ts, ppc, handled>>,
             Leaving' = Leaving,
             consumer'.pc = "called" => delivered'.frame = lidar_scans[read_idx].frame
      PROVE  FrameInv'
  BY <1>1 DEF FrameInv, FramesAhead, StampsKnow, HandledKnows, LastFrame, Waiting, Held
<1>2. CASE Loop \/ TestPredicate \/ Block \/ AfterTimeout \/ Timeout \/ SpuriousWakeup
           \/ MeasureCompare \/ ReadCompare
  BY <1>1, <1>2
  DEF Loop, TestPredicate, Block, AfterTimeout, Timeout, SpuriousWakeup, MeasureCompare,
      ReadCompare, Goto, ring, stamps, packetVars, Leaving, TypeOK
<1>3. CASE ReadDecide
  <2>1. ReadFits
    BY <1>3, NeverRefused DEF ReadDecide, RingNeverRefuses
  <2> QED BY <1>1, <1>3, <2>1
          DEF ReadDecide, Goto, ring, stamps, packetVars, Leaving, TypeOK
<1>4. CASE LockReadHead \/ Measure
  <2>1. \/ consumer.pc = "lock" /\ consumer'.pc = "call"
        \/ consumer.pc \in {"mge", "mlt"} /\ consumer'.pc = "read"
    BY <1>4 DEF LockReadHead, Measure, TypeOK
  <2> QED BY <1>1, <1>4, <2>1 DEF LockReadHead, Measure, ring, stamps, packetVars, Leaving
<1>5. CASE CallProcessor
  <2>1. consumer.slot = read_idx
    BY <1>5 DEF CallProcessor, HandlerInv, ScanThreadKnows, Processing
  <2>2. delivered'.frame = lidar_scans[read_idx].frame
    BY <1>5, <2>1 DEF CallProcessor
  <2> QED BY <1>1, <1>5, <2>2 DEF CallProcessor, ring, stamps, packetVars, Leaving, TypeOK
<1>6. CASE RunProcessor
  BY <1>6, RunFrames
<1>7. CASE ReadStore
  BY <1>7, ReadFrames
<1>8. CASE UnlockSlot
  BY <1>1, <1>8 DEF UnlockSlot, ring, stamps, packetVars, Leaving, TypeOK
<1> QED BY <1>2, <1>3, <1>4, <1>5, <1>6, <1>7, <1>8 DEF ScanThread

KnownInv == TypeOK /\ HandlerInv /\ BatcherKnows /\ FrameInv

LEMMA KnownStep == KnownInv /\ [Next]_vars => KnownInv'
<1> SUFFICES ASSUME KnownInv, [Next]_vars PROVE KnownInv'
  OBVIOUS
<1> USE DEF KnownInv
<1>1. (TypeOK /\ HandlerInv /\ BatcherKnows)'
  BY TypePreserved, BatcherStep, HandlerStep
<1>2. CASE Destroy \/ UNCHANGED vars
  <2>1. FrameInv'
    BY <1>2
    DEF Destroy, vars, ring, stamps, packetVars, FrameInv, FramesAhead, StampsKnow,
        HandledKnows, Waiting, Held, LastFrame, Leaving
  <2> QED BY <1>1, <2>1
<1> QED BY <1>1, <1>2, PacketFrames, ScanFrames DEF Next, Destroyed

LEMMA KnownInvariant == Spec => []KnownInv
<1>1. Init => KnownInv
  BY InitType, InitHandlerInv, InitFrameInv DEF KnownInv
<1> QED BY <1>1, KnownStep, PTL DEF Spec

(* The stamps that a processor is given are never those of an earlier scan. *)
THEOREM StampsNotBehind == Spec => []StampNeverEarlier
<1>1. Init => StampNeverEarlier
  BY DEF Init, StampNeverEarlier
<1>2. KnownInv /\ StampNeverEarlier /\ [Next]_vars => StampNeverEarlier'
  <2> SUFFICES ASSUME KnownInv, StampNeverEarlier, [Next]_vars PROVE StampNeverEarlier'
    OBVIOUS
  <2> USE DEF StampNeverEarlier
  <2>1. ASSUME delivered' = delivered, consumer'.pc \notin {"called", "measure"}
                                        \/ consumer'.pc = consumer.pc
        PROVE  StampNeverEarlier'
    BY <2>1
  <2>2. CASE CallProcessor
    <3>1. consumer.slot = read_idx /\ Waiting(read_idx) /\ read_idx \in Index
      BY <2>2, WaitingFacts
      DEF CallProcessor, KnownInv, HandlerInv, ScanThreadKnows, Processing
    <3>2. lidar_scans[read_idx].frame <= lidar_scan_estimated_ts
      BY <3>1 DEF KnownInv, FrameInv, StampsKnow
    <3> QED BY <2>2, <3>1, <3>2 DEF CallProcessor, KnownInv, TypeOK
  <2>3. CASE RunProcessor
    <3>1. /\ consumer.pc = "called" /\ Waiting(read_idx) /\ read_idx \in Index
          /\ delivered.frame = lidar_scans[read_idx].frame
      BY <2>3, WaitingFacts
      DEF RunProcessor, KnownInv, HandlerInv, ScanThreadKnows, Processing, FrameInv,
          HandledKnows
    <3>2. delivered.frame <= lidar_scan_estimated_msg_ts
      BY <3>1 DEF KnownInv, FrameInv, StampsKnow
    <3>3. delivered'.frame = delivered.frame
          /\ delivered'.msg_ts = lidar_scan_estimated_msg_ts
          /\ consumer'.pc \in {"call", "measure"}
      BY <2>3 DEF RunProcessor, KnownInv, TypeOK
    <3> QED BY <3>2, <3>3 DEF KnownInv, TypeOK, Frame0
  <2>4. CASE Loop \/ TestPredicate \/ Block \/ AfterTimeout \/ Timeout \/ SpuriousWakeup
             \/ MeasureCompare \/ ReadCompare \/ ReadDecide \/ LockReadHead \/ Measure
             \/ ReadStore \/ UnlockSlot
    BY <2>1, <2>4
    DEF Loop, TestPredicate, Block, AfterTimeout, Timeout, SpuriousWakeup,
        MeasureCompare, ReadCompare, ReadDecide, Goto, LockReadHead, Measure,
        ReadStore, UnlockSlot, KnownInv, TypeOK
  <2>5. CASE Receive \/ PacketThread \/ Destroy \/ UNCHANGED vars
    BY <2>1, <2>5
    DEF Receive, PacketThread, LockWriteHead, Batch, StampScan, StampMessage,
        WriteCompare, WriteDecide, WriteStore, Notify, Destroy, vars, KnownInv, TypeOK
  <2> QED BY <2>2, <2>3, <2>4, <2>5 DEF Next, ScanThread, Destroyed
<1> QED BY <1>1, <1>2, KnownInvariant, PTL DEF Spec

-----------------------------------------------------------------------------
(* The pending scans as a function of the heads and the slots.              *)
PendingOf(w, r, slots) ==
    [i \in 1 .. Occupancy(w, r) |-> slots[Advance(r, i - 1)].frame]

LEMMA AdvanceBy ==
    ASSUME NEW r \in Index, NEW n \in 0 .. Capacity - 1
    PROVE  /\ Advance(r, n) \in Index
           /\ Advance(r, n) = IF r + n < Capacity THEN r + n ELSE r + n - Capacity
           /\ Occupancy(Advance(r, n), r) = n
<1> USE RingAssumption DEF Index
<1>1. CASE n = 0
  BY <1>1, ModBelow DEF Advance, Occupancy
<1>2. CASE n \in 1 .. Capacity - 1
  BY <1>2, AdvanceIndex DEF Occupancy
<1> QED BY <1>1, <1>2

LEMMA PendingSeq ==
    ASSUME NEW w \in Index, NEW r \in Index, NEW slots \in [Index -> Scan]
    PROVE  /\ Occupancy(w, r) \in 0 .. Capacity - 1
           /\ PendingOf(w, r, slots) \in Seq(Frame0)
           /\ Len(PendingOf(w, r, slots)) = Occupancy(w, r)
           /\ \A i \in 1 .. Occupancy(w, r) :
                PendingOf(w, r, slots)[i] = slots[Advance(r, i - 1)].frame
<1>1. Occupancy(w, r) \in 0 .. Capacity - 1
  BY RingAssumption DEF Index, Occupancy
<1>2. ASSUME NEW i \in 1 .. Occupancy(w, r)
      PROVE  slots[Advance(r, i - 1)].frame \in Frame0
  <2>1. i - 1 \in 0 .. Capacity - 1
    BY <1>1, RingAssumption
  <2>2. Advance(r, i - 1) \in Index
    BY <2>1, AdvanceBy
  <2> QED BY <2>2 DEF Scan
<1>3. \A i \in 1 .. Occupancy(w, r) : slots[Advance(r, i - 1)].frame \in Frame0
  BY <1>2
<1> QED BY <1>1, <1>3 DEF PendingOf

(* A scan is completed: Put.                                                *)
LEMMA StoreRefines ==
    ASSUME KnownInv, WriteStore
    PROVE  \E f \in Frames : Queue!Put(f)
<1> DEFINE w == write_idx
           r == read_idx
           f == lidar_scans[w].frame
<1>1. /\ w \in Index /\ r \in Index /\ lidar_scans \in [Index -> Scan]
      /\ ppc = "store" /\ Held <= Capacity - 2
  BY DEF WriteStore, KnownInv, TypeOK, HandlerInv, PacketThreadKnows
<1>2. /\ w' = Advance(w, 1) /\ r' = r /\ lidar_scans' = lidar_scans
      /\ handled' = handled
  BY DEF WriteStore
<1>3. w' \in Index /\ Occupancy(w', r) = Held + 1
  BY <1>1, <1>2, HeldAfterWrite DEF Held
<1>4. Pending = PendingOf(w, r, lidar_scans) /\ Pending' = PendingOf(w', r, lidar_scans)
  BY <1>2 DEF Pending, PendingOf
<1>5. /\ Held \in 0 .. Capacity - 2 /\ Pending \in Seq(Frame0) /\ Len(Pending) = Held
      /\ Pending' \in Seq(Frame0) /\ Len(Pending') = Held + 1
      /\ \A i \in 1 .. Held : Pending[i] = lidar_scans[Advance(r, i - 1)].frame
      /\ \A i \in 1 .. Held + 1 : Pending'[i] = lidar_scans[Advance(r, i - 1)].frame
  <2>1. /\ Held \in 0 .. Capacity - 1 /\ Pending \in Seq(Frame0)
        /\ Len(Pending) = Held
        /\ \A i \in 1 .. Held : Pending[i] = lidar_scans[Advance(r, i - 1)].frame
    BY <1>1, <1>4, PendingSeq DEF Held
  <2>2. /\ PendingOf(w', r, lidar_scans) \in Seq(Frame0)
        /\ Len(PendingOf(w', r, lidar_scans)) = Held + 1
        /\ \A i \in 1 .. Held + 1 : PendingOf(w', r, lidar_scans)[i]
                                      = lidar_scans[Advance(r, i - 1)].frame
    BY <1>1, <1>3, PendingSeq
  <2>3. Held \in 0 .. Capacity - 2
    BY <1>1, <2>1, RingAssumption
  <2> QED BY <1>4, <2>1, <2>2, <2>3
<1>6. f \in Frames /\ f \in Frame0
  BY <1>1 DEF KnownInv, FrameInv, StampsKnow, TypeOK, Scan, Frame0, Frames
<1>7. \A i \in 1 .. Held : Pending[i] < f
  <2> SUFFICES ASSUME NEW i \in 1 .. Held PROVE Pending[i] < f
    OBVIOUS
  <2>1. i - 1 \in 0 .. Capacity - 1 /\ i - 1 < Held
    BY <1>5, RingAssumption
  <2>2. Advance(r, i - 1) \in Index /\ Occupancy(Advance(r, i - 1), r) = i - 1
    BY <1>1, <2>1, AdvanceBy
  <2>3. Waiting(Advance(r, i - 1))
    BY <2>1, <2>2 DEF Waiting
  <2> QED BY <1>1, <1>5, <2>2, <2>3 DEF KnownInv, FrameInv, StampsKnow
<1>8. Advance(r, Held) = w
  <2>1. Held \in 0 .. Capacity - 1
    BY <1>5, RingAssumption
  <2>2. Advance(r, Held) = IF r + Held < Capacity THEN r + Held
                           ELSE r + Held - Capacity
    BY <1>1, <2>1, AdvanceBy
  <2> QED BY <1>1, <2>2, RingAssumption DEF Held, Occupancy, Index
<1>9. Pending' = Append(Pending, f)
  <2> DEFINE s == Append(Pending, f)
  <2>1. s \in Seq(Frame0) /\ Len(s) = Held + 1
    BY <1>5, <1>6
  <2>2. \A i \in 1 .. Held + 1 : s[i] = IF i <= Held THEN Pending[i] ELSE f
    BY <1>5, <1>6
  <2>3. \A i \in 1 .. Held + 1 : Pending'[i] = s[i]
    <3> SUFFICES ASSUME NEW i \in 1 .. Held + 1 PROVE Pending'[i] = s[i]
      OBVIOUS
    <3> HIDE DEF s
    <3>1. CASE i = Held + 1
      BY <1>5, <1>8, <2>2, <3>1
    <3>2. CASE i \in 1 .. Held
      BY <1>5, <2>2, <3>2
    <3> QED BY <1>5, <3>1, <3>2
  <2> HIDE DEF s
  <2>4. Pending' = s
    BY <1>5, <2>1, <2>3, SeqEqual
  <2> QED BY <2>4 DEF s
<1>10. Len(Pending) < Capacity - 1
  BY <1>5, RingAssumption
<1>11. \A i \in 1 .. Len(Pending) : Pending[i] < f
  BY <1>5, <1>7
<1>12. Queue!Put(f)
  BY <1>2, <1>9, <1>10, <1>11 DEF Queue!Put
<1> QED BY <1>6, <1>12

(* The last processor has seen the scan at the read head: Deliver.          *)
LEMMA DeliverRefines ==
    ASSUME KnownInv, RunProcessor, handled' # handled
    PROVE  Queue!Deliver
<1> DEFINE w == write_idx
           r == read_idx
<1>1. /\ w \in Index /\ r \in Index /\ lidar_scans \in [Index -> Scan]
      /\ consumer.pc = "called" /\ consumer.slot = r /\ Held >= 1
  BY DEF RunProcessor, KnownInv, TypeOK, HandlerInv, ScanThreadKnows, Processing
<1>2. /\ w' = w /\ r' = r /\ lidar_scans' = lidar_scans
      /\ handled' = Seen(lidar_scans[r].frame)
  BY <1>1 DEF RunProcessor, ring
<1>3. Pending' = Pending /\ Pending = PendingOf(w, r, lidar_scans)
  BY <1>2 DEF Pending, PendingOf
<1>4. /\ Pending \in Seq(Frame0) /\ Len(Pending) = Held /\ Held \in Nat
      /\ Pending[1] = lidar_scans[Advance(r, 0)].frame
  BY <1>1, <1>3, PendingSeq DEF Held
<1>5. Advance(r, 0) = r
  BY <1>1, AdvanceBy, RingAssumption DEF Index
<1>6. Pending # << >> /\ Head(Pending) = lidar_scans[r].frame
  BY <1>1, <1>4, <1>5
<1>7. handled.frame < lidar_scans[r].frame
  BY <1>1, WaitingFacts DEF KnownInv, FrameInv, HandledKnows, Leaving
<1>8. handled.frame \in Int /\ lidar_scans[r].frame \in Int
  BY <1>1, WaitingFacts DEF KnownInv
<1>9. handled' = [frame |-> lidar_scans[r].frame, times |-> 1]
  BY <1>2, <1>7, <1>8 DEF Seen
<1> QED BY <1>3, <1>6, <1>7, <1>8, <1>9 DEF Queue!Deliver

(* read(n) advances over the scan just seen, and over the next if it is     *)
(* skipped: Leave.                                                          *)
LEMMA LeaveRefines ==
    ASSUME KnownInv, ReadStore
    PROVE  Queue!Leave(1) \/ Queue!Leave(2)
<1> DEFINE w == write_idx
           r == read_idx
           n == consumer.read_step
<1>1. /\ w \in Index /\ r \in Index /\ lidar_scans \in [Index -> Scan]
      /\ consumer.pc = "advance" /\ n \in {1, 2} /\ Held >= n
  BY DEF ReadStore, KnownInv, TypeOK, HandlerInv, ScanThreadKnows
<1>2. /\ w' = w /\ r' = Advance(r, n) /\ lidar_scans' = lidar_scans
      /\ handled' = handled
  BY DEF ReadStore
<1>3. r' \in Index /\ Occupancy(w, r') = Held - n
  BY <1>1, <1>2, HeldAfterRead DEF Held
<1>4. Pending = PendingOf(w, r, lidar_scans) /\ Pending' = PendingOf(w, r', lidar_scans)
  BY <1>2 DEF Pending, PendingOf
<1>5. /\ Held \in 0 .. Capacity - 1 /\ Pending \in Seq(Frame0) /\ Len(Pending) = Held
      /\ Pending' \in Seq(Frame0) /\ Len(Pending') = Held - n
      /\ \A i \in 1 .. Held : Pending[i] = lidar_scans[Advance(r, i - 1)].frame
      /\ \A i \in 1 .. Held - n : Pending'[i] = lidar_scans[Advance(r', i - 1)].frame
  <2>1. /\ Held \in 0 .. Capacity - 1 /\ Pending \in Seq(Frame0)
        /\ Len(Pending) = Held
        /\ \A i \in 1 .. Held : Pending[i] = lidar_scans[Advance(r, i - 1)].frame
    BY <1>1, <1>4, PendingSeq DEF Held
  <2>2. /\ PendingOf(w, r', lidar_scans) \in Seq(Frame0)
        /\ Len(PendingOf(w, r', lidar_scans)) = Held - n
        /\ \A i \in 1 .. Held - n : PendingOf(w, r', lidar_scans)[i]
                                      = lidar_scans[Advance(r', i - 1)].frame
    BY <1>1, <1>3, PendingSeq
  <2> QED BY <1>4, <2>1, <2>2
<1>6. \A i \in 1 .. Held - n : Advance(r', i - 1) = Advance(r, n + i - 1)
  <2> SUFFICES ASSUME NEW i \in 1 .. Held - n
               PROVE  Advance(r', i - 1) = Advance(r, n + i - 1)
    OBVIOUS
  <2>1. i - 1 \in 0 .. Capacity - 1 /\ n + i - 1 \in 0 .. Capacity - 1
        /\ n \in 0 .. Capacity - 1
    <3>1. i \in Int /\ n \in Int /\ Held \in Int /\ Capacity \in Int
          /\ 1 <= i /\ i <= Held - n /\ 1 <= n /\ Held <= Capacity - 1
      BY <1>1, <1>5, RingAssumption
    <3> HIDE DEF n
    <3> QED BY <3>1
  <2>2. r' = IF r + n < Capacity THEN r + n ELSE r + n - Capacity
    BY <1>1, <1>2, <2>1, AdvanceBy
  <2>3. Advance(r', i - 1) = IF r' + (i - 1) < Capacity THEN r' + (i - 1)
                             ELSE r' + (i - 1) - Capacity
    BY <1>3, <2>1, AdvanceBy
  <2>4. Advance(r, n + i - 1) = IF r + (n + i - 1) < Capacity THEN r + (n + i - 1)
                                ELSE r + (n + i - 1) - Capacity
    BY <1>1, <2>1, AdvanceBy
  <2>5. r \in Int /\ n \in Int /\ i \in Int /\ Capacity \in Int /\ r < Capacity
        /\ n + i - 1 < Capacity
    BY <1>1, <2>1, RingAssumption DEF Index
  <2> HIDE DEF n, r
  <2>6. CASE r + n < Capacity
    BY <2>2, <2>3, <2>4, <2>5, <2>6
  <2>7. CASE ~(r + n < Capacity)
    <3>1. r' = r + n - Capacity /\ i \in Nat /\ i >= 1
      BY <2>2, <2>7
    <3> QED BY <2>3, <2>4, <2>5, <2>7, <3>1
  <2> QED BY <2>6, <2>7
<1>7. Pending' = SubSeq(Pending, n + 1, Len(Pending))
  <2> DEFINE s == SubSeq(Pending, n + 1, Held)
  <2>1. /\ s \in Seq(Frame0) /\ Len(s) = Held - n
        /\ \A i \in 1 .. Held - n : s[i] = Pending[n + i]
    BY <1>1, <1>5
  <2>2. \A i \in 1 .. Held - n : Pending'[i] = s[i]
    <3> SUFFICES ASSUME NEW i \in 1 .. Held - n PROVE Pending'[i] = s[i]
      OBVIOUS
    <3> HIDE DEF s
    <3>1. n + i \in 1 .. Held /\ (n + i) - 1 = n + i - 1
      BY <1>1, <1>5
    <3> QED BY <1>5, <1>6, <2>1, <3>1
  <2> HIDE DEF s
  <2>3. Pending' = s
    BY <1>5, <2>1, <2>2, SeqEqual
  <2> QED BY <1>5, <2>3 DEF s
<1>8. handled.frame = Head(Pending)
  <2>1. Advance(r, 0) = r
    BY <1>1, AdvanceBy, RingAssumption DEF Index
  <2>2. Head(Pending) = lidar_scans[r].frame
    BY <1>1, <1>5, <2>1
  <2> QED BY <1>1, <2>2 DEF KnownInv, FrameInv, HandledKnows, Leaving
<1>9. Queue!Leave(n)
  BY <1>1, <1>2, <1>5, <1>7, <1>8 DEF Queue!Leave
<1> QED BY <1>1, <1>9

(* Every other step leaves the queue alone.                                 *)
LEMMA BatchStutters ==
    ASSUME KnownInv, Batch
    PROVE  Pending' = Pending
<1> DEFINE w == write_idx
           r == read_idx
<1>1. /\ w \in Index /\ r \in Index /\ w' = w /\ r' = r
      /\ \A i \in Index : i # w => lidar_scans'[i] = lidar_scans[i]
  BY DEF Batch, ring, KnownInv, TypeOK
<1>2. Held \in 0 .. Capacity - 1
  BY <1>1, RingAssumption DEF Held, Occupancy, Index
<1>3. \A i \in 1 .. Held : lidar_scans'[Advance(r, i - 1)] = lidar_scans[Advance(r, i - 1)]
  <2> SUFFICES ASSUME NEW i \in 1 .. Held
               PROVE  lidar_scans'[Advance(r, i - 1)] = lidar_scans[Advance(r, i - 1)]
    OBVIOUS
  <2>0. i - 1 \in 0 .. Capacity - 1
    BY <1>2, RingAssumption
  <2>1. Advance(r, i - 1) \in Index /\ Occupancy(Advance(r, i - 1), r) = i - 1
    BY <1>1, <2>0, AdvanceBy
  <2>2. Advance(r, i - 1) # w
    BY <1>1, <1>2, <2>1 DEF Held
  <2> QED BY <1>1, <2>1, <2>2
<1> QED BY <1>1, <1>3 DEF Pending, Held

LEMMA StepRefines ==
    ASSUME KnownInv, [Next]_vars
    PROVE  [Queue!Next]_<<Pending, handled>>
<1>1. ASSUME UNCHANGED <<write_idx, read_idx, lidar_scans>>
      PROVE  Pending' = Pending
  BY <1>1 DEF Pending
<1>2. CASE Receive \/ Destroy \/ UNCHANGED vars
  BY <1>1, <1>2 DEF Receive, Destroy, vars, ring
<1>3. CASE Batch
  BY <1>3, BatchStutters DEF Batch
<1>4. CASE WriteStore
  BY <1>4, StoreRefines DEF Queue!Next
<1>5. CASE LockWriteHead \/ StampScan \/ StampMessage \/ WriteCompare \/ WriteDecide \/ Notify
  BY <1>1, <1>5
  DEF LockWriteHead, StampScan, StampMessage, WriteCompare, WriteDecide, Notify, ring
<1>6. CASE RunProcessor
  <2>1. Pending' = Pending
    BY <1>1, <1>6 DEF RunProcessor, ring
  <2> QED BY <1>6, <2>1, DeliverRefines DEF Queue!Next
<1>7. CASE ReadStore
  BY <1>7, LeaveRefines DEF Queue!Next
<1>8. CASE Loop \/ TestPredicate \/ Block \/ AfterTimeout \/ Timeout \/ SpuriousWakeup
           \/ MeasureCompare \/ ReadCompare \/ ReadDecide \/ LockReadHead
           \/ CallProcessor \/ Measure \/ UnlockSlot
  BY <1>1, <1>8
  DEF Loop, TestPredicate, Block, AfterTimeout, Timeout, SpuriousWakeup, MeasureCompare,
      ReadCompare, ReadDecide, Goto, LockReadHead, CallProcessor, Measure, UnlockSlot,
      ring
<1> QED BY <1>2, <1>3, <1>4, <1>5, <1>6, <1>7, <1>8
        DEF Next, PacketThread, ScanThread, Destroyed

(* Completed scans are processed in order, each once, none lost except by   *)
(* throttling, for every loss of packets and every interleaving.            *)
THEOREM HandlerImplementsScanQueue == Spec => ImplementsScanQueue
<1>1. Init => Queue!Init
  <2> SUFFICES ASSUME Init PROVE Queue!Init
    OBVIOUS
  <2>1. Occupancy(write_idx, read_idx) = 0
    BY DEF Init, Occupancy
  <2>2. Pending = << >>
    BY <2>1 DEF Pending
  <2> QED BY <2>2 DEF Init, Queue!Init
<1>2. KnownInv /\ [Next]_vars => [Queue!Next]_<<Pending, handled>>
  BY StepRefines
<1> QED BY <1>1, <1>2, KnownInvariant, PTL DEF Spec, ImplementsScanQueue, Queue!Spec
=============================================================================
