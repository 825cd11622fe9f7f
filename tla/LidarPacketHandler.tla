------------------------- MODULE LidarPacketHandler -------------------------
(***************************************************************************)
(* LidarPacketHandler (src/lidar_packet_handler.h): the packet thread turns *)
(* lidar packets into scans, batching them into the slot at the write head  *)
(* of a LockFreeRingBuffer; the scan thread takes completed scans from the  *)
(* read head, runs the registered processors and advances, skipping a scan  *)
(* when it judges the buffer too full.  Each atomic access, mutex operation *)
(* and access to an unsynchronised shared field is a step of its own.       *)
(*                                                                          *)
(* A scan is abstracted to the frame it belongs to and the number of its    *)
(* packets that made it in; a timestamp to the frame it was computed from.  *)
(***************************************************************************)
EXTENDS RingIndex, Sequences

CONSTANTS
    ThrottleAbove,   \* size() > THROTTLE_PERCENT * capacity(), as an integer
    Processors,      \* number of registered lidar scan handlers
    PacketsPerScan,  \* lidar packets in one frame
    MinPackets,      \* min_scan_valid_columns_ratio, counted in packets
    MaxFrames,       \* bound: frames the sensor sends
    Lossy            \* whether packets can be lost on the way to the driver

(* 0.7f * 10 = 7 for the driver's ten slots: at least one, at most all.     *)
ASSUME HandlerAssumption ==
    /\ ThrottleAbove \in 1 .. Capacity - 1
    /\ Processors \in Nat \ {0}
    /\ PacketsPerScan \in Nat \ {0, 1}
    /\ MinPackets \in 0 .. PacketsPerScan
    /\ MaxFrames \in Nat
    /\ Lossy \in BOOLEAN

VARIABLES
    write_idx, read_idx,    \* the two atomics of ring_buffer
    mutexes,                \* owner of each slot's mutex
    lidar_scans,            \* the slots: [frame, packets]
    cached,                 \* ScanBatcher: frame of the packet it held back, 0 if none
    batching,               \* ScanBatcher: a scan is being filled at the write head
    lidar_scan_estimated_ts, lidar_scan_estimated_msg_ts,   \* frames
    sent,                   \* packets the sensor has sent so far
    packet,                 \* frame of the packet in the packet thread's hands
    ppc,                    \* control of the packet thread
    consumer,               \* the scan thread: [pc, slot, read_step, processor]
    active,                 \* lidar_scans_processing_active
    delivered,              \* history: the last processor call, [frame, ts, msg_ts]
    handled                 \* history: last scan all processors saw, [frame, times]

ring == <<write_idx, read_idx>>
stamps == <<lidar_scan_estimated_ts, lidar_scan_estimated_msg_ts>>
packetVars == <<cached, batching, sent, packet, ppc>>
vars == <<ring, mutexes, lidar_scans, stamps, packetVars, consumer, active,
          delivered, handled>>

Frames == 1 .. MaxFrames
Frame0 == 0 .. MaxFrames

PacketPC == {"idle", "lock", "batch", "ts", "msg_ts", "write", "ge", "lt",
             "store", "notify"}
ConsumerPC == {"loop", "enter", "block", "waiting", "expired", "lock", "call",
               "called", "measure", "mge", "mlt", "read", "rge", "rlt", "advance",
               "unlock", "done"}

(* A slot is constructed empty; frame 0 is a scan nobody wrote.             *)
Scan == [frame : Frame0, packets : 0 .. PacketsPerScan]

TypeOK ==
    /\ write_idx \in Index /\ read_idx \in Index
    /\ mutexes \in [Index -> {"free", "packet", "consumer"}]
    /\ lidar_scans \in [Index -> Scan]
    /\ cached \in Frame0 /\ batching \in BOOLEAN
    /\ lidar_scan_estimated_ts \in Frame0 /\ lidar_scan_estimated_msg_ts \in Frame0
    /\ sent \in 0 .. MaxFrames * PacketsPerScan
    /\ packet \in Frame0
    /\ ppc \in PacketPC
    /\ consumer \in [pc : ConsumerPC, slot : Index, read_step : {1, 2},
                     processor : 1 .. Processors]
    /\ active \in BOOLEAN
    /\ delivered \in [frame : Frame0, ts : Frame0, msg_ts : Frame0]
    /\ handled \in [frame : Frame0, times : 0 .. 2]

(* The constructor: empty ring, batcher and scan thread created.            *)
Init ==
    /\ write_idx = 0 /\ read_idx = 0
    /\ mutexes = [i \in Index |-> "free"]
    /\ lidar_scans = [i \in Index |-> [frame |-> 0, packets |-> 0]]
    /\ cached = 0 /\ batching = FALSE
    /\ lidar_scan_estimated_ts = 0 /\ lidar_scan_estimated_msg_ts = 0
    /\ sent = 0 /\ packet = 0 /\ ppc = "idle"
    /\ consumer = [pc |-> "loop", slot |-> 0, read_step |-> 1, processor |-> 1]
    /\ active = TRUE
    /\ delivered = [frame |-> 0, ts |-> 0, msg_ts |-> 0]
    /\ handled = [frame |-> 0, times |-> 0]

-----------------------------------------------------------------------------
(* The comparison at the head of LockFreeRingBuffer::size().                *)
Ge == write_idx >= read_idx

(* The sensor: the n-th packet belongs to frame FrameOf(n).  Packets arrive *)
(* in order; on a lossy link some of them do not arrive.                    *)
FrameOf(n) == (n - 1) \div PacketsPerScan + 1

Arrivals ==
    {n \in sent + 1 .. MaxFrames * PacketsPerScan : Lossy \/ n = sent + 1}

(* A writer that never looks at the ring before filling a slot.             *)
MutNeverFull == FALSE

RingFull == IsFull(write_idx, read_idx)

(* The head of the packet accumulator: a full ring drops the packet.        *)
Receive ==
    /\ ppc = "idle" /\ active
    /\ \E n \in Arrivals :
         /\ sent' = n
         /\ IF RingFull
            THEN UNCHANGED <<packet, ppc>>
            ELSE packet' = FrameOf(n) /\ ppc' = "lock"
    /\ UNCHANGED <<ring, mutexes, lidar_scans, stamps, cached, batching, consumer,
                   active, delivered, handled>>

LockWriteHead ==
    /\ ppc = "lock"
    /\ mutexes[write_idx] = "free"
    /\ mutexes' = [mutexes EXCEPT ![write_idx] = "packet"]
    /\ ppc' = "batch"
    /\ UNCHANGED <<ring, lidar_scans, stamps, cached, batching, sent, packet,
                   consumer, active, delivered, handled>>

(* The scan at the write head once the batcher has put back the packet it   *)
(* held over from the previous call, or has opened a new scan.              *)
OpenScan ==
    IF cached # 0 THEN [frame |-> cached, packets |-> 1]
    ELSE IF batching THEN lidar_scans[write_idx]
    ELSE [frame |-> packet, packets |-> 0]

(* ScanBatcher: a packet of the open frame is added, and the scan is        *)
(* complete when no packet is missing; a packet of a later frame completes  *)
(* the scan as it is and is held back for the next call.                    *)
Batch ==
    /\ ppc = "batch"
    /\ LET scan == OpenScan
           same == packet = scan.frame
           now  == IF same THEN [scan EXCEPT !.packets = @ + 1] ELSE scan
           complete == ~same \/ now.packets = PacketsPerScan
       IN  /\ lidar_scans' = [lidar_scans EXCEPT ![write_idx] = now]
           /\ cached' = IF same THEN 0 ELSE packet
           /\ batching' = ~complete
           /\ IF complete
              THEN ppc' = "ts" /\ UNCHANGED mutexes
              ELSE ppc' = "idle" /\ mutexes' = [mutexes EXCEPT ![write_idx] = "free"]
    /\ UNCHANGED <<ring, stamps, sent, packet, consumer, active, delivered, handled>>

(* A stamp that is set once and never renewed.                              *)
MutStampOnce ==
    /\ ppc = "ts"
    /\ lidar_scan_estimated_ts' = IF lidar_scan_estimated_ts # 0
                                  THEN lidar_scan_estimated_ts
                                  ELSE lidar_scans[write_idx].frame
    /\ ppc' = "msg_ts"
    /\ UNCHANGED <<ring, mutexes, lidar_scans, lidar_scan_estimated_msg_ts, cached,
                   batching, sent, packet, consumer, active, delivered, handled>>

(* lidar_handler_*: the two stamps are plain fields, assigned one after the *)
(* other while the scan thread may be reading them.                         *)
StampScan ==
    /\ ppc = "ts"
    /\ lidar_scan_estimated_ts' = lidar_scans[write_idx].frame
    /\ ppc' = "msg_ts"
    /\ UNCHANGED <<ring, mutexes, lidar_scans, lidar_scan_estimated_msg_ts, cached,
                   batching, sent, packet, consumer, active, delivered, handled>>

(* The message stamp, then the count of valid columns: a scan with too few  *)
(* is left in the slot for the next one to overwrite.  Either way the slot  *)
(* is unlocked.                                                             *)
StampMessage ==
    /\ ppc = "msg_ts"
    /\ lidar_scan_estimated_msg_ts' = lidar_scans[write_idx].frame
    /\ ppc' = IF lidar_scans[write_idx].packets < MinPackets THEN "idle" ELSE "write"
    /\ mutexes' = [mutexes EXCEPT ![write_idx] = "free"]
    /\ UNCHANGED <<ring, lidar_scans, lidar_scan_estimated_ts, cached, batching, sent,
                   packet, consumer, active, delivered, handled>>

(* ring_buffer.write(): its size() compares, loads again, and its answer is *)
(* ignored: the scan thread is notified whatever write() said.              *)
WriteCompare ==
    /\ ppc = "write"
    /\ ppc' = IF Ge THEN "ge" ELSE "lt"
    /\ UNCHANGED <<ring, mutexes, lidar_scans, stamps, cached, batching, sent, packet,
                   consumer, active, delivered, handled>>

WriteFits == ~(1 > AvailableOf(SizeOf(ppc = "ge", write_idx, read_idx)))

WriteDecide ==
    /\ ppc \in {"ge", "lt"}
    /\ ppc' = IF WriteFits THEN "store" ELSE "notify"
    /\ UNCHANGED <<ring, mutexes, lidar_scans, stamps, cached, batching, sent, packet,
                   consumer, active, delivered, handled>>

WriteStore ==
    /\ ppc = "store"
    /\ write_idx' = Advance(write_idx, 1)
    /\ ppc' = "notify"
    /\ UNCHANGED <<read_idx, mutexes, lidar_scans, stamps, cached, batching, sent,
                   packet, consumer, active, delivered, handled>>

(* notify_one() without ring_buffer_mutex: it wakes the scan thread only if *)
(* that thread is already blocked on the condition variable.                *)
Notify ==
    /\ ppc = "notify"
    /\ ppc' = "idle"
    /\ consumer' = [consumer EXCEPT !.pc = IF @ = "waiting" THEN "enter" ELSE @]
    /\ UNCHANGED <<ring, mutexes, lidar_scans, stamps, cached, batching, sent, packet,
                   active, delivered, handled>>

-----------------------------------------------------------------------------
(* The scan thread moves on, changing only its own control.                 *)
Goto(pc) ==
    /\ consumer' = [consumer EXCEPT !.pc = pc]
    /\ UNCHANGED <<ring, mutexes, lidar_scans, stamps, packetVars, active, delivered,
                   handled>>

Nothing == IsEmpty(write_idx, read_idx)

(* A scan thread that never looks at the flag.                              *)
MutLoopForever == consumer.pc = "loop" /\ Goto("enter")

(* while (lidar_scans_processing_active) process_scans();                   *)
Loop == consumer.pc = "loop" /\ Goto(IF active THEN "enter" ELSE "done")

(* wait_for() tests its predicate before it blocks...                       *)
TestPredicate == consumer.pc = "enter" /\ Goto(IF Nothing THEN "block" ELSE "lock")

(* ... and a notification that comes in between finds nobody to wake.       *)
Block == consumer.pc = "block" /\ Goto("waiting")

(* wait() instead of wait_for().                                            *)
MutWaitForever == FALSE

(* One second without a notification.                                       *)
Timeout == consumer.pc = "waiting" /\ Goto("expired")

(* A condition variable may wake for no reason: the predicate is retested.  *)
SpuriousWakeup == consumer.pc = "waiting" /\ Goto("enter")

(* process_scans() without its second test of empty().                      *)
MutNoSecondTest == consumer.pc = "expired" /\ Goto("lock")

(* An expired wait returns to the loop unless a scan came meanwhile.        *)
AfterTimeout ==
    consumer.pc = "expired" /\ Goto(IF Nothing THEN "loop" ELSE "lock")

LockReadHead ==
    /\ consumer.pc = "lock"
    /\ mutexes[read_idx] = "free"
    /\ mutexes' = [mutexes EXCEPT ![read_idx] = "consumer"]
    /\ consumer' = [consumer EXCEPT !.pc = "call", !.slot = read_idx, !.processor = 1]
    /\ UNCHANGED <<ring, lidar_scans, stamps, packetVars, active, delivered, handled>>

(* A processor is called: the timestamp is copied at the call ...           *)
CallProcessor ==
    /\ consumer.pc = "call"
    /\ delivered' = [frame |-> lidar_scans[consumer.slot].frame,
                     ts |-> lidar_scan_estimated_ts, msg_ts |-> 0]
    /\ consumer' = [consumer EXCEPT !.pc = "called"]
    /\ UNCHANGED <<ring, mutexes, lidar_scans, stamps, packetVars, active, handled>>

(* History: a scan seen again counts as 2 times, however often.             *)
Seen(frame) == [frame |-> frame, times |-> IF frame = handled.frame THEN 2 ELSE 1]

(* ... but the message stamp is passed by reference and read while it runs. *)
RunProcessor ==
    /\ consumer.pc = "called"
    /\ delivered' = [delivered EXCEPT !.msg_ts = lidar_scan_estimated_msg_ts]
    /\ IF consumer.processor < Processors
       THEN /\ consumer' = [consumer EXCEPT !.pc = "call", !.processor = @ + 1]
            /\ UNCHANGED handled
       ELSE /\ consumer' = [consumer EXCEPT !.pc = "measure", !.processor = 1]
            /\ handled' = Seen(lidar_scans[consumer.slot].frame)
    /\ UNCHANGED <<ring, mutexes, lidar_scans, stamps, packetVars, active>>

(* size() > THROTTLE_PERCENT * capacity(): two loads of write_idx_ ...      *)
MeasureCompare == consumer.pc = "measure" /\ Goto(IF Ge THEN "mge" ELSE "mlt")

(* A threshold rounded down to nothing: any pending scan throttles.         *)
MutThrottleEarly == SizeOf(consumer.pc = "mge", write_idx, read_idx) > 0

Throttling ==
    SizeOf(consumer.pc = "mge", write_idx, read_idx) > ThrottleAbove

(* ... of which the second decides whether the next scan is skipped.        *)
Measure ==
    /\ consumer.pc \in {"mge", "mlt"}
    /\ consumer' = [consumer EXCEPT !.pc = "read",
                                    !.read_step = IF Throttling THEN 2 ELSE 1]
    /\ UNCHANGED <<ring, mutexes, lidar_scans, stamps, packetVars, active, delivered,
                   handled>>

(* ring_buffer.read(read_step), its answer ignored as well.                 *)
ReadCompare == consumer.pc = "read" /\ Goto(IF Ge THEN "rge" ELSE "rlt")

ReadFits ==
    ~(consumer.read_step > SizeOf(consumer.pc = "rge", write_idx, read_idx))

ReadDecide ==
    consumer.pc \in {"rge", "rlt"} /\ Goto(IF ReadFits THEN "advance" ELSE "unlock")

ReadStore ==
    /\ consumer.pc = "advance"
    /\ read_idx' = Advance(read_idx, consumer.read_step)
    /\ consumer' = [consumer EXCEPT !.pc = "unlock"]
    /\ UNCHANGED <<write_idx, mutexes, lidar_scans, stamps, packetVars, active,
                   delivered, handled>>

(* A scan thread that leaves the slot locked.                               *)
MutKeepSlot ==
    /\ consumer.pc = "unlock"
    /\ consumer' = [consumer EXCEPT !.pc = "loop"]
    /\ UNCHANGED <<ring, mutexes, lidar_scans, stamps, packetVars, active, delivered,
                   handled>>

(* The slot's lock is released when process_scans() returns.                *)
UnlockSlot ==
    /\ consumer.pc = "unlock"
    /\ mutexes' = [mutexes EXCEPT ![consumer.slot] = "free"]
    /\ consumer' = [consumer EXCEPT !.pc = "loop"]
    /\ UNCHANGED <<ring, lidar_scans, stamps, packetVars, active, delivered, handled>>

-----------------------------------------------------------------------------
(* The destructor runs when the last reference to the handler goes away,    *)
(* between two calls of the packet thread (the race at unload, where it may *)
(* run during one, is OusterDriver's subject), and joins the scan thread.   *)
Destroy ==
    /\ active /\ ppc = "idle"
    /\ active' = FALSE
    /\ UNCHANGED <<ring, mutexes, lidar_scans, stamps, packetVars, consumer, delivered,
                   handled>>

(* Nothing is left to do: the thread was joined.                            *)
Destroyed == ~active /\ consumer.pc = "done" /\ UNCHANGED vars

PacketThread ==
    \/ LockWriteHead \/ Batch \/ StampScan \/ StampMessage
    \/ WriteCompare \/ WriteDecide \/ WriteStore \/ Notify

ScanThread ==
    \/ Loop \/ TestPredicate \/ Block \/ AfterTimeout \/ LockReadHead
    \/ CallProcessor \/ RunProcessor \/ MeasureCompare \/ Measure
    \/ ReadCompare \/ ReadDecide \/ ReadStore \/ UnlockSlot

Next ==
    \/ Receive \/ PacketThread
    \/ ScanThread \/ Timeout \/ SpuriousWakeup
    \/ Destroy \/ Destroyed

(* Both threads are scheduled, and a wait ends after its second: the        *)
(* deadline is absolute, so spurious wakeups cannot postpone it for ever.   *)
(* Nothing forces packets to arrive or the handler to be destroyed.         *)
Fairness ==
    /\ WF_vars(PacketThread)
    /\ WF_vars(ScanThread)
    /\ SF_vars(Timeout)

Spec == Init /\ [][Next]_vars

FairSpec == Spec /\ Fairness

-----------------------------------------------------------------------------
(* The scan thread owns a completed scan from the moment it locks the read  *)
(* head until it advances.                                                  *)
Processing ==
    consumer.pc \in {"call", "called", "measure", "mge", "mlt", "read", "rge", "rlt",
                     "advance"}

(* The slot being filled is never the slot being processed, mutexes aside:  *)
(* a packet never waits behind the user's processors, and no processor sees *)
(* a scan change under it.                                                  *)
WriterElsewhere == Processing => consumer.slot = read_idx /\ write_idx # read_idx

(* The answers of write() and read() are thrown away, so they must be true: *)
(* a refused write() would lose a completed scan, and a refused read()      *)
(* would hand the same scan to the processors again.                        *)
RingNeverRefuses ==
    /\ ppc \in {"ge", "lt"} => WriteFits
    /\ consumer.pc \in {"rge", "rlt"} => ReadFits

(* The inductive invariant behind both: what each thread knows about the    *)
(* occupancy at each point of its control, whatever the other one does.     *)
Held == Occupancy(write_idx, read_idx)

PacketThreadKnows ==
    /\ ppc \in {"lock", "batch", "ts", "msg_ts", "write", "ge", "lt", "store"}
         => Held <= Capacity - 2
    /\ ppc = "ge" => write_idx >= read_idx

ScanThreadKnows ==
    /\ Processing \/ consumer.pc = "lock" => Held >= 1
    /\ Processing => consumer.slot = read_idx
    /\ consumer.pc = "mge" /\ write_idx < read_idx => Held >= 2
    /\ consumer.pc \in {"read", "rge", "rlt", "advance"}
         => Held >= consumer.read_step
    /\ consumer.pc \in {"mlt", "rlt"} => write_idx < read_idx

RingTypeOK ==
    /\ write_idx \in Index /\ read_idx \in Index
    /\ consumer \in [pc : ConsumerPC, slot : Index, read_step : {1, 2},
                     processor : 1 .. Processors]

HandlerInv == RingTypeOK /\ PacketThreadKnows /\ ScanThreadKnows

(* The batcher: the frame it has open is later than that of the last scan   *)
(* it completed, and no more of its packets were batched than were sent.    *)
InHand == ppc \in {"lock", "batch"}

LastFrame == IF ppc = "ts" THEN lidar_scans[write_idx].frame
             ELSE lidar_scan_estimated_ts

Opened == IF cached # 0 THEN [frame |-> cached, packets |-> 1]
          ELSE lidar_scans[write_idx]

Counted(n) == IF InHand THEN n + 1 ELSE n

BatcherKnows ==
    /\ InHand => packet = FrameOf(sent)
    /\ cached # 0 => ~batching
    /\ batching => /\ ppc \in {"idle", "lock", "batch"}
                   /\ lidar_scans[write_idx].packets < PacketsPerScan
    /\ IF cached # 0 \/ batching
       THEN /\ Opened.frame > LastFrame
            /\ Counted((Opened.frame - 1) * PacketsPerScan + Opened.packets) <= sent
       ELSE Counted(LastFrame * PacketsPerScan) <= sent

(* The slots between the two heads hold frames in increasing order, behind  *)
(* the stamps, the scan being completed, and the last scan handled.         *)
Waiting(i) == Occupancy(i, read_idx) < Held

FramesAhead ==
    \A i, j \in Index :
        Waiting(i) /\ Waiting(j) /\ Occupancy(i, read_idx) < Occupancy(j, read_idx)
            => lidar_scans[i].frame < lidar_scans[j].frame

StampsKnow ==
    /\ \A i \in Index : Waiting(i) =>
         /\ lidar_scans[i].frame <= lidar_scan_estimated_ts
         /\ lidar_scans[i].frame <= lidar_scan_estimated_msg_ts
    /\ handled.frame <= LastFrame
    /\ ppc \in {"ts", "msg_ts", "write", "ge", "lt", "store"} =>
         /\ handled.frame < lidar_scans[write_idx].frame
         /\ \A i \in Index : Waiting(i) =>
              lidar_scans[i].frame < lidar_scans[write_idx].frame
    /\ ppc \in {"msg_ts", "write", "ge", "lt", "store"} =>
         lidar_scan_estimated_ts = lidar_scans[write_idx].frame
    /\ ppc \in {"write", "ge", "lt", "store"} =>
         lidar_scan_estimated_msg_ts = lidar_scans[write_idx].frame

Leaving ==
    consumer.pc \in {"measure", "mge", "mlt", "read", "rge", "rlt", "advance"}

HandledKnows ==
    /\ IF Leaving THEN handled.frame = lidar_scans[read_idx].frame
       ELSE \A i \in Index : Waiting(i) => handled.frame < lidar_scans[i].frame
    /\ consumer.pc = "called" => delivered.frame = lidar_scans[read_idx].frame

FrameInv == FramesAhead /\ StampsKnow /\ HandledKnows

(* The stamps given to a processor are those of its scan or of a later one, *)
(* never of an earlier one: time never runs behind the data.                *)
StampNeverEarlier ==
    /\ consumer.pc = "called" => delivered.ts >= delivered.frame
    /\ consumer.pc = "measure" => delivered.msg_ts >= delivered.frame

(* The stamp a processor gets is the stamp of the scan it gets: the point   *)
(* time `t` is then "relative to frame start"                               *)
(* (include/ouster_ros/sensor_point_types.h:51).                            *)
StampOfItsScan ==
    consumer.pc = "called" => delivered.ts = delivered.frame

(* A scan is skipped only "when we hit percent amount of the ring_buffer    *)
(* capacity" (src/lidar_packet_handler.h:289).                              *)
ThrottleOnlyWhenFull ==
    consumer.pc \in {"read", "rge", "rlt", "advance"} /\ consumer.read_step = 2
        => Occupancy(write_idx, read_idx) > ThrottleAbove

(* The scans between the two heads, oldest first.                           *)
Pending ==
    [i \in 1 .. Occupancy(write_idx, read_idx) |->
        lidar_scans[Advance(read_idx, i - 1)].frame]

Queue == INSTANCE ScanQueue WITH
    Bound <- Capacity - 1, queue <- Pending

(* Completed scans are processed in order, each once, none lost except by   *)
(* throttling, and none altered between its completion and its processing.  *)
ImplementsScanQueue == Queue!Spec

IsPending(f) == \E i \in 1 .. Len(Pending) : Pending[i] = f

(* A completed scan does not stay in the ring of a live handler: it is      *)
(* processed or skipped, even when its notification was lost.               *)
ScansLeave == \A f \in Frames : IsPending(f) ~> (~IsPending(f) \/ ~active)

(* The destructor's join() returns.                                         *)
DestructorReturns == ~active ~> consumer.pc = "done"

(* The packet thread always gets through a packet: it is the thread that    *)
(* empties the UDP socket.                                                  *)
PacketThreadReturns == ppc # "idle" ~> ppc = "idle"
=============================================================================
