---------------------------- MODULE ReplayProofs ----------------------------
(* That messages leave in the order of their packets, that the time of the  *)
(* transforms keeps up, and that queues and rings keep their limits,        *)
(* whatever the file, the sizes and the number of handlers that replace one *)
(* another.                                                                 *)
EXTENDS Replay, FiniteSetTheorems, TLAPS

-----------------------------------------------------------------------------
(* Sequences of packets in the order of their serials.                      *)

Packet == [serial : Nat, stamp : Nat]

Sorted(s) == \A i, j \in 1 .. Len(s) : i =< j => s[i].serial =< s[j].serial

LEMMA TailSorted ==
  ASSUME NEW s \in Seq(Packet), s # << >>, Sorted(s)
  PROVE  /\ Tail(s) \in Seq(Packet) /\ Sorted(Tail(s)) /\ Len(s) \in Nat \ {0}
         /\ Head(s) = s[1] /\ s[1] \in Packet
         /\ \A i \in 1 .. Len(Tail(s)) : i + 1 \in 1 .. Len(s) /\ Tail(s)[i] = s[i + 1]
<1>1. /\ Tail(s) \in Seq(Packet) /\ Len(s) \in Nat \ {0} /\ Len(Tail(s)) = Len(s) - 1
      /\ Head(s) = s[1] /\ s[1] \in Packet
  OBVIOUS
<1>2. \A i \in 1 .. Len(Tail(s)) : i + 1 \in 1 .. Len(s) /\ Tail(s)[i] = s[i + 1]
  BY <1>1
<1>3. Sorted(Tail(s))
  BY <1>1, <1>2 DEF Sorted
<1>4. QED
  BY <1>1, <1>2, <1>3

(* What is left of a ring that moves on by one scan, or by two.             *)
LEMMA RestSorted ==
  ASSUME NEW s \in Seq(Packet), Sorted(s), NEW n \in {1, 2}, n <= Len(s)
  PROVE  LET q == SubSeq(s, n + 1, Len(s))
         IN  /\ q \in Seq(Packet) /\ Sorted(q)
             /\ Len(s) \in Nat /\ Len(q) = Len(s) - n
             /\ \A i \in 1 .. Len(q) : i + n \in 1 .. Len(s) /\ q[i] = s[i + n]
<1> DEFINE q == SubSeq(s, n + 1, Len(s))
<1>1. Len(s) \in Nat /\ q \in Seq(Packet) /\ Len(q) = Len(s) - n
  OBVIOUS
<1>2. \A i \in 1 .. Len(q) : i + n \in 1 .. Len(s) /\ q[i] = s[i + n]
  BY <1>1
<1> HIDE DEF q
<1>3. Sorted(q)
  BY <1>1, <1>2 DEF Sorted
<1>4. QED
  BY <1>1, <1>2, <1>3 DEF q

LEMMA AppendSorted ==
  ASSUME NEW s \in Seq(Packet), Sorted(s), NEW p \in Packet,
         \A i \in 1 .. Len(s) : s[i].serial =< p.serial
  PROVE  /\ Append(s, p) \in Seq(Packet) /\ Sorted(Append(s, p))
         /\ \A i \in 1 .. Len(Append(s, p)) :
              (i \in 1 .. Len(s) /\ Append(s, p)[i] = s[i]) \/ Append(s, p)[i] = p
<1>1. Append(s, p) \in Seq(Packet) /\ Len(Append(s, p)) = Len(s) + 1 /\ Len(s) \in Nat
  OBVIOUS
<1>2. /\ \A i \in 1 .. Len(s) : Append(s, p)[i] = s[i]
      /\ Append(s, p)[Len(s) + 1] = p
  OBVIOUS
<1>3. Sorted(Append(s, p))
  <2> SUFFICES ASSUME NEW i \in 1 .. Len(s) + 1, NEW j \in 1 .. Len(s) + 1, i =< j
               PROVE  Append(s, p)[i].serial =< Append(s, p)[j].serial
    BY <1>1 DEF Sorted
  <2>1. CASE j \in 1 .. Len(s)
    BY <1>1, <1>2, <2>1 DEF Sorted
  <2>2. CASE j = Len(s) + 1 /\ i \in 1 .. Len(s)
    BY <1>1, <1>2, <2>2
  <2>3. CASE i = Len(s) + 1 /\ j = Len(s) + 1
    BY <1>2, <2>3 DEF Packet
  <2>4. QED
    BY <1>1, <2>1, <2>2, <2>3
<1>4. QED
  BY <1>1, <1>2, <1>3

(* Packets that come after point cloud p and laser scan q, up to the n-th.  *)
Ahead(s, p, q, n) ==
    /\ Sorted(s)
    /\ \A i \in 1 .. Len(s) : p =< s[i].serial /\ q =< s[i].serial /\ s[i].serial =< n

LEMMA Serials ==
  ASSUME NEW s \in Seq(Packet)
  PROVE  \A i \in 1 .. Len(s) : s[i] \in Packet /\ s[i].serial \in Nat
<1>1. \A i \in 1 .. Len(s) : s[i] \in Packet
  OBVIOUS
<1>2. \A x \in Packet : x.serial \in Nat
  BY DEF Packet
<1>3. QED
  BY <1>1, <1>2

LEMMA AheadLater ==
  ASSUME NEW s \in Seq(Packet), NEW p, NEW q, NEW n \in Nat, NEW m \in Nat, n =< m,
         Ahead(s, p, q, n)
  PROVE  Ahead(s, p, q, m)
  BY Serials DEF Ahead

-----------------------------------------------------------------------------
(* The inductive invariant, in parts.                                       *)

Live(h) == threads[h] \notin {"none", "done"}

(* Where metadata and handlers are: the threads that live are the handler's *)
(* and, during a replacement, that of its neighbour; the one of the two     *)
(* that is new has been given nothing yet.                                  *)
ControlInv ==
    /\ handler \in 0 .. MaxMetadata
    /\ DOMAIN threads = Handlers
    /\ ring \in [Handlers -> Seq(Packet)]
    /\ ~subscribed => handler = 0 /\ callback = "idle" /\ metadata = << >>
    /\ metadata # << >> \/ callback = "replacing" => handler < MaxMetadata
    /\ callback \in {"replacing", "joining"} => metadata = << >>
    /\ callback = "joining" => handler > 0
    /\ \A h \in Handlers :
         /\ h > handler /\ ~(callback = "replacing" /\ h = handler + 1)
              => threads[h] = "none"
         /\ h > handler \/ (callback = "joining" /\ h = handler) => ring[h] = << >>
         /\ h < handler /\ ~(callback = "joining" /\ h = handler - 1)
              => threads[h] = "done"

(* Nothing that is still to be published is behind what has been.           *)
OrderInv ==
    /\ points \in Nat /\ scans \in Nat /\ serial \in Nat
    /\ points =< serial /\ scans =< serial
    /\ lidar_packets \in Seq(Packet) /\ Ahead(lidar_packets, points, scans, serial)
    /\ \A h \in Handlers : Live(h) =>
         /\ Ahead(ring[h], points, scans, serial)
         /\ \A i \in 1 .. Len(ring[h]), k \in 1 .. Len(lidar_packets) :
              ring[h][i].serial =< lidar_packets[k].serial

(* The packet that is published is one of the file's.                       *)
PositionInv ==
    /\ position \in Nat \ {0}
    /\ reader = "publish" => position =< Len(File)

ReplayInv == ControlInv /\ PositionInv /\ OrderInv

(* A thread that is past the test of its loop has a scan in its ring.       *)
BusyInv ==
    \A h \in Handlers : threads[h] \notin {"none", "loop", "done"} => ring[h] # << >>

LEMMA InitReplayInv == Init => ReplayInv
<1> SUFFICES ASSUME Init PROVE ReplayInv
  OBVIOUS
<1>1. ControlInv
  BY CloudAssumption DEF Init, CloudInit, ControlInv, Handlers
<1>2. OrderInv
  BY DEF Init, PcapInit, CloudInit, OrderInv, Ahead, Sorted, Live
<1>3. PositionInv
  BY DEF Init, PcapInit, PositionInv
<1>4. QED
  BY <1>1, <1>2, <1>3 DEF ReplayInv

(* What the clauses of the invariant are about, apart from the subscription *)
(* and what is published.                                                   *)
controlVars == <<handler, threads, ring, subscribed, metadata, callback>>

(* A queue that has room, or has forgotten its oldest packet.               *)
LEMMA RoomMade ==
  ASSUME NEW s \in Seq(Packet), Sorted(s)
  PROVE  LET q == IF Len(s) < QueueSize THEN s ELSE Tail(s)
         IN  /\ q \in Seq(Packet) /\ Sorted(q)
             /\ \A i \in 1 .. Len(q) : \E k \in 1 .. Len(s) : q[i] = s[k]
<1>1. CASE Len(s) < QueueSize
  BY <1>1
<1>2. CASE ~(Len(s) < QueueSize)
  <2>1. s # << >>
    BY <1>2, CloudAssumption
  <2>2. /\ Tail(s) \in Seq(Packet) /\ Sorted(Tail(s))
        /\ \A i \in 1 .. Len(Tail(s)) : i + 1 \in 1 .. Len(s) /\ Tail(s)[i] = s[i + 1]
    BY <2>1, TailSorted
  <2>3. QED
    BY <1>2, <2>2
<1>3. QED
  BY <1>1, <1>2

LEMMA ReaderStep == ASSUME ReplayInv, Reader PROVE ReplayInv'
<1>1. UNCHANGED controlVars /\ UNCHANGED <<points, scans>>
  BY DEF Reader, ReadLidarPacket, ReadImuPacket, ReadOther, Rest, cloudVars, topicVars,
     handlerVars, controlVars
<1>2. ControlInv' /\ PositionInv'
  <2>1. ControlInv'
    BY <1>1 DEF ReplayInv, ControlInv, controlVars
  <2>2. /\ position' \in {position, 1, position + 1}
        /\ reader' = "publish" => position' = position /\ position =< Len(File)
    BY DEF Reader, ReadLidarPacket, ReadImuPacket, ReadOther, ReadPacket, NextPacket,
       Reset, EndPass
  <2>3. QED
    BY <2>1, <2>2 DEF ReplayInv, PositionInv
<1>3. CASE UNCHANGED lidar_packets
  <2>1. serial' = serial \/ serial' = serial + 1
    BY DEF Reader, ReadLidarPacket, ReadImuPacket, ReadOther, ReadPacket, NextPacket,
       Reset, EndPass
  <2>2. OrderInv'
    <3>1. serial' \in Nat /\ serial =< serial' /\ points' =< serial' /\ scans' =< serial'
      BY <1>1, <2>1 DEF ReplayInv, OrderInv
    <3>2. Ahead(lidar_packets', points', scans', serial')
      BY <1>1, <1>3, <3>1, AheadLater DEF ReplayInv, OrderInv
    <3>3. ASSUME NEW h \in Handlers, Live(h)'
          PROVE  /\ Ahead(ring'[h], points', scans', serial')
                 /\ \A i \in 1 .. Len(ring'[h]), k \in 1 .. Len(lidar_packets') :
                      ring'[h][i].serial =< lidar_packets'[k].serial
      <4>1. Live(h) /\ ring'[h] = ring[h] /\ ring[h] \in Seq(Packet)
        BY <1>1, <3>3 DEF Live, controlVars, ReplayInv, ControlInv
      <4>2. Ahead(ring'[h], points', scans', serial')
        BY <1>1, <3>1, <4>1, AheadLater DEF ReplayInv, OrderInv
      <4>3. QED
        BY <1>3, <4>1, <4>2 DEF ReplayInv, OrderInv
    <3>4. QED
      BY <1>1, <1>3, <3>1, <3>2, <3>3 DEF ReplayInv, OrderInv
  <2>3. QED
    BY <1>2, <2>2 DEF ReplayInv
<1>4. CASE ReadLidarPacket /\ ~UNCHANGED lidar_packets
  <2> DEFINE q == IF Len(lidar_packets) < QueueSize THEN lidar_packets
                  ELSE Tail(lidar_packets)
             p == [serial |-> serial', stamp |-> File[position].stamp]
  <2>1. /\ serial' = serial + 1 /\ serial' \in Nat /\ serial =< serial'
        /\ points' =< serial' /\ scans' =< serial' /\ points =< serial' /\ scans =< serial'
    BY <1>1, <1>4 DEF ReadLidarPacket, ReadPacket, ReplayInv, OrderInv
  <2>2. lidar_packets' = Append(q, p)
    BY <1>4 DEF ReadLidarPacket, Enqueue
  <2>3. p \in Packet
    <3>1. position \in DOMAIN File /\ File[position].kind = "lidar"
      BY <1>4, PcapAssumption
      DEF ReadLidarPacket, ReadPacket, ReplayInv, PositionInv
    <3>2. QED
      BY <2>1, <3>1, PcapAssumption DEF Packet
  <2>4. /\ q \in Seq(Packet) /\ Sorted(q)
        /\ \A i \in 1 .. Len(q) : \E k \in 1 .. Len(lidar_packets) : q[i] = lidar_packets[k]
    BY RoomMade DEF ReplayInv, OrderInv, Ahead
  <2> HIDE DEF q
  <2>5. \A i \in 1 .. Len(q) : /\ q[i].serial \in Nat /\ q[i].serial =< serial
                               /\ points =< q[i].serial /\ scans =< q[i].serial
    BY <2>4, Serials DEF ReplayInv, OrderInv, Ahead
  <2>6. \A i \in 1 .. Len(q) : q[i].serial =< p.serial
    BY <2>1, <2>5 DEF ReplayInv, OrderInv
  <2> HIDE DEF p
  <2>7. p.serial = serial'
    BY DEF p
  <2>8. /\ Append(q, p) \in Seq(Packet) /\ Sorted(Append(q, p))
        /\ \A i \in 1 .. Len(Append(q, p)) :
             (i \in 1 .. Len(q) /\ Append(q, p)[i] = q[i]) \/ Append(q, p)[i] = p
    BY <2>3, <2>4, <2>6, AppendSorted
  <2>9. Ahead(lidar_packets', points', scans', serial')
    BY <1>1, <2>1, <2>2, <2>5, <2>7, <2>8 DEF Ahead, ReplayInv, OrderInv
  <2>10. ASSUME NEW h \in Handlers, Live(h)'
         PROVE  /\ Ahead(ring'[h], points', scans', serial')
                /\ \A i \in 1 .. Len(ring'[h]), k \in 1 .. Len(lidar_packets') :
                     ring'[h][i].serial =< lidar_packets'[k].serial
    <3>1. Live(h) /\ ring'[h] = ring[h] /\ ring[h] \in Seq(Packet)
      BY <1>1, <2>10 DEF Live, controlVars, ReplayInv, ControlInv
    <3>2. Ahead(ring'[h], points', scans', serial')
      BY <1>1, <2>1, <3>1, AheadLater DEF ReplayInv, OrderInv
    <3>3. \A i \in 1 .. Len(ring[h]) :
            /\ \A k \in 1 .. Len(q) : ring[h][i].serial =< q[k].serial
            /\ ring[h][i].serial =< p.serial
      BY <2>4, <2>7, <3>1, <3>2 DEF ReplayInv, OrderInv, Ahead
    <3>4. QED
      BY <2>2, <2>8, <3>1, <3>2, <3>3
  <2>11. QED
    BY <1>1, <1>2, <2>1, <2>2, <2>8, <2>9, <2>10 DEF ReplayInv, OrderInv
<1>5. QED
  BY <1>3, <1>4
  DEF Reader, ReadImuPacket, ReadOther, cloudVars, topicVars

(* Steps that publish nothing and move no packet keep the order, if they    *)
(* start no thread that had scans.                                          *)
LEMMA OrderKept ==
  ASSUME ReplayInv, UNCHANGED <<points, scans, serial, lidar_packets, ring>>,
         \A h \in Handlers : Live(h)' => Live(h) \/ ring[h] = << >>
  PROVE  OrderInv'
<1>1. ASSUME NEW h \in Handlers, Live(h)'
      PROVE  /\ Ahead(ring'[h], points', scans', serial')
             /\ \A i \in 1 .. Len(ring'[h]), k \in 1 .. Len(lidar_packets') :
                  ring'[h][i].serial =< lidar_packets'[k].serial
  <2>1. CASE Live(h)
    BY <2>1 DEF ReplayInv, OrderInv
  <2>2. CASE ring[h] = << >>
    <3>1. Len(<< >>) = 0
      OBVIOUS
    <3>2. QED
      BY <2>2, <3>1 DEF Ahead, Sorted
  <2>3. QED
    BY <1>1, <2>1, <2>2
<1>2. QED
  BY <1>1 DEF ReplayInv, OrderInv

LEMMA MetadataStep ==
  ASSUME ReplayInv, UNCHANGED pcapVars,
         \/ Subscribe \/ PublishMetadata
         \/ TakeMetadata \/ ReplaceHandler \/ JoinReplaced
  PROVE  ReplayInv'
<1>1. UNCHANGED <<points, scans, serial, position, reader, lidar_packets, ring>>
  BY DEF pcapVars, readVars, Subscribe, PublishMetadata, TakeMetadata, ReplaceHandler,
     JoinReplaced, topicVars, handlerVars
<1>2. ControlInv' /\ \A h \in Handlers : Live(h)' => Live(h) \/ ring[h] = << >>
  <2> USE DEF ReplayInv, ControlInv, Handlers, Live
  <2>1. CASE Subscribe \/ PublishMetadata
    <3>1. handler < MaxMetadata
      <4>1. CASE Subscribe
        BY <4>1, CloudAssumption DEF Subscribe
      <4>2. CASE PublishMetadata
        BY <4>2 DEF PublishMetadata
      <4>3. QED
        BY <2>1, <4>1, <4>2
    <3>2. callback = "idle" /\ UNCHANGED <<callback, handler, threads>> /\ subscribed'
      BY <2>1 DEF Subscribe, PublishMetadata, handlerVars
    <3>3. QED
      BY <1>1, <3>1, <3>2
  <2>2. CASE TakeMetadata
    <3>1. /\ callback = "idle" /\ callback' = "replacing" /\ handler < MaxMetadata
          /\ metadata' = << >> /\ UNCHANGED <<handler, subscribed>> /\ subscribed
      BY <2>2 DEF TakeMetadata
    <3>2. /\ DOMAIN threads' = Handlers
          /\ \A h \in Handlers : h # handler + 1 => threads'[h] = threads[h]
      BY <2>2 DEF TakeMetadata
    <3>3. QED
      BY <1>1, <3>1, <3>2
  <2>3. CASE ReplaceHandler
    <3>1. /\ callback = "replacing" /\ callback' = "joining" /\ handler' = handler + 1
          /\ handler < MaxMetadata /\ metadata = << >>
          /\ UNCHANGED <<metadata, subscribed, threads>>
      BY <2>3 DEF ReplaceHandler, topicVars
    <3>2. /\ handler' \in 0 .. MaxMetadata /\ handler' > 0 /\ subscribed'
          /\ metadata' = << >> /\ callback' # "replacing"
      <4>1. handler' \in 0 .. MaxMetadata /\ handler' > 0
        BY <3>1, CloudAssumption
      <4>2. subscribed' /\ callback' # "replacing"
        BY <3>1
      <4>3. metadata' = << >>
        BY <3>1, Zenon
      <4>4. QED
        BY <4>1, <4>2, <4>3
    <3>3. ASSUME NEW h \in Handlers
          PROVE  /\ h > handler' => threads'[h] = "none"
                 /\ h > handler' \/ h = handler' => ring'[h] = << >>
                 /\ h < handler' /\ h # handler' - 1 => threads'[h] = "done"
      BY <1>1, <3>1
    <3>4. ring' \in [Handlers -> Seq(Packet)] /\ DOMAIN threads' = Handlers
      BY <1>1, <3>1
    <3> HIDE DEF Handlers
    <3>5. ControlInv'
      BY <3>1, <3>2, <3>3, <3>4, Zenon
    <3>6. QED
      BY <1>1, <3>1, <3>5
  <2>4. CASE JoinReplaced
    <3>1. /\ callback = "joining" /\ callback' = "idle" /\ metadata = << >>
          /\ UNCHANGED <<metadata, subscribed, threads, handler>>
          /\ handler > 1 => threads[handler - 1] = "done"
      BY <2>4 DEF JoinReplaced, topicVars, handlerVars
    <3>2. subscribed
      BY <3>1
    <3>3. \A h \in Handlers : h < handler => threads[h] = "done"
      <4> SUFFICES ASSUME NEW h \in Handlers, h < handler PROVE threads[h] = "done"
        OBVIOUS
      <4>1. CASE h = handler - 1
        BY <3>1, <4>1
      <4>2. CASE h # handler - 1
        BY <4>2
      <4>3. QED
        BY <4>1, <4>2
    <3>4. QED
      BY <1>1, <3>1, <3>2, <3>3
  <2>5. QED
    BY <2>1, <2>2, <2>3, <2>4
<1>3. QED
  BY <1>1, <1>2, OrderKept DEF ReplayInv, PositionInv

LEMMA ImuStep ==
  ASSUME ReplayInv, UNCHANGED pcapVars, TakeImuPacket \/ ImuTest \/ ImuSet \/ ImuPublish
  PROVE  ReplayInv'
<1>1. /\ UNCHANGED <<points, scans, serial, position, reader, lidar_packets, ring>>
      /\ UNCHANGED <<handler, threads, metadata, subscribed>>
      /\ {callback, callback'} \cap {"replacing", "joining"} = {}
  BY DEF pcapVars, readVars, TakeImuPacket, ImuTest, ImuSet, ImuPublish, topicVars,
     handlerVars
<1>2. subscribed \/ callback' = "idle"
  BY DEF TakeImuPacket, ImuTest, ImuSet, ImuPublish, ReplayInv, ControlInv, ImuStamps
<1>3. ControlInv'
  BY <1>1, <1>2 DEF ReplayInv, ControlInv
<1>4. QED
  BY <1>1, <1>3, OrderKept DEF ReplayInv, PositionInv, Live

LEMMA TakeLidarStep ==
  ASSUME ReplayInv, UNCHANGED pcapVars, TakeLidarPacket
  PROVE  ReplayInv'
<1> DEFINE p == Head(lidar_packets)
<1>1. /\ UNCHANGED <<points, scans, serial, position, reader>> /\ UNCHANGED <<handler, threads>>
      /\ UNCHANGED <<metadata, subscribed, callback>> /\ callback = "idle"
      /\ lidar_packets # << >> /\ lidar_packets' = Tail(lidar_packets)
  BY DEF pcapVars, readVars, TakeLidarPacket
<1>2. /\ Tail(lidar_packets) \in Seq(Packet) /\ Sorted(Tail(lidar_packets))
      /\ 1 \in 1 .. Len(lidar_packets) /\ p = lidar_packets[1] /\ p \in Packet
      /\ \A i \in 1 .. Len(Tail(lidar_packets)) :
           /\ i + 1 \in 1 .. Len(lidar_packets)
           /\ Tail(lidar_packets)[i] = lidar_packets[i + 1]
  BY <1>1, TailSorted DEF ReplayInv, OrderInv, Ahead
<1> HIDE DEF p
<1>3. /\ Ahead(lidar_packets', points', scans', serial')
      /\ \A k \in 1 .. Len(lidar_packets') : p.serial =< lidar_packets'[k].serial
  BY <1>1, <1>2 DEF Ahead, Sorted, ReplayInv, OrderInv
<1>4. /\ p.serial \in Nat /\ points =< p.serial /\ scans =< p.serial
      /\ p.serial =< serial
  BY <1>2, Serials DEF Ahead, ReplayInv, OrderInv
<1>5. ASSUME NEW h \in Handlers
      PROVE  \/ ring'[h] = ring[h]
             \/ h = handler /\ ring'[h] = Append(ring[h], p)
  BY DEF TakeLidarPacket, p, ReplayInv, ControlInv
<1>6. DOMAIN ring' = Handlers
  BY DEF TakeLidarPacket, ReplayInv, ControlInv
<1>7. ASSUME NEW h \in Handlers, Live(h)'
      PROVE  /\ Ahead(ring'[h], points', scans', serial')
             /\ \A i \in 1 .. Len(ring'[h]), k \in 1 .. Len(lidar_packets') :
                  ring'[h][i].serial =< lidar_packets'[k].serial
  <2>1. /\ Live(h) /\ ring[h] \in Seq(Packet) /\ Ahead(ring[h], points, scans, serial)
        /\ \A i \in 1 .. Len(ring[h]), k \in 1 .. Len(lidar_packets) :
             ring[h][i].serial =< lidar_packets[k].serial
    BY <1>1, <1>7 DEF Live, ReplayInv, ControlInv, OrderInv
  <2>2. \A i \in 1 .. Len(ring[h]) :
          /\ \A k \in 1 .. Len(lidar_packets') : ring[h][i].serial =< lidar_packets'[k].serial
          /\ ring[h][i].serial =< p.serial
    BY <1>1, <1>2, <2>1
  <2>3. CASE ring'[h] = ring[h]
    BY <1>1, <2>1, <2>2, <2>3
  <2>4. CASE ring'[h] = Append(ring[h], p)
    <3>1. /\ Sorted(ring'[h])
          /\ \A i \in 1 .. Len(ring'[h]) :
               (i \in 1 .. Len(ring[h]) /\ ring'[h][i] = ring[h][i]) \/ ring'[h][i] = p
      <4>1. /\ Sorted(Append(ring[h], p))
            /\ \A i \in 1 .. Len(Append(ring[h], p)) :
                 \/ i \in 1 .. Len(ring[h]) /\ Append(ring[h], p)[i] = ring[h][i]
                 \/ Append(ring[h], p)[i] = p
        <5>1. Sorted(ring[h]) /\ \A i \in 1 .. Len(ring[h]) : ring[h][i].serial =< p.serial
          BY <2>1, <2>2 DEF Ahead
        <5>2. QED
          BY <1>2, <2>1, <5>1, AppendSorted
      <4>2. QED
        BY <2>4, <4>1, Zenon
    <3>2. QED
      BY <1>1, <1>3, <1>4, <2>1, <2>2, <3>1 DEF Ahead
  <2>5. QED
    BY <1>5, <2>3, <2>4
<1>8. OrderInv'
  BY <1>1, <1>2, <1>3, <1>7 DEF ReplayInv, OrderInv
<1>9. ControlInv'
  <2>1. \A h \in Handlers : ring'[h] \in Seq(Packet)
    <3> SUFFICES ASSUME NEW h \in Handlers PROVE ring'[h] \in Seq(Packet)
      OBVIOUS
    <3>1. ring[h] \in Seq(Packet) /\ Append(ring[h], p) \in Seq(Packet)
      BY <1>2 DEF ReplayInv, ControlInv
    <3>2. QED
      BY <1>5, <3>1
  <2>2. ring' \in [Handlers -> Seq(Packet)]
    BY <2>1 DEF TakeLidarPacket, ReplayInv, ControlInv
  <2>3. \A h \in Handlers : h > handler => ring'[h] = << >>
    BY <1>5 DEF ReplayInv, ControlInv, Handlers
  <2>4. QED
    BY <1>1, <2>2, <2>3 DEF ReplayInv, ControlInv
<1>10. QED
  BY <1>1, <1>8, <1>9 DEF ReplayInv, PositionInv

(* A step of a scan thread leaves the control of the replacement alone, and *)
(* only a thread that lives takes one.                                      *)
LEMMA ThreadControl ==
  ASSUME ReplayInv, NEW h \in Handlers, ScanThread(h)
  PROVE  /\ UNCHANGED <<lidar_packets, metadata, subscribed, callback, handler>>
         /\ Live(h)
         /\ DOMAIN threads' = Handlers
         /\ \A g \in Handlers : g # h => threads'[g] = threads[g]
<1> USE DEF ReplayInv, ControlInv, Live, Keep, topicVars
<1>1. CASE ScanLoop(h)
  BY <1>1 DEF ScanLoop
<1>6. CASE StampMessage(h)
  BY <1>6 DEF StampMessage, Stamping
<1>2. CASE Test(h)
  BY <1>2 DEF Test, Raise, Testing
<1>3. CASE Set(h)
  BY <1>3 DEF Set
<1>4. CASE Publish(h)
  BY <1>4 DEF Publish, AfterPublish
<1>5. CASE Advance(h)
  BY <1>5 DEF Advance
<1>7. QED
  BY <1>1, <1>2, <1>3, <1>4, <1>5, <1>6 DEF ScanThread

(* No other thread has anything left to publish.                            *)
LEMMA OthersEmpty ==
  ASSUME ReplayInv, NEW h \in Handlers, Live(h), ring[h] # << >>,
         NEW g \in Handlers, g # h, Live(g)
  PROVE  ring[g] = << >>
<1> USE DEF ReplayInv, ControlInv, Live, Handlers
<1>1. h =< handler /\ ~(callback = "joining" /\ h = handler)
  OBVIOUS
<1>2. CASE h = handler
  <2>1. g > handler \/ g < handler
    BY <1>2
  <2>2. ~(g < handler)
    BY <1>1, <1>2
  <2>3. QED
    BY <2>1, <2>2
<1>3. CASE h # handler
  <2>1. h = handler - 1 /\ callback = "joining"
    BY <1>1, <1>3
  <2>2. g >= handler
    BY <2>1
  <2>3. QED
    BY <2>1, <2>2
<1>4. QED
  BY <1>2, <1>3

(* What a scan thread publishes is the head of its ring.                    *)
LEMMA ScanThreadStep ==
  ASSUME ReplayInv, UNCHANGED pcapVars, NEW h \in Handlers, ScanThread(h),
         ring[h] # << >> \/ ScanLoop(h)
  PROVE  ReplayInv' /\ points' >= points /\ scans' >= scans
<1>1. /\ UNCHANGED <<lidar_packets, metadata, subscribed, callback, handler>>
      /\ UNCHANGED <<serial, position, reader>>
      /\ Live(h) /\ DOMAIN threads' = Handlers
      /\ \A g \in Handlers : g # h => threads'[g] = threads[g]
  BY ThreadControl DEF pcapVars, readVars
<1>2. CASE ScanLoop(h) \/ StampMessage(h) \/ Test(h) \/ Set(h)
  <2>1. UNCHANGED <<points, scans, ring>>
    BY <1>2 DEF ScanLoop, StampMessage, Test, Raise, Set
  <2>2. ControlInv'
    BY <1>1, <2>1 DEF ReplayInv, ControlInv, Live
  <2>3. \A g \in Handlers : Live(g)' => Live(g)
    BY <1>1 DEF Live
  <2>4. OrderInv'
    BY <1>1, <2>1, <2>3, OrderKept
  <2>5. QED
    BY <1>1, <2>1, <2>2, <2>4 DEF ReplayInv, OrderInv, PositionInv
<1>3. CASE Publish(h) /\ ring[h] # << >>
  <2> DEFINE p == Head(ring[h])
  <2>1. /\ p = ring[h][1] /\ 1 \in 1 .. Len(ring[h])
        /\ Ahead(ring[h], points, scans, serial) /\ ring[h] \in Seq(Packet)
    BY <1>1, <1>3, TailSorted DEF ReplayInv, ControlInv, OrderInv, Ahead
  <2>2. /\ p.serial \in Nat /\ points =< p.serial /\ scans =< p.serial
        /\ p.serial =< serial
        /\ \A i \in 1 .. Len(ring[h]) : p.serial =< ring[h][i].serial
        /\ \A k \in 1 .. Len(lidar_packets) : p.serial =< lidar_packets[k].serial
    <3>1. /\ points =< p.serial /\ scans =< p.serial /\ p.serial =< serial
          /\ \A i \in 1 .. Len(ring[h]) : p.serial =< ring[h][i].serial
      BY <2>1 DEF Ahead, Sorted
    <3>2. /\ p.serial \in Nat
          /\ \A k \in 1 .. Len(lidar_packets) : p.serial =< lidar_packets[k].serial
      BY <1>1, <2>1, Serials DEF ReplayInv, OrderInv
    <3>3. QED
      BY <3>1, <3>2
  <2>3. points' \in {points, p.serial} /\ scans' \in {scans, p.serial} /\ ring' = ring
    BY <1>3 DEF Publish
  <2> HIDE DEF p
  <2>4. /\ points' \in Nat /\ scans' \in Nat /\ points' =< serial /\ scans' =< serial
        /\ points' =< p.serial /\ scans' =< p.serial
        /\ points' >= points /\ scans' >= scans
    BY <2>2, <2>3 DEF ReplayInv, OrderInv
  <2>5. Ahead(lidar_packets', points', scans', serial')
    BY <1>1, <2>2, <2>4, Serials DEF Ahead, ReplayInv, OrderInv
  <2>6. ASSUME NEW g \in Handlers, Live(g)'
        PROVE  /\ Ahead(ring'[g], points', scans', serial')
               /\ \A i \in 1 .. Len(ring'[g]), k \in 1 .. Len(lidar_packets') :
                    ring'[g][i].serial =< lidar_packets'[k].serial
    <3>1. CASE g = h
      BY <1>1, <2>1, <2>2, <2>3, <2>4, <3>1, Serials DEF Ahead, ReplayInv, OrderInv
    <3>2. CASE g # h
      <4>1. ring[g] = << >> /\ Len(<< >>) = 0
        BY <1>1, <1>3, <2>6, <3>2, OthersEmpty DEF Live
      <4>2. QED
        BY <2>3, <4>1 DEF Ahead, Sorted
    <3>3. QED
      BY <3>1, <3>2
  <2>7. OrderInv'
    BY <1>1, <2>4, <2>5, <2>6 DEF ReplayInv, OrderInv
  <2>8. ControlInv'
    BY <1>1, <2>3 DEF ReplayInv, ControlInv, Live
  <2>9. QED
    BY <1>1, <2>4, <2>7, <2>8 DEF ReplayInv, PositionInv
<1>4. CASE Advance(h) /\ ring[h] # << >>
  <2>1. UNCHANGED <<points, scans>>
    BY <1>4 DEF Advance
  <2>2. /\ ring[h] \in Seq(Packet) /\ Ahead(ring[h], points, scans, serial)
        /\ \A i \in 1 .. Len(ring[h]), k \in 1 .. Len(lidar_packets) :
             ring[h][i].serial =< lidar_packets[k].serial
    BY <1>1 DEF ReplayInv, ControlInv, OrderInv
  <2>3. PICK n \in {1, 2} :
          n <= Len(ring[h]) /\ ring' = [ring EXCEPT ![h] = SubSeq(@, n + 1, Len(@))]
    BY <1>4 DEF Advance
  <2> DEFINE q == SubSeq(ring[h], n + 1, Len(ring[h]))
  <2>10. /\ q \in Seq(Packet) /\ Sorted(q)
         /\ \A i \in 1 .. Len(q) : i + n \in 1 .. Len(ring[h]) /\ q[i] = ring[h][i + n]
    BY <2>2, <2>3, RestSorted DEF Ahead
  <2>4. /\ ring'[h] = q /\ ring' \in [Handlers -> Seq(Packet)]
        /\ \A g \in Handlers : g # h => ring'[g] = ring[g]
    BY <2>3, <2>10 DEF ReplayInv, ControlInv
  <2> HIDE DEF q
  <2>5. ASSUME NEW g \in Handlers, Live(g)'
        PROVE  /\ Ahead(ring'[g], points', scans', serial')
               /\ \A i \in 1 .. Len(ring'[g]), k \in 1 .. Len(lidar_packets') :
                    ring'[g][i].serial =< lidar_packets'[k].serial
    <3>1. CASE g = h
      <4>1. Ahead(ring'[h], points', scans', serial')
        BY <1>1, <2>1, <2>2, <2>4, <2>10 DEF Ahead
      <4>2. \A i \in 1 .. Len(ring'[h]) :
              i + n \in 1 .. Len(ring[h]) /\ ring'[h][i] = ring[h][i + n]
        BY <2>4, <2>10
      <4>3. \A i \in 1 .. Len(ring'[h]), k \in 1 .. Len(lidar_packets) :
              ring'[h][i].serial =< lidar_packets[k].serial
        BY <2>2, <4>2
      <4>4. QED
        BY <1>1, <3>1, <4>1, <4>3
    <3>2. CASE g # h
      BY <1>1, <2>1, <2>4, <2>5, <3>2 DEF Live, ReplayInv, OrderInv
    <3>3. QED
      BY <3>1, <3>2
  <2>6. OrderInv'
    BY <1>1, <2>1, <2>5 DEF ReplayInv, OrderInv
  <2>7. ~(h > handler \/ (callback = "joining" /\ h = handler))
    BY <1>4 DEF ReplayInv, ControlInv
  <2>8. ControlInv'
    BY <1>1, <2>4, <2>7 DEF ReplayInv, ControlInv, Live
  <2>9. QED
    BY <1>1, <2>1, <2>6, <2>8 DEF ReplayInv, OrderInv, PositionInv
<1>5. QED
  BY <1>2, <1>3, <1>4 DEF ScanThread

LEMMA BusyStep ==
  ASSUME ReplayInv, BusyInv, [Next]_vars
  PROVE  BusyInv'
<1>1. CASE UNCHANGED <<threads, ring>>
  BY <1>1 DEF BusyInv
<1>2. CASE TakeMetadata
  BY <1>2 DEF TakeMetadata, BusyInv, ReplayInv, ControlInv
<1>3. CASE TakeLidarPacket
  <2>1. lidar_packets \in Seq(Packet) /\ lidar_packets # << >>
    BY <1>3 DEF TakeLidarPacket, ReplayInv, OrderInv
  <2>2. Head(lidar_packets) \in Packet
    BY <2>1
  <2>3. ASSUME NEW h \in Handlers
        PROVE  \/ ring'[h] = ring[h]
               \/ ring'[h] = Append(ring[h], Head(lidar_packets))
    BY <1>3 DEF TakeLidarPacket, ReplayInv, ControlInv
  <2>4. \A h \in Handlers : Append(ring[h], Head(lidar_packets)) # << >>
    <3> SUFFICES ASSUME NEW h \in Handlers
                 PROVE  Append(ring[h], Head(lidar_packets)) # << >>
      OBVIOUS
    <3>1. ring[h] \in Seq(Packet)
      BY DEF ReplayInv, ControlInv
    <3>2. Len(Append(ring[h], Head(lidar_packets))) # 0 /\ Len(<< >>) = 0
      BY <2>2, <3>1
    <3>3. QED
      BY <3>2, Zenon
  <2>5. threads' = threads
    BY <1>3 DEF TakeLidarPacket
  <2>6. QED
    BY <2>3, <2>4, <2>5 DEF BusyInv
<1>4. ASSUME NEW h \in Handlers, ScanThread(h)
      PROVE  BusyInv'
  <2>1. \A g \in Handlers : g # h => threads'[g] = threads[g] /\ ring'[g] = ring[g]
    BY <1>4 DEF ScanThread, ScanLoop, StampMessage, Test, Raise, Set, Publish, Advance,
       ReplayInv, ControlInv
  <2>2. threads'[h] \notin {"none", "loop", "done"} => ring'[h] # << >>
    <3> USE DEF BusyInv, ReplayInv, ControlInv
    <3>1. CASE ScanLoop(h)
      BY <3>1 DEF ScanLoop
    <3>7. CASE StampMessage(h)
      BY <3>7 DEF StampMessage, Stamping
    <3>2. CASE Test(h)
      BY <3>2 DEF Test, Raise, Testing
    <3>3. CASE Set(h)
      BY <3>3 DEF Set
    <3>4. CASE Publish(h)
      BY <3>4 DEF Publish, AfterPublish
    <3>5. CASE Advance(h)
      BY <3>5 DEF Advance
    <3>8. QED
      BY <1>4, <3>1, <3>2, <3>3, <3>4, <3>5, <3>7 DEF ScanThread
  <2>3. QED
    BY <2>1, <2>2 DEF BusyInv
<1>5. QED
  BY <1>1, <1>2, <1>3, <1>4
  DEF Next, Reader, ReadLidarPacket, ReadImuPacket, ReadOther, Rest, Destructor, Subscribe,
      PublishMetadata, Callbacks, ReplaceHandler, JoinReplaced, TakeImuPacket, ImuTest,
      ImuSet, ImuPublish, vars, cloudVars, handlerVars

LEMMA ReplayStep ==
  ASSUME ReplayInv, BusyInv, [Next]_vars
  PROVE  ReplayInv' /\ points' >= points /\ scans' >= scans
<1>1. CASE Reader
  <2>1. UNCHANGED <<points, scans>>
    BY <1>1 DEF Reader, ReadLidarPacket, ReadImuPacket, ReadOther, Rest, cloudVars
  <2>2. QED
    BY <1>1, <2>1, ReaderStep DEF ReplayInv, OrderInv
<1>2. CASE (Destructor \/ Unload \/ Interrupt) /\ UNCHANGED cloudVars
  <2>1. UNCHANGED <<serial, position, reader, points, scans, lidar_packets, ring, threads>>
        /\ UNCHANGED controlVars
    BY <1>2 DEF Destructor, JoinReader, Unload, Interrupt, readVars, cloudVars, topicVars,
       handlerVars, controlVars
  <2>2. ControlInv'
    BY <2>1 DEF ReplayInv, ControlInv, controlVars
  <2>3. OrderInv'
    BY <2>1, OrderKept DEF Live
  <2>4. QED
    BY <2>1, <2>2, <2>3 DEF ReplayInv, PositionInv, OrderInv
<1>3. CASE (Subscribe \/ PublishMetadata \/ TakeMetadata \/ ReplaceHandler
            \/ JoinReplaced \/ TakeLidarPacket \/ TakeImuPacket \/ ImuTest \/ ImuSet
            \/ ImuPublish) /\ UNCHANGED pcapVars
  <2>1. UNCHANGED <<points, scans>>
    BY <1>3 DEF Subscribe, PublishMetadata, TakeMetadata, ReplaceHandler, JoinReplaced,
       TakeLidarPacket, TakeImuPacket, ImuTest, ImuSet, ImuPublish
  <2>2. ReplayInv'
    BY <1>3, MetadataStep, ImuStep, TakeLidarStep
  <2>3. QED
    BY <2>1, <2>2 DEF ReplayInv, OrderInv
<1>4. ASSUME NEW h \in Handlers, ScanThread(h), UNCHANGED pcapVars
      PROVE  ReplayInv' /\ points' >= points /\ scans' >= scans
  <2>1. ring[h] # << >> \/ ScanLoop(h)
    BY <1>4 DEF ScanThread, StampMessage, Stamping, Test, Raise, Testing, Set, Publish,
       AfterPublish, Advance, BusyInv
  <2>2. QED
    BY <1>4, <2>1, ScanThreadStep
<1>5. CASE UNCHANGED vars
  <2>1. UNCHANGED <<serial, position, reader, points, scans, lidar_packets, ring, threads>>
        /\ UNCHANGED controlVars
    BY <1>5 DEF vars, pcapVars, readVars, cloudVars, topicVars, handlerVars, controlVars
  <2>2. ControlInv'
    BY <2>1 DEF ReplayInv, ControlInv, controlVars
  <2>3. OrderInv'
    BY <2>1, OrderKept DEF Live
  <2>4. QED
    BY <2>1, <2>2, <2>3 DEF ReplayInv, PositionInv, OrderInv
<1>6. QED
  BY <1>1, <1>2, <1>3, <1>4, <1>5 DEF Next, Destructor, Callbacks

(* Point clouds and laser scans leave in the order of their packets, across *)
(* any number of replacements of the handler.                               *)
THEOREM MessagesInOrder == Spec => PublishedInOrder
<1>1. Init => ReplayInv /\ BusyInv
  BY InitReplayInv DEF Init, CloudInit, BusyInv
<1>2. ReplayInv /\ BusyInv /\ [Next]_vars => ReplayInv' /\ BusyInv'
  BY ReplayStep, BusyStep
<1>3. ReplayInv /\ BusyInv /\ [Next]_vars => [points' >= points /\ scans' >= scans]_vars
  BY ReplayStep
<1>4. QED
  BY <1>1, <1>2, <1>3, PTL DEF Spec, PublishedInOrder

-----------------------------------------------------------------------------
(* The invariant of every variable that counts the packets of the file.     *)
PcapInv ==
    /\ loop \in BOOLEAN /\ packet_read_active \in BOOLEAN /\ ok \in BOOLEAN
    /\ reader \in {"test", "publish", "reset", "done"}
    /\ node \in {"up", "joining", "gone"}
    /\ position \in 1 .. Len(File) + 1
    /\ reader = "publish" => position <= Len(File)
    /\ passes \in 1 .. MaxPasses
    /\ serial \in Nat
    /\ serial <= IF reader \in {"test", "publish"}
                 THEN (passes - 1) * Len(File) + (position - 1)
                 ELSE passes * Len(File)

LEMMA PcapStep == ASSUME PcapInv, [Next]_vars PROVE PcapInv'
<1> USE DEF PcapInv
<1>1. CASE ReadLidarPacket \/ ReadImuPacket \/ ReadOther
  BY <1>1, PcapAssumption DEF ReadLidarPacket, ReadImuPacket, ReadOther, ReadPacket
<1>2. CASE Reset
  <2>1. CASE reader' = "test"
    <3>1. /\ reader = "reset" /\ position' = 1 /\ passes' = passes + 1
          /\ passes' \in 1 .. MaxPasses /\ position' \in 1 .. Len(File) + 1
      BY <1>2, <2>1, PcapAssumption DEF Reset, EndPass
    <3>2. serial <= (passes' - 1) * Len(File) + (position' - 1)
      <4>1. passes' - 1 = passes /\ passes * Len(File) \in Nat
        BY <3>1, PcapAssumption
      <4>2. serial <= passes * Len(File) + 0
        BY <3>1, <4>1
      <4>3. QED
        BY <3>1, <4>1, <4>2
    <3>3. QED
      BY <1>2, <2>1, <3>1, <3>2 DEF Reset, EndPass
  <2>2. CASE reader' # "test"
    BY <1>2, <2>2 DEF Reset, EndPass
  <2>3. QED
    BY <2>1, <2>2
<1>3. CASE NextPacket
  <2>1. passes * Len(File) = (passes - 1) * Len(File) + Len(File)
    BY PcapAssumption
  <2>2. (passes - 1) * Len(File) \in Int /\ passes * Len(File) \in Int
    BY PcapAssumption
  <2>3. serial <= passes * Len(File)
    BY <1>3, <2>1, <2>2, PcapAssumption DEF NextPacket
  <2>4. QED
    BY <1>3, <2>3, PcapAssumption DEF NextPacket
<1>4. CASE Destructor \/ Unload \/ Interrupt
  BY <1>4 DEF Destructor, JoinReader, Unload, Interrupt, readVars
<1>5. CASE UNCHANGED pcapVars
  BY <1>5 DEF pcapVars, readVars
<1>6. QED
  BY <1>1, <1>2, <1>3, <1>4, <1>5 DEF Next, Reader, vars

-----------------------------------------------------------------------------
(* Of n numbers, the k-th is one of them.                                   *)
LEMMA NthElement ==
  ASSUME NEW n \in Nat, NEW S \in SUBSET (1 .. n), NEW k \in 1 .. Cardinality(S)
  PROVE  Nth(S, k) \in S
<1> DEFINE rank(i) == Rank(S, i)
           enough == {i \in 0 .. n : rank(i) >= k}
           R == OpToRel(<, Nat)
<1> USE DEF Rank
<1>1. \A i \in 0 .. n : IsFiniteSet(S \cap (1 .. i)) /\ rank(i) \in Nat
  <2> SUFFICES ASSUME NEW i \in 0 .. n
               PROVE  IsFiniteSet(S \cap (1 .. i)) /\ rank(i) \in Nat
    OBVIOUS
  <2>1. IsFiniteSet(1 .. i)
    BY FS_Interval
  <2>2. IsFiniteSet(S \cap (1 .. i))
    BY <2>1, FS_Subset
  <2>3. QED
    BY <2>2, FS_CardinalityType
<1>2. S \cap (1 .. n) = S /\ S \cap (1 .. 0) = {}
  <2>1. 1 .. 0 = {}
    OBVIOUS
  <2>2. QED
    BY <2>1, Zenon
<1>3. k \in Nat \ {0} /\ k <= rank(n) /\ rank(0) = 0
  BY <1>1, <1>2, FS_EmptySet
<1> HIDE DEF R
<1>4. PICK m \in enough : \A i \in enough : ~ (<<i, m>> \in R)
  <2>1. enough \subseteq Nat /\ enough # {}
    BY <1>1, <1>3
  <2>2. IsWellFoundedOn(R, Nat)
    BY NatLessThanWellFounded DEF R
  <2> HIDE DEF enough
  <2>3. QED
    BY <2>1, <2>2, WFMin
<1>5. \A i \in enough : ~ (i < m)
  <2>1. \A a, b \in Nat : a < b => <<a, b>> \in R
    BY DEF R, OpToRel
  <2>2. enough \subseteq Nat
    OBVIOUS
  <2> HIDE DEF enough
  <2>3. QED
    BY <1>4, <2>1, <2>2, Zenon
<1>6. m \in 1 .. n /\ m - 1 \in 0 .. n /\ rank(m) >= k
  BY <1>3, <1>4
<1>7. rank(m - 1) < k
  <2>1. ~ (m - 1 \in enough)
    BY <1>5, <1>6
  <2>2. rank(m - 1) \in Nat
    BY <1>1, <1>6
  <2>3. ~ (rank(m - 1) >= k)
    <3> HIDE DEF rank
    <3>1. QED
      BY <1>6, <2>1
  <2> HIDE DEF rank
  <2>4. QED
    BY <1>3, <2>2, <2>3
<1>8. m \in S
  <2>1. SUFFICES ASSUME m \notin S PROVE FALSE
    OBVIOUS
  <2>2. S \cap (1 .. m) = S \cap (1 .. (m - 1))
    BY <1>6, <2>1
  <2>3. rank(m) = rank(m - 1) /\ rank(m - 1) \in Nat
    BY <1>1, <1>6, <2>2
  <2> HIDE DEF rank
  <2>4. QED
    BY <1>3, <1>6, <1>7, <2>3
<1>9. rank(m) = k
  <2>1. S \cap (1 .. m) = (S \cap (1 .. (m - 1))) \cup {m} /\ m \notin S \cap (1 .. (m - 1))
    BY <1>6, <1>8
  <2>2. rank(m) = rank(m - 1) + 1 /\ rank(m - 1) \in Nat
    BY <1>1, <1>6, <2>1, FS_AddElement
  <2> HIDE DEF rank
  <2>3. QED
    BY <1>3, <1>6, <1>7, <2>2
<1>10. QED
  BY <1>8, <1>9 DEF Nth

ImuPacket == {p \in [timestamp : Seq(Nat), status : Seq({0, 1})] :
                ImuMeasurements(p.timestamp, p.status)}

(* The messages of an imu packet are stamped with a time, none before the   *)
(* first of its measurements.                                               *)
LEMMA ImuStampsLater ==
  ASSUME NEW p \in ImuPacket
  PROVE  /\ PacketStamp(p) \in Nat /\ ImuStamps(p) \in Seq(Nat)
         /\ \A k \in 1 .. Len(ImuStamps(p)) : ImuStamps(p)[k] >= PacketStamp(p)
<1> DEFINE n == Len(p.timestamp)
           times == IF p.status[1] = 0 THEN [i \in 1 .. n |-> (i - 1) * ImuInterval]
                    ELSE p.timestamp
           valid == {i \in 1 .. n : p.status[i] = 1}
<1>1. /\ n \in Nat \ {0} /\ \A i \in 1 .. n : p.timestamp[i] \in Nat
      /\ Len(p.status) = n /\ p.status[1] \in {0, 1} /\ PacketStamp(p) \in Nat
  BY DEF ImuPacket, ImuMeasurements, PacketStamp
<1>2. \A i \in valid : i \in 1 .. n /\ times[i] - times[1] \in Nat
  <2>1. CASE p.status[1] = 0
    <3>1. \A i \in 1 .. n : times[i] = (i - 1) * ImuInterval
      BY <1>1, <2>1
    <3>2. \A i \in 1 .. n : (i - 1) * ImuInterval \in Nat
      BY <1>1, CloudAssumption
    <3>3. times[1] = 0
      <4>1. 1 \in 1 .. n /\ (1 - 1) * ImuInterval = 0
        BY <1>1, CloudAssumption
      <4>2. QED
        BY <3>1, <4>1
    <3> HIDE DEF n, times
    <3>4. QED
      BY <3>1, <3>2, <3>3
  <2>2. CASE p.status[1] = 1
    BY <1>1, <2>2 DEF ImuPacket, ImuMeasurements
  <2>3. QED
    BY <1>1, <2>1, <2>2
<1>3. Cardinality(valid) \in Nat
  <2>1. IsFiniteSet(1 .. n)
    BY <1>1, FS_Interval
  <2>2. IsFiniteSet(valid)
    BY <2>1, FS_Subset
  <2>3. QED
    BY <2>2, FS_CardinalityType
<1>4. \A k \in 1 .. Cardinality(valid) : Nth(valid, k) \in valid
  BY <1>1, NthElement
<1>5. ImuStamps(p) = [k \in 1 .. Cardinality(valid) |->
                       PacketStamp(p) + (times[Nth(valid, k)] - times[1])]
  BY DEF ImuStamps
<1> HIDE DEF n, times, valid
<1>6. \A k \in 1 .. Cardinality(valid) :
        /\ PacketStamp(p) + (times[Nth(valid, k)] - times[1]) \in Nat
        /\ PacketStamp(p) + (times[Nth(valid, k)] - times[1]) >= PacketStamp(p)
  <2> SUFFICES ASSUME NEW k \in 1 .. Cardinality(valid)
               PROVE  /\ PacketStamp(p) + (times[Nth(valid, k)] - times[1]) \in Nat
                      /\ PacketStamp(p) + (times[Nth(valid, k)] - times[1]) >= PacketStamp(p)
    OBVIOUS
  <2> DEFINE later == times[Nth(valid, k)] - times[1]
  <2>1. later \in Nat
    BY <1>2, <1>4
  <2> HIDE DEF later
  <2>2. PacketStamp(p) + later \in Nat /\ PacketStamp(p) + later >= PacketStamp(p)
    BY <1>1, <2>1
  <2>3. QED
    BY <2>2 DEF later
<1>7. QED
  BY <1>1, <1>3, <1>5, <1>6

-----------------------------------------------------------------------------
(* The time of the transforms: what it is raised by are times of packets,   *)
(* and a handler's thread has raised it only once it is, or was, in place.  *)
StampInv ==
    /\ last_msg_ts \in Nat
    /\ msg_ts \in [Handlers -> Nat] /\ header_stamp \in [Handlers -> Nat]
    /\ imu_packets \in Seq(ImuPacket)
    /\ imu_msgs \in Seq(Nat)
    /\ callback \in {"idle", "replacing", "joining", "imu_test", "imu_set", "imu_publish"}
    /\ (imu_msgs # << >>) = (callback \in {"imu_test", "imu_set", "imu_publish"})
    /\ latest \in [0 .. MaxMetadata -> Nat \cup {-1}]
    /\ \A h \in Handlers :
         h > handler \/ (callback = "joining" /\ h = handler) => latest[h] = -1

(* One who has just raised it, or found it high enough, and is the last to  *)
(* have done so.                                                            *)
LEMMA RaisedBy ==
  ASSUME NEW t \in Writers', last_msg_ts' >= latest'[t]
  PROVE  StampKeepsUp'
  BY DEF StampKeepsUp

LEMMA InitStamp == Init => StampInv /\ StampKeepsUp
<1> SUFFICES ASSUME Init PROVE StampInv /\ StampKeepsUp
  OBVIOUS
<1>1. StampInv
  BY CloudAssumption DEF Init, CloudInit, StampInv, Handlers
<1>2. Writers = {}
  BY DEF Init, CloudInit, Writers
<1>3. QED
  BY <1>1, <1>2 DEF StampKeepsUp

(* Only ImuTest, ImuSet and a scan thread's Test and Set touch the times.   *)
LEMMA StampKept ==
  ASSUME StampKeepsUp, UNCHANGED stampVars PROVE StampKeepsUp'
  BY DEF StampKeepsUp, Writers, stampVars, Handlers

LEMMA ImuPacketsStep ==
  ASSUME ReplayInv, StampInv, [Next]_vars
  PROVE  imu_packets' \in Seq(ImuPacket)
<1>1. CASE ReadImuPacket
  <2> DEFINE p == [timestamp |-> File[position].timestamp, status |-> File[position].status]
             q == IF Len(imu_packets) < QueueSize THEN imu_packets ELSE Tail(imu_packets)
  <2>1. p \in ImuPacket
    <3>1. position \in DOMAIN File /\ File[position].kind = "imu"
      BY <1>1, PcapAssumption
      DEF ReadImuPacket, ReadPacket, ReplayInv, PositionInv
    <3>2. ImuMeasurements(p.timestamp, p.status)
      BY <3>1, PcapAssumption
    <3>3. QED
      BY <3>2 DEF ImuPacket, ImuMeasurements
  <2>2. q \in Seq(ImuPacket)
    <3>1. imu_packets \in Seq(ImuPacket)
      BY DEF StampInv
    <3>2. ~(Len(imu_packets) < QueueSize) => imu_packets # << >>
      BY <3>1, CloudAssumption
    <3>3. QED
      BY <3>1, <3>2
  <2>3. imu_packets' \in {imu_packets, Append(q, p)}
    BY <1>1 DEF ReadImuPacket, Enqueue
  <2> HIDE DEF p, q
  <2>4. imu_packets \in Seq(ImuPacket) /\ Append(q, p) \in Seq(ImuPacket)
    BY <2>1, <2>2 DEF StampInv
  <2>5. QED
    BY <2>3, <2>4
<1>2. CASE TakeImuPacket
  BY <1>2 DEF TakeImuPacket, StampInv
<1>3. CASE UNCHANGED imu_packets
  BY <1>3 DEF StampInv
<1>4. QED
  BY <1>1, <1>2, <1>3
  DEF Next, Reader, ReadLidarPacket, ReadOther, Destructor, Subscribe, PublishMetadata,
      Callbacks, TakeMetadata, ReplaceHandler, JoinReplaced, TakeLidarPacket, ImuTest,
      ImuSet, ImuPublish, ScanThread, ScanLoop, StampMessage, Test, Raise, Set, Publish,
      Advance, Keep, Rest, vars, cloudVars, topicVars

(* What the callbacks take from a packet, or raise the time by.             *)
LEMMA ImuStampStep ==
  ASSUME ReplayInv, StampInv, StampKeepsUp, imu_packets' \in Seq(ImuPacket),
         TakeImuPacket \/ ImuTest \/ ImuSet \/ ImuPublish
  PROVE  StampInv' /\ StampKeepsUp'
<1> USE DEF StampInv
<1>5. UNCHANGED <<msg_ts, header_stamp>>
  BY DEF TakeImuPacket, ImuTest, ImuSet, ImuPublish, handlerVars
<1>1. CASE TakeImuPacket
  <2>1. Head(imu_packets) \in ImuPacket
    BY <1>1 DEF TakeImuPacket
  <2>2. imu_msgs' \in Seq(Nat)
    BY <1>1, <2>1, ImuStampsLater DEF TakeImuPacket
  <2>3. UNCHANGED stampVars /\ UNCHANGED handler /\ callback = "idle"
    BY <1>1 DEF TakeImuPacket, handlerVars
  <2>4. /\ callback' \in {"idle", "imu_test"}
        /\ (imu_msgs' # << >>) = (callback' = "imu_test")
    BY <1>1 DEF TakeImuPacket
  <2>5. QED
    BY <1>5, <2>2, <2>3, <2>4, StampKept DEF stampVars
<1>2. CASE ImuTest \/ ImuSet
  <2>1. Head(imu_msgs) \in Nat /\ callback \in {"imu_test", "imu_set"}
    BY <1>2 DEF ImuTest, ImuSet
  <2>2. UNCHANGED <<imu_msgs, handler>> /\ callback' \in {"imu_set", "imu_publish"}
    BY <1>2 DEF ImuTest, ImuSet, handlerVars
  <2>3. \/ UNCHANGED stampVars
        \/ /\ latest' = [latest EXCEPT ![0] = Head(imu_msgs)]
           /\ last_msg_ts' \in {last_msg_ts, Head(imu_msgs)}
           /\ last_msg_ts' >= Head(imu_msgs)
    BY <1>2, <2>1 DEF ImuTest, ImuSet, stampVars
  <2>4. StampInv'
    <3>1. /\ latest' \in [0 .. MaxMetadata -> Nat \cup {-1}]
          /\ \A h \in Handlers : latest'[h] = latest[h]
      <4>1. latest' = latest \/ latest' = [latest EXCEPT ![0] = Head(imu_msgs)]
        BY <2>3 DEF stampVars
      <4>2. \A h \in Handlers : h \in 0 .. MaxMetadata /\ h # 0
        BY CloudAssumption DEF Handlers
      <4>3. \A x \in Nat : [latest EXCEPT ![0] = x] \in [0 .. MaxMetadata -> Nat \cup {-1}]
        OBVIOUS
      <4>4. \A x \in Nat, h \in Handlers : [latest EXCEPT ![0] = x][h] = latest[h]
        BY <4>2
      <4>5. QED
        BY <2>1, <4>1, <4>3, <4>4
    <3>2. last_msg_ts' \in Nat
      BY <2>1, <2>3 DEF stampVars
    <3>3. imu_msgs' # << >>
      BY <2>1, <2>2
    <3>4. QED
      BY <1>5, <2>1, <2>2, <3>1, <3>2, <3>3
  <2>5. StampKeepsUp'
    <3>1. CASE UNCHANGED stampVars
      BY <3>1, StampKept
    <3>2. CASE ~ UNCHANGED stampVars
      <4>1. 0 \in 0 .. MaxMetadata
        BY CloudAssumption
      <4>2. latest'[0] = Head(imu_msgs) /\ last_msg_ts' >= latest'[0]
        BY <2>3, <3>2, <4>1
      <4>3. 0 \in Writers'
        BY <2>1, <4>1, <4>2 DEF Writers
      <4>4. QED
        BY <4>2, <4>3, RaisedBy
    <3>3. QED
      BY <3>1, <3>2
  <2>6. QED
    BY <2>4, <2>5
<1>3. CASE ImuPublish
  <2>1. imu_msgs # << >> /\ imu_msgs' = Tail(imu_msgs) /\ imu_msgs' \in Seq(Nat)
    BY <1>3 DEF ImuPublish
  <2>2. UNCHANGED stampVars /\ UNCHANGED <<handler, imu_packets>>
    BY <1>3 DEF ImuPublish, handlerVars, topicVars
  <2>3. /\ callback = "imu_publish" /\ callback' \in {"idle", "imu_test"}
        /\ (imu_msgs' # << >>) = (callback' = "imu_test")
    BY <1>3 DEF ImuPublish
  <2>4. QED
    BY <1>5, <2>1, <2>2, <2>3, StampKept DEF stampVars
<1>4. QED
  BY <1>1, <1>2, <1>3

(* A scan thread at work belongs to a handler that has been given packets:  *)
(* no later one has raised the time.                                        *)
LEMMA ScanStampStep ==
  ASSUME ReplayInv, BusyInv, StampInv, StampKeepsUp, NEW h \in Handlers, ScanThread(h)
  PROVE  StampInv' /\ StampKeepsUp'
<1>1. UNCHANGED <<imu_packets, imu_msgs, callback, handler>>
  BY DEF ScanThread, ScanLoop, StampMessage, Test, Raise, Set, Publish, Advance, Keep,
     topicVars
<1>5. msg_ts' \in [Handlers -> Nat] /\ header_stamp' \in [Handlers -> Nat]
  <2>1. msg_ts' = msg_ts
    BY DEF ScanThread, ScanLoop, StampMessage, Test, Raise, Set, Publish, Advance, Keep
  <2>2. header_stamp' \in {header_stamp, [header_stamp EXCEPT ![h] = msg_ts[h]]}
    BY DEF ScanThread, ScanLoop, StampMessage, Test, Raise, Set, Publish, Advance
  <2>3. QED
    BY <2>1, <2>2 DEF StampInv
<1>2. CASE UNCHANGED stampVars
  BY <1>1, <1>2, <1>5, StampKept DEF StampInv, stampVars
<1>3. CASE ~ UNCHANGED stampVars
  <2>1. ring[h] # << >> /\ ring[h] \in Seq(Packet)
    BY <1>3 DEF ScanThread, ScanLoop, StampMessage, Test, Raise, Testing, Set, Publish,
       Advance, BusyInv, ReplayInv, ControlInv
  <2>2. header_stamp[h] \in Nat
    BY DEF StampInv
  <2>3. /\ latest' = [latest EXCEPT ![h] = header_stamp[h]]
        /\ last_msg_ts' \in {last_msg_ts, header_stamp[h]} /\ last_msg_ts' >= header_stamp[h]
    BY <1>3, <2>2 DEF ScanThread, ScanLoop, StampMessage, Test, Raise, Set, Publish,
       Advance, stampVars, StampInv
  <2>4. ~(h > handler \/ (callback = "joining" /\ h = handler))
    BY <2>1 DEF ReplayInv, ControlInv
  <2>5. h \in 0 .. MaxMetadata /\ 0 \notin Handlers
    BY CloudAssumption DEF Handlers
  <2>6. StampInv'
    BY <1>1, <1>5, <2>2, <2>3, <2>4, <2>5 DEF StampInv
  <2>7. \A g \in Handlers : g > h => latest[g] = -1
    <3> SUFFICES ASSUME NEW g \in Handlers, g > h PROVE latest[g] = -1
      OBVIOUS
    <3>1. h # handler => h = handler - 1 /\ callback = "joining"
      BY <2>1, <2>4, <1>3
      DEF ReplayInv, ControlInv, BusyInv, ScanThread, ScanLoop, StampMessage, Test, Raise,
          Testing, Set, Publish, Advance, Handlers, stampVars
    <3>2. g > handler \/ (callback = "joining" /\ g = handler)
      BY <3>1 DEF Handlers, ReplayInv, ControlInv
    <3>3. QED
      BY <3>2 DEF StampInv
  <2>8. h \in Writers'
    BY <2>2, <2>3, <2>5, <2>7 DEF Writers, StampInv, Handlers
  <2>9. latest'[h] = header_stamp[h]
    BY <2>3, <2>5 DEF StampInv
  <2>10. QED
    BY <2>3, <2>6, <2>8, <2>9, RaisedBy
<1>4. QED
  BY <1>2, <1>3

LEMMA StampStep ==
  ASSUME ReplayInv, BusyInv, StampInv, StampKeepsUp, [Next]_vars
  PROVE  StampInv' /\ StampKeepsUp'
<1>1. imu_packets' \in Seq(ImuPacket)
  BY ImuPacketsStep
<1>2. CASE UNCHANGED <<callback, imu_msgs, handler, msg_ts, header_stamp>>
            /\ UNCHANGED stampVars
  BY <1>1, <1>2, StampKept DEF StampInv, stampVars
<1>7. CASE TakeLidarPacket
  <2>1. UNCHANGED <<callback, imu_msgs, handler, header_stamp>> /\ UNCHANGED stampVars
    BY <1>7 DEF TakeLidarPacket
  <2>2. Head(lidar_packets).stamp \in Nat
    <3>1. Head(lidar_packets) \in Packet
      BY <1>7 DEF TakeLidarPacket, ReplayInv, OrderInv
    <3>2. QED
      BY <3>1 DEF Packet
  <2>3. msg_ts' \in [Handlers -> Nat]
    BY <1>7, <2>2 DEF TakeLidarPacket, StampInv
  <2>4. QED
    BY <1>1, <2>1, <2>3, StampKept DEF StampInv, stampVars
<1>3. CASE TakeMetadata \/ ReplaceHandler \/ JoinReplaced
  <2>1. UNCHANGED stampVars /\ UNCHANGED <<imu_msgs, imu_packets, msg_ts, header_stamp>>
    BY <1>3 DEF TakeMetadata, ReplaceHandler, JoinReplaced, topicVars, handlerVars
  <2>2. {callback, callback'} \subseteq {"idle", "replacing", "joining"}
    BY <1>3 DEF TakeMetadata, ReplaceHandler, JoinReplaced
  <2>3. \A h \in Handlers :
          h > handler' \/ (callback' = "joining" /\ h = handler') => h > handler
    BY <1>3
    DEF TakeMetadata, ReplaceHandler, JoinReplaced, handlerVars, ReplayInv, ControlInv,
        Handlers
  <2>4. QED
    BY <2>1, <2>2, <2>3, StampKept DEF StampInv, stampVars
<1>4. CASE TakeImuPacket \/ ImuTest \/ ImuSet \/ ImuPublish
  BY <1>1, <1>4, ImuStampStep
<1>5. CASE \E h \in Handlers : ScanThread(h)
  BY <1>5, ScanStampStep
<1>6. QED
  BY <1>2, <1>3, <1>4, <1>5, <1>7
  DEF Next, Reader, ReadLidarPacket, ReadImuPacket, ReadOther, Rest, Destructor, Subscribe,
      PublishMetadata, Callbacks, vars, cloudVars, topicVars, handlerVars

(* Whatever the order in which the callbacks and the scan threads test and  *)
(* set the time of the transforms, it is not behind the messages of all of  *)
(* them, across any number of passes and replacements.                      *)
THEOREM StampAmongWriters == Spec => []StampKeepsUp
<1>1. Init => ReplayInv /\ BusyInv /\ StampInv /\ StampKeepsUp
  BY InitReplayInv, InitStamp DEF Init, CloudInit, BusyInv
<1>2. ReplayInv /\ BusyInv /\ StampInv /\ StampKeepsUp /\ [Next]_vars
        => (ReplayInv /\ BusyInv /\ StampInv /\ StampKeepsUp)'
  BY ReplayStep, BusyStep, StampStep
<1>3. QED
  BY <1>1, <1>2, PTL DEF Spec

-----------------------------------------------------------------------------
(* The rest of the types: the flags, the threads, and that no queue is over *)
(* its limit.                                                               *)
RoomInv ==
    /\ subscribed \in BOOLEAN
    /\ metadata \in {<< >>, <<"metadata">>}
    /\ Len(lidar_packets) <= QueueSize /\ Len(imu_packets) <= QueueSize
    /\ active \in [Handlers -> BOOLEAN]
    /\ \A h \in Handlers : Len(ring[h]) <= RingSize
    /\ threads \in [Handlers -> ThreadPC]

LEMMA EnqueueBound ==
  ASSUME NEW T, NEW q \in Seq(T), Len(q) <= QueueSize, NEW msg \in T
  PROVE  Len(Enqueue(q, msg)) <= QueueSize
<1>1. CASE Len(q) < QueueSize
  BY <1>1, CloudAssumption DEF Enqueue
<1>2. CASE ~(Len(q) < QueueSize)
  <2>1. q # << >>
    BY <1>2, CloudAssumption
  <2>2. Tail(q) \in Seq(T) /\ Len(Tail(q)) = Len(q) - 1 /\ Len(q) \in Nat
    BY <2>1
  <2>3. Len(Append(Tail(q), msg)) = Len(q)
    BY <2>2
  <2>4. QED
    BY <1>2, <2>3 DEF Enqueue
<1>3. QED
  BY <1>1, <1>2

LEMMA TailBound ==
  ASSUME NEW T, NEW q \in Seq(T), q # << >>, Len(q) <= QueueSize
  PROVE  Len(Tail(q)) <= QueueSize
<1>1. Len(Tail(q)) = Len(q) - 1 /\ Len(q) \in Nat
  OBVIOUS
<1>2. QED
  BY <1>1, CloudAssumption

LEMMA QueuesStep ==
  ASSUME ReplayInv, StampInv, RoomInv, [Next]_vars
  PROVE  Len(lidar_packets') <= QueueSize /\ Len(imu_packets') <= QueueSize
<1> USE DEF RoomInv
<1>1. CASE ReadLidarPacket
  <2>1. lidar_packets \in Seq(Packet)
    BY DEF ReplayInv, OrderInv
  <2> DEFINE p == [serial |-> serial', stamp |-> File[position].stamp]
  <2>2. p \in Packet
    <3>1. position \in DOMAIN File /\ File[position].kind = "lidar"
      BY <1>1, PcapAssumption
      DEF ReadLidarPacket, ReadPacket, ReplayInv, PositionInv
    <3>2. QED
      BY <1>1, <3>1, PcapAssumption
      DEF Packet, ReadLidarPacket, ReadPacket, ReplayInv, OrderInv
  <2>3. lidar_packets' \in {lidar_packets, Enqueue(lidar_packets, p)}
    BY <1>1 DEF ReadLidarPacket
  <2> HIDE DEF p
  <2>4. QED
    BY <1>1, <2>1, <2>2, <2>3, EnqueueBound DEF ReadLidarPacket
<1>2. CASE ReadImuPacket
  <2> DEFINE p == [timestamp |-> File[position].timestamp, status |-> File[position].status]
  <2>1. p \in ImuPacket
    <3>1. position \in DOMAIN File /\ File[position].kind = "imu"
      BY <1>2, PcapAssumption
      DEF ReadImuPacket, ReadPacket, ReplayInv, PositionInv
    <3>2. ImuMeasurements(p.timestamp, p.status)
      BY <3>1, PcapAssumption
    <3>3. QED
      BY <3>2 DEF ImuPacket, ImuMeasurements
  <2>2. imu_packets \in Seq(ImuPacket)
    BY DEF StampInv
  <2>3. imu_packets' \in {imu_packets, Enqueue(imu_packets, p)}
    BY <1>2 DEF ReadImuPacket
  <2> HIDE DEF p
  <2>4. QED
    BY <1>2, <2>1, <2>2, <2>3, EnqueueBound DEF ReadImuPacket
<1>3. CASE TakeLidarPacket
  BY <1>3, TailBound DEF TakeLidarPacket, ReplayInv, OrderInv
<1>4. CASE TakeImuPacket
  BY <1>4, TailBound DEF TakeImuPacket, StampInv
<1>5. CASE UNCHANGED <<lidar_packets, imu_packets>>
  BY <1>5
<1>6. QED
  BY <1>1, <1>2, <1>3, <1>4, <1>5
  DEF Next, Reader, ReadOther, Destructor, Subscribe, PublishMetadata, Callbacks,
      TakeMetadata, ReplaceHandler, JoinReplaced, ImuTest, ImuSet, ImuPublish, ScanThread,
      ScanLoop, StampMessage, Test, Raise, Set, Publish, Advance, Keep, vars, cloudVars,
      topicVars

LEMMA RingsStep ==
  ASSUME ReplayInv, BusyInv, RoomInv, [Next]_vars
  PROVE  \A h \in Handlers : Len(ring'[h]) <= RingSize
<1> USE DEF RoomInv
<1>1. CASE TakeLidarPacket
  <2> SUFFICES ASSUME NEW h \in Handlers PROVE Len(ring'[h]) <= RingSize
    OBVIOUS
  <2>1. ring \in [Handlers -> Seq(Packet)] /\ handler \in 0 .. MaxMetadata
    BY DEF ReplayInv, ControlInv
  <2>2. \/ ring'[h] = ring[h]
        \/ Len(ring[h]) # RingSize /\ ring'[h] = Append(ring[h], Head(lidar_packets))
    BY <1>1, <2>1 DEF TakeLidarPacket
  <2>3. Len(ring[h]) \in Nat /\ Len(Append(ring[h], Head(lidar_packets))) = Len(ring[h]) + 1
    BY <2>1
  <2>4. QED
    BY <2>2, <2>3, CloudAssumption
<1>2. ASSUME NEW h \in Handlers, Advance(h)
      PROVE  \A g \in Handlers : Len(ring'[g]) <= RingSize
  <2>1. ring \in [Handlers -> Seq(Packet)] /\ ring[h] # << >>
    BY <1>2 DEF Advance, BusyInv, ReplayInv, ControlInv
  <2>2. PICK n \in {1, 2} :
          n <= Len(ring[h]) /\ ring' = [ring EXCEPT ![h] = SubSeq(@, n + 1, Len(@))]
    BY <1>2 DEF Advance
  <2>3. Len(SubSeq(ring[h], n + 1, Len(ring[h]))) <= RingSize
    <3>1. /\ Len(ring[h]) \in Nat
          /\ Len(SubSeq(ring[h], n + 1, Len(ring[h]))) = Len(ring[h]) - n
      BY <2>1, <2>2
    <3>2. QED
      BY <3>1, CloudAssumption
  <2>4. QED
    BY <2>1, <2>2, <2>3
<1>3. CASE UNCHANGED ring
  BY <1>3
<1>4. QED
  BY <1>1, <1>2, <1>3
  DEF Next, Reader, ReadLidarPacket, ReadImuPacket, ReadOther, Rest, Destructor, Subscribe,
      PublishMetadata, Callbacks, TakeMetadata, ReplaceHandler, JoinReplaced, TakeImuPacket,
      ImuTest, ImuSet, ImuPublish, ScanThread, ScanLoop, StampMessage, Test, Raise, Set,
      Publish, vars, cloudVars, handlerVars

LEMMA FlagsStep ==
  ASSUME ReplayInv, RoomInv, [Next]_vars
  PROVE  /\ subscribed' \in BOOLEAN /\ metadata' \in {<< >>, <<"metadata">>}
         /\ active' \in [Handlers -> BOOLEAN]
         /\ threads' \in [Handlers -> ThreadPC]
<1> USE DEF RoomInv, ThreadPC, Stamping, AfterPublish, Publishing
<1>1. CASE Subscribe \/ PublishMetadata
  BY <1>1 DEF Subscribe, PublishMetadata, handlerVars
<1>2. CASE TakeMetadata \/ ReplaceHandler \/ JoinReplaced
  BY <1>2 DEF TakeMetadata, ReplaceHandler, JoinReplaced, topicVars, handlerVars
<1>3. CASE TakeLidarPacket \/ TakeImuPacket \/ ImuTest \/ ImuSet \/ ImuPublish
  BY <1>3 DEF TakeLidarPacket, TakeImuPacket, ImuTest, ImuSet, ImuPublish, topicVars,
     handlerVars
<1>4. ASSUME NEW h \in Handlers, ScanThread(h)
      PROVE  /\ UNCHANGED <<subscribed, metadata, active>>
             /\ threads' \in [Handlers -> ThreadPC]
  <2>1. UNCHANGED <<subscribed, metadata, active>>
    BY <1>4 DEF ScanThread, ScanLoop, StampMessage, Test, Raise, Set, Publish, Advance,
       Keep, topicVars
  <2>2. CASE ScanLoop(h) \/ Advance(h)
    BY <2>1, <2>2 DEF ScanLoop, Advance
  <2>3. CASE Test(h)
    BY <2>1, <2>3 DEF Test, Raise, Testing, Setting
  <2>4. CASE Set(h) \/ Publish(h)
    BY <2>1, <2>4 DEF Set, Publish
  <2>6. CASE StampMessage(h)
    BY <2>1, <2>6 DEF StampMessage
  <2>5. QED
    BY <1>4, <2>1, <2>2, <2>3, <2>4, <2>6 DEF ScanThread
<1>5. CASE UNCHANGED <<subscribed, metadata, active, threads>>
  BY <1>5
<1>6. QED
  BY <1>1, <1>2, <1>3, <1>4, <1>5
  DEF Next, Reader, ReadLidarPacket, ReadImuPacket, ReadOther, Rest, Destructor, Callbacks,
      vars, cloudVars, topicVars, handlerVars

(* Every variable keeps its type: no subscription and no ring is ever over  *)
(* its limit, and no more packets are published than the passes have.       *)
THEOREM ReplayTypeCorrect == Spec => []TypeOK
<1> DEFINE IInv == /\ ReplayInv /\ BusyInv /\ StampInv /\ StampKeepsUp
                   /\ PcapInv /\ RoomInv
<1>1. Init => IInv
  <2> SUFFICES ASSUME Init PROVE IInv
    OBVIOUS
  <2>1. ReplayInv /\ BusyInv /\ StampInv /\ StampKeepsUp
    BY InitReplayInv, InitStamp DEF Init, CloudInit, BusyInv
  <2>2. PcapInv
    BY PcapAssumption DEF Init, PcapInit, PcapInv
  <2>3. RoomInv
    <3>1. threads \in [Handlers -> ThreadPC]
      <4>1. "none" \in ThreadPC
        BY DEF ThreadPC
      <4>2. QED
        BY <4>1 DEF Init, CloudInit
    <3>2. /\ Len(lidar_packets) <= QueueSize /\ Len(imu_packets) <= QueueSize
          /\ \A h \in Handlers : Len(ring[h]) <= RingSize
      <4>1. lidar_packets = << >> /\ imu_packets = << >> /\ \A h \in Handlers : ring[h] = << >>
        BY DEF Init, CloudInit
      <4>2. Len(<< >>) <= QueueSize /\ Len(<< >>) <= RingSize
        BY CloudAssumption
      <4>3. QED
        BY <4>1, <4>2, Zenon
    <3>3. /\ subscribed \in BOOLEAN /\ metadata \in {<< >>, <<"metadata">>}
          /\ active \in [Handlers -> BOOLEAN]
      BY DEF Init, CloudInit
    <3>4. QED
      BY <3>1, <3>2, <3>3 DEF RoomInv
  <2>4. QED
    BY <2>1, <2>2, <2>3
<1>2. IInv /\ [Next]_vars => IInv'
  <2> SUFFICES ASSUME IInv, [Next]_vars PROVE IInv'
    OBVIOUS
  <2>1. ReplayInv' /\ BusyInv' /\ StampInv' /\ StampKeepsUp' /\ PcapInv'
    BY ReplayStep, BusyStep, StampStep, PcapStep
  <2>2. RoomInv'
    BY QueuesStep, RingsStep, FlagsStep DEF RoomInv
  <2>3. QED
    BY <2>1, <2>2
<1>3. IInv => TypeOK
  <2> SUFFICES ASSUME IInv PROVE TypeOK
    OBVIOUS
  <2>1. PcapTypeOK
    <3>1. /\ (passes - 1) * Len(File) + Len(File) = passes * Len(File)
          /\ passes * Len(File) <= MaxPasses * Len(File)
          /\ (passes - 1) * Len(File) \in Int /\ passes * Len(File) \in Int
          /\ MaxPasses * Len(File) \in Int
      BY PcapAssumption DEF PcapInv
    <3>2. serial <= MaxPasses * Len(File)
      BY <3>1, PcapAssumption DEF PcapInv
    <3>3. QED
      BY <3>1, <3>2 DEF PcapInv, PcapTypeOK
  <2>2. CloudTypeOK
    <3>1. Len(metadata) <= 1
      <4>1. Len(<< >>) = 0 /\ Len(<<"metadata">>) = 1
        OBVIOUS
      <4>2. metadata = << >> \/ metadata = <<"metadata">>
        BY DEF RoomInv
      <4>3. CASE metadata = << >>
        BY <4>1, <4>3
      <4>4. CASE metadata = <<"metadata">>
        BY <4>1, <4>4
      <4>5. QED
        BY <4>2, <4>3, <4>4
    <3>2. QED
      BY <3>1 DEF ReplayInv, ControlInv, OrderInv, StampInv, RoomInv, CloudTypeOK
  <2>3. QED
    BY <2>1, <2>2 DEF TypeOK
<1> HIDE DEF IInv
<1>4. QED
  BY <1>1, <1>2, <1>3, PTL DEF Spec
=============================================================================
