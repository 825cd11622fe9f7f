----------------------------- MODULE OusterCloud -----------------------------
(***************************************************************************)
(* OusterCloud (src/os_cloud_nodelet.cpp): a node that subscribes to the    *)
(* metadata and the packets of a sensor or a replay and publishes point     *)
(* clouds, laser scans and imu messages.  Its callbacks run one at a time   *)
(* on the node's callback queue; the handler that metadata creates has a    *)
(* scan thread of its own.  Both raise last_msg_ts without synchronisation. *)
(* The two fields of a ros::Time are read, and assigned, at once.           *)
(* OusterImage is the same node with images for its only output.            *)
(*                                                                          *)
(* A lidar packet is [serial, stamp] and completes a scan of that stamp     *)
(* (batching is LidarPacketHandler's, the outputs are ScanProcessors'); an  *)
(* imu packet holds the timestamps and status bits of its measurements.     *)
(***************************************************************************)
EXTENDS Ranks, Sequences, SequencesExt

CONSTANTS
    QueueSize,      \* of a subscription: 100
    RingSize,       \* scans a LidarPacketHandler holds: 9
    ImuInterval,    \* between two measurements, when computed
    MaxMetadata     \* bound: metadata messages

ASSUME CloudAssumption ==
    /\ QueueSize \in Nat \ {0} /\ RingSize \in Nat \ {0}
    /\ ImuInterval \in Nat \ {0} /\ MaxMetadata \in Nat \ {0}

VARIABLES
    subscribed,     \* onInit has run
    metadata, lidar_packets, imu_packets,   \* what waits in the subscriptions
    callback,       \* control of the callback queue
    imu_msgs,       \* stamps of the imu messages still to be published
    handler,        \* the LidarPacketHandler lidar_packet_handler holds, 0 if none
    active,         \* lidar_scans_processing_active of each handler
    ring,           \* the scans it has not processed
    msg_ts,         \* its lidar_scan_estimated_msg_ts: of the scan completed last
    threads,        \* its scan thread
    header_stamp,   \* of the message its scan thread is publishing
    last_msg_ts,
    points, scans,  \* history: serial of the last point cloud, the last laser scan
    latest          \* history: the last stamp that the callbacks (0), and the scan
                    \* thread of each handler, have taken last_msg_ts up to, or -1

topicVars == <<subscribed, metadata, lidar_packets, imu_packets>>
handlerVars == <<handler, active, ring, msg_ts, threads, header_stamp>>
stampVars == <<last_msg_ts, latest>>
cloudVars == <<topicVars, callback, imu_msgs, handlerVars, stampVars, points, scans>>

Handlers == 1 .. MaxMetadata

\* One step after another of a scan thread.
Stamping == [points |-> "points_test", scan |-> "scan_test"]
Testing == {"points_test", "scan_test"}
Setting == [points_test |-> "points_set", scan_test |-> "scan_set"]
Publishing == [points_test |-> "points_publish", points_set |-> "points_publish",
               scan_test |-> "scan_publish", scan_set |-> "scan_publish"]
AfterPublish == [points_publish |-> "scan", scan_publish |-> "advance"]

ThreadPC == {"none", "loop", "advance", "done"}
                \cup DOMAIN Stamping \cup DOMAIN Publishing \cup DOMAIN AfterPublish

CloudTypeOK ==
    /\ subscribed \in BOOLEAN
    /\ Len(metadata) <= 1 /\ Len(lidar_packets) <= QueueSize /\ Len(imu_packets) <= QueueSize
    /\ callback \in {"idle", "replacing", "joining", "imu_test", "imu_set", "imu_publish"}
    /\ imu_msgs \in Seq(Nat)
    /\ (imu_msgs # << >>) = (callback \in {"imu_test", "imu_set", "imu_publish"})
    /\ handler \in 0 .. MaxMetadata
    /\ active \in [Handlers -> BOOLEAN]
    /\ \A h \in Handlers : Len(ring[h]) <= RingSize
    /\ threads \in [Handlers -> ThreadPC]
    /\ msg_ts \in [Handlers -> Nat] /\ header_stamp \in [Handlers -> Nat]
    /\ last_msg_ts \in Nat /\ points \in Nat /\ scans \in Nat
    /\ latest \in [0 .. MaxMetadata -> Nat \cup {-1}]

CloudInit ==
    /\ subscribed = FALSE
    /\ metadata = << >> /\ lidar_packets = << >> /\ imu_packets = << >>
    /\ callback = "idle" /\ imu_msgs = << >>
    /\ handler = 0
    /\ active = [h \in Handlers |-> FALSE]
    /\ ring = [h \in Handlers |-> << >>]
    /\ threads = [h \in Handlers |-> "none"]
    /\ msg_ts = [h \in Handlers |-> 0] /\ header_stamp = [h \in Handlers |-> 0]
    /\ last_msg_ts = 0 /\ points = 0 /\ scans = 0
    /\ latest = [t \in 0 .. MaxMetadata |-> -1]

MutKeepAll(queue, msg) == Append(queue, msg)    \* mutated: no limit

\* A subscription that is full forgets its oldest message.
Enqueue(queue, msg) ==
    Append(IF Len(queue) < QueueSize THEN queue ELSE Tail(queue), msg)

-----------------------------------------------------------------------------
(* onInit: the metadata topic is latched, what was published is received;   *)
(* packets published before are not.                                        *)
Subscribe ==
    /\ ~subscribed
    /\ subscribed' = TRUE
    /\ metadata' = <<"metadata">>
    /\ UNCHANGED <<lidar_packets, imu_packets, callback, imu_msgs, handlerVars,
                   stampVars, points, scans>>

\* Metadata published again on the topic, as a sensor does that was reconnected.
PublishMetadata ==
    /\ subscribed /\ handler > 0 /\ handler < MaxMetadata
    /\ metadata = << >> /\ callback = "idle"
    /\ metadata' = <<"metadata">>
    /\ UNCHANGED <<subscribed, lidar_packets, imu_packets, callback, imu_msgs,
                   handlerVars, stampVars, points, scans>>

\* metadata_handler, as far as create_handlers creates the new handler, whose
\* thread starts.
TakeMetadata ==
    /\ callback = "idle" /\ metadata # << >>
    /\ metadata' = << >>
    /\ active' = [active EXCEPT ![handler + 1] = TRUE]
    /\ threads' = [threads EXCEPT ![handler + 1] = "loop"]
    /\ callback' = "replacing"
    /\ UNCHANGED <<subscribed, lidar_packets, imu_packets, imu_msgs, handler, ring,
                   msg_ts, header_stamp, stampVars, points, scans>>

\* The assignment destroys the old handler, whose flag is cleared ...
ReplaceHandler ==
    /\ callback = "replacing"
    /\ handler' = handler + 1
    /\ active' = [h \in Handlers |-> active[h] /\ h # handler]
    /\ callback' = "joining"
    /\ UNCHANGED <<topicVars, imu_msgs, ring, msg_ts, threads, header_stamp, stampVars,
                   points, scans>>

MutNoJoin ==    \* mutated: a destructor that does not wait
    /\ callback = "joining"
    /\ callback' = "idle"
    /\ UNCHANGED <<topicVars, imu_msgs, handlerVars, stampVars, points, scans>>

\* ... and whose thread is joined.
JoinReplaced ==
    /\ callback = "joining"
    /\ handler > 1 => threads[handler - 1] = "done"
    /\ callback' = "idle"
    /\ UNCHANGED <<topicVars, imu_msgs, handlerVars, stampVars, points, scans>>

\* A packet before the first metadata, or for a full ring, is dropped.
TakeLidarPacket ==
    /\ callback = "idle" /\ lidar_packets # << >>
    /\ lidar_packets' = Tail(lidar_packets)
    /\ IF handler = 0 \/ Len(ring[handler]) = RingSize
       THEN UNCHANGED <<ring, msg_ts>>
       ELSE /\ ring' = [ring EXCEPT ![handler] = Append(@, Head(lidar_packets))]
            /\ msg_ts' = [msg_ts EXCEPT ![handler] = Head(lidar_packets).stamp]
    /\ UNCHANGED <<subscribed, metadata, imu_packets, callback, imu_msgs, handler,
                   active, threads, header_stamp, stampVars, points, scans>>

\* ImuPacketHandler's time of a packet, in sensor time: its first measurement's,
\* valid or not.
PacketStamp(packet) == packet.timestamp[1]

\* packet_to_imu_msgs: the stamps of the valid measurements.  When the first is
\* not valid, equidistant times from 0 stand for the times of all.
ImuStamps(packet) ==
    LET n == Len(packet.timestamp)
        times == IF packet.status[1] = 0 THEN [i \in 1 .. n |-> (i - 1) * ImuInterval]
                 ELSE packet.timestamp
        valid == {i \in 1 .. n : packet.status[i] = 1}
    IN  [k \in 1 .. Cardinality(valid) |->
            PacketStamp(packet) + (times[Nth(valid, k)] - times[1])]

TakeImuPacket ==
    /\ callback = "idle" /\ imu_packets # << >>
    /\ imu_packets' = Tail(imu_packets)
    /\ imu_msgs' = IF handler = 0 THEN << >> ELSE ImuStamps(Head(imu_packets))
    /\ callback' = IF imu_msgs' = << >> THEN "idle" ELSE "imu_test"
    /\ UNCHANGED <<subscribed, metadata, lidar_packets, handlerVars, stampVars,
                   points, scans>>

ImuTest ==
    /\ callback = "imu_test"
    /\ IF Head(imu_msgs) > last_msg_ts
       THEN callback' = "imu_set" /\ UNCHANGED latest
       ELSE callback' = "imu_publish" /\ latest' = [latest EXCEPT ![0] = Head(imu_msgs)]
    /\ UNCHANGED <<topicVars, imu_msgs, handlerVars, last_msg_ts, points, scans>>

ImuSet ==
    /\ callback = "imu_set"
    /\ last_msg_ts' = Head(imu_msgs)
    /\ latest' = [latest EXCEPT ![0] = Head(imu_msgs)]
    /\ callback' = "imu_publish"
    /\ UNCHANGED <<topicVars, imu_msgs, handlerVars, points, scans>>

ImuPublish ==
    /\ callback = "imu_publish"
    /\ imu_msgs' = Tail(imu_msgs)
    /\ callback' = IF Tail(imu_msgs) = << >> THEN "idle" ELSE "imu_test"
    /\ UNCHANGED <<topicVars, handlerVars, stampVars, points, scans>>

Callbacks ==
    \/ TakeMetadata \/ ReplaceHandler \/ JoinReplaced
    \/ TakeLidarPacket
    \/ TakeImuPacket \/ ImuTest \/ ImuSet \/ ImuPublish

-----------------------------------------------------------------------------
(* The scan thread of handler h: the processors and their callbacks.        *)

Keep == <<topicVars, callback, imu_msgs, handler, active, msg_ts>>

MutIgnoreFlag(h) ==     \* mutated: the thread ends with nothing left to process
    /\ threads[h] = "loop"
    /\ threads' = [threads EXCEPT ![h] = IF ring[h] # << >> THEN "points" ELSE "loop"]
    /\ UNCHANGED <<Keep, ring, header_stamp, stampVars, points, scans>>

ScanLoop(h) ==
    /\ threads[h] = "loop"
    /\ \/ ~active[h] /\ threads' = [threads EXCEPT ![h] = "done"]
       \/ active[h] /\ ring[h] # << >> /\ threads' = [threads EXCEPT ![h] = "points"]
    /\ UNCHANGED <<Keep, ring, header_stamp, stampVars, points, scans>>

\* A processor stamps its message with what the handler's shared stamp is by then:
\* that of its scan, or of one completed since.
StampMessage(h) ==
    /\ threads[h] \in DOMAIN Stamping
    /\ header_stamp' = [header_stamp EXCEPT ![h] = msg_ts[h]]
    /\ threads' = [threads EXCEPT ![h] = Stamping[@]]
    /\ UNCHANGED <<Keep, ring, stampVars, points, scans>>

\* What the comparison leads to: the assignment, or publishing without it.
Raise(h, newer) ==
    /\ threads[h] \in Testing
    /\ threads' = [threads EXCEPT ![h] = IF newer THEN Setting[@] ELSE Publishing[@]]
    /\ latest' = IF newer THEN latest ELSE [latest EXCEPT ![h] = header_stamp[h]]
    /\ UNCHANGED <<Keep, ring, header_stamp, last_msg_ts, points, scans>>

MutOlder(h) == Raise(h, header_stamp[h] < last_msg_ts)     \* mutated: the wrong way round

Test(h) == Raise(h, header_stamp[h] > last_msg_ts)

Set(h) ==
    /\ threads[h] \in {"points_set", "scan_set"}
    /\ last_msg_ts' = header_stamp[h]
    /\ latest' = [latest EXCEPT ![h] = header_stamp[h]]
    /\ threads' = [threads EXCEPT ![h] = Publishing[@]]
    /\ UNCHANGED <<Keep, ring, header_stamp, points, scans>>

Publish(h) ==
    /\ threads[h] \in DOMAIN AfterPublish
    /\ points' = IF threads[h] = "points_publish" THEN Head(ring[h]).serial ELSE points
    /\ scans' = IF threads[h] = "scan_publish" THEN Head(ring[h]).serial ELSE scans
    /\ threads' = [threads EXCEPT ![h] = AfterPublish[@]]
    /\ UNCHANGED <<Keep, ring, header_stamp, stampVars>>

\* The scan leaves the ring; when throttling, the next one as well (how full the ring
\* has to be is LidarPacketHandler's).
Advance(h) ==
    /\ threads[h] = "advance"
    /\ \E n \in {1, 2} :
         /\ n <= Len(ring[h])
         /\ ring' = [ring EXCEPT ![h] = SubSeq(@, n + 1, Len(@))]
    /\ threads' = [threads EXCEPT ![h] = "loop"]
    /\ UNCHANGED <<Keep, header_stamp, stampVars, points, scans>>

ScanThread(h) ==
    ScanLoop(h) \/ StampMessage(h) \/ Test(h) \/ Set(h) \/ Publish(h) \/ Advance(h)
=============================================================================
