------------------------------- MODULE Replay -------------------------------
(***************************************************************************)
(* The replay of a pcap file (launch/replay_pcap.launch): OusterPcap        *)
(* publishes the packets that OusterCloud turns into messages.  Metadata is *)
(* latched, packets are queued in the subscriptions.                        *)
(***************************************************************************)
EXTENDS OusterPcap, OusterCloud

vars == <<pcapVars, cloudVars>>

TypeOK == PcapTypeOK /\ CloudTypeOK

Init == PcapInit /\ CloudInit

-----------------------------------------------------------------------------
Rest == <<subscribed, metadata, callback, imu_msgs, handlerVars, stampVars, points, scans>>

\* A packet is published to whoever has subscribed.
ReadLidarPacket ==
    /\ ReadPacket("lidar")
    /\ lidar_packets' = IF subscribed
                        THEN Enqueue(lidar_packets,
                                     [serial |-> serial', stamp |-> File[position].stamp])
                        ELSE lidar_packets
    /\ UNCHANGED <<imu_packets, Rest>>

ReadImuPacket ==
    /\ ReadPacket("imu")
    /\ imu_packets' = IF subscribed
                      THEN Enqueue(imu_packets,
                                   [timestamp |-> File[position].timestamp,
                                    status |-> File[position].status])
                      ELSE imu_packets
    /\ UNCHANGED <<lidar_packets, Rest>>

\* A packet of another port is only reported.
ReadOther == ReadPacket("other") /\ UNCHANGED cloudVars

Reader ==
    \/ ReadLidarPacket \/ ReadImuPacket \/ ReadOther
    \/ (NextPacket \/ Reset) /\ UNCHANGED cloudVars

Destructor == JoinReader /\ UNCHANGED cloudVars

Next ==
    \/ Reader
    \/ Destructor
    \/ (Unload \/ Interrupt) /\ UNCHANGED cloudVars
    \/ (Subscribe \/ PublishMetadata \/ Callbacks) /\ UNCHANGED pcapVars
    \/ \E h \in Handlers : ScanThread(h) /\ UNCHANGED pcapVars

Spec == Init /\ [][Next]_vars

(* Every thread that can go on does; nothing forces an unload, an interrupt *)
(* or a subscription.                                                       *)
Fairness ==
    /\ WF_vars(Reader)
    /\ WF_vars(Destructor)
    /\ WF_vars(Callbacks /\ UNCHANGED pcapVars)
    /\ \A h \in Handlers : WF_vars(ScanThread(h) /\ UNCHANGED pcapVars)

FairSpec == Spec /\ Fairness

-----------------------------------------------------------------------------
(* Point clouds and laser scans leave in the order of their packets, none   *)
(* after one of a later packet, also while metadata replaces the handler    *)
(* whose thread is still publishing.                                        *)
PublishedInOrder == [][points' >= points /\ scans' >= scans]_vars

(* last_msg_ts, the time of the dynamic transforms, is raised by unsynchro- *)
(* nised comparisons and assignments.  A stale assignment may take it back, *)
(* behind the messages of one of the threads that raise it, but never       *)
(* behind those of all of them, also when a recording starts again.         *)
Writers == {t \in 0 .. MaxMetadata :
              latest[t] >= 0 /\ (t = 0 \/ \A h \in Handlers : h > t => latest[h] = -1)}

StampKeepsUp == Writers # {} => \E t \in Writers : last_msg_ts >= latest[t]

(* A nodelet set to unload is destroyed: its reader notices, wherever it is.*)
UnloadReturns == node = "joining" ~> node = "gone"

(* New metadata is served: the old handler's thread is joined in spite of   *)
(* the scans it had left.                                                   *)
ReplacementEnds == callback = "replacing" ~> callback = "idle"
=============================================================================
