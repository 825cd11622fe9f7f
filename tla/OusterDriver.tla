---------------------------- MODULE OusterDriver ----------------------------
(***************************************************************************)
(* The life of the objects OusterDriver (src/os_driver_nodelet.cpp) shares  *)
(* between its three kinds of threads: the callback queue that builds,      *)
(* replaces and destroys them, the connection thread of OusterSensor that   *)
(* calls the packet handlers, and the scan thread of each LidarPacketHandler*)
(* that publishes.  Connection attempts and scan contents are those of      *)
(* OusterSensor and LidarPacketHandler; all the outputs of proc_mask are on. *)
(***************************************************************************)
EXTENDS Integers, Sequences, SequencesExt

CONSTANT MaxStarts    \* bound: successful starts

ASSUME DriverAssumption == MaxStarts \in Nat \ {0}

VARIABLES
    main,       \* control of the callback queue, then of the destructor
    members,    \* the members of OusterDriver not destroyed yet, as declared
    handler,    \* the LidarPacketHandler lidar_packet_handler holds, 0 if none
    active,     \* lidar_scans_processing_active of each LidarPacketHandler
    scans,      \* its scan thread
    connection, \* sensor_connection_active
    conn        \* the connection thread: "check", or the member it is using

vars == <<main, members, handler, active, scans, connection, conn>>

Handlers == 1 .. MaxStarts

(* Publishers declared after the handler whose thread uses them.            *)
MutDeclared ==
    <<"tf_bcast", "imu_packet_handler", "lidar_packet_handler", "publish_raw",
      "telemetry_pub", "telemetry_handler", "imu_pub", "lidar_pubs", "scan_pubs",
      "image_pubs">>

(* The members in the order of their declaration.                           *)
Declared ==
    <<"imu_pub", "lidar_pubs", "scan_pubs", "image_pubs", "tf_bcast",
      "imu_packet_handler", "lidar_packet_handler", "publish_raw", "telemetry_pub",
      "telemetry_handler">>

Alive == ToSet(members)

(* What a packet goes through on the connection thread, and a scan on the   *)
(* scan thread, member by member.  The iteration that handled a lidar       *)
(* packet may handle an imu packet as well.                                 *)
AfterUse ==
    [telemetry_handler |-> {"telemetry_pub"}, telemetry_pub |-> {"lidar_packet_handler"},
     lidar_packet_handler |-> {"check", "imu_packet_handler"},
     imu_packet_handler |-> {"imu_pub"}, imu_pub |-> {"check"}]

AfterPublish ==
    [lidar_pubs |-> "scan_pubs", scan_pubs |-> "image_pubs", image_pubs |-> "loop"]

ConnUses == DOMAIN AfterUse
Publishes == DOMAIN AfterPublish

TypeOK ==
    /\ main \in {"creating", "replacing", "draining", "launching", "running", "stopping",
                 "destroying", "joining_scans", "destroyed", "joining", "gone"}
    /\ \E n \in 0 .. Len(Declared) : members = SubSeq(Declared, 1, n)
    /\ handler \in 0 .. MaxStarts
    /\ active \in [Handlers -> BOOLEAN]
    /\ scans \in [Handlers -> {"none", "loop", "done"} \cup Publishes]
    /\ connection \in BOOLEAN
    /\ conn \in {"none", "check", "done"} \cup ConnUses

Init ==
    /\ main = "creating"
    /\ members = Declared
    /\ handler = 0
    /\ active = [h \in Handlers |-> FALSE]
    /\ scans = [h \in Handlers |-> "none"]
    /\ connection = FALSE
    /\ conn = "none"

-----------------------------------------------------------------------------
(* create_handlers(), from update_metadata().                               *)

(* The new handler is constructed, and its thread started, first.           *)
CreateHandler ==
    /\ main = "creating"
    /\ active' = [active EXCEPT ![handler + 1] = TRUE]
    /\ scans' = [scans EXCEPT ![handler + 1] = "loop"]
    /\ main' = "replacing"
    /\ UNCHANGED <<members, handler, connection, conn>>

(* The assignment then destroys the one that was there.                     *)
ReplaceHandler ==
    /\ main = "replacing"
    /\ handler' = handler + 1
    /\ active' = IF handler = 0 THEN active ELSE [active EXCEPT ![handler] = FALSE]
    /\ main' = "draining"
    /\ UNCHANGED <<members, scans, connection, conn>>

JoinReplaced ==
    /\ main = "draining"
    /\ handler > 1 => scans[handler - 1] = "done"
    /\ main' = "launching"
    /\ UNCHANGED <<members, handler, active, scans, connection, conn>>

(* start_sensor_connection_thread().                                        *)
LaunchConnection ==
    /\ main = "launching"
    /\ connection' = TRUE
    /\ conn' = "check"
    /\ main' = "running"
    /\ UNCHANGED <<members, handler, active, scans>>

(* A reset: stop(), then start() again (OusterSensor, whatever asked for it). *)
Stop ==
    /\ main = "running" /\ handler < MaxStarts
    /\ connection' = FALSE
    /\ main' = "stopping"
    /\ UNCHANGED <<members, handler, active, scans, conn>>

(* A stop() that does not wait for the thread.                              *)
MutNoJoin ==
    /\ main = "stopping"
    /\ main' = "creating"
    /\ UNCHANGED <<members, handler, active, scans, connection, conn>>

Join ==
    /\ main = "stopping" /\ conn = "done"
    /\ main' = "creating"
    /\ UNCHANGED <<members, handler, active, scans, connection, conn>>

-----------------------------------------------------------------------------
(* ~OusterDriver and ~OusterSensor.                                         *)
Unload ==
    /\ main = "running"
    /\ main' = "destroying"
    /\ UNCHANGED <<members, handler, active, scans, connection, conn>>

(* Members destroyed in the order of their declaration.                     *)
MutDestroyFirst ==
    /\ main = "destroying" /\ members # << >>
    /\ Last(members) # "lidar_packet_handler"
    /\ members' = Tail(members)
    /\ UNCHANGED <<main, handler, active, scans, connection, conn>>

(* Members are destroyed in the reverse order of their declaration.         *)
DestroyMember ==
    /\ main = "destroying" /\ members # << >>
    /\ Last(members) # "lidar_packet_handler"
    /\ members' = Front(members)
    /\ UNCHANGED <<main, handler, active, scans, connection, conn>>

(* A handler whose destructor does not clear its flag.                      *)
MutKeepActive ==
    /\ main = "destroying" /\ members # << >>
    /\ Last(members) = "lidar_packet_handler"
    /\ main' = "joining_scans"
    /\ UNCHANGED <<members, handler, active, scans, connection, conn>>

(* ~LidarPacketHandler clears its flag and joins its thread.                *)
DestroyHandler ==
    /\ main = "destroying" /\ members # << >>
    /\ Last(members) = "lidar_packet_handler"
    /\ active' = [active EXCEPT ![handler] = FALSE]
    /\ main' = "joining_scans"
    /\ UNCHANGED <<members, handler, scans, connection, conn>>

JoinScans ==
    /\ main = "joining_scans" /\ scans[handler] = "done"
    /\ members' = Front(members)
    /\ main' = "destroying"
    /\ UNCHANGED <<handler, active, scans, connection, conn>>

(* Only then does ~OusterSensor stop and join the connection thread.        *)
DestroySensor ==
    /\ main = "destroying" /\ members = << >>
    /\ connection' = FALSE
    /\ main' = "joining"
    /\ UNCHANGED <<members, handler, active, scans, conn>>

JoinConnection ==
    /\ main = "joining" /\ conn = "done"
    /\ main' = "gone"
    /\ UNCHANGED <<members, handler, active, scans, connection, conn>>

-----------------------------------------------------------------------------
(* The members the virtual call for a packet starts with.  Once             *)
(* ~OusterDriver has finished, it reaches OusterSensor's own                *)
(* on_lidar_packet_msg() or on_imu_packet_msg(), which use none of them.    *)
Handling == IF members = << >> THEN {} ELSE {"telemetry_handler", "imu_packet_handler"}

(* The connection thread: no packet, a lidar packet or an imu packet; or    *)
(* the end, whatever the flag says, when ros::ok() no longer holds.         *)
Poll ==
    /\ conn = "check"
    /\ conn' \in IF connection THEN {"check", "done"} \cup Handling ELSE {"done"}
    /\ UNCHANGED <<main, members, handler, active, scans, connection>>

Use ==
    /\ conn \in ConnUses
    /\ conn' \in AfterUse[conn]
    /\ conn' = "imu_packet_handler" => conn' \in Handling
    /\ UNCHANGED <<main, members, handler, active, scans, connection>>

(* The scan thread of handler h, with or without a scan in its ring.        *)
ScanLoop(h) ==
    /\ scans[h] = "loop"
    /\ \E next \in IF active[h] THEN {"loop", "lidar_pubs"} ELSE {"done"} :
         scans' = [scans EXCEPT ![h] = next]
    /\ UNCHANGED <<main, members, handler, active, connection, conn>>

Publish(h) ==
    /\ scans[h] \in Publishes
    /\ scans' = [scans EXCEPT ![h] = AfterPublish[scans[h]]]
    /\ UNCHANGED <<main, members, handler, active, connection, conn>>

-----------------------------------------------------------------------------
MainThread ==
    \/ CreateHandler \/ ReplaceHandler \/ JoinReplaced \/ LaunchConnection \/ Join
    \/ DestroyMember \/ DestroyHandler \/ JoinScans \/ DestroySensor \/ JoinConnection

ConnectionThread == Poll \/ Use

ScanThread(h) == ScanLoop(h) \/ Publish(h)

Next ==
    \/ MainThread \/ Stop \/ Unload
    \/ ConnectionThread
    \/ \E h \in Handlers : ScanThread(h)

(* Every thread that can go on is scheduled; poll_client() and the scan     *)
(* thread's wait both time out.  Nothing forces a reset or an unload.       *)
Fairness ==
    /\ WF_vars(MainThread)
    /\ WF_vars(ConnectionThread)
    /\ \A h \in Handlers : WF_vars(ScanThread(h))

Spec == Init /\ [][Next]_vars

FairSpec == Spec /\ Fairness

-----------------------------------------------------------------------------
(* A scan thread, also one whose handler is being replaced, only publishes  *)
(* through publishers that are still there: it is joined, by the handler's  *)
(* destructor, before they are destroyed.                                   *)
PublishersOutliveScans ==
    \A h \in Handlers : scans[h] \in Publishes => scans[h] \in Alive

(* Handlers are built, replaced and launched while no connection thread     *)
(* calls them; only the destructor breaks this.                             *)
ReplacedAtRest ==
    main \in {"creating", "replacing", "draining", "launching"}
        => conn \in {"none", "done"}

(* Once the driver is set to unload, the destructors return.                *)
UnloadReturns == main = "destroying" ~> main = "gone"

(* "gracefully stop the driver when shutdown is requested"                  *)
(* (CHANGELOG.rst:132): the connection thread never uses a member that the  *)
(* destructor has destroyed.                                                *)
GracefulStop == conn \in ConnUses => conn \in Alive
=============================================================================
