----------------------------- MODULE OusterPcap -----------------------------
(***************************************************************************)
(* OusterPcap (src/os_pcap_nodelet.cpp): a thread of its own reads a pcap   *)
(* file and publishes its packets, once or in a loop, and then shuts ROS    *)
(* down; the destructor stops and joins it.  The pace of the packets and    *)
(* the progress it prints are left out.                                     *)
(***************************************************************************)
EXTENDS Integers, Sequences

CONSTANTS
    File,       \* the packets of the file: records with a kind
    MaxPasses   \* bound: how often it is read in a loop

\* What a packet holds of its measurements: no valid one is before a valid first.
ImuMeasurements(timestamp, status) ==
    /\ timestamp \in Seq(Nat) /\ status \in Seq({0, 1})
    /\ Len(timestamp) > 0 /\ Len(status) = Len(timestamp)
    /\ status[1] = 1 =>
         \A i \in 1 .. Len(status) : status[i] = 1 => timestamp[i] >= timestamp[1]

ASSUME PcapAssumption ==
    /\ MaxPasses \in Nat \ {0}
    /\ Len(File) \in Nat /\ DOMAIN File = 1 .. Len(File)
    /\ \A i \in DOMAIN File :
         LET packet == File[i]
         IN  /\ packet.kind \in {"lidar", "imu", "other"}
             /\ packet.kind = "lidar" => packet.stamp \in Nat
             /\ packet.kind = "imu" => ImuMeasurements(packet.timestamp, packet.status)

VARIABLES
    loop,               \* the parameter
    reader,             \* the packet_read_thread
    position,           \* the packet next_packet() has read
    passes,
    serial,             \* history: packets published
    packet_read_active,
    node,               \* the nodelet
    ok                  \* ros::ok()

readVars == <<reader, position, passes, serial>>
pcapVars == <<loop, readVars, packet_read_active, node, ok>>

PcapTypeOK ==
    /\ loop \in BOOLEAN
    /\ reader \in {"test", "publish", "reset", "done"}
    /\ position \in 1 .. Len(File) + 1
    /\ passes \in 1 .. MaxPasses
    /\ serial \in 0 .. MaxPasses * Len(File)
    /\ packet_read_active \in BOOLEAN
    /\ node \in {"up", "joining", "gone"}
    /\ ok \in BOOLEAN

\* onInit, which found its files: the thread is running.
PcapInit ==
    /\ loop \in BOOLEAN
    /\ reader = "test" /\ position = 1 /\ passes = 1 /\ serial = 0
    /\ packet_read_active = TRUE
    /\ node = "up" /\ ok = TRUE

-----------------------------------------------------------------------------
\* The condition of read_packets' loop.
NextPacket ==
    /\ reader = "test"
    /\ reader' = IF ok /\ packet_read_active /\ position <= Len(File) THEN "publish"
                 ELSE "reset"
    /\ UNCHANGED <<loop, position, passes, serial, packet_read_active, node, ok>>

\* Its body, for a packet of a kind: whatever has become of the condition, the packet
\* is published.
ReadPacket(kind) ==
    /\ reader = "publish" /\ File[position].kind = kind
    /\ position' = position + 1 /\ serial' = serial + 1
    /\ reader' = "test"
    /\ UNCHANGED <<loop, passes, packet_read_active, node, ok>>

\* The file is read again from its start (the last pass allowed is followed by others
\* without their packets), or the thread shuts ROS down and ends.
EndPass(again) ==
    /\ reader = "reset"
    /\ \/ /\ again /\ passes < MaxPasses
          /\ reader' = "test" /\ position' = 1 /\ passes' = passes + 1
          /\ UNCHANGED ok
       \/ /\ ~again
          /\ reader' = "done" /\ ok' = FALSE
          /\ UNCHANGED <<position, passes>>
    /\ UNCHANGED <<loop, serial, packet_read_active, node>>

MutLoopsOn == EndPass(ok /\ loop)    \* mutated: the flag is not looked at between passes

Reset == EndPass(ok /\ packet_read_active /\ loop)

-----------------------------------------------------------------------------
(* The end of the program from outside, and the end of the nodelet.         *)
Interrupt ==
    /\ ok
    /\ ok' = FALSE
    /\ UNCHANGED <<loop, readVars, packet_read_active, node>>

Unload ==
    /\ node = "up"
    /\ packet_read_active' = FALSE
    /\ node' = "joining"
    /\ UNCHANGED <<loop, readVars, ok>>

JoinReader ==
    /\ node = "joining" /\ reader = "done"
    /\ node' = "gone"
    /\ UNCHANGED <<loop, readVars, packet_read_active, ok>>
=============================================================================
