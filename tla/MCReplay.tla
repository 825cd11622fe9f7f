------------------------------- MODULE MCReplay ------------------------------
EXTENDS Replay

\* A packet of another port, an imu packet whose first measurement is missing and two
\* packets that complete scans.
MCFile ==
    << [kind |-> "other"],
       [kind |-> "imu", timestamp |-> <<0, 9>>, status |-> <<0, 1>>],
       [kind |-> "lidar", stamp |-> 2],
       [kind |-> "lidar", stamp |-> 3] >>
=============================================================================
