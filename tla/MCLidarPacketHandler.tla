----------------------- MODULE MCLidarPacketHandler -----------------------
(* TLC instances of LidarPacketHandler; every value comes from the cfgs.    *)
EXTENDS LidarPacketHandler
=============================================================================
