-------------------------- MODULE MCScanTimestamp --------------------------
(* TLC instances of ScanTimestamp.  The first column of an epoch that began *)
(* at 2 lies before the offset, the others after it.                        *)
EXTENDS ScanTimestamp

MCOffset == -3
=============================================================================
