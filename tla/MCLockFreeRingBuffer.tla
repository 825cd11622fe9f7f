----------------------- MODULE MCLockFreeRingBuffer -----------------------
(* TLC instances of LockFreeRingBuffer; every value comes from the cfgs.    *)
EXTENDS LockFreeRingBuffer
=============================================================================
