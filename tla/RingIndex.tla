----------------------------- MODULE RingIndex -----------------------------
(***************************************************************************)
(* The index arithmetic of LockFreeRingBuffer (src/lock_free_ring_buffer.h) *)
(* as pure operators: what size(), available(), full() and empty() compute  *)
(* from the index values they load.  The buffer keeps two atomics; every    *)
(* function below is applied to VALUES that were loaded, possibly at        *)
(* different instants, so the callers decide when each load happens.        *)
(***************************************************************************)
EXTENDS Integers

CONSTANTS
    Capacity,     \* capacity_: number of slots, of which Capacity-1 are usable
    SizeModulus   \* 2^w for the width w of size_t

(* The constructor accepts any capacity; 0 divides by zero and 1 can hold   *)
(* nothing, so a usable buffer has at least two slots.  size_t is far wider *)
(* than any sum of two indices.                                             *)
ASSUME RingAssumption ==
    /\ Capacity \in Nat /\ Capacity >= 2
    /\ SizeModulus \in Nat /\ SizeModulus > 2 * Capacity

Index == 0 .. Capacity - 1
SizeT == 0 .. SizeModulus - 1

-----------------------------------------------------------------------------
(* An index that never wraps.                                               *)
MutNoWrap(i, n) == i + n

(* (idx + count) % capacity_, the store of write() and of read().           *)
Advance(i, n) == (i + n) % Capacity

(* size(): `ge` is the outcome of the comparison write_idx_ >= read_idx_,   *)
(* and w, r are the values loaded AFTERWARDS by the branch it selects.      *)
SizeOf(ge, w, r) ==
    IF ge THEN (w - r) % SizeModulus ELSE (w + Capacity - r) % SizeModulus

(* available(): an unsigned subtraction.                                    *)
AvailableOf(size) == (Capacity - 1 - size) % SizeModulus

IsEmpty(w, r) == r = w

IsFull(w, r) == r = Advance(w, 1)

(* The number of elements between the two indices when both are read at one *)
(* instant: what size() means.                                              *)
Occupancy(w, r) == IF w >= r THEN w - r ELSE w + Capacity - r
=============================================================================
