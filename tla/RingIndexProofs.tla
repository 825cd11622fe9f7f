-------------------------- MODULE RingIndexProofs --------------------------
(***************************************************************************)
(* Lemmas about the index arithmetic of the ring buffer, for every capacity *)
(* and every width of size_t.                                               *)
(***************************************************************************)
EXTENDS RingIndex, TLAPS

-----------------------------------------------------------------------------
(* Remainders of values that leave 0..m-1 by less than one period: all the  *)
(* code's additions and unsigned subtractions are of this kind.             *)
LEMMA ModBelow ==
    ASSUME NEW m \in Nat \ {0}, NEW x \in 0 .. m - 1
    PROVE  x % m = x
  OBVIOUS

LEMMA ModAbove ==
    ASSUME NEW m \in Nat \ {0}, NEW x \in m .. 2 * m - 1
    PROVE  x % m = x - m
  OBVIOUS

LEMMA ModNegative ==
    ASSUME NEW m \in Nat \ {0}, NEW x \in -m .. -1
    PROVE  x % m = x + m
  OBVIOUS

(* Storing an advanced index wraps it at most once and keeps it an index.   *)
LEMMA AdvanceIndex ==
    ASSUME NEW i \in Index, NEW n \in 1 .. Capacity - 1
    PROVE  /\ Advance(i, n) \in Index
           /\ Advance(i, n) = IF i + n < Capacity THEN i + n ELSE i + n - Capacity
<1> USE RingAssumption DEF Index
<1>1. CASE i + n < Capacity
  BY <1>1, ModBelow DEF Advance
<1>2. CASE i + n >= Capacity
  BY <1>2, ModAbove DEF Advance
<1> QED BY <1>1, <1>2

(* size() is exact when the comparison still holds at the second loads, and *)
(* off by Capacity (above) or by an unsigned underflow when it does not.    *)
LEMMA SizeValue ==
    ASSUME NEW w \in Index, NEW r \in Index
    PROVE  /\ SizeOf(TRUE, w, r)
                = IF w >= r THEN w - r ELSE w - r + SizeModulus
           /\ SizeOf(FALSE, w, r) = w + Capacity - r
<1> USE RingAssumption DEF Index, SizeOf
<1>1. (w + Capacity - r) % SizeModulus = w + Capacity - r
  BY ModBelow
<1>2. w >= r => (w - r) % SizeModulus = w - r
  BY ModBelow
<1>3. w < r => (w - r) % SizeModulus = w - r + SizeModulus
  BY ModNegative
<1> QED BY <1>1, <1>2, <1>3

(* available() counts the free slots while size() is at most Capacity - 1,  *)
(* and is enormous when size() overshoots.                                  *)
LEMMA AvailableValue ==
    ASSUME NEW s \in 0 .. 2 * Capacity
    PROVE  AvailableOf(s) = IF s <= Capacity - 1 THEN Capacity - 1 - s
                            ELSE Capacity - 1 - s + SizeModulus
<1> USE RingAssumption DEF AvailableOf
<1>1. s <= Capacity - 1 => AvailableOf(s) = Capacity - 1 - s
  BY ModBelow
<1>2. s > Capacity - 1 => AvailableOf(s) = Capacity - 1 - s + SizeModulus
  BY ModNegative
<1> QED BY <1>1, <1>2
=============================================================================
