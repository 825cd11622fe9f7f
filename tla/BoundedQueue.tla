---------------------------- MODULE BoundedQueue ----------------------------
(***************************************************************************)
(* What a thread-safe ring buffer promises its two threads: write(n) and    *)
(* read(n) take effect at one instant, succeed only when the elements fit   *)
(* (or exist), and answer false only when they do not.  Elements carry no   *)
(* data here: the buffer hands out slot numbers.                            *)
(***************************************************************************)
EXTENDS Integers

CONSTANTS Bound, Counts    \* usable elements; the counts callers pass

VARIABLES
    used,        \* elements currently held
    writeReply,  \* the last answer of write(): "none", "true" or "false"
    readReply    \* the last answer of read()

Init ==
    /\ used = 0
    /\ writeReply = "none"
    /\ readReply = "none"

Put(n) ==
    /\ used + n <= Bound
    /\ used' = used + n
    /\ writeReply' = "true"
    /\ UNCHANGED readReply

PutRefused(n) ==
    /\ used + n > Bound
    /\ writeReply' = "false"
    /\ UNCHANGED <<used, readReply>>

Take(n) ==
    /\ n <= used
    /\ used' = used - n
    /\ readReply' = "true"
    /\ UNCHANGED writeReply

TakeRefused(n) ==
    /\ n > used
    /\ readReply' = "false"
    /\ UNCHANGED <<used, writeReply>>

Next ==
    \E n \in Counts : Put(n) \/ PutRefused(n) \/ Take(n) \/ TakeRefused(n)

Spec == Init /\ [][Next]_<<used, writeReply, readReply>>
=============================================================================
