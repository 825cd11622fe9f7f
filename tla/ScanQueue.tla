----------------------------- MODULE ScanQueue -----------------------------
(***************************************************************************)
(* What LidarPacketHandler promises about the scans it has completed: they  *)
(* wait in a bounded first-in first-out queue, the oldest is handed to the  *)
(* processors exactly once, and it leaves afterwards, alone or (throttling) *)
(* with the one behind it.                                                  *)
(***************************************************************************)
EXTENDS Naturals, Sequences

CONSTANTS Bound, Frames

VARIABLES
    queue,    \* the completed scans waiting, oldest first, by frame number
    handled   \* [frame, times]: the last scan the processors have seen

Init ==
    /\ queue = << >>
    /\ handled = [frame |-> 0, times |-> 0]

Put(f) ==
    /\ Len(queue) < Bound
    /\ \A i \in 1 .. Len(queue) : queue[i] < f
    /\ queue' = Append(queue, f)
    /\ UNCHANGED handled

Deliver ==
    /\ queue # << >>
    /\ Head(queue) > handled.frame
    /\ handled' = [frame |-> Head(queue), times |-> 1]
    /\ UNCHANGED queue

Leave(k) ==
    /\ k <= Len(queue)
    /\ handled.frame = Head(queue)
    /\ queue' = SubSeq(queue, k + 1, Len(queue))
    /\ UNCHANGED handled

Next == (\E f \in Frames : Put(f)) \/ Deliver \/ Leave(1) \/ Leave(2)

Spec == Init /\ [][Next]_<<queue, handled>>
=============================================================================
