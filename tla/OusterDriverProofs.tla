------------------------- MODULE OusterDriverProofs -------------------------
(* That no handler is replaced under the connection thread, and that the    *)
(* publishers outlive the scan threads, for any number of restarts.         *)
EXTENDS OusterDriver, SequenceTheorems, TLAPS

Remaining(n) == SubSeq(Declared, 1, n)

HandlerIndex == 7   \* of lidar_packet_handler; the publishers of scans precede it

LEMMA DeclaredSequence ==
  /\ Len(Declared) = 10 /\ Declared \in Seq(ToSet(Declared))
  /\ Declared[2] = "lidar_pubs" /\ Declared[3] = "scan_pubs"
  /\ Declared[4] = "image_pubs"
<1>1. Len(Declared) = 10
  BY DEF Declared
<1>2. /\ Declared[2] = "lidar_pubs" /\ Declared[3] = "scan_pubs"
      /\ Declared[4] = "image_pubs"
  BY DEF Declared
<1>3. DOMAIN Declared = 1 .. 10 /\ Declared = [i \in 1 .. 10 |-> Declared[i]]
  BY DEF Declared
<1>4. Declared \in Seq(ToSet(Declared))
  BY <1>1, <1>3 DEF ToSet
<1>5. QED
  BY <1>1, <1>2, <1>4

(* The sequences of members that the destructors go through.                *)
LEMMA RemainingMembers ==
  ASSUME NEW n \in 1 .. 10
  PROVE  /\ Remaining(n) # << >>
         /\ Last(Remaining(n)) = Declared[n]
         /\ Front(Remaining(n)) = Remaining(n - 1)
<1> USE DEF Remaining
<1>1. Len(Declared) = 10 /\ Declared \in Seq(ToSet(Declared))
  BY DeclaredSequence
<1> DEFINE Names == ToSet(Declared)
<1> HIDE DEF Names
<1>2. /\ Remaining(n) \in Seq(Names) /\ Len(Remaining(n)) = n
      /\ \A i \in 1 .. n : Remaining(n)[i] = Declared[i]
  <2>1. \A i \in 1 .. n : Declared[i] \in Names
    <3>1. Declared \in Seq(Names) /\ 1 .. n \subseteq 1 .. 10
      BY <1>1 DEF Names
    <3>2. \A i \in 1 .. 10 : Declared[i] \in Names
      BY <1>1, <3>1, ElementOfSeq, Zenon
    <3>3. QED
      BY <3>1, <3>2
  <2>2. QED
    BY <2>1, SubSeqProperties
<1>3. Last(Remaining(n)) = Declared[n]
  BY <1>2 DEF Last
<1>4. Front(Remaining(n)) = Remaining(n - 1)
  <2>1. Front(Remaining(n)) = SubSeq(Remaining(n), 1, n - 1)
    BY <1>2 DEF Front
  <2>2. QED
    BY <1>1, <1>2, <2>1
<1>5. Remaining(n) # << >>
  <2>1. Len(<< >>) = 0
    OBVIOUS
  <2>2. Len(Remaining(n)) # 0
    BY <1>2
  <2>3. QED
    BY <2>1, <2>2, Zenon
<1>6. QED
  BY <1>3, <1>4, <1>5

LEMMA HandlerPlace ==
  \A n \in 1 .. 10 : (Declared[n] = "lidar_packet_handler") = (n = HandlerIndex)
  BY DEF Declared, HandlerIndex

LEMMA PublishersRemain ==
  ASSUME NEW n \in HandlerIndex .. 10
  PROVE  Publishes \subseteq ToSet(Remaining(n))
<1>1. /\ Len(Declared) = 10 /\ Declared \in Seq(ToSet(Declared))
      /\ Declared[2] = "lidar_pubs" /\ Declared[3] = "scan_pubs"
      /\ Declared[4] = "image_pubs"
  BY DeclaredSequence
<1>2. /\ Len(Remaining(n)) = n
      /\ Remaining(n)[2] = "lidar_pubs" /\ Remaining(n)[3] = "scan_pubs"
      /\ Remaining(n)[4] = "image_pubs"
  BY <1>1 DEF Remaining, HandlerIndex
<1>3. Publishes = {"lidar_pubs", "scan_pubs", "image_pubs"}
  BY DEF Publishes, AfterPublish
<1>4. 2 \in 1 .. n /\ 3 \in 1 .. n /\ 4 \in 1 .. n
  BY DEF HandlerIndex
<1>5. QED
  BY <1>2, <1>3, <1>4 DEF ToSet

-----------------------------------------------------------------------------
(* The inductive invariant, in parts.                                       *)

Building == {"creating", "replacing", "draining", "launching"}

(* Members go in the reverse order of their declaration, the handler only   *)
(* once its thread has been joined.                                         *)
MembersInv ==
    \E n \in 0 .. 10 :
      /\ members = Remaining(n)
      /\ main \in Building \cup {"running", "stopping"} => n = 10
      /\ main = "joining_scans" => n = HandlerIndex
      /\ n < HandlerIndex => \A h \in Handlers : scans[h] \in {"none", "done"}

(* Of the handlers that were, only the last, or the one that is being       *)
(* replaced, has a thread.                                                  *)
ThreadsInv ==
    /\ \A h \in Handlers :
         /\ h > handler + 1 \/ (h > handler /\ main # "replacing") => scans[h] = "none"
         /\ h < handler - 1 \/ (h < handler /\ main # "draining") => scans[h] = "done"
    /\ main \in {"creating", "replacing", "stopping"} => handler < MaxStarts
    /\ main \notin {"creating", "replacing"} => handler > 0

ScansType ==
    /\ main \in Building \cup {"running", "stopping", "destroying", "joining_scans",
                               "destroyed", "joining", "gone"}
    /\ handler \in 0 .. MaxStarts
    /\ scans \in [Handlers -> {"none", "loop", "done"} \cup Publishes]

DriverInv == ScansType /\ MembersInv /\ ThreadsInv /\ ReplacedAtRest

LEMMA InitDriverInv == Init => DriverInv
<1> SUFFICES ASSUME Init PROVE DriverInv
  OBVIOUS
<1>1. ScansType /\ ThreadsInv /\ ReplacedAtRest
  BY DriverAssumption DEF Init, ScansType, ThreadsInv, ReplacedAtRest, Building, Handlers
<1>2. members = Remaining(10)
  BY DEF Init, Remaining, Declared
<1>3. MembersInv
  BY <1>2 DEF Init, MembersInv, HandlerIndex
<1>4. QED
  BY <1>1, <1>3 DEF DriverInv

(* Building, launching and stopping: no member is destroyed.                *)
LEMMA BuildStep ==
  ASSUME DriverInv,
         \/ CreateHandler \/ ReplaceHandler \/ JoinReplaced \/ LaunchConnection
         \/ Stop \/ Join \/ Unload
  PROVE  DriverInv'
<1> USE DriverAssumption
    DEF DriverInv, ScansType, ThreadsInv, ReplacedAtRest, Building, Handlers
<1>1. ScansType' /\ ThreadsInv' /\ ReplacedAtRest'
  <2>1. CASE CreateHandler
    BY <2>1 DEF CreateHandler
  <2>2. CASE ReplaceHandler
    BY <2>2 DEF ReplaceHandler
  <2>3. CASE JoinReplaced
    BY <2>3 DEF JoinReplaced
  <2>4. CASE LaunchConnection \/ Stop \/ Join \/ Unload
    BY <2>4 DEF LaunchConnection, Stop, Join, Unload
  <2>5. QED
    BY <2>1, <2>2, <2>3, <2>4
<1>2. members' = members /\ members = Remaining(10)
  BY DEF MembersInv, CreateHandler, ReplaceHandler, JoinReplaced, LaunchConnection, Stop,
     Join, Unload
<1>3. main' # "joining_scans"
  BY DEF CreateHandler, ReplaceHandler, JoinReplaced, LaunchConnection, Stop, Join, Unload
<1>4. MembersInv'
  BY <1>2, <1>3 DEF MembersInv, HandlerIndex
<1>5. QED
  BY <1>1, <1>4

(* The destructors.                                                         *)
LEMMA DestroyStep ==
  ASSUME DriverInv,
         \/ DestroyMember \/ DestroyHandler \/ JoinScans \/ DestroySensor
         \/ JoinConnection
  PROVE  DriverInv'
<1> USE DriverAssumption
    DEF DriverInv, ScansType, ThreadsInv, ReplacedAtRest, Building, Handlers
<1>1. ScansType' /\ ThreadsInv' /\ ReplacedAtRest'
  BY DEF DestroyMember, DestroyHandler, JoinScans, DestroySensor, JoinConnection
<1>2. PICK n \in 0 .. 10 :
        /\ members = Remaining(n)
        /\ main = "joining_scans" => n = HandlerIndex
        /\ n < HandlerIndex => \A h \in Handlers : scans[h] \in {"none", "done"}
  BY DEF MembersInv
<1>3. Remaining(0) = << >>
  BY DEF Remaining, Declared
<1>4. MembersInv'
  <2>1. CASE DestroyMember
    <3>1. n \in 1 .. 10 /\ Declared[n] # "lidar_packet_handler"
      BY <1>2, <1>3, <2>1, RemainingMembers DEF DestroyMember
    <3>2. n # HandlerIndex
      BY <3>1, HandlerPlace
    <3>3. members' = Remaining(n - 1)
      BY <1>2, <2>1, <3>1, RemainingMembers DEF DestroyMember
    <3>4. n - 1 \in 0 .. 10 /\ (n - 1 < HandlerIndex => n < HandlerIndex)
      BY <3>1, <3>2 DEF HandlerIndex
    <3>5. QED
      BY <1>2, <2>1, <3>3, <3>4 DEF MembersInv, DestroyMember
  <2>2. CASE DestroyHandler
    <3>1. n \in 1 .. 10 /\ Declared[n] = "lidar_packet_handler"
      BY <1>2, <1>3, <2>2, RemainingMembers DEF DestroyHandler
    <3>2. n = HandlerIndex
      BY <3>1, HandlerPlace
    <3>3. QED
      BY <1>2, <2>2, <3>2 DEF MembersInv, DestroyHandler
  <2>3. CASE JoinScans
    <3>1. n = HandlerIndex /\ n \in 1 .. 10
      BY <1>2, <2>3 DEF JoinScans, HandlerIndex
    <3>2. members' = Remaining(n - 1)
      BY <1>2, <2>3, <3>1, RemainingMembers DEF JoinScans
    <3>3. \A h \in Handlers : scans'[h] \in {"none", "done"}
      BY <2>3 DEF JoinScans
    <3>4. n - 1 \in 0 .. 10
      BY <3>1
    <3>5. QED
      BY <2>3, <3>2, <3>3, <3>4 DEF MembersInv, JoinScans
  <2>4. CASE DestroySensor \/ JoinConnection
    BY <1>2, <2>4 DEF MembersInv, DestroySensor, JoinConnection
  <2>5. QED
    BY <2>1, <2>2, <2>3, <2>4
<1>5. QED
  BY <1>1, <1>4

(* The connection thread and the scan threads.                              *)
LEMMA ThreadsStep ==
  ASSUME DriverInv,
         ConnectionThread \/ (\E h \in Handlers : ScanThread(h)) \/ UNCHANGED vars
  PROVE  DriverInv'
<1>1. CASE ConnectionThread \/ UNCHANGED vars
  <2>1. ReplacedAtRest'
    BY <1>1 DEF DriverInv, ReplacedAtRest, ConnectionThread, Poll, Use, Handling, ConnUses, AfterUse,
       vars
  <2>2. UNCHANGED <<main, members, handler, scans>>
    BY <1>1 DEF ConnectionThread, Poll, Use, vars
  <2>3. QED
    BY <2>1, <2>2
    DEF DriverInv, ScansType, MembersInv, ThreadsInv, Remaining, Declared
<1>2. ASSUME NEW h \in Handlers, ScanThread(h)
      PROVE  DriverInv'
  <2>1. UNCHANGED <<main, members, handler, conn>>
    BY <1>2 DEF ScanThread, ScanLoop, Publish
  <2>2. /\ scans[h] \notin {"none", "done"}
        /\ \E s \in {"loop", "done"} \cup Publishes : scans' = [scans EXCEPT ![h] = s]
    BY <1>2 DEF ScanThread, ScanLoop, Publish, Publishes, AfterPublish
  <2>3. ScansType' /\ ThreadsInv' /\ ReplacedAtRest'
    BY <2>1, <2>2 DEF DriverInv, ScansType, ThreadsInv, ReplacedAtRest, Handlers
  <2>4. MembersInv'
    BY <2>1, <2>2 DEF DriverInv, ScansType, MembersInv
  <2>5. QED
    BY <2>3, <2>4 DEF DriverInv
<1>3. QED
  BY <1>1, <1>2

LEMMA DriverInvariant == Spec => []DriverInv
<1>1. DriverInv /\ [Next]_vars => DriverInv'
  BY BuildStep, DestroyStep, ThreadsStep DEF Next, MainThread
<1>2. QED
  BY <1>1, InitDriverInv, PTL DEF Spec

(* The rest of the types: what the other two threads are at, and the flags.  *)
FlagsInv ==
    /\ active \in [Handlers -> BOOLEAN] /\ connection \in BOOLEAN
    /\ conn \in {"none", "check", "done"} \cup ConnUses

LEMMA FlagsStep == ASSUME FlagsInv, [Next]_vars PROVE FlagsInv'
<1> USE DEF FlagsInv
<1>1. CASE MainThread \/ Stop \/ Unload
  BY <1>1
  DEF MainThread, CreateHandler, ReplaceHandler, JoinReplaced, LaunchConnection, Join,
      DestroyMember, DestroyHandler, JoinScans, DestroySensor, JoinConnection, Stop, Unload
<1>2. CASE ConnectionThread
  BY <1>2 DEF ConnectionThread, Poll, Use, Handling, ConnUses, AfterUse
<1>3. CASE \E h \in Handlers : ScanThread(h)
  BY <1>3 DEF ScanThread, ScanLoop, Publish
<1>4. CASE UNCHANGED vars
  BY <1>4 DEF vars
<1>5. QED
  BY <1>1, <1>2, <1>3, <1>4 DEF Next

(* Every variable keeps its type; the members that remain are always the    *)
(* first few that were declared.                                            *)
THEOREM DriverTypeCorrect == Spec => []TypeOK
<1>1. Init => FlagsInv
  BY DEF Init, FlagsInv
<1>2. FlagsInv /\ [Next]_vars => FlagsInv'
  BY FlagsStep
<1>3. DriverInv /\ FlagsInv => TypeOK
  BY DeclaredSequence
  DEF DriverInv, ScansType, MembersInv, FlagsInv, TypeOK, Remaining, Building
<1>4. QED
  BY <1>1, <1>2, <1>3, DriverInvariant, PTL DEF Spec

(* Handlers are built, replaced and launched only while there is no         *)
(* connection thread to call them.                                          *)
THEOREM HandlersReplacedAtRest == Spec => []ReplacedAtRest
<1>1. DriverInv => ReplacedAtRest
  BY DEF DriverInv
<1>2. QED
  BY <1>1, DriverInvariant, PTL

(* No scan thread uses a publisher after its destruction, however often the *)
(* handler was replaced: the order of declaration and two joins see to it.  *)
THEOREM ScansWithinPublishers == Spec => []PublishersOutliveScans
<1>1. DriverInv => PublishersOutliveScans
  <2> SUFFICES ASSUME DriverInv, NEW h \in Handlers, scans[h] \in Publishes
               PROVE  scans[h] \in Alive
    BY DEF PublishersOutliveScans
  <2>1. PICK n \in 0 .. 10 :
          /\ members = Remaining(n)
          /\ n < HandlerIndex => scans[h] \in {"none", "done"}
    BY DEF DriverInv, MembersInv
  <2>2. n \in HandlerIndex .. 10
    BY <2>1 DEF Publishes, AfterPublish, HandlerIndex
  <2>3. QED
    BY <2>1, <2>2, PublishersRemain DEF Alive
<1>2. QED
  BY <1>1, DriverInvariant, PTL
=============================================================================
