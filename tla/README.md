# Verification of the Ouster ROS driver

TLA+ models of `ouster-ros` (the ROS 1 driver for Ouster lidars), the TLC configurations that check them on small instances, and theorems
about them that TLAPS proves for every value of the constants. Paths below are
relative to the repository's root.

The driver is a set of nodelets. Half of its own logic is concurrent: threads that
hand packets and scans to each other through a lock-free ring, a connection that is
stopped and restarted by services, by timers and by itself, and objects that are
replaced and destroyed while threads use them. The other half turns a scan into
messages: pixel arithmetic, and tables that say which channel of which profile fills
which field of which point type. Both are modelled. Decoding packets (the SDK's
work) and arithmetic in floating point are not.

## 1. Inventory

| Component | State | Operations | Threads | What is hard |
|---|---|---|---|---|
| `LockFreeRingBuffer` (`src/lock_free_ring_buffer.h`) | `read_idx_`, `write_idx_` | `write(n)`, `read(n)`, `size`, `available`, `empty`, `full` | one writer, one reader, no lock | `size()` loads the other thread's index twice; unsigned subtraction |
| `LidarPacketHandler` (`src/lidar_packet_handler.h`) | the ring, ten scans and their mutexes, two stamps shared by all scans, the batcher | accumulate a packet, process a scan, destroy | packet thread, scan thread | lost notifications, unsynchronised stamps, throttling, ignored answers, a destructor that joins |
| Scan timestamps (same file) | last column of the last scan | `compute_scan_ts_0`, `compute_scan_ts_n` | packet thread | lost columns and frames, clock steps, the PTP offset |
| `OusterSensor` (`src/os_sensor_nodelet.cpp`) | client, connection flag and thread, one reconnect timer, attempts, staged configuration, init id, error counters | `start`, `stop`, `attempt_start`, `schedule_stop`, services `reset`, `set_config`, `connection_loop` | callback queue, connection thread | resets asked for by both threads; every SDK call can fail; partial failure of `start` |
| `OusterDriver` (`src/os_driver_nodelet.cpp`) | publishers, handlers | create and replace handlers, route packets, unload | all three | destruction and replacement under running threads |
| `OusterCloud`, `OusterImage` | handlers, `last_msg_ts` | metadata and packet callbacks | callback queue, scan threads | shared `last_msg_ts`, packets before metadata, a handler replaced while its thread publishes |
| `OusterPcap`, `OusterReplay` | the file, a reader thread | read and publish, loop, unload | reader thread | unload, interrupt and end of the file during a replay |
| Processors (`point_cloud_*`, `laser_scan_processor.h`, `image_processor.h`) | buffers kept from scan to scan and from return to return | scan to cloud, ring, images | scan thread | indices under destaggering, vertical reduction, masks; what a buffer still holds |
| Point types (`sensor_point_types.h`, `point_transform.h`, the factory) | ten tables, nine point types | copy by position, transform by name | scan thread | tables and structs that must agree, written apart |
| IMU and telemetry handlers | none | conversions of one packet | connection thread or callback queue | measurements that are not valid |
| Transforms, messages, launch files | constant | | | nothing |

Interactions: `OusterSensor::connection_loop` reads packets and calls the virtual
`on_lidar_packet_msg`; `OusterDriver` overrides it and calls the packet handler on
that same thread; the handler batches the packet into the slot at the write head
of its ring and, when the scan is complete, advances the ring and notifies its scan
thread; that thread calls the processors, which publish. `start()` builds the
handlers (through `update_metadata` and `on_metadata_updated`) before it starts the
connection thread, and `stop()` joins that thread. Everything else (services,
timers) runs on the nodelet's single callback queue.

What makes each part correct:

- ring: the indices never overtake each other, answers are true;
- handler: the two threads never meet in a slot, completed scans leave in order,
  once, and always leave; the stamp given with a scan is its stamp;
- timestamps: the time of column 0 whichever columns are lost;
- sensor: a `start()` runs alone, no attempt is lost and none is added, the
  requested configuration is reached, a lost connection is always answered;
- driver: nothing is used after its destruction;
- cloud node and replay: messages leave in the order of their packets whatever is
  replaced, the time of the transforms follows them, every thread ends when told;
- processors: what is published is the scan, every measurement at its place and
  under its name, and nothing of an earlier scan.

The hazards, each at its line, are listed in `PROJECT.json` with the properties that
cover them.

## 2. Modules

| Module | Models | Notes |
|---|---|---|
| `RingIndex` | the arithmetic of the ring | pure operators on index values; `size_t` is `SizeModulus` wide |
| `LockFreeRingBuffer` | the ring between two threads | one step per atomic access that matters |
| `BoundedQueue` | what the ring promises | abstract specification |
| `LidarPacketHandler` | both threads of the handler | extends `RingIndex`; the ring's operations appear inlined, at the granularity of their loads |
| `ScanQueue` | what the handler promises about scans | abstract specification |
| `ScanTimestamp` | the estimation of a scan's timestamp | one step per completed scan |
| `OusterSensor` | the connection lifecycle | callback queue, connection thread, external sensor |
| `OusterDriver` | lifetimes of handlers, publishers, threads | composes the thread of `OusterSensor` with those of handlers, each reduced to what it uses |
| `OusterPcap` | the reader thread and the nodelet's end | one step per test of a flag |
| `OusterCloud` | the callback queue of a cloud node, its handlers' scan threads, `last_msg_ts` | a handler is reduced to its ring of completed scans |
| `Replay` | `OusterPcap` publishing to `OusterCloud` | composes the two over their topics |
| `PixelMap` | the index arithmetic of clouds, images and laser scans | pure operators; `size_t` is `SizeModulus` wide |
| `Ranks` | loops that keep some of the indices they visit | pure operators; used by `OusterCloud` and `ScanProcessors` |
| `PointTypes` | the profiles' tables, the point types, `point::transform` | pure operators on functions of field names |
| `ScanProcessors` | the three processors and the handlers they are built by | extends the last two; one step per processor and return |
| `RingIndexProofs`, `LockFreeRingBufferProofs`, `LidarPacketHandlerProofs`, `ScanTimestampProofs`, `OusterSensorProofs`, `OusterDriverProofs`, `ReplayProofs`, `ScanProcessorsProofs` | | lemmas and theorems |
| `MC*` | | what TLC instantiates |

Operators named `Mut...` are deliberate errors, each a plausible bug in the code
next to it: replacing the definition by the mutant must break the property
`PROJECT.json` names for it. They are used nowhere else.

### How state and actions correspond to the code

*Atomicity.* A step contains at most one access to something another thread can
change: a load of the other thread's index, a store of one's own, a mutex, the
condition variable, one of the two stamps. Loads of an index only this thread
stores need no step. `size()` is two steps: the comparison, whose outcome is kept in
the program counter (`ge` or `lt`), and the subtraction with values loaded again.

*`LidarPacketHandler`.* `ppc` is where the packet thread is in the accumulator and in
`create()`'s lambda (`Receive`, `LockWriteHead`, `Batch`, `StampScan`,
`StampMessage`, `WriteCompare`, `WriteDecide`, `WriteStore`, `Notify`); `consumer.pc`
is where the scan thread is in `process_scans()`. `wait_for` with a predicate is
the loop the standard defines: test, block, wake (`Notify`, `SpuriousWakeup`) and
test again, or `Timeout` and test once more. `Notify` wakes the scan thread only
if it is blocked: the notifier does not hold `ring_buffer_mutex`. A scan is
abstracted to the frame it shows and the packets in it, and a stamp to the frame it
was computed from. `lidar_scan_estimated_ts` is passed to a processor by value, the
message stamp by reference, so the former is read by `CallProcessor` and the latter
by `RunProcessor`. The SDK's `ScanBatcher` is external: it completes a scan when all
its packets came, or when a packet of a later frame arrives, which it holds back.

*`OusterSensor`.* `main` is where the callback queue is: `start()` is `Configure`,
`CreateClient`, `StartThread` with a failing variant of each step; the timer callback
of `schedule_stop()` is `FireStop`, `StopThread`, `Join` (or `NothingToJoin`),
`AfterStop`. `schedule_stop()` is two steps in both threads, the flag and the timer.
`reconnect_timer` is the one `ros::Timer`: assigning it discards what was pending.
The sensor is a record of its active and saved configuration and its init id, and may
reinitialise or lose power at any time. `history` records what was requested, the
fate of the persist request, the failures since the last connection and how many init ids
this connection has seen (`seen`), whether the sensor lost power since it was last given a
staged configuration (`reverted`), whether the last configuration reset the destination it found
(`redirected`), and whether the sensor has been left alone since (`undisturbed`); the code does not
depend on it. The connection thread's loop ends when the flag is cleared or when `ros::ok()` says
so; the latter is left open and may happen in any iteration (`CheckActive`).
`Multicast` and `AutoDest` are all that is left of `udp_dest`: whether a configuration
sends to a multicast group (a receiver that is not `mtp_main` then only reads it,
`Secondary`), and what it becomes when the destination is reset to this host
(`ConfigToApply`, if `auto_udp_allowed` was decided at startup).

*`OusterDriver`.* `members` are the members not destroyed yet, in the order of their
declaration; destructors remove them from the end. The connection and scan threads
are reduced to the member they are using; one iteration of the connection thread may handle
a lidar packet and an imu packet without looking at the flag in between (`AfterUse`). When `~OusterDriver` has ended, virtual
calls reach `OusterSensor`, which uses none of the members.

*`OusterCloud`, `OusterPcap`, `Replay`.* `callback` is where the node's callback queue
is, `threads[h]` where the scan thread of the `h`-th handler is; replaced handlers are
destroyed as the assignment to `lidar_packet_handler` does it, flag, join, end. A lidar
packet completes a scan, and has a stamp and a serial number. A processor stamps its message with
the handler's shared stamp (`msg_ts`), when it runs: that of its scan or of one completed since
(`StampMessage`, `header_stamp`; finding `handler_stamp` is about the difference). `if (stamp > last_msg_ts)
last_msg_ts = stamp` is two steps in each thread, the comparison and the assignment. A `ros::Time` is taken as a
whole: that the two threads may see, or leave behind, the seconds of one time and the nanoseconds of
another is outside the model, both for the comparison and for the assignment. After a scan the ring moves on by one or, throttled, by two;
how full it has to be for that is `LidarPacketHandler`'s, here either may happen. A subscription
holds `QueueSize` messages and forgets the oldest (roscpp, external); metadata is latched. `latest`,
`points`, `scans` and `serial` are history: `latest` is what each thread last took
`last_msg_ts` up to, so that `StampKeepsUp` can say that a stale assignment takes it behind one of
those threads and never behind all of them. `reader` is where the reader thread of
`OusterPcap` is: the flags are tested in one step, and the packet is published in another whatever has
become of them. In a loop the file is read `MaxPasses` times and then goes round
without its packets until it is stopped, so that the loop itself never ends by the bound. `OusterImage` has the
callbacks and the scan thread without the imu packets and without `last_msg_ts`.

*`ScanProcessors`.* A measurement is a triple: the channel, the scan and the pixel, so a
property can tell a value of another return, scan, row or column from the right one. What the code
assigns is a number; what nobody assigned is `Unwritten`. `config` is the sensor and the
parameters; `CreateHandlers` and `CreateThrows` are `create_handlers`; `MakeCloud`,
`MakeLaserScan` and `MakeImages` are one return each of the three `process` methods, in the
order `Chosen`, on the buffers of the object (`points`, `cloud`, `pc_msgs`, `scan_msgs`,
`image_msgs`). `PointTypes` writes the ten tables of `sensor_point_types.h` as pairs of
sequences, the channels of the table and the fields of the struct from the sixth on
(`as_tuple`), since the code relates them by position alone; `TransformField` relates by
name. What the messages should show is stated separately at the end of `ScanProcessors`
(`UprightColumn`, `Meaning`, `Shows`), from the meaning of the names and not from the tables.

*`ScanTimestamp`.* A completed scan is a frame number and the set of columns that
arrived; `scan` is history, with the epoch of the sensor's clock the scan was taken in (`epoch`). Doubles are exact rationals, truncated where the code converts to
`uint64_t`; with the spacing chosen no rounding occurs in consecutive scans, so
`ExactWhenConsecutive` says what the formula gives and nothing of rounding.

## 3. Runs

| Run | Checks | Bounds | Shows |
|---|---|---|---|
| `ring_single` | `TypeOK`, `NoOverrun`, `ImplementsBoundedQueue` | 4 slots, 4-bit `size_t` | with one element per call the torn `size()` is harmless for `read()` and `write()`: the buffer is linearizable |
| `handler` | `TypeOK`, `WriterElsewhere`, `RingNeverRefuses`, `StampNeverEarlier`, `ImplementsScanQueue`, `ScansLeave`, `DestructorReturns`, `PacketThreadReturns` | 4 slots, 5 frames of 2 packets, lossy, 2 processors | the handler is safe and live with every packet loss and interleaving, in spite of ignored answers and lost notifications |
| `handler_throttle` | violates `ThrottleOnlyWhenFull` | 4 slots, 7 frames | see 5 |
| `handler_stamp` | violates `StampOfItsScan` | 4 slots, 4 frames | see 5 |
| `scan_ts` | `TypeOK`, `ExactWhenConsecutive`, `BetweenNeighbours` | 4 columns, 4 frames, two clocks, offset -3 | the estimate is exact across any loss of columns and bounded by its neighbours in all cases |
| `driver_life` | `TypeOK`, `PublishersOutliveScans`, `ReplacedAtRest`, `UnloadReturns` | 3 starts | replacing and destroying handlers is ordered correctly with respect to the scan threads |
| `driver_stop` | violates `GracefulStop` | 1 start is enough | see 5 |
| `sensor` | `TypeOK`, `StartAlone`, `ClientAlive`, `GiveUpJustified`, `AttemptsBounded`, `ConnectedConfig`, `NoSelfInflictedReset`, `MissedOnlyOnce`, `Recovers`, `JoinReturns` | 2 configurations (1 multicast), 1 attempt, 1 tolerated poll error and no read error, 1 service call, 2 reinitialisations or power cycles | no order of services, self resets, timers and failures breaks the lifecycle; a lost connection is always answered, `stop()` returns |
| `sensor_persist` | violates `PersistHonoured` | as small as the case needs | see 5 |
| `replay` | `TypeOK`, `StampKeepsUp`, `PublishedInOrder`, `UnloadReturns`, `ReplacementEnds` | a file of 4 packets (another port, imu, 2 lidar), 2 passes, 2 handlers, queues of 1, rings of 2 | replaying, replacing and unloading in any order keeps the order of messages and ends every thread |
| `processors` | `TypeOK`, `CloudShowsScan`, `DenseIsTrue`, `InBounds`, `ImagesShowScan`, `ViewsAgree`, `WarnedIffConstant` | 4 by 4 pixels, row shifts 1, 0, -1 and 4, 2 scans of 2 range images per return, columns lost or not; 11 profiles and an unknown one, 9 point types and an unknown one, both kinds of cloud, reductions 1 to 4 (3 is refused), 4-bit `size_t` | what is published is the scan |
| `processors_mask` | violates `RangeCoversPoints` | a mask and a reduction | see 5 |

*Why the bounds are enough to be interesting.* Four slots (three usable) let each
index wrap more than once and let the ring be empty, throttled and full; five frames
fill it while a scan is being processed and wrap it. Two processors make a scan be
stamped between two calls. One attempt distinguishes
"the last one" from "one more"; the service call meets pending timers and self resets; one
tolerated poll error distinguishes counting from resetting, and no tolerated read error is
the other boundary; two reinitialisations let the init id change twice in a session. (Larger
values, two attempts and two service calls, are what the theorems are for.) A queue of one
is full as soon as one element waits; a ring of two can be full, hold two scans of one stamp each
while one of them is processed, and move on by one or by two; two handlers are one replacement, and a
second one of the same kind is covered by the theorem. Two scans and two returns fill
every buffer twice with other contents; a row shift of the whole width and a negative
one are the ends of `pixel_shift_by_row`; a step of 4 leaves one row. Two
starts replace a handler, the third replaces a replacement. Four columns allow
every pattern of a missing first, middle and last column. The bounds `MaxFrames`,
`MaxCalls`, `MaxReinits`, `MaxStarts`, `MaxScans`, `MaxPasses` and `MaxMetadata` limit the
environment, never the code.

`CHECK_DEADLOCK FALSE` is said where the system may really stop: the sensor's node
crashes or is unloaded, the driver is gone, the last frame or scan has come, the file has
been read. `handler`
checks deadlock: the only state without a next step would be two threads waiting for
each other, since `Destroyed` stutters.

*Fairness.* Weak fairness of each thread: the operating system schedules them. In
`OusterSensor` and `OusterDriver` that includes the return of `poll_client()`, which
times out, and of the one-shot timers. `LidarPacketHandler` needs strong fairness of
`Timeout`, since spurious wakeups and notifications may interrupt a wait infinitely
often, but `wait_for` computes an absolute deadline once, so they cannot postpone it.
In `Replay` every thread and the callback queue are scheduled, the reader's sleeps end; nobody
has to unload, interrupt or subscribe.
Nothing makes packets arrive, the sensor answer, or anybody call a service or
unload the node.

## 4. Theorems

Every invariant, action property and refinement that a passing run checks is also a theorem,
for every value of the constants allowed by the named assumptions (`RingAssumption`,
`CountsAssumption`, `HandlerAssumption`, `TimestampAssumption`, `SensorAssumption`,
`DriverAssumption`, `PcapAssumption`, `CloudAssumption`, `SizeAssumption`, `ConfigAssumption`,
`ParameterAssumption`), which TLC evaluates in the runs. What a theorem assumes beyond them is
in its statement and said here.

- **`RingIndexProofs`**: what `Advance`, `SizeOf` and `AvailableOf` return, cited by the
  others.
- **`LockFreeRingBufferProofs`**: `TypeCorrect` (any counts); `SingleElementSafe` and
  `Refinement` assume `SingleElement`, that each call is for one element. `NoOverrun`
  is not inductive: a thread between its two loads, or past its decision, acts on a
  past value. `IInv` adds `WriterPromise` and `ReaderPromise`, what each thread may
  still believe at each point: the other thread can only have made room since, and if
  an index wrapped in between there is room for one more. That "one" is why the
  theorem needs `SingleElement`: with `WriteCounts = {1, 2}` TLC finds a writer that
  overtakes the reader, and with `ReadCounts = {1, 2}` the converse.
- **`LidarPacketHandlerProofs`**: `NoSlotSharing` and `AnswersAreTrue`. Here the scan
  thread does call `read(2)`, so the previous argument does not apply. `HandlerInv`
  keeps what each thread knows about the occupancy at each point of its control; the
  crucial part is that a torn `size()` in the throttling test can only happen when the
  writer wrapped, hence when two scans are there (`ScanThreadKnows`): `read(2)` is
  unjustified as throttling but never as reading.
  `HandlerTypeCorrect` needs more than types: that a slot never counts more packets than a frame
  has follows from `BatcherKnows`, which bounds the packets batched by those sent and has the
  frame that is open later than the last one completed.
  `StampsNotBehind` rests on `FrameInv`: the slots between the two heads hold frames in
  increasing order (`FramesAhead`), and both shared stamps are at least as late as every one of
  them (`StampsKnow`); that a scan's stamp may be *later* is finding `handler_stamp`.
  `HandlerImplementsScanQueue` maps the slots between the heads to the queue of `ScanQueue`: the
  store of the write index is its completion, the store of the read index its removal of one or two,
  every other step a stutter; in particular nobody alters a completed scan that still waits.
- **`ScanTimestampProofs`**: `TimestampTypeCorrect`, `TimestampBetween` (any offset, any clock)
  and `TimestampExact`. The lemmas say that `linear_interpolate` stays between its two ends, in either
  direction, and that between two points of one line it gives the line (`InterpolateBetween`,
  `InterpolateLine`); the invariant adds that the remembered column lies on the line of the
  clock (`OnTheLine`). `TimestampExact` assumes `Offset <= 0`, as the parameter is (-37 s): the offset is added
  to columns that did not arrive too, and one above 0 makes them look as if they had.
- **`OusterSensorProofs`**: `SensorTypeCorrect`, and from an inductive invariant that
  ties the program counters of the two threads, the flag, the client and the timer:
  `StartsAlone`, `ClientOutlivesThread`, `NoAttemptLost`, `FailuresBounded`.
  `FailuresBounded` needs the relation between the failures counted by the history and
  the attempts left, which both `StartFailed` and `AfterStop` decrement.
  `ConfigurationReached`: a sensor that loses power goes back to what it saved, and the driver,
  whose staged configuration is gone, adopts that. Until something is staged again (`reverted`) the sensor
  then runs what it had saved, unless the request had been persisted: then what it saved is the request.
  In every case the destination is another than the one asked for only if
  the last configuration was a reconnection's that found nothing staged (`redirected`). The invariant
  (`ConfigInv`) relates the active, the saved, the requested and the staged configuration at each point of `start()`. It
  uses that a reset destination is never multicast and that resetting it twice changes
  nothing (`SensorAssumption`): otherwise a reconnection could turn a primary into a
  secondary receiver.
  `ResetsAreTheSensors`: a reset for a changed init id is never answered with another for the change that
  the reset itself causes. `InitIdInv` is why: while the sensor is left alone, either the flag is still set
  or the id last seen is the sensor's.
  `ChangesNoticed` is an action property: `reset_last_init_id` is cleared by every change that is
  seen, and each session sets it once, so one change per session can pass silently and no more.
- **`OusterDriverProofs`**: `DriverTypeCorrect`, `HandlersReplacedAtRest` and `ScansWithinPublishers`,
  from an invariant that ties the members still declared, the flags of the handlers and the places of
  their threads: a scan thread that publishes belongs to a handler that is held or being joined, and
  members are destroyed from the end, the handler's before the publishers.
- **`ReplayProofs`**: `MessagesInOrder`, `StampAmongWriters` and `ReplayTypeCorrect`, for
  every file and any sizes. `MessagesInOrder` needs that
  packets have a serial that only grows, and are the file's (`PositionInv`), that what waits in the
  subscription is later than what waits in the rings, each of them ordered, and that rings of replaced
  handlers are never used beside the new one (`OrderInv`), which in turn needs that the old thread
  has been joined before a packet is taken (`ControlInv`, `BusyInv`).
  `StampAmongWriters`: whoever set `last_msg_ts` last is not ahead of it; a thread that finds it high
  enough relies on another. What makes it inductive is that a replaced handler's thread no longer sets it and a
  new one's has not yet (`StampInv`). It uses that the valid measurements of an imu packet whose first
  one is valid are not before that one (`ImuMeasurements`): the code subtracts `uint64_t`s, and the
  stamps would otherwise wrap. `NthElement` is the lemma about the loop that skips the others.
- **`ScanProcessorsProofs`**, the pixel arithmetic: for every width, every shift of at most the width and every
  step that divides the rows, the destaggered column of a cloud is in the row and injective, the `int` and the
  `size_t` computation agree, and the loop's targets are exactly the points of the reduced cloud.
  The agreement needs that the width divides 2^64 (`ConfigAssumption`), which the widths of all lidar modes do.
- **`ScanProcessorsProofs`**, the processors: `ProcessorTypeCorrect`, `CloudsInBounds`, `CloudsShown`,
  `ImagesUpright`, `ViewsOfOneScan`, `DenseToldTruly`, `WarnedOfConstant`, from one invariant (`IInv`).
  `ProcessInv` says which processors are left and, through `Done`, how many returns each has finished.
  `ImagesInv`, `LaserInv` and `CloudInv` say that exactly the returns that are done show the
  current scan, whatever the buffers hold of others. For clouds that is "there are coordinates, those
  of this return's measurements in range, such that the message is the cloud of them" (`MessagesInv`): the
  code overwrites the coordinates with the next return's, so they have to be remembered by a
  quantifier, and no run can evaluate it. That every field means what its name says is `FilledShows`,
  from `Tables` (each of the eleven tables, position by position) and `TransformShows` (by name). An
  unorganized cloud is numbered by the measurements kept before each (`Numbering`).
  `CloudsShown` assumes that no configuration has a mask and a reduction: what the code does then is finding
  `processors_mask`. The other six hold there too.
  `ParameterAssumption` leaves out an unknown profile without a point cloud: only the point cloud refuses
  one, and how many returns it has is the SDK's to say.

Model-checked only: liveness (under fairness, out of the prover's reach), and the properties that the runs of
section 5 find violated.

## 5. Where the code does not do what is said of it

Each is a run that TLC must find violated; `PROJECT.json` quotes both sides.

- `handler_stamp`: the two stamps are fields of the handler, not of the slot, so a scan
  that waited in the ring is delivered with the stamp of a later one, and the `t` of its
  points, "relative to frame start", is off by whole frames.
- `handler_throttle`: a wrap of the writer between the two loads of `size()` makes the
  scan thread see an enormous size and skip a scan with only two in the ring.
- `driver_stop`: at unload the members of `OusterDriver` are destroyed while the connection
  thread still calls them; it is joined by the base class's destructor.
- `sensor_persist`: `persist_config` is cleared before `set_config()` is called; if that
  call fails the retry does not persist.
- `processors_mask`: with `v_reduction` and a mask, `process()` multiplies the whole range image with a
  mask of the reduced cloud's rows: a debug build stops in an assertion, a release build computes xyz of the
  first rows only, from the wrong rows of the mask, and leaves the other points as they were.

Smaller ones are visible in the models and are not kept as runs. In the connection: a restart that does
not change the init id leaves `reset_last_init_id` set, and the next real change is adopted without
a reset (`MissedOnlyOnce` states that it is the next one only); a failure to fetch the metadata during a
reconnection is an exception nobody catches rather than a failed attempt (`MetadataThrows`); a node that was started
without a destination and was given that of a multicast group by `set_config` is a secondary receiver until its first
reconnection, which finds nothing staged, resets the destination of the active configuration and
thereby takes the stream from the main receiver (`ConfigToApply`); and a persist request that a
secondary receiver has not used is spent on whatever it configures next, also on a configuration that
is not its own. In the processors: the mask is
applied to the scan before destaggering in clouds and after it in images, so one
file masks different measurements; laser scans ignore the mask and the range limits; the masked
points of an organized cloud keep their `range`. In a loop `last_msg_ts` stays at the end of the first pass.
Elsewhere: `size()` leaves
`0 .. capacity()` when torn (`ReadSize <= Capacity` in `LockFreeRingBuffer`); a full ring drops single packets, so a scan with
missing packets can be processed without loss on the network
(`lidar_scans[consumer.slot].packets = PacketsPerScan`); in PTP mode a clock below the
offset makes every column 0 and fails the assertion that "should never happen"
(`outcome = "assert"` in `ScanTimestamp`); `set_config` without `attempt_reconnect` stops the
connection and applies nothing (`staged_config` stays set).

## 6. Not modelled, and why

- Floating point: the interpolation's rounding (a double holds present-day nanoseconds only to some
  hundreds of nanoseconds), image scaling, auto exposure, projections, `range` units.
- `TIME_FROM_ROS_TIME`: the stamp of the next scan is taken from the packet that completed the current
  one; which frame that packet belongs to is decided by the SDK's `ScanBatcher`, which is not in the
  repository.
- The parsing of parameters and configurations (`parse_config_from_ros_parameters` and what it calls): text to values, once, before any thread exists.
  The parameters that `create_handlers` refuses are in `ScanProcessors`, except `min_scan_valid_columns_ratio`.
- Parameters that change while the nodes run: `create_handlers` of `OusterCloud` reads them again at every metadata.
- Packets of before a reinitialisation that arrive after it: `ReadPacket` reads the sensor's current init id.
- Legacy UDP profiles, for which the init id is not looked at, and the legacy IMU profile.
- The unsynchronised assignment of the `ros::Timer` by two threads: the model lets one of
  the two win; and what roscpp does when a timer is replaced during its own callback.
- Metadata that cannot be parsed: what the SDK does with it is not in the repository.
- `register_lidar_scan_handler` and `clear_registered_lidar_scan_handlers`: nothing calls
  them while the threads run.
- Transforms, telemetry, the text of messages: data that passes through.

## 7. Plan

Done, in this order: ring, handler, sensor, timestamps, driver and their first theorems; then point types, pixel
arithmetic and processors; the cloud node and the replay; the sensor's safety, liveness and power cycles in one run;
the theorems about the driver, the replay and the pixel arithmetic; then theorems for all other safety
properties: the handler's types, stamps and refinement, the timestamps, the replay's stamps and types, the
processors.

Left:

1. The unloading of `OusterCloud`, which destroys its handler before its publishers, unlike `OusterDriver`.
2. `TIME_FROM_ROS_TIME`, as a choice of what `ScanBatcher` may do.
3. A bound of `TimestampExact` for an offset above 0: by how much the estimate is off, and for which losses.
