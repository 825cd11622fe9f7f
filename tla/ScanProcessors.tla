--------------------------- MODULE ScanProcessors ---------------------------
(***************************************************************************)
(* What becomes of a scan: the processors that the scan thread of          *)
(* LidarPacketHandler calls one after the other turn it into point clouds, *)
(* laser scans and images, one per return, in buffers they keep from scan  *)
(* to scan, and publish them.  A measurement is <<channel, scan, pixel>>;  *)
(* floating point, auto exposure and the units of the messages are left    *)
(* out.  The processors, their order and their parameters are those that   *)
(* create_handlers of OusterDriver builds (OusterCloud and OusterImage     *)
(* build the same ones, in two nodes).                                     *)
(***************************************************************************)
EXTENDS PixelMap, PointTypes, Ranks, SequencesExt

CONSTANTS
    Configs,            \* sensors and parameters: records, see ConfigFields
    RangeImages(_, _),  \* the range images of a scan of h by w pixels
    Reductions,         \* the values of v_reduction: {1, 2, 4, 8, 16}
    FirmwareOffset,     \* 31: the columns older firmware was off by
    MaxScans            \* bound: scans processed

ConfigFields ==
    {"h", "w", "pixel_shift_by_row", "profile", "old_firmware", "tokens",
     "point_type", "organized", "destagger", "min_range", "max_range",
     "v_reduction", "scan_ring", "mask"}

ASSUME ConfigAssumption ==
    \A c \in Configs : /\ DOMAIN c = ConfigFields
                       /\ c.h \in Nat \ {0} /\ c.w \in Nat \ {0}
                       /\ SizeModulus % c.w = 0
                       /\ c.pixel_shift_by_row \in [0 .. c.h - 1 -> - c.w .. c.w]
                       \* beams come in multiples of 16
                       /\ \A r \in Reductions : r \in Nat \ {0} /\ c.h % r = 0

\* What a parameter may be set to, and what a scan and a mask hold.
ASSUME ParameterAssumption ==
    /\ MaxScans \in Nat /\ FirmwareOffset \in Nat
    /\ \A c \in Configs :
         /\ c.tokens \subseteq {"PCL", "SCAN", "IMG"}
         \* an unknown profile without a point cloud is left out: the SDK
         \* says how many returns it has, and only the point cloud refuses it
         /\ c.profile \notin DOMAIN ScanProfile => "PCL" \in c.tokens
         /\ {c.organized, c.destagger, c.old_firmware} \subseteq BOOLEAN
         /\ {c.min_range, c.max_range, c.scan_ring} \subseteq Int
         /\ RangeImages(c.h, c.w) \subseteq [0 .. c.h * c.w - 1 -> Nat]
         /\ c.mask \in Seq([1 .. c.w -> {0, 1}])

VARIABLES
    config,      \* the sensor and the parameters
    processors,  \* what is left of them to call for the current scan
    warned,      \* the warning about the profile was logged
    scan,        \* the scan being processed
    return,      \* the return the current processor works on
    points,      \* xyz of each pixel
    range,       \* the range image, masked, xyz was last computed from
    cloud,       \* the point cloud: a sequence of points, and is_dense
    pc_msgs, scan_msgs, image_msgs,
    published    \* the processors that have published the current scan

vars == <<config, processors, warned, scan, return, points, range, cloud,
          pc_msgs, scan_msgs, image_msgs, published>>

Returns == ScanProfile[config.profile].returns
Pixels == 0 .. config.h * config.w - 1
Rows == 0 .. config.h - 1
Columns == 0 .. config.w - 1
PixelAt(u, v) == u * config.w + v
NaN == <<"NaN", 0, 0>>
NoScan == [id |-> 0, scan_ts |-> 0, range |-> << >>, timestamp |-> << >>]

\* The fields of a scan are those its profile has; others read as zero.
ScanFields == UNION {Elements(channels) :
                        channels \in Elements(ScanProfile[config.profile].channels)}
GetOrFillZero(channel, i) ==
    IF channel \in ScanFields THEN <<channel, scan.id, i>> ELSE Number(0)

\* The second return has channels of its own, except for NEAR_IR and RGB.
ScanReturn(channel, r) ==
    IF r = 0 THEN channel
    ELSE CASE channel = "RANGE" -> "RANGE2"
           [] channel = "SIGNAL" -> "SIGNAL2"
           [] channel = "REFLECTIVITY" -> "REFLECTIVITY2"
           [] OTHER -> channel

\* load_mask: the image of the file, resized to height rows.  Empty: no mask.
LoadMask(height) ==
    [p \in 0 .. height * config.w - 1 |->
        config.mask[1 + ((p \div config.w) * Len(config.mask)) \div height]
                   [1 + (p % config.w)]]
Masked == config.mask # << >>

-----------------------------------------------------------------------------
DefaultPoint == [f \in PointFields(config.point_type, config.profile) |-> Unwritten]
ImageKeys ==
    {"RANGE", "SIGNAL", "REFLECTIVITY", "NEAR_IR"}
    \cup (IF Returns = 2 THEN {"RANGE2", "SIGNAL2", "REFLECTIVITY2"} ELSE {})
    \cup (IF "R_U8" \in ScanFields THEN {"RGB"} ELSE {})
Blank(key) == [p \in Pixels |-> Unwritten]

TypeOK ==
    /\ config \in Configs
    /\ processors \in {<<"create">>, <<"thrown">>}
                        \cup {s \in UNION {[1 .. n -> {"PCL", "SCAN", "IMG"}] : n \in 0 .. 3} :
                                ToSet(s) \subseteq config.tokens}
    /\ warned \in BOOLEAN
    /\ scan.id \in 0 .. MaxScans
    /\ return = 0 \/ return \in 0 .. Returns - 1
    /\ published \subseteq config.tokens
    /\ \A key \in DOMAIN image_msgs : DOMAIN image_msgs[key] = Pixels

Init ==
    /\ config \in Configs
    /\ processors = <<"create">>
    /\ warned = FALSE
    /\ scan = NoScan /\ return = 0
    /\ points = << >> /\ range = << >>
    /\ cloud = [points |-> << >>, is_dense |-> TRUE]
    /\ pc_msgs = << >> /\ scan_msgs = << >> /\ image_msgs = << >>
    /\ published = {}

\* Any value of v_reduction accepted.
MutNoReductionCheck ==
    config.min_range >= 0 /\ config.min_range < config.max_range

\* What create_handlers refuses by throwing.
ParametersValid ==
    /\ config.min_range >= 0 /\ config.min_range < config.max_range
    /\ config.v_reduction \in Reductions

Supported ==
    config.profile \in DOMAIN ScanProfile /\ config.point_type \in PointTypeNames

\* The processors in the order they are created, and called.
Chosen ==
    LET IfAsked(name) == IF name \in config.tokens THEN <<name>> ELSE << >>
    IN  IfAsked("PCL") \o IfAsked("SCAN") \o IfAsked("IMG")

CreateHandlers ==
    /\ processors = <<"create">>
    /\ "PCL" \in config.tokens => ParametersValid /\ Supported
    /\ processors' = << >>
    /\ warned' = ("PCL" \in config.tokens /\ Requires(config.point_type)
                                            /\ ~HasIntensity(config.profile))
    /\ points' = [p \in Pixels |-> Unwritten]
    /\ cloud' = [cloud EXCEPT !.points =
         [k \in 1 .. config.w * CloudRows(config.h, config.v_reduction) |-> DefaultPoint]]
    /\ pc_msgs' = [r \in 0 .. Returns - 1 |-> [points |-> << >>, is_dense |-> TRUE]]
    /\ scan_msgs' = [r \in 0 .. Returns - 1 |-> << >>]
    /\ image_msgs' = [key \in ImageKeys |-> Blank(key)]
    /\ UNCHANGED <<config, scan, return, range, published>>

CreateThrows ==
    /\ processors = <<"create">>
    /\ "PCL" \in config.tokens /\ ~(ParametersValid /\ Supported)
    /\ processors' = <<"thrown">>
    /\ UNCHANGED <<config, warned, scan, return, points, range, cloud,
                   pc_msgs, scan_msgs, image_msgs, published>>

Created == processors \notin {<<"create">>, <<"thrown">>}

-----------------------------------------------------------------------------
(* A scan, the estimated time it began at, which may be another scan's, and *)
(* the timestamps of its columns, 0 for one that was lost.                  *)
NextScan ==
    /\ processors = << >>
    /\ scan.id < MaxScans
    /\ \E images \in [0 .. Returns - 1 -> RangeImages(config.h, config.w)],
          lost \in {{}, {0}}, late \in {0, 2} :
         scan' = [id |-> scan.id + 1,
                  scan_ts |-> 10 * (scan.id + 1) + late,
                  range |-> images,
                  timestamp |-> [v \in Columns |->
                       IF v \in lost THEN 0 ELSE 10 * (scan.id + 1) + v + 1]]
    /\ processors' = Chosen
    /\ return' = 0
    /\ published' = {}
    /\ UNCHANGED <<config, warned, points, range, cloud, pc_msgs, scan_msgs, image_msgs>>

Running(name) == processors # << >> /\ Head(processors) = name

\* One return too many.
MutOneMore ==
    IF return < Returns
    THEN /\ return' = return + 1
         /\ UNCHANGED <<processors, published>>
    ELSE /\ return' = 0
         /\ processors' = Tail(processors)
         /\ published' = published \cup {Head(processors)}

\* The loop of a processor over the returns; after the last one it publishes.
EndReturn ==
    IF return + 1 < Returns
    THEN /\ return' = return + 1
         /\ UNCHANGED <<processors, published>>
    ELSE /\ return' = 0
         /\ processors' = Tail(processors)
         /\ published' = published \cup {Head(processors)}

-----------------------------------------------------------------------------
(* PointCloudProcessor                                                      *)

\* range * mask: the product takes the shape of the mask, which is loaded for
\* the rows of the reduced cloud.
RangeMasked ==
    LET image == scan.range[return]
        mask  == LoadMask(CloudRows(config.h, config.v_reduction))
    IN  IF Masked THEN [p \in DOMAIN mask |-> image[p] * mask[p]] ELSE image

\* cartesianT: the pixels of the range image given; the others stay as they are.
Cartesian(rng) ==
    [p \in Pixels |->
        IF p \notin DOMAIN rng THEN points[p]
        ELSE IF rng[p] <= config.min_range \/ rng[p] >= config.max_range THEN NaN
        ELSE <<ScanReturn("RANGE", return), scan.id, p>>]

ColumnAt(u, v) ==
    CloudColumn(v, config.w, config.pixel_shift_by_row[u], config.destagger)

\* What is written to a point of the cloud that was old.
Filled(old, u, v, xyz) ==
    LET c      == ColumnAt(u, v)
        i      == PixelAt(u, c)
        ts     == IF scan.timestamp[c] > scan.scan_ts
                  THEN scan.timestamp[c] - scan.scan_ts ELSE 0
        copied == CopiedChannels(config.profile, return)
        staged == [f \in NativeFields(config.profile) |->
                    CASE f = "xyz"  -> xyz[i]
                      [] f = "t"    -> Number(ts)
                      [] f = "ring" -> Number(u)
                      [] OTHER      -> <<copied[f], scan.id, i>>]
    IN  IF config.point_type = "native" THEN staged ELSE Transform(old, staged)

\* The pixels of the cloud in the order of the loops.
Visited ==
    LET step == config.v_reduction
    IN  [k \in 1 .. config.w * Cardinality(VisitedRows(config.h, step)) |->
            <<((k - 1) \div config.w) * step, (k - 1) % config.w>>]

Organized(xyz) ==
    LET Sources(k) == {uv \in ToSet(Visited) :
            CloudTarget(uv[1], uv[2], config.w, config.v_reduction) = k - 1}
    IN  [points |-> [k \in DOMAIN cloud.points |->
            IF Sources(k) = {} THEN cloud.points[k]
            ELSE LET uv == CHOOSE s \in Sources(k) : TRUE
                 IN  Filled(cloud.points[k], uv[1], uv[2], xyz)],
         is_dense |-> \A uv \in ToSet(Visited) :
                         xyz[PixelAt(uv[1], ColumnAt(uv[1], uv[2]))] # NaN]

Unorganized(xyz) ==
    LET valid == {k \in DOMAIN Visited :
                    LET uv == Visited[k]
                    IN  xyz[PixelAt(uv[1], ColumnAt(uv[1], uv[2]))] # NaN}
    IN  [points |-> [k \in 1 .. Cardinality(valid) |->
                        LET uv == Visited[Nth(valid, k)]
                        IN  Filled(DefaultPoint, uv[1], uv[2], xyz)],
         is_dense |-> TRUE]

\* is_dense never set again once it was cleared.
MutKeepDense(xyz) ==
    IF config.organized
    THEN [Organized(xyz) EXCEPT !.is_dense = @ /\ cloud.is_dense]
    ELSE Unorganized(xyz)

ScanToCloud(xyz) == IF config.organized THEN Organized(xyz) ELSE Unorganized(xyz)

MakeCloud ==
    /\ Running("PCL")
    /\ range' = RangeMasked
    /\ points' = Cartesian(RangeMasked)
    /\ cloud' = ScanToCloud(points')
    /\ pc_msgs' = [pc_msgs EXCEPT ![return] = cloud']
    /\ EndReturn
    /\ UNCHANGED <<config, warned, scan, scan_msgs, image_msgs>>

-----------------------------------------------------------------------------
(* LaserScanProcessor                                                       *)

LaserShift(u) ==
    config.pixel_shift_by_row[u] - IF config.old_firmware THEN FirmwareOffset ELSE 0

\* The ring of the parameter scan_ring, clamped.
Ring == IF config.scan_ring < 0 THEN 0
        ELSE IF config.scan_ring >= config.h THEN config.h - 1 ELSE config.scan_ring

LaserScan ==
    [t \in Columns |->
        LET v == CHOOSE v \in Columns : LaserTarget(v, config.w) = t
            i == PixelAt(Ring, LaserColumn(v, config.w, LaserShift(Ring)))
        IN  [range |-> GetOrFillZero(ScanReturn("RANGE", return), i),
             intensity |-> GetOrFillZero(ScanReturn("SIGNAL", return), i)]]

MakeLaserScan ==
    /\ Running("SCAN")
    /\ scan_msgs' = [scan_msgs EXCEPT ![return] = LaserScan]
    /\ EndReturn
    /\ UNCHANGED <<config, warned, scan, points, range, cloud, pc_msgs, image_msgs>>

-----------------------------------------------------------------------------
(* ImageProcessor                                                           *)

\* NEAR_IR and RGB have one image for both returns, filled from the first.
KeysOfReturn ==
    {ScanReturn(channel, return) : channel \in {"RANGE", "SIGNAL", "REFLECTIVITY"}}
    \cup (IF return = 0 THEN ImageKeys \cap {"NEAR_IR", "RGB"} ELSE {})

\* The channel an image shows; R_U8 stands for the three of RGB.
ImageChannel(key) == IF key = "RGB" THEN "R_U8" ELSE key

Image(key) ==
    LET mask == LoadMask(config.h)
    IN  [p \in Pixels |->
            LET u == p \div config.w
                c == ImageColumn(p % config.w, config.w, config.pixel_shift_by_row[u])
            IN  IF Masked /\ mask[p] = 0 THEN Number(0)
                ELSE GetOrFillZero(ImageChannel(key), PixelAt(u, c))]

MakeImages ==
    /\ Running("IMG")
    /\ image_msgs' = [key \in ImageKeys |->
                        IF key \in KeysOfReturn THEN Image(key) ELSE image_msgs[key]]
    /\ EndReturn
    /\ UNCHANGED <<config, warned, scan, points, range, cloud, pc_msgs, scan_msgs>>

-----------------------------------------------------------------------------
Next ==
    \/ CreateHandlers \/ CreateThrows
    \/ NextScan
    \/ MakeCloud \/ MakeLaserScan \/ MakeImages

Spec == Init /\ [][Next]_vars

-----------------------------------------------------------------------------
(* What the messages promise, read from the scan: where a measurement of    *)
(* row u and column c is, and what each field of a point means.             *)

UprightColumn(u, c) == (c + config.pixel_shift_by_row[u]) % config.w

Meaning ==
    [range |-> "RANGE", signal |-> "SIGNAL", intensity |-> "SIGNAL",
     reflectivity |-> "REFLECTIVITY", near_ir |-> "NEAR_IR", ambient |-> "NEAR_IR",
     flags |-> "FLAGS", window |-> "WINDOW", zone_mask |-> "ZONE_MASK",
     r |-> "R_U8", g |-> "G_U8", b |-> "B_U8"]

SecondReturn == [RANGE |-> "RANGE2", SIGNAL |-> "SIGNAL2",
                 REFLECTIVITY |-> "REFLECTIVITY2", FLAGS |-> "FLAGS2"]

ChannelMeant(f, r) == IF r = 1 /\ Meaning[f] \in DOMAIN SecondReturn
                      THEN SecondReturn[Meaning[f]] ELSE Meaning[f]

InRange(u, c, r) ==
    /\ scan.range[r][PixelAt(u, c)] > config.min_range
    /\ scan.range[r][PixelAt(u, c)] < config.max_range
    /\ Masked => LoadMask(config.h)[PixelAt(u, c)] = 1

\* Point pt shows the measurement of row u, column c in return r.
Shows(pt, u, c, r) ==
    \A f \in DOMAIN pt :
        pt[f] = CASE f = "xyz"  -> IF InRange(u, c, r)
                                   THEN GetOrFillZero(ChannelMeant("range", r), PixelAt(u, c))
                                   ELSE NaN
                  [] f = "ring" -> Number(u)
                  [] f = "a"    -> Number(255)
                  [] f = "t"    -> LET age == scan.timestamp[c] - scan.scan_ts
                                   IN  Number(IF age > 0 THEN age ELSE 0)
                  [] OTHER      -> GetOrFillZero(ChannelMeant(f, r), PixelAt(u, c))

CloudRowsOfScan == {u \in Rows : u % config.v_reduction = 0}

\* Every measurement of a row that is kept is in the published cloud, upright
\* if destaggered, with the value of its own channel, return and scan in every
\* field and zero in a field its profile has no channel for; an unorganized
\* cloud holds the valid ones and no other point.
CloudShowsScan ==
    "PCL" \in published =>
        \A r \in 0 .. Returns - 1 :
            LET pts == pc_msgs[r].points
            IN  IF config.organized
                THEN \A u \in CloudRowsOfScan, c \in Columns :
                        LET x == IF config.destagger THEN UprightColumn(u, c) ELSE c
                        IN  Shows(pts[1 + (u \div config.v_reduction) * config.w + x], u, c, r)
                ELSE LET valid == {uc \in CloudRowsOfScan \X Columns : InRange(uc[1], uc[2], r)}
                     IN  /\ Len(pts) = Cardinality(valid)
                         /\ \A uc \in valid : \E k \in DOMAIN pts :
                                Shows(pts[k], uc[1], uc[2], r)

\* The flag is_dense of a cloud tells the truth about that cloud, also when the
\* same buffer held an incomplete one before.
DenseIsTrue ==
    "PCL" \in published =>
        \A r \in 0 .. Returns - 1 :
            pc_msgs[r].is_dense <=> \A k \in DOMAIN pc_msgs[r].points :
                                        pc_msgs[r].points[k].xyz # NaN

\* An organized cloud is written within its bounds, nothing of it left out,
\* whatever reduction and sensor the parameters name.
InBounds ==
    Created /\ config.organized /\ "PCL" \in config.tokens =>
        {CloudTarget(u, v, config.w, config.v_reduction) :
            u \in VisitedRows(config.h, config.v_reduction), v \in Columns}
        = {k - 1 : k \in DOMAIN cloud.points}

\* Every image shows the scan upright: of each return its own channels, zero
\* where the mask or a channel that the profile lacks says so.
ImagesShowScan ==
    "IMG" \in published =>
        \A key \in ImageKeys, u \in Rows, c \in Columns :
            LET p == PixelAt(u, UprightColumn(u, c))
            IN  image_msgs[key][p] =
                    IF Masked /\ LoadMask(config.h)[p] = 0 THEN Number(0)
                    ELSE GetOrFillZero(IF key = "RGB" THEN "R_U8" ELSE key, PixelAt(u, c))

\* The three computations of the destaggered column agree: the laser scan, read
\* backwards from the middle, is a row of the range image (turned by the columns
\* older firmware is off by), and so is a row of an upright cloud.
ViewsAgree ==
    {"IMG", "SCAN"} \subseteq published /\ ~Masked =>
        \A r \in 0 .. Returns - 1, t \in Columns :
            LET half == config.w \div 2
                turn == IF config.old_firmware THEN FirmwareOffset ELSE 0
                x == (half - 1 - t + turn) % config.w
                row == Ring \div config.v_reduction
                image == image_msgs[ScanReturn("RANGE", r)]
            IN  /\ scan_msgs[r][t].range = image[PixelAt(Ring, x)]
                /\ "PCL" \in published /\ config.organized /\ config.destagger
                   /\ Ring % config.v_reduction = 0
                   /\ "range" \in PointFields(config.point_type, config.profile)
                   => pc_msgs[r].points[1 + row * config.w + x].range = image[PixelAt(Ring, x)]

\* The warning about the profile is logged exactly when the intensity of every
\* point is a constant for want of a channel.
WarnedIffConstant ==
    "PCL" \in published =>
        \A r \in 0 .. Returns - 1 : \A k \in DOMAIN pc_msgs[r].points :
            warned <=> /\ "intensity" \in DOMAIN pc_msgs[r].points[k]
                       /\ pc_msgs[r].points[k].intensity = Number(0)

\* "points and range image size mismatch" (src/src/impl/cartesian.h:40): xyz is
\* computed from a range image of as many pixels as there are points.
RangeCoversPoints == range # << >> => DOMAIN range = DOMAIN points
=============================================================================
