----------------------------- MODULE PointTypes -----------------------------
(***************************************************************************)
(* The point types of the driver and the conversions between them.  Each   *)
(* UDP profile has a table of the channels of a scan that make up a point  *)
(* (two tables when it has two returns) and a native point type, whose     *)
(* fields after x, y, z, t, ring are filled from the table BY POSITION.    *)
(* Any other point type is filled from a staged native point by            *)
(* point::transform, BY NAME.  A point is a function of its field names;   *)
(* "xyz" stands for the three coordinates.                                 *)
(***************************************************************************)
EXTENDS Integers, Sequences

\* A profile: the channels of each return, and the fields of the native point.
Single(channels, fields) ==
    [returns |-> 1, channels |-> <<channels>>, fields |-> fields]
Dual(channels, second, fields) ==
    [returns |-> 2, channels |-> <<channels, second>>, fields |-> fields]

LEGACY == Single(
    <<"RANGE", "SIGNAL", "NEAR_IR", "REFLECTIVITY", "FLAGS">>,
    <<"range", "signal", "near_ir", "reflectivity", "flags">>)

RNG19_RFL8_SIG16_NIR16_DUAL == Dual(
    <<"RANGE", "SIGNAL", "REFLECTIVITY", "NEAR_IR", "FLAGS", "WINDOW">>,
    <<"RANGE2", "SIGNAL2", "REFLECTIVITY2", "NEAR_IR", "FLAGS2", "WINDOW">>,
    <<"range", "signal", "reflectivity", "near_ir", "flags", "window">>)

RNG19_RFL8_SIG16_NIR16 == Single(
    <<"RANGE", "SIGNAL", "REFLECTIVITY", "FLAGS", "NEAR_IR", "WINDOW">>,
    <<"range", "signal", "reflectivity", "flags", "near_ir", "window">>)

RNG15_RFL8_NIR8 == Single(
    <<"RANGE", "REFLECTIVITY", "NEAR_IR", "FLAGS">>,
    <<"range", "reflectivity", "near_ir", "flags">>)

RNG15_RFL8_NIR8_DUAL == Dual(
    <<"RANGE", "REFLECTIVITY", "NEAR_IR", "FLAGS", "WINDOW">>,
    <<"RANGE2", "REFLECTIVITY2", "NEAR_IR", "FLAGS2", "WINDOW">>,
    <<"range", "reflectivity", "near_ir", "flags", "window">>)

RNG15_RFL8_WIN8 == Single(
    <<"RANGE", "REFLECTIVITY", "WINDOW", "FLAGS">>,
    <<"range", "reflectivity", "window", "flags">>)

RNG15_RFL8_NIR8_ZONE16 == Single(
    <<"RANGE", "REFLECTIVITY", "NEAR_IR", "ZONE_MASK">>,
    <<"range", "reflectivity", "near_ir", "zone_mask">>)

RNG19_RFL8_SIG16_NIR16_ZONE16 == Single(
    <<"RANGE", "SIGNAL", "REFLECTIVITY", "FLAGS", "NEAR_IR", "ZONE_MASK">>,
    <<"range", "signal", "reflectivity", "flags", "near_ir", "zone_mask">>)

RNG19_RFL8_SIG16_NIR16_RGB16 == Single(
    <<"RANGE", "SIGNAL", "REFLECTIVITY", "NEAR_IR", "FLAGS",
      "R_U8", "G_U8", "B_U8">>,
    <<"range", "signal", "reflectivity", "near_ir", "flags", "r", "g", "b">>)

RNG19_RFL8_SIG16_NIR16_RGB16_DUAL == Dual(
    <<"RANGE", "SIGNAL", "REFLECTIVITY", "NEAR_IR", "FLAGS",
      "R_U8", "G_U8", "B_U8">>,
    <<"RANGE2", "SIGNAL2", "REFLECTIVITY2", "NEAR_IR", "FLAGS2",
      "R_U8", "G_U8", "B_U8">>,
    <<"range", "signal", "reflectivity", "near_ir", "flags", "r", "g", "b">>)

\* The profiles make_scan_to_cloud_fn knows; any other one throws.
ScanProfile ==
    [ LEGACY |-> LEGACY,
      RNG19_RFL8_SIG16_NIR16_DUAL |-> RNG19_RFL8_SIG16_NIR16_DUAL,
      RNG19_RFL8_SIG16_NIR16 |-> RNG19_RFL8_SIG16_NIR16,
      RNG15_RFL8_NIR8 |-> RNG15_RFL8_NIR8,
      FUSA_RNG15_RFL8_NIR8_DUAL |-> RNG15_RFL8_NIR8_DUAL,
      RNG15_RFL8_NIR8_DUAL |-> RNG15_RFL8_NIR8_DUAL,
      RNG15_RFL8_WIN8 |-> RNG15_RFL8_WIN8,
      RNG15_RFL8_NIR8_ZONE16 |-> RNG15_RFL8_NIR8_ZONE16,
      RNG19_RFL8_SIG16_NIR16_ZONE16 |-> RNG19_RFL8_SIG16_NIR16_ZONE16,
      RNG19_RFL8_SIG16_NIR16_RGB16 |-> RNG19_RFL8_SIG16_NIR16_RGB16,
      RNG19_RFL8_SIG16_NIR16_RGB16_DUAL |-> RNG19_RFL8_SIG16_NIR16_RGB16_DUAL ]

Elements(seq) == {seq[i] : i \in DOMAIN seq}

NativeFields(profile) ==
    {"xyz", "t", "ring"} \cup Elements(ScanProfile[profile].fields)

\* The common point types, and those of ouster_ros and PCL.
XYZ == {"xyz"}
XYZI == {"xyz", "intensity"}
XYZIR == {"xyz", "intensity", "ring"}
XYZRGBA == {"xyz", "r", "g", "b", "a"}
Original ==
    {"xyz", "intensity", "t", "reflectivity", "ring", "ambient", "range"}
ColorPoint == Original \cup {"r", "g", "b", "a"}

\* The point type created for each value of the parameter point_type; any other
\* value throws.
PointTypeNames == {"native", "xyz", "xyzi", "o_xyzi", "xyzir", "xyzrgb",
                   "xyzrgba", "original", "color_point"}

PointFields(point_type, profile) ==
    CASE point_type = "native"               -> NativeFields(profile)
      [] point_type = "xyz"                  -> XYZ
      [] point_type \in {"xyzi", "o_xyzi"}   -> XYZI
      [] point_type = "xyzir"                -> XYZIR
      [] point_type \in {"xyzrgb", "xyzrgba"} -> XYZRGBA
      [] point_type = "original"             -> Original
      [] point_type = "color_point"          -> ColorPoint

\* The last type left out.
MutForgotten(point_type) == point_type \in {"xyzi", "xyzir", "original", "o_xyzi"}

Requires(point_type) ==     \* point_type_requires_intensity
    point_type \in {"xyzi", "xyzir", "original", "o_xyzi", "color_point"}

HasIntensity(profile) ==    \* profile_has_intensity
    profile \in {"LEGACY", "RNG19_RFL8_SIG16_NIR16_DUAL",
                 "RNG19_RFL8_SIG16_NIR16", "RNG19_RFL8_SIG16_NIR16_ZONE16",
                 "RNG19_RFL8_SIG16_NIR16_RGB16",
                 "RNG19_RFL8_SIG16_NIR16_RGB16_DUAL"}

-----------------------------------------------------------------------------
(* Values are triples: the channel a value was measured in, the scan, and  *)
(* the pixel; or a constant the code assigns; or what a buffer held before *)
(* anything was written to it.                                             *)

Number(n) == <<"constant", n, 0>>
Unwritten == <<"unwritten", 0, 0>>

\* copy_lidar_scan_fields_to_point: channel i of the table goes to field 5 + i.
CopiedChannels(profile, return_index) ==
    LET fields   == ScanProfile[profile].fields
        channels == ScanProfile[profile].channels[return_index + 1]
    IN  [f \in Elements(fields) |->
            channels[CHOOSE i \in DOMAIN fields : fields[i] = f]]

CopiedByName == {"t", "ring", "range", "signal", "reflectivity", "near_ir",
                 "flags", "window", "zone_mask"}
Rgb == {"r", "g", "b"}

\* A field of the target without a source keeps its old value.
MutNotZeroed(f, old, src) == IF f \in DOMAIN src THEN src[f] ELSE old

\* point::transform: the field f of the target, given its old value.
TransformField(f, old, src) ==
    LET FromOr0(name) == IF name \in DOMAIN src THEN src[name] ELSE Number(0)
    IN  CASE f = "xyz"           -> src["xyz"]
          [] f \in CopiedByName  -> FromOr0(f)
          [] f = "intensity"     -> FromOr0("signal")
          [] f = "ambient"       -> FromOr0("near_ir")
          [] f \in Rgb           -> IF Rgb \subseteq DOMAIN src
                                    THEN src[f] ELSE Number(0)
          [] f = "a"             -> Number(255)
          [] OTHER               -> old

Transform(tgt, src) == [f \in DOMAIN tgt |-> TransformField(f, tgt[f], src)]

=============================================================================
