------------------------------ MODULE PixelMap ------------------------------
(***************************************************************************)
(* The pixel arithmetic of the scan processors.  A scan is h rows (beams)  *)
(* by w columns; the beams of one column were fired at different angles,   *)
(* so row u is shifted by pixel_shift_by_row[u] columns to be seen upright *)
(* (destaggering).  Point clouds, images and laser scans each compute that *)
(* shift themselves, the first in int, the others in size_t.               *)
(***************************************************************************)
EXTENDS Integers

CONSTANT SizeModulus    \* 2^64: size_t wraps

ASSUME SizeAssumption == SizeModulus \in Nat \ {0}

\* The % of C++ on int: the remainder has the sign of the dividend.
Remainder(a, b) == IF a >= 0 THEN a % b ELSE -((-a) % b)

\* The column of the scan that the point cloud shows at column v.
CloudColumn(v, w, shift, destagger) ==
    IF destagger THEN Remainder(v + w - shift, w) ELSE v

\* The row not divided by the step.
MutFullRow(u, v, w, rows_step) == u * w + v

\* Where the point of row u, column v goes in an organized cloud.
CloudTarget(u, v, w, rows_step) == (u \div rows_step) * w + v

\* The rows the loop of scan_to_cloud_f visits, and those its cloud has.
VisitedRows(h, rows_step) == {u \in 0 .. h - 1 : u % rows_step = 0}
CloudRows(h, rows_step) == h \div rows_step

\* The shift added instead of subtracted.
MutAddShift(v, w, shift) == ((v + w + shift) % SizeModulus) % w

\* The column of the scan that an image shows at column v.
ImageColumn(v, w, shift) == ((v + w - shift) % SizeModulus) % w

\* The column of the scan a laser scan reads in iteration v, and the element
\* of its ranges it goes to.
LaserColumn(v, w, shift) == ((v + w - shift + w \div 2) % SizeModulus) % w
MutForward(v, w) == v     \* mutated: not in the order of the angles
LaserTarget(v, w) == w - 1 - v

=============================================================================
