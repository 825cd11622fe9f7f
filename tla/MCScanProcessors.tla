--------------------------- MODULE MCScanProcessors --------------------------
EXTENDS ScanProcessors

MCSizeModulus == 16

\* A sensor of 4 beams by 4 columns, whose beams are off by -1, 0, 1 and 4 columns.
Base ==
    [h |-> 4, w |-> 4,
     pixel_shift_by_row |-> (0 :> 1) @@ (1 :> 0) @@ (2 :> -1) @@ (3 :> 4),
     profile |-> "LEGACY", old_firmware |-> FALSE,
     tokens |-> {"PCL", "SCAN", "IMG"}, point_type |-> "original",
     organized |-> TRUE, destagger |-> TRUE, min_range |-> 1, max_range |-> 9,
     v_reduction |-> 1, scan_ring |-> 0, mask |-> << >>]

MCMask == << <<1, 1, 0, 1>>, <<0, 1, 1, 1>>, <<1, 1, 1, 1>>, <<1, 0, 1, 0>> >>

\* Every profile with every point type, and one of each that is unsupported.
Types ==
    {[Base EXCEPT !.profile = p, !.point_type = t] :
        p \in DOMAIN ScanProfile \cup {"unsupported"}, t \in PointTypeNames \cup {"none"}}

\* Every shape of a cloud, for a sensor of two returns and one of one.
Shapes ==
    {[Base EXCEPT !.profile = p, !.point_type = "native", !.organized = o,
                  !.destagger = d, !.v_reduction = n, !.scan_ring = k] :
        p \in {"LEGACY", "RNG15_RFL8_NIR8_DUAL"}, o \in BOOLEAN, d \in BOOLEAN,
        n \in {1, 2, 3, 4}, k \in {-1, 2, 7}}

\* Masks, ranges, firmware and outputs.
Others ==
    {[Base EXCEPT !.profile = p, !.mask = m, !.old_firmware = f, !.tokens = s] :
        p \in {"LEGACY", "RNG19_RFL8_SIG16_NIR16_RGB16_DUAL"},
        m \in {<< >>, MCMask}, f \in BOOLEAN,
        s \in {{"PCL", "SCAN", "IMG"}, {"IMG"}, {"PCL", "SCAN"}}}
    \cup {[Base EXCEPT !.min_range = 9], [Base EXCEPT !.min_range = -1]}

MCConfigs == Types \cup Shapes \cup Others

\* For the run with a mask and a reduction.
MCMaskConfigs ==
    {[Base EXCEPT !.mask = m, !.v_reduction = n, !.organized = o] :
        m \in {<< >>, MCMask}, n \in {1, 2, 4}, o \in BOOLEAN}

MCRangeImages(h, w) ==
    {[p \in 0 .. h * w - 1 |-> 5], [p \in 0 .. h * w - 1 |-> (3 * p) % 10]}
MCOneImage(h, w) == {[p \in 0 .. h * w - 1 |-> (3 * p) % 10]}
=============================================================================
