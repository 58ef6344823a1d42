----------------------------- MODULE MC_DetectorModel -----------------------------
(***************************************************************************)
(* Small configurations for model checking DetectorModel.  Lengths are in  *)
(* multiples of 4 so that the halvings of the code are exact.             *)
(***************************************************************************)
EXTENDS DetectorModelRefinement

D(v) == [kind |-> "double", double |-> v]
S(v) == [kind |-> "string", string |-> v]
U2(a, b) == [kind |-> "uint2", uint2 |-> [x |-> a, y |-> b]]
XY(a, b) == [kind |-> "xy", xy |-> [x |-> a, y |-> b]]
XYZ(a, b, c) == [kind |-> "xyz", xyz |-> [x |-> a, y |-> b, z |-> c]]

\* The section that sets the keys of a set of <<key, value>> pairs.
Section(pairs) == [key \in {p[1] : p \in pairs} |-> (CHOOSE p \in pairs : p[1] = key)[2]]

\* The choices for a key: not set, or one of the values vals.
Choices(key, vals) == {{}} \cup {{<<key, v>>} : v \in vals}

(***************************************************************************)
(* The construction run: every read of the header in turn fails by a      *)
(* missing key or a wrong schema, and every implant check fails and passes *)
(* at its bound (pixel pitch 16, sensor thickness 8).                      *)
(***************************************************************************)
ConstructionHeaders ==
    {Section({<<"number_of_pixels", U2(2, 1)>>} \cup ps \cup st \cup ex \cup left
             \cup isz \cup ioff \cup chip) :
        ps \in Choices("pixel_size", {XY(16, 16)}),
        st \in {{<<"sensor_thickness", D(8)>>}, {<<"sensor_thickness", XY(8, 8)>>}},
        ex \in Choices("sensor_excess", {D(4), XY(4, 4)}),
        left \in Choices("sensor_excess_left", {D(0)}),
        isz \in Choices("implant_size", {XY(16, 8), XY(20, 8), XYZ(8, 8, 8), XYZ(8, 8, 12),
                                         XYZ(8, 20, 8), D(4)}),
        ioff \in Choices("implant_offset", {XY(4, 0), XY(-8, 0), XY(0, -4), D(4)}),
        chip \in Choices("chip_thickness", {D(4), S("thin")})}

ConstructionSupports ==
    {Section({<<"thickness", D(4)>>, <<"size", XY(16, 16)>>, <<"location", S("Sensor")>>}),
     Section({<<"thickness", D(4)>>, <<"size", XY(16, 16)>>, <<"location", S("top")>>}),
     Section({<<"thickness", D(4)>>, <<"size", XY(16, 16)>>, <<"location", S("absolute")>>}),
     Section({<<"size", XY(16, 16)>>})}

(***************************************************************************)
(* The geometry runs: a valid header with and without a chip and with and  *)
(* without an asymmetric excess, and up to three support layers on either  *)
(* side or at an absolute position that sticks out in x and below.         *)
(***************************************************************************)
GeometryHeaders ==
    {Section({<<"number_of_pixels", U2(2, 1)>>, <<"pixel_size", XY(8, 8)>>,
              <<"sensor_thickness", D(8)>>} \cup left \cup right \cup chip) :
        left \in Choices("sensor_excess_left", {D(4)}),
        right \in Choices("sensor_excess_right", {D(12)}),
        chip \in Choices("chip_thickness", {D(4)})}

GeometrySupports ==
    {Section({<<"thickness", D(4)>>, <<"size", XY(8, 8)>>, <<"location", S("sensor")>>}),
     Section({<<"thickness", D(8)>>, <<"size", XY(8, 8)>>, <<"location", S("Sensor")>>}),
     Section({<<"thickness", D(4)>>, <<"size", XY(8, 8)>>, <<"location", S("CHIP")>>}),
     Section({<<"thickness", D(8)>>, <<"size", XY(8, 8)>>}),
     Section({<<"thickness", D(4)>>, <<"size", XY(40, 8)>>, <<"location", S("Absolute")>>,
              <<"offset", XYZ(4, 0, -20)>>})}

\* Support layers of zero thickness, which the constructor accepts.
ZeroSupports ==
    {Section({<<"thickness", D(0)>>, <<"size", XY(8, 8)>>, <<"location", S("sensor")>>})}

(***************************************************************************)
(* The refinement run: the geometry headers and one that lacks the sensor *)
(* thickness, and the geometry supports with one of an unknown location, *)
(* so that construction both fails and succeeds before getSize().        *)
(***************************************************************************)
RefinementHeaders ==
    GeometryHeaders
    \cup {Section({<<"number_of_pixels", U2(2, 1)>>, <<"pixel_size", XY(8, 8)>>})}

RefinementSupports ==
    GeometrySupports
    \cup {Section({<<"thickness", D(4)>>, <<"size", XY(8, 8)>>, <<"location", S("top")>>})}

(***************************************************************************)
(* The values the configurations give HeaderConfigs: named once more, so  *)
(* that TLC computes each set once instead of at every membership test.  *)
(***************************************************************************)
ConstructionHeaderConfigs == ConstructionHeaders
GeometryHeaderConfigs == GeometryHeaders
RefinementHeaderConfigs == RefinementHeaders

=============================================================================
