---------------------------- MODULE MC_GeometryBuilder ----------------------------
(***************************************************************************)
(* Small instances of GeometryBuilder: a 2x1 grid of 8x8 pixels, 8 thick,  *)
(* with and without an implant depth, an unknown implant material, an     *)
(* asymmetric excess and a chip, and up to two support layers of which    *)
(* one may have a hole and one a material the builder does not know.      *)
(***************************************************************************)
EXTENDS GeometryBuilder, MC_DetectorModel

\* Implants of depth 4 in their cells, or flat ones (the 2D default).
BuilderHeaders ==
    {Section({<<"number_of_pixels", U2(2, 1)>>, <<"pixel_size", XY(8, 8)>>,
              <<"sensor_thickness", D(8)>>} \cup left \cup impl \cup mat \cup chip) :
        left \in Choices("sensor_excess_left", {D(8)}),
        impl \in Choices("implant_size", {XYZ(4, 4, 4)}),
        mat \in Choices("implant_material", {S("copper")}),
        chip \in Choices("chip_thickness", {D(4)})}

\* Symmetric headers with implants, for the implant placement run.
SymmetricHeaders ==
    {Section({<<"number_of_pixels", U2(2, 2)>>, <<"pixel_size", XY(16, 16)>>,
              <<"sensor_thickness", D(16)>>, <<"implant_size", XYZ(8, 8, 8)>>} \cup off) :
        off \in Choices("implant_offset", {XY(4, 0), XY(-4, 4)})}

\* Asymmetric headers with implants.
AsymmetricHeaders ==
    {Section({<<"number_of_pixels", U2(2, 1)>>, <<"pixel_size", XY(8, 8)>>,
              <<"sensor_thickness", D(8)>>, <<"implant_size", XYZ(4, 4, 4)>>,
              <<"sensor_excess_left", D(8)>>})}

(***************************************************************************)
(* A sensor narrower than its grid on x only: a 2x2 grid of 8, excess -4  *)
(* left and right.  The sensor is 8x16x8, so every box the builder makes *)
(* (wrapper, sensor, implants) has a positive size.                        *)
(***************************************************************************)
NarrowHeaders ==
    {Section({<<"number_of_pixels", U2(2, 2)>>, <<"pixel_size", XY(8, 8)>>,
              <<"sensor_thickness", D(8)>>, <<"implant_size", XYZ(4, 4, 4)>>,
              <<"sensor_excess_left", D(-4)>>, <<"sensor_excess_right", D(-4)>>})}

BuilderSupports ==
    {Section({<<"thickness", D(4)>>, <<"size", XY(8, 8)>>, <<"location", S("sensor")>>}),
     Section({<<"thickness", D(4)>>, <<"size", XY(8, 8)>>, <<"material", S("G10")>>,
              <<"hole_size", XY(4, 4)>>}),
     Section({<<"thickness", D(4)>>, <<"size", XY(24, 8)>>, <<"location", S("absolute")>>,
              <<"offset", XYZ(-4, 0, -16)>>}),
     Section({<<"thickness", D(4)>>, <<"size", XY(8, 8)>>, <<"material", S("kapton")>>})}

BuilderMaterials == {"aluminum", "g10"}

(***************************************************************************)
(* The values the configurations give HeaderConfigs: named once more, so  *)
(* that TLC computes each set once instead of at every membership test.  *)
(***************************************************************************)
BuilderHeaderConfigs == BuilderHeaders
SymmetricHeaderConfigs == SymmetricHeaders
AsymmetricHeaderConfigs == AsymmetricHeaders
NarrowHeaderConfigs == NarrowHeaders

=============================================================================
