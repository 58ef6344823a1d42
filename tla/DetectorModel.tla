------------------------------ MODULE DetectorModel ------------------------------
(***************************************************************************)
(* The detector model of src/core/geometry/DetectorModel.cpp.              *)
(*                                                                         *)
(* The constructor DetectorModel::DetectorModel reads the header section  *)
(* and every "support" section of a configuration reader, validates them  *)
(* and stores the model; it is modelled as one action per block of the    *)
(* constructor, the first failing read or check ending it in "failed".    *)
(* The queries getSize() and getSupportLayers() are modelled as the loops *)
(* they are, one action per iteration, on the stored model: getSize()     *)
(* first takes the sensor and the chip, then calls getSupportLayers()     *)
(* (the stacking loop) and folds the layers it returns.                   *)
(*                                                                         *)
(* Lengths are integers.  The configurations the model is run on use      *)
(* multiples of 4 (ConfigAssumption), so that every halving the code does *)
(* in double arithmetic is exact in integer arithmetic.                    *)
(***************************************************************************)
EXTENDS Integers, Sequences

CONSTANTS
    HeaderConfigs,   \* the header sections the configuration reader may hold
    SupportConfigs,  \* the "support" sections it may hold
    MaxSupports      \* the largest number of "support" sections

(***************************************************************************)
(* Configuration values (spec section 6): a value has a schema ("kind")   *)
(* and its payload in the field named after the schema.  A section is a  *)
(* function from the keys it sets to their values; a key that is not set  *)
(* is outside its DOMAIN.                                                  *)
(***************************************************************************)
Sides == {"top", "bottom", "left", "right"}
Axes == {"x", "y", "z"}
Locations == {"sensor", "chip", "absolute"}

Lengths(val) ==
    CASE val.kind \in {"xy", "xyz"} -> {val[val.kind][a] : a \in DOMAIN val[val.kind]}
      [] val.kind = "double" -> {val.double}
      [] OTHER -> {}

ASSUME MaxSupportsAssumption == MaxSupports \in Nat

Vec2 == [x: Int, y: Int]
Vec3 == [x: Int, y: Int, z: Int]

\* The values of each schema: the payload of a value is named after it.
Value ==
    [kind: {"uint2"}, uint2: [x: Nat, y: Nat]] \cup [kind: {"xy"}, xy: Vec2]
    \cup [kind: {"xyz"}, xyz: Vec3] \cup [kind: {"double"}, double: Int]
    \cup [kind: {"string"}, string: STRING]

ASSUME ConfigAssumption ==
    /\ \A cfg \in HeaderConfigs \cup SupportConfigs :
          /\ DOMAIN cfg \subseteq STRING
          /\ \A key \in DOMAIN cfg : cfg[key] \in Value
    /\ \A cfg \in HeaderConfigs \cup SupportConfigs :
          \A key \in DOMAIN cfg \ {"number_of_pixels"} :
             \A l \in Lengths(cfg[key]) : l % 4 = 0

\* The thicknesses the stacking stacks are not negative.  The code does not
\* check it (DetectorModel.cpp lines 28, 65 and 69); see README, hazards.
ASSUME ThicknessAssumption ==
    /\ \A cfg \in HeaderConfigs :
          \A key \in {"sensor_thickness", "chip_thickness"} \cap DOMAIN cfg :
             cfg[key].kind = "double" => cfg[key].double >= 0
    /\ \A cfg \in SupportConfigs :
          "thickness" \in DOMAIN cfg /\ cfg["thickness"].kind = "double"
             => cfg["thickness"].double >= 0

(***************************************************************************)
(* Configuration::get<T>(key) throws MissingKey when the key is not set    *)
(* and InvalidKey when its value does not have schema T; get<T>(key, def)  *)
(* returns def when the key is not set.                                    *)
(***************************************************************************)
NoError == [kind |-> "none", key |-> "none"]

\* What get<T>(key, def) throws.
ReadOptError(cfg, key, kind) ==
    IF key \in DOMAIN cfg /\ cfg[key].kind # kind THEN [kind |-> "InvalidKey", key |-> key]
    ELSE NoError

\* What get<T>(key) throws.
ReadError(cfg, key, kind) ==
    IF key \notin DOMAIN cfg THEN [kind |-> "MissingKey", key |-> key]
    ELSE ReadOptError(cfg, key, kind)

Get(cfg, key, kind, default) == IF key \in DOMAIN cfg THEN cfg[key][kind] ELSE default

\* InvalidValueError(config, key, ...) thrown when cond holds.
Check(cond, key) == IF cond THEN [kind |-> "InvalidValue", key |-> key] ELSE NoError

\* The error of the first of a sequence of reads and checks that throws.
FirstError(errs) ==
    LET IsFirst(n) == errs[n] # NoError /\ \A p \in 1..(n - 1) : errs[p] = NoError
    IN IF \E n \in DOMAIN errs : IsFirst(n)
       THEN errs[CHOOSE n \in DOMAIN errs : IsFirst(n)]
       ELSE NoError

\* std::transform(..., ::tolower) on the tokens the configurations use.
Lower(s) ==
    CASE s = "Sensor" -> "sensor"
      [] s = "CHIP" -> "chip"
      [] s = "Absolute" -> "absolute"
      [] s = "G10" -> "g10"
      [] OTHER -> s

Abs(a) == IF a < 0 THEN -a ELSE a
Max(a, b) == IF a >= b THEN a ELSE b
Min(a, b) == IF a <= b THEN a ELSE b

Zero2 == [x |-> 0, y |-> 0]
Origin == [x |-> 0, y |-> 0, z |-> 0]
Plus(p, q) == [a \in Axes |-> p[a] + q[a]]

SideKey == [top |-> "sensor_excess_top", bottom |-> "sensor_excess_bottom",
            left |-> "sensor_excess_left", right |-> "sensor_excess_right"]

VARIABLES
    hdr,    \* the header section of the configuration reader
    secs,   \* its "support" sections, in declaration order
    pc,     \* the constructor's progress: a block of it, "ready" or "failed"
    err,    \* the error the constructor threw
    m,      \* the fields of the model
    i,      \* the "support" section the constructor reads next
    qpc,    \* the progress of getSize() on the constructed model
    sOff,   \* getSupportLayers(): sensor_offset
    cOff,   \* getSupportLayers(): chip_offset
    j,      \* getSupportLayers(): the layer it places next
    layers, \* getSupportLayers(): ret_layers
    k,      \* getSize(): the support layer it takes next
    hi,     \* getSize(): max
    lo,     \* getSize(): min
    size    \* getSize(): its result

ctorVars == <<hdr, secs, pc, err, m, i>>
queryVars == <<qpc, sOff, cOff, j, layers, k, hi, lo, size>>
vars == <<ctorVars, queryVars>>

(***************************************************************************)
(* The derived geometry of DetectorModel.hpp (not under src/, modelled    *)
(* from the spec): the local frame has the centre of pixel (0,0) at the   *)
(* origin, getCenter() is the centre of the pixel grid, the sensor is the *)
(* grid widened by the four excesses, the chip lies on the sensor.        *)
(***************************************************************************)
GridSize == [x |-> m.nPixels.x * m.pixelSize.x, y |-> m.nPixels.y * m.pixelSize.y,
             z |-> m.sensorThickness]
Center == [x |-> GridSize.x \div 2 - m.pixelSize.x \div 2,
           y |-> GridSize.y \div 2 - m.pixelSize.y \div 2, z |-> 0]
SensorSize == [x |-> GridSize.x + m.excess.left + m.excess.right,
               y |-> GridSize.y + m.excess.top + m.excess.bottom,
               z |-> m.sensorThickness]
SensorCenter == Plus(Center, [x |-> (m.excess.right - m.excess.left) \div 2,
                              y |-> (m.excess.top - m.excess.bottom) \div 2, z |-> 0])
ChipSize == [SensorSize EXCEPT !.z = m.chipThickness]
ChipCenter == [SensorCenter EXCEPT !.z = Center.z + SensorSize.z \div 2 + ChipSize.z \div 2]

\* The base elements getSize() starts from (lines 119-120).
BaseElements == {[center |-> SensorCenter, size |-> SensorSize],
                 [center |-> ChipCenter, size |-> ChipSize]}

-----------------------------------------------------------------------------
(***************************************************************************)
(* The constructor.                                                         *)
(***************************************************************************)
EmptyModel ==
    [nPixels |-> Zero2, pixelSize |-> Zero2, sensorThickness |-> 0,
     excess |-> [s \in Sides |-> 0], implantSize |-> Origin,
     implantMaterial |-> "", implantOffset |-> Zero2, chipThickness |-> 0,
     supportLayers |-> << >>]

SupportSeqs == UNION {[1..n -> SupportConfigs] : n \in 0..MaxSupports}

Init ==
    /\ hdr \in HeaderConfigs
    /\ secs \in SupportSeqs
    /\ pc = "grid"
    /\ err = NoError
    /\ m = EmptyModel
    /\ i = 1
    /\ qpc = "idle"
    /\ sOff = 0 /\ cOff = 0 /\ j = 1 /\ layers = << >>
    /\ k = 1 /\ hi = Origin /\ lo = Origin /\ size = Origin

\* The constructor throws e: construction is abandoned.
Fail(e) ==
    /\ pc' = "failed"
    /\ err' = e
    /\ UNCHANGED <<hdr, secs, m, i, queryVars>>

\* Continue to block next with the model fields updated to fields.
Go(next, fields) ==
    /\ pc' = next
    /\ m' = fields
    /\ UNCHANGED <<hdr, secs, err, i, queryVars>>

\* Lines 18-28: the required number_of_pixels, pixel_size and sensor_thickness.
ReadGrid ==
    /\ pc = "grid"
    /\ LET e == FirstError(<< ReadError(hdr, "number_of_pixels", "uint2"),
                              ReadError(hdr, "pixel_size", "xy"),
                              ReadError(hdr, "sensor_thickness", "double") >>)
       IN \/ e # NoError /\ Fail(e)
          \/ /\ e = NoError
             /\ Go("excess", [m EXCEPT !.nPixels = hdr["number_of_pixels"].uint2,
                                       !.pixelSize = hdr["pixel_size"].xy,
                                       !.sensorThickness = hdr["sensor_thickness"].double])

\* Lines 30-35: the shared sensor_excess and the four per-side excesses.
ReadExcess ==
    /\ pc = "excess"
    /\ LET e == FirstError(<< ReadOptError(hdr, "sensor_excess", "double"),
                              ReadOptError(hdr, SideKey.top, "double"),
                              ReadOptError(hdr, SideKey.bottom, "double"),
                              ReadOptError(hdr, SideKey.left, "double"),
                              ReadOptError(hdr, SideKey.right, "double") >>)
           default == Get(hdr, "sensor_excess", "double", 0)
       IN \/ e # NoError /\ Fail(e)
          \/ /\ e = NoError
             /\ Go("implant_size",
                   [m EXCEPT !.excess = [s \in Sides |-> Get(hdr, SideKey[s], "double", default)]])

\* Lines 39-46: the 3D read, and on its ConfigurationError the 2D read.
ImplantFallbackError ==
    IF ReadError(hdr, "implant_size", "xyz") = NoError THEN NoError
    ELSE ReadOptError(hdr, "implant_size", "xy")

ImplantSizeRead ==
    IF ReadError(hdr, "implant_size", "xyz") = NoError THEN hdr["implant_size"].xyz
    ELSE LET area == Get(hdr, "implant_size", "xy", m.pixelSize)
         IN [x |-> area.x, y |-> area.y, z |-> 0]

\* Lines 37-54: implant size, its bounds, and implant_material.
ReadImplantSize ==
    /\ pc = "implant_size"
    /\ \/ ImplantFallbackError # NoError /\ Fail(ImplantFallbackError)
       \/ /\ ImplantFallbackError = NoError
          /\ LET s == ImplantSizeRead
                 e == FirstError(<<
                        Check(s.x > m.pixelSize.x \/ s.y > m.pixelSize.y, "implant_size"),
                        Check(s.z > SensorSize.z, "implant_size"),
                        ReadOptError(hdr, "implant_material", "string") >>)
             IN \/ e # NoError /\ Fail(e)
                \/ /\ e = NoError
                   /\ Go("implant_offset",
                         [m EXCEPT !.implantSize = s,
                                   !.implantMaterial = Get(hdr, "implant_material", "string", "aluminum")])

\* Mutant: the containment test without std::fabs.
ImplantExceedsCellNoFabs(off, s) ==
    \/ off.x + s.x \div 2 > m.pixelSize.x \div 2
    \/ off.y + s.y \div 2 > m.pixelSize.y \div 2

\* The containment test of lines 58-59.
ImplantExceedsCell(off, s) ==
    \/ Abs(off.x) + s.x \div 2 > m.pixelSize.x \div 2
    \/ Abs(off.y) + s.y \div 2 > m.pixelSize.y \div 2

\* Lines 56-62: implant_offset and the containment of the implant in its cell.
ReadImplantOffset ==
    /\ pc = "implant_offset"
    /\ LET e == ReadOptError(hdr, "implant_offset", "xy")
       IN \/ e # NoError /\ Fail(e)
          \/ /\ e = NoError
             /\ LET off == Get(hdr, "implant_offset", "xy", Zero2)
                IN \/ /\ ImplantExceedsCell(off, m.implantSize)
                      /\ Fail(Check(TRUE, "implant_offset"))
                   \/ /\ ~ImplantExceedsCell(off, m.implantSize)
                      /\ Go("chip", [m EXCEPT !.implantOffset = off])

\* Lines 64-65: chip_thickness, defaulting to 0; then the support loop.
ReadChip ==
    /\ pc = "chip"
    /\ LET e == ReadOptError(hdr, "chip_thickness", "double")
       IN \/ e # NoError /\ Fail(e)
          \/ /\ e = NoError
             /\ pc' = "support"
             /\ m' = [m EXCEPT !.chipThickness = Get(hdr, "chip_thickness", "double", 0)]
             /\ i' = 1
             /\ UNCHANGED <<hdr, secs, err, queryVars>>

\* The location of a support section, lower-cased (lines 71-72).
LocationOf(s) == Lower(Get(s, "location", "string", "chip"))

\* The reads and the check of lines 69-88, in the order the code makes them.
SupportErrors(s) ==
    << ReadError(s, "thickness", "double"),
       ReadError(s, "size", "xy"),
       ReadOptError(s, "location", "string"),
       Check(LocationOf(s) \notin Locations, "location"),
       IF LocationOf(s) = "absolute" THEN ReadError(s, "offset", "xyz")
       ELSE ReadOptError(s, "offset", "xy"),
       ReadOptError(s, "material", "string"),
       ReadOptError(s, "hole_size", "xy"),
       ReadOptError(s, "hole_offset", "xy") >>

\* The layer addSupportLayer stores (DetectorModel.hpp): size and hole size
\* take the thickness as z; the centre is not computed here.
NewLayer(s) ==
    LET t == s["thickness"].double
        xy == s["size"].xy
        hole == Get(s, "hole_size", "xy", Zero2)
        off == IF LocationOf(s) = "absolute" THEN s["offset"].xyz
               ELSE LET o == Get(s, "offset", "xy", Zero2) IN [x |-> o.x, y |-> o.y, z |-> 0]
    IN [size |-> [x |-> xy.x, y |-> xy.y, z |-> t],
        offset |-> off,
        location |-> LocationOf(s),
        material |-> Lower(Get(s, "material", "string", "g10")),
        holeSize |-> [x |-> hole.x, y |-> hole.y, z |-> t],
        holeOffset |-> Get(s, "hole_offset", "xy", Zero2),
        center |-> Origin]

\* Mutant: the loop skips a section.
ReadSupportSkipping ==
    /\ pc = "support"
    /\ i <= Len(secs)
    /\ LET e == FirstError(SupportErrors(secs[i]))
       IN \/ e # NoError /\ Fail(e)
          \/ /\ e = NoError
             /\ m' = [m EXCEPT !.supportLayers = Append(@, NewLayer(secs[i]))]
             /\ i' = i + 2
             /\ UNCHANGED <<hdr, secs, pc, err, queryVars>>

\* Lines 68-90: one "support" section, appended in declaration order.
ReadSupport ==
    /\ pc = "support"
    /\ i <= Len(secs)
    /\ LET e == FirstError(SupportErrors(secs[i]))
       IN \/ e # NoError /\ Fail(e)
          \/ /\ e = NoError
             /\ m' = [m EXCEPT !.supportLayers = Append(@, NewLayer(secs[i]))]
             /\ i' = i + 1
             /\ UNCHANGED <<hdr, secs, pc, err, queryVars>>

\* Mutant: the loop's end test is off by one.
ConstructedLate ==
    /\ pc = "support"
    /\ i > Len(secs) + 1
    /\ pc' = "ready"
    /\ UNCHANGED <<hdr, secs, err, m, i, queryVars>>

\* Line 91: the constructor returns.
Constructed ==
    /\ pc = "support"
    /\ i > Len(secs)
    /\ pc' = "ready"
    /\ UNCHANGED <<hdr, secs, err, m, i, queryVars>>

-----------------------------------------------------------------------------
(***************************************************************************)
(* getSize() and the getSupportLayers() call it makes.                      *)
(***************************************************************************)
Top(e, a) == e.center[a] + e.size[a] \div 2
Bottom(e, a) == e.center[a] - e.size[a] \div 2

\* Lines 114-129: max and min over the sensor and the chip.
SizeBase ==
    /\ pc = "ready"
    /\ qpc = "idle"
    /\ hi' = [a \in Axes |-> Max(Top([center |-> SensorCenter, size |-> SensorSize], a),
                                 Top([center |-> ChipCenter, size |-> ChipSize], a))]
    /\ lo' = [a \in Axes |-> Min(Bottom([center |-> SensorCenter, size |-> SensorSize], a),
                                 Bottom([center |-> ChipCenter, size |-> ChipSize], a))]
    /\ qpc' = "stack"
    /\ UNCHANGED <<ctorVars, sOff, cOff, j, layers, k, size>>

\* Mutant: chip_offset starts at the chip's front face.
StackBeginNoChip ==
    /\ qpc = "stack"
    /\ layers' = m.supportLayers
    /\ sOff' = -(SensorSize.z \div 2)
    /\ cOff' = SensorSize.z \div 2
    /\ j' = 1
    /\ qpc' = "stacking"
    /\ UNCHANGED <<ctorVars, k, hi, lo, size>>

\* Lines 151-154: getSupportLayers() copies the layers and sets the offsets.
StackBegin ==
    /\ qpc = "stack"
    /\ layers' = m.supportLayers
    /\ sOff' = -(SensorSize.z \div 2)
    /\ cOff' = SensorSize.z \div 2 + ChipSize.z
    /\ j' = 1
    /\ qpc' = "stacking"
    /\ UNCHANGED <<ctorVars, k, hi, lo, size>>

\* Mutant: the offset is advanced before the layer is placed.
StackStepAdvanceFirst ==
    /\ qpc = "stacking"
    /\ j <= Len(layers)
    /\ LET l == layers[j]
           t == l.size.z
           Place(z) == layers' = [layers EXCEPT ![j].center = Plus(Center, [l.offset EXCEPT !.z = z])]
       IN \/ /\ l.location = "sensor"
             /\ Place(sOff - t - t \div 2)
             /\ sOff' = sOff - t
             /\ UNCHANGED cOff
          \/ /\ l.location = "chip"
             /\ Place(cOff + t + t \div 2)
             /\ cOff' = cOff + t
             /\ UNCHANGED sOff
          \/ /\ l.location \notin {"sensor", "chip"}
             /\ Place(l.offset.z)
             /\ UNCHANGED <<sOff, cOff>>
    /\ j' = j + 1
    /\ UNCHANGED <<ctorVars, qpc, k, hi, lo, size>>

\* Lines 156-165: one layer: sensor layers stack down from sensor_offset,
\* chip layers up from chip_offset, an absolute layer keeps its offset.
StackStep ==
    /\ qpc = "stacking"
    /\ j <= Len(layers)
    /\ LET l == layers[j]
           t == l.size.z
           Place(z) == layers' = [layers EXCEPT ![j].center = Plus(Center, [l.offset EXCEPT !.z = z])]
       IN \/ /\ l.location = "sensor"
             /\ Place(sOff - t \div 2)
             /\ sOff' = sOff - t
             /\ UNCHANGED cOff
          \/ /\ l.location = "chip"
             /\ Place(cOff + t \div 2)
             /\ cOff' = cOff + t
             /\ UNCHANGED sOff
          \/ /\ l.location \notin {"sensor", "chip"}
             /\ Place(l.offset.z)
             /\ UNCHANGED <<sOff, cOff>>
    /\ j' = j + 1
    /\ UNCHANGED <<ctorVars, qpc, k, hi, lo, size>>

\* Line 168: getSupportLayers() returns; getSize() loops over its result.
StackEnd ==
    /\ qpc = "stacking"
    /\ j > Len(layers)
    /\ qpc' = "supports"
    /\ k' = 1
    /\ UNCHANGED <<ctorVars, sOff, cOff, j, layers, hi, lo, size>>

\* Lines 131-140: one support layer widens max and min.
SizeStep ==
    /\ qpc = "supports"
    /\ k <= Len(layers)
    /\ hi' = [a \in Axes |-> Max(hi[a], Top(layers[k], a))]
    /\ lo' = [a \in Axes |-> Min(lo[a], Bottom(layers[k], a))]
    /\ k' = k + 1
    /\ UNCHANGED <<ctorVars, qpc, sOff, cOff, j, layers, size>>

\* Mutant: x and y take the true extent instead of mirroring it.
SizeEndTrueExtent ==
    /\ qpc = "supports"
    /\ k > Len(layers)
    /\ size' = [x |-> hi.x - lo.x,
                y |-> hi.y - lo.y,
                z |-> (hi.z - Center.z) + (Center.z - lo.z)]
    /\ qpc' = "done"
    /\ UNCHANGED <<ctorVars, sOff, cOff, j, layers, k, hi, lo>>

\* Lines 142-147: x and y mirror the larger one-sided extent, z sums both.
SizeEnd ==
    /\ qpc = "supports"
    /\ k > Len(layers)
    /\ size' = [x |-> 2 * Max(hi.x - Center.x, Center.x - lo.x),
                y |-> 2 * Max(hi.y - Center.y, Center.y - lo.y),
                z |-> (hi.z - Center.z) + (Center.z - lo.z)]
    /\ qpc' = "done"
    /\ UNCHANGED <<ctorVars, sOff, cOff, j, layers, k, hi, lo>>

Next ==
    \/ ReadGrid \/ ReadExcess \/ ReadImplantSize \/ ReadImplantOffset
    \/ ReadChip \/ ReadSupport \/ Constructed
    \/ SizeBase \/ StackBegin \/ StackStep \/ StackEnd \/ SizeStep \/ SizeEnd

\* The constructor and the queries run to completion on a single thread.
Spec == Init /\ [][Next]_vars /\ WF_vars(Next)

-----------------------------------------------------------------------------
(***************************************************************************)
(* getGeometricalCenter() (DetectorModel.hpp, modelled from the spec): the *)
(* centre of the envelope getSize() describes; x and y are mirrored about *)
(* getCenter(), z spans min to max.                                        *)
(***************************************************************************)
GeometricalCenter == [Center EXCEPT !.z = (hi.z + lo.z) \div 2]

-----------------------------------------------------------------------------
(***************************************************************************)
(* Properties.                                                              *)
(***************************************************************************)
\* The keys the constructor reads.
Keys == {"number_of_pixels", "pixel_size", "sensor_thickness", "sensor_excess",
         "sensor_excess_top", "sensor_excess_bottom", "sensor_excess_left",
         "sensor_excess_right", "implant_size", "implant_material", "implant_offset",
         "chip_thickness", "thickness", "size", "location", "offset", "material",
         "hole_size", "hole_offset"}

\* The strings of the configuration and the literals of the code.
Names == STRING \cup Locations \cup {"g10", "aluminum", ""}

Layer == [size: Vec3, offset: Vec3, location: Locations, material: Names,
          holeSize: Vec3, holeOffset: Vec2, center: Vec3]
Error == {NoError} \cup [kind: {"MissingKey", "InvalidKey", "InvalidValue"}, key: Keys]

Model == [nPixels: Vec2, pixelSize: Vec2, sensorThickness: Int, excess: [Sides -> Int],
          implantSize: Vec3, implantMaterial: Names, implantOffset: Vec2,
          chipThickness: Int, supportLayers: Seq(Layer)]

TypeOK ==
    /\ hdr \in HeaderConfigs
    /\ secs \in Seq(SupportConfigs)
    /\ pc \in {"grid", "excess", "implant_size", "implant_offset", "chip",
               "support", "ready", "failed"}
    /\ err \in Error
    /\ m \in Model
    /\ i \in 1..(Len(secs) + 1)
    /\ qpc \in {"idle", "stack", "stacking", "supports", "done"}
    /\ sOff \in Int /\ cOff \in Int /\ hi \in Vec3 /\ lo \in Vec3 /\ size \in Vec3
    /\ layers \in Seq(Layer)
    /\ j \in 1..(Len(layers) + 1) /\ k \in 1..(Len(layers) + 1)

\* getSupportLayers() has placed every layer.
Stacked == qpc \in {"supports", "done"}

\* The thickness of the layers before layer n that share location loc.
ThicknessBefore(loc, n) ==
    LET L == m.supportLayers
        f[p \in 0..Len(L)] ==
            IF p = 0 THEN 0
            ELSE f[p - 1] + (IF L[p].location = loc THEN L[p].size.z ELSE 0)
    IN f[n - 1]

\* Spec section 4.2 in closed form: the z offset of layer n.
ReferenceZ(n) ==
    LET l == m.supportLayers[n]
    IN CASE l.location = "sensor" ->
              -(m.sensorThickness \div 2) - ThicknessBefore("sensor", n) - l.size.z \div 2
         [] l.location = "chip" ->
              m.sensorThickness \div 2 + m.chipThickness
                + ThicknessBefore("chip", n) + l.size.z \div 2
         [] OTHER -> l.offset.z

(***************************************************************************)
(* The centres getSupportLayers() computes (lines 150-168) are those of    *)
(* the stacking rule: a sensor (chip) layer lies right below (above) the   *)
(* sensor (chip) and every sensor (chip) layer declared before it; an      *)
(* absolute layer is at its declared offset; x and y are the offset's.     *)
(***************************************************************************)
StackMatchesReference ==
    Stacked =>
        \A n \in 1..Len(layers) :
            layers[n].center = Plus(Center, [m.supportLayers[n].offset EXCEPT !.z = ReferenceZ(n)])

ZDisjoint(e, f) == Top(e, "z") <= Bottom(f, "z") \/ Top(f, "z") <= Bottom(e, "z")

SensorElement == [center |-> SensorCenter, size |-> SensorSize]
ChipElement == [center |-> ChipCenter, size |-> ChipSize]
StackedIndices == {n \in 1..Len(layers) : layers[n].location \in {"sensor", "chip"}}

(***************************************************************************)
(* The layers getSupportLayers() stacks never overlap in z: sensor layers  *)
(* lie below the sensor's back face, chip layers above the chip's, and no  *)
(* two stacked layers overlap one another, whatever order the sections    *)
(* are declared in (lines 153-163).                                        *)
(***************************************************************************)
NoOverlap ==
    Stacked =>
        /\ \A n \in StackedIndices :
              IF layers[n].location = "sensor"
              THEN Top(layers[n], "z") <= Bottom(SensorElement, "z")
              ELSE Bottom(layers[n], "z") >= Top(ChipElement, "z")
        /\ \A n1, n2 \in StackedIndices : n1 # n2 => ZDisjoint(layers[n1], layers[n2])

(***************************************************************************)
(* The box of the size getSize() returns (lines 113-148), centred on the   *)
(* geometrical centre, encloses the sensor, the chip and every support    *)
(* layer: the wrapper volume the Geant4 builder makes of it holds all the *)
(* parts it places in it.                                                  *)
(***************************************************************************)
EnvelopeContains ==
    qpc = "done" =>
        \A e \in BaseElements \cup {layers[n] : n \in 1..Len(layers)} :
            \A a \in Axes :
                /\ GeometricalCenter[a] - size[a] \div 2 <= Bottom(e, a)
                /\ Top(e, a) <= GeometricalCenter[a] + size[a] \div 2

(***************************************************************************)
(* Spec section 4.2: each layer on the sensor (chip) side lies strictly    *)
(* farther from the sensor (chip) than the ones declared before it.       *)
(***************************************************************************)
StrictlyFarther ==
    Stacked =>
        \A n1, n2 \in 1..Len(layers) :
            n1 < n2 /\ layers[n1].location = layers[n2].location =>
                /\ layers[n1].location = "sensor" => layers[n2].center.z < layers[n1].center.z
                /\ layers[n1].location = "chip" => layers[n2].center.z > layers[n1].center.z

(***************************************************************************)
(* A constructed model satisfies the invariants of spec section 3: the     *)
(* implant fits the pixel pitch and the sensor depth, stays inside its     *)
(* pixel cell, and every support layer has one of the three locations.    *)
(***************************************************************************)
ModelValid ==
    pc = "ready" =>
        /\ m.implantSize.x <= m.pixelSize.x
        /\ m.implantSize.y <= m.pixelSize.y
        /\ m.implantSize.z <= m.sensorThickness
        /\ Abs(m.implantOffset.x) + m.implantSize.x \div 2 <= m.pixelSize.x \div 2
        /\ Abs(m.implantOffset.y) + m.implantSize.y \div 2 <= m.pixelSize.y \div 2
        /\ \A n \in 1..Len(m.supportLayers) : m.supportLayers[n].location \in Locations

(***************************************************************************)
(* Construction and the getSize() query on its result always finish.      *)
(***************************************************************************)
Termination == <>(pc = "failed" \/ qpc = "done")

=============================================================================
