----------------------------- MODULE GeometryBuilder -----------------------------
(***************************************************************************)
(* DetectorConstructionG4::build of                                        *)
(* src/modules/GeometryBuilderGeant4/DetectorConstructionG4.cpp, composed  *)
(* with the detector model it consumes.                                    *)
(*                                                                         *)
(* The builder runs on the model DetectorModel constructs, once getSize()  *)
(* has returned: the queries it makes are pure, so their results are the  *)
(* ones the DetectorModel variables hold at that point (size, layers and  *)
(* the derived centres).  One action per block of the loop body for one   *)
(* detector: the wrapper, the implants, the sensor and pixel volumes, the *)
(* chip, one support layer per step, and the end of the body.  Geant4     *)
(* objects are abstracted to what the properties tell apart: the kinds of *)
(* solid pushed to solids_, the names registered with the geometry        *)
(* manager, and the boxes placed in the wrapper with their positions in   *)
(* the wrapper's frame.  A thrown ModuleError ends the build in "error".  *)
(***************************************************************************)
EXTENDS DetectorModel

CONSTANT Materials   \* the names the materials_ map holds a G4Material for

VARIABLES
    bpc,         \* the block of build() about to run, "built" or "error"
    worldFound,  \* the logical volume store holds "World_log"
    objects,     \* the names set with geo_manager_->setExternalObject(name, ...)
    solids,      \* solids_: the kinds of solid pushed to it, in order
    placed,      \* the volumes placed in the wrapper, but the supports
    sensorSolid, \* sensor_solid: the sensor box, or the box less the implants
    sensorLog,   \* the solid sensor_log is made of
    supIdx,      \* support_idx
    supPhys      \* *supports_phys: the support placements, in order

builderVars == <<bpc, worldFound, objects, solids, placed, sensorSolid, sensorLog,
                 supIdx, supPhys>>
allVars == <<vars, builderVars>>

Minus(p, q) == [a \in Axes |-> p[a] - q[a]]

\* Mutant: a part is placed relative to getCenter() instead.
BoxFromCenter(part, idx, center, sz) ==
    [part |-> part, idx |-> idx, pos |-> Minus(center, Center), size |-> sz]

(***************************************************************************)
(* A box placed in the wrapper: toG4Vector(X - getGeometricalCenter()),    *)
(* the offset of a part's centre X from the wrapper's centre.             *)
(***************************************************************************)
Box(part, idx, center, sz) ==
    [part |-> part, idx |-> idx, pos |-> Minus(center, GeometricalCenter), size |-> sz]

\* getImplantSize().z() > epsilon, on integer lengths.
HasImplants == m.implantSize.z > 0

\* The pixel cells the implant loops visit.
ImplantCells == (0..(m.nPixels.x - 1)) \X (0..(m.nPixels.y - 1))

(***************************************************************************)
(* The implant of cell c: the transform of its node in the multi-union,    *)
(* added to the position the union is placed at, getSensorCenter() less  *)
(* the geometrical centre.                                                 *)
(***************************************************************************)
ImplantBox(c) ==
    LET node == [x |-> -(GridSize.x \div 2) + c[1] * m.pixelSize.x + m.pixelSize.x \div 2
                         + m.implantOffset.x,
                 y |-> -(GridSize.y \div 2) + c[2] * m.pixelSize.y + m.pixelSize.y \div 2
                         + m.implantOffset.y,
                 z |-> (SensorSize.z - m.implantSize.z) \div 2]
    IN [part |-> "implant", idx |-> c,
        pos |-> Plus(Minus(SensorCenter, GeometricalCenter), node), size |-> m.implantSize]

\* SupportLayer::hasHole() (DetectorModel.hpp, modelled from the spec).
HasHole(l) == l.holeSize.x > 0 /\ l.holeSize.y > 0

BuilderInit ==
    /\ Init
    /\ bpc = "wrapper"
    /\ worldFound \in BOOLEAN
    /\ objects = {}
    /\ solids = << >>
    /\ placed = {}
    /\ sensorSolid = "sensor_box"
    /\ sensorLog = "none"
    /\ supIdx = 0
    /\ supPhys = << >>

\* The model is constructed and queried; the builder waits.
ModelStep == Next /\ UNCHANGED builderVars

(***************************************************************************)
(* Lines 80-112: the wrapper box of getSize(), its logical volume and the  *)
(* rotation are registered; without a world volume ModuleError is thrown  *)
(* before the wrapper is placed.                                          *)
(***************************************************************************)
BuildWrapper ==
    /\ bpc = "wrapper"
    /\ qpc = "done"
    /\ solids' = Append(solids, "wrapper_box")
    /\ \/ /\ ~worldFound
          /\ objects' = objects \cup {"wrapper_log", "rotation_matrix"}
          /\ bpc' = "error"
       \/ /\ worldFound
          /\ objects' = objects \cup {"wrapper_log", "rotation_matrix", "wrapper_phys"}
          /\ bpc' = "implants"
    /\ UNCHANGED <<vars, worldFound, placed, sensorSolid, sensorLog, supIdx, supPhys>>

(***************************************************************************)
(* Lines 121-185: the sensor box; with a non-negligible implant depth, an  *)
(* implant box per pixel cell in a multi-union, then the implant material *)
(* lookup (ModuleError if absent), the implants placed, and sensor_solid  *)
(* set to the sensor box less the union.                                   *)
(***************************************************************************)
BuildImplants ==
    /\ bpc = "implants"
    /\ LET boxes == <<"sensor_box", "implant_union">>
                    \o [n \in 1..(m.nPixels.x * m.nPixels.y) |-> "implant_box"]
       IN \/ /\ ~HasImplants
             /\ solids' = Append(solids, "sensor_box")
             /\ bpc' = "sensor"
             /\ UNCHANGED <<objects, placed, sensorSolid>>
          \/ /\ HasImplants
             /\ m.implantMaterial \notin Materials
             /\ solids' = solids \o boxes
             /\ bpc' = "error"
             /\ UNCHANGED <<objects, placed, sensorSolid>>
          \/ /\ HasImplants
             /\ m.implantMaterial \in Materials
             /\ solids' = solids \o boxes \o <<"sensor_implant_subtraction">>
             /\ objects' = objects \cup {"implants_log", "implants_phys"}
             /\ placed' = placed \cup {ImplantBox(c) : c \in ImplantCells}
             /\ sensorSolid' = "sensor_implant_subtraction"
             /\ bpc' = "sensor"
    /\ UNCHANGED <<vars, worldFound, sensorLog, supIdx, supPhys>>

(***************************************************************************)
(* Lines 187-216: sensor_log is made of sensor_box and placed at the       *)
(* sensor centre; the pixel box, its logical volume and the pixel grid    *)
(* parameterisation are registered but not placed.                         *)
(***************************************************************************)
BuildSensor ==
    /\ bpc = "sensor"
    /\ sensorLog' = "sensor_box"
    /\ placed' = placed \cup {Box("sensor", << >>, SensorCenter, SensorSize)}
    /\ solids' = Append(solids, "pixel_box")
    /\ objects' = objects \cup {"sensor_log", "sensor_phys", "pixel_log", "pixel_param"}
    /\ bpc' = "chip"
    /\ UNCHANGED <<vars, worldFound, sensorSolid, supIdx, supPhys>>

\* Lines 224-244: the chip is built only if it has a thickness (> 1e-9).
BuildChip ==
    /\ bpc = "chip"
    /\ \/ /\ ChipSize.z > 0
          /\ solids' = Append(solids, "chip_box")
          /\ objects' = objects \cup {"chip_log", "chip_phys"}
          /\ placed' = placed \cup {Box("chip", << >>, ChipCenter, ChipSize)}
       \/ /\ ChipSize.z <= 0
          /\ UNCHANGED <<solids, objects, placed>>
    /\ bpc' = "supports"
    /\ UNCHANGED <<vars, worldFound, sensorSolid, sensorLog, supIdx, supPhys>>

(***************************************************************************)
(* Lines 253-306: one layer of getSupportLayers(): its box, less the hole  *)
(* if it has one, then the material lookup (ModuleError if absent) and    *)
(* the placement at the layer's centre.                                    *)
(***************************************************************************)
BuildSupport ==
    /\ bpc = "supports"
    /\ supIdx < Len(layers)
    /\ LET l == layers[supIdx + 1]
       IN /\ solids' = solids \o <<"support_box">>
                      \o (IF HasHole(l) THEN <<"hole_box", "support_subtraction">> ELSE << >>)
          /\ \/ /\ l.material \notin Materials
                /\ bpc' = "error"
                /\ UNCHANGED <<supIdx, supPhys>>
             \/ /\ l.material \in Materials
                /\ supPhys' = Append(supPhys, Box("support", <<supIdx>>, l.center, l.size))
                /\ supIdx' = supIdx + 1
                /\ UNCHANGED bpc
    /\ UNCHANGED <<vars, worldFound, objects, placed, sensorSolid, sensorLog>>

\* Mutant: the support loop stops one layer early.
SupportsDoneEarly ==
    /\ bpc = "supports"
    /\ supIdx + 1 >= Len(layers)
    /\ objects' = objects \cup {"supports_log", "supports_phys"}
    /\ bpc' = "built"
    /\ UNCHANGED <<vars, worldFound, solids, placed, sensorSolid, sensorLog, supIdx, supPhys>>

(***************************************************************************)
(* Lines 307-389: the support vectors are registered; the model is not a   *)
(* HybridPixelDetectorModel, so no bump bonds are built.                   *)
(***************************************************************************)
SupportsDone ==
    /\ bpc = "supports"
    /\ supIdx >= Len(layers)
    /\ objects' = objects \cup {"supports_log", "supports_phys"}
    /\ bpc' = "built"
    /\ UNCHANGED <<vars, worldFound, solids, placed, sensorSolid, sensorLog, supIdx, supPhys>>

BuilderNext ==
    \/ ModelStep
    \/ BuildWrapper \/ BuildImplants \/ BuildSensor \/ BuildChip
    \/ BuildSupport \/ SupportsDone

\* Construction, the queries and the build run on one thread to the end.
BuilderSpec == BuilderInit /\ [][BuilderNext]_allVars /\ WF_allVars(BuilderNext)

-----------------------------------------------------------------------------
(***************************************************************************)
(* Properties.                                                              *)
(***************************************************************************)
Parts == {"implant", "sensor", "chip", "support"}
Placement == [part: Parts, idx: Seq(Int), pos: Vec3, size: Vec3]
ExternalNames ==
    {"wrapper_log", "rotation_matrix", "wrapper_phys", "implants_log", "implants_phys",
     "sensor_log", "sensor_phys", "pixel_log", "pixel_param", "chip_log", "chip_phys",
     "supports_log", "supports_phys"}

\* The kinds of solid build() pushes to solids_.
SolidKinds ==
    {"wrapper_box", "sensor_box", "implant_union", "implant_box",
     "sensor_implant_subtraction", "pixel_box", "chip_box", "support_box", "hole_box",
     "support_subtraction"}

BuilderTypeOK ==
    /\ TypeOK
    /\ bpc \in {"wrapper", "implants", "sensor", "chip", "supports", "built", "error"}
    /\ worldFound \in BOOLEAN
    /\ objects \subseteq ExternalNames
    /\ solids \in Seq(SolidKinds)
    /\ placed \subseteq Placement
    /\ sensorSolid \in {"sensor_box", "sensor_implant_subtraction"}
    /\ sensorLog \in {"none", "sensor_box", "sensor_implant_subtraction"}
    /\ supIdx \in 0..Len(layers)
    /\ supPhys \in Seq(Placement)

\* Every volume the builder has placed in the wrapper, supports included.
Placed == placed \cup {supPhys[n] : n \in 1..Len(supPhys)}

(***************************************************************************)
(* Every volume build() places in the wrapper (implants, sensor, chip and  *)
(* support layers, each at its centre less getGeometricalCenter()) lies   *)
(* inside the wrapper box of the size getSize() returns: the placements   *)
(* of lines 174, 193, 240 and 293 agree with the envelope of lines        *)
(* 113-148.                                                                *)
(***************************************************************************)
WrapperContains ==
    \A p \in Placed : \A a \in Axes : 2 * Abs(p.pos[a]) + p.size[a] <= size[a]

(***************************************************************************)
(* The pixel grid lies in the sensor: a pitch that is not negative and    *)
(* excesses that widen the sensor, as "extending the sensor beyond the     *)
(* pixel grid" (spec section 3) means.  The constructor checks neither    *)
(* (DetectorModel.cpp lines 24 and 31-35).                                 *)
(***************************************************************************)
GridInSensor ==
    \A a \in {"x", "y"} : 0 <= m.pixelSize[a] /\ GridSize[a] <= SensorSize[a]

(***************************************************************************)
(* Whenever the pixel grid lies in the sensor, every volume build()       *)
(* places lies inside the wrapper of getSize(): the implants of lines     *)
(* 149-174 inside the sensor, the sensor, chip and supports inside the    *)
(* envelope of lines 113-148 centred on getGeometricalCenter().           *)
(***************************************************************************)
WrapperContainsCovered == GridInSensor => WrapperContains

\* The external objects a successful build of this model registers.
Expected ==
    {"wrapper_log", "rotation_matrix", "wrapper_phys", "sensor_log", "sensor_phys",
     "pixel_log", "pixel_param", "supports_log", "supports_phys"}
    \cup (IF HasImplants THEN {"implants_log", "implants_phys"} ELSE {})
    \cup (IF ChipSize.z > 0 THEN {"chip_log", "chip_phys"} ELSE {})

(***************************************************************************)
(* A build that finishes has registered exactly the objects of the parts  *)
(* the model has (implants only with a depth, a chip only with a          *)
(* thickness) and placed every layer getSupportLayers() returns, in its   *)
(* order, at its stacked centre.                                           *)
(***************************************************************************)
BuildComplete ==
    bpc = "built" =>
        /\ objects = Expected
        /\ Len(supPhys) = Len(layers)
        /\ \A n \in 1..Len(layers) :
              supPhys[n].pos = Minus(layers[n].center, GeometricalCenter)

\* The centre of pixel cell c in the wrapper's frame (pixel (0,0) at the origin).
CellCenter(c) == [x |-> c[1] * m.pixelSize.x - GeometricalCenter.x,
                  y |-> c[2] * m.pixelSize.y - GeometricalCenter.y]

(***************************************************************************)
(* The comment of line 146 and spec section 3: each implant lies in its    *)
(* pixel cell, offset from the cell's centre by implant_offset.           *)
(***************************************************************************)
ImplantsInCells ==
    \A p \in placed :
        p.part = "implant" =>
            \A a \in {"x", "y"} :
                2 * Abs(p.pos[a] - CellCenter(p.idx)[a]) + p.size[a] <= m.pixelSize[a]

(***************************************************************************)
(* The comment of line 127: when the implants are excised, the sensor's    *)
(* logical volume is the sensor box less the implants, so that the        *)
(* implant and sensor volumes placed in the wrapper do not overlap.       *)
(***************************************************************************)
SensorExcised ==
    sensorLog # "none" /\ HasImplants => sensorLog = sensorSolid

=============================================================================
