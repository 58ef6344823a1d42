-------------------------- MODULE GeometryBuilder_proofs --------------------------
(***************************************************************************)
(* Proofs about DetectorConstructionG4::build (GeometryBuilder): every    *)
(* state of the model, the query and the build is well typed, for every  *)
(* configuration and every set of materials.                               *)
(***************************************************************************)
EXTENDS GeometryBuilder, DetectorModel_proofs

\* The steps of the model and the query keep TypeInv (the argument of
\* TypeCorrect, stated for a step).
LEMMA NextTypeInv == TypeInv /\ [Next]_vars => TypeInv'
<1> SUFFICES ASSUME TypeInv, [Next]_vars PROVE TypeInv'
  OBVIOUS
<1>1. CASE UNCHANGED vars
  BY <1>1 DEF vars, ctorVars, queryVars, TypeInv, TypeOK
<1> QED
  BY <1>1, ReadGridTypeInv, ReadExcessTypeInv, ReadImplantSizeTypeInv,
     ReadImplantOffsetTypeInv, ReadChipTypeInv, ReadSupportTypeInv, ConstructedTypeInv,
     SizeBaseTypeInv, StackBeginTypeInv, StackStepTypeInv, StackEndTypeInv,
     SizeStepTypeInv, SizeEndTypeInv DEF Next

\* A step of the constructor leaves the query's variables alone.
LEMMA FailGoQuery ==
    ASSUME NEW e, NEW next, NEW fields
    PROVE  /\ Fail(e) => UNCHANGED queryVars
           /\ Go(next, fields) => UNCHANGED queryVars
BY DEF Fail, Go

(***************************************************************************)
(* Once getSize() has returned, no step of the model changes what it      *)
(* computed: the constructor's steps leave the query alone, and every     *)
(* step of the query needs it unfinished.  The builder relies on this:    *)
(* it reads the layers and the envelope after getSize().                  *)
(***************************************************************************)
LEMMA QueryDoneStable ==
    ASSUME qpc = "done", [Next]_vars
    PROVE  UNCHANGED queryVars
<1>1. CASE ReadGrid \/ ReadExcess \/ ReadImplantSize \/ ReadImplantOffset
  BY <1>1, FailGoQuery DEF ReadGrid, ReadExcess, ReadImplantSize, ReadImplantOffset
<1>2. CASE ReadChip \/ ReadSupport \/ Constructed
  BY <1>2, FailGoQuery DEF ReadChip, ReadSupport, Constructed
<1>3. CASE SizeBase \/ StackBegin \/ StackStep \/ StackEnd \/ SizeStep \/ SizeEnd
  BY <1>3 DEF SizeBase, StackBegin, StackStep, StackEnd, SizeStep, SizeEnd
<1>4. CASE UNCHANGED vars
  BY <1>4 DEF vars
<1> QED
  BY <1>1, <1>2, <1>3, <1>4 DEF Next

-----------------------------------------------------------------------------
(***************************************************************************)
(* Lemmas on the values the builder makes.                                 *)
(***************************************************************************)
LEMMA ConcatIn ==
    ASSUME NEW S, NEW p \in Seq(S), NEW q \in Seq(S)
    PROVE  p \o q \in Seq(S)
  OBVIOUS

LEMMA AppendIn ==
    ASSUME NEW S, NEW p \in Seq(S), NEW e \in S
    PROVE  Append(p, e) \in Seq(S)
  OBVIOUS

\* K copies of one solid kind, as the implant loop pushes them.
LEMMA RepeatIn ==
    ASSUME NEW S, NEW e \in S, NEW K \in Int
    PROVE  [n \in 1..K |-> e] \in Seq(S)
<1>1. CASE K < 1
  <2>1. 1..K = 1..0
    BY <1>1
  <2> QED
    BY <2>1
<1>2. CASE K >= 1
  BY <1>2
<1> QED
  BY <1>1, <1>2

LEMMA HalfInt ==
    ASSUME NEW a \in Int
    PROVE  a \div 2 \in Int
  OBVIOUS

\* The centre of the wrapper is a point once getSize() has run.
LEMMA GeometricalCenterType ==
    ASSUME TypeOK
    PROVE  GeometricalCenter \in Vec3
<1>0. m \in Model
  BY DEF TypeOK
<1>1. Center \in Vec3
  BY <1>0, GeometryType
<1>2. hi.z \in Int /\ lo.z \in Int
  BY DEF TypeOK, Vec3
<1> QED
  BY <1>1, <1>2 DEF GeometricalCenter, Vec3

LEMMA BoxType ==
    ASSUME TypeOK, NEW part \in Parts, NEW idx \in Seq(Int), NEW c \in Vec3,
           NEW sz \in Vec3
    PROVE  Box(part, idx, c, sz) \in Placement
<1>1. GeometricalCenter \in Vec3
  BY GeometricalCenterType
<1> QED
  BY <1>1 DEF Box, Minus, Placement, Vec3, Axes

\* The implant of a pixel cell is a placement.
LEMMA ImplantBoxType ==
    ASSUME TypeOK, NEW c \in ImplantCells
    PROVE  ImplantBox(c) \in Placement
<1>1. /\ m.nPixels \in Vec2 /\ m.pixelSize \in Vec2 /\ m.implantOffset \in Vec2
      /\ m.implantSize \in Vec3 /\ m.sensorThickness \in Int
  BY DEF TypeOK, Model
<1>0. m \in Model
  BY DEF TypeOK
<1>2. /\ GridSize \in Vec3 /\ SensorSize \in Vec3 /\ SensorCenter \in Vec3
      /\ GeometricalCenter \in Vec3
  <2>1. SensorSize \in Vec3 /\ SensorCenter \in Vec3
    BY <1>0, GeometryType
  <2>2. GridSize \in Vec3
    BY <1>1 DEF GridSize, Vec2, Vec3
  <2> QED
    BY <2>1, <2>2, GeometricalCenterType
<1>3. c[1] \in Int /\ c[2] \in Int /\ c \in Seq(Int)
  <2>1. PICK a \in 0..(m.nPixels.x - 1), b \in 0..(m.nPixels.y - 1) : c = <<a, b>>
    BY DEF ImplantCells
  <2>2. a \in Int /\ b \in Int
    BY <1>1, <2>1 DEF Vec2
  <2>3. <<a, b>> \in Seq(Int)
    BY <2>2
  <2> QED
    BY <2>1, <2>2, <2>3
<1>4. Minus(SensorCenter, GeometricalCenter) \in Vec3
  BY <1>2 DEF Minus, Vec3, Axes
<1> DEFINE node == [x |-> -(GridSize.x \div 2) + c[1] * m.pixelSize.x + m.pixelSize.x \div 2
                           + m.implantOffset.x,
                    y |-> -(GridSize.y \div 2) + c[2] * m.pixelSize.y + m.pixelSize.y \div 2
                           + m.implantOffset.y,
                    z |-> (SensorSize.z - m.implantSize.z) \div 2]
<1>5. node \in Vec3
  <2>1. /\ GridSize.x \in Int /\ GridSize.y \in Int /\ SensorSize.z \in Int
        /\ m.pixelSize.x \in Int /\ m.pixelSize.y \in Int
        /\ m.implantOffset.x \in Int /\ m.implantOffset.y \in Int
        /\ m.implantSize.z \in Int
    BY <1>1, <1>2 DEF Vec2, Vec3
  <2>2. -(GridSize.x \div 2) + c[1] * m.pixelSize.x + m.pixelSize.x \div 2
          + m.implantOffset.x \in Int
    <3>1. GridSize.x \div 2 \in Int /\ m.pixelSize.x \div 2 \in Int
      BY <2>1, HalfInt
    <3>2. c[1] * m.pixelSize.x \in Int
      BY <2>1, <1>3
    <3> QED
      BY <3>1, <3>2, <2>1
  <2>3. -(GridSize.y \div 2) + c[2] * m.pixelSize.y + m.pixelSize.y \div 2
          + m.implantOffset.y \in Int
    <3>1. GridSize.y \div 2 \in Int /\ m.pixelSize.y \div 2 \in Int
      BY <2>1, HalfInt
    <3>2. c[2] * m.pixelSize.y \in Int
      BY <2>1, <1>3
    <3> QED
      BY <3>1, <3>2, <2>1
  <2>4. (SensorSize.z - m.implantSize.z) \div 2 \in Int
    BY <2>1, HalfInt
  <2> QED
    BY <2>2, <2>3, <2>4 DEF Vec3, node
<1>6. Plus(Minus(SensorCenter, GeometricalCenter), node) \in Vec3
  BY <1>4, <1>5, PlusType
<1> QED
  BY <1>1, <1>3, <1>6 DEF ImplantBox, Placement, Parts

-----------------------------------------------------------------------------
(***************************************************************************)
(* The inductive invariant.  BuilderTypeOK bounds support_idx by the       *)
(* layers of getSize(), which the query writes; the builder starts only  *)
(* once getSize() is done, and until then support_idx is 0.               *)
(***************************************************************************)
BuilderInv ==
    /\ TypeInv
    /\ BuilderTypeOK
    /\ bpc # "wrapper" => qpc = "done"
    /\ bpc = "wrapper" => supIdx = 0

LEMMA BuilderInitInv == BuilderInit => BuilderInv
<1> SUFFICES ASSUME BuilderInit PROVE BuilderInv
  OBVIOUS
<1>1. TypeInv
  BY InitTypeInv DEF BuilderInit
<1>2. Len(layers) \in Nat
  BY <1>1 DEF TypeInv, TypeOK
<1> QED
  BY <1>1, <1>2 DEF BuilderInit, BuilderInv, BuilderTypeOK, TypeInv

LEMMA ModelStepInv == BuilderInv /\ ModelStep => BuilderInv'
<1> SUFFICES ASSUME BuilderInv, ModelStep PROVE BuilderInv'
  OBVIOUS
<1>1. TypeInv'
  BY NextTypeInv DEF BuilderInv, ModelStep
<1>2. UNCHANGED builderVars
  BY DEF ModelStep
<1>3. supIdx' \in 0..Len(layers')
  <2>1. CASE bpc = "wrapper"
    BY <1>1, <1>2, <2>1 DEF BuilderInv, builderVars, TypeInv, TypeOK
  <2>2. CASE bpc # "wrapper"
    <3>1. qpc = "done"
      BY <2>2 DEF BuilderInv
    <3>2. UNCHANGED queryVars
      BY <3>1, QueryDoneStable DEF ModelStep
    <3> QED
      BY <1>2, <3>2 DEF BuilderInv, BuilderTypeOK, builderVars, queryVars
  <2> QED
    BY <2>1, <2>2
<1>4. bpc' # "wrapper" => qpc' = "done"
  <2>1. CASE bpc # "wrapper"
    BY <2>1, QueryDoneStable DEF BuilderInv, ModelStep, queryVars
  <2> QED
    BY <1>2, <2>1 DEF builderVars
<1> QED
  BY <1>1, <1>2, <1>3, <1>4 DEF BuilderInv, BuilderTypeOK, TypeInv, builderVars

\* A step of the builder leaves the model and the query alone.
LEMMA BuilderKeepsModel ==
    ASSUME TypeInv, UNCHANGED vars
    PROVE  TypeInv' /\ layers' = layers /\ qpc' = qpc /\ TypeOK
BY DEF TypeInv, TypeOK, vars, ctorVars, queryVars

LEMMA BuildWrapperInv == BuilderInv /\ BuildWrapper => BuilderInv'
<1> SUFFICES ASSUME BuilderInv, BuildWrapper PROVE BuilderInv'
  OBVIOUS
<1>1. TypeInv' /\ layers' = layers /\ qpc' = qpc
  BY BuilderKeepsModel DEF BuilderInv, BuildWrapper
<1>2. solids' \in Seq(SolidKinds)
  BY AppendIn DEF BuilderInv, BuilderTypeOK, BuildWrapper, SolidKinds
<1>3. objects' \subseteq ExternalNames
  BY DEF BuilderInv, BuilderTypeOK, BuildWrapper, ExternalNames
<1> QED
  BY <1>1, <1>2, <1>3 DEF BuilderInv, BuilderTypeOK, TypeInv, BuildWrapper

LEMMA BuildImplantsInv == BuilderInv /\ BuildImplants => BuilderInv'
<1> SUFFICES ASSUME BuilderInv, BuildImplants PROVE BuilderInv'
  OBVIOUS
<1>1. TypeInv' /\ layers' = layers /\ qpc' = qpc /\ TypeOK
  BY BuilderKeepsModel DEF BuilderInv, BuildImplants
<1>0. solids \in Seq(SolidKinds)
  BY DEF BuilderInv, BuilderTypeOK
<1> DEFINE boxes == <<"sensor_box", "implant_union">>
                    \o [n \in 1..(m.nPixels.x * m.nPixels.y) |-> "implant_box"]
<1>2. boxes \in Seq(SolidKinds)
  <2>1. m.nPixels.x * m.nPixels.y \in Int
    BY <1>1 DEF TypeOK, Model, Vec2
  <2>2. [n \in 1..(m.nPixels.x * m.nPixels.y) |-> "implant_box"] \in Seq(SolidKinds)
    BY <2>1, RepeatIn DEF SolidKinds
  <2>3. <<"sensor_box", "implant_union">> \in Seq(SolidKinds)
    BY DEF SolidKinds
  <2> QED
    BY <2>2, <2>3, ConcatIn
<1>3. {ImplantBox(c) : c \in ImplantCells} \subseteq Placement
  BY <1>1, ImplantBoxType
<1>4. CASE ~HasImplants
  <2>1. solids' = Append(solids, "sensor_box")
    BY <1>4, Zenon DEF BuildImplants
  <2> QED
    BY <1>0, <1>1, <1>4, <2>1, AppendIn DEF BuilderInv, BuilderTypeOK, TypeInv, BuildImplants, SolidKinds
<1>5. CASE HasImplants /\ m.implantMaterial \notin Materials
  <2>1. solids' = solids \o boxes
    BY <1>5, Zenon DEF BuildImplants
  <2> QED
    BY <1>0, <1>1, <1>2, <1>5, <2>1, ConcatIn DEF BuilderInv, BuilderTypeOK, TypeInv, BuildImplants
<1>6. CASE HasImplants /\ m.implantMaterial \in Materials
  <2>1. solids' = solids \o boxes \o <<"sensor_implant_subtraction">>
    BY <1>6, Zenon DEF BuildImplants
  <2>2. solids' \in Seq(SolidKinds)
    <3>1. solids \o boxes \in Seq(SolidKinds)
      BY <1>0, <1>2, ConcatIn
    <3>2. <<"sensor_implant_subtraction">> \in Seq(SolidKinds)
      BY DEF SolidKinds
    <3> QED
      BY <2>1, <3>1, <3>2, ConcatIn
  <2>3. placed' = placed \cup {ImplantBox(c) : c \in ImplantCells}
    BY <1>6, Zenon DEF BuildImplants
  <2>4. placed' \subseteq Placement
    BY <1>3, <2>3 DEF BuilderInv, BuilderTypeOK
  <2> QED
    BY <1>1, <1>6, <2>2, <2>4 DEF BuilderInv, BuilderTypeOK, TypeInv, BuildImplants, ExternalNames
<1> QED
  BY <1>4, <1>5, <1>6

LEMMA BuildSensorInv == BuilderInv /\ BuildSensor => BuilderInv'
<1> SUFFICES ASSUME BuilderInv, BuildSensor PROVE BuilderInv'
  OBVIOUS
<1>1. TypeInv' /\ layers' = layers /\ qpc' = qpc /\ TypeOK
  BY BuilderKeepsModel DEF BuilderInv, BuildSensor
<1>2. Box("sensor", << >>, SensorCenter, SensorSize) \in Placement
  <2>1. SensorCenter \in Vec3 /\ SensorSize \in Vec3
    BY <1>1, GeometryType DEF TypeOK
  <2>2. << >> \in Seq(Int) /\ "sensor" \in Parts
    BY DEF Parts
  <2> QED
    BY <1>1, <2>1, <2>2, BoxType
<1>3. solids' \in Seq(SolidKinds)
  BY AppendIn DEF BuilderInv, BuilderTypeOK, BuildSensor, SolidKinds
<1> QED
  BY <1>1, <1>2, <1>3 DEF BuilderInv, BuilderTypeOK, TypeInv, BuildSensor, ExternalNames

LEMMA BuildChipInv == BuilderInv /\ BuildChip => BuilderInv'
<1> SUFFICES ASSUME BuilderInv, BuildChip PROVE BuilderInv'
  OBVIOUS
<1>1. TypeInv' /\ layers' = layers /\ qpc' = qpc /\ TypeOK
  BY BuilderKeepsModel DEF BuilderInv, BuildChip
<1>2. Box("chip", << >>, ChipCenter, ChipSize) \in Placement
  <2>1. ChipCenter \in Vec3 /\ ChipSize \in Vec3
    BY <1>1, GeometryType DEF TypeOK
  <2>2. << >> \in Seq(Int) /\ "chip" \in Parts
    BY DEF Parts
  <2> QED
    BY <1>1, <2>1, <2>2, BoxType
<1>3. CASE ChipSize.z > 0
  <2>1. solids' \in Seq(SolidKinds)
    BY <1>3, AppendIn DEF BuilderInv, BuilderTypeOK, BuildChip, SolidKinds
  <2> QED
    BY <1>1, <1>2, <1>3, <2>1 DEF BuilderInv, BuilderTypeOK, TypeInv, BuildChip, ExternalNames
<1>4. CASE ~(ChipSize.z > 0)
  BY <1>1, <1>4 DEF BuilderInv, BuilderTypeOK, TypeInv, BuildChip
<1> QED
  BY <1>3, <1>4

LEMMA BuildSupportInv == BuilderInv /\ BuildSupport => BuilderInv'
<1> SUFFICES ASSUME BuilderInv, BuildSupport PROVE BuilderInv'
  OBVIOUS
<1>1. TypeInv' /\ layers' = layers /\ qpc' = qpc /\ TypeOK
  BY BuilderKeepsModel DEF BuilderInv, BuildSupport
<1>0. /\ supIdx \in 0..Len(layers) /\ supIdx < Len(layers)
      /\ layers \in Seq(Layer) /\ supPhys \in Seq(Placement) /\ solids \in Seq(SolidKinds)
  BY DEF BuilderInv, BuilderTypeOK, TypeOK, BuildSupport
<1> DEFINE l == layers[supIdx + 1]
<1>2. l \in Layer
  BY <1>0
<1>3. Box("support", <<supIdx>>, l.center, l.size) \in Placement
  <2>1. l.center \in Vec3 /\ l.size \in Vec3
    BY <1>2 DEF Layer
  <2>2. <<supIdx>> \in Seq(Int) /\ "support" \in Parts
    BY <1>0 DEF Parts
  <2> QED
    BY <1>1, <2>1, <2>2, BoxType
<1>4. solids' \in Seq(SolidKinds)
  <2>1. (IF HasHole(l) THEN <<"hole_box", "support_subtraction">> ELSE << >>) \in Seq(SolidKinds)
    <3>1. <<"hole_box", "support_subtraction">> \in Seq(SolidKinds) /\ << >> \in Seq(SolidKinds)
      BY DEF SolidKinds
    <3> QED
      BY <3>1
  <2>2. solids \o <<"support_box">> \in Seq(SolidKinds)
    <3>1. <<"support_box">> \in Seq(SolidKinds)
      BY DEF SolidKinds
    <3> QED
      BY <1>0, <3>1, ConcatIn
  <2> QED
    BY <2>1, <2>2, ConcatIn DEF BuildSupport
<1>5. CASE l.material \notin Materials
  BY <1>1, <1>4, <1>5 DEF BuilderInv, BuilderTypeOK, TypeInv, BuildSupport
<1>6. CASE l.material \in Materials
  <2>1. supPhys' \in Seq(Placement)
    BY <1>0, <1>3, <1>6, AppendIn DEF BuildSupport
  <2>2. supIdx' \in 0..Len(layers')
    BY <1>0, <1>1, <1>6 DEF BuildSupport
  <2> QED
    BY <1>1, <1>4, <1>6, <2>1, <2>2 DEF BuilderInv, BuilderTypeOK, TypeInv, BuildSupport
<1> QED
  BY <1>5, <1>6

LEMMA SupportsDoneInv == BuilderInv /\ SupportsDone => BuilderInv'
<1> SUFFICES ASSUME BuilderInv, SupportsDone PROVE BuilderInv'
  OBVIOUS
<1>1. TypeInv' /\ layers' = layers /\ qpc' = qpc /\ TypeOK
  BY BuilderKeepsModel DEF BuilderInv, SupportsDone
<1> QED
  BY <1>1 DEF BuilderInv, BuilderTypeOK, TypeInv, SupportsDone, ExternalNames

(***************************************************************************)
(* Every state of the model, of getSize() and of build() is well typed:   *)
(* the builder only registers the names it knows and places boxes at     *)
(* integer positions, and support_idx never runs past the layers         *)
(* getSupportLayers() returned, for every configuration and materials.   *)
(***************************************************************************)
THEOREM BuilderTypeCorrect == BuilderSpec => []BuilderTypeOK
<1>1. BuilderInit => BuilderInv
  BY BuilderInitInv
<1>2. BuilderInv /\ [BuilderNext]_allVars => BuilderInv'
  <2> SUFFICES ASSUME BuilderInv, [BuilderNext]_allVars PROVE BuilderInv'
    OBVIOUS
  <2>1. CASE UNCHANGED allVars
    BY <2>1 DEF allVars, vars, ctorVars, queryVars, builderVars, BuilderInv,
                BuilderTypeOK, TypeInv, TypeOK
  <2> QED
    BY <2>1, ModelStepInv, BuildWrapperInv, BuildImplantsInv, BuildSensorInv,
       BuildChipInv, BuildSupportInv, SupportsDoneInv DEF BuilderNext
<1>3. BuilderInv => BuilderTypeOK
  BY DEF BuilderInv
<1> QED
  BY <1>1, <1>2, <1>3, PTL DEF BuilderSpec

=============================================================================
