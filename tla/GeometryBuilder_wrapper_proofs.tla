---------------------- MODULE GeometryBuilder_wrapper_proofs ----------------------
(***************************************************************************)
(* Proof that, whenever the pixel grid lies in the sensor, every volume    *)
(* DetectorConstructionG4::build places lies inside the wrapper box of    *)
(* getSize() (WrapperContainsCovered), for every configuration and every  *)
(* set of materials.  The sensor, the chip and the supports lie in the    *)
(* envelope of getSize() (the argument of EnvelopeContains), exactly      *)
(* because their lengths are even; the implants lie in the sensor because *)
(* each lies in its pixel cell of the grid (the checks of                 *)
(* DetectorModel.cpp lines 47-62) and the grid lies in the sensor.        *)
(***************************************************************************)
EXTENDS GeometryBuilder_complete_proofs, DetectorModel_envelope_proofs

(***************************************************************************)
(* The lengths the constructor stores in x and y are multiples of 4       *)
(* (ConfigAssumption), as those in z are (ModelQuad): the pitch, the      *)
(* excesses, the implant, its offset and the support layers.  The 2D      *)
(* implant read defaults to the pitch and sets the depth to 0.            *)
(***************************************************************************)
PlanarQuad ==
    /\ Quad(m.pixelSize.x) /\ Quad(m.pixelSize.y)
    /\ \A s \in Sides : Quad(m.excess[s])
    /\ Quad(m.implantSize.x) /\ Quad(m.implantSize.y) /\ Quad(m.implantSize.z)
    /\ Quad(m.implantOffset.x) /\ Quad(m.implantOffset.y)
    /\ \A n \in 1..Len(m.supportLayers) :
          Quad(m.supportLayers[n].size.x) /\ Quad(m.supportLayers[n].size.y)

\* getSupportLayers() copies the layers' sizes.
LayersPlanar ==
    \A n \in 1..Len(layers) : Quad(layers[n].size.x) /\ Quad(layers[n].size.y)

\* The boxes lines 174, 193 and 240 place.
PartBoxes ==
    {ImplantBox(c) : c \in ImplantCells}
    \cup {Box("sensor", << >>, SensorCenter, SensorSize), Box("chip", << >>, ChipCenter, ChipSize)}

(***************************************************************************)
(* Nothing is placed before the wrapper; what is placed is a box of a     *)
(* part of the model; the n-th support placement has the n-th layer's     *)
(* size (its position is SupportsPlaced).                                 *)
(***************************************************************************)
PlacedBoxes ==
    /\ bpc = "wrapper" => placed = {}
    /\ placed \subseteq PartBoxes
    /\ \A n \in 1..Len(supPhys) : supPhys[n].size = layers[n].size

(***************************************************************************)
(* The inductive invariant: the builder's stages (CompleteInv), the       *)
(* envelope's (EnvInv), the implant checks (ValidInv), the parities, and  *)
(* the boxes placed.                                                       *)
(***************************************************************************)
WrapInv ==
    /\ CompleteInv /\ EnvInv /\ ValidInv
    /\ PlanarQuad /\ LayersPlanar /\ PlacedBoxes

------------------------------------------------------------------------------
(***************************************************************************)
(* The constructor stores x and y lengths that are multiples of 4.         *)
(***************************************************************************)
\* An xy or xyz length read from a configuration (ConfigAssumption).
LEMMA PlanarLength ==
    ASSUME NEW cfg \in HeaderConfigs \cup SupportConfigs, NEW key \in DOMAIN cfg,
           key # "number_of_pixels"
    PROVE  /\ cfg[key].kind = "xy" => Quad(cfg[key].xy.x) /\ Quad(cfg[key].xy.y)
           /\ cfg[key].kind = "xyz" => Quad(cfg[key].xyz.x) /\ Quad(cfg[key].xyz.y)
                                       /\ Quad(cfg[key].xyz.z)
<1>1. \A l \in Lengths(cfg[key]) : Quad(l)
  BY ConfigAssumption DEF Quad
<1>2. ASSUME cfg[key].kind = "xy" PROVE Quad(cfg[key].xy.x) /\ Quad(cfg[key].xy.y)
  <2>1. cfg[key].xy \in Vec2
    BY <1>2, PayloadType
  <2>2. Lengths(cfg[key]) = {cfg[key].xy[a] : a \in DOMAIN cfg[key].xy}
    BY <1>2 DEF Lengths
  <2>3. cfg[key].xy.x \in Lengths(cfg[key]) /\ cfg[key].xy.y \in Lengths(cfg[key])
    BY <2>1, <2>2 DEF Vec2
  <2> QED
    BY <1>1, <2>3
<1>3. ASSUME cfg[key].kind = "xyz"
      PROVE  Quad(cfg[key].xyz.x) /\ Quad(cfg[key].xyz.y) /\ Quad(cfg[key].xyz.z)
  <2>1. cfg[key].xyz \in Vec3
    BY <1>3, PayloadType
  <2>2. Lengths(cfg[key]) = {cfg[key].xyz[a] : a \in DOMAIN cfg[key].xyz}
    BY <1>3 DEF Lengths
  <2>3. /\ cfg[key].xyz.x \in Lengths(cfg[key]) /\ cfg[key].xyz.y \in Lengths(cfg[key])
        /\ cfg[key].xyz.z \in Lengths(cfg[key])
    BY <2>1, <2>2 DEF Vec3
  <2> QED
    BY <1>1, <2>3
<1> QED
  BY <1>2, <1>3

\* get<T>(key, def) of a length returns a multiple of 4 when def is one.
LEMMA PlanarGet ==
    ASSUME NEW cfg \in HeaderConfigs \cup SupportConfigs, NEW key, key # "number_of_pixels"
    PROVE  /\ \A def : ReadOptError(cfg, key, "xy") = NoError /\ Quad(def.x) /\ Quad(def.y)
                          => Quad(Get(cfg, key, "xy", def).x) /\ Quad(Get(cfg, key, "xy", def).y)
           /\ \A def : ReadOptError(cfg, key, "double") = NoError /\ Quad(def)
                          => Quad(Get(cfg, key, "double", def))
<1>1. CASE key \in DOMAIN cfg
  <2>1. /\ ReadOptError(cfg, key, "xy") = NoError => cfg[key].kind = "xy"
        /\ ReadOptError(cfg, key, "double") = NoError => cfg[key].kind = "double"
    BY <1>1, ReadOK
  <2> QED
    BY <1>1, <2>1, PlanarLength, LengthQuad DEF Get
<1>2. CASE key \notin DOMAIN cfg
  BY <1>2 DEF Get
<1> QED
  BY <1>1, <1>2

\* addSupportLayer stores the size read, in x and y.
LEMMA NewLayerPlanar ==
    ASSUME NEW s \in SupportConfigs, FirstError(SupportErrors(s)) = NoError
    PROVE  Quad(NewLayer(s).size.x) /\ Quad(NewLayer(s).size.y)
<1> DEFINE errs == SupportErrors(s)
<1>1. \A p \in 1..Len(errs) : errs[p] = NoError
  BY SupportErrorsType, FirstErrorNone
<1>2. ReadError(s, "size", "xy") = NoError
  BY <1>1 DEF SupportErrors
<1>3. "size" \in DOMAIN s /\ s["size"].kind = "xy"
  BY <1>2, ReadOK
<1>4. Quad(s["size"].xy.x) /\ Quad(s["size"].xy.y)
  BY <1>3, PlanarLength
<1> QED
  BY <1>4 DEF NewLayer

\* A block of the constructor stores a length only after reading it with
\* its schema, or the pitch as the default of the 2D implant read.
LEMMA CtorPlanar ==
    ASSUME TypeInv, PlanarQuad,
           ReadGrid \/ ReadExcess \/ ReadImplantSize \/ ReadImplantOffset \/ ReadChip
             \/ ReadSupport \/ Constructed
    PROVE  PlanarQuad'
<1>0. /\ m \in Model /\ hdr \in HeaderConfigs /\ secs \in Seq(SupportConfigs)
      /\ i \in 1..(Len(secs) + 1)
  BY DEF TypeInv, TypeOK
<1>1. CASE m' = m
  BY <1>1 DEF PlanarQuad
<1>2. CASE ReadGrid /\ m' # m
  <2> DEFINE errs == << ReadError(hdr, "number_of_pixels", "uint2"),
                        ReadError(hdr, "pixel_size", "xy"),
                        ReadError(hdr, "sensor_thickness", "double") >>
  <2>1. /\ FirstError(errs) = NoError
        /\ m' = [m EXCEPT !.nPixels = hdr["number_of_pixels"].uint2,
                          !.pixelSize = hdr["pixel_size"].xy,
                          !.sensorThickness = hdr["sensor_thickness"].double]
    BY <1>2 DEF ReadGrid, Fail, Go
  <2>0. errs \in Seq(Error)
    BY ReadErrorType DEF Keys, errs
  <2>2. \A p \in 1..Len(errs) : errs[p] = NoError
    BY <2>0, <2>1, FirstErrorNone
  <2>3. "pixel_size" \in DOMAIN hdr /\ hdr["pixel_size"].kind = "xy"
    BY <2>2, ReadOK
  <2>4. Quad(hdr["pixel_size"].xy.x) /\ Quad(hdr["pixel_size"].xy.y)
    BY <1>0, <2>3, PlanarLength
  <2> QED
    BY <1>0, <2>1, <2>4 DEF PlanarQuad, Model
<1>3. CASE ReadExcess /\ m' # m
  <2> DEFINE errs == << ReadOptError(hdr, "sensor_excess", "double"),
                        ReadOptError(hdr, SideKey.top, "double"),
                        ReadOptError(hdr, SideKey.bottom, "double"),
                        ReadOptError(hdr, SideKey.left, "double"),
                        ReadOptError(hdr, SideKey.right, "double") >>
             default == Get(hdr, "sensor_excess", "double", 0)
  <2>1. /\ FirstError(errs) = NoError
        /\ m' = [m EXCEPT !.excess = [s \in Sides |-> Get(hdr, SideKey[s], "double", default)]]
    BY <1>3 DEF ReadExcess, Fail, Go
  <2>0. errs \in Seq(Error)
    BY ReadErrorType DEF Keys, SideKey, errs
  <2>2. \A p \in 1..Len(errs) : errs[p] = NoError
    BY <2>0, <2>1, FirstErrorNone
  <2>3. \A s \in Sides : ReadOptError(hdr, SideKey[s], "double") = NoError
    BY <2>2 DEF Sides, SideKey
  <2>4. Quad(default)
    <3>1. Quad(0)
      BY DEF Quad
    <3> QED
      BY <1>0, <2>2, <3>1, PlanarGet DEF default
  <2>5. \A s \in Sides : Quad(Get(hdr, SideKey[s], "double", default))
    <3> SUFFICES ASSUME NEW s \in Sides PROVE Quad(Get(hdr, SideKey[s], "double", default))
      OBVIOUS
    <3>1. SideKey[s] # "number_of_pixels"
      BY DEF SideKey, Sides
    <3> QED
      BY <1>0, <2>3, <2>4, <3>1, PlanarGet
  <2> QED
    BY <1>0, <2>1, <2>5 DEF PlanarQuad, Model
<1>4. CASE ReadImplantSize /\ m' # m
  <2> DEFINE sz == ImplantSizeRead
  <2>1. /\ ImplantFallbackError = NoError
        /\ \E w : m' = [m EXCEPT !.implantSize = sz, !.implantMaterial = w]
    BY <1>4 DEF ReadImplantSize, Fail, Go
  <2>2. Quad(sz.x) /\ Quad(sz.y) /\ Quad(sz.z)
    <3>1. CASE ReadError(hdr, "implant_size", "xyz") = NoError
      <4>1. "implant_size" \in DOMAIN hdr /\ hdr["implant_size"].kind = "xyz"
        BY <3>1, ReadOK
      <4>2. sz = hdr["implant_size"].xyz
        BY <3>1 DEF ImplantSizeRead
      <4> QED
        BY <1>0, <4>1, <4>2, PlanarLength
    <3>2. CASE ReadError(hdr, "implant_size", "xyz") # NoError
      <4> DEFINE area == Get(hdr, "implant_size", "xy", m.pixelSize)
      <4>1. ReadOptError(hdr, "implant_size", "xy") = NoError
        BY <2>1, <3>2 DEF ImplantFallbackError
      <4>2. sz = [x |-> area.x, y |-> area.y, z |-> 0]
        BY <3>2 DEF ImplantSizeRead
      <4>3. Quad(area.x) /\ Quad(area.y)
        BY <1>0, <4>1, PlanarGet DEF PlanarQuad
      <4> QED
        BY <4>2, <4>3 DEF Quad
    <3> QED
      BY <3>1, <3>2
  <2> QED
    BY <1>0, <2>1, <2>2 DEF PlanarQuad, Model
<1>5. CASE ReadImplantOffset /\ m' # m
  <2> DEFINE off == Get(hdr, "implant_offset", "xy", Zero2)
  <2>1. /\ ReadOptError(hdr, "implant_offset", "xy") = NoError
        /\ m' = [m EXCEPT !.implantOffset = off]
    BY <1>5 DEF ReadImplantOffset, Fail, Go
  <2>2. Quad(off.x) /\ Quad(off.y)
    <3>1. Quad(Zero2.x) /\ Quad(Zero2.y)
      BY DEF Zero2, Quad
    <3> QED
      BY <1>0, <2>1, <3>1, PlanarGet
  <2> QED
    BY <1>0, <2>1, <2>2 DEF PlanarQuad, Model
<1>6. CASE ReadChip /\ m' # m
  <2>1. m' = [m EXCEPT !.chipThickness = Get(hdr, "chip_thickness", "double", 0)]
    BY <1>6 DEF ReadChip, Fail
  <2> QED
    BY <1>0, <2>1 DEF PlanarQuad, Model
<1>7. CASE ReadSupport /\ m' # m
  <2> DEFINE s == secs[i]
  <2>0. i <= Len(secs)
    BY <1>7 DEF ReadSupport
  <2>1. /\ FirstError(SupportErrors(s)) = NoError
        /\ m' = [m EXCEPT !.supportLayers = Append(m.supportLayers, NewLayer(s))]
    BY <1>7 DEF ReadSupport, Fail
  <2>2. s \in SupportConfigs
    BY <1>0, <2>0
  <2>3. Quad(NewLayer(s).size.x) /\ Quad(NewLayer(s).size.y)
    BY <2>1, <2>2, NewLayerPlanar
  <2>4. m.supportLayers \in Seq(Layer)
    BY <1>0 DEF Model
  <2> QED
    BY <1>0, <2>1, <2>3, <2>4 DEF PlanarQuad, Model
<1>8. CASE Constructed
  BY <1>1, <1>8 DEF Constructed
<1> QED
  BY <1>1, <1>2, <1>3, <1>4, <1>5, <1>6, <1>7, <1>8

\* getSupportLayers() writes the layers' centres only.
LEMMA StackStepSizes ==
    ASSUME TypeInv, StackStep
    PROVE  /\ Len(layers') = Len(layers)
           /\ \A n \in 1..Len(layers) : layers'[n].size = layers[n].size
<1>1. layers \in Seq(Layer) /\ j \in 1..Len(layers)
  BY DEF TypeInv, TypeOK, StackStep
<1>2. \E c : layers' = [layers EXCEPT ![j].center = c]
  BY Zenon DEF StackStep
<1> QED
  BY <1>1, <1>2 DEF Layer

\* The model's steps keep the parities in x and y.
LEMMA NextPlanar ==
    ASSUME TypeInv, PlanarQuad, LayersPlanar, [Next]_vars
    PROVE  PlanarQuad' /\ LayersPlanar'
<1>1. CASE ReadGrid \/ ReadExcess \/ ReadImplantSize \/ ReadImplantOffset \/ ReadChip
             \/ ReadSupport \/ Constructed
  <2>1. PlanarQuad'
    BY <1>1, CtorPlanar
  <2>2. layers' = layers
    BY <1>1 DEF ReadGrid, ReadExcess, ReadImplantSize, ReadImplantOffset, ReadChip,
                ReadSupport, Constructed, Fail, Go, queryVars
  <2> QED
    BY <2>1, <2>2 DEF LayersPlanar
<1>2. CASE SizeBase \/ StackEnd \/ SizeStep \/ SizeEnd \/ UNCHANGED vars
  <2>1. m' = m /\ layers' = layers
    BY <1>2 DEF SizeBase, StackEnd, SizeStep, SizeEnd, vars, ctorVars, queryVars
  <2> QED
    BY <2>1 DEF PlanarQuad, LayersPlanar
<1>3. CASE StackBegin
  <2>1. m' = m /\ layers' = m.supportLayers
    BY <1>3 DEF StackBegin, ctorVars
  <2> QED
    BY <2>1 DEF PlanarQuad, LayersPlanar
<1>4. CASE StackStep
  <2>1. m' = m
    BY <1>4 DEF StackStep, ctorVars
  <2>2. LayersPlanar'
    BY <1>4, StackStepSizes DEF LayersPlanar
  <2> QED
    BY <2>1, <2>2 DEF PlanarQuad
<1> QED
  BY <1>1, <1>2, <1>3, <1>4 DEF Next

\* The model's steps keep the implant checks (the argument of
\* ConstructedModelValid, stated for a step).
LEMMA NextValidInv == ValidInv /\ [Next]_vars => ValidInv'
<1> SUFFICES ASSUME ValidInv, [Next]_vars PROVE ValidInv'
  OBVIOUS
<1>1. CASE UNCHANGED vars
  <2>1. TypeInv'
    BY <1>1 DEF vars, ctorVars, queryVars, ValidInv, TypeInv, TypeOK
  <2> QED
    BY <1>1, <2>1 DEF vars, ctorVars, ValidInv, SizeFits, OffsetFits
<1> QED
  BY <1>1, ReadImplantSizeValid, ReadImplantOffsetValid, LaterBlocksValid,
     QueriesValid DEF Next

-----------------------------------------------------------------------------
(***************************************************************************)
(* WrapInv is inductive.                                                   *)
(***************************************************************************)
\* The boxes of the model's parts are fixed by the model's variables.
LEMMA KeepsBoxes ==
    ASSUME UNCHANGED vars
    PROVE  PartBoxes' = PartBoxes
<1>1. m' = m /\ hi' = hi /\ lo' = lo
  BY DEF vars, ctorVars, queryVars
<1>2. /\ GeometricalCenter' = GeometricalCenter /\ SensorCenter' = SensorCenter
      /\ SensorSize' = SensorSize /\ ChipCenter' = ChipCenter /\ ChipSize' = ChipSize
      /\ GridSize' = GridSize
  BY <1>1 DEF GeometricalCenter, Center, GridSize, SensorCenter, SensorSize,
              ChipCenter, ChipSize
<1>3. ImplantCells' = ImplantCells /\ \A c : ImplantBox(c)' = ImplantBox(c)
  BY <1>1, <1>2 DEF ImplantCells, ImplantBox
<1> QED
  BY <1>2, <1>3 DEF PartBoxes, Box

\* Every step of the builder's specification is a step of the model's.
LEMMA BuilderModelStep == [BuilderNext]_allVars => [Next]_vars
BY DEF BuilderNext, ModelStep, BuildWrapper, BuildImplants, BuildSensor, BuildChip,
       BuildSupport, SupportsDone, allVars

LEMMA InitWrapInv == BuilderInit => WrapInv
<1> SUFFICES ASSUME BuilderInit PROVE WrapInv
  OBVIOUS
<1>1. CompleteInv /\ EnvInv /\ TypeInv
  BY InitCompleteInv, InitEnvInv, InitTypeInv DEF BuilderInit
<1>2. ValidInv
  BY <1>1 DEF BuilderInit, Init, ValidInv
<1>3. m = EmptyModel /\ layers = << >>
  BY DEF BuilderInit, Init
<1>4. /\ m.pixelSize = Zero2 /\ m.excess = [s \in Sides |-> 0] /\ m.implantSize = Origin
      /\ m.implantOffset = Zero2 /\ m.supportLayers = << >>
  BY <1>3 DEF EmptyModel
<1>5. PlanarQuad /\ LayersPlanar
  <2>1. Quad(0)
    BY DEF Quad
  <2>2. Len(m.supportLayers) = 0 /\ Len(layers) = 0
    BY <1>3, <1>4
  <2> QED
    BY <1>4, <2>1, <2>2 DEF PlanarQuad, LayersPlanar, Zero2, Origin
<1>6. PlacedBoxes
  BY DEF BuilderInit, PlacedBoxes
<1> QED
  BY <1>1, <1>2, <1>5, <1>6 DEF WrapInv

\* A step of the model: the builder waits at the wrapper block with
\* nothing placed, or the model is done and does not change.
LEMMA ModelStepBoxes ==
    ASSUME WrapInv, ModelStep \/ UNCHANGED allVars
    PROVE  PlacedBoxes'
<1>1. UNCHANGED builderVars
  BY DEF ModelStep, allVars
<1>2. CASE bpc = "wrapper"
  <2>1. placed = {} /\ supIdx = 0 /\ Len(supPhys) = supIdx
    BY <1>2 DEF WrapInv, PlacedBoxes, CompleteInv, BuilderInv, SupportsPlaced
  <2> QED
    BY <1>1, <2>1 DEF PlacedBoxes, builderVars
<1>3. CASE bpc # "wrapper"
  <2>1. UNCHANGED vars
    <3>1. StackInv /\ qpc = "done"
      BY <1>3 DEF WrapInv, CompleteInv, BuilderInv
    <3>2. [Next]_vars
      BY BuilderModelStep DEF ModelStep, allVars
    <3> QED
      BY <3>1, <3>2, ModelDoneStable
  <2>2. PartBoxes' = PartBoxes /\ layers' = layers
    BY <2>1, KeepsBoxes DEF vars, queryVars
  <2> QED
    BY <1>1, <1>3, <2>2 DEF WrapInv, PlacedBoxes, builderVars
<1> QED
  BY <1>2, <1>3

\* The builder's blocks place the boxes of the model's parts, and a
\* support at its layer's size.
LEMMA BuildStepBoxes ==
    ASSUME WrapInv,
           BuildWrapper \/ BuildImplants \/ BuildSensor \/ BuildChip \/ BuildSupport
             \/ SupportsDone
    PROVE  PlacedBoxes'
<1>1. UNCHANGED vars /\ bpc' # "wrapper"
  BY DEF BuildWrapper, BuildImplants, BuildSensor, BuildChip, BuildSupport, SupportsDone
<1>2. PartBoxes' = PartBoxes /\ layers' = layers
  BY <1>1, KeepsBoxes DEF vars, queryVars
<1>3. placed \subseteq PartBoxes /\ \A n \in 1..Len(supPhys) : supPhys[n].size = layers[n].size
  BY DEF WrapInv, PlacedBoxes
<1>4. placed' \subseteq PartBoxes
  <2>1. \/ placed' = placed
        \/ placed' = placed \cup {ImplantBox(c) : c \in ImplantCells}
        \/ placed' = placed \cup {Box("sensor", << >>, SensorCenter, SensorSize)}
        \/ placed' = placed \cup {Box("chip", << >>, ChipCenter, ChipSize)}
    BY Zenon DEF BuildWrapper, BuildImplants, BuildSensor, BuildChip, BuildSupport,
                 SupportsDone
  <2> QED
    BY <1>3, <2>1 DEF PartBoxes
<1>5. \A n \in 1..Len(supPhys') : supPhys'[n].size = layers'[n].size
  <2>1. CASE BuildSupport /\ supPhys' # supPhys
    <3>1. /\ supIdx < Len(layers) /\ Len(supPhys) = supIdx /\ supPhys \in Seq(Placement)
      BY <2>1 DEF BuildSupport, WrapInv, CompleteInv, SupportsPlaced, BuilderInv,
                  BuilderTypeOK
    <3>2. supPhys' = Append(supPhys, Box("support", <<supIdx>>, layers[supIdx + 1].center,
                                        layers[supIdx + 1].size))
      BY <2>1 DEF BuildSupport
    <3> QED
      BY <1>2, <1>3, <3>1, <3>2 DEF Box
  <2>2. CASE ~BuildSupport \/ supPhys' = supPhys
    <3>1. supPhys' = supPhys
      BY <2>2 DEF BuildWrapper, BuildImplants, BuildSensor, BuildChip, SupportsDone
    <3> QED
      BY <1>2, <1>3, <3>1
  <2> QED
    BY <2>1, <2>2
<1> QED
  BY <1>1, <1>2, <1>4, <1>5 DEF PlacedBoxes

LEMMA NextWrapInv == WrapInv /\ [BuilderNext]_allVars => WrapInv'
<1> SUFFICES ASSUME WrapInv, [BuilderNext]_allVars PROVE WrapInv'
  OBVIOUS
<1>1. CompleteInv'
  BY NextCompleteInv DEF WrapInv
<1>2. [Next]_vars
  BY BuilderModelStep
<1>3. TypeInv
  BY DEF WrapInv, ValidInv
<1>4. EnvInv' /\ ValidInv' /\ PlanarQuad' /\ LayersPlanar'
  BY <1>2, <1>3, NextEnvInv, NextValidInv, NextPlanar DEF WrapInv
<1>5. PlacedBoxes'
  BY ModelStepBoxes, BuildStepBoxes DEF BuilderNext
<1> QED
  BY <1>1, <1>4, <1>5 DEF WrapInv

-----------------------------------------------------------------------------
(***************************************************************************)
(* Arithmetic of the placements.                                           *)
(***************************************************************************)
\* A multiple of a multiple of 4 is even.
LEMMA ProductEven ==
    ASSUME NEW a \in Int, NEW b \in Int, Quad(b)
    PROVE  Even(a * b)
<1> DEFINE q == b \div 4
<1>1. q \in Int /\ b = 4 * q
  BY DEF Quad, q
<1>2. a * b = 2 * (2 * a * q)
  BY <1>1
<1>3. \A r \in Int : (2 * r) % 2 = 0
  OBVIOUS
<1>4. 2 * a * q \in Int
  BY <1>1
<1> QED
  BY <1>2, <1>3, <1>4 DEF Even

\* Cell c of n cells of pitch p lies in the n * p of the grid.
LEMMA CellBounds ==
    ASSUME NEW c \in Int, NEW n \in Int, NEW p \in Int, 0 <= c, c <= n - 1, 0 <= p
    PROVE  0 <= c * p /\ c * p + p <= n * p
<1>1. 0 <= c * p
  OBVIOUS
<1>2. 0 <= (n - 1 - c) * p
  OBVIOUS
<1> QED
  BY <1>1, <1>2

LEMMA AbsSum ==
    ASSUME NEW u \in Int, NEW v \in Int
    PROVE  Abs(u + v) <= Abs(u) + Abs(v)
BY DEF Abs

(***************************************************************************)
(* Lines 142-147 and getGeometricalCenter(): an element of even lengths   *)
(* between min and max lies in the box of the size they compute, centred *)
(* on the geometrical centre, in the form build() places it.              *)
(***************************************************************************)
LEMMA BoxInside ==
    ASSUME m \in Model, hi \in Vec3, lo \in Vec3, Even(hi.z), Even(lo.z),
           NEW e, e.center \in Vec3, e.size \in Vec3, Within(e),
           \A a \in Axes : Even(e.size[a])
    PROVE  \A a \in Axes : 2 * Abs(e.center[a] - GeometricalCenter[a]) + e.size[a] <= SizeOf[a]
<1>1. Center \in Vec3
  BY GeometryType
<1>2. /\ GeometricalCenter.x = Center.x /\ GeometricalCenter.y = Center.y
      /\ GeometricalCenter.z = (hi.z + lo.z) \div 2
  BY <1>1 DEF GeometricalCenter, Vec3
<1>3. /\ SizeOf.x = 2 * Max(hi.x - Center.x, Center.x - lo.x)
      /\ SizeOf.y = 2 * Max(hi.y - Center.y, Center.y - lo.y)
      /\ SizeOf.z = hi.z - lo.z
  BY <1>1 DEF SizeOf, Vec3
<1>4. 2 * ((hi.z + lo.z) \div 2) = hi.z + lo.z
  BY DEF Even, Vec3
<1> SUFFICES ASSUME NEW a \in Axes
             PROVE  2 * Abs(e.center[a] - GeometricalCenter[a]) + e.size[a] <= SizeOf[a]
  OBVIOUS
<1> DEFINE c == e.center[a]
           s == e.size[a]
<1>5. /\ lo[a] <= c - s \div 2 /\ c + s \div 2 <= hi[a]
      /\ c \in Int /\ s \in Int /\ s = 2 * (s \div 2)
  <2>1. lo[a] <= c - s \div 2 /\ c + s \div 2 <= hi[a]
    BY DEF Within, Top, Bottom, c, s
  <2>2. c \in Int /\ s \in Int
    BY DEF Vec3, Axes, c, s
  <2>3. s = 2 * (s \div 2)
    BY <2>2 DEF Even, s
  <2> QED
    BY <2>1, <2>2, <2>3
<1>6. CASE a = "x"
  <2>1. GeometricalCenter[a] = Center.x /\ SizeOf[a] = SizeOf.x
    BY <1>2, <1>6
  <2> QED
    BY <1>1, <1>3, <1>5, <1>6, <2>1 DEF Abs, Max, Vec3
<1>7. CASE a = "y"
  <2>1. GeometricalCenter[a] = Center.y /\ SizeOf[a] = SizeOf.y
    BY <1>2, <1>7
  <2> QED
    BY <1>1, <1>3, <1>5, <1>7, <2>1 DEF Abs, Max, Vec3
<1>8. CASE a = "z"
  <2>1. GeometricalCenter[a] = (hi.z + lo.z) \div 2 /\ SizeOf[a] = hi.z - lo.z
    BY <1>2, <1>3, <1>8
  <2>2. (hi.z + lo.z) \div 2 \in Int
    BY DEF Vec3
  <2> QED
    BY <1>4, <1>5, <1>8, <2>1, <2>2 DEF Abs, Vec3
<1> QED
  BY <1>6, <1>7, <1>8 DEF Axes

\* An even integer is twice its half.
LEMMA HalfExact ==
    ASSUME NEW r \in Int, Even(r)
    PROVE  r = 2 * (r \div 2)
BY DEF Even

\* The offset of an implant's centre in its cell, clamped by the checks of
\* lines 58-59, keeps the implant within the n * p of the grid.
LEMMA NodeArith ==
    ASSUME NEW G \in Int, NEW cp \in Int, NEW p \in Int, NEW s \in Int, NEW off \in Int,
           0 <= cp, cp + p <= G,
           G = 2 * (G \div 2), p = 2 * (p \div 2), s = 2 * (s \div 2),
           Abs(off) + s \div 2 <= p \div 2
    PROVE  2 * Abs(-(G \div 2) + cp + p \div 2 + off) + s <= G
BY DEF Abs

(***************************************************************************)
(* Once getSize() has returned, the sensor, the chip and every layer lie  *)
(* in the wrapper in the form build() places them (lines 193, 240, 293).  *)
(***************************************************************************)
LEMMA PartsInside ==
    ASSUME WrapInv, qpc = "done"
    PROVE  \A e \in BaseElements \cup {layers[n] : n \in 1..Len(layers)} :
              \A a \in Axes : 2 * Abs(e.center[a] - GeometricalCenter[a]) + e.size[a] <= size[a]
<1>1. /\ m \in Model /\ hi \in Vec3 /\ lo \in Vec3 /\ layers \in Seq(Layer)
      /\ Even(hi.z) /\ Even(lo.z) /\ size = SizeOf
  BY DEF WrapInv, EnvInv, StackInv, TypeInv, TypeOK
<1>2. /\ \A e \in BaseElements : Within(e)
      /\ \A n \in 1..Len(layers) : Within(layers[n])
  <2>1. k = Len(layers) + 1
    BY DEF WrapInv, EnvInv
  <2> QED
    BY <2>1 DEF WrapInv, EnvInv, Stacked
<1>3. \A e \in BaseElements : \A a \in Axes : Even(e.size[a])
  <2>1. /\ Quad(m.pixelSize.x) /\ Quad(m.pixelSize.y) /\ \A s \in Sides : Quad(m.excess[s])
        /\ Quad(m.sensorThickness) /\ Quad(m.chipThickness)
    BY DEF WrapInv, PlanarQuad, EnvInv, ModelQuad
  <2>2. /\ m.nPixels.x \in Int /\ m.nPixels.y \in Int /\ m.pixelSize.x \in Int
        /\ m.pixelSize.y \in Int /\ m.sensorThickness \in Int /\ m.chipThickness \in Int
        /\ \A s \in Sides : m.excess[s] \in Int
    BY <1>1, ModelFields
  <2>3. Even(GridSize.x) /\ Even(GridSize.y)
    BY <2>1, <2>2, ProductEven DEF GridSize
  <2>4. Even(SensorSize.x) /\ Even(SensorSize.y) /\ Even(SensorSize.z)
    <3>1. GridSize.x \in Int /\ GridSize.y \in Int
      BY <2>2 DEF GridSize
    <3>2. /\ Even(m.excess.left) /\ Even(m.excess.right) /\ Even(m.excess.top)
          /\ Even(m.excess.bottom) /\ Even(m.sensorThickness)
          /\ m.excess.left \in Int /\ m.excess.right \in Int /\ m.excess.top \in Int
          /\ m.excess.bottom \in Int
      BY <2>1, <2>2, QuadHalf DEF Sides
    <3>3. /\ Even(GridSize.x + m.excess.left) /\ Even(GridSize.y + m.excess.top)
      BY <2>3, <3>1, <3>2, EvenArith
    <3>4. /\ Even(GridSize.x + m.excess.left + m.excess.right)
          /\ Even(GridSize.y + m.excess.top + m.excess.bottom)
      BY <3>1, <3>2, <3>3 DEF Even
    <3>5. /\ SensorSize.x = GridSize.x + m.excess.left + m.excess.right
          /\ SensorSize.y = GridSize.y + m.excess.top + m.excess.bottom
          /\ SensorSize.z = m.sensorThickness
      BY DEF SensorSize
    <3> QED
      BY <3>2, <3>4, <3>5
  <2>5. /\ ChipSize.x = SensorSize.x /\ ChipSize.y = SensorSize.y
        /\ ChipSize.z = m.chipThickness
    BY <1>1, GeometryType DEF ChipSize, Vec3
  <2>6. Even(ChipSize.z)
    <3>1. Even(m.chipThickness)
      BY <2>1, <2>2, QuadHalf
    <3> QED
      BY <2>5, <3>1
  <2>7. Even(ChipSize.x) /\ Even(ChipSize.y)
    BY <2>4, <2>5
  <2> QED
    BY <2>4, <2>6, <2>7 DEF BaseElements, Axes
<1>4. \A n \in 1..Len(layers) : \A a \in Axes : Even(layers[n].size[a])
  <2> SUFFICES ASSUME NEW n \in 1..Len(layers) PROVE \A a \in Axes : Even(layers[n].size[a])
    OBVIOUS
  <2>0. layers[n] \in Layer
    BY <1>1
  <2>1. layers[n].size \in Vec3
    BY <2>0 DEF Layer
  <2>2. Quad(layers[n].size.x) /\ Quad(layers[n].size.y) /\ Quad(layers[n].size.z)
    BY DEF WrapInv, LayersPlanar, EnvInv, LayersQuad
  <2> QED
    BY <2>1, <2>2 DEF Quad, Even, Vec3, Axes
<1>5. ASSUME NEW e \in BaseElements \cup {layers[n] : n \in 1..Len(layers)}
      PROVE  e.center \in Vec3 /\ e.size \in Vec3 /\ Within(e) /\ \A a \in Axes : Even(e.size[a])
  <2>1. CASE e \in BaseElements
    <3>1. SensorCenter \in Vec3 /\ SensorSize \in Vec3 /\ ChipCenter \in Vec3
          /\ ChipSize \in Vec3
      BY <1>1, GeometryType
    <3> QED
      BY <1>2, <1>3, <2>1, <3>1 DEF BaseElements
  <2>2. CASE e \in {layers[n] : n \in 1..Len(layers)}
    <3>1. PICK n \in 1..Len(layers) : e = layers[n]
      BY <2>2
    <3>2. layers[n] \in Layer
      BY <1>1
    <3>3. e.center \in Vec3 /\ e.size \in Vec3
      BY <3>1, <3>2 DEF Layer
    <3> QED
      BY <1>2, <1>4, <3>1, <3>3
  <2> QED
    BY <2>1, <2>2
<1> QED
  BY <1>1, <1>5, BoxInside

\* The node of the implant of cell c in the multi-union (lines 149-152),
\* relative to the union's placement: the LET of ImplantBox.
ImplantNode(c) ==
    [x |-> -(GridSize.x \div 2) + c[1] * m.pixelSize.x + m.pixelSize.x \div 2 + m.implantOffset.x,
     y |-> -(GridSize.y \div 2) + c[2] * m.pixelSize.y + m.pixelSize.y \div 2 + m.implantOffset.y,
     z |-> (SensorSize.z - m.implantSize.z) \div 2]

(***************************************************************************)
(* The implant of a cell lies in the sensor box when the grid does: in x  *)
(* and y it lies in its cell (lines 47 and 58-59), in z it reaches from   *)
(* the sensor's top face down by its depth (lines 50 and 152).            *)
(***************************************************************************)
LEMMA NodeInSensor ==
    ASSUME WrapInv, GridInSensor, qpc = "done", NEW c \in ImplantCells
    PROVE  \A a \in Axes : 2 * Abs(ImplantNode(c)[a]) + m.implantSize[a] <= SensorSize[a]
<1>1. /\ m \in Model /\ pc = "ready"
  BY DEF WrapInv, EnvInv, StackInv, TypeInv, TypeOK
<1>2. SizeFits /\ OffsetFits
  BY <1>1 DEF WrapInv, ValidInv
<1>3. /\ m.nPixels \in Vec2 /\ m.pixelSize \in Vec2 /\ m.implantOffset \in Vec2
      /\ m.implantSize \in Vec3 /\ m.sensorThickness \in Int
  BY <1>1 DEF Model
<1>4. /\ Quad(m.pixelSize.x) /\ Quad(m.pixelSize.y)
      /\ Quad(m.implantSize.x) /\ Quad(m.implantSize.y) /\ Quad(m.implantSize.z)
      /\ Quad(m.sensorThickness)
  BY DEF WrapInv, PlanarQuad, EnvInv, ModelQuad
<1>5. /\ 0 <= m.pixelSize.x /\ GridSize.x <= SensorSize.x
      /\ 0 <= m.pixelSize.y /\ GridSize.y <= SensorSize.y
  BY DEF GridInSensor
<1>6. c[1] \in 0..(m.nPixels.x - 1) /\ c[2] \in 0..(m.nPixels.y - 1)
  BY DEF ImplantCells
<1> SUFFICES ASSUME NEW a \in Axes
             PROVE  2 * Abs(ImplantNode(c)[a]) + m.implantSize[a] <= SensorSize[a]
  OBVIOUS
<1>7. CASE a = "x"
  <2> DEFINE n == m.nPixels.x
             p == m.pixelSize.x
             s == m.implantSize.x
             off == m.implantOffset.x
             G == GridSize.x
             cp == c[1] * p
  <2>1. /\ n \in Int /\ p \in Int /\ s \in Int /\ off \in Int /\ c[1] \in Int
        /\ G = n * p /\ G \in Int /\ cp \in Int
    BY <1>3, <1>6 DEF Vec2, Vec3, GridSize, n, p, s, off, G, cp
  <2>2. 0 <= cp /\ cp + p <= G
    <3>1. 0 <= c[1] /\ c[1] <= n - 1 /\ 0 <= p
      BY <1>5, <1>6, <2>1 DEF n, p
    <3>2. 0 <= c[1] * p /\ c[1] * p + p <= n * p
      BY <2>1, <3>1, CellBounds
    <3> QED
      BY <2>1, <3>2 DEF cp
  <2>3. Even(G) /\ Even(p) /\ Even(s)
    <3>1. Even(n * p)
      BY <1>4, <2>1, ProductEven DEF n, p
    <3> QED
      BY <1>4, <2>1, <3>1, QuadHalf DEF G, p, s
  <2>4. G = 2 * (G \div 2) /\ p = 2 * (p \div 2) /\ s = 2 * (s \div 2)
    BY <2>1, <2>3, HalfExact
  <2>5. Abs(off) + s \div 2 <= p \div 2
    BY <1>2 DEF OffsetFits, off, s, p
  <2>6. 2 * Abs(-(G \div 2) + cp + p \div 2 + off) + s <= G
    BY <2>1, <2>2, <2>4, <2>5, NodeArith
  <2>7. /\ ImplantNode(c)[a] = -(G \div 2) + cp + p \div 2 + off
        /\ m.implantSize[a] = s /\ SensorSize[a] = SensorSize.x
    BY <1>7 DEF ImplantNode, n, p, s, off, G, cp
  <2>8. SensorSize.x \in Int /\ G <= SensorSize.x
    BY <1>1, <1>5, GeometryType DEF Vec3, G
  <2> QED
    BY <2>1, <2>6, <2>7, <2>8 DEF Abs
<1>8. CASE a = "y"
  <2> DEFINE n == m.nPixels.y
             p == m.pixelSize.y
             s == m.implantSize.y
             off == m.implantOffset.y
             G == GridSize.y
             cp == c[2] * p
  <2>1. /\ n \in Int /\ p \in Int /\ s \in Int /\ off \in Int /\ c[2] \in Int
        /\ G = n * p /\ G \in Int /\ cp \in Int
    BY <1>3, <1>6 DEF Vec2, Vec3, GridSize, n, p, s, off, G, cp
  <2>2. 0 <= cp /\ cp + p <= G
    <3>1. 0 <= c[2] /\ c[2] <= n - 1 /\ 0 <= p
      BY <1>5, <1>6, <2>1 DEF n, p
    <3>2. 0 <= c[2] * p /\ c[2] * p + p <= n * p
      BY <2>1, <3>1, CellBounds
    <3> QED
      BY <2>1, <3>2 DEF cp
  <2>3. Even(G) /\ Even(p) /\ Even(s)
    <3>1. Even(n * p)
      BY <1>4, <2>1, ProductEven DEF n, p
    <3> QED
      BY <1>4, <2>1, <3>1, QuadHalf DEF G, p, s
  <2>4. G = 2 * (G \div 2) /\ p = 2 * (p \div 2) /\ s = 2 * (s \div 2)
    BY <2>1, <2>3, HalfExact
  <2>5. Abs(off) + s \div 2 <= p \div 2
    BY <1>2 DEF OffsetFits, off, s, p
  <2>6. 2 * Abs(-(G \div 2) + cp + p \div 2 + off) + s <= G
    BY <2>1, <2>2, <2>4, <2>5, NodeArith
  <2>7. /\ ImplantNode(c)[a] = -(G \div 2) + cp + p \div 2 + off
        /\ m.implantSize[a] = s /\ SensorSize[a] = SensorSize.y
    BY <1>8 DEF ImplantNode, n, p, s, off, G, cp
  <2>8. SensorSize.y \in Int /\ G <= SensorSize.y
    BY <1>1, <1>5, GeometryType DEF Vec3, G
  <2> QED
    BY <2>1, <2>6, <2>7, <2>8 DEF Abs
<1>9. CASE a = "z"
  <2> DEFINE t == m.sensorThickness
             d == m.implantSize.z
  <2>1. t \in Int /\ d \in Int /\ d <= t /\ t % 4 = 0 /\ d % 4 = 0
    BY <1>2, <1>3, <1>4 DEF SizeFits, Quad, Vec3, t, d
  <2>2. /\ ImplantNode(c)[a] = (t - d) \div 2
        /\ m.implantSize[a] = d /\ SensorSize[a] = t
    BY <1>9 DEF ImplantNode, SensorSize, t, d
  <2>3. 2 * Abs((t - d) \div 2) + d <= t
    BY <2>1 DEF Abs
  <2> QED
    BY <2>2, <2>3
<1> QED
  BY <1>7, <1>8, <1>9 DEF Axes

\* Line 174: the implant union is placed at the sensor centre, so each
\* implant lies in the wrapper as the sensor box does.
LEMMA ImplantInside ==
    ASSUME WrapInv, GridInSensor, qpc = "done", NEW c \in ImplantCells
    PROVE  \A a \in Axes : 2 * Abs(ImplantBox(c).pos[a]) + ImplantBox(c).size[a] <= size[a]
<1>1. /\ ImplantBox(c).pos = Plus(Minus(SensorCenter, GeometricalCenter), ImplantNode(c))
      /\ ImplantBox(c).size = m.implantSize
  BY DEF ImplantBox, ImplantNode
<1>2. \A a \in Axes :
         2 * Abs(SensorCenter[a] - GeometricalCenter[a]) + SensorSize[a] <= size[a]
  <2>1. [center |-> SensorCenter, size |-> SensorSize] \in BaseElements
    BY DEF BaseElements
  <2> QED
    BY <2>1, PartsInside
<1>3. \A a \in Axes : 2 * Abs(ImplantNode(c)[a]) + m.implantSize[a] <= SensorSize[a]
  BY NodeInSensor
<1>4. /\ m \in Model /\ TypeOK
  BY DEF WrapInv, EnvInv, StackInv, TypeInv, TypeOK
<1>5. /\ SensorCenter \in Vec3 /\ SensorSize \in Vec3 /\ GeometricalCenter \in Vec3
      /\ m.implantSize \in Vec3 /\ size \in Vec3
  BY <1>4, GeometryType, GeometricalCenterType DEF Model, TypeOK
<1>6. ImplantNode(c) \in Vec3
  <2>1. /\ m.nPixels \in Vec2 /\ m.pixelSize \in Vec2 /\ m.implantOffset \in Vec2
        /\ c[1] \in Int /\ c[2] \in Int
    BY <1>4 DEF Model, ImplantCells
  <2>2. GridSize.x \in Int /\ GridSize.y \in Int
    BY <2>1 DEF GridSize, Vec2
  <2>3. /\ m.pixelSize.x \in Int /\ m.pixelSize.y \in Int
        /\ m.implantOffset.x \in Int /\ m.implantOffset.y \in Int
        /\ SensorSize.z \in Int /\ m.implantSize.z \in Int
    BY <1>5, <2>1 DEF Vec2, Vec3
  <2>4. /\ c[1] * m.pixelSize.x \in Int /\ c[2] * m.pixelSize.y \in Int
        /\ GridSize.x \div 2 \in Int /\ GridSize.y \div 2 \in Int
        /\ m.pixelSize.x \div 2 \in Int /\ m.pixelSize.y \div 2 \in Int
        /\ (SensorSize.z - m.implantSize.z) \div 2 \in Int
    BY <2>1, <2>2, <2>3
  <2>5. /\ ImplantNode(c).x \in Int /\ ImplantNode(c).y \in Int
        /\ ImplantNode(c).z \in Int
    BY <2>3, <2>4 DEF ImplantNode
  <2> QED
    BY <2>5 DEF ImplantNode, Vec3
<1> SUFFICES ASSUME NEW a \in Axes
             PROVE  2 * Abs(ImplantBox(c).pos[a]) + ImplantBox(c).size[a] <= size[a]
  OBVIOUS
<1> DEFINE u == SensorCenter[a] - GeometricalCenter[a]
           v == ImplantNode(c)[a]
<1>7. u \in Int /\ v \in Int /\ m.implantSize[a] \in Int /\ SensorSize[a] \in Int
      /\ size[a] \in Int
  BY <1>5, <1>6 DEF Vec3, Axes, u, v
<1>8. ImplantBox(c).pos[a] = u + v
  BY <1>1 DEF Plus, Minus, u, v
<1>9. Abs(u + v) <= Abs(u) + Abs(v)
  BY <1>7, AbsSum
<1> QED
  BY <1>1, <1>2, <1>3, <1>7, <1>8, <1>9 DEF u, v, Abs

(***************************************************************************)
(* The state-level argument: whatever build() has placed lies in the       *)
(* wrapper, given that the pixel grid lies in the sensor.                  *)
(***************************************************************************)
LEMMA WrapInvContains == WrapInv /\ GridInSensor => WrapperContains
<1> SUFFICES ASSUME WrapInv, GridInSensor, NEW p \in Placed, NEW a \in Axes
             PROVE  2 * Abs(p.pos[a]) + p.size[a] <= size[a]
  BY DEF WrapperContains
<1>1. /\ placed \subseteq PartBoxes /\ (bpc = "wrapper" => placed = {})
      /\ \A n \in 1..Len(supPhys) : supPhys[n].size = layers[n].size
      /\ Len(supPhys) = supIdx /\ supIdx \in 0..Len(layers)
      /\ \A n \in 1..supIdx : supPhys[n].pos = Minus(layers[n].center, GeometricalCenter)
      /\ (bpc = "wrapper" => supIdx = 0) /\ (bpc # "wrapper" => qpc = "done")
  BY DEF WrapInv, PlacedBoxes, CompleteInv, SupportsPlaced, BuilderInv, BuilderTypeOK
<1>2. CASE p \in placed
  <2>1. qpc = "done"
    BY <1>1, <1>2
  <2>2. CASE \E c \in ImplantCells : p = ImplantBox(c)
    BY <2>1, <2>2, ImplantInside
  <2>3. CASE p = Box("sensor", << >>, SensorCenter, SensorSize)
    <3>1. [center |-> SensorCenter, size |-> SensorSize] \in BaseElements
      BY DEF BaseElements
    <3> QED
      BY <2>1, <2>3, <3>1, PartsInside DEF Box, Minus
  <2>4. CASE p = Box("chip", << >>, ChipCenter, ChipSize)
    <3>1. [center |-> ChipCenter, size |-> ChipSize] \in BaseElements
      BY DEF BaseElements
    <3> QED
      BY <2>1, <2>4, <3>1, PartsInside DEF Box, Minus
  <2> QED
    BY <1>1, <1>2, <2>2, <2>3, <2>4 DEF PartBoxes
<1>3. CASE p \notin placed
  <2>1. PICK n \in 1..Len(supPhys) : p = supPhys[n]
    BY <1>3 DEF Placed
  <2>2. qpc = "done" /\ n \in 1..Len(layers)
    BY <1>1, <2>1
  <2>3. p.pos = Minus(layers[n].center, GeometricalCenter) /\ p.size = layers[n].size
    BY <1>1, <2>1
  <2>4. layers[n] \in {layers[q] : q \in 1..Len(layers)}
    BY <2>2
  <2> QED
    BY <2>2, <2>3, <2>4, PartsInside DEF Minus
<1> QED
  BY <1>2, <1>3

(***************************************************************************)
(* For every configuration and every set of materials, whenever the pixel *)
(* grid lies in the sensor, every volume DetectorConstructionG4::build    *)
(* places in the wrapper (implants, sensor, chip, support layers, each at *)
(* its centre less getGeometricalCenter()) lies inside the wrapper box of *)
(* the size getSize() returns, whatever the model steps interleaved with  *)
(* the build.                                                              *)
(***************************************************************************)
THEOREM WrapperHoldsParts == BuilderSpec => []WrapperContainsCovered
<1>1. BuilderInit => WrapInv
  BY InitWrapInv
<1>2. WrapInv /\ [BuilderNext]_allVars => WrapInv'
  BY NextWrapInv
<1>3. WrapInv => WrapperContainsCovered
  BY WrapInvContains DEF WrapperContainsCovered
<1> QED
  BY <1>1, <1>2, <1>3, PTL DEF BuilderSpec

=============================================================================
