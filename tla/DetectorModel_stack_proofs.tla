------------------------ MODULE DetectorModel_stack_proofs ------------------------
(***************************************************************************)
(* Proof that the support layers getSupportLayers() stacks never overlap  *)
(* in z, for every configuration and every number of layers.               *)
(***************************************************************************)
EXTENDS DetectorModel_proofs

(***************************************************************************)
(* The thicknesses the constructor stores are not negative: the sensor and *)
(* the chip read them from the header, the layers from their section      *)
(* (ThicknessAssumption), and getSupportLayers() copies the layers'       *)
(* sizes unchanged.                                                        *)
(***************************************************************************)
ThicknessOK ==
    /\ m.sensorThickness >= 0
    /\ m.chipThickness >= 0
    /\ \A n \in 1..Len(m.supportLayers) : m.supportLayers[n].size.z >= 0
    /\ \A n \in 1..Len(layers) : layers[n].size.z >= 0

\* The stacked layers getSupportLayers() has placed so far.
PlacedStacked == {n \in StackedIndices : n < j}

(***************************************************************************)
(* The invariant of the loop of lines 156-165: sensor_offset never rises  *)
(* above the sensor's back face nor chip_offset below the chip's front    *)
(* face; every sensor (chip) layer placed lies between the face and the   *)
(* running offset; and no two placed layers overlap.                       *)
(***************************************************************************)
StackInv ==
    /\ TypeInv
    /\ ThicknessOK
    /\ qpc # "idle" => pc = "ready"
    /\ Stacked => j = Len(layers) + 1
    /\ qpc \in {"stacking", "supports", "done"} =>
          /\ sOff <= Bottom(SensorElement, "z")
          /\ cOff >= Top(ChipElement, "z")
          /\ \A n \in PlacedStacked :
                IF layers[n].location = "sensor"
                THEN /\ Top(layers[n], "z") <= Bottom(SensorElement, "z")
                     /\ Bottom(layers[n], "z") >= sOff
                ELSE /\ Bottom(layers[n], "z") >= Top(ChipElement, "z")
                     /\ Top(layers[n], "z") <= cOff
          /\ \A n1, n2 \in PlacedStacked : n1 # n2 => ZDisjoint(layers[n1], layers[n2])

-----------------------------------------------------------------------------
(***************************************************************************)
(* The faces the stacking starts from.  The frame's z origin is the       *)
(* sensor's centre (getCenter().z() = 0).                                   *)
(***************************************************************************)
LEMMA BaseFaces ==
    ASSUME m \in Model
    PROVE  /\ Center.z = 0
           /\ Bottom(SensorElement, "z") = -(m.sensorThickness \div 2)
           /\ Top(ChipElement, "z") = m.sensorThickness \div 2 + m.chipThickness \div 2
                                        + m.chipThickness \div 2
<1>1. m.sensorThickness \in Int /\ m.chipThickness \in Int
  BY ModelFields
<1>2. Center.z = 0 /\ SensorCenter.z = 0 /\ SensorSize.z = m.sensorThickness
  BY DEF Center, SensorCenter, SensorSize, Plus, Axes
<1>3. ChipCenter.z = m.sensorThickness \div 2 + m.chipThickness \div 2
      /\ ChipSize.z = m.chipThickness
  BY <1>2, GeometryType DEF ChipCenter, ChipSize, Vec3
<1> QED
  BY <1>1, <1>2, <1>3 DEF SensorElement, ChipElement, Top, Bottom

\* With thicknesses that are not negative, the sensor's back face lies
\* below the chip's front face.
LEMMA FacesOrdered ==
    ASSUME m \in Model, m.sensorThickness >= 0, m.chipThickness >= 0
    PROVE  Bottom(SensorElement, "z") <= Top(ChipElement, "z")
<1>1. m.sensorThickness \in Int /\ m.chipThickness \in Int
  BY ModelFields
<1> QED
  BY <1>1, BaseFaces

(***************************************************************************)
(* The layer StackStep places with its centre at depth z: its faces are   *)
(* z plus and minus half its thickness, and it keeps its other fields.    *)
(***************************************************************************)
LEMMA PlacedFaces ==
    ASSUME m \in Model, NEW l \in Layer, NEW z \in Int
    PROVE  LET e == [l EXCEPT !.center = Plus(Center, [l.offset EXCEPT !.z = z])]
           IN  /\ e \in Layer
               /\ e.location = l.location /\ e.size = l.size
               /\ Top(e, "z") = z + l.size.z \div 2
               /\ Bottom(e, "z") = z - l.size.z \div 2
<1> DEFINE c == Plus(Center, [l.offset EXCEPT !.z = z])
<1>1. c \in Vec3
  BY PlaceType
<1>2. c.z = z
  BY BaseFaces DEF Plus, Axes, Layer, Vec3
<1>3. [l EXCEPT !.center = c] \in Layer
  BY <1>1 DEF Layer
<1> QED
  BY <1>2, <1>3 DEF Top, Bottom, Layer, Vec3

-----------------------------------------------------------------------------
(***************************************************************************)
(* The constructor stores thicknesses that are not negative.               *)
(***************************************************************************)
LEMMA InitStackInv == Init => StackInv
<1> SUFFICES ASSUME Init PROVE StackInv
  OBVIOUS
<1>1. TypeInv
  BY InitTypeInv
<1>2. m.sensorThickness = 0 /\ m.chipThickness = 0 /\ m.supportLayers = << >>
  BY DEF Init, EmptyModel
<1>3. layers = << >>
  BY DEF Init
<1>4. ThicknessOK
  BY <1>2, <1>3 DEF ThicknessOK
<1> QED
  BY <1>1, <1>4 DEF Init, StackInv, Stacked

\* A read of "double" that throws nothing gives a thickness that is not
\* negative, from a header or from a support section.
LEMMA ThicknessRead ==
    /\ \A cfg \in HeaderConfigs, key \in {"sensor_thickness", "chip_thickness"} :
          /\ ReadError(cfg, key, "double") = NoError => cfg[key].double >= 0
          /\ ReadOptError(cfg, key, "double") = NoError
                => Get(cfg, key, "double", 0) >= 0
    /\ \A cfg \in SupportConfigs :
          ReadError(cfg, "thickness", "double") = NoError => cfg["thickness"].double >= 0
<1>1. ASSUME NEW cfg \in HeaderConfigs, NEW key \in {"sensor_thickness", "chip_thickness"}
      PROVE  /\ ReadError(cfg, key, "double") = NoError => cfg[key].double >= 0
             /\ ReadOptError(cfg, key, "double") = NoError
                  => Get(cfg, key, "double", 0) >= 0
  BY ReadOK, ThicknessAssumption DEF Get
<1>2. ASSUME NEW cfg \in SupportConfigs
      PROVE  ReadError(cfg, "thickness", "double") = NoError => cfg["thickness"].double >= 0
  BY ReadOK, ThicknessAssumption
<1> QED
  BY <1>1, <1>2

\* The model fields the thickness invariant reads.
ModelThickness ==
    /\ m.sensorThickness >= 0
    /\ m.chipThickness >= 0
    /\ \A n \in 1..Len(m.supportLayers) : m.supportLayers[n].size.z >= 0

\* A block of the constructor stores a thickness only after reading it with
\* its schema; the others leave the thicknesses and the layers alone.
LEMMA CtorThickness ==
    ASSUME TypeInv, ModelThickness,
           ReadGrid \/ ReadExcess \/ ReadImplantSize \/ ReadImplantOffset \/ ReadChip
             \/ ReadSupport \/ Constructed
    PROVE  ModelThickness'
<1>0. /\ m \in Model /\ hdr \in HeaderConfigs /\ secs \in Seq(SupportConfigs)
      /\ i \in 1..(Len(secs) + 1)
  BY DEF TypeInv, TypeOK
<1>1. CASE m' = m
  BY <1>1 DEF ModelThickness
<1>2. CASE /\ m'.sensorThickness = m.sensorThickness
           /\ m'.chipThickness = m.chipThickness
           /\ m'.supportLayers = m.supportLayers
  BY <1>2 DEF ModelThickness
<1>3. CASE ReadGrid /\ m' # m
  <2> DEFINE errs == << ReadError(hdr, "number_of_pixels", "uint2"),
                        ReadError(hdr, "pixel_size", "xy"),
                        ReadError(hdr, "sensor_thickness", "double") >>
  <2>1. /\ FirstError(errs) = NoError
        /\ m' = [m EXCEPT !.nPixels = hdr["number_of_pixels"].uint2,
                          !.pixelSize = hdr["pixel_size"].xy,
                          !.sensorThickness = hdr["sensor_thickness"].double]
    BY <1>3 DEF ReadGrid, Fail, Go
  <2>2. errs \in Seq(Error)
    BY ReadErrorType DEF Keys
  <2>3. \A p \in 1..Len(errs) : errs[p] = NoError
    BY <2>1, <2>2, FirstErrorNone
  <2>5. ReadError(hdr, "sensor_thickness", "double") = NoError
    BY <2>3
  <2>4. hdr["sensor_thickness"].double >= 0
    BY <1>0, <2>5, ThicknessRead
  <2> QED
    BY <1>0, <2>1, <2>4 DEF ModelThickness, Model
<1>4. CASE ReadChip /\ m' # m
  <2>1. /\ ReadOptError(hdr, "chip_thickness", "double") = NoError
        /\ m' = [m EXCEPT !.chipThickness = Get(hdr, "chip_thickness", "double", 0)]
    BY <1>4 DEF ReadChip, Fail
  <2>2. Get(hdr, "chip_thickness", "double", 0) >= 0
    BY <1>0, <2>1, ThicknessRead
  <2> QED
    BY <1>0, <2>1, <2>2 DEF ModelThickness, Model
<1>5. CASE ReadSupport /\ m' # m
  <2> DEFINE s == secs[i]
  <2>0. i <= Len(secs)
    BY <1>5 DEF ReadSupport
  <2>1. /\ FirstError(SupportErrors(s)) = NoError
        /\ m' = [m EXCEPT !.supportLayers = Append(m.supportLayers, NewLayer(s))]
    BY <1>5 DEF ReadSupport, Fail
  <2>2. s \in SupportConfigs
    BY <1>0, <2>0
  <2>6. \A p \in 1..Len(SupportErrors(s)) : SupportErrors(s)[p] = NoError
    BY <2>1, SupportErrorsType, FirstErrorNone
  <2>3. ReadError(s, "thickness", "double") = NoError
    BY <2>6 DEF SupportErrors
  <2>4. NewLayer(s).size.z >= 0
    BY <2>2, <2>3, ThicknessRead DEF NewLayer
  <2>5. m.supportLayers \in Seq(Layer)
    BY <1>0 DEF Model
  <2> QED
    BY <1>0, <2>1, <2>4, <2>5 DEF ModelThickness, Model
<1>6. CASE ReadExcess \/ ReadImplantSize \/ ReadImplantOffset
  <2>1. \/ m' = m
        \/ \E v : m' = [m EXCEPT !.excess = v]
        \/ \E v, w : m' = [m EXCEPT !.implantSize = v, !.implantMaterial = w]
        \/ \E v : m' = [m EXCEPT !.implantOffset = v]
    BY <1>6 DEF ReadExcess, ReadImplantSize, ReadImplantOffset, Fail, Go
  <2> QED
    BY <1>0, <1>1, <1>2, <2>1 DEF Model
<1>7. CASE Constructed
  BY <1>1, <1>7 DEF Constructed
<1> QED
  BY <1>3, <1>4, <1>5, <1>6, <1>7, <1>1

-----------------------------------------------------------------------------
(***************************************************************************)
(* StackInv is inductive.                                                  *)
(***************************************************************************)
\* The constructor runs before getSize(): it leaves the query alone.
LEMMA CtorStackInv ==
    ASSUME StackInv,
           ReadGrid \/ ReadExcess \/ ReadImplantSize \/ ReadImplantOffset \/ ReadChip
             \/ ReadSupport \/ Constructed
    PROVE  StackInv'
<1>1. TypeInv'
  BY ReadGridTypeInv, ReadExcessTypeInv, ReadImplantSizeTypeInv, ReadImplantOffsetTypeInv,
     ReadChipTypeInv, ReadSupportTypeInv, ConstructedTypeInv DEF StackInv
<1>2. ModelThickness'
  BY CtorThickness DEF StackInv, ThicknessOK, ModelThickness
<1>3. qpc = "idle"
  <2>1. pc # "ready"
    BY DEF ReadGrid, ReadExcess, ReadImplantSize, ReadImplantOffset, ReadChip,
           ReadSupport, Constructed
  <2> QED
    BY <2>1 DEF StackInv
<1>4. UNCHANGED queryVars
  BY DEF ReadGrid, ReadExcess, ReadImplantSize, ReadImplantOffset, ReadChip,
         ReadSupport, Constructed, Fail, Go
<1> QED
  BY <1>1, <1>2, <1>3, <1>4 DEF StackInv, ThicknessOK, ModelThickness, Stacked, queryVars

\* The steps of getSize() that do not place a layer.
LEMMA SizeBaseStackInv == StackInv /\ SizeBase => StackInv'
<1> SUFFICES ASSUME StackInv, SizeBase PROVE StackInv'
  OBVIOUS
<1>1. TypeInv'
  BY SizeBaseTypeInv DEF StackInv
<1> QED
  BY <1>1 DEF SizeBase, StackInv, ThicknessOK, Stacked, ctorVars

LEMMA StackEndStackInv == StackInv /\ StackEnd => StackInv'
<1> SUFFICES ASSUME StackInv, StackEnd PROVE StackInv'
  OBVIOUS
<1>1. TypeInv'
  BY StackEndTypeInv DEF StackInv
<1>2. j = Len(layers) + 1
  BY DEF StackEnd, StackInv, TypeInv, TypeOK
<1>3. UNCHANGED <<m, sOff, cOff, j, layers>> /\ qpc' = "supports" /\ qpc = "stacking"
  BY DEF StackEnd, ctorVars
<1>4. PlacedStacked' = PlacedStacked
  BY <1>3 DEF PlacedStacked, StackedIndices
<1>5. SensorElement' = SensorElement /\ ChipElement' = ChipElement
  BY <1>3 DEF SensorElement, ChipElement, SensorCenter, SensorSize, ChipCenter, ChipSize,
              Center, GridSize
<1> QED
  BY <1>1, <1>2, <1>3, <1>4, <1>5 DEF StackEnd, StackInv, ThicknessOK, Stacked, ctorVars

LEMMA SizeLoopStackInv == StackInv /\ (SizeStep \/ SizeEnd) => StackInv'
<1> SUFFICES ASSUME StackInv, SizeStep \/ SizeEnd PROVE StackInv'
  OBVIOUS
<1>1. TypeInv'
  BY SizeStepTypeInv, SizeEndTypeInv DEF StackInv
<1>3. UNCHANGED <<pc, m, sOff, cOff, j, layers>> /\ qpc = "supports"
      /\ qpc' \in {"supports", "done"}
  BY DEF SizeStep, SizeEnd, ctorVars
<1>4. PlacedStacked' = PlacedStacked
  BY <1>3 DEF PlacedStacked, StackedIndices
<1>5. SensorElement' = SensorElement /\ ChipElement' = ChipElement
  BY <1>3 DEF SensorElement, ChipElement, SensorCenter, SensorSize, ChipCenter, ChipSize,
              Center, GridSize
<1> QED
  BY <1>1, <1>3, <1>4, <1>5 DEF StackInv, ThicknessOK, Stacked

\* getSupportLayers() starts at the sensor's back face and above the chip.
LEMMA StackBeginStackInv == StackInv /\ StackBegin => StackInv'
<1> SUFFICES ASSUME StackInv, StackBegin PROVE StackInv'
  OBVIOUS
<1>1. TypeInv'
  BY StackBeginTypeInv DEF StackInv
<1>2. m \in Model /\ ModelThickness
  BY DEF StackInv, TypeInv, TypeOK, ThicknessOK, ModelThickness
<1>3. UNCHANGED m /\ pc = "ready" /\ qpc' = "stacking" /\ j' = 1 /\ layers' = m.supportLayers
  BY DEF StackBegin, StackInv, ctorVars
<1>4. SensorElement' = SensorElement /\ ChipElement' = ChipElement
  BY <1>3 DEF SensorElement, ChipElement, SensorCenter, SensorSize, ChipCenter, ChipSize,
              Center, GridSize
<1>5. PlacedStacked' = {}
  BY <1>3 DEF PlacedStacked, StackedIndices
<1>6. sOff' = Bottom(SensorElement, "z") /\ cOff' >= Top(ChipElement, "z")
  <2>1. sOff' = -(m.sensorThickness \div 2)
        /\ cOff' = m.sensorThickness \div 2 + m.chipThickness
    BY DEF StackBegin, SensorSize, ChipSize
  <2>2. m.sensorThickness \in Int /\ m.chipThickness \in Int
    BY <1>2, ModelFields
  <2> QED
    BY <1>2, <2>1, <2>2, BaseFaces DEF ModelThickness
<1>7. ThicknessOK'
  BY <1>2, <1>3 DEF ThicknessOK, ModelThickness
<1>8. ~Stacked' /\ (qpc' # "idle" => pc' = "ready")
  BY <1>3 DEF Stacked, StackBegin, ctorVars
<1>9. sOff' <= Bottom(SensorElement', "z") /\ cOff' >= Top(ChipElement', "z")
  BY <1>1, <1>4, <1>6 DEF TypeInv, TypeOK
<1>10. \A n \in PlacedStacked' : FALSE
  BY <1>5
<1> QED
  BY <1>1, <1>7, <1>8, <1>9, <1>10 DEF StackInv

(***************************************************************************)
(* One iteration of the loop of lines 156-165.  A sensor layer is placed   *)
(* with its top face at sensor_offset, which then drops by its thickness  *)
(* to or below its bottom face; a chip layer symmetrically; an absolute   *)
(* layer is not stacked.                                                   *)
(***************************************************************************)
LEMMA StackStepStackInv == StackInv /\ StackStep => StackInv'
<1> SUFFICES ASSUME StackInv, StackStep PROVE StackInv'
  OBVIOUS
<1> DEFINE l == layers[j]
           t == l.size.z
           New(z) == [l EXCEPT !.center = Plus(Center, [l.offset EXCEPT !.z = z])]
           BS == Bottom(SensorElement, "z")
           TC == Top(ChipElement, "z")
<1>1. TypeInv'
  BY StackStepTypeInv DEF StackInv
<1>2. /\ m \in Model /\ layers \in Seq(Layer) /\ sOff \in Int /\ cOff \in Int
      /\ j \in 1..Len(layers) /\ l \in Layer /\ t \in Int /\ t >= 0
      /\ qpc = "stacking" /\ pc = "ready"
  <2>1. /\ m \in Model /\ layers \in Seq(Layer) /\ sOff \in Int /\ cOff \in Int
        /\ j \in 1..(Len(layers) + 1) /\ qpc \in {"idle", "stack", "stacking", "supports", "done"}
    BY DEF StackInv, TypeInv, TypeOK
  <2>2. j <= Len(layers) /\ qpc = "stacking"
    BY DEF StackStep
  <2>3. j \in 1..Len(layers) /\ l \in Layer
    BY <2>1, <2>2
  <2>4. t \in Int /\ t >= 0
    BY <2>3 DEF StackInv, ThicknessOK, Layer, Vec3
  <2>5. pc = "ready"
    BY <2>2 DEF StackInv
  <2> QED
    BY <2>1, <2>2, <2>3, <2>4, <2>5
<1>3. UNCHANGED <<m, pc, qpc>> /\ j' = j + 1
  BY DEF StackStep, ctorVars
<1>4. PICK z \in Int :
        /\ layers' = [layers EXCEPT ![j].center = Plus(Center, [l.offset EXCEPT !.z = z])]
        /\ \/ l.location = "sensor" /\ z = sOff - t \div 2 /\ sOff' = sOff - t /\ cOff' = cOff
           \/ l.location = "chip" /\ z = cOff + t \div 2 /\ cOff' = cOff + t /\ sOff' = sOff
           \/ l.location \notin {"sensor", "chip"} /\ UNCHANGED <<sOff, cOff>>
  <2>0. l.offset \in Vec3
    BY <1>2 DEF Layer
  <2>1. l.offset.z \in Int /\ sOff - t \div 2 \in Int /\ cOff + t \div 2 \in Int
    BY <1>2, <2>0 DEF Vec3
  <2> QED
    BY <2>1, Zenon DEF StackStep
<1>5. /\ New(z) \in Layer /\ New(z).location = l.location /\ New(z).size = l.size
      /\ Top(New(z), "z") = z + t \div 2 /\ Bottom(New(z), "z") = z - t \div 2
  BY <1>2, PlacedFaces
<1>6. /\ Len(layers') = Len(layers)
      /\ layers'[j] = New(z)
      /\ \A n \in 1..Len(layers) : n # j => layers'[n] = layers[n]
  <2>1. layers' = [layers EXCEPT ![j] = New(z)]
    BY <1>4 DEF New, l
  <2>2. DOMAIN layers' = DOMAIN layers
    BY <2>1
  <2>3. layers' \in Seq(Layer)
    BY <1>1 DEF TypeInv, TypeOK
  <2>4. Len(layers') = Len(layers)
    BY <1>2, <2>2, <2>3
  <2> QED
    BY <1>2, <2>1, <2>4
<1>7. SensorElement' = SensorElement /\ ChipElement' = ChipElement
  BY <1>3 DEF SensorElement, ChipElement, SensorCenter, SensorSize, ChipCenter, ChipSize,
              Center, GridSize
<1>8. BS <= TC /\ BS \in Int /\ TC \in Int
  <2>1. m.sensorThickness >= 0 /\ m.chipThickness >= 0 /\ m.sensorThickness \in Int
        /\ m.chipThickness \in Int
    BY <1>2, ModelFields DEF StackInv, ThicknessOK
  <2>2. Bottom(SensorElement, "z") <= Top(ChipElement, "z")
    BY <1>2, <2>1, FacesOrdered
  <2>3. Bottom(SensorElement, "z") = -(m.sensorThickness \div 2)
        /\ Top(ChipElement, "z") = m.sensorThickness \div 2 + m.chipThickness \div 2
                                     + m.chipThickness \div 2
    BY <1>2, BaseFaces
  <2> QED
    BY <2>1, <2>2, <2>3 DEF BS, TC
<1>9. ThicknessOK'
  <2>1. \A n \in 1..Len(layers') : layers'[n].size.z = layers[n].size.z
    BY <1>5, <1>6
  <2> QED
    BY <1>3, <1>6, <2>1 DEF StackInv, ThicknessOK
<1>10. StackedIndices' = StackedIndices
  BY <1>5, <1>6 DEF StackedIndices
<1>11. \A n \in PlacedStacked : n < j /\ n \in 1..Len(layers) /\ layers'[n] = layers[n]
  BY <1>6 DEF PlacedStacked, StackedIndices
<1>12. PlacedStacked' = PlacedStacked \cup ({j} \cap StackedIndices)
  <2>1. StackedIndices \subseteq 1..Len(layers)
    BY DEF StackedIndices
  <2> QED
    <3>1. PlacedStacked' = {n \in StackedIndices : n < j + 1}
      BY <1>3, <1>10 DEF PlacedStacked
    <3>2. PlacedStacked = {n \in StackedIndices : n < j}
      BY DEF PlacedStacked
    <3>0. j \in Int
      BY <1>2
    <3>3. ASSUME NEW n \in StackedIndices PROVE (n < j + 1) <=> (n < j \/ n = j)
      <4>1. n \in Int
        BY <2>1
      <4> QED
        BY <3>0, <4>1
    <3> QED
      BY <3>1, <3>2, <3>3, Zenon
<1>13. sOff' <= sOff /\ cOff' >= cOff /\ sOff' \in Int /\ cOff' \in Int
  BY <1>2, <1>4
\* The faces of the layers placed earlier, and the offsets, from StackInv.
<1>14. /\ sOff <= BS /\ cOff >= TC
       /\ \A n \in PlacedStacked :
             IF layers[n].location = "sensor"
             THEN Top(layers[n], "z") <= BS /\ Bottom(layers[n], "z") >= sOff
             ELSE Bottom(layers[n], "z") >= TC /\ Top(layers[n], "z") <= cOff
       /\ \A n1, n2 \in PlacedStacked : n1 # n2 => ZDisjoint(layers[n1], layers[n2])
  BY <1>2 DEF StackInv
<1>17. \A n \in PlacedStacked : layers[n].location \in {"sensor", "chip"}
  BY DEF PlacedStacked, StackedIndices
<1>15. \A n \in PlacedStacked : Top(layers[n], "z") \in Int /\ Bottom(layers[n], "z") \in Int
  <2> SUFFICES ASSUME NEW n \in PlacedStacked PROVE Top(layers[n], "z") \in Int /\ Bottom(layers[n], "z") \in Int
    OBVIOUS
  <2>1. layers[n] \in Layer
    BY <1>2, <1>11
  <2> QED
    BY <2>1, FaceType DEF Layer, Axes
\* The layer placed now lies between the face and the new offset, apart
\* from every layer placed before it.
<1>16. j \in StackedIndices =>
         /\ IF l.location = "sensor"
            THEN Top(New(z), "z") <= BS /\ Bottom(New(z), "z") >= sOff'
            ELSE Bottom(New(z), "z") >= TC /\ Top(New(z), "z") <= cOff'
         /\ \A n \in PlacedStacked : ZDisjoint(New(z), layers[n])
  <2> SUFFICES ASSUME j \in StackedIndices
               PROVE  /\ IF l.location = "sensor"
                         THEN Top(New(z), "z") <= BS /\ Bottom(New(z), "z") >= sOff'
                         ELSE Bottom(New(z), "z") >= TC /\ Top(New(z), "z") <= cOff'
                      /\ \A n \in PlacedStacked : ZDisjoint(New(z), layers[n])
    OBVIOUS
  <2>1. l.location \in {"sensor", "chip"}
    BY DEF StackedIndices
  <2>2. CASE l.location = "sensor"
    <3>1. z = sOff - t \div 2 /\ sOff' = sOff - t
      BY <2>2, <1>4
    <3>2. Top(New(z), "z") = sOff /\ Bottom(New(z), "z") >= sOff'
      BY <1>2, <1>5, <3>1
    <3>3. Top(New(z), "z") <= BS /\ Bottom(New(z), "z") >= sOff'
      BY <1>14, <3>2
    <3>4. ASSUME NEW n \in PlacedStacked PROVE ZDisjoint(New(z), layers[n])
      <4>0. layers[n].location = "sensor" \/ layers[n].location = "chip"
        BY <1>17
      <4>2. layers[n].location = "sensor"
              => Top(layers[n], "z") <= BS /\ Bottom(layers[n], "z") >= sOff
        BY <1>14
      <4>3. layers[n].location = "chip"
              => Bottom(layers[n], "z") >= TC /\ Top(layers[n], "z") <= cOff
        BY <1>14
      <4>4. Bottom(layers[n], "z") >= sOff
        <5>1. CASE layers[n].location = "sensor"
          BY <4>2, <5>1
        <5>2. CASE layers[n].location = "chip"
          <6>1. Bottom(layers[n], "z") >= TC
            BY <4>3, <5>2
          <6> QED
            BY <1>2, <1>8, <1>14, <1>15, <6>1
        <5> QED
          BY <4>0, <5>1, <5>2
      <4>1. Top(New(z), "z") <= Bottom(layers[n], "z")
        BY <1>2, <1>15, <3>2, <4>4
      <4> QED
        BY <4>1 DEF ZDisjoint
    <3> QED
      BY <2>2, <3>3, <3>4
  <2>3. CASE l.location = "chip"
    <3>1. z = cOff + t \div 2 /\ cOff' = cOff + t
      BY <2>3, <1>4
    <3>2. Bottom(New(z), "z") = cOff /\ Top(New(z), "z") <= cOff'
      BY <1>2, <1>5, <3>1
    <3>3. Bottom(New(z), "z") >= TC /\ Top(New(z), "z") <= cOff'
      BY <1>14, <3>2
    <3>4. ASSUME NEW n \in PlacedStacked PROVE ZDisjoint(New(z), layers[n])
      <4>0. layers[n].location = "sensor" \/ layers[n].location = "chip"
        BY <1>17
      <4>2. layers[n].location = "sensor"
              => Top(layers[n], "z") <= BS /\ Bottom(layers[n], "z") >= sOff
        BY <1>14
      <4>3. layers[n].location = "chip"
              => Bottom(layers[n], "z") >= TC /\ Top(layers[n], "z") <= cOff
        BY <1>14
      <4>4. Top(layers[n], "z") <= cOff
        <5>1. CASE layers[n].location = "chip"
          BY <4>3, <5>1
        <5>2. CASE layers[n].location = "sensor"
          <6>1. Top(layers[n], "z") <= BS
            BY <4>2, <5>2
          <6> QED
            BY <1>2, <1>8, <1>14, <1>15, <6>1
        <5> QED
          BY <4>0, <5>1, <5>2
      <4>1. Top(layers[n], "z") <= Bottom(New(z), "z")
        BY <1>2, <1>15, <3>2, <4>4
      <4> QED
        BY <4>1 DEF ZDisjoint
    <3> QED
      BY <2>3, <3>3, <3>4
  <2> QED
    BY <2>1, <2>2, <2>3
<1>18. Bottom(SensorElement', "z") = BS /\ Top(ChipElement', "z") = TC
  BY <1>7
<1>19. sOff' <= BS /\ cOff' >= TC
  BY <1>8, <1>13, <1>14, <1>2
\* Every layer placed so far, the one placed now included, lies between its
\* face and the new offset.
<1>20. \A n \in PlacedStacked' :
          IF layers'[n].location = "sensor"
          THEN Top(layers'[n], "z") <= BS /\ Bottom(layers'[n], "z") >= sOff'
          ELSE Bottom(layers'[n], "z") >= TC /\ Top(layers'[n], "z") <= cOff'
  <2> SUFFICES ASSUME NEW n \in PlacedStacked'
               PROVE  IF layers'[n].location = "sensor"
                      THEN Top(layers'[n], "z") <= BS /\ Bottom(layers'[n], "z") >= sOff'
                      ELSE Bottom(layers'[n], "z") >= TC /\ Top(layers'[n], "z") <= cOff'
    OBVIOUS
  <2>1. CASE n \in PlacedStacked
    <3>1. layers'[n] = layers[n]
      BY <1>11, <2>1
    <3>2. layers[n].location = "sensor"
            => Top(layers[n], "z") <= BS /\ Bottom(layers[n], "z") >= sOff
      BY <1>14, <2>1
    <3>3. layers[n].location # "sensor"
            => Bottom(layers[n], "z") >= TC /\ Top(layers[n], "z") <= cOff
      BY <1>14, <2>1
    <3>4. Top(layers[n], "z") \in Int /\ Bottom(layers[n], "z") \in Int
      BY <1>15, <2>1
    <3> QED
      BY <1>2, <1>8, <1>13, <3>1, <3>2, <3>3, <3>4
  <2>2. CASE n = j /\ j \in StackedIndices
    BY <1>5, <1>6, <1>16, <2>2 DEF l
  <2> QED
    BY <1>12, <2>1, <2>2
\* No two of them overlap.
<1>21. \A n1, n2 \in PlacedStacked' : n1 # n2 => ZDisjoint(layers'[n1], layers'[n2])
  <2> SUFFICES ASSUME NEW n1 \in PlacedStacked', NEW n2 \in PlacedStacked', n1 # n2
               PROVE  ZDisjoint(layers'[n1], layers'[n2])
    OBVIOUS
  <2>1. CASE n1 \in PlacedStacked /\ n2 \in PlacedStacked
    BY <1>11, <1>14, <2>1
  <2>2. CASE n1 = j /\ j \in StackedIndices /\ n2 \in PlacedStacked
    BY <1>6, <1>11, <1>16, <2>2
  <2>3. CASE n2 = j /\ j \in StackedIndices /\ n1 \in PlacedStacked
    <3>1. ZDisjoint(New(z), layers[n1])
      BY <1>16, <2>3
    <3> QED
      BY <1>6, <1>11, <2>3, <3>1 DEF ZDisjoint
  <2> QED
    BY <1>12, <2>1, <2>2, <2>3
<1>22. qpc' = "stacking" /\ pc' = "ready"
  BY <1>2, <1>3
<1> QED
  BY <1>1, <1>9, <1>18, <1>19, <1>20, <1>21, <1>22 DEF StackInv, Stacked

\* A stuttering step leaves every variable StackInv reads alone.
LEMMA StutterStackInv == StackInv /\ UNCHANGED vars => StackInv'
<1> SUFFICES ASSUME StackInv, UNCHANGED vars PROVE StackInv'
  OBVIOUS
<1>1. UNCHANGED <<hdr, secs, pc, err, m, i, qpc, sOff, cOff, j, layers, k, hi, lo, size>>
  BY DEF vars, ctorVars, queryVars
<1>2. TypeInv'
  BY <1>1 DEF StackInv, TypeInv, TypeOK
<1>3. ThicknessOK'
  BY <1>1 DEF StackInv, ThicknessOK
<1>4. PlacedStacked' = PlacedStacked
  BY <1>1 DEF PlacedStacked, StackedIndices
<1>5. SensorElement' = SensorElement /\ ChipElement' = ChipElement
  BY <1>1 DEF SensorElement, ChipElement, SensorCenter, SensorSize, ChipCenter, ChipSize,
              Center, GridSize
<1> QED
  BY <1>1, <1>2, <1>3, <1>4, <1>5 DEF StackInv, Stacked

LEMMA NextStackInv == StackInv /\ [Next]_vars => StackInv'
<1> SUFFICES ASSUME StackInv, [Next]_vars PROVE StackInv'
  OBVIOUS
<1> QED
  BY StutterStackInv, CtorStackInv, SizeBaseStackInv, StackBeginStackInv, StackStepStackInv,
     StackEndStackInv, SizeLoopStackInv DEF Next

(***************************************************************************)
(* For every configuration and every number of support sections, once     *)
(* getSupportLayers() has returned (lines 150-168), no sensor layer rises  *)
(* above the sensor's back face, no chip layer sinks below the chip's     *)
(* front face, and no two stacked layers overlap, in whatever order the   *)
(* sensor and chip sections are declared.                                  *)
(***************************************************************************)
THEOREM StackedLayersDisjoint == Spec => []NoOverlap
<1>1. Init => StackInv
  BY InitStackInv
<1>2. StackInv /\ [Next]_vars => StackInv'
  BY NextStackInv
<1>3. StackInv => NoOverlap
  <2> SUFFICES ASSUME StackInv, Stacked PROVE NoOverlap
    BY DEF NoOverlap
  <2>1. j = Len(layers) + 1 /\ qpc \in {"stacking", "supports", "done"}
    BY DEF StackInv, Stacked
  <2>2. PlacedStacked = StackedIndices
    BY <2>1 DEF PlacedStacked, StackedIndices
  <2>3. \A n \in StackedIndices :
          IF layers[n].location = "sensor"
          THEN Top(layers[n], "z") <= Bottom(SensorElement, "z")
          ELSE Bottom(layers[n], "z") >= Top(ChipElement, "z")
    BY <2>1, <2>2 DEF StackInv
  <2>4. \A n1, n2 \in StackedIndices : n1 # n2 => ZDisjoint(layers[n1], layers[n2])
    BY <2>1, <2>2 DEF StackInv
  <2> QED
    BY <2>3, <2>4 DEF NoOverlap
<1> QED
  BY <1>1, <1>2, <1>3, PTL DEF Spec

=============================================================================
