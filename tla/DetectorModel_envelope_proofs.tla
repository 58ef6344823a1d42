---------------------- MODULE DetectorModel_envelope_proofs ----------------------
(***************************************************************************)
(* Proof that the envelope getSize() returns, centred on                  *)
(* getGeometricalCenter(), contains the sensor, the chip and every support *)
(* layer (EnvelopeContains), for every configuration.                      *)
(***************************************************************************)
EXTENDS DetectorModel_stack_proofs

Even(a) == a % 2 = 0
Quad(a) == a % 4 = 0

(***************************************************************************)
(* The lengths the constructor stores in z are multiples of 4             *)
(* (ConfigAssumption): their halves, and so every face, are even.         *)
(***************************************************************************)
ModelQuad ==
    /\ Quad(m.sensorThickness)
    /\ Quad(m.chipThickness)
    /\ \A n \in 1..Len(m.supportLayers) :
          Quad(m.supportLayers[n].size.z) /\ Quad(m.supportLayers[n].offset.z)

LayersQuad == \A n \in 1..Len(layers) : Quad(layers[n].size.z) /\ Quad(layers[n].offset.z)

FacesEven(e) == Even(Top(e, "z")) /\ Even(Bottom(e, "z"))

\* Element e lies between min and max on every axis.
Within(e) == \A a \in Axes : lo[a] <= Bottom(e, a) /\ Top(e, a) <= hi[a]

\* The size lines 142-147 compute from max and min.
SizeOf ==
    [x |-> 2 * Max(hi.x - Center.x, Center.x - lo.x),
     y |-> 2 * Max(hi.y - Center.y, Center.y - lo.y),
     z |-> (hi.z - Center.z) + (Center.z - lo.z)]

(***************************************************************************)
(* The inductive invariant of getSize(): max and min bound the sensor and *)
(* the chip from line 129 on, and the layers the loop of lines 131-140   *)
(* has taken; every face the stacking makes is even, so max.z + min.z is *)
(* even and getGeometricalCenter() halves it exactly.                      *)
(***************************************************************************)
EnvInv ==
    /\ StackInv
    /\ ModelQuad
    /\ LayersQuad
    /\ qpc \in {"stacking", "supports", "done"} =>
          /\ Even(sOff) /\ Even(cOff)
          /\ \A n \in 1..(j - 1) : FacesEven(layers[n])
    /\ qpc # "idle" =>
          /\ Even(hi.z) /\ Even(lo.z)
          /\ \A e \in BaseElements : Within(e)
    /\ Stacked => \A n \in 1..(k - 1) : Within(layers[n])
    /\ qpc = "done" => k = Len(layers) + 1 /\ size = SizeOf

-----------------------------------------------------------------------------
(***************************************************************************)
(* Arithmetic of halves and parities.                                       *)
(***************************************************************************)
LEMMA QuadHalf ==
    ASSUME NEW a \in Int, Quad(a)
    PROVE  Even(a) /\ Even(a \div 2)
BY DEF Quad, Even

LEMMA EvenArith ==
    ASSUME NEW a \in Int, NEW b \in Int, Even(a), Even(b)
    PROVE  /\ Even(a + b) /\ Even(a - b) /\ Even(-a)
           /\ Even(Max(a, b)) /\ Even(Min(a, b))
BY DEF Even, Max, Min

(***************************************************************************)
(* The faces of the sensor and the chip: the sensor spans -t/2 to t/2     *)
(* about the origin, the chip t/2 to t/2 + its thickness.                  *)
(***************************************************************************)
LEMMA BaseFacesEven ==
    ASSUME m \in Model, Quad(m.sensorThickness), Quad(m.chipThickness)
    PROVE  \A e \in BaseElements : FacesEven(e) /\ e.center \in Vec3 /\ e.size \in Vec3
<1>1. m.sensorThickness \in Int /\ m.chipThickness \in Int
  BY ModelFields
<1>2. /\ Even(m.sensorThickness \div 2) /\ Even(m.chipThickness \div 2)
  BY <1>1, QuadHalf
<1>0. Center.z = 0 /\ SensorCenter.z = 0 /\ SensorSize.z = m.sensorThickness
  BY DEF Center, SensorCenter, SensorSize, Plus, Axes
<1>3. /\ SensorCenter.z = 0 /\ SensorSize.z = m.sensorThickness
      /\ ChipCenter.z = m.sensorThickness \div 2 + m.chipThickness \div 2
      /\ ChipSize.z = m.chipThickness
  BY <1>0, GeometryType DEF ChipCenter, ChipSize, Vec3
<1>4. FacesEven([center |-> SensorCenter, size |-> SensorSize])
  BY <1>1, <1>2, <1>3 DEF FacesEven, Top, Bottom, Even
<1>5. FacesEven([center |-> ChipCenter, size |-> ChipSize])
  BY <1>1, <1>2, <1>3 DEF FacesEven, Top, Bottom, Even
<1> QED
  BY <1>4, <1>5, GeometryType DEF BaseElements

(***************************************************************************)
(* Lines 142-147 and getGeometricalCenter(): an element between min and   *)
(* max lies in the box of that size about that centre, on x and y because *)
(* the size doubles the larger one-sided extent, on z because max.z and  *)
(* min.z are even and the halving is exact.                               *)
(***************************************************************************)
LEMMA EnvelopeArith ==
    ASSUME m \in Model, hi \in Vec3, lo \in Vec3, Even(hi.z), Even(lo.z),
           NEW e, e.center \in Vec3, e.size \in Vec3, Within(e)
    PROVE  \A a \in Axes :
              /\ GeometricalCenter[a] - SizeOf[a] \div 2 <= Bottom(e, a)
              /\ Top(e, a) <= GeometricalCenter[a] + SizeOf[a] \div 2
<1>1. Center \in Vec3 /\ Center.z = 0
  BY GeometryType, BaseFaces
<1>2. /\ GeometricalCenter.x = Center.x /\ GeometricalCenter.y = Center.y
      /\ GeometricalCenter.z = (hi.z + lo.z) \div 2
  BY <1>1 DEF GeometricalCenter, Vec3
<1>3. /\ SizeOf.x \div 2 = Max(hi.x - Center.x, Center.x - lo.x)
      /\ SizeOf.y \div 2 = Max(hi.y - Center.y, Center.y - lo.y)
      /\ SizeOf.z = hi.z - lo.z
  BY <1>1 DEF SizeOf, Max, Vec3
<1>4. \A a \in Axes : /\ lo[a] <= Bottom(e, a) /\ Top(e, a) <= hi[a]
                      /\ Top(e, a) \in Int /\ Bottom(e, a) \in Int
  BY FaceType DEF Within
<1>5. /\ Center.x - SizeOf.x \div 2 <= lo.x /\ hi.x <= Center.x + SizeOf.x \div 2
      /\ Center.y - SizeOf.y \div 2 <= lo.y /\ hi.y <= Center.y + SizeOf.y \div 2
  BY <1>1, <1>3 DEF Max, Vec3
<1>6. /\ (hi.z + lo.z) \div 2 - (hi.z - lo.z) \div 2 = lo.z
      /\ (hi.z + lo.z) \div 2 + (hi.z - lo.z) \div 2 = hi.z
  BY DEF Even, Vec3
<1> SUFFICES ASSUME NEW a \in Axes
             PROVE  /\ GeometricalCenter[a] - SizeOf[a] \div 2 <= Bottom(e, a)
                    /\ Top(e, a) <= GeometricalCenter[a] + SizeOf[a] \div 2
  OBVIOUS
<1>7. CASE a = "x"
  <2>1. GeometricalCenter[a] = Center.x /\ SizeOf[a] = SizeOf.x
    BY <1>2, <1>7
  <2>2. lo.x <= Bottom(e, a) /\ Top(e, a) <= hi.x /\ Bottom(e, a) \in Int /\ Top(e, a) \in Int
    BY <1>4, <1>7
  <2>3. SizeOf.x \div 2 \in Int
    BY <1>1, <1>3 DEF Max, Vec3
  <2> QED
    BY <1>1, <1>5, <2>1, <2>2, <2>3 DEF Vec3
<1>8. CASE a = "y"
  <2>1. GeometricalCenter[a] = Center.y /\ SizeOf[a] = SizeOf.y
    BY <1>2, <1>8
  <2>2. lo.y <= Bottom(e, a) /\ Top(e, a) <= hi.y /\ Bottom(e, a) \in Int /\ Top(e, a) \in Int
    BY <1>4, <1>8
  <2>3. SizeOf.y \div 2 \in Int
    BY <1>1, <1>3 DEF Max, Vec3
  <2> QED
    BY <1>1, <1>5, <2>1, <2>2, <2>3 DEF Vec3
<1>9. CASE a = "z"
  <2>1. GeometricalCenter[a] = (hi.z + lo.z) \div 2 /\ SizeOf[a] = hi.z - lo.z
    BY <1>2, <1>3, <1>9
  <2>2. lo.z <= Bottom(e, a) /\ Top(e, a) <= hi.z /\ Bottom(e, a) \in Int /\ Top(e, a) \in Int
    BY <1>4, <1>9
  <2> QED
    BY <1>6, <2>1, <2>2 DEF Vec3
<1> QED
  BY <1>7, <1>8, <1>9 DEF Axes

-----------------------------------------------------------------------------
(***************************************************************************)
(* The constructor stores lengths that are multiples of 4.                 *)
(***************************************************************************)
\* A length read from a configuration, but the pixel count, is a multiple
\* of 4 (ConfigAssumption).
LEMMA LengthQuad ==
    ASSUME NEW cfg \in HeaderConfigs \cup SupportConfigs, NEW key \in DOMAIN cfg,
           key # "number_of_pixels"
    PROVE  /\ cfg[key].kind = "double" => Quad(cfg[key].double)
           /\ cfg[key].kind = "xyz" => Quad(cfg[key].xyz.z)
<1>1. \A l \in Lengths(cfg[key]) : Quad(l)
  BY ConfigAssumption DEF Quad
<1>2. cfg[key].kind = "double" => cfg[key].double \in Lengths(cfg[key])
  BY DEF Lengths
<1>3. cfg[key].kind = "xyz" => cfg[key].xyz.z \in Lengths(cfg[key])
  <2> SUFFICES ASSUME cfg[key].kind = "xyz" PROVE cfg[key].xyz.z \in Lengths(cfg[key])
    OBVIOUS
  <2>1. cfg[key].xyz \in Vec3
    BY PayloadType
  <2>2. "z" \in DOMAIN cfg[key].xyz
    BY <2>1 DEF Vec3
  <2>3. Lengths(cfg[key]) = {cfg[key].xyz[a] : a \in DOMAIN cfg[key].xyz}
    BY DEF Lengths
  <2> QED
    BY <2>2, <2>3
<1> QED
  BY <1>1, <1>2, <1>3

\* The reads of the thicknesses and of an absolute offset.
LEMMA QuadRead ==
    /\ \A cfg \in HeaderConfigs, key \in {"sensor_thickness", "chip_thickness"} :
          /\ ReadError(cfg, key, "double") = NoError => Quad(cfg[key].double)
          /\ ReadOptError(cfg, key, "double") = NoError
                => Quad(Get(cfg, key, "double", 0))
    /\ \A cfg \in SupportConfigs :
          /\ ReadError(cfg, "thickness", "double") = NoError
                => Quad(cfg["thickness"].double)
          /\ ReadError(cfg, "offset", "xyz") = NoError => Quad(cfg["offset"].xyz.z)
<1>1. ASSUME NEW cfg \in HeaderConfigs, NEW key \in {"sensor_thickness", "chip_thickness"}
      PROVE  /\ ReadError(cfg, key, "double") = NoError => Quad(cfg[key].double)
             /\ ReadOptError(cfg, key, "double") = NoError
                  => Quad(Get(cfg, key, "double", 0))
  <2>1. Quad(0)
    BY DEF Quad
  <2> QED
    BY <2>1, ReadOK, LengthQuad DEF Get
<1>2. ASSUME NEW cfg \in SupportConfigs
      PROVE  /\ ReadError(cfg, "thickness", "double") = NoError
                  => Quad(cfg["thickness"].double)
             /\ ReadError(cfg, "offset", "xyz") = NoError => Quad(cfg["offset"].xyz.z)
  BY ReadOK, LengthQuad
<1> QED
  BY <1>1, <1>2

\* addSupportLayer stores the thickness read, and an offset in z only for
\* an absolute layer.
LEMMA NewLayerQuad ==
    ASSUME NEW s \in SupportConfigs, FirstError(SupportErrors(s)) = NoError
    PROVE  Quad(NewLayer(s).size.z) /\ Quad(NewLayer(s).offset.z)
<1> DEFINE errs == SupportErrors(s)
<1>0. \A p \in 1..Len(errs) : errs[p] = NoError
  BY SupportErrorsType, FirstErrorNone
<1>1. /\ ReadError(s, "thickness", "double") = NoError
      /\ LocationOf(s) = "absolute" => ReadError(s, "offset", "xyz") = NoError
  BY <1>0 DEF SupportErrors
<1>2. Quad(NewLayer(s).size.z)
  BY <1>1, QuadRead DEF NewLayer
<1>3. CASE LocationOf(s) = "absolute"
  BY <1>1, <1>3, QuadRead DEF NewLayer
<1>4. CASE LocationOf(s) # "absolute"
  <2>1. NewLayer(s).offset.z = 0
    BY <1>4 DEF NewLayer
  <2> QED
    BY <1>2, <2>1 DEF Quad
<1> QED
  BY <1>2, <1>3, <1>4

\* A block of the constructor stores a length only after reading it with
\* its schema; the others leave the thicknesses and the layers alone.
LEMMA CtorQuad ==
    ASSUME TypeInv, ModelQuad,
           ReadGrid \/ ReadExcess \/ ReadImplantSize \/ ReadImplantOffset \/ ReadChip
             \/ ReadSupport \/ Constructed
    PROVE  ModelQuad'
<1>0. /\ m \in Model /\ hdr \in HeaderConfigs /\ secs \in Seq(SupportConfigs)
      /\ i \in 1..(Len(secs) + 1)
  BY DEF TypeInv, TypeOK
<1>1. CASE /\ m'.sensorThickness = m.sensorThickness
           /\ m'.chipThickness = m.chipThickness
           /\ m'.supportLayers = m.supportLayers
  BY <1>1 DEF ModelQuad
<1>2. CASE ReadGrid /\ m' # m
  <2> DEFINE errs == << ReadError(hdr, "number_of_pixels", "uint2"),
                        ReadError(hdr, "pixel_size", "xy"),
                        ReadError(hdr, "sensor_thickness", "double") >>
  <2>1. /\ FirstError(errs) = NoError
        /\ m' = [m EXCEPT !.nPixels = hdr["number_of_pixels"].uint2,
                          !.pixelSize = hdr["pixel_size"].xy,
                          !.sensorThickness = hdr["sensor_thickness"].double]
    BY <1>2 DEF ReadGrid, Fail, Go
  <2>2. errs \in Seq(Error)
    BY ReadErrorType DEF Keys
  <2>3. \A p \in 1..Len(errs) : errs[p] = NoError
    BY <2>1, <2>2, FirstErrorNone
  <2>4. ReadError(hdr, "sensor_thickness", "double") = NoError
    BY <2>3
  <2>5. Quad(hdr["sensor_thickness"].double)
    BY <1>0, <2>4, QuadRead
  <2> QED
    BY <1>0, <2>1, <2>5 DEF ModelQuad, Model
<1>3. CASE ReadChip /\ m' # m
  <2>1. /\ ReadOptError(hdr, "chip_thickness", "double") = NoError
        /\ m' = [m EXCEPT !.chipThickness = Get(hdr, "chip_thickness", "double", 0)]
    BY <1>3 DEF ReadChip, Fail
  <2>2. Quad(Get(hdr, "chip_thickness", "double", 0))
    BY <1>0, <2>1, QuadRead
  <2> QED
    BY <1>0, <2>1, <2>2 DEF ModelQuad, Model
<1>4. CASE ReadSupport /\ m' # m
  <2> DEFINE s == secs[i]
  <2>0. i <= Len(secs)
    BY <1>4 DEF ReadSupport
  <2>1. /\ FirstError(SupportErrors(s)) = NoError
        /\ m' = [m EXCEPT !.supportLayers = Append(m.supportLayers, NewLayer(s))]
    BY <1>4 DEF ReadSupport, Fail
  <2>2. s \in SupportConfigs
    BY <1>0, <2>0
  <2>3. Quad(NewLayer(s).size.z) /\ Quad(NewLayer(s).offset.z)
    BY <2>1, <2>2, NewLayerQuad
  <2>4. m.supportLayers \in Seq(Layer)
    BY <1>0 DEF Model
  <2> QED
    BY <1>0, <2>1, <2>3, <2>4 DEF ModelQuad, Model
<1>5. CASE ReadExcess \/ ReadImplantSize \/ ReadImplantOffset
  <2>1. \/ m' = m
        \/ \E v : m' = [m EXCEPT !.excess = v]
        \/ \E v, w : m' = [m EXCEPT !.implantSize = v, !.implantMaterial = w]
        \/ \E v : m' = [m EXCEPT !.implantOffset = v]
    BY <1>5 DEF ReadExcess, ReadImplantSize, ReadImplantOffset, Fail, Go
  <2> QED
    BY <1>0, <1>1, <2>1 DEF Model
<1>6. CASE Constructed
  BY <1>1, <1>6 DEF Constructed
<1>7. CASE m' = m
  BY <1>7 DEF ModelQuad
<1> QED
  BY <1>2, <1>3, <1>4, <1>5, <1>6, <1>7

-----------------------------------------------------------------------------
(***************************************************************************)
(* EnvInv is inductive.                                                    *)
(***************************************************************************)
LEMMA InitEnvInv == Init => EnvInv
<1> SUFFICES ASSUME Init PROVE EnvInv
  OBVIOUS
<1>1. StackInv
  BY InitStackInv
<1>2. m.sensorThickness = 0 /\ m.chipThickness = 0 /\ m.supportLayers = << >>
      /\ layers = << >> /\ qpc = "idle"
  BY DEF Init, EmptyModel
<1>3. ModelQuad /\ LayersQuad
  BY <1>2 DEF ModelQuad, LayersQuad, Quad
<1> QED
  BY <1>1, <1>2, <1>3 DEF EnvInv, Stacked

\* The constructor runs before getSize(): it leaves the query alone.
LEMMA CtorEnvInv ==
    ASSUME EnvInv,
           ReadGrid \/ ReadExcess \/ ReadImplantSize \/ ReadImplantOffset \/ ReadChip
             \/ ReadSupport \/ Constructed
    PROVE  EnvInv'
<1>1. StackInv'
  BY CtorStackInv DEF EnvInv
<1>2. ModelQuad'
  BY CtorQuad DEF EnvInv, StackInv
<1>3. qpc = "idle"
  <2>1. pc # "ready"
    BY DEF ReadGrid, ReadExcess, ReadImplantSize, ReadImplantOffset, ReadChip,
           ReadSupport, Constructed
  <2> QED
    BY <2>1 DEF EnvInv, StackInv
<1>4. UNCHANGED queryVars
  BY DEF ReadGrid, ReadExcess, ReadImplantSize, ReadImplantOffset, ReadChip,
         ReadSupport, Constructed, Fail, Go
<1> QED
  BY <1>1, <1>2, <1>3, <1>4 DEF EnvInv, LayersQuad, Stacked, queryVars

\* Within(e) in the next state, for an element the step does not move.
WithinNext(e) == \A a \in Axes : lo'[a] <= Bottom(e, a) /\ Top(e, a) <= hi'[a]

(***************************************************************************)
(* Lines 114-129: max and min start as the outer faces of the sensor and  *)
(* the chip, which are even.                                               *)
(***************************************************************************)
LEMMA SizeBaseEnvInv == EnvInv /\ SizeBase => EnvInv'
<1> SUFFICES ASSUME EnvInv, SizeBase PROVE EnvInv'
  OBVIOUS
<1>1. StackInv'
  BY SizeBaseStackInv DEF EnvInv
<1>2. /\ UNCHANGED <<m, layers, sOff, cOff, j, k, size>>
      /\ qpc' = "stack"
  BY DEF SizeBase, ctorVars
<1>3. m \in Model /\ Quad(m.sensorThickness) /\ Quad(m.chipThickness)
  BY DEF EnvInv, StackInv, TypeInv, TypeOK, ModelQuad
<1> DEFINE SE == [center |-> SensorCenter, size |-> SensorSize]
           CE == [center |-> ChipCenter, size |-> ChipSize]
<1>4. /\ BaseElements = {SE, CE}
      /\ FacesEven(SE) /\ FacesEven(CE)
      /\ \A a \in Axes : /\ Top(SE, a) \in Int /\ Bottom(SE, a) \in Int
                         /\ Top(CE, a) \in Int /\ Bottom(CE, a) \in Int
  <2>1. BaseElements = {SE, CE}
    BY DEF BaseElements
  <2>2. SE.center \in Vec3 /\ SE.size \in Vec3 /\ CE.center \in Vec3 /\ CE.size \in Vec3
    BY <1>3, GeometryType
  <2> QED
    BY <1>3, <2>1, <2>2, BaseFacesEven, FaceType
<1>5. /\ hi' = [a \in Axes |-> Max(Top(SE, a), Top(CE, a))]
      /\ lo' = [a \in Axes |-> Min(Bottom(SE, a), Bottom(CE, a))]
  BY DEF SizeBase
<1>6. \A e \in BaseElements : WithinNext(e)
  BY <1>4, <1>5 DEF WithinNext, Max, Min
<1>7. Even(hi'.z) /\ Even(lo'.z)
  <2>1. hi'.z = Max(Top(SE, "z"), Top(CE, "z")) /\ lo'.z = Min(Bottom(SE, "z"), Bottom(CE, "z"))
    BY <1>5 DEF Axes
  <2> QED
    BY <1>4, <2>1, EvenArith DEF FacesEven, Axes
<1>8. BaseElements' = BaseElements
  BY <1>2 DEF BaseElements, SensorCenter, SensorSize, ChipCenter, ChipSize, Center, GridSize
<1>9. (\A e \in BaseElements : Within(e))'
  BY <1>6, <1>8 DEF Within, WithinNext
<1> QED
  BY <1>1, <1>2, <1>7, <1>9 DEF EnvInv, ModelQuad, LayersQuad, Stacked

\* The base elements depend on the model alone.
LEMMA BaseStable ==
    ASSUME m' = m
    PROVE  BaseElements' = BaseElements
BY DEF BaseElements, SensorCenter, SensorSize, ChipCenter, ChipSize, Center, GridSize

\* Lines 151-154: both offsets start on a face of the sensor or the chip.
LEMMA StackBeginEnvInv == EnvInv /\ StackBegin => EnvInv'
<1> SUFFICES ASSUME EnvInv, StackBegin PROVE EnvInv'
  OBVIOUS
<1>1. StackInv'
  BY StackBeginStackInv DEF EnvInv
<1>2. /\ UNCHANGED <<m, hi, lo, k, size>>
      /\ layers' = m.supportLayers /\ j' = 1 /\ qpc = "stack" /\ qpc' = "stacking"
      /\ sOff' = -(SensorSize.z \div 2) /\ cOff' = SensorSize.z \div 2 + ChipSize.z
  BY DEF StackBegin, ctorVars
<1>3. m \in Model /\ ModelQuad
  BY DEF EnvInv, StackInv, TypeInv, TypeOK
<1>4. LayersQuad'
  BY <1>2, <1>3 DEF ModelQuad, LayersQuad
<1>5. Even(sOff') /\ Even(cOff')
  <2>1. SensorSize.z = m.sensorThickness /\ ChipSize.z = m.chipThickness
    BY <1>3, GeometryType DEF SensorSize, ChipSize, Vec3
  <2>2. m.sensorThickness \in Int /\ m.chipThickness \in Int
    BY <1>3, ModelFields
  <2>3. Even(m.sensorThickness \div 2) /\ Even(m.chipThickness)
    BY <1>3, <2>2, QuadHalf DEF ModelQuad
  <2> QED
    BY <1>2, <2>1, <2>2, <2>3 DEF Even
<1>6. BaseElements' = BaseElements
  BY <1>2, BaseStable
<1> QED
  BY <1>1, <1>2, <1>3, <1>4, <1>5, <1>6 DEF EnvInv, ModelQuad, Stacked, Within

(***************************************************************************)
(* One iteration of the loop of lines 156-165: a stacked layer has one    *)
(* face on the (even) running offset and the other a multiple of 4 away;  *)
(* an absolute layer is centred on its offset, a multiple of 4.           *)
(***************************************************************************)
LEMMA StackStepEnvInv == EnvInv /\ StackStep => EnvInv'
<1> SUFFICES ASSUME EnvInv, StackStep PROVE EnvInv'
  OBVIOUS
<1> DEFINE l == layers[j]
           t == l.size.z
           New(z) == [l EXCEPT !.center = Plus(Center, [l.offset EXCEPT !.z = z])]
<1>1. StackInv'
  BY StackStepStackInv DEF EnvInv
<1>2. /\ m \in Model /\ layers \in Seq(Layer) /\ sOff \in Int /\ cOff \in Int
      /\ j \in 1..Len(layers) /\ l \in Layer /\ t \in Int /\ l.offset \in Vec3
      /\ qpc = "stacking"
  <2>1. /\ m \in Model /\ layers \in Seq(Layer) /\ sOff \in Int /\ cOff \in Int
        /\ j \in 1..(Len(layers) + 1)
    BY DEF EnvInv, StackInv, TypeInv, TypeOK
  <2>2. j <= Len(layers) /\ qpc = "stacking"
    BY DEF StackStep
  <2>3. j \in 1..Len(layers) /\ l \in Layer
    BY <2>1, <2>2
  <2> QED
    BY <2>1, <2>2, <2>3 DEF Layer, Vec3
<1>3. /\ Even(sOff) /\ Even(cOff) /\ Quad(t) /\ Quad(l.offset.z)
      /\ \A n \in 1..(j - 1) : FacesEven(layers[n])
  BY <1>2 DEF EnvInv, LayersQuad
<1>4. UNCHANGED <<m, qpc, hi, lo, k, size>> /\ j' = j + 1
  BY DEF StackStep, ctorVars
<1>5. PICK z \in Int :
        /\ layers' = [layers EXCEPT ![j].center = Plus(Center, [l.offset EXCEPT !.z = z])]
        /\ \/ l.location = "sensor" /\ z = sOff - t \div 2 /\ sOff' = sOff - t /\ cOff' = cOff
           \/ l.location = "chip" /\ z = cOff + t \div 2 /\ cOff' = cOff + t /\ sOff' = sOff
           \/ l.location \notin {"sensor", "chip"} /\ z = l.offset.z /\ UNCHANGED <<sOff, cOff>>
  <2>1. l.offset.z \in Int /\ sOff - t \div 2 \in Int /\ cOff + t \div 2 \in Int
    BY <1>2 DEF Vec3
  <2> QED
    BY <2>1, Zenon DEF StackStep
<1>6. /\ New(z) \in Layer /\ New(z).size = l.size /\ New(z).offset = l.offset
      /\ Top(New(z), "z") = z + t \div 2 /\ Bottom(New(z), "z") = z - t \div 2
  <2>1. New(z).offset = l.offset
    BY <1>2 DEF Layer
  <2> QED
    BY <1>2, <2>1, PlacedFaces
<1>7. /\ Len(layers') = Len(layers)
      /\ layers'[j] = New(z)
      /\ \A n \in 1..Len(layers) : n # j => layers'[n] = layers[n]
  <2>1. layers' = [layers EXCEPT ![j] = New(z)]
    BY <1>5 DEF New, l
  <2>2. DOMAIN layers' = DOMAIN layers
    BY <2>1
  <2>3. layers' \in Seq(Layer)
    BY <1>1 DEF StackInv, TypeInv, TypeOK
  <2>4. Len(layers') = Len(layers)
    BY <1>2, <2>2, <2>3
  <2> QED
    BY <1>2, <2>1, <2>4
<1>8. /\ Even(z + t \div 2) /\ Even(z - t \div 2)
      /\ Even(sOff') /\ Even(cOff') /\ sOff' \in Int /\ cOff' \in Int
  <2>1. Even(t) /\ Even(t \div 2) /\ Even(l.offset.z) /\ l.offset.z \in Int
    BY <1>2, <1>3, QuadHalf DEF Vec3
  <2>2. t = 2 * (t \div 2)
    BY <1>2, <2>1 DEF Even
  <2>3. CASE l.location = "sensor" /\ z = sOff - t \div 2 /\ sOff' = sOff - t /\ cOff' = cOff
    <3>1. z + t \div 2 = sOff /\ z - t \div 2 = sOff - t
      BY <1>2, <2>2, <2>3
    <3>2. Even(sOff - t)
      BY <1>2, <1>3, <2>1, EvenArith
    <3> QED
      BY <1>2, <1>3, <2>3, <3>1, <3>2
  <2>4. CASE l.location = "chip" /\ z = cOff + t \div 2 /\ cOff' = cOff + t /\ sOff' = sOff
    <3>1. z + t \div 2 = cOff + t /\ z - t \div 2 = cOff
      BY <1>2, <2>2, <2>4
    <3>2. Even(cOff + t)
      BY <1>2, <1>3, <2>1, EvenArith
    <3> QED
      BY <1>2, <1>3, <2>4, <3>1, <3>2
  <2>5. CASE l.location \notin {"sensor", "chip"} /\ z = l.offset.z /\ UNCHANGED <<sOff, cOff>>
    <3>0. t \div 2 \in Int
      BY <1>2
    <3>1. Even(l.offset.z + t \div 2) /\ Even(l.offset.z - t \div 2)
      BY <2>1, <3>0, EvenArith
    <3> QED
      BY <1>2, <1>3, <2>5, <3>1
  <2> QED
    BY <1>5, <2>3, <2>4, <2>5
<1>9. LayersQuad'
  BY <1>6, <1>7 DEF EnvInv, LayersQuad
<1>10. \A n \in 1..(j' - 1) : FacesEven(layers'[n])
  <2> SUFFICES ASSUME NEW n \in 1..(j' - 1) PROVE FacesEven(layers'[n])
    OBVIOUS
  <2>1. CASE n = j
    BY <1>6, <1>7, <1>8, <2>1 DEF FacesEven
  <2>2. CASE n # j
    <3>1. n \in 1..(j - 1) /\ n \in 1..Len(layers)
      BY <1>2, <1>4, <2>2
    <3> QED
      BY <1>3, <1>7, <2>2, <3>1
  <2> QED
    BY <2>1, <2>2
<1>11. BaseElements' = BaseElements
  BY <1>4, BaseStable
<1> QED
  BY <1>1, <1>2, <1>4, <1>8, <1>9, <1>10, <1>11 DEF EnvInv, ModelQuad, Stacked, Within

\* Line 168: the query takes the layers getSupportLayers() returned.
LEMMA StackEndEnvInv == EnvInv /\ StackEnd => EnvInv'
<1> SUFFICES ASSUME EnvInv, StackEnd PROVE EnvInv'
  OBVIOUS
<1>1. StackInv'
  BY StackEndStackInv DEF EnvInv
<1>2. /\ UNCHANGED <<m, sOff, cOff, j, layers, hi, lo, size>>
      /\ qpc = "stacking" /\ qpc' = "supports" /\ k' = 1
  BY DEF StackEnd, ctorVars
<1>3. BaseElements' = BaseElements
  BY <1>2, BaseStable
<1> QED
  BY <1>1, <1>2, <1>3 DEF EnvInv, ModelQuad, LayersQuad, Stacked, Within

\* Widening max and min by the faces of f keeps every element between
\* them, and puts f between them.
LEMMA Widen ==
    ASSUME hi \in Vec3, lo \in Vec3, NEW f, f.center \in Vec3, f.size \in Vec3,
           hi' = [a \in Axes |-> Max(hi[a], Top(f, a))],
           lo' = [a \in Axes |-> Min(lo[a], Bottom(f, a))]
    PROVE  /\ WithinNext(f)
           /\ \A e : e.center \in Vec3 /\ e.size \in Vec3 /\ Within(e) => WithinNext(e)
<1>1. \A a \in Axes : Top(f, a) \in Int /\ Bottom(f, a) \in Int /\ hi[a] \in Int /\ lo[a] \in Int
  BY FaceType DEF Vec3, Axes
<1>2. WithinNext(f)
  BY <1>1 DEF WithinNext, Max, Min
<1>3. ASSUME NEW e, e.center \in Vec3, e.size \in Vec3, Within(e) PROVE WithinNext(e)
  <2>1. \A a \in Axes : Top(e, a) \in Int /\ Bottom(e, a) \in Int
    BY <1>3, FaceType
  <2> QED
    BY <1>1, <1>3, <2>1 DEF Within, WithinNext, Max, Min
<1> QED
  BY <1>2, <1>3

(***************************************************************************)
(* Lines 131-140: one layer widens max and min; its faces are even, so    *)
(* max.z and min.z stay even.                                              *)
(***************************************************************************)
LEMMA SizeStepEnvInv == EnvInv /\ SizeStep => EnvInv'
<1> SUFFICES ASSUME EnvInv, SizeStep PROVE EnvInv'
  OBVIOUS
<1> DEFINE f == layers[k]
<1>1. StackInv'
  BY SizeLoopStackInv DEF EnvInv
<1>2. /\ UNCHANGED <<m, qpc, sOff, cOff, j, layers, size>> /\ k' = k + 1
      /\ qpc = "supports" /\ k <= Len(layers)
      /\ hi' = [a \in Axes |-> Max(hi[a], Top(f, a))]
      /\ lo' = [a \in Axes |-> Min(lo[a], Bottom(f, a))]
  BY DEF SizeStep, ctorVars
<1>3. /\ hi \in Vec3 /\ lo \in Vec3 /\ layers \in Seq(Layer) /\ k \in 1..Len(layers)
      /\ j = Len(layers) + 1 /\ m \in Model
  BY <1>2 DEF EnvInv, StackInv, TypeInv, TypeOK, Stacked
<1>4. f \in Layer /\ f.center \in Vec3 /\ f.size \in Vec3
  <2>1. f \in Layer
    BY <1>3 DEF f
  <2> QED
    BY <2>1 DEF Layer
<1>5. FacesEven(f) /\ Top(f, "z") \in Int /\ Bottom(f, "z") \in Int
  BY <1>2, <1>3, <1>4, FaceType DEF EnvInv, Axes
<1>6. Even(hi'.z) /\ Even(lo'.z)
  <2>1. hi'.z = Max(hi.z, Top(f, "z")) /\ lo'.z = Min(lo.z, Bottom(f, "z"))
    BY <1>2 DEF Axes
  <2>2. Even(hi.z) /\ Even(lo.z) /\ hi.z \in Int /\ lo.z \in Int
    BY <1>2, <1>3 DEF EnvInv, Vec3
  <2> QED
    BY <1>5, <2>1, <2>2, EvenArith DEF FacesEven
<1>7. /\ WithinNext(f)
      /\ \A e : e.center \in Vec3 /\ e.size \in Vec3 /\ Within(e) => WithinNext(e)
  BY <1>2, <1>3, <1>4, Widen
<1>8. \A e \in BaseElements : WithinNext(e)
  <2>1. \A e \in BaseElements : e.center \in Vec3 /\ e.size \in Vec3
    BY <1>3, GeometryType DEF BaseElements
  <2> QED
    BY <1>2, <1>7, <2>1 DEF EnvInv
<1>9. \A n \in 1..(k' - 1) : WithinNext(layers[n])
  <2> SUFFICES ASSUME NEW n \in 1..(k' - 1) PROVE WithinNext(layers[n])
    OBVIOUS
  <2>1. CASE n = k
    BY <1>7, <2>1
  <2>2. CASE n # k
    <3>1. n \in 1..(k - 1) /\ layers[n] \in Layer
      BY <1>2, <1>3, <2>2
    <3>2. Within(layers[n])
      BY <1>2, <3>1 DEF EnvInv, Stacked
    <3> QED
      BY <1>7, <3>1, <3>2 DEF Layer
  <2> QED
    BY <2>1, <2>2
<1>10. BaseElements' = BaseElements
  BY <1>2, BaseStable
<1> QED
  BY <1>1, <1>2, <1>6, <1>8, <1>9, <1>10 DEF EnvInv, ModelQuad, LayersQuad, Stacked, Within,
                                           WithinNext

\* Lines 142-147: getSize() returns the size of the envelope.
LEMMA SizeEndEnvInv == EnvInv /\ SizeEnd => EnvInv'
<1> SUFFICES ASSUME EnvInv, SizeEnd PROVE EnvInv'
  OBVIOUS
<1>1. StackInv'
  BY SizeLoopStackInv DEF EnvInv
<1>2. /\ UNCHANGED <<m, sOff, cOff, j, layers, k, hi, lo>>
      /\ qpc = "supports" /\ qpc' = "done" /\ k > Len(layers)
      /\ size' = SizeOf
  BY DEF SizeEnd, SizeOf, ctorVars
<1>3. k = Len(layers) + 1
  BY <1>2 DEF EnvInv, StackInv, TypeInv, TypeOK
<1>4. SizeOf' = SizeOf
  BY <1>2 DEF SizeOf, Center, GridSize
<1>5. BaseElements' = BaseElements
  BY <1>2, BaseStable
<1> QED
  BY <1>1, <1>2, <1>3, <1>4, <1>5 DEF EnvInv, ModelQuad, LayersQuad, Stacked, Within

LEMMA StutterEnvInv == EnvInv /\ UNCHANGED vars => EnvInv'
<1> SUFFICES ASSUME EnvInv, UNCHANGED vars PROVE EnvInv'
  OBVIOUS
<1>1. StackInv'
  BY StutterStackInv DEF EnvInv
<1>2. UNCHANGED <<m, qpc, sOff, cOff, j, layers, k, hi, lo, size>>
  BY DEF vars, ctorVars, queryVars
<1>3. BaseElements' = BaseElements /\ SizeOf' = SizeOf
  BY <1>2, BaseStable DEF SizeOf, Center, GridSize
<1> QED
  BY <1>1, <1>2, <1>3 DEF EnvInv, ModelQuad, LayersQuad, Stacked, Within

LEMMA NextEnvInv == EnvInv /\ [Next]_vars => EnvInv'
<1> SUFFICES ASSUME EnvInv, [Next]_vars PROVE EnvInv'
  OBVIOUS
<1> QED
  BY StutterEnvInv, CtorEnvInv, SizeBaseEnvInv, StackBeginEnvInv, StackStepEnvInv,
     StackEndEnvInv, SizeStepEnvInv, SizeEndEnvInv DEF Next

(***************************************************************************)
(* For every configuration whose lengths are multiples of 4, the box of   *)
(* the size getSize() returns, centred on getGeometricalCenter(), holds   *)
(* the sensor, the chip and every support layer getSupportLayers() places *)
(* (lines 114-147): the x and y mirroring about getCenter() and the z     *)
(* halving of max + min lose nothing.                                      *)
(***************************************************************************)
THEOREM EnvelopeHoldsAll == Spec => []EnvelopeContains
<1>1. Init => EnvInv
  BY InitEnvInv
<1>2. EnvInv /\ [Next]_vars => EnvInv'
  BY NextEnvInv
<1>3. EnvInv => EnvelopeContains
  <2> SUFFICES ASSUME EnvInv, qpc = "done",
                      NEW e \in BaseElements \cup {layers[n] : n \in 1..Len(layers)}
               PROVE  \A a \in Axes :
                         /\ GeometricalCenter[a] - size[a] \div 2 <= Bottom(e, a)
                         /\ Top(e, a) <= GeometricalCenter[a] + size[a] \div 2
    BY DEF EnvelopeContains
  <2>1. /\ m \in Model /\ hi \in Vec3 /\ lo \in Vec3 /\ layers \in Seq(Layer)
        /\ Even(hi.z) /\ Even(lo.z) /\ size = SizeOf /\ k = Len(layers) + 1
    BY DEF EnvInv, StackInv, TypeInv, TypeOK
  <2>2. e.center \in Vec3 /\ e.size \in Vec3 /\ Within(e)
    <3>1. CASE e \in BaseElements
      BY <2>1, <3>1, GeometryType DEF EnvInv, BaseElements
    <3>2. CASE e \in {layers[n] : n \in 1..Len(layers)}
      <4>1. PICK n \in 1..Len(layers) : e = layers[n]
        BY <3>2
      <4>2. layers[n] \in Layer /\ n \in 1..(k - 1)
        BY <2>1, <4>1
      <4> QED
        BY <4>1, <4>2 DEF EnvInv, Stacked, Layer
    <3> QED
      BY <3>1, <3>2
  <2> QED
    BY <2>1, <2>2, EnvelopeArith
<1> QED
  BY <1>1, <1>2, <1>3, PTL DEF Spec

=============================================================================
