--------------------------- MODULE DetectorModel_proofs ---------------------------
(***************************************************************************)
(* Proofs about DetectorModel: type correctness of the constructor and of *)
(* the getSize() query, and validity of every model the constructor        *)
(* returns, for every configuration the constants allow.                   *)
(***************************************************************************)
EXTENDS DetectorModel, WellFoundedInduction, TLAPS

(***************************************************************************)
(* Lemmas on the configuration reads.                                      *)
(***************************************************************************)
\* When the first throwing read of a sequence is none, none of them throws:
\* the constructor only gets past a block whose every read succeeded.

LEMMA FirstErrorNone ==
    ASSUME NEW errs \in Seq(Error), FirstError(errs) = NoError
    PROVE  \A p \in 1..Len(errs) : errs[p] = NoError
<1> DEFINE L == Len(errs)
<1>0. L \in Nat /\ DOMAIN errs = 1..L
  OBVIOUS
<1> DEFINE IsFirst(n) == errs[n] # NoError /\ \A p \in 1..(n - 1) : errs[p] = NoError
<1>1. ~\E n \in DOMAIN errs : IsFirst(n)
  BY <1>0 DEF FirstError
<1> SUFFICES ASSUME NEW p \in 1..L, errs[p] # NoError PROVE FALSE
  OBVIOUS
<1> DEFINE T == {q \in 1..L : errs[q] # NoError}
<1>2. T \subseteq Nat /\ T # {}
  OBVIOUS
<1>3. PICK x \in T : \A y \in T : ~(<<y, x>> \in OpToRel(<, Nat))
  BY <1>2, NatLessThanWellFounded, WFMin
<1>4. IsFirst(x)
  <2>0. x \in 1..L
    OBVIOUS
  <2>1. errs[x] # NoError
    OBVIOUS
  <2>2. ASSUME NEW q \in 1..(x - 1) PROVE errs[q] = NoError
    <3>1. <<q, x>> \in OpToRel(<, Nat)
      BY DEF OpToRel
    <3>2. ~(q \in T)
      BY <3>1, <1>3
    <3> QED
      BY <3>2
  <2> QED
    BY <2>1, <2>2
<1> QED
  BY <1>0, <1>1, <1>4

LEMMA FirstErrorType ==
    ASSUME NEW errs \in Seq(Error)
    PROVE  FirstError(errs) \in Error
BY DEF FirstError, Error

LEMMA ReadErrorType ==
    ASSUME NEW cfg, NEW key \in Keys, NEW kind
    PROVE  /\ ReadError(cfg, key, kind) \in Error
           /\ ReadOptError(cfg, key, kind) \in Error
BY DEF ReadError, ReadOptError, Error, NoError

LEMMA CheckType ==
    ASSUME NEW cond, NEW key \in Keys
    PROVE  Check(cond, key) \in Error
BY DEF Check, Error, NoError

\* A read that throws nothing finds the key set (unset, for get<T>(key, def))
\* or set with its schema.
LEMMA ReadOK ==
    ASSUME NEW cfg, NEW key, NEW kind
    PROVE  /\ ReadError(cfg, key, kind) = NoError => key \in DOMAIN cfg /\ cfg[key].kind = kind
           /\ ReadOptError(cfg, key, kind) = NoError /\ key \in DOMAIN cfg
                  => cfg[key].kind = kind
BY DEF ReadError, ReadOptError, NoError

\* The payload of a value read with its schema has the schema's type.
LEMMA PayloadType ==
    ASSUME NEW cfg \in HeaderConfigs \cup SupportConfigs, NEW key \in DOMAIN cfg
    PROVE  /\ cfg[key].kind = "uint2" => cfg[key].uint2 \in Vec2
           /\ cfg[key].kind = "xy" => cfg[key].xy \in Vec2
           /\ cfg[key].kind = "xyz" => cfg[key].xyz \in Vec3
           /\ cfg[key].kind = "double" => cfg[key].double \in Int
           /\ cfg[key].kind = "string" => cfg[key].string \in Names
<1>1. cfg[key] \in Value
  BY ConfigAssumption
<1>2. /\ cfg[key].kind = "uint2" => cfg[key].uint2 \in Vec2
      /\ cfg[key].kind = "xy" => cfg[key].xy \in Vec2
      /\ cfg[key].kind = "xyz" => cfg[key].xyz \in Vec3
      /\ cfg[key].kind = "double" => cfg[key].double \in Int
      /\ cfg[key].kind = "string" => cfg[key].string \in STRING
  BY <1>1 DEF Value, Vec2, Vec3
<1> QED
  BY <1>2 DEF Names

\* get<T>(key, def) returns a value of T's type when it throws nothing.
LEMMA GetType ==
    ASSUME NEW cfg \in HeaderConfigs \cup SupportConfigs, NEW key
    PROVE  /\ \A def \in Vec2 : ReadOptError(cfg, key, "xy") = NoError
                                    => Get(cfg, key, "xy", def) \in Vec2
           /\ \A def \in Int : ReadOptError(cfg, key, "double") = NoError
                                    => Get(cfg, key, "double", def) \in Int
           /\ \A def \in Names : ReadOptError(cfg, key, "string") = NoError
                                    => Get(cfg, key, "string", def) \in Names
<1>1. CASE key \in DOMAIN cfg
  <2>1. /\ ReadOptError(cfg, key, "xy") = NoError => cfg[key].kind = "xy"
        /\ ReadOptError(cfg, key, "double") = NoError => cfg[key].kind = "double"
        /\ ReadOptError(cfg, key, "string") = NoError => cfg[key].kind = "string"
    BY <1>1, ReadOK
  <2> QED
    BY <1>1, <2>1, PayloadType DEF Get
<1>2. CASE key \notin DOMAIN cfg
  BY <1>2 DEF Get
<1> QED
  BY <1>1, <1>2

LEMMA LowerType ==
    ASSUME NEW s \in Names PROVE Lower(s) \in Names
<1>1. Lower(s) \in {"sensor", "chip", "absolute", "g10", s}
  BY DEF Lower
<1> QED
  BY <1>1 DEF Names, Locations

LEMMA PlusType ==
    ASSUME NEW p \in Vec3, NEW q \in Vec3 PROVE Plus(p, q) \in Vec3
BY DEF Plus, Vec3, Axes

\* The faces of an element of the model's geometry are integers.
LEMMA FaceType ==
    ASSUME NEW e, e.center \in Vec3, e.size \in Vec3, NEW a \in Axes
    PROVE  Top(e, a) \in Int /\ Bottom(e, a) \in Int
BY DEF Top, Bottom, Vec3, Axes

\* The fields of a well-typed model the derived geometry reads.
LEMMA ModelFields ==
    ASSUME m \in Model
    PROVE  /\ m.nPixels.x \in Int /\ m.nPixels.y \in Int
           /\ m.pixelSize.x \in Int /\ m.pixelSize.y \in Int
           /\ m.sensorThickness \in Int /\ m.chipThickness \in Int
           /\ \A s \in Sides : m.excess[s] \in Int
BY DEF Model, Vec2

\* The derived geometry of a well-typed model.
LEMMA GeometryType ==
    ASSUME m \in Model
    PROVE  /\ Center \in Vec3 /\ SensorSize \in Vec3 /\ SensorCenter \in Vec3
           /\ ChipSize \in Vec3 /\ ChipCenter \in Vec3
<1>1. /\ m.excess.left \in Int /\ m.excess.right \in Int
      /\ m.excess.top \in Int /\ m.excess.bottom \in Int
  BY ModelFields DEF Sides
<1>2. GridSize \in Vec3
  BY ModelFields DEF GridSize, Vec3
<1>3. Center \in Vec3 /\ SensorSize \in Vec3
  BY <1>1, <1>2, ModelFields DEF Center, SensorSize, Vec3
<1>4. SensorCenter \in Vec3
  BY <1>1, <1>3, PlusType DEF SensorCenter, Vec3
<1> QED
  BY <1>3, <1>4, ModelFields DEF ChipSize, ChipCenter, Vec3

-----------------------------------------------------------------------------
(***************************************************************************)
(* Type correctness.  TypeOK is not inductive by itself: getSize() keeps   *)
(* k at 1 until getSupportLayers() has returned, which keeps k in the      *)
(* range of the layers StackBegin copies.                                  *)
(***************************************************************************)
TypeInv ==
    /\ TypeOK
    /\ qpc \in {"idle", "stack", "stacking"} => k = 1

LEMMA InitTypeInv == Init => TypeInv
<1> SUFFICES ASSUME Init PROVE TypeInv
  OBVIOUS
<1>1. secs \in Seq(SupportConfigs)
  BY MaxSupportsAssumption DEF Init, SupportSeqs
<1>2. EmptyModel \in Model
  BY DEF EmptyModel, Model, Vec2, Vec3, Zero2, Origin, Names
<1> QED
  BY <1>1, <1>2 DEF Init, TypeInv, TypeOK, Error, NoError, Vec3, Origin

\* A step of the constructor that throws an error of the right type.
LEMMA FailTypeInv ==
    ASSUME TypeInv, NEW e \in Error, Fail(e) PROVE TypeInv'
BY DEF TypeInv, TypeOK, Fail, queryVars

LEMMA ReadGridTypeInv == TypeInv /\ ReadGrid => TypeInv'
<1> SUFFICES ASSUME TypeInv, ReadGrid PROVE TypeInv'
  OBVIOUS
<1> USE DEF TypeInv, TypeOK
<1>1. << ReadError(hdr, "number_of_pixels", "uint2"),
         ReadError(hdr, "pixel_size", "xy"),
         ReadError(hdr, "sensor_thickness", "double") >> \in Seq(Error)
  BY ReadErrorType DEF Keys
<1> DEFINE e == FirstError(<< ReadError(hdr, "number_of_pixels", "uint2"),
                              ReadError(hdr, "pixel_size", "xy"),
                              ReadError(hdr, "sensor_thickness", "double") >>)
<1>2. e \in Error
  BY <1>1, FirstErrorType
<1>3. CASE e # NoError /\ Fail(e)
  BY <1>2, <1>3, FailTypeInv
<1>4. CASE e = NoError /\ Go("excess", [m EXCEPT !.nPixels = hdr["number_of_pixels"].uint2,
                                               !.pixelSize = hdr["pixel_size"].xy,
                                               !.sensorThickness = hdr["sensor_thickness"].double])
  <2> DEFINE errs == << ReadError(hdr, "number_of_pixels", "uint2"),
                        ReadError(hdr, "pixel_size", "xy"),
                        ReadError(hdr, "sensor_thickness", "double") >>
  <2>0. \A p \in 1..Len(errs) : errs[p] = NoError
    BY <1>1, <1>4, FirstErrorNone
  <2>1. /\ ReadError(hdr, "number_of_pixels", "uint2") = NoError
        /\ ReadError(hdr, "pixel_size", "xy") = NoError
        /\ ReadError(hdr, "sensor_thickness", "double") = NoError
    BY <2>0
  <2>2. /\ hdr["number_of_pixels"].uint2 \in Vec2
        /\ hdr["pixel_size"].xy \in Vec2
        /\ hdr["sensor_thickness"].double \in Int
    BY <2>1, ReadOK, PayloadType
  <2> QED
    BY <1>4, <2>2 DEF Go, Model, queryVars
<1> QED
  BY <1>3, <1>4 DEF ReadGrid

LEMMA ReadExcessTypeInv == TypeInv /\ ReadExcess => TypeInv'
<1> SUFFICES ASSUME TypeInv, ReadExcess PROVE TypeInv'
  OBVIOUS
<1> USE DEF TypeInv, TypeOK
<1> DEFINE errs == << ReadOptError(hdr, "sensor_excess", "double"),
                      ReadOptError(hdr, SideKey.top, "double"),
                      ReadOptError(hdr, SideKey.bottom, "double"),
                      ReadOptError(hdr, SideKey.left, "double"),
                      ReadOptError(hdr, SideKey.right, "double") >>
           e == FirstError(errs)
           default == Get(hdr, "sensor_excess", "double", 0)
<1>1. errs \in Seq(Error)
  BY ReadErrorType DEF Keys, SideKey
<1>2. e \in Error
  BY <1>1, FirstErrorType
<1>3. CASE e # NoError /\ Fail(e)
  BY <1>2, <1>3, FailTypeInv
<1>4. CASE e = NoError /\ Go("implant_size",
                   [m EXCEPT !.excess = [s \in Sides |-> Get(hdr, SideKey[s], "double", default)]])
  <2>0. \A p \in 1..Len(errs) : errs[p] = NoError
    BY <1>1, <1>4, FirstErrorNone
  <2>1. ReadOptError(hdr, "sensor_excess", "double") = NoError
        /\ \A s \in Sides : ReadOptError(hdr, SideKey[s], "double") = NoError
    BY <2>0 DEF Sides, SideKey
  <2>2. default \in Int
    BY <2>1, GetType
  <2>3. \A s \in Sides : Get(hdr, SideKey[s], "double", default) \in Int
    BY <2>1, <2>2, GetType
  <2> QED
    BY <1>4, <2>3 DEF Go, Model, queryVars
<1> QED
  BY <1>3, <1>4 DEF ReadExcess

LEMMA ReadImplantSizeTypeInv == TypeInv /\ ReadImplantSize => TypeInv'
<1> SUFFICES ASSUME TypeInv, ReadImplantSize PROVE TypeInv'
  OBVIOUS
<1> USE DEF TypeInv, TypeOK
<1>1. ImplantFallbackError \in Error
  BY ReadErrorType DEF ImplantFallbackError, Keys
<1>2. CASE ImplantFallbackError # NoError /\ Fail(ImplantFallbackError)
  BY <1>1, <1>2, FailTypeInv
<1>3. CASE ImplantFallbackError = NoError
  <2> DEFINE sz == ImplantSizeRead
             errs == << Check(sz.x > m.pixelSize.x \/ sz.y > m.pixelSize.y, "implant_size"),
                        Check(sz.z > SensorSize.z, "implant_size"),
                        ReadOptError(hdr, "implant_material", "string") >>
             e == FirstError(errs)
  <2>1. sz \in Vec3
    <3>1. CASE ReadError(hdr, "implant_size", "xyz") = NoError
      BY <3>1, ReadOK, PayloadType DEF ImplantSizeRead
    <3>2. CASE ReadError(hdr, "implant_size", "xyz") # NoError
      <4>1. ReadOptError(hdr, "implant_size", "xy") = NoError
        BY <1>3, <3>2 DEF ImplantFallbackError
      <4>2. m.pixelSize \in Vec2
        BY DEF Model
      <4>3. Get(hdr, "implant_size", "xy", m.pixelSize) \in Vec2
        BY <4>1, <4>2, GetType
      <4> QED
        BY <3>2, <4>3 DEF ImplantSizeRead, Vec2, Vec3
    <3> QED
      BY <3>1, <3>2
  <2>2. errs \in Seq(Error)
    BY ReadErrorType, CheckType DEF Keys
  <2>3. e \in Error
    BY <2>2, FirstErrorType
  <2>4. CASE e # NoError /\ Fail(e)
    BY <2>3, <2>4, FailTypeInv
  <2>5. CASE e = NoError /\ Go("implant_offset",
                 [m EXCEPT !.implantSize = sz,
                           !.implantMaterial = Get(hdr, "implant_material", "string", "aluminum")])
    <3>0. \A p \in 1..Len(errs) : errs[p] = NoError
      BY <2>2, <2>5, FirstErrorNone
    <3>1. ReadOptError(hdr, "implant_material", "string") = NoError
      BY <3>0
    <3>2. Get(hdr, "implant_material", "string", "aluminum") \in Names
      BY <3>1, GetType DEF Names
    <3> QED
      BY <2>1, <2>5, <3>2 DEF Go, Model, queryVars
  <2> QED
    BY <1>3, <2>4, <2>5 DEF ReadImplantSize
<1> QED
  BY <1>2, <1>3 DEF ReadImplantSize

LEMMA ReadImplantOffsetTypeInv == TypeInv /\ ReadImplantOffset => TypeInv'
<1> SUFFICES ASSUME TypeInv, ReadImplantOffset PROVE TypeInv'
  OBVIOUS
<1> USE DEF TypeInv, TypeOK
<1> DEFINE e == ReadOptError(hdr, "implant_offset", "xy")
           off == Get(hdr, "implant_offset", "xy", Zero2)
<1>1. e \in Error /\ Check(TRUE, "implant_offset") \in Error
  BY ReadErrorType, CheckType DEF Keys
<1>2. e = NoError => off \in Vec2
  BY GetType DEF Zero2, Vec2
<1> QED
  BY <1>1, <1>2, FailTypeInv DEF ReadImplantOffset, Go, Model, queryVars

LEMMA ReadChipTypeInv == TypeInv /\ ReadChip => TypeInv'
<1> SUFFICES ASSUME TypeInv, ReadChip PROVE TypeInv'
  OBVIOUS
<1> USE DEF TypeInv, TypeOK
<1> DEFINE e == ReadOptError(hdr, "chip_thickness", "double")
<1>1. e \in Error
  BY ReadErrorType DEF Keys
<1>2. CASE e # NoError /\ Fail(e)
  BY <1>1, <1>2, FailTypeInv
<1>3. CASE /\ e = NoError
           /\ pc' = "support"
           /\ m' = [m EXCEPT !.chipThickness = Get(hdr, "chip_thickness", "double", 0)]
           /\ i' = 1
           /\ UNCHANGED <<hdr, secs, err, queryVars>>
  <2>1. Get(hdr, "chip_thickness", "double", 0) \in Int
    BY <1>3, GetType
  <2>2. m' \in Model
    BY <1>3, <2>1 DEF Model
  <2>3. i' \in 1..(Len(secs') + 1)
    BY <1>3
  <2> QED
    BY <1>3, <2>2, <2>3 DEF queryVars
<1> QED
  BY <1>2, <1>3 DEF ReadChip

\* The reads of a "support" section throw errors of the right type.
LEMMA SupportErrorsType ==
    ASSUME NEW s PROVE SupportErrors(s) \in Seq(Error)
<1>1. /\ ReadError(s, "thickness", "double") \in Error
      /\ ReadError(s, "size", "xy") \in Error
      /\ ReadOptError(s, "location", "string") \in Error
      /\ Check(LocationOf(s) \notin Locations, "location") \in Error
      /\ ReadError(s, "offset", "xyz") \in Error
      /\ ReadOptError(s, "offset", "xy") \in Error
      /\ ReadOptError(s, "material", "string") \in Error
      /\ ReadOptError(s, "hole_size", "xy") \in Error
      /\ ReadOptError(s, "hole_offset", "xy") \in Error
  BY ReadErrorType, CheckType DEF Keys
<1> QED
  BY <1>1 DEF SupportErrors

\* A "support" section that throws nothing gives a well-typed layer whose
\* location is one of the three.
LEMMA NewLayerType ==
    ASSUME NEW s \in SupportConfigs, FirstError(SupportErrors(s)) = NoError
    PROVE  NewLayer(s) \in Layer
<1> DEFINE errs == SupportErrors(s)
<1>0. \A p \in 1..Len(errs) : errs[p] = NoError
  BY SupportErrorsType, FirstErrorNone
<1>1. /\ ReadError(s, "thickness", "double") = NoError
      /\ ReadError(s, "size", "xy") = NoError
      /\ ReadOptError(s, "location", "string") = NoError
      /\ Check(LocationOf(s) \notin Locations, "location") = NoError
      /\ LocationOf(s) = "absolute" => ReadError(s, "offset", "xyz") = NoError
      /\ LocationOf(s) # "absolute" => ReadOptError(s, "offset", "xy") = NoError
      /\ ReadOptError(s, "material", "string") = NoError
      /\ ReadOptError(s, "hole_size", "xy") = NoError
      /\ ReadOptError(s, "hole_offset", "xy") = NoError
  BY <1>0 DEF SupportErrors
<1>2. LocationOf(s) \in Locations
  BY <1>1 DEF Check, NoError
<1>3. s["thickness"].double \in Int /\ s["size"].xy \in Vec2
  BY <1>1, ReadOK, PayloadType
<1>4. /\ Get(s, "hole_size", "xy", Zero2) \in Vec2
      /\ Get(s, "hole_offset", "xy", Zero2) \in Vec2
      /\ Get(s, "material", "string", "g10") \in Names
  <2>1. Zero2 \in Vec2 /\ "g10" \in Names
    BY DEF Zero2, Vec2, Names
  <2> QED
    BY <1>1, <2>1, GetType
<1>5. Lower(Get(s, "material", "string", "g10")) \in Names
  BY <1>4, LowerType
<1>6. (IF LocationOf(s) = "absolute" THEN s["offset"].xyz
       ELSE LET o == Get(s, "offset", "xy", Zero2) IN [x |-> o.x, y |-> o.y, z |-> 0]) \in Vec3
  <2>1. CASE LocationOf(s) = "absolute"
    BY <1>1, <2>1, ReadOK, PayloadType
  <2>2. CASE LocationOf(s) # "absolute"
    <3>1. Get(s, "offset", "xy", Zero2) \in Vec2
      BY <1>1, <2>2, GetType DEF Zero2, Vec2
    <3> QED
      BY <2>2, <3>1 DEF Vec2, Vec3
  <2> QED
    BY <2>1, <2>2
<1> QED
  BY <1>2, <1>3, <1>4, <1>5, <1>6 DEF NewLayer, Layer, Vec2, Vec3, Origin

LEMMA ReadSupportTypeInv == TypeInv /\ ReadSupport => TypeInv'
<1> SUFFICES ASSUME TypeInv, ReadSupport PROVE TypeInv'
  OBVIOUS
<1> USE DEF TypeInv, TypeOK
<1> DEFINE e == FirstError(SupportErrors(secs[i]))
<1>0. secs[i] \in SupportConfigs
  BY DEF ReadSupport
<1>1. e \in Error
  BY SupportErrorsType, FirstErrorType
<1>2. CASE e # NoError /\ Fail(e)
  BY <1>1, <1>2, FailTypeInv
<1>3. CASE /\ e = NoError
           /\ m' = [m EXCEPT !.supportLayers = Append(@, NewLayer(secs[i]))]
           /\ i' = i + 1
           /\ UNCHANGED <<hdr, secs, pc, err, queryVars>>
  <2>1. NewLayer(secs[i]) \in Layer
    BY <1>0, <1>3, NewLayerType
  <2>2. m' \in Model
    <3>1. m.supportLayers \in Seq(Layer)
      BY DEF Model
    <3>2. Append(m.supportLayers, NewLayer(secs[i])) \in Seq(Layer)
      BY <2>1, <3>1
    <3> QED
      BY <1>3, <3>2 DEF Model
  <2>3. i' \in 1..(Len(secs') + 1)
    <3>1. i <= Len(secs)
      BY DEF ReadSupport
    <3> QED
      BY <1>3, <3>1
  <2> QED
    BY <1>3, <2>2, <2>3 DEF queryVars
<1> QED
  BY <1>2, <1>3 DEF ReadSupport

LEMMA ConstructedTypeInv == TypeInv /\ Constructed => TypeInv'
BY DEF TypeInv, TypeOK, Constructed, queryVars

LEMMA SizeBaseTypeInv == TypeInv /\ SizeBase => TypeInv'
<1> SUFFICES ASSUME TypeInv, SizeBase PROVE TypeInv'
  OBVIOUS
<1> USE DEF TypeInv, TypeOK
<1>1. /\ SensorCenter \in Vec3 /\ SensorSize \in Vec3
      /\ ChipCenter \in Vec3 /\ ChipSize \in Vec3
  BY GeometryType
<1>2. \A a \in Axes :
        /\ Top([center |-> SensorCenter, size |-> SensorSize], a) \in Int
        /\ Top([center |-> ChipCenter, size |-> ChipSize], a) \in Int
        /\ Bottom([center |-> SensorCenter, size |-> SensorSize], a) \in Int
        /\ Bottom([center |-> ChipCenter, size |-> ChipSize], a) \in Int
  BY <1>1, FaceType
<1>3. hi' \in Vec3 /\ lo' \in Vec3
  BY <1>2 DEF SizeBase, Max, Min, Vec3, Axes
<1> QED
  BY <1>3 DEF SizeBase, ctorVars

LEMMA StackBeginTypeInv == TypeInv /\ StackBegin => TypeInv'
<1> SUFFICES ASSUME TypeInv, StackBegin PROVE TypeInv'
  OBVIOUS
<1> USE DEF TypeInv, TypeOK
<1>1. SensorSize \in Vec3 /\ ChipSize \in Vec3
  BY GeometryType
<1>2. m.supportLayers \in Seq(Layer)
  BY DEF Model
<1>3. sOff' \in Int /\ cOff' \in Int
  <2>1. SensorSize.z \in Int /\ ChipSize.z \in Int
    BY <1>1 DEF Vec3
  <2> QED
    BY <2>1 DEF StackBegin
<1>4. k = 1
  BY DEF StackBegin
<1> QED
  BY <1>2, <1>3, <1>4 DEF StackBegin, ctorVars

\* The placed centre of a layer is a point.
LEMMA PlaceType ==
    ASSUME NEW l \in Layer, NEW z \in Int, m \in Model
    PROVE  Plus(Center, [l.offset EXCEPT !.z = z]) \in Vec3
<1>1. Center \in Vec3
  BY GeometryType
<1>2. [l.offset EXCEPT !.z = z] \in Vec3
  BY DEF Layer, Vec3
<1> QED
  BY <1>1, <1>2, PlusType

LEMMA StackStepTypeInv == TypeInv /\ StackStep => TypeInv'
<1> SUFFICES ASSUME TypeInv, StackStep PROVE TypeInv'
  OBVIOUS
<1> USE DEF TypeInv, TypeOK
<1> DEFINE l == layers[j]
           t == l.size.z
           Place(z) == layers' = [layers EXCEPT ![j].center = Plus(Center, [l.offset EXCEPT !.z = z])]
<1>1. j \in 1..Len(layers) /\ l \in Layer
  BY DEF StackStep
<1>2. t \in Int /\ l.offset.z \in Int
  BY <1>1 DEF Layer, Vec3
<1>3. PICK z \in Int : Place(z)
  <2>1. sOff - t \div 2 \in Int /\ cOff + t \div 2 \in Int
    BY <1>2
  <2> QED
    BY <1>2, <2>1 DEF StackStep
<1>4. layers' \in Seq(Layer) /\ Len(layers') = Len(layers)
  <2>1. Plus(Center, [l.offset EXCEPT !.z = z]) \in Vec3
    BY <1>1, PlaceType
  <2>2. [l EXCEPT !.center = Plus(Center, [l.offset EXCEPT !.z = z])] \in Layer
    BY <1>1, <2>1 DEF Layer
  <2> QED
    BY <1>1, <1>3, <2>2
<1>5. sOff' \in Int /\ cOff' \in Int
  BY <1>2 DEF StackStep
<1> QED
  BY <1>1, <1>4, <1>5 DEF StackStep, ctorVars

LEMMA StackEndTypeInv == TypeInv /\ StackEnd => TypeInv'
BY DEF TypeInv, TypeOK, StackEnd, ctorVars

LEMMA SizeStepTypeInv == TypeInv /\ SizeStep => TypeInv'
<1> SUFFICES ASSUME TypeInv, SizeStep PROVE TypeInv'
  OBVIOUS
<1> USE DEF TypeInv, TypeOK
<1>1. k \in 1..Len(layers) /\ layers[k] \in Layer
  BY DEF SizeStep
<1>2. \A a \in Axes : Top(layers[k], a) \in Int /\ Bottom(layers[k], a) \in Int
  BY <1>1, FaceType DEF Layer
<1>3. hi' \in Vec3 /\ lo' \in Vec3
  BY <1>2 DEF SizeStep, Max, Min, Vec3, Axes
<1> QED
  BY <1>1, <1>3 DEF SizeStep, ctorVars

\* The size getSize() computes from max, min and the centre is a vector.
LEMMA MirrorType ==
    ASSUME NEW h \in Vec3, NEW l \in Vec3, NEW c \in Vec3
    PROVE  [x |-> 2 * Max(h.x - c.x, c.x - l.x), y |-> 2 * Max(h.y - c.y, c.y - l.y),
            z |-> (h.z - c.z) + (c.z - l.z)] \in Vec3
BY DEF Vec3, Max

LEMMA SizeEndTypeInv == TypeInv /\ SizeEnd => TypeInv'
<1> SUFFICES ASSUME TypeInv, SizeEnd PROVE TypeInv'
  OBVIOUS
<1> USE DEF TypeInv, TypeOK
<1>1. Center \in Vec3
  BY GeometryType
<1>4. size' \in Vec3
  BY <1>1, MirrorType DEF SizeEnd
<1> QED
  BY <1>4 DEF SizeEnd, ctorVars

(***************************************************************************)
(* Every state the constructor and getSize() reach is well typed: every    *)
(* value the constructor reads has the schema it asks for before it is     *)
(* stored, and the loops of getSupportLayers() and getSize() stay within   *)
(* the layers they iterate over.                                           *)
(***************************************************************************)
THEOREM TypeCorrect == Spec => []TypeOK
<1>1. Init => TypeInv
  BY InitTypeInv
<1>2. TypeInv /\ [Next]_vars => TypeInv'
  <2> SUFFICES ASSUME TypeInv, [Next]_vars PROVE TypeInv'
    OBVIOUS
  <2>1. CASE UNCHANGED vars
    BY <2>1 DEF vars, ctorVars, queryVars, TypeInv, TypeOK
  <2> QED
    BY <2>1, ReadGridTypeInv, ReadExcessTypeInv, ReadImplantSizeTypeInv,
       ReadImplantOffsetTypeInv, ReadChipTypeInv, ReadSupportTypeInv, ConstructedTypeInv,
       SizeBaseTypeInv, StackBeginTypeInv, StackStepTypeInv, StackEndTypeInv,
       SizeStepTypeInv, SizeEndTypeInv DEF Next
<1>3. TypeInv => TypeOK
  BY DEF TypeInv
<1> QED
  BY <1>1, <1>2, <1>3, PTL DEF Spec

-----------------------------------------------------------------------------
(***************************************************************************)
(* The constructed model is valid.  ModelValid speaks of the "ready" state *)
(* only; the checks it rests on are made blocks earlier, so the inductive *)
(* invariant says, for every block after a check, that the fields it      *)
(* checked still pass it: later blocks write other fields.                 *)
(***************************************************************************)
SizeFits ==
    /\ m.implantSize.x <= m.pixelSize.x
    /\ m.implantSize.y <= m.pixelSize.y
    /\ m.implantSize.z <= m.sensorThickness

OffsetFits ==
    /\ Abs(m.implantOffset.x) + m.implantSize.x \div 2 <= m.pixelSize.x \div 2
    /\ Abs(m.implantOffset.y) + m.implantSize.y \div 2 <= m.pixelSize.y \div 2

ValidInv ==
    /\ TypeInv
    /\ pc \in {"implant_offset", "chip", "support", "ready"} => SizeFits
    /\ pc \in {"chip", "support", "ready"} => OffsetFits

LEMMA ReadImplantSizeValid == ValidInv /\ ReadImplantSize => ValidInv'
<1> SUFFICES ASSUME ValidInv, ReadImplantSize PROVE ValidInv'
  OBVIOUS
<1>0. TypeInv'
  BY ReadImplantSizeTypeInv DEF ValidInv
<1> DEFINE sz == ImplantSizeRead
           errs == << Check(sz.x > m.pixelSize.x \/ sz.y > m.pixelSize.y, "implant_size"),
                      Check(sz.z > SensorSize.z, "implant_size"),
                      ReadOptError(hdr, "implant_material", "string") >>
<1>1. CASE pc' = "failed"
  BY <1>0, <1>1 DEF ValidInv
<1>2. CASE pc' # "failed"
  <2>1. /\ ImplantFallbackError = NoError
        /\ FirstError(errs) = NoError
        /\ m' = [m EXCEPT !.implantSize = sz,
                          !.implantMaterial = Get(hdr, "implant_material", "string", "aluminum")]
        /\ pc' = "implant_offset"
    BY <1>2 DEF ReadImplantSize, Fail, Go
  <2>2. errs \in Seq(Error)
    BY ReadErrorType, CheckType DEF Keys
  <2>3. \A p \in 1..Len(errs) : errs[p] = NoError
    BY <2>1, <2>2, FirstErrorNone
  <2>4. /\ ~(sz.x > m.pixelSize.x \/ sz.y > m.pixelSize.y)
        /\ ~(sz.z > SensorSize.z)
    BY <2>3 DEF Check, NoError
  <2>5. m \in Model /\ sz \in Vec3
    <3>1. m \in Model
      BY DEF ValidInv, TypeInv, TypeOK
    <3>2. m'.implantSize = sz /\ m' \in Model
      BY <1>0, <2>1, <3>1 DEF TypeInv, TypeOK, Model
    <3> QED
      BY <3>1, <3>2 DEF Model
  <2>6. /\ m'.implantSize = sz /\ m'.pixelSize = m.pixelSize
        /\ m'.sensorThickness = m.sensorThickness
    BY <2>1, <2>5 DEF Model
  <2>7. SizeFits'
    BY <2>4, <2>5, <2>6 DEF SizeFits, SensorSize, Model, Vec2, Vec3
  <2> QED
    BY <1>0, <2>1, <2>7 DEF ValidInv
<1> QED
  BY <1>1, <1>2

LEMMA ReadImplantOffsetValid == ValidInv /\ ReadImplantOffset => ValidInv'
<1> SUFFICES ASSUME ValidInv, ReadImplantOffset PROVE ValidInv'
  OBVIOUS
<1>0. TypeInv' /\ m \in Model
  BY ReadImplantOffsetTypeInv DEF ValidInv, TypeInv, TypeOK
<1> DEFINE off == Get(hdr, "implant_offset", "xy", Zero2)
<1>1. CASE pc' = "failed"
  BY <1>0, <1>1 DEF ValidInv
<1>2. CASE pc' # "failed"
  <2>1. /\ ~ImplantExceedsCell(off, m.implantSize)
        /\ m' = [m EXCEPT !.implantOffset = off]
        /\ pc = "implant_offset" /\ pc' = "chip"
    BY <1>2 DEF ReadImplantOffset, Fail, Go
  <2>2. /\ m'.implantOffset = off /\ m'.implantSize = m.implantSize
        /\ m'.pixelSize = m.pixelSize /\ m'.sensorThickness = m.sensorThickness
    BY <1>0, <2>1 DEF Model
  <2>3. SizeFits
    BY <2>1 DEF ValidInv
  <2>4. SizeFits'
    BY <2>2, <2>3 DEF SizeFits
  <2>5. /\ Abs(off.x) + m.implantSize.x \div 2 <= m.pixelSize.x \div 2
        /\ Abs(off.y) + m.implantSize.y \div 2 <= m.pixelSize.y \div 2
    <3>1. ReadOptError(hdr, "implant_offset", "xy") = NoError
      BY <1>2 DEF ReadImplantOffset, Fail
    <3>2. off \in Vec2
      <4>1. hdr \in HeaderConfigs /\ Zero2 \in Vec2
        BY DEF ValidInv, TypeInv, TypeOK, Zero2, Vec2
      <4> QED
        BY <3>1, <4>1, GetType
    <3>3. m.implantSize \in Vec3 /\ m.pixelSize \in Vec2
      BY <1>0 DEF Model
    <3> QED
      BY <2>1, <3>2, <3>3 DEF ImplantExceedsCell, Abs, Vec2, Vec3
  <2>6. OffsetFits'
    BY <2>2, <2>5 DEF OffsetFits
  <2> QED
    BY <1>0, <2>1, <2>4, <2>6 DEF ValidInv
<1> QED
  BY <1>1, <1>2

\* The blocks after the implant checks write other fields than the checked ones.
LEMMA LaterBlocksValid ==
    ValidInv /\ (ReadGrid \/ ReadExcess \/ ReadChip \/ ReadSupport \/ Constructed)
        => ValidInv'
<1> SUFFICES ASSUME ValidInv, ReadGrid \/ ReadExcess \/ ReadChip \/ ReadSupport \/ Constructed
             PROVE  ValidInv'
  OBVIOUS
<1>0. TypeInv' /\ m \in Model
  BY ReadGridTypeInv, ReadExcessTypeInv, ReadChipTypeInv, ReadSupportTypeInv,
     ConstructedTypeInv DEF ValidInv, TypeInv, TypeOK
<1>1. CASE ReadGrid \/ ReadExcess
  <2>1. pc' \in {"excess", "implant_size", "failed"}
    BY <1>1 DEF ReadGrid, ReadExcess, Fail, Go
  <2> QED
    BY <1>0, <2>1 DEF ValidInv
<1>2. CASE ReadChip \/ ReadSupport \/ Constructed
  <2>1. pc' = "failed" \/ pc \in {"chip", "support"}
    BY <1>2 DEF ReadChip, ReadSupport, Constructed
  <2>2. CASE pc' = "failed"
    BY <1>0, <2>2 DEF ValidInv
  <2>3. CASE pc' # "failed"
    <3>1. /\ pc \in {"chip", "support"} /\ pc' \in {"support", "ready"}
          /\ \/ m' = m
             \/ \E c : m' = [m EXCEPT !.chipThickness = c]
             \/ \E l : m' = [m EXCEPT !.supportLayers = Append(@, l)]
      BY <1>2, <2>3 DEF ReadChip, ReadSupport, Constructed, Fail
    <3>2. /\ m'.implantSize = m.implantSize /\ m'.implantOffset = m.implantOffset
          /\ m'.pixelSize = m.pixelSize /\ m'.sensorThickness = m.sensorThickness
      BY <1>0, <3>1 DEF Model
    <3>3. SizeFits /\ OffsetFits
      BY <3>1 DEF ValidInv
    <3> QED
      BY <1>0, <3>1, <3>2, <3>3 DEF ValidInv, SizeFits, OffsetFits
  <2> QED
    BY <2>2, <2>3
<1> QED
  BY <1>1, <1>2

\* getSize() reads the model and leaves it and the constructor alone.
LEMMA QueriesValid ==
    ValidInv /\ (SizeBase \/ StackBegin \/ StackStep \/ StackEnd \/ SizeStep \/ SizeEnd)
        => ValidInv'
<1> SUFFICES ASSUME ValidInv, SizeBase \/ StackBegin \/ StackStep \/ StackEnd \/ SizeStep \/ SizeEnd
             PROVE  ValidInv'
  OBVIOUS
<1>1. TypeInv'
  BY SizeBaseTypeInv, StackBeginTypeInv, StackStepTypeInv, StackEndTypeInv,
     SizeStepTypeInv, SizeEndTypeInv DEF ValidInv
<1>2. UNCHANGED ctorVars
  BY DEF SizeBase, StackBegin, StackStep, StackEnd, SizeStep, SizeEnd
<1> QED
  BY <1>1, <1>2 DEF ValidInv, ctorVars, SizeFits, OffsetFits

(***************************************************************************)
(* The constructor only returns a model that satisfies the invariants of  *)
(* spec section 3: the implant fits the pixel pitch (line 47) and the      *)
(* sensor depth (line 50), stays inside its pixel cell (lines 58-59), and  *)
(* every support layer has one of the three locations (line 73).           *)
(***************************************************************************)
THEOREM ConstructedModelValid == Spec => []ModelValid
<1>1. Init => ValidInv
  BY InitTypeInv DEF Init, ValidInv
<1>2. ValidInv /\ [Next]_vars => ValidInv'
  <2> SUFFICES ASSUME ValidInv, [Next]_vars PROVE ValidInv'
    OBVIOUS
  <2>1. CASE UNCHANGED vars
    <3>1. TypeInv'
      BY <2>1 DEF vars, ctorVars, queryVars, ValidInv, TypeInv, TypeOK
    <3> QED
      BY <2>1, <3>1 DEF vars, ctorVars, ValidInv, SizeFits, OffsetFits
  <2> QED
    BY <2>1, ReadImplantSizeValid, ReadImplantOffsetValid, LaterBlocksValid,
       QueriesValid DEF Next
<1>3. ValidInv => ModelValid
  <2> SUFFICES ASSUME ValidInv, pc = "ready" PROVE ModelValid
    BY DEF ModelValid
  <2>1. \A n \in 1..Len(m.supportLayers) : m.supportLayers[n].location \in Locations
    <3>1. m.supportLayers \in Seq(Layer)
      BY DEF ValidInv, TypeInv, TypeOK, Model
    <3>2. \A n \in 1..Len(m.supportLayers) : m.supportLayers[n] \in Layer
      BY <3>1
    <3> QED
      BY <3>2 DEF Layer
  <2> QED
    BY <2>1 DEF ValidInv, SizeFits, OffsetFits, ModelValid
<1> QED
  BY <1>1, <1>2, <1>3, PTL DEF Spec
=============================================================================
