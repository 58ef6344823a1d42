--------------------- MODULE GeometryBuilder_complete_proofs ---------------------
(***************************************************************************)
(* Proof that a build of DetectorConstructionG4::build that finishes has  *)
(* registered the objects of exactly the parts the model has and placed   *)
(* every support layer of getSupportLayers() at its stacked centre        *)
(* (BuildComplete), for every configuration and every set of materials.   *)
(***************************************************************************)
EXTENDS GeometryBuilder_proofs, DetectorModel_stack_proofs

\* The names each block of build() registers with the geometry manager.
WrapperObjects == {"wrapper_log", "rotation_matrix", "wrapper_phys"}
ImplantObjects == IF HasImplants THEN {"implants_log", "implants_phys"} ELSE {}
SensorObjects == {"sensor_log", "sensor_phys", "pixel_log", "pixel_param"}
ChipObjects == IF ChipSize.z > 0 THEN {"chip_log", "chip_phys"} ELSE {}

(***************************************************************************)
(* The objects registered before each block runs: those of the blocks     *)
(* that ran before it, each block registering its own names only when it *)
(* does not throw.                                                         *)
(***************************************************************************)
StagedObjects ==
    /\ bpc = "wrapper" => objects = {}
    /\ bpc = "implants" => objects = WrapperObjects
    /\ bpc = "sensor" => objects = WrapperObjects \cup ImplantObjects
    /\ bpc = "chip" => objects = WrapperObjects \cup ImplantObjects \cup SensorObjects
    /\ bpc = "supports" =>
          objects = WrapperObjects \cup ImplantObjects \cup SensorObjects \cup ChipObjects
    /\ bpc = "built" => objects = Expected

(***************************************************************************)
(* supports_phys holds one placement per layer the loop of lines 253-306  *)
(* has handled, the n-th at the n-th layer's centre less the geometrical  *)
(* centre, and the loop ends only past the last layer.                    *)
(***************************************************************************)
SupportsPlaced ==
    /\ Len(supPhys) = supIdx
    /\ \A n \in 1..supIdx : supPhys[n].pos = Minus(layers[n].center, GeometricalCenter)
    /\ bpc = "built" => supIdx = Len(layers)

(***************************************************************************)
(* The inductive invariant: BuildComplete needs the objects and supports  *)
(* of every stage, and that the model and getSize()'s results no longer  *)
(* change once the builder has started (StackInv: a query runs only on a  *)
(* constructed model).                                                      *)
(***************************************************************************)
CompleteInv == BuilderInv /\ StackInv /\ StagedObjects /\ SupportsPlaced

-----------------------------------------------------------------------------
(***************************************************************************)
(* Once getSize() has returned, no step of the model changes anything:    *)
(* the constructor has finished (StackInv) and every query step needs the *)
(* query unfinished.                                                        *)
(***************************************************************************)
LEMMA ModelDoneStable ==
    ASSUME StackInv, qpc = "done", [Next]_vars
    PROVE  UNCHANGED vars
<1>1. pc = "ready"
  BY DEF StackInv
<1>2. ~(ReadGrid \/ ReadExcess \/ ReadImplantSize \/ ReadImplantOffset)
  BY <1>1 DEF ReadGrid, ReadExcess, ReadImplantSize, ReadImplantOffset
<1>3. ~(ReadChip \/ ReadSupport \/ Constructed)
  BY <1>1 DEF ReadChip, ReadSupport, Constructed
<1>4. ~(SizeBase \/ StackBegin \/ StackStep \/ StackEnd \/ SizeStep \/ SizeEnd)
  BY DEF SizeBase, StackBegin, StackStep, StackEnd, SizeStep, SizeEnd
<1> QED
  BY <1>2, <1>3, <1>4 DEF Next

\* What the builder reads of the model is fixed by the model's variables.
LEMMA KeepsDerived ==
    ASSUME UNCHANGED vars
    PROVE  /\ layers' = layers
           /\ GeometricalCenter' = GeometricalCenter
           /\ ImplantObjects' = ImplantObjects
           /\ ChipObjects' = ChipObjects
           /\ Expected' = Expected
<1>1. m' = m /\ layers' = layers /\ hi' = hi /\ lo' = lo
  BY DEF vars, ctorVars, queryVars
<1>2. HasImplants' = HasImplants /\ ChipSize' = ChipSize
  BY <1>1 DEF HasImplants, ChipSize, SensorSize, GridSize
<1>3. GeometricalCenter' = GeometricalCenter
  BY <1>1 DEF GeometricalCenter, Center, GridSize
<1> QED
  BY <1>1, <1>2, <1>3 DEF ImplantObjects, ChipObjects, Expected

\* A builder step that leaves support_idx and supports_phys alone and does
\* not finish keeps SupportsPlaced.
LEMMA SupportsKept ==
    ASSUME SupportsPlaced, UNCHANGED vars, UNCHANGED <<supIdx, supPhys>>, bpc' # "built"
    PROVE  SupportsPlaced'
BY KeepsDerived DEF SupportsPlaced

LEMMA InitCompleteInv == BuilderInit => CompleteInv
<1> SUFFICES ASSUME BuilderInit PROVE CompleteInv
  OBVIOUS
<1>1. BuilderInv
  BY BuilderInitInv
<1>2. StackInv
  BY InitStackInv DEF BuilderInit
<1>3. StagedObjects
  BY DEF BuilderInit, StagedObjects
<1>4. SupportsPlaced
  BY DEF BuilderInit, SupportsPlaced
<1> QED
  BY <1>1, <1>2, <1>3, <1>4 DEF CompleteInv

LEMMA ModelStepComplete == CompleteInv /\ ModelStep => CompleteInv'
<1> SUFFICES ASSUME CompleteInv, ModelStep PROVE CompleteInv'
  OBVIOUS
<1>1. BuilderInv' /\ StackInv'
  BY ModelStepInv, NextStackInv DEF CompleteInv, ModelStep
<1>2. UNCHANGED builderVars
  BY DEF ModelStep
<1>3. CASE bpc = "wrapper"
  <2>1. supIdx = 0 /\ objects = {} /\ Len(supPhys) = 0
    BY <1>3 DEF CompleteInv, BuilderInv, StagedObjects, SupportsPlaced
  <2>2. StagedObjects'
    BY <1>2, <1>3, <2>1 DEF StagedObjects, builderVars
  <2>3. SupportsPlaced'
    BY <1>2, <1>3, <2>1 DEF SupportsPlaced, builderVars
  <2> QED
    BY <1>1, <2>2, <2>3 DEF CompleteInv
<1>4. CASE bpc # "wrapper"
  <2>1. UNCHANGED vars
    BY <1>4, ModelDoneStable DEF CompleteInv, BuilderInv, ModelStep
  <2>2. StagedObjects'
    BY <1>2, <2>1, KeepsDerived DEF CompleteInv, StagedObjects, builderVars
  <2>3. SupportsPlaced'
    BY <1>2, <2>1, KeepsDerived DEF CompleteInv, SupportsPlaced, builderVars
  <2> QED
    BY <1>1, <2>2, <2>3 DEF CompleteInv
<1> QED
  BY <1>3, <1>4

LEMMA BuildWrapperComplete == CompleteInv /\ BuildWrapper => CompleteInv'
<1> SUFFICES ASSUME CompleteInv, BuildWrapper PROVE CompleteInv'
  OBVIOUS
<1>1. BuilderInv' /\ StackInv'
  BY BuildWrapperInv, StutterStackInv DEF CompleteInv, BuildWrapper
<1>2. objects = {} /\ UNCHANGED vars
  BY DEF CompleteInv, StagedObjects, BuildWrapper
<1>3. CASE ~worldFound
  <2>1. bpc' = "error"
    BY <1>3 DEF BuildWrapper
  <2>2. StagedObjects'
    BY <2>1 DEF StagedObjects
  <2>3. SupportsPlaced'
    BY <1>2, <2>1, SupportsKept DEF CompleteInv, BuildWrapper
  <2> QED
    BY <1>1, <2>2, <2>3 DEF CompleteInv
<1>4. CASE worldFound
  <2>1. bpc' = "implants"
        /\ objects' = objects \cup {"wrapper_log", "rotation_matrix", "wrapper_phys"}
    BY <1>4 DEF BuildWrapper
  <2>2. StagedObjects'
    BY <1>2, <2>1 DEF StagedObjects, WrapperObjects
  <2>3. SupportsPlaced'
    BY <1>2, <2>1, SupportsKept DEF CompleteInv, BuildWrapper
  <2> QED
    BY <1>1, <2>2, <2>3 DEF CompleteInv
<1> QED
  BY <1>3, <1>4

LEMMA BuildImplantsComplete == CompleteInv /\ BuildImplants => CompleteInv'
<1> SUFFICES ASSUME CompleteInv, BuildImplants PROVE CompleteInv'
  OBVIOUS
<1>1. BuilderInv' /\ StackInv'
  BY BuildImplantsInv, StutterStackInv DEF CompleteInv, BuildImplants
<1>2. objects = WrapperObjects /\ UNCHANGED vars /\ UNCHANGED <<supIdx, supPhys>>
  BY DEF CompleteInv, StagedObjects, BuildImplants
<1>3. ImplantObjects' = ImplantObjects
  BY <1>2, KeepsDerived
<1>4. CASE ~HasImplants
  <2>1. bpc' = "sensor" /\ objects' = objects
    BY <1>4, Zenon DEF BuildImplants
  <2>2. ImplantObjects = {}
    BY <1>4 DEF ImplantObjects
  <2>3. StagedObjects'
    BY <1>2, <1>3, <2>1, <2>2 DEF StagedObjects
  <2>4. SupportsPlaced'
    BY <1>2, <2>1, SupportsKept DEF CompleteInv
  <2> QED
    BY <1>1, <2>3, <2>4 DEF CompleteInv
<1>5. CASE HasImplants /\ m.implantMaterial \notin Materials
  <2>1. bpc' = "error"
    BY <1>5, Zenon DEF BuildImplants
  <2>2. StagedObjects'
    BY <2>1 DEF StagedObjects
  <2>3. SupportsPlaced'
    BY <1>2, <2>1, SupportsKept DEF CompleteInv
  <2> QED
    BY <1>1, <2>2, <2>3 DEF CompleteInv
<1>6. CASE HasImplants /\ m.implantMaterial \in Materials
  <2>1. bpc' = "sensor" /\ objects' = objects \cup {"implants_log", "implants_phys"}
    BY <1>6, Zenon DEF BuildImplants
  <2>2. ImplantObjects = {"implants_log", "implants_phys"}
    BY <1>6 DEF ImplantObjects
  <2>3. StagedObjects'
    BY <1>2, <1>3, <2>1, <2>2 DEF StagedObjects
  <2>4. SupportsPlaced'
    BY <1>2, <2>1, SupportsKept DEF CompleteInv
  <2> QED
    BY <1>1, <2>3, <2>4 DEF CompleteInv
<1> QED
  BY <1>4, <1>5, <1>6

LEMMA BuildSensorComplete == CompleteInv /\ BuildSensor => CompleteInv'
<1> SUFFICES ASSUME CompleteInv, BuildSensor PROVE CompleteInv'
  OBVIOUS
<1>1. BuilderInv' /\ StackInv'
  BY BuildSensorInv, StutterStackInv DEF CompleteInv, BuildSensor
<1>2. /\ objects = WrapperObjects \cup ImplantObjects
      /\ UNCHANGED vars /\ UNCHANGED <<supIdx, supPhys>>
      /\ bpc' = "chip"
      /\ objects' = objects \cup SensorObjects
  BY DEF CompleteInv, StagedObjects, BuildSensor, SensorObjects
<1>3. ImplantObjects' = ImplantObjects
  BY <1>2, KeepsDerived
<1>4. StagedObjects'
  BY <1>2, <1>3 DEF StagedObjects
<1>5. SupportsPlaced'
  BY <1>2, SupportsKept DEF CompleteInv
<1> QED
  BY <1>1, <1>4, <1>5 DEF CompleteInv

LEMMA BuildChipComplete == CompleteInv /\ BuildChip => CompleteInv'
<1> SUFFICES ASSUME CompleteInv, BuildChip PROVE CompleteInv'
  OBVIOUS
<1>1. BuilderInv' /\ StackInv'
  BY BuildChipInv, StutterStackInv DEF CompleteInv, BuildChip
<1>2. /\ objects = WrapperObjects \cup ImplantObjects \cup SensorObjects
      /\ UNCHANGED vars /\ UNCHANGED <<supIdx, supPhys>>
      /\ bpc' = "supports"
  BY DEF CompleteInv, StagedObjects, BuildChip
<1>3. ImplantObjects' = ImplantObjects /\ ChipObjects' = ChipObjects
  BY <1>2, KeepsDerived
<1>4. objects' = objects \cup ChipObjects
  <2>0. ChipSize.z \in Int
    <3>1. m \in Model
      BY DEF CompleteInv, BuilderInv, TypeInv, TypeOK
    <3> QED
      BY <3>1, GeometryType DEF Vec3
  <2>1. CASE ChipSize.z > 0
    BY <2>0, <2>1 DEF BuildChip, ChipObjects
  <2>2. CASE ~(ChipSize.z > 0)
    BY <2>0, <2>2 DEF BuildChip, ChipObjects
  <2> QED
    BY <2>1, <2>2
<1>5. StagedObjects'
  BY <1>2, <1>3, <1>4 DEF StagedObjects
<1>6. SupportsPlaced'
  BY <1>2, SupportsKept DEF CompleteInv
<1> QED
  BY <1>1, <1>5, <1>6 DEF CompleteInv

LEMMA BuildSupportComplete == CompleteInv /\ BuildSupport => CompleteInv'
<1> SUFFICES ASSUME CompleteInv, BuildSupport PROVE CompleteInv'
  OBVIOUS
<1>1. BuilderInv' /\ StackInv'
  BY BuildSupportInv, StutterStackInv DEF CompleteInv, BuildSupport
<1>2. /\ UNCHANGED vars /\ UNCHANGED objects /\ bpc = "supports"
      /\ supIdx \in 0..Len(layers) /\ supIdx < Len(layers)
      /\ supPhys \in Seq(Placement) /\ Len(supPhys) = supIdx
  BY DEF CompleteInv, BuilderInv, BuilderTypeOK, SupportsPlaced, BuildSupport
<1>3. layers' = layers /\ GeometricalCenter' = GeometricalCenter
      /\ ImplantObjects' = ImplantObjects /\ ChipObjects' = ChipObjects
  BY <1>2, KeepsDerived
<1> DEFINE l == layers[supIdx + 1]
<1>4. CASE l.material \notin Materials
  <2>1. bpc' = "error" /\ UNCHANGED <<supIdx, supPhys>>
    BY <1>4, Zenon DEF BuildSupport, l
  <2>2. StagedObjects'
    BY <2>1 DEF StagedObjects
  <2>3. SupportsPlaced'
    BY <1>2, <2>1, SupportsKept DEF CompleteInv
  <2> QED
    BY <1>1, <2>2, <2>3 DEF CompleteInv
<1>5. CASE l.material \in Materials
  <2>1. /\ supPhys' = Append(supPhys, Box("support", <<supIdx>>, l.center, l.size))
        /\ supIdx' = supIdx + 1
        /\ bpc' = bpc
    BY <1>5, Zenon DEF BuildSupport, l
  <2>2. StagedObjects'
    BY <1>2, <1>3, <2>1 DEF CompleteInv, StagedObjects
  <2>3. Len(supPhys') = supIdx'
    BY <1>2, <2>1
  <2>4. ASSUME NEW n \in 1..supIdx'
        PROVE  supPhys'[n].pos = Minus(layers'[n].center, GeometricalCenter')
    <3>1. CASE n <= supIdx
      <4>1. supPhys'[n] = supPhys[n]
        BY <1>2, <2>1, <3>1
      <4>2. supPhys[n].pos = Minus(layers[n].center, GeometricalCenter)
        BY <1>2, <3>1 DEF CompleteInv, SupportsPlaced
      <4> QED
        BY <1>3, <4>1, <4>2
    <3>2. CASE n = supIdx + 1
      <4>1. supPhys'[n] = Box("support", <<supIdx>>, l.center, l.size)
        BY <1>2, <2>1, <3>2
      <4> QED
        BY <1>3, <3>2, <4>1 DEF Box, l
    <3> QED
      BY <1>2, <2>1, <3>1, <3>2
  <2>5. SupportsPlaced'
    BY <1>2, <2>1, <2>3, <2>4 DEF SupportsPlaced
  <2> QED
    BY <1>1, <2>2, <2>5 DEF CompleteInv
<1> QED
  BY <1>4, <1>5

LEMMA SupportsDoneComplete == CompleteInv /\ SupportsDone => CompleteInv'
<1> SUFFICES ASSUME CompleteInv, SupportsDone PROVE CompleteInv'
  OBVIOUS
<1>1. BuilderInv' /\ StackInv'
  BY SupportsDoneInv, StutterStackInv DEF CompleteInv, SupportsDone
<1>2. /\ objects = WrapperObjects \cup ImplantObjects \cup SensorObjects \cup ChipObjects
      /\ objects' = objects \cup {"supports_log", "supports_phys"}
      /\ UNCHANGED vars /\ UNCHANGED <<supIdx, supPhys>> /\ bpc' = "built"
      /\ supIdx \in 0..Len(layers) /\ supIdx >= Len(layers)
  BY DEF CompleteInv, StagedObjects, BuilderInv, BuilderTypeOK, SupportsDone
<1>3. Expected' = Expected /\ layers' = layers /\ GeometricalCenter' = GeometricalCenter
  BY <1>2, KeepsDerived
<1>4. objects' = Expected
  BY <1>2 DEF Expected, WrapperObjects, ImplantObjects, SensorObjects, ChipObjects
<1>5. StagedObjects'
  BY <1>2, <1>3, <1>4 DEF StagedObjects
<1>6. SupportsPlaced'
  BY <1>2, <1>3 DEF CompleteInv, SupportsPlaced
<1> QED
  BY <1>1, <1>5, <1>6 DEF CompleteInv

LEMMA NextCompleteInv == CompleteInv /\ [BuilderNext]_allVars => CompleteInv'
<1> SUFFICES ASSUME CompleteInv, [BuilderNext]_allVars PROVE CompleteInv'
  OBVIOUS
<1>1. CASE UNCHANGED allVars
  <2>1. UNCHANGED vars /\ UNCHANGED builderVars
    BY <1>1 DEF allVars
  <2>2. BuilderInv' /\ StackInv'
    BY <2>1, StutterStackInv DEF CompleteInv, BuilderInv, BuilderTypeOK, TypeInv, TypeOK,
                                 vars, ctorVars, queryVars, builderVars
  <2>3. StagedObjects' /\ SupportsPlaced'
    BY <2>1, KeepsDerived DEF CompleteInv, StagedObjects, SupportsPlaced, builderVars
  <2> QED
    BY <2>2, <2>3 DEF CompleteInv
<1> QED
  BY <1>1, ModelStepComplete, BuildWrapperComplete, BuildImplantsComplete,
     BuildSensorComplete, BuildChipComplete, BuildSupportComplete, SupportsDoneComplete
     DEF BuilderNext

(***************************************************************************)
(* For every configuration and every set of materials, a build() that     *)
(* reaches the end of its body has registered exactly the objects of the  *)
(* parts the model has (implants only with a depth, a chip only with a    *)
(* thickness) and placed every layer of getSupportLayers(), in order, at  *)
(* its stacked centre in the wrapper's frame: no block skipped, no layer  *)
(* dropped or shifted, whatever the model steps interleaved with it.      *)
(***************************************************************************)
THEOREM BuildCompleteCorrect == BuilderSpec => []BuildComplete
<1>1. BuilderInit => CompleteInv
  BY InitCompleteInv
<1>2. CompleteInv /\ [BuilderNext]_allVars => CompleteInv'
  BY NextCompleteInv
<1>3. CompleteInv => BuildComplete
  BY DEF CompleteInv, StagedObjects, SupportsPlaced, BuildComplete
<1> QED
  BY <1>1, <1>2, <1>3, PTL DEF BuilderSpec

=============================================================================
