# Verification of the detector geometry model

This directory holds a TLA+ verification project for the detector geometry code of
this repository:

- `src/src/core/geometry/DetectorModel.cpp`: the geometry model, its constructor and its queries;
- `src/src/modules/GeometryBuilderGeant4/DetectorConstructionG4.cpp`: the Geant4 builder that consumes the model.

It contains:

- TLA+ modules that model the code;
- TLC configurations that model-check them on small instances;
- TLAPS proofs of the most important invariants for every value of the constants.

`PROJECT.json` lists the components, runs, mutants, the map from definitions to source
lines, findings, hazards and theorems.

## 1. The system

### Parts and how they interact

The spec (`spec.md`) names four parts. The code adds a consumer.

| Part | Code | State | Operations |
|---|---|---|---|
| Configuration reader | external (not under `src/`) | header section, repeated named sections | `get<T>(key)`, `get<T>(key, def)`, `getConfigurations(name)`, `getConfigurations()` |
| Geometry model | `DetectorModel::DetectorModel` (lines 16-91) | the stored fields: pixel grid, excesses, implant, chip, ordered support layers | construction: read, validate, store, or throw |
| Support stack resolver | `DetectorModel::getSupportLayers` (150-169) | locals: `ret_layers`, `sensor_offset`, `chip_offset` | one pass over the layers in declaration order |
| Bounding envelope calculator | `DetectorModel::getSize` (113-148) | locals: `max`, `min` | fold over sensor, chip, then `getSupportLayers()`; then mirror x/y and sum z |
| Global configuration merge | `DetectorModel::getConfigurations` (93-111) | `global_config_`, `configurations` | merge unnamed sections, keep named ones, prepend the merged one |
| Geant4 builder | `DetectorConstructionG4::build` (59-390) | Geant4 solids, volumes, placements; the geometry manager's external objects | for every detector: wrapper, sensor, implants, pixel parameterisation, chip, supports, bump bonds |

The pieces connect in a fixed order:

1. The reader's data flows into the constructor.
2. The constructor either throws the first error it meets or stores an immutable model.
3. The builder then queries the model repeatedly.
4. The builder places every part inside a wrapper box. The box has the size `getSize()` returns and is centred on `getGeometricalCenter()`.

Everything runs on one thread, with no suspension points (spec section 5). The hard
behaviours are therefore not interleavings. They are these:

- **Order of checks:** the first throw ends construction.
- **The implant fallback:** a two-stage read that catches only `ConfigurationError`.
- **Order-dependent stacking:** where a layer goes depends on every earlier layer of the same location.
- **Asymmetric envelope:** x and y are mirrored about `getCenter()`, z is not.
- **Partial failure in the builder:** it registers objects and then throws.

### Hazards (hard to test, reachable by a model checker)

Each hazard is listed in `PROJECT.json` at its source line:

- **Unchecked thickness signs** (`DetectorModel.cpp:69`, `:28`, `:65`). A zero thickness makes layers of one location coincide. A negative one makes them overlap or turns the stack inward.
- **Inclusive bounds and `fabs`** in the implant checks (`:47`, `:50`, `:58-59`).
- **The 3D/2D implant fallback** (`:39-46`). It catches both a missing key and a wrong schema, and must default to the full pixel.
- **Stacking order** (`:155-163`). Two independent accumulators, interleaved with absolute layers; the placement comes before the advance.
- **x/y mirroring against z summing** (`:143-146`), while the wrapper is centred on the geometrical centre.
- **Merge order** (`DetectorModel.cpp:98-110`): later unnamed sections override earlier ones, named sections keep their order, and the merged section goes in front.
- **In the builder** (`DetectorConstructionG4.cpp`):
  - a `ModuleError` after objects were registered (`DetectorConstructionG4.cpp:105`, `:165`, `:282`);
  - the sensor volume built from `sensor_box` instead of the implant subtraction (`:187-188`);
  - implants placed at `getSensorCenter()` while their cell positions are relative to the grid centre (`:174`);
  - the chip volume built only when its thickness exceeds `1e-9` (`:225`);
  - the sensor excesses and the pixel pitch read with no sign check (`DetectorModel.cpp:24`, `:31-35`): a negative excess makes the wrapper narrower than the pixel grid the implants are placed on;
  - `operator[]` on the materials map inserting a null material (`:84`, `:188`).

### Properties that make each part correct

- **Construction:**
  - only a model satisfying spec section 3 is returned;
  - every stored value has the schema it was read with;
  - the first failing read or check decides the error;
  - construction and the queries terminate.
- **Stacking:**
  - each layer's centre is the closed form of spec section 4.2, a sum over the earlier layers of its location;
  - stacked layers are disjoint in z from one another, from the sensor and from the chip;
  - successive layers of one location lie strictly farther out.
- **Envelope:** the box of size `getSize()`, centred on the geometrical centre, contains the sensor, the chip and every support layer.
- **Merge:** the result is the merged global section followed by the named sections in order (spec 8.7).
- **Builder:**
  - every placed volume lies inside the wrapper, whenever the pixel grid lies in the sensor (`GridInSensor`: a pitch that is not negative, and excesses that do not shrink the sensor below the grid);
  - implants lie inside their pixel cells;
  - a failed build leaves nothing registered, or the model says what is left.

## 2. The modules

### `DetectorModel.tla`: the constructor and the queries

**Constants:**

- `HeaderConfigs`: the header sections the reader may hold.
- `SupportConfigs`: the `support` sections it may hold.
- `MaxSupports`: the largest number of support sections.

**Configuration values.** A value is a record with a schema (`kind`). Its payload sits
in the field named after the schema:

| Schema | Payload |
|---|---|
| `uint2` | pair of naturals |
| `xy` | 2-vector |
| `xyz` | 3-vector |
| `double` | integer |
| `string` | string |

A section is a function from the keys it sets to their values. The two `get`
overloads are `ReadError`, for `get<T>(key)`, which throws `MissingKey` or
`InvalidKey`, and `ReadOptError` with `Get`, for `get<T>(key, def)`.

**Lengths are integers.** The configurations the runs use have lengths that are
multiples of 4 (`ConfigAssumption`). Every halving the code does in double
arithmetic is then exact.

**State and correspondence to the code:**

| Variable | Code |
|---|---|
| `hdr`, `secs` | `reader_.getHeaderConfiguration()`, `reader_.getConfigurations("support")` |
| `pc` | the block of the constructor about to run, or `"ready"` / `"failed"` |
| `err` | the exception thrown |
| `m` | the model's fields (`setNPixels`, ..., `addSupportLayer`) |
| `i` | the support section the loop at line 68 reads next |
| `qpc` | progress of `getSize()`: `idle`, `stack`, `stacking` (inside `getSupportLayers()`), `supports` (the fold over the layers it returned), `done` |
| `sOff`, `cOff`, `j`, `layers` | `sensor_offset`, `chip_offset`, the loop position and `ret_layers` of `getSupportLayers()` |
| `k`, `hi`, `lo`, `size` | the loop position, `max`, `min` and the result of `getSize()` |

**Constructor actions**, one per block, in the code's order. Each evaluates the
block's reads and checks in order; the first that throws ends construction
(`FirstError`, `Fail`). Otherwise the fields are stored (`Go`).

| Action | Code |
|---|---|
| `ReadGrid` | lines 18-28 |
| `ReadExcess` | 30-35 |
| `ReadImplantSize` | 37-54, including the fallback `ImplantFallbackError` / `ImplantSizeRead` |
| `ReadImplantOffset` | 56-62 |
| `ReadChip` | 64-65 |
| `ReadSupport` | 68-90, one section per step; `SupportErrors` lists its eight reads and checks in order, `NewLayer` the stored layer |
| `Constructed` | 91 |

**Query actions**, one per loop iteration:

| Action | Code |
|---|---|
| `SizeBase` | 114-129 |
| `StackBegin` | 151-154 |
| `StackStep` | 155-166, with disjuncts for sensor, chip and absolute layers |
| `StackEnd` | 168 |
| `SizeStep` | 131-140 |
| `SizeEnd` | 142-147 |

**Modelled from the spec.** `DetectorModel.hpp` is not under `src/`. `GridSize`,
`Center`, `SensorSize`, `SensorCenter`, `ChipSize`, `ChipCenter` and
`GeometricalCenter` are therefore modelled from the spec, and marked
`spec_modelled` in the map.

**Fairness.** `Spec` has weak fairness on `Next`. The constructor and the queries are
one terminating computation on a single thread. Whenever a step is enabled, the
thread takes one.

### `MC_DetectorModel.tla`: the instances

**Value builders:** `D`, `S`, `U2`, `XY`, `XYZ`, `Section`.

**`ConstructionHeaders`** has 1,350 headers. Every read of the header but
`number_of_pixels` (always a valid 2x1 grid) is absent, wrongly typed or valid, and every implant bound is met exactly and exceeded:

- pixel pitch 16, sensor thickness 8;
- implant sizes: `XY(16,8)` equal to the pitch, `XY(20,8)` above it, `XYZ(8,8,8)` equal to the depth, `XYZ(8,8,12)` deeper, `XYZ(8,20,8)`, and a wrong schema;
- offsets: inside, touching the cell wall at `(-8,0)` or `(4,0)` with an implant of 8, and a wrong schema.

**`ConstructionSupports`:**

- a valid mixed-case location;
- an invalid location;
- an absolute location without an offset;
- a section without a thickness.

**`GeometryHeaders`** and **`GeometrySupports`:**

- a valid header with or without a chip and with or without asymmetric excess;
- five layer kinds: sensor t=4, `"Sensor"` t=8, `"CHIP"` t=4, default location t=8, and an `"Absolute"` layer that sticks out in x and below the sensor side.

### `ConfigMerge.tla`: `getConfigurations()`

**Constants:**

- `Headers`: the header sections the reader may hold.
- `Sections`: the sections `getConfigurations()` of the reader may return. Each has a `name`, `""` for a global one, and the keys it sets.
- `MaxSections`: the largest number of sections.

**State and correspondence to the code:**

| Variable | Code |
|---|---|
| `glob` | `global_config_` |
| `confs` | `configurations` |
| `n` | the loop position |

**Actions:**

| Action | Code |
|---|---|
| `Init` | lines 94-96 |
| `LoopStep` | 98-106: merge an unnamed section, or store a named one |
| `Finish` | 108-110: prepend the merged section |

`Configuration::merge` is not under `src/`. It is modelled from spec section 4.4 as
`Merge`, where the later section overrides. `MergeResult` compares the result with
a closed-form reference: each key of the merged section has the value of the last
unnamed section that sets it, or else the header's. The named sections are
`SelectSeq(secs, named)`.

### `GeometryBuilder.tla`: `DetectorConstructionG4::build`, composed with the model

The module extends `DetectorModel`.

**The composed behaviour:**

- The model is constructed and queried by `DetectorModel`'s actions (`ModelStep`).
- Once `getSize()` has returned (`qpc = "done"`), the builder runs the loop body for this detector.
- The builder's own calls to `getSize()`, `getSupportLayers()` and the getters are pure. Their results are therefore the values `size`, `layers` and the derived centres hold at that point.

**Abstraction of the Geant4 objects.** They are reduced to what the properties tell
apart:

- `solids`: the kinds of solid pushed to `solids_`, in order.
- `objects`: the names registered with `setExternalObject`.
- `placed` and `supPhys`: the boxes placed in the wrapper, with their position in the wrapper's frame (`Box`: the part's centre less `getGeometricalCenter()`).
- `sensorSolid` and `sensorLog`: the local `sensor_solid`, and the solid `sensor_log` is made of.

**Environment and error exits:**

- `worldFound` (both values in `Init`) is whether the logical volume store holds the world volume.
- `Materials` is the set of names the `materials_` map holds.
- A thrown `ModuleError` ends the build in `"error"`, with what was registered so far.

**Actions:**

| Action | Code |
|---|---|
| `BuildWrapper` | lines 80-112, with the world-volume `ModuleError` |
| `BuildImplants` | 121-185: an implant box per cell in a multi-union (`ImplantBox` is the node transform of lines 149-152 added to the union's placement at line 174), the material lookup and its `ModuleError`, and the subtraction |
| `BuildSensor` | 187-216 |
| `BuildChip` | 224-244, only if the chip has a thickness |
| `BuildSupport` | 253-306: one layer, with its hole and the material `ModuleError` |
| `SupportsDone` | 307-311 |

The hybrid branch (310-384) is not taken: the model is not a `HybridPixelDetectorModel`.

**Fairness.** `BuilderSpec` has weak fairness on the whole next-state relation, for the same reason as `DetectorModel`.

### `MC_ConfigMerge.tla`, `MC_GeometryBuilder.tla`: the instances

**Merge instance:**

- two keys and two values;
- a header that sets one key or both;
- unnamed sections that set one key or both, so that a later section overrides an earlier one and the header;
- named sections, up to four sections in any order.

**Builder instance:**

- a 2x1 grid of 8x8 pixels, 8 thick;
- with and without an implant depth of 4, an unknown implant material, a left excess of 8 and a chip;
- up to two support layers from four kinds: a sensor layer, a chip layer with a hole and material `"G10"`, an absolute layer that sticks out, and a layer of an unknown material.

`SymmetricHeaders` (a 2x2 grid of 16 pixels with offset implants) and
`AsymmetricHeaders` serve the two violation runs.

**Refinement instance** (`MC_DetectorModel`): the geometry run's headers plus one that
sets only the grid and the pitch, so that every default of construction is taken. Also
the geometry run's sections plus a `"top"` section, so that an invalid location is
rejected. At most three sections.

### `GeometryModel.tla` and `DetectorModelRefinement.tla`: what the model promises

`GeometryModel` is the abstract specification of the three `DetectorModel` components,
written from spec sections 3, 4.1-4.3 and 7. Each operation is one atomic step:

- `Construct` stores a model that satisfies the section 3 invariants (`Valid`);
- `Reject` fails with one error kind of section 7 and exposes no model;
- `GetSize` returns, at once, the support stack in closed form (`StackOf`, with
  `DepthBefore` a recursive function) and the envelope (`EnvelopeOf`): the corners of
  the sensor, the chip and every layer, mirrored in x and y about the declared centre
  and summed in z.

`DetectorModelRefinement` extends `DetectorModel` and maps its state onto these
variables with `INSTANCE GeometryModel WITH`:

| Abstract | Detailed |
|---|---|
| `status` | `pc` when it is `"ready"` or `"failed"`, otherwise `"constructing"` |
| `error` | `err.kind` once construction failed |
| `model` | `m` once construction is `"ready"`, otherwise `EmptyModel` |
| `query`, `stack`, `envelope` | `"done"`, `layers` and `size` once `getSize()` has returned (`qpc = "done"`) |

Every block of the constructor and every loop iteration of `getSupportLayers()` and
`getSize()` is a stutter. `Constructed` is `Construct`, a throwing read or check is
`Reject`, and `SizeEnd` is `GetSize`. The refinement property `AbstractSpec` is
`Abstract!SafetySpec /\ Abstract!Completion`. The weak fairness of the abstract `Spec`
appears as the completion it brings about, because TLC cannot evaluate its `ENABLED`
over mapped variables.

### `DetectorModel_proofs.tla` and the other proof modules: the theorems

`DetectorModel_proofs.tla` extends `DetectorModel`, `WellFoundedInduction` and `TLAPS`.
Every other proof module extends the module it proves things about, and the proof
modules it builds on:

- `DetectorModel_stack_proofs.tla` extends `DetectorModel_proofs`. It proves `NoOverlap`.
- `DetectorModel_envelope_proofs.tla` extends `DetectorModel_stack_proofs`. It proves `EnvelopeContains`.
- `GeometryBuilder_proofs.tla` extends `GeometryBuilder` and `DetectorModel_proofs`. It proves `BuilderTypeOK`.
- `GeometryBuilder_complete_proofs.tla` extends `GeometryBuilder_proofs` and `DetectorModel_stack_proofs`. It proves `BuildComplete`.
- `GeometryBuilder_wrapper_proofs.tla` extends `GeometryBuilder_complete_proofs` and `DetectorModel_envelope_proofs`. It proves `WrapperContainsCovered`.
- `ConfigMerge_proofs.tla` extends `ConfigMerge`. It proves `ConfigTypeOK`.

Each theorem is also a property a run checks. Section 4 gives the arguments.

## 3. Runs

| Run | Config | Properties | What it shows |
|---|---|---|---|
| construction | `DetectorModel_construction.cfg` | `TypeOK`, `ModelValid`, `Termination` | Every failing read of every block is reached, and the implant bounds are hit on both sides. A model is only returned when it satisfies spec section 3: the bounds, the cell containment with `fabs`, and the locations. Construction and `getSize()` always finish. 32,478 states. |
| geometry | `DetectorModel_geometry.cfg` | `StackMatchesReference`, `NoOverlap`, `EnvelopeContains` | Every sequence of up to three layers (5 kinds), on 8 headers. The computed centres equal the closed form of section 4.2. Stacked layers do not overlap each other or the sensor or chip. The getSize box centred on the geometrical centre contains every part, including an absolute layer that sticks out on one side. 24,048 states. |
| merge | `ConfigMerge_merge.cfg` | `ConfigTypeOK`, `MergeResult` | For every sequence of up to four sections, the result is the merged global section followed by the named sections in order, and the merge matches the last-writer reference. 3,868 states. |
| build | `GeometryBuilder_build.cfg` | `BuilderTypeOK`, `WrapperContainsCovered`, `BuildComplete` | When the pixel grid lies in the sensor, every volume the builder places lies in the wrapper box of `getSize()`: implants, sensor, chip and supports, with asymmetric excess and an absolute layer sticking out. This checks the placements against `getGeometricalCenter()`. A build that finishes has registered exactly the parts the model has: implants only with a depth, a chip only with a thickness, and every support layer placed in order at its stacked centre. Every `ModuleError` exit is reached. 12,900 states. |
| narrow_sensor | `GeometryBuilder_narrow_sensor.cfg` | `WrapperContains` (expected violation) | The constructor accepts `sensor_excess_left` and `sensor_excess_right` -4 (lines 31-35). On a 2x2 grid of 8, `getSize()` makes the sensor and the wrapper 8x16x8: every box is a valid `G4Box`, but 8 narrower on x than the 16-wide pixel grid. The implants placed on the grid (lines 149-174) reach x = ±6, out of the wrapper's half-width 4, the Geant4 mother volume. Spec section 3 describes the excess as extending the sensor beyond the grid. Recorded as a spec gap; `WrapperContainsCovered` states the property under the condition the spec implies. The model does not represent Geant4's rejection of a box with a zero half-length (an excess that cancels a whole dimension), so the instance keeps every dimension positive. |
| implant_shift | `GeometryBuilder_implant_shift.cfg` | `ImplantsInCells` (expected violation) | With `sensor_excess_left` 8 and `right` 0, the implants land 4 out of their 8-wide pixel cells. The union is placed at `getSensorCenter()` while its nodes are laid out about the grid centre (line 174). With a symmetric excess TLC finds no violation, including for offset implants; that was a one-off run of `ImplantsInCells` on `SymmetricHeaderConfigs` (84 states), not a recorded run. Recorded as a code bug. |
| sensor_solid | `GeometryBuilder_sensor_solid.cfg` | `SensorExcised` (expected violation) | The implant subtraction is computed, but `sensor_log` is made of `sensor_box` (line 188). The implant volumes therefore overlap the sensor volume, against the comment of line 127. Recorded as a code bug. |
| refinement | `DetectorModel_refinement.cfg` | `AbstractSpec` | Under the refinement mapping, every behaviour of the constructor, `getSupportLayers()` and `getSize()` is one of `GeometryModel`. No model is visible before construction ends or after it fails. The stored model is valid. `getSize()` returns exactly the closed-form stack and the mirrored envelope, and both operations finish. 31,014 states. |
| zero_thickness | `DetectorModel_zero_thickness.cfg` | `StrictlyFarther` (expected violation) | The code accepts a layer of thickness 0 (line 69). Two such sensor layers get the same centre, so section 4.2's "strictly farther" fails. Recorded as a spec gap. |

**Why the bounds are enough:**

- Up to three layers give every relative order of two stacked layers of one location around a layer of the other location or an absolute one. That is the interleaving the accumulators must survive.
- One support section suffices for the construction run, because every section is read by the same block and the loop itself is covered by the geometry run.

Every property has a mutant in `PROJECT.json` that TLC kills under the run's own
configuration:

| Mutant | Plausible bug | Property it breaks |
|---|---|---|
| `ReadSupportSkipping` | the loop skips a section | `TypeOK` |
| `ImplantExceedsCellNoFabs` | the containment test without `fabs` | `ModelValid` |
| `ConstructedLate` | off-by-one loop end | `Termination` |
| `StackStepAdvanceFirst` | advance before place | `StackMatchesReference` |
| `StackBeginNoChip` | chip offset without the chip | `NoOverlap` |
| `SizeEndTrueExtent` | a true, unmirrored x/y extent | `EnvelopeContains` |
| `LoopStepSkipping` | the loop steps over a section | `ConfigTypeOK` |
| `FinishAppending` | the global section is appended instead of prepended | `MergeResult` |
| `ReadSupportSkipping` | (as above) | `BuilderTypeOK` |
| `BoxFromCenter` | placing parts relative to `getCenter()` | `WrapperContainsCovered` |
| `SizeEndTrueExtent` | (as above) | `AbstractSpec` |
| `SupportsDoneEarly` | stopping the support loop one layer early | `BuildComplete` |

## 4. Proofs

The theorems are in the seven proof modules of section 2. They hold for every value of
the constants. The `DetectorModel` theorems rest on its three named assumptions:

- `MaxSupportsAssumption`: a natural.
- `ConfigAssumption` says two things:
  - every value of a section has one of the five schemas;
  - every length but the pixel count is a multiple of 4.
  The second part stands for the exact `double` arithmetic of the code: it makes every halving in the model exact. Only `EnvelopeHoldsAll` needs it.
- `ThicknessAssumption`: thicknesses are not negative. The code does not check this (see the hazards). `StackedLayersDisjoint` needs it, and so do the theorems built on it.

- **`TypeCorrect == Spec => []TypeOK`.**
  - `TypeOK` is not inductive as it stands. `StackBegin` replaces `layers` by the model's layers while `k` is unchanged. The inductive invariant `TypeInv` adds that `k = 1` until `getSupportLayers()` has returned.
  - The proof has one lemma per action. The read lemmas carry it:
    - `FirstErrorNone`: a block whose first throwing read is none threw nothing. It is proved from the well-foundedness of `<` on the naturals (`WFMin`).
    - `ReadOK`: a read that throws nothing finds the schema it asked for.
    - `PayloadType`, `GetType`: the payload of such a read has the schema's type.
  - Together they show that no field is stored before its schema is checked.
- **`ConstructedModelValid == Spec => []ModelValid`.**
  - `ModelValid` speaks only of the `ready` state. The checks it rests on are made in earlier blocks.
  - The inductive invariant `ValidInv` says that from the block after each check on, the checked fields still pass it:
    - `SizeFits` from `implant_offset` on;
    - `OffsetFits` from `chip` on.
  - `LaterBlocksValid` and `QueriesValid` show the later steps write other fields. The location invariant follows from the type of the layers: `Layer.location \in Locations`, kept by the check at line 73.

- **`MergeTypeCorrect == Spec => []ConfigTypeOK`** (`ConfigMerge_proofs.tla`).
  - It rests on `SectionsAssumption`: headers are functions and sections are records of a name and a function.
  - The invariant is inductive as it stands.
  - The lemmas are these:
    - `HeaderConfig`, `SectionConfig`: every header, and every section's keys, is a configuration over the reader's keys and values.
    - `MergeConfig`: `Configuration::merge` of two configurations is one.
    - `AppendSeq`, `PrependSeq`: the two ways the result grows keep it a sequence of the reader's sections and the merged one.

- **`BuilderTypeCorrect == BuilderSpec => []BuilderTypeOK`** (`GeometryBuilder_proofs.tla`).
  - `BuilderTypeOK` is not inductive. It bounds `supIdx` by `Len(layers)`, but `layers` is only stable once `getSize()` has returned. Before that, `StackBegin` resets it while the builder could be anywhere.
  - The inductive invariant `BuilderInv` adds three facts to `TypeInv` of the model proofs:
    - the builder leaves `"wrapper"` only after `qpc = "done"`;
    - `supIdx = 0` while the builder is at `"wrapper"`;
    - the type of the builder's own variables.
  - The proof has one lemma per builder action, plus `ModelStepInv` for the model steps the builder interleaves with. A model step changes no builder variable, so it can only disturb the `supIdx` bound, and the second and third facts rule that out.
  - The solids are typed by an explicit set `SolidKinds`.

- **`StackedLayersDisjoint == Spec => []NoOverlap`** (`DetectorModel_stack_proofs.tla`).
  - `NoOverlap` speaks only of the finished stack. The loop of lines 156-165 builds it one layer at a time.
  - The inductive invariant `StackInv` states the loop invariant for the layers placed so far (`PlacedStacked`, the stacked indices below `j`):
    - `sOff` never rises above the sensor's back face, and `cOff` never falls below the chip's front face;
    - every placed sensor layer lies between the back face and `sOff`, and every placed chip layer between the front face and `cOff`;
    - no two placed layers overlap.
  - `StackInv` needs three more facts:
    - `ThicknessOK`: every thickness stored is not negative, from `ThicknessAssumption`. It is why the offsets move away from the detector.
    - `qpc # "idle" => pc = "ready"`: the constructor cannot change the model under a running query.
    - `Stacked => j = Len(layers) + 1`: at the end every layer has been placed.
  - `StackStepStackInv` carries the argument. A new sensor layer's top face is the old `sOff`, which is below every earlier sensor layer and above every chip layer. A chip layer is the mirror case. An absolute layer is not stacked.
- **`EnvelopeHoldsAll == Spec => []EnvelopeContains`** (`DetectorModel_envelope_proofs.tla`).
  - On x and y the argument is direct. The size is twice the larger one-sided extent about `getCenter()`, which is also the geometrical centre's x and y.
  - On z, `getGeometricalCenter()` halves `max.z + min.z`. The halving loses nothing only when both are even. With an odd sum, the box would end one unit below `max.z`.
  - The inductive invariant `EnvInv` adds to `StackInv`:
    - `ModelQuad`, `LayersQuad`: the thicknesses and absolute offsets stored are multiples of 4, from `ConfigAssumption`;
    - once stacking starts, `sOff` and `cOff` are even, and so is every face of a placed layer (`FacesEven`);
    - from `SizeBase` on, `max.z` and `min.z` are even, and `min` and `max` bound the sensor, the chip and every layer the loop of lines 131-140 has taken (`Within`);
    - when `getSize()` returns, `size` is `SizeOf` of that `max` and `min`.
  - `EnvelopeArith` turns `Within` into the containment.
- **`BuildCompleteCorrect == BuilderSpec => []BuildComplete`** (`GeometryBuilder_complete_proofs.tla`).
  - `BuildComplete` speaks only of the `"built"` state. The inductive invariant `CompleteInv` states what is true before each block of `build()`:
    - `StagedObjects`: the objects registered are those of the blocks already run;
    - `SupportsPlaced`: `supports_phys` has one entry per layer handled, each at the layer's centre less the geometrical centre, and the loop ends only past the last layer.
  - `CompleteInv` also includes `BuilderInv` and `StackInv`. The builder reads `layers`, `m`, `hi` and `lo` across many steps, and `ModelDoneStable` shows that no model step changes them once `qpc = "done"`. `StackInv` contributes that the constructor has then finished.

- **`WrapperHoldsParts == BuilderSpec => []WrapperContainsCovered`** (`GeometryBuilder_wrapper_proofs.tla`).
  - `WrapperContains` is false in general (run narrow_sensor), so the theorem states it under `GridInSensor`, a condition on the stored pitch, grid and sensor size. It holds for every model the constructor can produce, including negative excesses: then the implication is trivially true, and TLC shows the consequent can fail.
  - The inductive invariant `WrapInv` joins `CompleteInv`, `EnvInv` and `ValidInv` with three more facts:
    - `PlanarQuad`, `LayersPlanar`: the pitch, the excesses, the implant sizes and offsets and the layers' x/y sizes are multiples of 4, from `ConfigAssumption`, so every halving of the builder is exact;
    - `PlacedBoxes`: every box placed is the box of an implant cell, of the sensor or of the chip, and `supports_phys` holds the layers' sizes.
  - The argument, for each axis: the sensor, the chip and each layer lie within the envelope (`PartsInside`, from `EnvInv`, with `BoxInside` doing the arithmetic of even lengths). Each implant lies inside its pixel cell, by `SizeFits`/`OffsetFits` of `ValidInv`, so inside the `n*p` grid, so inside the sensor when `GridInSensor` holds (`NodeInSensor`). The triangle inequality (`AbsSum`) chains the implant-in-sensor and sensor-in-wrapper bounds (`ImplantInside`).
  - `BuilderModelStep` shows that a builder step is a step of the model's `Next` or leaves the model unchanged, so the model lemmas carry over to the composed specification.

What stays with TLC:

- **Liveness.** `Termination` is out of the prover's reach.
- **The refinement** `AbstractSpec`. `GeometryModel` states the stack through the recursive function `DepthBefore`, and the stepwise accumulators of `getSupportLayers()` equal it only by induction over the layers.
- **`StackMatchesReference`.** It compares each offset with the closed form `ThicknessBefore`, a recursive function. Proving the loop equal to it needs induction over the layers, which the installed provers cannot instantiate.
- **`MergeResult`** of `ConfigMerge`. It is stated with `SelectSeq`, which the provers cannot expand.

## 5. Not modelled, and the plan

**Not modelled:**

- **Geant4 toolkit:** external native library, out of scope (spec section 1).
- **Configuration file grammar:** out of scope (spec section 1); only typed values are modelled.
- **Hybrid bump bonds** (`DetectorConstructionG4.cpp:310-384`): `HybridPixelDetectorModel` is not under `src/`.
- **The builder loop over several detectors:** each detector is built independently of the others, from its own model. What one detector's build leaves behind when a later one throws is part of the partial-failure hazard; no requirement is stated for it.
- **Materials looked up with `operator[]`** (`"world_material"`, `"silicon"`): these insert a null material instead of failing. Listed as a hazard.

**Plan for the next sittings:**

1. Proofs:
   - `MergeResult` for every number of sections, restated without `SelectSeq` (the named prefix and the merged global section as explicit functions);
   - the non-temporal part of the refinement: every detailed step maps to a `GeometryModel` step or a stutter, for a bounded number of layers.
2. In the builder, whether a failed build should leave its objects registered, if a requirement for it can be found in the code's users.
