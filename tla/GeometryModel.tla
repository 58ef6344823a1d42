------------------------------ MODULE GeometryModel ------------------------------
(***************************************************************************)
(* What the detector model promises its consumers, as spec sections 3,    *)
(* 4.1-4.3 and 7 state it, with each operation one atomic step.           *)
(*                                                                         *)
(* Construction is all-or-nothing: it either fails with an error of the   *)
(* taxonomy, exposing no model, or stores a model that satisfies the     *)
(* section 3 invariants.  getSize() on a stored model returns, at once,   *)
(* the support layers placed by the stacking rule of section 4.2 in      *)
(* closed form and the envelope of section 4.3: the corners of every     *)
(* element, x and y mirrored about the declared centre, z summed.         *)
(*                                                                         *)
(* DetectorModel, which does each of these in many steps, implements this *)
(* specification (DetectorModelRefinement).                               *)
(***************************************************************************)
EXTENDS Integers, Sequences

CONSTANT NoModel   \* what the model reads as before construction has stored one

VARIABLES
    status,   \* "constructing", "ready" or "failed"
    error,    \* the kind of error construction failed with, or "none"
    model,    \* the stored fields; NoModel unless construction succeeded
    query,    \* "idle", or "done" once getSize() has returned
    stack,    \* the support layers, with their centres, getSize() placed
    envelope  \* the size getSize() returned

avars == <<status, error, model, query, stack, envelope>>

Axes == {"x", "y", "z"}
Locations == {"sensor", "chip", "absolute"}
Origin == [x |-> 0, y |-> 0, z |-> 0]
ErrorKinds == {"MissingKey", "InvalidKey", "InvalidValue"}

Magnitude(a) == IF a < 0 THEN -a ELSE a
Larger(a, b) == IF a >= b THEN a ELSE b
Greatest(S) == CHOOSE v \in S : \A w \in S : w <= v
Least(S) == CHOOSE v \in S : \A w \in S : v <= w
Shift(p, q) == [a \in Axes |-> p[a] + q[a]]

\* Section 3: the invariants every constructed model satisfies.
Valid(mo) ==
    /\ mo.implantSize.x <= mo.pixelSize.x
    /\ mo.implantSize.y <= mo.pixelSize.y
    /\ mo.implantSize.z <= mo.sensorThickness
    /\ Magnitude(mo.implantOffset.x) + mo.implantSize.x \div 2 <= mo.pixelSize.x \div 2
    /\ Magnitude(mo.implantOffset.y) + mo.implantSize.y \div 2 <= mo.pixelSize.y \div 2
    /\ \A n \in 1..Len(mo.supportLayers) : mo.supportLayers[n].location \in Locations

(***************************************************************************)
(* The base geometry of a model (section 6 getters): the declared centre  *)
(* is the centre of the pixel grid, whose pixel (0,0) is at the origin;   *)
(* the sensor is the grid widened by the excesses, the chip lies on it.  *)
(***************************************************************************)
CenterOf(mo) ==
    [x |-> (mo.nPixels.x * mo.pixelSize.x) \div 2 - mo.pixelSize.x \div 2,
     y |-> (mo.nPixels.y * mo.pixelSize.y) \div 2 - mo.pixelSize.y \div 2, z |-> 0]
SensorOf(mo) ==
    [center |-> Shift(CenterOf(mo), [x |-> (mo.excess.right - mo.excess.left) \div 2,
                                     y |-> (mo.excess.top - mo.excess.bottom) \div 2,
                                     z |-> 0]),
     size |-> [x |-> mo.nPixels.x * mo.pixelSize.x + mo.excess.left + mo.excess.right,
               y |-> mo.nPixels.y * mo.pixelSize.y + mo.excess.top + mo.excess.bottom,
               z |-> mo.sensorThickness]]
ChipOf(mo) ==
    [center |-> [SensorOf(mo).center EXCEPT !.z = mo.sensorThickness \div 2
                                                  + mo.chipThickness \div 2],
     size |-> [SensorOf(mo).size EXCEPT !.z = mo.chipThickness]]

\* Section 4.2: the thickness of the layers before layer n at location loc.
DepthBefore(mo, loc, n) ==
    LET L == mo.supportLayers
        f[p \in 0..Len(L)] ==
            IF p = 0 THEN 0
            ELSE f[p - 1] + (IF L[p].location = loc THEN L[p].size.z ELSE 0)
    IN f[n - 1]

\* Section 4.2: sensor layers below the sensor and the sensor layers before
\* them, chip layers above the chip and theirs, absolute ones where declared.
StackOf(mo) ==
    LET L == mo.supportLayers
        Z(n) == CASE L[n].location = "sensor" ->
                       -(mo.sensorThickness \div 2) - DepthBefore(mo, "sensor", n)
                         - L[n].size.z \div 2
                  [] L[n].location = "chip" ->
                       mo.sensorThickness \div 2 + mo.chipThickness
                         + DepthBefore(mo, "chip", n) + L[n].size.z \div 2
                  [] OTHER -> L[n].offset.z
    IN [n \in 1..Len(L) |->
          [L[n] EXCEPT !.center = Shift(CenterOf(mo), [L[n].offset EXCEPT !.z = Z(n)])]]

\* Section 4.3: the envelope of the sensor, the chip and every support layer.
EnvelopeOf(mo) ==
    LET E == {SensorOf(mo), ChipOf(mo)} \cup {StackOf(mo)[n] : n \in 1..Len(mo.supportLayers)}
        c == CenterOf(mo)
        hi(a) == Greatest({e.center[a] + e.size[a] \div 2 : e \in E})
        lo(a) == Least({e.center[a] - e.size[a] \div 2 : e \in E})
    IN [x |-> 2 * Larger(hi("x") - c.x, c.x - lo("x")),
        y |-> 2 * Larger(hi("y") - c.y, c.y - lo("y")),
        z |-> (hi("z") - c.z) + (c.z - lo("z"))]

-----------------------------------------------------------------------------
Init ==
    /\ status = "constructing"
    /\ error = "none"
    /\ model = NoModel
    /\ query = "idle"
    /\ stack = << >>
    /\ envelope = Origin

\* Section 4.1: construction stores a model satisfying section 3 ...
Construct ==
    /\ status = "constructing"
    /\ status' = "ready"
    /\ Valid(model)'
    /\ UNCHANGED <<error, query, stack, envelope>>

\* ... or fails with one error of section 7 and exposes no model.
Reject ==
    /\ status = "constructing"
    /\ status' = "failed"
    /\ error' \in ErrorKinds
    /\ UNCHANGED <<model, query, stack, envelope>>

\* getSize() on the stored model, with the getSupportLayers() call it makes.
GetSize ==
    /\ status = "ready"
    /\ query = "idle"
    /\ query' = "done"
    /\ stack' = StackOf(model)
    /\ envelope' = EnvelopeOf(model)
    /\ UNCHANGED <<status, error, model>>

Next == Construct \/ Reject \/ GetSize

\* Construction and the query each complete (section 5: no suspension).
Spec == Init /\ [][Next]_avars /\ WF_avars(Next)

\* The steps Spec allows, without its fairness.
SafetySpec == Init /\ [][Next]_avars

\* What the fairness of Spec brings about: construction fails, or it stores
\* a model and getSize() returns.
Completion == <>(status = "failed" \/ query = "done")

=============================================================================
