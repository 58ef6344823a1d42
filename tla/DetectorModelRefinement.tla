------------------------- MODULE DetectorModelRefinement -------------------------
(***************************************************************************)
(* DetectorModel implements GeometryModel.  The refinement mapping shows  *)
(* the abstract state in the detailed one: the constructor's blocks and   *)
(* the iterations of getSize() and getSupportLayers() are stuttering     *)
(* steps, Constructed is the abstract Construct, a throw is Reject, and   *)
(* SizeEnd, the return of getSize(), is GetSize.                          *)
(***************************************************************************)
EXTENDS DetectorModel

Abstract == INSTANCE GeometryModel
              WITH NoModel <- EmptyModel,
                   status <- IF pc \in {"ready", "failed"} THEN pc ELSE "constructing",
                   error <- IF pc = "failed" THEN err.kind ELSE "none",
                   model <- IF pc = "ready" THEN m ELSE EmptyModel,
                   query <- IF qpc = "done" THEN "done" ELSE "idle",
                   stack <- IF qpc = "done" THEN layers ELSE << >>,
                   envelope <- IF qpc = "done" THEN size ELSE Origin

(***************************************************************************)
(* The constructor, getSupportLayers() and getSize() of DetectorModel.cpp *)
(* together behave as spec sections 4.1-4.3 and 7 say: no model is        *)
(* exposed before construction ends or after it fails, the stored model   *)
(* satisfies section 3, and getSize() returns the closed-form stacking    *)
(* and the mirrored-x/y, summed-z envelope of the stored model; each of   *)
(* them finishes.  The fairness of Abstract!Spec is stated through the    *)
(* completion it implies, Abstract!Completion: its ENABLED, over the      *)
(* mapped variables, is beyond what TLC evaluates.                        *)
(***************************************************************************)
AbstractSpec == Abstract!SafetySpec /\ Abstract!Completion

=============================================================================
