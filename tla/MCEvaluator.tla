---------------------------- MODULE MCEvaluator ----------------------------
(***************************************************************************)
(* Values for the constant of Evaluator: what SubmitPOV passes for full    *)
(* and delta scans, what SubmitPatch passes, and what the job runner       *)
(* passes for a patch with a trigger, with and without the patch tests.    *)
(***************************************************************************)
EXTENDS EvaluatorInPipeline

AllInputs ==
    {i \in [trigger : BOOLEAN, base : BOOLEAN, patch : BOOLEAN, skipTests : BOOLEAN] :
        /\ i.trigger \/ i.patch
        /\ i.base => i.trigger
        /\ i.skipTests => i.patch}
=============================================================================
