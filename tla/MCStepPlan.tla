----------------------------- MODULE MCStepPlan -----------------------------
(***************************************************************************)
(* Images larger and smaller than a 64-pixel square, one of them with the  *)
(* 49-pixel side whose cover scale f64 rounds down, one under a grid step; *)
(* a folder that fills a bucket with a whole and a short chunk.            *)
(***************************************************************************)
EXTENDS StepPlan

MCSize == <<Box(49, 49), Box(200, 90), Box(64, 64), Box(90, 200), Box(60, 30),
            Box(130, 120), Box(112, 112), Box(40, 8), Box(60, 58)>>

MCFolders == {{}, {1, 3, 4, 6}, {2, 4, 5, 8}, {1, 3, 5, 9}, {6}}

Schedule(kind, warmup, minLr, gammaInverse, stepSize) ==
  [kind |-> kind, warmup |-> warmup, minLr |-> minLr,
   gammaInverse |-> gammaInverse, stepSize |-> stepSize]

MCSchedules == {Schedule("constant", 2, 0, 0, 0),
                Schedule("linear", 0, 10, 0, 0),
                Schedule("cosine", 3, 0, 0, 0),
                Schedule("exponential", 1, 30, 2, 0),
                Schedule("step", 2, 5, 2, 2),
                Schedule("linear", 1, 90, 0, 0),
                Schedule("constant", 7, 0, 0, 0)}

Plan(resolution, grid, min, noUpscale, batchSize, dropout, schedule) ==
  [resolution |-> resolution, grid |-> grid, min |-> min, noUpscale |-> noUpscale,
   batchSize |-> batchSize, dropout |-> dropout, schedule |-> schedule]

MCConfigs ==
  {Plan(64, FALSE, 0, FALSE, 2, "none", s) : s \in MCSchedules}
    \cup {Plan(64, grid, 0, TRUE, batchSize, dropout, Schedule("cosine", 2, 10, 0, 0)) :
            grid \in BOOLEAN, batchSize \in {0, 2, 3}, dropout \in {"some", "all"}}
    \cup {Plan(72, FALSE, 0, FALSE, 1, "none", Schedule("constant", 0, 0, 0, 0)),
          Plan(0, FALSE, 0, TRUE, 1, "none", Schedule("constant", 0, 0, 0, 0)),
          Plan(64, TRUE, 64, FALSE, 1, "none", Schedule("constant", 0, 0, 0, 0)),
          Plan(64, FALSE, 32, FALSE, 1, "none", Schedule("constant", 0, 0, 0, 0))}

MCDrawn == {<<1, 2>>, <<3, 1>>, <<4, 1>>, <<4, 2>>, <<6, 1>>}
=============================================================================
