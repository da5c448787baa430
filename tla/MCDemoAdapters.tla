--------------------------- MODULE MCDemoAdapters ---------------------------
(***************************************************************************)
(* Two runs, of one process or of two, on one path or on two, one of them  *)
(* with every kind of task, dataset and backend, the other a rerun of it   *)
(* or something else: the checks, shared and separate generators, reruns.  *)
(***************************************************************************)
EXTENDS DemoAdapters

CONSTANTS r1, r2

Run(task, seed, backend, dropout, dir, every, sampleEvery) ==
    [settings |-> TRUE, dropsCaptions |-> FALSE, task |-> task, base |-> "synthetic", shift |-> "constant",
     quant |-> "none", backend |-> backend, precision |-> "F32", seed |-> seed, rank |-> 2, alpha |-> 4,
     dropout |-> dropout, steps |-> 2, checkpointEvery |-> every, sampleEvery |-> sampleEvery,
     dir |-> dir, name |-> <<<<"lora">>>>, process |-> "server"]

First == Run(Classification, 7, "ndarray", TRUE, "out", 2, 1)

Wrong == {[First EXCEPT !.settings = FALSE], [First EXCEPT !.dropsCaptions = TRUE],
          [First EXCEPT !.task = FlowMatching], [First EXCEPT !.quant = "int8"],
          [First EXCEPT !.task = FlowMatching, !.sampleEvery = 0, !.shift = "resolution"],
          [First EXCEPT !.backend = "candle"], [First EXCEPT !.precision = "F16"],
          [First EXCEPT !.backend = "cuda"]}

MCConfigs ==
    (r1 :> {First, [First EXCEPT !.dropout = FALSE, !.rank = 0, !.name = <<<<"lora">>, <<"v1">>>>],
            Run(FlowMatching, 7, "ndarray", FALSE, "out", 2, 0),
            Run(Classification, 7, "wgpu", FALSE, "out", 0, 2)})
    @@
    (r2 :> Wrong \cup
           {Run(Classification, 7, "ndarray", TRUE, "other", 3, 0),
            [Run(Classification, 9, "ndarray", FALSE, "out", 2, 2) EXCEPT !.process = "again"],
            [Run(FlowMatching, 7, "ndarray", TRUE, "out", 2, 0) EXCEPT !.process = "again", !.steps = 0],
            [First EXCEPT !.base = "mnist", !.rank = 3, !.name = <<<<"lora">>, <<"v2">>>>, !.process = "again", !.precision = "F32"],
            [Run(FlowMatching, 9, "wgpu", FALSE, "other", 2, 0) EXCEPT !.precision = "F16"]})
=============================================================================
