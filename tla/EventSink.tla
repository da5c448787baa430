----------------------------- MODULE EventSink -----------------------------
(***************************************************************************)
(* What stands behind the sink a trainer calls (event.rs): the surfaces    *)
(* that follow its events one by one.                                      *)
(*                                                                         *)
(*   - the command line's PhaseLog, which decides the phase updates that   *)
(*     earn a line of scrollback (crates/loractl-cli/src/cli.rs);          *)
(*   - StepBench, which times the window between two Step events           *)
(*     (crates/loractl-core/src/bench.rs).                                 *)
(*                                                                         *)
(* The sink is called synchronously, so emitting an event and having every *)
(* surface observe it is one step (Emit).  Wall time is abstracted to the  *)
(* step that stamped it; message texts to a tag; -vv, -q and whether the   *)
(* bar is drawn are left out, as they select where a line goes and not     *)
(* which line.  `snapshot` is what docs/api/events.md tells a client to    *)
(* keep: the last counted report of each phase.                            *)
(***************************************************************************)
EXTENDS Integers

VARIABLES
  log,       \* PhaseLog: the update logged last
  bench,     \* StepBench
  snapshot,  \* per phase, the last `done` and `total` it reported
  lines,     \* history: per phase, lines logged
  reports,   \* history: per phase, reports subject to the throttle
  aside      \* history: was anything but a step done since the last Step event?

sinkVars == <<log, bench, snapshot, lines, reports, aside>>

PhaseNames == {"encode", "dataset", "load", "quantize", "merge", "inject"}

Details ==
  {"scanning", "encoding", "cached", "ready", "summary", "vae",
   "text encoder", "mmdit", "skeleton", "site", "adapter", "sites", "mnist", ""}

---------------------------------------------------------------------------
\* Events.  A phase without counters has total 0.

Event(type, name, detail, done, total, step) ==
  [type |-> type, name |-> name, detail |-> detail,
   done |-> done, total |-> total, step |-> step]

Phase(name, detail) == Event("phase", name, detail, 0, 0, 0)
Counted(name, detail, done, total) ==
  Event("phase", name, detail, done, total, 0)
AtStep(type, step) == Event(type, "load", "", 0, 0, step)
Started  == AtStep("started", 0)
Warning  == AtStep("warning", 0)
Finished == AtStep("finished", 0)

---------------------------------------------------------------------------
\* PhaseLog.  Decile 11 stands for None, name "" for "nothing logged yet".

NoDecile == 11

\* Mutant: the division before the multiplication.
WholeDecile(done, total) ==
  IF total = 0 THEN NoDecile ELSE (done \div total) * 10

Decile(done, total) ==
  IF total = 0 THEN NoDecile
  ELSE LET d == (done * 10) \div total IN IF d > 10 THEN 10 ELSE d

ShouldLog(e) ==
  \/ log.name # e.name
  \/ e.total > 0 /\ (Decile(e.done, e.total) # log.decile \/ e.done = e.total)
  \/ e.total = 0 /\ e.detail # log.detail

\* `at` is history: the count on the line.
Logged(e) ==
  [name |-> e.name, detail |-> e.detail, decile |-> Decile(e.done, e.total),
   at |-> e.done]

---------------------------------------------------------------------------
\* StepBench.  A window is opened by the Step event `last` (0: none) and
\* closed by the next one.

WarmupSteps == 1

NoSample == [opened |-> 0, step |-> 0, counted |-> FALSE, index |-> 0, aside |-> FALSE]
FreshBench ==
  [last |-> 0, contaminated |-> FALSE, timed |-> 0, sample |-> NoSample]

IsCounted(index, contaminated) == index >= WarmupSteps /\ ~contaminated

\* The sample a Step event closes; `aside` is history.
Sampled(step) ==
  [opened |-> bench.last, step |-> step,
   counted |-> IsCounted(bench.timed, bench.contaminated),
   index |-> bench.timed, aside |-> aside]

\* The first Step only opens a window.
Opened(step) == [bench EXCEPT !.last = step, !.contaminated = FALSE]

\* Mutant: the contamination of a window is never reset.
StayDirty(step) ==
  [last |-> step, contaminated |-> bench.contaminated,
   timed |-> bench.timed + 1, sample |-> Sampled(step)]

\* Each later one closes a window and opens the next.
Timed(step) ==
  [last |-> step, contaminated |-> FALSE,
   timed |-> bench.timed + 1, sample |-> Sampled(step)]

Recorded(e) ==
  CASE e.type = "started" -> FreshBench
    [] e.type = "step" /\ bench.last = 0 -> Opened(e.step)
    [] e.type = "step" /\ bench.last # 0 -> Timed(e.step)
    [] e.type \in {"checkpoint", "sample"} ->
         [bench EXCEPT !.contaminated = TRUE]
    [] OTHER -> bench

---------------------------------------------------------------------------

NoCount == [done |-> 0, total |-> 0]

SinkInit ==
  /\ log = [name |-> "", detail |-> "", decile |-> NoDecile, at |-> 0]
  /\ bench = FreshBench
  /\ snapshot = [n \in PhaseNames |-> NoCount]
  /\ lines = [n \in PhaseNames |-> 0]
  /\ reports = [n \in PhaseNames |-> 0]
  /\ aside = FALSE

ObservePhase(e) ==
  /\ snapshot' = IF e.total > 0
                 THEN [snapshot EXCEPT ![e.name] =
                         [done |-> e.done, total |-> e.total]]
                 ELSE snapshot
  /\ reports' = IF e.total > 0 /\ e.detail # "encoding"
                THEN [reports EXCEPT ![e.name] = @ + 1] ELSE reports
  /\ IF ShouldLog(e)
     THEN log' = Logged(e) /\ lines' = [lines EXCEPT ![e.name] = @ + 1]
     ELSE UNCHANGED <<log, lines>>

\* sink(e)
Emit(e) ==
  /\ bench' = Recorded(e)
  /\ aside' = (e.type # "step" /\ (aside \/ e.type = "phase"))
  /\ IF e.type = "phase" THEN ObservePhase(e)
     ELSE UNCHANGED <<snapshot, reports, log, lines>>

\* A file is written; the event that says so, if any, follows.
Write == aside' = TRUE /\ UNCHANGED <<log, bench, snapshot, lines, reports>>

Quiet == UNCHANGED sinkVars

---------------------------------------------------------------------------

Count == [done : Nat, total : Nat]

SinkTypeOK ==
  /\ log \in [name : PhaseNames \cup {""}, detail : Details,
              decile : 0 .. NoDecile, at : Nat]
  /\ bench \in [last : Nat, contaminated : BOOLEAN, timed : Nat,
                sample : [opened : Nat, step : Nat, counted : BOOLEAN,
                          index : Nat, aside : BOOLEAN]]
  /\ snapshot \in [PhaseNames -> Count]
  /\ lines \in [PhaseNames -> Nat]
  /\ reports \in [PhaseNames -> Nat]
  /\ aside \in BOOLEAN

=============================================================================
