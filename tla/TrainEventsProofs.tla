------------------------- MODULE TrainEventsProofs -------------------------
(***************************************************************************)
(* TLAPS proofs about TrainEvents, for every set of configurations: any    *)
(* number of examples, sites, steps and any checkpoint cadence.            *)
(***************************************************************************)
EXTENDS TrainEvents, FiniteSetTheorems, TLAPS

---------------------------------------------------------------------------
\* The throttle.

LEMMA StrideCovers ==
  ASSUME NEW total \in Nat
  PROVE  Stride(total) \in Nat \ {0} /\ 100 * Stride(total) >= total
BY DEF Stride

LEMMA DivisionIsExact ==
  ASSUME NEW k \in Nat, NEW s \in Nat \ {0}, k % s = 0
  PROVE  k \div s \in Nat /\ k = s * (k \div s)
BY Z3

LEMMA SmallQuotient ==
  ASSUME NEW s \in Nat \ {0}, NEW j \in Nat, s * j < 100 * s
  PROVE  j \in 0 .. 99
<1>1. ASSUME j >= 100
      PROVE  s * j >= s * 100
  <2>1. PICK d \in Nat : j = 100 + d
    BY <1>1
  <2>2. s * j = s * 100 + s * d /\ s * d \in Nat
    BY <2>1
  <2>3. QED
    BY <2>2
<1>2. QED
  BY <1>1

Due(total) == {k \in 0 .. total - 1 : EmitEvery(k, total)}

\* A counted phase reports at most a hundred items and the last one, whatever
\* its size, reports each item of a small one, and always the last.  (The
\* claim of diffusion_trainer.rs:743, tested there at six sizes.)
THEOREM ReportsCapped ==
  ASSUME NEW total \in Nat \ {0}
  PROVE  /\ IsFiniteSet(Due(total)) /\ Cardinality(Due(total)) <= 101
         /\ total <= 100 => Due(total) = 0 .. total - 1
         /\ total - 1 \in Due(total)
<1> DEFINE s == Stride(total)
           Grid == {s * j : j \in 0 .. 99}
           f == [j \in 0 .. 99 |-> s * j]
<1>1. s \in Nat \ {0} /\ 100 * s >= total
  BY StrideCovers
<1>2. Due(total) \subseteq Grid \cup {total - 1}
  <2> SUFFICES ASSUME NEW k \in 0 .. total - 1, EmitEvery(k, total), k # total - 1
               PROVE  k \in Grid
    BY DEF Due
  <2>1. k % s = 0
    BY DEF EmitEvery
  <2> k \in Nat
    OBVIOUS
  <2> HIDE DEF s
  <2>2. k \div s \in Nat /\ k = s * (k \div s)
    BY <1>1, <2>1, DivisionIsExact, Zenon
  <2>3. s * (k \div s) < 100 * s
    BY <1>1, <2>2
  <2>4. k \div s \in 0 .. 99
    BY <1>1, <2>2, <2>3, SmallQuotient, Zenon
  <2>5. QED
    BY <2>2, <2>4
<1>3. IsFiniteSet(Grid) /\ Cardinality(Grid) <= 100
  <2>1. f \in Surjection(0 .. 99, Grid)
    BY DEF Surjection
  <2>2. IsFiniteSet(0 .. 99) /\ Cardinality(0 .. 99) = 100
    <3>1. 0 \in Int /\ 99 \in Int /\ ~(0 > 99) /\ 99 - 0 + 1 = 100
      OBVIOUS
    <3>2. /\ IsFiniteSet(0 .. 99)
          /\ Cardinality(0 .. 99) = IF 0 > 99 THEN 0 ELSE 99 - 0 + 1
      BY <3>1, FS_Interval, Zenon
    <3>3. QED
      BY <3>1, <3>2, Zenon
  <2>3. IsFiniteSet(Grid) /\ Cardinality(Grid) <= Cardinality(0 .. 99)
    BY <2>1, <2>2, FS_Surjection
  <2>4. QED
    BY <2>2, <2>3
<1>4. IsFiniteSet(Grid \cup {total - 1}) /\ Cardinality(Grid \cup {total - 1}) <= 101
  <2>1. Cardinality(Grid) \in Nat
    BY <1>3, FS_CardinalityType
  <2>2. QED
    BY <1>3, <2>1, FS_AddElement
<1>5. IsFiniteSet(Due(total)) /\ Cardinality(Due(total)) <= 101
  <2>1. /\ IsFiniteSet(Due(total))
        /\ Cardinality(Due(total)) <= Cardinality(Grid \cup {total - 1})
    BY <1>2, <1>4, FS_Subset
  <2>2. /\ Cardinality(Due(total)) \in Nat
        /\ Cardinality(Grid \cup {total - 1}) \in Nat
    BY <1>4, <2>1, FS_CardinalityType
  <2>3. QED
    BY <1>4, <2>1, <2>2
<1>6. ASSUME total <= 100
      PROVE  Due(total) = 0 .. total - 1
  <2>1. s = 1
    BY <1>6 DEF Stride
  <2>2. \A k \in 0 .. total - 1 : EmitEvery(k, total)
    BY <2>1 DEF EmitEvery
  <2>3. QED
    BY <2>2 DEF Due
<1>7. total - 1 \in Due(total)
  BY DEF Due, EmitEvery
<1>8. QED
  BY <1>5, <1>6, <1>7

---------------------------------------------------------------------------
\* Types.

Events ==
  [type : {"started", "phase", "step", "checkpoint", "sample", "warning", "finished"},
   name : PhaseNames, detail : Details, done : Nat, total : Nat, step : Nat]

\* What any action does to the surfaces.
SinkStep == (\E e \in Events : Emit(e)) \/ Write \/ Quiet

LEMMA EventTypes ==
  /\ \A n \in PhaseNames, d \in Details : Phase(n, d) \in Events
  /\ \A n \in PhaseNames, d \in Details, k, t \in Nat : Counted(n, d, k, t) \in Events
  /\ \A k \in Nat : /\ AtStep("step", k) \in Events
                    /\ AtStep("checkpoint", k) \in Events
                    /\ AtStep("sample", k) \in Events
  /\ Started \in Events /\ Warning \in Events /\ Finished \in Events
BY DEF Events, Phase, Counted, AtStep, Started, Warning, Finished, Event,
       PhaseNames, Details

LEMMA DecileType ==
  ASSUME NEW done \in Nat, NEW total \in Nat
  PROVE  Decile(done, total) \in 0 .. NoDecile
<1>1. CASE total = 0
  BY <1>1 DEF Decile, NoDecile
<1>2. CASE total # 0
  <2>1. (done * 10) \div total \in Nat
    BY <1>2, Z3
  <2>2. QED
    BY <1>2, <2>1 DEF Decile, NoDecile
<1>3. QED
  BY <1>1, <1>2

LEMMA RecordedType ==
  ASSUME SinkTypeOK, NEW e \in Events
  PROVE  Recorded(e) \in [last : Nat, contaminated : BOOLEAN, timed : Nat,
                sample : [opened : Nat, step : Nat, counted : BOOLEAN,
                          index : Nat, aside : BOOLEAN]]
<1> DEFINE Samples == [opened : Nat, step : Nat, counted : BOOLEAN,
                       index : Nat, aside : BOOLEAN]
           Benches == [last : Nat, contaminated : BOOLEAN, timed : Nat,
                       sample : Samples]
<1>1. bench \in Benches /\ aside \in BOOLEAN
  BY DEF SinkTypeOK
<1>2. FreshBench \in Benches
  BY DEF FreshBench, NoSample
<1>3. e.step \in Nat
  BY DEF Events
<1>4. Opened(e.step) \in Benches
  BY <1>1, <1>3 DEF Opened
<1>5. Sampled(e.step) \in Samples
  <2>1. IsCounted(bench.timed, bench.contaminated) \in BOOLEAN
    BY <1>1 DEF IsCounted
  <2>2. QED
    BY <1>1, <1>3, <2>1 DEF Sampled
<1>6. Timed(e.step) \in Benches
  <2>1. bench.timed + 1 \in Nat
    BY <1>1
  <2>2. QED
    BY <1>3, <1>5, <2>1, Zenon DEF Timed
<1>7. [bench EXCEPT !.contaminated = TRUE] \in Benches
  BY <1>1
<1>8. QED
  BY <1>1, <1>2, <1>4, <1>6, <1>7, Zenon DEF Recorded

LEMMA SinkTypes ==
  ASSUME SinkTypeOK, SinkStep
  PROVE  SinkTypeOK'
<1>1. ASSUME NEW e \in Events, Emit(e)
      PROVE  SinkTypeOK'
  <2>1. bench' \in [last : Nat, contaminated : BOOLEAN, timed : Nat,
                sample : [opened : Nat, step : Nat, counted : BOOLEAN,
                          index : Nat, aside : BOOLEAN]]
    BY <1>1, RecordedType DEF Emit
  <2>2. aside' \in BOOLEAN
    BY <1>1 DEF Emit
  <2>3. CASE e.type = "phase"
    <3>1. ObservePhase(e)
      BY <1>1, <2>3 DEF Emit
    <3>2. snapshot' \in [PhaseNames -> Count]
      BY <3>1 DEF ObservePhase, SinkTypeOK, Events, Count
    <3> e.name \in PhaseNames
      BY DEF Events
    <3>3. reports' \in [PhaseNames -> Nat]
      <4>1. reports \in [PhaseNames -> Nat]
        BY DEF SinkTypeOK
      <4>2. [reports EXCEPT ![e.name] = @ + 1] \in [PhaseNames -> Nat]
        BY <4>1
      <4>3. \/ reports' = [reports EXCEPT ![e.name] = @ + 1]
            \/ reports' = reports
        BY <3>1, Zenon DEF ObservePhase
      <4>4. QED
        BY <4>1, <4>2, <4>3, Zenon
    <3>4. Logged(e) \in [name : PhaseNames \cup {""}, detail : Details,
                         decile : 0 .. NoDecile, at : Nat]
      BY DecileType DEF Logged, Events
    <3>5. /\ log' \in [name : PhaseNames \cup {""}, detail : Details,
                       decile : 0 .. NoDecile, at : Nat]
          /\ lines' \in [PhaseNames -> Nat]
      <4>1. lines \in [PhaseNames -> Nat]
        BY DEF SinkTypeOK
      <4>2. [lines EXCEPT ![e.name] = @ + 1] \in [PhaseNames -> Nat]
        BY <4>1
      <4>3. \/ /\ log' = Logged(e)
               /\ lines' = [lines EXCEPT ![e.name] = @ + 1]
            \/ log' = log /\ lines' = lines
        BY <3>1, Zenon DEF ObservePhase
      <4>4. QED
        BY <3>4, <4>1, <4>2, <4>3, Zenon DEF SinkTypeOK
    <3>6. QED
      BY <2>1, <2>2, <3>2, <3>3, <3>5 DEF SinkTypeOK
  <2>4. CASE e.type # "phase"
    BY <1>1, <2>1, <2>2, <2>4 DEF Emit, SinkTypeOK
  <2>5. QED
    BY <2>3, <2>4
<1>2. CASE Write
  BY <1>2 DEF Write, SinkTypeOK
<1>3. CASE Quiet
  BY <1>3 DEF Quiet, sinkVars, SinkTypeOK
<1>4. QED
  BY <1>1, <1>2, <1>3 DEF SinkStep

\* The variables of the run itself.
RunTypeOK ==
  /\ job \in Diffusions \cup Demos
  /\ pc \in Places
  /\ item \in Nat
  /\ loaded \subseteq {"vae", "text encoder"}
  /\ step \in Nat

LEMMA JobTypes ==
  ASSUME job \in Diffusions \cup Demos
  PROVE  /\ job.trainer = "diffusion" =>
              /\ job \in Diffusions /\ job.examples \in Nat \ {0}
              /\ job.sites \in Nat /\ job.first \in Nat
         /\ job.trainer = "demo" => job \in Demos
BY JobsAssumption DEF DiffusionJobs, DemoJobs

LEMMA Successors ==
  ASSUME RunTypeOK
  PROVE  item + 1 \in Nat /\ step + 1 \in Nat
<1>1. item \in Nat /\ step \in Nat
  BY DEF RunTypeOK
<1>2. QED
  BY <1>1

LEMMA WarningOrQuiet ==
  ASSUME Emit(Warning) \/ Quiet
  PROVE  SinkStep
BY EventTypes, Zenon DEF SinkStep

LEMMA AnnounceTypes ==
  ASSUME RunTypeOK, NEW from, NEW to \in Places, NEW e \in Events,
         Announce(from, to, e)
  PROVE  SinkStep /\ RunTypeOK'
BY Zenon DEF SinkStep, RunTypeOK, Announce, Goto

LEMMA AdviseTypes ==
  ASSUME RunTypeOK, NEW from, NEW to \in Places, Advise(from, to)
  PROVE  SinkStep /\ RunTypeOK'
BY WarningOrQuiet, Zenon DEF RunTypeOK, Advise, Goto

\* A counted loop reports its item or is quiet.
LEMMA ReportTypes ==
  ASSUME RunTypeOK, NEW n \in PhaseNames, NEW d \in Details, NEW t \in Nat,
         Report(n, d, t)
  PROVE  SinkStep
BY EventTypes, Zenon DEF SinkStep, RunTypeOK, Report

LEMMA LoadTypes ==
  ASSUME RunTypeOK, NEW m \in {"vae", "text encoder"}, Load(m)
  PROVE  SinkStep /\ item' \in Nat /\ step' \in Nat
         /\ loaded' \subseteq {"vae", "text encoder"}
<1>1. "load" \in PhaseNames /\ m \in Details
  BY DEF PhaseNames, Details
<1>2. Emit(Phase("load", m)) /\ Phase("load", m) \in Events
  BY <1>1, EventTypes, Zenon DEF Load
<1>3. QED
  BY <1>2 DEF SinkStep, RunTypeOK, Load

LEMMA EncodingTypes ==
  ASSUME RunTypeOK, job.trainer = "diffusion", Encoding
  PROVE  SinkStep /\ RunTypeOK'
<1> USE DEF Places
<1>p. item + 1 \in Nat /\ step + 1 \in Nat
  BY Successors
<1>n. /\ {"encode", "load"} \subseteq PhaseNames
      /\ {"scanning", "cached", "encoding", "ready"} \subseteq Details
  BY DEF PhaseNames, Details
<1>j. job.examples \in Nat /\ item \in Nat
  BY JobTypes DEF RunTypeOK
<1>1. CASE Start
  BY <1>1, AnnounceTypes, EventTypes DEF Start
<1>2. CASE Preflight
  BY <1>2, AdviseTypes DEF Preflight
<1>3. CASE Scan
  <2>1. Phase("encode", "scanning") \in Events
    BY <1>n, EventTypes
  <2>2. QED
    BY <1>3, <2>1, AnnounceTypes DEF Scan
<1>4. CASE ReportEntry
  <2>1. \/ Report("encode", "cached", job.examples)
        \/ Emit(Counted("encode", "encoding", item, job.examples))
    BY <1>4 DEF ReportEntry
  <2>2. Counted("encode", "encoding", item, job.examples) \in Events
    BY <1>n, <1>j, EventTypes
  <2>3. SinkStep
    BY <1>n, <1>j, <2>1, <2>2, ReportTypes DEF SinkStep
  <2>4. QED
    BY <1>4, <2>3 DEF ReportEntry, Goto, RunTypeOK
<1>5. CASE Latent
  <2>1. SinkStep /\ item' \in Nat /\ step' \in Nat
        /\ loaded' \subseteq {"vae", "text encoder"}
    BY <1>5, LoadTypes DEF Latent, SinkStep, RunTypeOK
  <2>2. QED
    BY <1>5, <2>1 DEF Latent, Goto, RunTypeOK
<1>6. CASE Caption
  <2>1. SinkStep
    BY <1>6 DEF Caption, SinkStep
  <2>2. QED
    BY <1>6, <1>p, <2>1 DEF Caption, Goto, RunTypeOK
<1>7. CASE LoadForCaption
  <2>1. SinkStep /\ item' \in Nat /\ step' \in Nat
        /\ loaded' \subseteq {"vae", "text encoder"}
    BY <1>7, LoadTypes DEF LoadForCaption
  <2>2. QED
    BY <1>7, <2>1 DEF LoadForCaption, RunTypeOK
<1>8. CASE CacheReady
  <2>1. Counted("encode", "ready", job.examples, job.examples) \in Events
    BY <1>n, <1>j, EventTypes
  <2>2. QED
    BY <1>8, <2>1 DEF CacheReady, Goto, RunTypeOK, SinkStep
<1>9. CASE Dispatch
  <2>1. SinkStep
    BY <1>9, WarningOrQuiet, Zenon DEF Dispatch
  <2>2. QED
    BY <1>9, <2>1 DEF Dispatch, Goto, RunTypeOK
<1>10. QED
  BY <1>1, <1>2, <1>3, <1>4, <1>5, <1>6, <1>7, <1>8, <1>9 DEF Encoding

LEMMA PreparingTypes ==
  ASSUME RunTypeOK, job.trainer = "diffusion", Preparing
  PROVE  SinkStep /\ RunTypeOK'
<1> USE DEF Places
<1>p. item + 1 \in Nat /\ step + 1 \in Nat
  BY Successors
<1>n. /\ {"dataset", "load", "quantize", "merge", "inject"} \subseteq PhaseNames
      /\ {"cached", "summary", "mmdit", "skeleton", "site", "adapter", "sites"}
           \subseteq Details
  BY DEF PhaseNames, Details
<1>j. /\ job.examples \in Nat /\ job.sites \in Nat /\ job.first \in Nat
      /\ item \in Nat
  BY JobTypes DEF RunTypeOK
<1>e. /\ Phase("dataset", "summary") \in Events
      /\ Phase("load", "mmdit") \in Events
      /\ Phase("quantize", "skeleton") \in Events
      /\ Counted("quantize", "site", job.sites, job.sites) \in Events
      /\ Phase("merge", "adapter") \in Events
      /\ Phase("inject", "sites") \in Events
      /\ Warning \in Events
  BY <1>n, <1>j, EventTypes
<1>1. CASE PlanEntry
  <2>1. SinkStep
    BY <1>1, <1>n, <1>j, ReportTypes DEF PlanEntry
  <2>2. QED
    BY <1>1, <1>j, <1>p, <2>1 DEF PlanEntry, Goto, RunTypeOK
<1>2. CASE Summarize
  BY <1>2, <1>e, AnnounceTypes DEF Summarize
<1>3. CASE LoadDenoiser
  BY <1>3, <1>e, AnnounceTypes DEF LoadDenoiser
<1>4. CASE Skeleton
  BY <1>4, <1>e DEF Skeleton, Goto, RunTypeOK, SinkStep
<1>5. CASE QuantizeSite
  <2>1. SinkStep
    BY <1>5, <1>n, <1>j, ReportTypes DEF QuantizeSite
  <2>2. QED
    BY <1>5, <1>p, <2>1 DEF QuantizeSite, Goto, RunTypeOK
<1>6. CASE CloseQuantize
  BY <1>6, <1>e, AnnounceTypes DEF CloseQuantize
<1>7. CASE Account
  BY <1>7, <1>e, AnnounceTypes DEF Account
<1>8. CASE NoteChunks
  BY <1>8, AdviseTypes DEF NoteChunks
<1>9. CASE Merge
  BY <1>9, <1>e, AnnounceTypes DEF Merge
<1>10. CASE NoteScaling
  BY <1>10, AdviseTypes DEF NoteScaling
<1>11. CASE Merged
  BY <1>11, <1>e, AnnounceTypes DEF Merged
<1>12. CASE Inject
  BY <1>12, <1>e, AnnounceTypes DEF Inject
<1>13. CASE EnterLoop
  <2>1. SinkStep
    BY <1>13, WarningOrQuiet, Zenon DEF EnterLoop
  <2>2. QED
    BY <1>13, <1>j, <2>1 DEF EnterLoop, Goto, RunTypeOK
<1>14. QED
  BY <1>1, <1>2, <1>3, <1>4, <1>5, <1>6, <1>7, <1>8, <1>9, <1>10, <1>11, <1>12,
     <1>13 DEF Preparing

LEMMA SteppingTypes ==
  ASSUME RunTypeOK, Stepping
  PROVE  SinkStep /\ RunTypeOK'
<1> USE DEF Places
<1>p. item + 1 \in Nat /\ step + 1 \in Nat
  BY Successors
<1>e. /\ AtStep("step", step) \in Events
      /\ AtStep("checkpoint", step) \in Events
      /\ Finished \in Events
  BY EventTypes DEF RunTypeOK
<1>1. CASE TakeStep
  BY <1>1, <1>e, AnnounceTypes DEF TakeStep
<1>2. CASE Update
  <2>1. SinkStep
    BY <1>2, WarningOrQuiet, Zenon DEF Update
  <2>2. QED
    BY <1>2, <1>p, <2>1 DEF Update, Goto, RunTypeOK
<1>3. CASE Save
  BY <1>3 DEF Save, Goto, RunTypeOK, SinkStep
<1>4. CASE AnnounceCheckpoint
  <2>1. SinkStep
    BY <1>4, <1>e, Zenon DEF AnnounceCheckpoint, SinkStep
  <2>2. QED
    BY <1>4, <1>p, <2>1 DEF AnnounceCheckpoint, Goto, RunTypeOK
<1>5. CASE Export
  BY <1>5 DEF Export, Goto, RunTypeOK, SinkStep
<1>6. CASE Finish
  BY <1>6, <1>e, AnnounceTypes DEF Finish
<1>7. QED
  BY <1>1, <1>2, <1>3, <1>4, <1>5, <1>6 DEF Stepping

LEMMA DemoTypes ==
  ASSUME RunTypeOK, DemoNext
  PROVE  SinkStep /\ RunTypeOK'
<1> USE DEF Places
<1>p. item + 1 \in Nat /\ step + 1 \in Nat
  BY Successors
<1>n. "dataset" \in PhaseNames /\ {"mnist", "ready"} \subseteq Details
  BY DEF PhaseNames, Details
<1>e. /\ AtStep("step", step) \in Events
      /\ AtStep("checkpoint", step) \in Events
      /\ AtStep("sample", step) \in Events
      /\ Phase("dataset", "mnist") \in Events
      /\ Phase("dataset", "ready") \in Events
      /\ Started \in Events /\ Warning \in Events
  BY <1>n, EventTypes DEF RunTypeOK
<1>1. CASE DemoStart
  BY <1>1, <1>e, AnnounceTypes DEF DemoStart
<1>2. CASE DemoLoads
  BY <1>2, <1>e, AnnounceTypes DEF DemoLoads
<1>3. CASE DemoLoaded
  BY <1>3, <1>e, AnnounceTypes DEF DemoLoaded
<1>4. CASE DemoSynthetic
  BY <1>4, <1>e, AnnounceTypes DEF DemoSynthetic
<1>5. CASE DemoEnterLoop
  BY <1>5 DEF DemoEnterLoop, Goto, RunTypeOK, SinkStep
<1>6. CASE DemoStep
  BY <1>6, <1>e, AnnounceTypes DEF DemoStep
<1>7. CASE DemoSave
  BY <1>7 DEF DemoSave, Goto, RunTypeOK, SinkStep
<1>8. CASE DemoCheckpoint
  BY <1>8, <1>e, AnnounceTypes DEF DemoCheckpoint
<1>9. CASE DemoNoCheckpoint
  BY <1>9 DEF DemoNoCheckpoint, Goto, RunTypeOK, SinkStep
<1>10. CASE DemoWriteSample
  BY <1>10 DEF DemoWriteSample, Goto, RunTypeOK, SinkStep
<1>11. CASE DemoSample
  <2>1. SinkStep
    BY <1>11, <1>e, Zenon DEF DemoSample, SinkStep
  <2>2. QED
    BY <1>11, <1>p, <2>1 DEF DemoSample, Goto, RunTypeOK
<1>12. CASE DemoNoSample
  <2>1. SinkStep
    BY <1>12, Zenon DEF DemoNoSample, SinkStep
  <2>2. QED
    BY <1>12, <1>p, <2>1 DEF DemoNoSample, Goto, RunTypeOK
<1>13. CASE DemoExport
  BY <1>13 DEF DemoExport, Goto, RunTypeOK, SinkStep
<1>14. QED
  BY <1>1, <1>2, <1>3, <1>4, <1>5, <1>6, <1>7, <1>8, <1>9, <1>10, <1>11, <1>12,
     <1>13 DEF DemoNext

LEMMA NextTypes ==
  ASSUME RunTypeOK, Next
  PROVE  SinkStep /\ RunTypeOK'
<1>1. CASE Fail
  BY <1>1 DEF Fail, RunTypeOK, SinkStep, Places
<1>2. CASE Finish
  BY <1>2, SteppingTypes DEF Stepping
<1>3. QED
  BY <1>1, <1>2, EncodingTypes, PreparingTypes, SteppingTypes, DemoTypes DEF Next

LEMMA TypeInit == Init => TypeOK
<1> SUFFICES ASSUME Init PROVE TypeOK
  OBVIOUS
<1>1. SinkTypeOK
  <2>1. FreshBench \in [last : Nat, contaminated : BOOLEAN, timed : Nat,
                sample : [opened : Nat, step : Nat, counted : BOOLEAN,
                          index : Nat, aside : BOOLEAN]]
    BY DEF FreshBench, NoSample
  <2>2. NoCount \in Count
    BY DEF NoCount, Count
  <2>3. "" \in Details /\ NoDecile \in 0 .. NoDecile
    BY DEF Details, NoDecile
  <2>4. QED
    BY <2>1, <2>2, <2>3 DEF Init, SinkInit, SinkTypeOK
<1>2. QED
  BY <1>1 DEF Init, TypeOK, Places

LEMMA TypeStep == TypeOK /\ [Next]_vars => TypeOK'
<1> SUFFICES ASSUME TypeOK, [Next]_vars PROVE TypeOK'
  OBVIOUS
<1>0. RunTypeOK /\ SinkTypeOK
  BY DEF TypeOK, RunTypeOK
<1>1. CASE Next
  BY <1>0, <1>1, NextTypes, SinkTypes DEF TypeOK, RunTypeOK
<1>2. CASE UNCHANGED vars
  BY <1>2 DEF vars, runVars, sinkVars, TypeOK, SinkTypeOK
<1>3. QED
  BY <1>1, <1>2

\* Every variable keeps its type, the decile of the log and the samples of the
\* bench included.
THEOREM TypeCorrect == Spec => []TypeOK
BY TypeInit, TypeStep, PTL DEF Spec

---------------------------------------------------------------------------
\* The counts of the phases.

EncodePlaces == {"idle", "started", "advised", "encoding", "latent", "caption"}
Unquantized  == EncodePlaces \cup {"encoded", "planning", "planned", "skeleton"}
Quantized ==
  {"quantized", "accounted", "loaded", "merging", "scaled", "merged",
   "injected", "looping", "updating", "saving", "saved", "exported", "done"}
Encoded ==
  Quantized \cup {"encoded", "planning", "planned", "skeleton", "quantizing"}

\* Nothing has been reported beyond the item the loop is at.
Within(name, total) ==
  \/ snapshot[name] = NoCount
  \/ snapshot[name].total = total /\ snapshot[name].done <= item

Uncounted(name) == snapshot[name] = NoCount

EncodeInv ==
  /\ pc \in {"idle", "started", "advised"} => Uncounted("encode")
  /\ pc \in {"encoding", "latent", "caption"} =>
       Within("encode", job.examples) /\ item <= job.examples
  /\ pc \in {"latent", "caption"} => item < job.examples
  /\ pc \in {"idle", "started", "advised"} => item = 0
  /\ pc \in Encoded => Closes("encode")

DatasetInv ==
  /\ pc \in EncodePlaces \cup {"encoded"} => Uncounted("dataset")
  /\ pc = "planning" => Within("dataset", job.examples) /\ item <= job.examples

QuantizeInv ==
  /\ pc \in Unquantized => Uncounted("quantize")
  /\ pc = "skeleton" => job.sites > 0
  /\ pc = "quantizing" =>
       Within("quantize", job.sites) /\ item <= job.sites /\ job.sites > 0
  /\ pc \in Quantized => Closes("quantize")

CountInv ==
  /\ \A n \in PhaseNames : snapshot[n].done <= snapshot[n].total
  /\ job.trainer = "demo" => \A n \in PhaseNames : Uncounted(n)
  /\ job.trainer = "diffusion" => EncodeInv /\ DatasetInv /\ QuantizeInv

\* What the surfaces keep through everything but a count, a start or a step.
Silent == snapshot' = snapshot /\ bench'.last = bench.last

LEMMA SilentEvent ==
  ASSUME SinkTypeOK, NEW e, Emit(e), e.type \notin {"started", "step"},
         e.type = "phase" => ~(e.total > 0)
  PROVE  Silent
<1>1. bench' = bench \/ bench' = [bench EXCEPT !.contaminated = TRUE]
  BY Zenon DEF Emit, Recorded
<1>2. bench'.last = bench.last
  BY <1>1 DEF SinkTypeOK
<1>3. snapshot' = snapshot
  BY Zenon DEF Emit, ObservePhase
<1>4. QED
  BY <1>2, <1>3 DEF Silent

LEMMA SilentEvents ==
  ASSUME SinkTypeOK
  PROVE  /\ Emit(Warning) => Silent
         /\ Quiet => Silent
         /\ Write => Silent
         /\ Emit(Finished) => Silent
         /\ \A k : Emit(AtStep("checkpoint", k)) => Silent
         /\ \A k : Emit(AtStep("sample", k)) => Silent
         /\ \A n, d : Emit(Phase(n, d)) => Silent
         /\ Emit(Started) => snapshot' = snapshot /\ bench'.last = 0
         /\ \A k : Emit(AtStep("step", k)) => snapshot' = snapshot
<1>1. Emit(Warning) => Silent
  BY SilentEvent DEF Warning, AtStep, Event
<1>2. Quiet => Silent
  BY DEF Silent, Quiet, sinkVars
<1>3. Write => Silent
  BY DEF Silent, Write
<1>4. Emit(Finished) => Silent
  BY SilentEvent DEF Finished, AtStep, Event
<1>5. ASSUME NEW k, Emit(AtStep("checkpoint", k)) PROVE Silent
  BY <1>5, SilentEvent DEF AtStep, Event
<1>6. ASSUME NEW k, Emit(AtStep("sample", k)) PROVE Silent
  BY <1>6, SilentEvent DEF AtStep, Event
<1>7. ASSUME NEW n, NEW d, Emit(Phase(n, d)) PROVE Silent
  BY <1>7, SilentEvent DEF Phase, Event
<1>8. ASSUME Emit(Started) PROVE snapshot' = snapshot /\ bench'.last = 0
  BY <1>8 DEF Emit, Started, AtStep, Event, Recorded, FreshBench
<1>9. ASSUME NEW k, Emit(AtStep("step", k)) PROVE snapshot' = snapshot
  BY <1>9 DEF Emit, AtStep, Event
<1>10. QED
  BY <1>1, <1>2, <1>3, <1>4, <1>5, <1>6, <1>7, <1>8, <1>9

\* A report of done = k out of t.
Reported(n, k, t) ==
  /\ snapshot' = [snapshot EXCEPT ![n] = [done |-> k, total |-> t]]
  /\ bench' = bench

LEMMA CountedEvents ==
  ASSUME NEW n, NEW d, NEW k, NEW t \in Nat \ {0}, Emit(Counted(n, d, k, t))
  PROVE  Reported(n, k, t)
BY DEF Reported, Emit, Counted, Event, Recorded, ObservePhase

LEMMA ReportEvents ==
  ASSUME SinkTypeOK, NEW n, NEW d, NEW t \in Nat \ {0}, Report(n, d, t)
  PROVE  Silent \/ Reported(n, item, t)
BY SilentEvents, CountedEvents, Zenon DEF Report

Invs == EncodeInv /\ DatasetInv /\ QuantizeInv
Held == snapshot' = snapshot /\ job' = job

CountsAdvance == \A n \in PhaseNames : Advances(snapshot[n], snapshot'[n])

\* The numbers of a diffusion run.
LEMMA JobCounts ==
  ASSUME TypeOK, job.trainer = "diffusion"
  PROVE  /\ job.examples \in Nat \ {0} /\ job.sites \in Nat /\ item \in Nat
         /\ \A n \in PhaseNames : /\ snapshot[n] \in Count
                                  /\ snapshot[n].done \in Nat
                                  /\ snapshot[n].total \in Nat
BY JobTypes DEF TypeOK, SinkTypeOK, Count

LEMMA HeldKeeps ==
  ASSUME TypeOK, CountInv, Held, job.trainer = "diffusion" => Invs'
  PROVE  CountInv' /\ CountsAdvance
<1>1. \A n \in PhaseNames : snapshot[n].done \in Nat
  BY DEF TypeOK, SinkTypeOK, Count
<1>2. CountsAdvance
  BY <1>1 DEF CountsAdvance, Advances, Held
<1>3. QED
  BY <1>2, Zenon DEF CountInv, Held, Invs, Uncounted

LEMMA ReportedValues ==
  ASSUME TypeOK, NEW n \in PhaseNames, NEW k, NEW t, Reported(n, k, t)
  PROVE  /\ snapshot'[n] = [done |-> k, total |-> t]
         /\ \A m \in PhaseNames : m # n => snapshot'[m] = snapshot[m]
BY DEF Reported, TypeOK, SinkTypeOK

LEMMA ReportedKeeps ==
  ASSUME TypeOK, CountInv, NEW n \in PhaseNames, NEW k \in Nat, NEW t \in Nat,
         Reported(n, k, t), k <= t, job' = job, job.trainer = "diffusion",
         \/ snapshot[n] = NoCount
         \/ snapshot[n].total = t /\ snapshot[n].done <= k,
         Invs'
  PROVE  CountInv' /\ CountsAdvance
<1>1. /\ snapshot'[n] = [done |-> k, total |-> t]
      /\ \A m \in PhaseNames : m # n => snapshot'[m] = snapshot[m]
  BY ReportedValues
<1>2. \A m \in PhaseNames : snapshot[m].done \in Nat
  BY JobCounts
<1>3. CountsAdvance
  <2> SUFFICES ASSUME NEW m \in PhaseNames PROVE Advances(snapshot[m], snapshot'[m])
    BY DEF CountsAdvance
  <2>1. CASE m = n
    BY <1>1, <2>1 DEF Advances, NoCount
  <2>2. CASE m # n
    BY <1>1, <1>2, <2>2 DEF Advances
  <2>3. QED
    BY <2>1, <2>2
<1>4. \A m \in PhaseNames : snapshot'[m].done <= snapshot'[m].total
  BY <1>1 DEF CountInv
<1>5. job'.trainer # "demo"
  OBVIOUS
<1>6. QED
  BY <1>3, <1>4, <1>5, Zenon DEF CountInv, Invs


LEMMA EncodingCounts ==
  ASSUME TypeOK, CountInv, job.trainer = "diffusion", Encoding
  PROVE  CountInv' /\ CountsAdvance
<1> USE DEF EncodeInv, DatasetInv, QuantizeInv, EncodePlaces, Unquantized,
            Quantized, Encoded
<1>i. SinkTypeOK /\ Invs
  BY DEF TypeOK, CountInv, Invs
<1>j. /\ job.examples \in Nat \ {0} /\ job.sites \in Nat /\ item \in Nat
      /\ \A n \in PhaseNames : snapshot[n].done \in Nat
         /\ snapshot[n].total \in Nat
      /\ "encode" \in PhaseNames /\ "dataset" \in PhaseNames
      /\ "quantize" \in PhaseNames
  BY JobCounts DEF PhaseNames
<1>1. CASE Start
  <2>1. Held /\ pc = "idle" /\ pc' = "started" /\ item' = item
    BY <1>1, <1>i, SilentEvents DEF Start, Announce, Goto, Held, Silent
  <2>2. Invs'
    BY <1>i, <1>j, <2>1 DEF Held, Invs, Within, Uncounted, Closes, NoCount
  <2>3. QED
    BY <2>1, <2>2, HeldKeeps, Zenon
<1>2. CASE Preflight
  <2>1. Held /\ pc = "started" /\ pc' = "advised" /\ item' = item
    BY <1>2, <1>i, SilentEvents DEF Preflight, Advise, Goto, Held, Silent
  <2>2. Invs'
    BY <1>i, <1>j, <2>1 DEF Held, Invs, Within, Uncounted, Closes, NoCount
  <2>3. QED
    BY <2>1, <2>2, HeldKeeps, Zenon
<1>3. CASE Scan
  <2>1. Held /\ pc = "advised" /\ pc' = "encoding" /\ item' = item
    BY <1>3, <1>i, SilentEvents DEF Scan, Announce, Goto, Held, Silent
  <2>2. Invs'
    BY <1>i, <1>j, <2>1 DEF Held, Invs, Within, Uncounted, Closes, NoCount
  <2>3. QED
    BY <2>1, <2>2, HeldKeeps, Zenon
<1>4. CASE ReportEntry
  <2>1. /\ job' = job /\ pc = "encoding" /\ pc' = "latent"
        /\ item' = item /\ item < job.examples
        /\ \/ Report("encode", "cached", job.examples)
           \/ Emit(Counted("encode", "encoding", item, job.examples))
    BY <1>4 DEF ReportEntry, Goto
  <2>2. Held \/ Reported("encode", item, job.examples)
    BY <1>i, <1>j, <2>1, ReportEvents, CountedEvents DEF Held, Silent, Invs
  <2>3. CASE Held
    <3>1. Invs'
      BY <1>i, <1>j, <2>1, <2>3 DEF Held, Invs, Within, Uncounted, Closes, NoCount
    <3>2. QED
      BY <2>3, <3>1, HeldKeeps, Zenon
  <2>4. CASE Reported("encode", item, job.examples)
    <3>1. /\ snapshot'["encode"] = [done |-> item, total |-> job.examples]
          /\ \A m \in PhaseNames : m # "encode" => snapshot'[m] = snapshot[m]
      BY <1>j, <2>4, ReportedValues
    <3>2. Invs'
      BY <1>i, <1>j, <2>1, <3>1 DEF Invs, Within, Uncounted, Closes, NoCount
    <3>3. item <= job.examples /\ Within("encode", job.examples)
      BY <1>i, <1>j, <2>1 DEF Invs, Within, Uncounted
    <3>4. \/ snapshot["encode"] = NoCount
          \/ /\ snapshot["encode"].total = job.examples
             /\ snapshot["encode"].done <= item
      BY <1>i, <1>j, <2>1, <3>3 DEF Within
    <3>5. QED
      BY <1>j, <2>1, <2>4, <3>2, <3>3, <3>4, ReportedKeeps
  <2>5. QED
    BY <2>2, <2>3, <2>4
<1>5. CASE Latent
  <2>1. Held /\ pc = "latent" /\ pc' = "caption" /\ item' = item
    BY <1>5, <1>i, SilentEvents DEF Latent, Load, Goto, Held, Silent
  <2>2. Invs'
    BY <1>i, <1>j, <2>1 DEF Held, Invs, Within, Uncounted, Closes, NoCount
  <2>3. QED
    BY <2>1, <2>2, HeldKeeps, Zenon
<1>6. CASE Caption
  <2>1. Held /\ pc = "caption" /\ pc' = "encoding" /\ item' = item + 1
    BY <1>6, <1>i, SilentEvents DEF Caption, Goto, Held, Silent
  <2>2. Invs'
    BY <1>i, <1>j, <2>1 DEF Held, Invs, Within, Uncounted, Closes, NoCount
  <2>3. QED
    BY <2>1, <2>2, HeldKeeps, Zenon
<1>7. CASE LoadForCaption
  <2>1. Held /\ pc \in {"encoding", "caption"} /\ pc' = pc /\ item' = item
    BY <1>7, <1>i, SilentEvents DEF LoadForCaption, Load, Goto, Held, Silent
  <2>2. Invs'
    BY <1>i, <1>j, <2>1 DEF Held, Invs, Within, Uncounted, Closes, NoCount
  <2>3. QED
    BY <2>1, <2>2, HeldKeeps, Zenon
<1>8. CASE CacheReady
  <2>1. /\ job' = job /\ pc = "encoding" /\ pc' = "encoded"
        /\ item' = item /\ item = job.examples
        /\ Emit(Counted("encode", "ready", job.examples, job.examples))
    BY <1>8 DEF CacheReady, Goto
  <2>2. Reported("encode", job.examples, job.examples)
    BY <1>i, <1>j, <2>1, ReportEvents, CountedEvents DEF Held, Silent, Invs
  <2>3. /\ snapshot'["encode"] = [done |-> job.examples, total |-> job.examples]
        /\ \A m \in PhaseNames : m # "encode" => snapshot'[m] = snapshot[m]
    BY <1>j, <2>2, ReportedValues
  <2>4. Invs'
    BY <1>i, <1>j, <2>1, <2>3 DEF Invs, Within, Uncounted, Closes, NoCount
  <2>5. job.examples <= job.examples /\ Within("encode", job.examples)
    BY <1>i, <1>j, <2>1 DEF Invs, Within, Uncounted
  <2>6. \/ snapshot["encode"] = NoCount
        \/ /\ snapshot["encode"].total = job.examples
           /\ snapshot["encode"].done <= job.examples
    BY <1>i, <1>j, <2>1, <2>5 DEF Within
  <2>7. QED
    BY <1>j, <2>1, <2>2, <2>4, <2>5, <2>6, ReportedKeeps
<1>9. CASE Dispatch
  <2>1. Held /\ pc = "encoded" /\ pc' = "planning" /\ item' = 0
    BY <1>9, <1>i, SilentEvents DEF Dispatch, Goto, Held, Silent
  <2>2. Invs'
    BY <1>i, <1>j, <2>1 DEF Held, Invs, Within, Uncounted, Closes, NoCount
  <2>3. QED
    BY <2>1, <2>2, HeldKeeps, Zenon
<1>10. QED
  BY <1>1, <1>2, <1>3, <1>4, <1>5, <1>6, <1>7, <1>8, <1>9 DEF Encoding

LEMMA PreparingCounts ==
  ASSUME TypeOK, CountInv, job.trainer = "diffusion", Preparing
  PROVE  CountInv' /\ CountsAdvance
<1> USE DEF EncodeInv, DatasetInv, QuantizeInv, EncodePlaces, Unquantized,
            Quantized, Encoded
<1>i. SinkTypeOK /\ Invs
  BY DEF TypeOK, CountInv, Invs
<1>j. /\ job.examples \in Nat \ {0} /\ job.sites \in Nat /\ item \in Nat
      /\ \A n \in PhaseNames : snapshot[n].done \in Nat
         /\ snapshot[n].total \in Nat
      /\ "encode" \in PhaseNames /\ "dataset" \in PhaseNames
      /\ "quantize" \in PhaseNames
  BY JobCounts DEF PhaseNames
<1>1. CASE PlanEntry
  <2>1. /\ job' = job /\ pc = "planning" /\ pc' = "planning"
        /\ item' = item + 1 /\ item < job.examples
        /\ Report("dataset", "cached", job.examples)
    BY <1>1 DEF PlanEntry, Goto
  <2>2. Held \/ Reported("dataset", item, job.examples)
    BY <1>i, <1>j, <2>1, ReportEvents, CountedEvents DEF Held, Silent, Invs
  <2>3. CASE Held
    <3>1. Invs'
      BY <1>i, <1>j, <2>1, <2>3 DEF Held, Invs, Within, Uncounted, Closes, NoCount
    <3>2. QED
      BY <2>3, <3>1, HeldKeeps, Zenon
  <2>4. CASE Reported("dataset", item, job.examples)
    <3>1. /\ snapshot'["dataset"] = [done |-> item, total |-> job.examples]
          /\ \A m \in PhaseNames : m # "dataset" => snapshot'[m] = snapshot[m]
      BY <1>j, <2>4, ReportedValues
    <3>2. Invs'
      BY <1>i, <1>j, <2>1, <3>1 DEF Invs, Within, Uncounted, Closes, NoCount
    <3>3. item <= job.examples /\ Within("dataset", job.examples)
      BY <1>i, <1>j, <2>1 DEF Invs, Within, Uncounted
    <3>4. \/ snapshot["dataset"] = NoCount
          \/ /\ snapshot["dataset"].total = job.examples
             /\ snapshot["dataset"].done <= item
      BY <1>i, <1>j, <2>1, <3>3 DEF Within
    <3>5. QED
      BY <1>j, <2>1, <2>4, <3>2, <3>3, <3>4, ReportedKeeps
  <2>5. QED
    BY <2>2, <2>3, <2>4
<1>2. CASE Summarize
  <2>1. Held /\ pc = "planning" /\ pc' = "planned" /\ item' = item
    BY <1>2, <1>i, SilentEvents DEF Summarize, Announce, Goto, Held, Silent
  <2>2. Invs'
    BY <1>i, <1>j, <2>1 DEF Held, Invs, Within, Uncounted, Closes, NoCount
  <2>3. QED
    BY <2>1, <2>2, HeldKeeps, Zenon
<1>3. CASE LoadDenoiser
  <2>1. /\ Held /\ pc = "planned"
        /\ pc' = (IF job.sites > 0 THEN "skeleton" ELSE "loaded") /\ item' = item
    BY <1>3, <1>i, SilentEvents DEF LoadDenoiser, Announce, Goto, Held, Silent
  <2>2. Invs'
    BY <1>i, <1>j, <2>1 DEF Held, Invs, Within, Uncounted, Closes, NoCount
  <2>3. QED
    BY <2>1, <2>2, HeldKeeps, Zenon
<1>4. CASE Skeleton
  <2>1. Held /\ pc = "skeleton" /\ pc' = "quantizing" /\ item' = 0
    BY <1>4, <1>i, SilentEvents DEF Skeleton, Goto, Held, Silent
  <2>2. Invs'
    BY <1>i, <1>j, <2>1 DEF Held, Invs, Within, Uncounted, Closes, NoCount
  <2>3. QED
    BY <2>1, <2>2, HeldKeeps, Zenon
<1>5. CASE QuantizeSite
  <2>1. /\ job' = job /\ pc = "quantizing" /\ pc' = "quantizing"
        /\ item' = item + 1 /\ item < job.sites
        /\ Report("quantize", "site", job.sites)
    BY <1>5 DEF QuantizeSite, Goto
  <2>2. Held \/ Reported("quantize", item, job.sites)
    BY <1>i, <1>j, <2>1, ReportEvents, CountedEvents DEF Held, Silent, Invs
  <2>3. CASE Held
    <3>1. Invs'
      BY <1>i, <1>j, <2>1, <2>3 DEF Held, Invs, Within, Uncounted, Closes, NoCount
    <3>2. QED
      BY <2>3, <3>1, HeldKeeps, Zenon
  <2>4. CASE Reported("quantize", item, job.sites)
    <3>1. /\ snapshot'["quantize"] = [done |-> item, total |-> job.sites]
          /\ \A m \in PhaseNames : m # "quantize" => snapshot'[m] = snapshot[m]
      BY <1>j, <2>4, ReportedValues
    <3>2. Invs'
      BY <1>i, <1>j, <2>1, <3>1 DEF Invs, Within, Uncounted, Closes, NoCount
    <3>3. item <= job.sites /\ Within("quantize", job.sites)
      BY <1>i, <1>j, <2>1 DEF Invs, Within, Uncounted
    <3>4. \/ snapshot["quantize"] = NoCount
          \/ /\ snapshot["quantize"].total = job.sites
             /\ snapshot["quantize"].done <= item
      BY <1>i, <1>j, <2>1, <3>3 DEF Within
    <3>5. QED
      BY <1>j, <2>1, <2>4, <3>2, <3>3, <3>4, ReportedKeeps
  <2>5. QED
    BY <2>2, <2>3, <2>4
<1>6. CASE CloseQuantize
  <2>1. /\ job' = job /\ pc = "quantizing" /\ pc' = "quantized"
        /\ item' = item /\ item = job.sites
        /\ Emit(Counted("quantize", "site", job.sites, job.sites))
    BY <1>6 DEF CloseQuantize, Announce, Goto
  <2>2. Reported("quantize", job.sites, job.sites)
    BY <1>i, <1>j, <2>1, ReportEvents, CountedEvents DEF Held, Silent, Invs
  <2>3. /\ snapshot'["quantize"] = [done |-> job.sites, total |-> job.sites]
        /\ \A m \in PhaseNames : m # "quantize" => snapshot'[m] = snapshot[m]
    BY <1>j, <2>2, ReportedValues
  <2>4. Invs'
    BY <1>i, <1>j, <2>1, <2>3 DEF Invs, Within, Uncounted, Closes, NoCount
  <2>5. job.sites <= job.sites /\ Within("quantize", job.sites)
    BY <1>i, <1>j, <2>1 DEF Invs, Within, Uncounted
  <2>6. \/ snapshot["quantize"] = NoCount
        \/ /\ snapshot["quantize"].total = job.sites
           /\ snapshot["quantize"].done <= job.sites
    BY <1>i, <1>j, <2>1, <2>5 DEF Within
  <2>7. QED
    BY <1>j, <2>1, <2>2, <2>4, <2>5, <2>6, ReportedKeeps
<1>7. CASE Account
  <2>1. Held /\ pc = "quantized" /\ pc' = "accounted" /\ item' = item
    BY <1>7, <1>i, SilentEvents DEF Account, Announce, Goto, Held, Silent
  <2>2. Invs'
    BY <1>i, <1>j, <2>1 DEF Held, Invs, Within, Uncounted, Closes, NoCount
  <2>3. QED
    BY <2>1, <2>2, HeldKeeps, Zenon
<1>8. CASE NoteChunks
  <2>1. Held /\ pc = "accounted" /\ pc' = "loaded" /\ item' = item
    BY <1>8, <1>i, SilentEvents DEF NoteChunks, Advise, Goto, Held, Silent
  <2>2. Invs'
    BY <1>i, <1>j, <2>1 DEF Held, Invs, Within, Uncounted, Closes, NoCount
  <2>3. QED
    BY <2>1, <2>2, HeldKeeps, Zenon
<1>9. CASE Merge
  <2>1. Held /\ pc = "loaded" /\ pc' = "merging" /\ item' = item
    BY <1>9, <1>i, SilentEvents DEF Merge, Announce, Goto, Held, Silent
  <2>2. Invs'
    BY <1>i, <1>j, <2>1 DEF Held, Invs, Within, Uncounted, Closes, NoCount
  <2>3. QED
    BY <2>1, <2>2, HeldKeeps, Zenon
<1>10. CASE NoteScaling
  <2>1. Held /\ pc = "merging" /\ pc' = "scaled" /\ item' = item
    BY <1>10, <1>i, SilentEvents DEF NoteScaling, Advise, Goto, Held, Silent
  <2>2. Invs'
    BY <1>i, <1>j, <2>1 DEF Held, Invs, Within, Uncounted, Closes, NoCount
  <2>3. QED
    BY <2>1, <2>2, HeldKeeps, Zenon
<1>11. CASE Merged
  <2>1. Held /\ pc = "scaled" /\ pc' = "merged" /\ item' = item
    BY <1>11, <1>i, SilentEvents DEF Merged, Announce, Goto, Held, Silent
  <2>2. Invs'
    BY <1>i, <1>j, <2>1 DEF Held, Invs, Within, Uncounted, Closes, NoCount
  <2>3. QED
    BY <2>1, <2>2, HeldKeeps, Zenon
<1>12. CASE Inject
  <2>1. Held /\ pc \in {"loaded", "merged"} /\ pc' = "injected" /\ item' = item
    BY <1>12, <1>i, SilentEvents DEF Inject, Announce, Goto, Held, Silent
  <2>2. Invs'
    BY <1>i, <1>j, <2>1 DEF Held, Invs, Within, Uncounted, Closes, NoCount
  <2>3. QED
    BY <2>1, <2>2, HeldKeeps, Zenon
<1>13. CASE EnterLoop
  <2>1. Held /\ pc = "injected" /\ pc' = "looping" /\ item' = item
    BY <1>13, <1>i, SilentEvents DEF EnterLoop, Goto, Held, Silent
  <2>2. Invs'
    BY <1>i, <1>j, <2>1 DEF Held, Invs, Within, Uncounted, Closes, NoCount
  <2>3. QED
    BY <2>1, <2>2, HeldKeeps, Zenon
<1>14. QED
  BY <1>1, <1>2, <1>3, <1>4, <1>5, <1>6, <1>7, <1>8, <1>9, <1>10,
     <1>11, <1>12, <1>13 DEF Preparing

LEMMA SteppingCounts ==
  ASSUME TypeOK, CountInv, job.trainer = "diffusion", Stepping
  PROVE  CountInv' /\ CountsAdvance
<1> USE DEF EncodeInv, DatasetInv, QuantizeInv, EncodePlaces, Unquantized,
            Quantized, Encoded
<1>i. SinkTypeOK /\ Invs
  BY DEF TypeOK, CountInv, Invs
<1>j. /\ job.examples \in Nat \ {0} /\ job.sites \in Nat /\ item \in Nat
      /\ \A n \in PhaseNames : snapshot[n].done \in Nat
         /\ snapshot[n].total \in Nat
      /\ "encode" \in PhaseNames /\ "dataset" \in PhaseNames
      /\ "quantize" \in PhaseNames
  BY JobCounts DEF PhaseNames
<1>1. CASE TakeStep
  <2>1. Held /\ pc = "looping" /\ pc' = "updating" /\ item' = item
    BY <1>1, <1>i, SilentEvents DEF TakeStep, Announce, Goto, Held, Silent
  <2>2. Invs'
    BY <1>i, <1>j, <2>1 DEF Held, Invs, Within, Uncounted, Closes, NoCount
  <2>3. QED
    BY <2>1, <2>2, HeldKeeps, Zenon
<1>2. CASE Update
  <2>1. Held /\ pc = "updating" /\ pc' \in {"saving", "looping"} /\ item' = item
    BY <1>2, <1>i, SilentEvents DEF Update, Goto, Held, Silent
  <2>2. Invs'
    BY <1>i, <1>j, <2>1 DEF Held, Invs, Within, Uncounted, Closes, NoCount
  <2>3. QED
    BY <2>1, <2>2, HeldKeeps, Zenon
<1>3. CASE Save
  <2>1. Held /\ pc = "saving" /\ pc' = "saved" /\ item' = item
    BY <1>3, <1>i, SilentEvents DEF Save, Goto, Held, Silent
  <2>2. Invs'
    BY <1>i, <1>j, <2>1 DEF Held, Invs, Within, Uncounted, Closes, NoCount
  <2>3. QED
    BY <2>1, <2>2, HeldKeeps, Zenon
<1>4. CASE AnnounceCheckpoint
  <2>1. Held /\ pc = "saved" /\ pc' = "looping" /\ item' = item
    BY <1>4, <1>i, SilentEvents DEF AnnounceCheckpoint, Goto, Held, Silent
  <2>2. Invs'
    BY <1>i, <1>j, <2>1 DEF Held, Invs, Within, Uncounted, Closes, NoCount
  <2>3. QED
    BY <2>1, <2>2, HeldKeeps, Zenon
<1>5. CASE Export
  <2>1. Held /\ pc = "looping" /\ pc' = "exported" /\ item' = item
    BY <1>5, <1>i, SilentEvents DEF Export, Goto, Held, Silent
  <2>2. Invs'
    BY <1>i, <1>j, <2>1 DEF Held, Invs, Within, Uncounted, Closes, NoCount
  <2>3. QED
    BY <2>1, <2>2, HeldKeeps, Zenon
<1>6. CASE Finish
  <2>1. Held /\ pc = "exported" /\ pc' = "done" /\ item' = item
    BY <1>6, <1>i, SilentEvents DEF Finish, Announce, Goto, Held, Silent
  <2>2. Invs'
    BY <1>i, <1>j, <2>1 DEF Held, Invs, Within, Uncounted, Closes, NoCount
  <2>3. QED
    BY <2>1, <2>2, HeldKeeps, Zenon
<1>7. QED
  BY <1>1, <1>2, <1>3, <1>4, <1>5, <1>6 DEF Stepping

---------------------------------------------------------------------------
\* What one step does to the counts.

LEMMA DemoCounts ==
  ASSUME TypeOK, CountInv, job.trainer = "demo", DemoNext \/ Finish
  PROVE  CountInv' /\ CountsAdvance
<1>1. SinkTypeOK
  BY DEF TypeOK
<1>2. Held
  BY <1>1, SilentEvents
     DEF DemoNext, Finish, DemoStart, DemoLoads, DemoLoaded, DemoSynthetic,
         DemoEnterLoop, DemoStep, DemoSave, DemoCheckpoint, DemoNoCheckpoint,
         DemoWriteSample, DemoSample, DemoNoSample, DemoExport, Announce, Goto,
         Held, Silent
<1>3. QED
  BY <1>2, HeldKeeps

LEMMA FailCounts ==
  ASSUME TypeOK, CountInv, Fail
  PROVE  CountInv' /\ CountsAdvance
<1>1. Held /\ pc' = "failed"
  BY DEF Fail, Held, Quiet, sinkVars
<1>2. Invs'
  BY <1>1 DEF Invs, EncodeInv, DatasetInv, QuantizeInv, EncodePlaces, Unquantized,
              Quantized, Encoded
<1>3. QED
  BY <1>1, <1>2, HeldKeeps

LEMMA CountInit == Init => CountInv
<1> SUFFICES ASSUME Init PROVE CountInv
  OBVIOUS
<1>1. pc = "idle" /\ item = 0 /\ \A n \in PhaseNames : snapshot[n] = NoCount
  BY DEF Init, SinkInit
<1>2. "encode" \in PhaseNames /\ "dataset" \in PhaseNames /\ "quantize" \in PhaseNames
  BY DEF PhaseNames
<1>3. \A n \in PhaseNames : snapshot[n].done <= snapshot[n].total
  BY <1>1 DEF NoCount
<1>4. QED
  BY <1>1, <1>2, <1>3
     DEF CountInv, EncodeInv, DatasetInv, QuantizeInv, Uncounted, Within,
         EncodePlaces, Unquantized, Quantized, Encoded

LEMMA CountStep ==
  ASSUME TypeOK, CountInv, Next
  PROVE  CountInv' /\ CountsAdvance
BY EncodingCounts, PreparingCounts, SteppingCounts, DemoCounts, FailCounts, Zenon
   DEF Next

LEMMA CountStutter ==
  ASSUME CountInv, UNCHANGED vars
  PROVE  CountInv'
BY ZenonT(60) DEF vars, runVars, sinkVars, CountInv, EncodeInv, DatasetInv, QuantizeInv,
       Uncounted, Within, Closes

LEMMA CountInvariant == Spec => [](TypeOK /\ CountInv)
<1>1. Init => TypeOK /\ CountInv
  BY TypeInit, CountInit
<1>2. TypeOK /\ CountInv /\ [Next]_vars => (TypeOK /\ CountInv)'
  BY TypeStep, CountStep, CountStutter
<1>3. QED
  BY <1>1, <1>2, PTL DEF Spec

\* A count never goes back, its total never moves and it never exceeds it,
\* over every order of the encode, dataset and quantize reports, throttled,
\* closing and uncounted.
THEOREM CountsOnlyAdvance == Spec => CountersAdvance
<1>1. ASSUME TypeOK, CountInv, [Next]_vars
      PROVE  [\A n \in PhaseNames :
                /\ Advances(snapshot[n], snapshot'[n])
                /\ snapshot'[n].done <= snapshot'[n].total]_vars
  BY <1>1, CountStep, Zenon DEF CountsAdvance, CountInv
<1>2. QED
  BY <1>1, CountInvariant, PTL DEF Spec, CountersAdvance

---------------------------------------------------------------------------
\* The bench has seen no step while a phase that gates the loop is open.

Setup == Unquantized \cup {"quantizing"}

GateInv ==
  /\ job.trainer = "diffusion" /\ pc \in Setup => bench.last = 0
  /\ WorkClosesBeforeSteps

\* The steps before the loop stay before it and take no step of training.
Unmoved == bench'.last \in {bench.last, 0} /\ (pc' \in Setup => pc \in Setup)

LEMMA EncodingUnmoved ==
  ASSUME TypeOK, CountInv, job.trainer = "diffusion", Encoding
  PROVE  Unmoved
<1> USE DEF Setup, Unquantized, EncodePlaces
<1>h. SinkTypeOK /\ QuantizeInv
  BY Zenon DEF TypeOK, CountInv
<1>i. SinkTypeOK /\ (pc = "quantizing" => job.sites > 0)
  BY <1>h DEF QuantizeInv
<1>j. job.examples \in Nat \ {0} /\ job.sites \in Nat
  BY JobCounts
<1>1. CASE Start
  BY <1>1, <1>i, SilentEvents DEF Start, Announce, Goto, Silent, Unmoved
<1>2. CASE Preflight
  BY <1>2, <1>i, SilentEvents DEF Preflight, Advise, Goto, Silent, Unmoved
<1>3. CASE Scan
  BY <1>3, <1>i, SilentEvents DEF Scan, Announce, Goto, Silent, Unmoved
<1>4. CASE ReportEntry
  <2>1. \/ Report("encode", "cached", job.examples)
        \/ Emit(Counted("encode", "encoding", item, job.examples))
    BY <1>4 DEF ReportEntry, Goto
  <2>2. bench'.last = bench.last
    BY <1>i, <1>j, <2>1, SilentEvents, CountedEvents, ReportEvents DEF Silent, Reported
  <2>3. QED
    BY <1>4, <2>2 DEF ReportEntry, Goto, Unmoved
<1>5. CASE Latent
  BY <1>5, <1>i, SilentEvents DEF Latent, Load, Goto, Silent, Unmoved
<1>6. CASE Caption
  BY <1>6, <1>i, SilentEvents DEF Caption, Goto, Silent, Unmoved
<1>7. CASE LoadForCaption
  BY <1>7, <1>i, SilentEvents DEF LoadForCaption, Load, Goto, Silent, Unmoved
<1>8. CASE CacheReady
  <2>1. Emit(Counted("encode", "ready", job.examples, job.examples))
    BY <1>8 DEF CacheReady, Goto
  <2>2. bench'.last = bench.last
    BY <1>i, <1>j, <2>1, SilentEvents, CountedEvents, ReportEvents DEF Silent, Reported
  <2>3. QED
    BY <1>8, <2>2 DEF CacheReady, Goto, Unmoved
<1>9. CASE Dispatch
  BY <1>9, <1>i, SilentEvents DEF Dispatch, Goto, Silent, Unmoved
<1>10. QED
  BY <1>1, <1>2, <1>3, <1>4, <1>5, <1>6, <1>7, <1>8, <1>9 DEF Encoding

LEMMA PreparingUnmoved ==
  ASSUME TypeOK, CountInv, job.trainer = "diffusion", Preparing
  PROVE  Unmoved
<1> USE DEF Setup, Unquantized, EncodePlaces
<1>h. SinkTypeOK /\ QuantizeInv
  BY Zenon DEF TypeOK, CountInv
<1>i. SinkTypeOK /\ (pc = "quantizing" => job.sites > 0)
  BY <1>h DEF QuantizeInv
<1>j. job.examples \in Nat \ {0} /\ job.sites \in Nat
  BY JobCounts
<1>1. CASE PlanEntry
  <2>1. Report("dataset", "cached", job.examples)
    BY <1>1 DEF PlanEntry, Goto
  <2>2. bench'.last = bench.last
    BY <1>i, <1>j, <2>1, SilentEvents, CountedEvents, ReportEvents DEF Silent, Reported
  <2>3. QED
    BY <1>1, <2>2 DEF PlanEntry, Goto, Unmoved
<1>2. CASE Summarize
  BY <1>2, <1>i, SilentEvents DEF Summarize, Announce, Goto, Silent, Unmoved
<1>3. CASE LoadDenoiser
  BY <1>3, <1>i, SilentEvents DEF LoadDenoiser, Announce, Goto, Silent, Unmoved
<1>4. CASE Skeleton
  BY <1>4, <1>i, SilentEvents DEF Skeleton, Goto, Silent, Unmoved
<1>5. CASE QuantizeSite
  <2>1. pc = "quantizing" /\ Report("quantize", "site", job.sites)
    BY <1>5 DEF QuantizeSite, Goto
  <2>2. bench'.last = bench.last
    BY <1>i, <1>j, <2>1, SilentEvents, CountedEvents, ReportEvents DEF Silent, Reported
  <2>3. QED
    BY <1>5, <2>2 DEF QuantizeSite, Goto, Unmoved
<1>6. CASE CloseQuantize
  <2>1. pc = "quantizing" /\ Emit(Counted("quantize", "site", job.sites, job.sites))
    BY <1>6 DEF CloseQuantize, Announce, Goto
  <2>2. bench'.last = bench.last
    BY <1>i, <1>j, <2>1, SilentEvents, CountedEvents, ReportEvents DEF Silent, Reported
  <2>3. QED
    BY <1>6, <2>2 DEF CloseQuantize, Announce, Goto, Unmoved
<1>7. CASE Account
  BY <1>7, <1>i, SilentEvents DEF Account, Announce, Goto, Silent, Unmoved
<1>8. CASE NoteChunks
  BY <1>8, <1>i, SilentEvents DEF NoteChunks, Advise, Goto, Silent, Unmoved
<1>9. CASE Merge
  BY <1>9, <1>i, SilentEvents DEF Merge, Announce, Goto, Silent, Unmoved
<1>10. CASE NoteScaling
  BY <1>10, <1>i, SilentEvents DEF NoteScaling, Advise, Goto, Silent, Unmoved
<1>11. CASE Merged
  BY <1>11, <1>i, SilentEvents DEF Merged, Announce, Goto, Silent, Unmoved
<1>12. CASE Inject
  BY <1>12, <1>i, SilentEvents DEF Inject, Announce, Goto, Silent, Unmoved
<1>13. CASE EnterLoop
  BY <1>13, <1>i, SilentEvents DEF EnterLoop, Goto, Silent, Unmoved
<1>14. QED
  BY <1>1, <1>2, <1>3, <1>4, <1>5, <1>6, <1>7, <1>8, <1>9, <1>10,
     <1>11, <1>12, <1>13 DEF Preparing

LEMMA PastSetup ==
  ASSUME Stepping
  PROVE  pc' \notin Setup /\ pc' # "failed"
BY DEF Stepping, TakeStep, Update, Save, AnnounceCheckpoint, Export, Finish,
       Announce, Goto, Setup, Unquantized, EncodePlaces

\* A place of a diffusion run is in setup, past it, or failed.
LEMMA PlacesOfARun ==
  ASSUME Encoding \/ Preparing \/ Stepping
  PROVE  pc' \in Setup \cup Quantized
BY DEF Encoding, Preparing, Stepping, Start, Preflight, Scan, ReportEntry, Latent,
       Caption, LoadForCaption, CacheReady, Dispatch, PlanEntry, Summarize,
       LoadDenoiser, Skeleton, QuantizeSite, CloseQuantize, Account, NoteChunks,
       Merge, NoteScaling, Merged, Inject, EnterLoop, TakeStep, Update, Save,
       AnnounceCheckpoint, Export, Finish, Announce, Advise, Goto, Setup,
       Unquantized, EncodePlaces, Quantized

LEMMA GateStep ==
  ASSUME TypeOK, CountInv, CountInv', GateInv, Next
  PROVE  GateInv'
<1>1. CASE job.trainer = "diffusion" /\ (Encoding \/ Preparing \/ Stepping)
  <2>1. job' = job /\ pc' \in Setup \cup Quantized
    BY <1>1, PlacesOfARun
       DEF Encoding, Preparing, Stepping, Start, Preflight, Scan, ReportEntry,
           Latent, Caption, LoadForCaption, CacheReady, Dispatch, PlanEntry,
           Summarize, LoadDenoiser, Skeleton, QuantizeSite, CloseQuantize, Account,
           NoteChunks, Merge, NoteScaling, Merged, Inject, EnterLoop, TakeStep,
           Update, Save, AnnounceCheckpoint, Export, Finish, Announce, Advise, Goto
  <2>2. CASE pc' \in Setup
    <3>1. pc \in Setup /\ bench'.last \in {bench.last, 0}
      BY <1>1, <2>2, EncodingUnmoved, PreparingUnmoved, PastSetup, Zenon DEF Unmoved
    <3>2. bench'.last = 0
      BY <1>1, <3>1 DEF GateInv
    <3>3. QED
      BY <3>2 DEF GateInv, WorkClosesBeforeSteps
  <2>3. CASE pc' \in Quantized /\ pc' \notin Setup
    <3>1. Closes("encode")' /\ Closes("quantize")'
      BY <1>1, <2>1, <2>3 DEF CountInv, EncodeInv, QuantizeInv, Encoded
    <3>2. QED
      BY <2>3, <3>1, Zenon DEF GateInv, WorkClosesBeforeSteps
  <2>4. QED
    BY <2>1, <2>2, <2>3
<1>2. CASE job.trainer = "demo" /\ (DemoNext \/ Finish)
  <2>1. job' = job
    BY <1>2
       DEF DemoNext, Finish, DemoStart, DemoLoads, DemoLoaded, DemoSynthetic,
           DemoEnterLoop, DemoStep, DemoSave, DemoCheckpoint, DemoNoCheckpoint,
           DemoWriteSample, DemoSample, DemoNoSample, DemoExport, Announce, Goto
  <2>2. Closes("encode")' /\ Closes("quantize")'
    BY <1>2, <2>1 DEF CountInv, Uncounted, Closes, NoCount, PhaseNames
  <2>3. QED
    BY <1>2, <2>1, <2>2 DEF GateInv, WorkClosesBeforeSteps
<1>3. CASE Fail
  <2>1. pc' = "failed" /\ bench' = bench /\ snapshot' = snapshot
    BY <1>3 DEF Fail, Quiet, sinkVars
  <2>2. pc' \notin Setup
    BY <2>1 DEF Setup, Unquantized, EncodePlaces
  <2>3. QED
    BY <2>1, <2>2 DEF GateInv, WorkClosesBeforeSteps, Closes
<1>4. QED
  BY <1>1, <1>2, <1>3 DEF Next

\* When the first step is taken, a client that keeps the last counts has seen
\* the encode pass and the quantization close.
THEOREM WorkHasClosed == Spec => []WorkClosesBeforeSteps
<1>1. ASSUME Init PROVE GateInv
  <2>1. bench.last = 0
    BY <1>1 DEF Init, SinkInit, FreshBench
  <2>2. QED
    BY <2>1 DEF GateInv, WorkClosesBeforeSteps
<1>2. TypeOK /\ CountInv /\ (TypeOK /\ CountInv)' /\ GateInv /\ [Next]_vars => GateInv'
  <2>1. ASSUME GateInv, UNCHANGED vars PROVE GateInv'
    BY <2>1, Zenon
       DEF vars, runVars, sinkVars, GateInv, WorkClosesBeforeSteps, Closes
  <2>2. QED
    BY <2>1, GateStep
<1>3. GateInv => WorkClosesBeforeSteps
  BY DEF GateInv
<1>4. QED
  BY <1>1, <1>2, <1>3, CountInvariant, PTL DEF Spec

---------------------------------------------------------------------------
\* The windows of the bench.

Early ==
  Setup \cup {"quantized", "accounted", "loaded", "merging", "scaled", "merged",
              "injected", "downloading", "decoding", "demo", "demo ready"}

BetweenRounds == {"looping", "demo loop"}
AfterStep     == {"updating", "demo step"}

\* Whether the window that is open has a file written or a phase reported in it
\* is what the bench says of it, but between the file and the event that
\* announces it.
WindowInv ==
  /\ WindowIsOneStep
  /\ bench.last = 0 => bench.timed = 0
  /\ pc \in Early => bench.last = 0
  /\ pc \in {"looping", "demo loop"} /\ bench.last # 0 =>
       step = bench.last + 1 /\ (aside <=> bench.contaminated)
  /\ pc \in {"updating", "saving", "demo step"} =>
       step = bench.last /\ ~aside /\ ~bench.contaminated
  /\ pc \in {"saved", "demo saved"} => step = bench.last /\ aside
  /\ pc = "demo sampling" => step = bench.last /\ (aside <=> bench.contaminated)
  /\ pc = "demo sampled" => step = bench.last /\ aside

\* What the surfaces do through an action that takes no step of training.
Restful == Quiet \/ \E e \in Events : e.type # "step" /\ Emit(e)

Unopened == bench.last = 0 /\ bench.timed = 0

LEMMA RestfulEvents ==
  /\ Emit(Warning) => Restful
  /\ Quiet => Restful
  /\ Emit(Started) => Restful
  /\ \A n \in PhaseNames, d \in Details : Emit(Phase(n, d)) => Restful
  /\ \A n \in PhaseNames, d \in Details, k, t \in Nat :
       Emit(Counted(n, d, k, t)) => Restful
  /\ \A n \in PhaseNames, d \in Details, t \in Nat :
       item \in Nat /\ Report(n, d, t) => Restful
<1>1. /\ Warning.type # "step" /\ Started.type # "step"
      /\ \A n \in PhaseNames, d \in Details : Phase(n, d).type # "step"
      /\ \A n \in PhaseNames, d \in Details, k, t \in Nat :
           Counted(n, d, k, t).type # "step"
  BY DEF Warning, Started, Phase, Counted, AtStep, Event
<1>2. \A n \in PhaseNames, d \in Details, k, t \in Nat :
        Emit(Counted(n, d, k, t)) => Restful
  BY <1>1, EventTypes, Zenon DEF Restful
<1>3. \A n \in PhaseNames, d \in Details, t \in Nat :
        item \in Nat /\ Report(n, d, t) => Restful
  BY <1>2, Zenon DEF Report, Restful
<1>4. QED
  BY <1>1, <1>2, <1>3, EventTypes, Zenon DEF Restful

LEMMA RestIsUnopened ==
  ASSUME SinkTypeOK, Restful, Unopened
  PROVE  Unopened'
<1>1. CASE Quiet
  BY <1>1 DEF Quiet, sinkVars, Unopened
<1>2. ASSUME NEW e \in Events, e.type # "step", Emit(e)
      PROVE  Unopened'
  <2>1. \/ bench' = bench
        \/ bench' = [bench EXCEPT !.contaminated = TRUE]
        \/ bench' = FreshBench
    BY <1>2, Zenon DEF Emit, Recorded
  <2>2. CASE bench' = bench
    BY <2>2, Zenon DEF Unopened
  <2>3. CASE bench' = [bench EXCEPT !.contaminated = TRUE]
    <3>1. bench'.last = bench.last /\ bench'.timed = bench.timed
      BY <2>3 DEF SinkTypeOK
    <3>2. QED
      BY <3>1 DEF Unopened
  <2>4. CASE bench' = FreshBench
    BY <2>4 DEF Unopened, FreshBench
  <2>5. QED
    BY <2>1, <2>2, <2>3, <2>4
<1>3. QED
  BY <1>1, <1>2 DEF Restful

\* Before the loop no window is opened.
LEMMA EarlyWindows ==
  ASSUME TypeOK, WindowInv, pc \in Early, Restful,
         pc' \in Early \cup BetweenRounds
  PROVE  WindowInv'
<1>1. Unopened
  BY DEF WindowInv, Unopened
<1>2. Unopened'
  BY <1>1, RestIsUnopened DEF TypeOK
<1>3. bench'.timed = 0 /\ bench'.last = 0
  BY <1>2 DEF Unopened
<1>4. WindowIsOneStep'
  <2>1. ~(bench'.timed > 0)
    BY <1>3
  <2>2. QED
    BY <2>1, Zenon DEF WindowIsOneStep
<1>5. pc' \notin {"updating", "saving", "demo step", "saved", "demo saved",
                  "demo sampling", "demo sampled"}
  BY Zenon DEF BetweenRounds, Early, Setup, Unquantized, EncodePlaces
<1>6. QED
  BY <1>3, <1>4, <1>5 DEF WindowInv

\* The places of setup, and that it takes no step.
LEMMA SetupIsEarly ==
  ASSUME TypeOK, job.trainer = "diffusion", Encoding \/ Preparing
  PROVE  pc \in Early /\ Restful /\ pc' \in Early \cup BetweenRounds
<1> USE DEF Early, Setup, Unquantized, EncodePlaces
<1>1. /\ job.examples \in Nat /\ job.sites \in Nat /\ item \in Nat /\ 0 \in Nat
      /\ {"encode", "load", "dataset", "quantize", "merge", "inject"} \subseteq PhaseNames
      /\ {"scanning", "encoding", "cached", "ready", "vae", "text encoder", "summary",
          "mmdit", "skeleton", "site", "adapter", "sites"} \subseteq Details
  BY JobCounts DEF PhaseNames, Details
<1>2. CASE Encoding
  <2>1. pc \in Early /\ pc' \in Early
    BY <1>2 DEF Encoding, Start, Preflight, Scan, ReportEntry, Latent, Caption,
       LoadForCaption, CacheReady, Dispatch, Announce, Advise, Goto
  <2>2. Restful
    BY <1>1, <1>2, RestfulEvents, Zenon
    DEF Encoding, Start, Preflight, Scan, ReportEntry, Latent, Caption, Load,
        LoadForCaption, CacheReady, Dispatch, Announce, Advise
  <2>3. QED
    BY <2>1, <2>2, Zenon
<1>3. CASE Preparing
  <2>1. pc \in Early /\ pc' \in Early \cup BetweenRounds
    BY <1>3
       DEF Preparing, PlanEntry, Summarize, LoadDenoiser, Skeleton, QuantizeSite,
           CloseQuantize, Account, NoteChunks, Merge, NoteScaling, Merged, Inject,
           EnterLoop, Announce, Advise, Goto, BetweenRounds
  <2>2. Restful
    BY <1>1, <1>3, RestfulEvents, Zenon
       DEF Preparing, PlanEntry, Summarize, LoadDenoiser, Skeleton, QuantizeSite,
           CloseQuantize, Account, NoteChunks, Merge, NoteScaling, Merged, Inject,
           EnterLoop, Announce, Advise
  <2>3. QED
    BY <2>1, <2>2
<1>4. QED
  BY <1>2, <1>3

\* A Step event opens a window, and closes the one that is open.
LEMMA StepEvent ==
  ASSUME SinkTypeOK, NEW k \in Nat, Emit(AtStep("step", k))
  PROVE  /\ bench'.last = k /\ ~bench'.contaminated /\ ~aside'
         /\ bench.last = 0 =>
              bench'.timed = bench.timed /\ bench'.sample = bench.sample
         /\ bench.last # 0 =>
              bench'.timed = bench.timed + 1 /\ bench'.sample = Sampled(k)
<1>1. /\ AtStep("step", k).type = "step" /\ AtStep("step", k).step = k
  BY DEF AtStep, Event
<1>2. ~aside'
  BY <1>1, Zenon DEF Emit
<1>3. bench' = Recorded(AtStep("step", k))
  BY DEF Emit
<1>4. CASE bench.last = 0
  <2>1. bench' = Opened(k)
    BY <1>1, <1>3, <1>4 DEF Recorded
  <2>2. bench' = [bench EXCEPT !.last = k, !.contaminated = FALSE]
    BY <2>1 DEF Opened
  <2>3. QED
    BY <1>2, <1>4, <2>2 DEF SinkTypeOK
<1>5. CASE bench.last # 0
  <2>1. bench' = Timed(k)
    BY <1>1, <1>3, <1>5 DEF Recorded
  <2>2. QED
    BY <1>2, <1>5, <2>1 DEF Timed
<1>6. QED
  BY <1>4, <1>5

\* The events that announce a file, and those a bench ignores.
LEMMA OtherEvents ==
  ASSUME SinkTypeOK
  PROVE  /\ \A type \in {"checkpoint", "sample"}, k \in Nat :
              Emit(AtStep(type, k)) =>
                /\ bench'.last = bench.last /\ bench'.timed = bench.timed
                /\ bench'.sample = bench.sample
                /\ bench'.contaminated /\ (aside' <=> aside)
         /\ Emit(Warning) \/ Emit(Finished) \/ Quiet =>
              bench' = bench /\ (aside' <=> aside)
<1>1. ASSUME NEW type \in {"checkpoint", "sample"}, NEW k \in Nat,
             Emit(AtStep(type, k))
      PROVE  /\ bench'.last = bench.last /\ bench'.timed = bench.timed
             /\ bench'.sample = bench.sample
             /\ bench'.contaminated /\ (aside' <=> aside)
  <2>1. AtStep(type, k).type = type /\ type # "step" /\ type # "phase" /\ type # "started"
    BY DEF AtStep, Event
  <2>2. bench' = [bench EXCEPT !.contaminated = TRUE]
    BY <1>1, <2>1, Zenon DEF Emit, Recorded
  <2>3. aside' <=> aside
    BY <1>1, <2>1, Zenon DEF Emit
  <2>4. QED
    BY <2>2, <2>3 DEF SinkTypeOK
<1>2. ASSUME NEW e \in {Warning, Finished}, Emit(e)
      PROVE  bench' = bench /\ (aside' <=> aside)
  <2>1. e.type \in {"warning", "finished"}
    <3>1. Warning.type = "warning" /\ Finished.type = "finished"
      BY DEF Warning, Finished, AtStep, Event
    <3>2. QED
      BY <3>1
  <2>2. bench' = bench
    BY <1>2, <2>1 DEF Emit, Recorded
  <2>3. e.type # "step" /\ e.type # "phase"
    BY <2>1
  <2>4. QED
    BY <1>2, <2>2, <2>3, Zenon DEF Emit
<1>3. ASSUME Quiet PROVE bench' = bench /\ (aside' <=> aside)
  BY <1>3 DEF Quiet, sinkVars
<1>4. QED
  BY <1>1, <1>2, <1>3, Zenon

LEMMA StepOpensWindow ==
  ASSUME TypeOK, WindowInv, pc \in BetweenRounds,
         pc' \in AfterStep, step' = step, Emit(AtStep("step", step))
  PROVE  WindowInv'
<1>1. SinkTypeOK /\ step \in Nat
  BY DEF TypeOK
<1>2. /\ bench'.last = step /\ ~bench'.contaminated /\ ~aside'
      /\ bench.last = 0 => bench'.timed = bench.timed /\ bench'.sample = bench.sample
      /\ bench.last # 0 =>
           bench'.timed = bench.timed + 1 /\ bench'.sample = Sampled(step)
  BY <1>1, StepEvent
<1>3. bench.timed \in Nat /\ bench.last \in Nat
  BY <1>1 DEF SinkTypeOK
<1>7. pc' \notin Early /\ pc' \in {"updating", "demo step"}
  BY DEF AfterStep, Early, Setup, Unquantized, EncodePlaces
<1>4. CASE bench.last = 0
  <2>1. bench'.timed = 0
    BY <1>2, <1>4 DEF WindowInv
  <2>2. WindowIsOneStep'
    <3>1. ~(bench'.timed > 0)
      BY <2>1
    <3>2. QED
      BY <3>1, Zenon DEF WindowIsOneStep
  <2>3. QED
    BY <1>2, <1>7, <2>1, <2>2, Zenon DEF WindowInv
<1>5. CASE bench.last # 0
  <2>1. step = bench.last + 1 /\ (aside <=> bench.contaminated)
    BY <1>5, Zenon DEF WindowInv, BetweenRounds
  <2>2. /\ bench'.sample.step = step /\ bench'.sample.opened = bench.last
        /\ bench'.sample.index = bench.timed /\ bench'.sample.aside = aside
        /\ bench'.sample.counted = IsCounted(bench.timed, bench.contaminated)
    <3>1. bench'.sample = Sampled(step)
      BY <1>2, <1>5, Zenon
    <3>2. /\ bench'.sample.step = step /\ bench'.sample.opened = bench.last
          /\ bench'.sample.index = bench.timed
      BY <3>1 DEF Sampled
    <3>3. bench'.sample.aside = aside
      BY <3>1 DEF Sampled
    <3>4. bench'.sample.counted = IsCounted(bench.timed, bench.contaminated)
      BY <3>1 DEF Sampled
    <3>5. QED
      BY <3>2, <3>3, <3>4, Zenon
  <2>3. bench.timed >= WarmupSteps <=> bench.timed > 0
    <3>1. \A n \in Nat : n >= 1 <=> n > 0
      OBVIOUS
    <3>2. QED
      BY <1>3, <3>1, Zenon DEF WarmupSteps
  <2>4. bench'.sample.counted = (bench'.sample.index > 0 /\ ~bench'.sample.aside)
    <3>1. IsCounted(bench.timed, bench.contaminated) \in BOOLEAN
      BY DEF IsCounted
    <3>2. IsCounted(bench.timed, bench.contaminated) <=> (bench.timed > 0 /\ ~aside)
      BY <2>1, <2>3, Zenon DEF IsCounted
    <3>3. IsCounted(bench.timed, bench.contaminated) = (bench.timed > 0 /\ ~aside)
      BY <3>1, <3>2, Zenon
    <3>4. QED
      BY <2>2, <3>3, Zenon
  <2>5. bench'.sample.step = bench'.sample.opened + 1
    BY <2>1, <2>2
  <2>6. WindowIsOneStep'
    BY <2>4, <2>5, Zenon DEF WindowIsOneStep
  <2>7. bench'.last # 0
    <3>1. \A n \in Nat : n + 1 # 0
      OBVIOUS
    <3>2. QED
      BY <1>2, <1>3, <2>1, <3>1, Zenon
  <2>8. QED
    BY <1>2, <1>7, <2>6, <2>7, Zenon DEF WindowInv
<1>6. QED
  BY <1>4, <1>5

\* The samples and the marks of a window stay between two Step events.
Between ==
  /\ bench'.timed = bench.timed /\ bench'.sample = bench.sample
  /\ bench'.last = bench.last

LEMMA BetweenSteps ==
  ASSUME WindowInv, Between, pc' \notin Early
  PROVE  WindowIsOneStep' /\ (bench'.last = 0 => bench'.timed = 0)
         /\ (pc' \in Early => bench'.last = 0)
BY Zenon DEF WindowInv, Between, WindowIsOneStep

LEMMA SteppingWindows ==
  ASSUME TypeOK, WindowInv, Stepping
  PROVE  WindowInv'
<1> USE DEF Early, Setup, Unquantized, EncodePlaces
<1>i. SinkTypeOK /\ step \in Nat /\ bench.last \in Nat
  BY DEF TypeOK, SinkTypeOK
<1>1. CASE TakeStep
  BY <1>1, StepOpensWindow DEF TakeStep, Announce, Goto, BetweenRounds, AfterStep
<1>2. CASE Update
  <2>1. /\ pc = "updating" /\ bench' = bench /\ (aside' <=> aside)
        /\ \/ pc' = "saving" /\ step' = step
           \/ pc' = "looping" /\ step' = step + 1
    BY <1>2, <1>i, OtherEvents DEF Update, Goto
  <2>2. Between /\ pc' \notin Early
    BY <2>1 DEF Between
  <2>3. QED
    BY <2>1, <2>2, BetweenSteps DEF WindowInv
<1>3. CASE Save
  <2>1. pc = "saving" /\ pc' = "saved" /\ bench' = bench /\ aside' /\ step' = step
    BY <1>3 DEF Save, Goto, Write
  <2>2. Between /\ pc' \notin Early
    BY <2>1 DEF Between
  <2>3. QED
    BY <2>1, <2>2, BetweenSteps DEF WindowInv
<1>4. CASE AnnounceCheckpoint
  <2>1. /\ pc = "saved" /\ pc' = "looping" /\ step' = step + 1
        /\ Between /\ bench'.contaminated /\ (aside' <=> aside)
    BY <1>4, <1>i, OtherEvents DEF AnnounceCheckpoint, Goto, Between
  <2>2. Between /\ pc' \notin Early
    BY <2>1
  <2>3. bench'.last = bench.last
    BY <2>1 DEF Between
  <2>4. QED
    BY <2>1, <2>2, <2>3, BetweenSteps DEF WindowInv
<1>5. CASE Export \/ Finish
  <2>1. Between /\ pc' \in {"exported", "done"}
    BY <1>5, <1>i, OtherEvents
       DEF Export, Finish, Announce, Goto, Write, Between
  <2>2. pc' \notin Early
    BY <2>1
  <2>3. QED
    BY <2>1, <2>2, BetweenSteps DEF WindowInv
<1>6. QED
  BY <1>1, <1>2, <1>3, <1>4, <1>5 DEF Stepping

LEMMA DemoWindows ==
  ASSUME TypeOK, WindowInv, DemoNext
  PROVE  WindowInv'
<1> USE DEF Early, Setup, Unquantized, EncodePlaces
<1>i. SinkTypeOK /\ step \in Nat /\ bench.last \in Nat
  BY DEF TypeOK, SinkTypeOK
<1>1. CASE DemoStart \/ DemoLoads \/ DemoLoaded \/ DemoSynthetic \/ DemoEnterLoop
  <2>1. pc \in Early /\ pc' \in Early \cup BetweenRounds
    BY <1>1 DEF DemoStart, DemoLoads, DemoLoaded, DemoSynthetic, DemoEnterLoop,
                Announce, Goto, BetweenRounds
  <2>2. {"mnist", "ready"} \subseteq Details /\ "dataset" \in PhaseNames
    BY DEF Details, PhaseNames
  <2>3. Restful
    BY <1>1, <2>2, RestfulEvents, Zenon
       DEF DemoStart, DemoLoads, DemoLoaded, DemoSynthetic, DemoEnterLoop, Announce
  <2>4. QED
    BY <2>1, <2>3, EarlyWindows
<1>2. CASE DemoStep
  BY <1>2, StepOpensWindow DEF DemoStep, Announce, Goto, BetweenRounds, AfterStep
<1>3. CASE DemoSave
  <2>1. /\ pc = "demo step" /\ pc' = "demo saved" /\ bench' = bench /\ aside'
        /\ step' = step
    BY <1>3 DEF DemoSave, Goto, Write
  <2>2. Between /\ pc' \notin Early
    BY <2>1 DEF Between
  <2>3. QED
    BY <2>1, <2>2, BetweenSteps DEF WindowInv
<1>4. CASE DemoCheckpoint
  <2>1. /\ pc = "demo saved" /\ pc' = "demo sampling" /\ step' = step
        /\ Between /\ bench'.contaminated /\ (aside' <=> aside)
    BY <1>4, <1>i, OtherEvents DEF DemoCheckpoint, Announce, Goto, Between
  <2>2. pc' \notin Early /\ bench'.last = bench.last
    BY <2>1 DEF Between
  <2>3. QED
    BY <2>1, <2>2, BetweenSteps DEF WindowInv
<1>5. CASE DemoNoCheckpoint
  <2>1. /\ pc = "demo step" /\ pc' = "demo sampling" /\ step' = step
        /\ bench' = bench /\ (aside' <=> aside)
    BY <1>5 DEF DemoNoCheckpoint, Goto, Quiet, sinkVars
  <2>2. Between /\ pc' \notin Early
    BY <2>1 DEF Between
  <2>3. QED
    BY <2>1, <2>2, BetweenSteps DEF WindowInv
<1>6. CASE DemoWriteSample
  <2>1. /\ pc = "demo sampling" /\ pc' = "demo sampled" /\ bench' = bench /\ aside'
        /\ step' = step
    BY <1>6 DEF DemoWriteSample, Goto, Write
  <2>2. Between /\ pc' \notin Early
    BY <2>1 DEF Between
  <2>3. QED
    BY <2>1, <2>2, BetweenSteps DEF WindowInv
<1>7. CASE DemoSample
  <2>1. /\ pc = "demo sampled" /\ pc' = "demo loop" /\ step' = step + 1
        /\ Between /\ bench'.contaminated /\ (aside' <=> aside)
    BY <1>7, <1>i, OtherEvents DEF DemoSample, Goto, Between
  <2>2. pc' \notin Early /\ bench'.last = bench.last
    BY <2>1 DEF Between
  <2>3. QED
    BY <2>1, <2>2, BetweenSteps DEF WindowInv
<1>8. CASE DemoNoSample
  <2>1. /\ pc = "demo sampling" /\ pc' = "demo loop" /\ step' = step + 1
        /\ bench' = bench /\ (aside' <=> aside)
    BY <1>8 DEF DemoNoSample, Goto, Quiet, sinkVars
  <2>2. Between /\ pc' \notin Early
    BY <2>1 DEF Between
  <2>3. QED
    BY <2>1, <2>2, BetweenSteps DEF WindowInv
<1>9. CASE DemoExport
  <2>1. Between /\ pc' = "exported"
    BY <1>9 DEF DemoExport, Goto, Write, Between
  <2>2. pc' \notin Early
    BY <2>1
  <2>3. QED
    BY <2>1, <2>2, BetweenSteps DEF WindowInv
<1>10. QED
  BY <1>1, <1>2, <1>3, <1>4, <1>5, <1>6, <1>7, <1>8, <1>9 DEF DemoNext

LEMMA WindowStep ==
  ASSUME TypeOK, WindowInv, [Next]_vars
  PROVE  WindowInv'
<1>1. CASE job.trainer = "diffusion" /\ (Encoding \/ Preparing)
  BY <1>1, SetupIsEarly, EarlyWindows
<1>2. CASE Stepping \/ Finish
  BY <1>2, SteppingWindows DEF Stepping
<1>3. CASE DemoNext
  BY <1>3, DemoWindows
<1>4. CASE Fail
  <2>1. Between /\ pc' = "failed"
    BY <1>4 DEF Fail, Quiet, sinkVars, Between
  <2>2. pc' \notin Early
    BY <2>1 DEF Early, Setup, Unquantized, EncodePlaces
  <2>3. QED
    BY <2>1, <2>2, BetweenSteps DEF WindowInv
<1>5. CASE UNCHANGED vars
  BY <1>5, Zenon DEF vars, runVars, sinkVars, WindowInv, WindowIsOneStep
<1>6. QED
  BY <1>1, <1>2, <1>3, <1>4, <1>5 DEF Next

\* Every window the bench aggregates is one step of training, and every window
\* of one step with nothing else in it, but the first, is aggregated.
THEOREM WindowsAreSteps == Spec => []WindowIsOneStep
<1>1. ASSUME Init PROVE WindowInv
  <2>1. bench.last = 0 /\ bench.timed = 0 /\ pc = "idle"
    BY <1>1 DEF Init, SinkInit, FreshBench
  <2>2. QED
    BY <2>1 DEF WindowInv, WindowIsOneStep
<1>2. TypeOK /\ WindowInv /\ [Next]_vars => WindowInv'
  BY WindowStep
<1>3. WindowInv => WindowIsOneStep
  BY DEF WindowInv
<1>4. QED
  BY <1>1, <1>2, <1>3, TypeCorrect, PTL DEF Spec

---------------------------------------------------------------------------
\* How much a run says.

DueBelow(k, total) == {j \in 0 .. k - 1 : EmitEvery(j, total)}

\* The last line `lg` of the log, the lines `ln`, the reports `rp` and the last
\* count `sn` of a counted phase whose loop has been through its first k items,
\* with `spare` lines that are not the counts' own.
Thrift(n, lg, ln, rp, sn, total, spare, k) ==
  /\ rp <= Cardinality(DueBelow(k, total))
  /\ sn = NoCount => ln <= spare /\ (lg.name = n => lg.decile = NoDecile)
  /\ sn # NoCount =>
       /\ sn.total = total /\ sn.done < k
       /\ \A j \in sn.done + 1 .. k - 1 : ~EmitEvery(j, total)
       /\ ln <= spare + Decile(sn.done, total) + IF lg.name = n THEN 1 ELSE 0
       /\ lg.name = n =>
            /\ lg.at <= sn.done
            /\ Decile(lg.at, total) = Decile(sn.done, total)
            /\ lg.decile = Decile(sn.done, total)

Thrifty(n, total, spare, k) ==
  Thrift(n, log, lines[n], reports[n], snapshot[n], total, spare, k)


\* Arithmetic of the deciles.
LEMMA QuotientBounds ==
  ASSUME NEW x \in Nat, NEW t \in Nat \ {0}
  PROVE  x \div t \in Nat /\ t * (x \div t) <= x /\ x < t * (x \div t) + t
BY Z3

LEMMA QuotientsOrder ==
  ASSUME NEW t \in Nat \ {0}, NEW p \in Nat, NEW q \in Nat, t * p < t * q + t
  PROVE  p <= q
<1>1. ASSUME p >= q + 1
      PROVE  t * p >= t * q + t
  <2>1. PICK d \in Nat : p = q + 1 + d
    BY <1>1
  <2>2. t * p = t * q + t + t * d /\ t * d \in Nat
    BY <2>1
  <2>3. QED
    BY <2>2
<1>2. t * p \in Nat /\ t * q \in Nat
  OBVIOUS
<1>3. QED
  BY <1>1, <1>2

LEMMA OpenDecile ==
  ASSUME NEW t \in Nat \ {0}, NEW d \in Nat, d < t
  PROVE  Decile(d, t) = (d * 10) \div t /\ Decile(d, t) \in 0 .. 9
<1> DEFINE q == (d * 10) \div t
<1>1. q \in Nat /\ t * q <= d * 10
  BY QuotientBounds
<1>2. t * q < t * 9 + t
  <2>1. t * q \in Nat
    BY <1>1
  <2>2. QED
    BY <1>1, <2>1
<1>3. q <= 9
  BY <1>1, <1>2, QuotientsOrder
<1>4. QED
  BY <1>1, <1>3 DEF Decile

LEMMA DecilesOrder ==
  ASSUME NEW t \in Nat \ {0}, NEW d \in Nat, NEW e \in Nat, d <= e, e < t
  PROVE  /\ Decile(d, t) <= Decile(e, t)
         /\ Decile(d, t) = Decile(e, t) => 10 * (e - d) < t
<1> DEFINE p == (d * 10) \div t
           q == (e * 10) \div t
<1>1. /\ p \in Nat /\ t * p <= d * 10 /\ d * 10 < t * p + t
      /\ q \in Nat /\ t * q <= e * 10 /\ e * 10 < t * q + t
  BY QuotientBounds
<1>2. Decile(d, t) = p /\ Decile(e, t) = q
  BY OpenDecile
<1>3. t * p \in Nat /\ t * q \in Nat
  BY <1>1
<1> HIDE DEF p, q
<1>4. p <= q
  <2>1. t * p < t * q + t
    BY <1>1, <1>3
  <2>2. QED
    BY <1>1, <2>1, QuotientsOrder
<1>5. ASSUME p = q PROVE 10 * (e - d) < t
  <2>1. t * p = t * q
    BY <1>5
  <2>2. QED
    BY <1>1, <1>3, <2>1
<1>6. QED
  BY <1>2, <1>4, <1>5

\* The stride: one of as many items in a row is due.
LEMMA MultipleIsExact ==
  ASSUME NEW s \in Nat \ {0}, NEW q \in Nat
  PROVE  (s * q) % s = 0
BY Z3

LEMMA NextMultiple ==
  ASSUME NEW s \in Nat \ {0}, NEW d \in Nat
  PROVE  \E m \in d + 1 .. d + s : m % s = 0
<1> DEFINE q == d \div s
<1>1. q \in Nat /\ s * q <= d /\ d < s * q + s
  BY QuotientBounds
<1> HIDE DEF q
<1>2. s * (q + 1) = s * q + s /\ s * q \in Nat /\ q + 1 \in Nat
  BY <1>1
<1>3. (s * (q + 1)) % s = 0
  BY <1>2, MultipleIsExact
<1>4. s * (q + 1) \in d + 1 .. d + s
  BY <1>1, <1>2
<1>5. QED
  BY <1>3, <1>4

\* The items due below k.
LEMMA DueGrows ==
  ASSUME NEW total \in Nat \ {0}, NEW k \in Nat, k < total
  PROVE  /\ Cardinality(DueBelow(k, total)) \in Nat
         /\ EmitEvery(k, total) =>
              Cardinality(DueBelow(k + 1, total)) = Cardinality(DueBelow(k, total)) + 1
         /\ ~EmitEvery(k, total) => DueBelow(k + 1, total) = DueBelow(k, total)
<1>1. IsFiniteSet(DueBelow(k, total)) /\ Cardinality(DueBelow(k, total)) \in Nat
  <2>1. DueBelow(k, total) \subseteq Due(total)
    BY DEF DueBelow, Due
  <2>2. IsFiniteSet(Due(total))
    BY ReportsCapped
  <2>3. QED
    BY <2>1, <2>2, FS_Subset, FS_CardinalityType
<1>2. ASSUME EmitEvery(k, total)
      PROVE  DueBelow(k + 1, total) = DueBelow(k, total) \cup {k}
  BY <1>2 DEF DueBelow
<1>3. ASSUME ~EmitEvery(k, total)
      PROVE  DueBelow(k + 1, total) = DueBelow(k, total)
  BY <1>3 DEF DueBelow
<1>4. k \notin DueBelow(k, total)
  BY DEF DueBelow
<1>5. QED
  BY <1>1, <1>2, <1>3, <1>4, FS_AddElement

LEMMA DueBelowIsFew ==
  ASSUME NEW total \in Nat \ {0}, NEW k \in Nat, k <= total
  PROVE  Cardinality(DueBelow(k, total)) \in 0 .. 101
<1>1. DueBelow(k, total) \subseteq Due(total)
  BY DEF DueBelow, Due
<1>2. IsFiniteSet(Due(total)) /\ Cardinality(Due(total)) <= 101
  BY ReportsCapped
<1>3. Cardinality(DueBelow(k, total)) <= Cardinality(Due(total))
  BY <1>1, <1>2, FS_Subset
<1>4. Cardinality(DueBelow(k, total)) \in Nat /\ Cardinality(Due(total)) \in Nat
  BY <1>1, <1>2, FS_Subset, FS_CardinalityType
<1>5. QED
  BY <1>2, <1>3, <1>4

LEMMA NothingDueBelow ==
  ASSUME NEW total
  PROVE  Cardinality(DueBelow(0, total)) = 0
<1>1. DueBelow(0, total) = {}
  BY DEF DueBelow
<1>2. QED
  BY <1>1, FS_EmptySet

Lines == [name : PhaseNames \cup {""}, detail : Details,
          decile : 0 .. NoDecile, at : Nat]

\* The loop passes over an item that is not due.
LEMMA ThriftPassesOver ==
  ASSUME NEW n, NEW lg \in Lines, NEW ln \in Nat, NEW rp \in Nat, NEW sn \in Count,
         NEW total \in Nat \ {0}, NEW spare \in Nat, NEW k \in Nat, k < total,
         Thrift(n, lg, ln, rp, sn, total, spare, k), ~EmitEvery(k, total)
  PROVE  Thrift(n, lg, ln, rp, sn, total, spare, k + 1)
<1>1. DueBelow(k + 1, total) = DueBelow(k, total)
  BY DueGrows
<1>2. ASSUME sn # NoCount
      PROVE  /\ sn.done < k + 1
             /\ \A j \in sn.done + 1 .. k + 1 - 1 : ~EmitEvery(j, total)
  <2>1. sn.done < k /\ sn.done \in Nat
    BY <1>2 DEF Thrift, Count
  <2>2. \A j \in sn.done + 1 .. k - 1 : ~EmitEvery(j, total)
    BY <1>2, Zenon DEF Thrift
  <2>3. \A j \in sn.done + 1 .. k + 1 - 1 : j = k \/ j \in sn.done + 1 .. k - 1
    BY <2>1
  <2>4. \A j \in sn.done + 1 .. k + 1 - 1 : ~EmitEvery(j, total)
    BY <2>2, <2>3, Zenon
  <2>5. QED
    BY <2>1, <2>4
<1>3. QED
  BY <1>1, <1>2 DEF Thrift

\* What a report of item k does to the log.
Answered(n, lg, ln, lg2, ln2, k, total) ==
  \/ /\ ln2 = ln + 1 /\ lg2.name = n /\ lg2.at = k
     /\ lg2.decile = Decile(k, total)
     /\ lg.name = n => lg.decile # Decile(k, total)
  \/ ln2 = ln /\ lg2 = lg /\ lg.name = n /\ lg.decile = Decile(k, total)

LEMMA ThriftReports ==
  ASSUME NEW n, NEW lg \in Lines, NEW ln \in Nat, NEW rp \in Nat, NEW sn \in Count,
         NEW total \in Nat \ {0}, NEW spare \in Nat, NEW k \in Nat, k < total,
         Thrift(n, lg, ln, rp, sn, total, spare, k),
         NEW lg2 \in Lines, NEW ln2 \in Nat, NEW rp2 \in Nat,
         rp2 = rp \/ (rp2 = rp + 1 /\ EmitEvery(k, total)),
         Answered(n, lg, ln, lg2, ln2, k, total)
  PROVE  Thrift(n, lg2, ln2, rp2, [done |-> k, total |-> total], total, spare, k + 1)
<1> DEFINE now == [done |-> k, total |-> total]
<1>1. now # NoCount /\ now.done = k /\ now.total = total
  BY DEF NoCount
<1>2. rp2 <= Cardinality(DueBelow(k + 1, total))
  <2>1. rp <= Cardinality(DueBelow(k, total))
    BY DEF Thrift
  <2>2. CASE EmitEvery(k, total)
    BY <2>1, <2>2, DueGrows
  <2>3. CASE ~EmitEvery(k, total)
    BY <2>1, <2>3, DueGrows
  <2>4. QED
    BY <2>2, <2>3
<1>3. \A j \in k + 1 .. k + 1 - 1 : ~EmitEvery(j, total)
  <2>1. ~ \E j \in k + 1 .. k + 1 - 1 : TRUE
    OBVIOUS
  <2>2. QED
    BY <2>1, Zenon
<1>4. Decile(k, total) \in 0 .. 9
  BY OpenDecile
<1>5. CASE sn = NoCount
  <2>1. ln <= spare /\ (lg.name = n => lg.decile = NoDecile)
    BY <1>5 DEF Thrift
  <2>2. /\ ln2 = ln + 1 /\ lg2.name = n /\ lg2.at = k
        /\ lg2.decile = Decile(k, total)
    BY <1>4, <2>1 DEF Answered, NoDecile
  <2>3. ln2 <= spare + Decile(k, total) + IF lg2.name = n THEN 1 ELSE 0
    BY <1>4, <2>1, <2>2
  <2>4. lg2.at <= k
    BY <2>2
  <2>5. k < k + 1
    OBVIOUS
  <2>6. QED
    BY <1>1, <1>2, <1>3, <2>2, <2>3, <2>4, <2>5 DEF Thrift
<1>6. CASE sn # NoCount
  <2>1. /\ sn.done \in Nat /\ sn.done < k /\ sn.done < total
        /\ ln <= spare + Decile(sn.done, total) + IF lg.name = n THEN 1 ELSE 0
        /\ lg.name = n => /\ lg.at <= sn.done
                          /\ Decile(lg.at, total) = Decile(sn.done, total)
                          /\ lg.decile = Decile(sn.done, total)
    <3>1. sn.done \in Nat
      BY DEF Count
    <3>2. sn.done < k
      BY <1>6, Zenon DEF Thrift
    <3>3. sn.done < total
      BY <3>1, <3>2
    <3>4. QED
      BY <1>6, <3>1, <3>2, <3>3, Zenon DEF Thrift
  <2>2. /\ Decile(sn.done, total) <= Decile(k, total)
        /\ Decile(sn.done, total) \in 0 .. 9
    BY <2>1, DecilesOrder, OpenDecile
  <2>3. lg.at \in Nat /\ lg2.at \in Nat
    BY DEF Lines
  <2>4. CASE /\ ln2 = ln + 1 /\ lg2.name = n /\ lg2.at = k
             /\ lg2.decile = Decile(k, total)
             /\ lg.name = n => lg.decile # Decile(k, total)
    <3>1. lg.name = n => Decile(sn.done, total) + 1 <= Decile(k, total)
      BY <1>4, <2>1, <2>2, <2>4
    <3>2. ln <= spare + Decile(k, total)
      BY <1>4, <2>1, <2>2, <3>1
    <3>3. ln2 <= spare + Decile(k, total) + IF lg2.name = n THEN 1 ELSE 0
      BY <1>4, <2>4, <3>2
    <3>4. lg2.at <= k /\ k < k + 1
      BY <2>4
    <3>5. QED
      BY <1>1, <1>2, <1>3, <2>4, <3>3, <3>4 DEF Thrift
  <2>5. CASE ln2 = ln /\ lg2 = lg /\ lg.name = n /\ lg.decile = Decile(k, total)
    <3>1. ln2 <= spare + Decile(k, total) + IF lg2.name = n THEN 1 ELSE 0
      BY <1>4, <2>1, <2>2, <2>5
    <3>2. lg2.at <= k /\ k < k + 1
      BY <2>1, <2>3, <2>5
    <3>3. QED
      BY <1>1, <1>2, <1>3, <2>1, <2>5, <3>1, <3>2 DEF Thrift
  <2>6. QED
    BY <2>4, <2>5 DEF Answered
<1>7. QED
  BY <1>5, <1>6

\* Another phase takes a line in between, and with it one to spare.
LEMMA ThriftInterrupted ==
  ASSUME NEW n, NEW lg \in Lines, NEW ln \in Nat, NEW rp \in Nat, NEW sn \in Count,
         NEW total \in Nat \ {0}, NEW spare \in Nat, NEW k \in Nat, k <= total,
         Thrift(n, lg, ln, rp, sn, total, spare, k),
         NEW lg2 \in Lines, lg2.name # n
  PROVE  Thrift(n, lg2, ln, rp, sn, total, spare + 1, k)
<1>1. CASE sn = NoCount
  <2>1. ln <= spare + 1
    BY <1>1 DEF Thrift
  <2>2. QED
    BY <1>1, <2>1, Zenon DEF Thrift
<1>2. CASE sn # NoCount
  <2>1. sn.done \in Nat /\ sn.done < k /\ sn.done < total
    BY <1>2 DEF Thrift, Count
  <2>2. Decile(sn.done, total) \in 0 .. 9
    BY <2>1, OpenDecile
  <2>3. ln <= spare + 1 + Decile(sn.done, total) + IF lg2.name = n THEN 1 ELSE 0
    BY <1>2, <2>2 DEF Thrift
  <2>4. QED
    BY <1>2, <2>3, Zenon DEF Thrift
<1>3. QED
  BY <1>1, <1>2

\* How far a counted phase gets with it.
LEMMA ThriftIsFew ==
  ASSUME NEW n, NEW lg \in Lines, NEW ln \in Nat, NEW rp \in Nat, NEW sn \in Count,
         NEW total \in Nat \ {0}, NEW spare \in Nat, NEW k \in Nat, k <= total,
         Thrift(n, lg, ln, rp, sn, total, spare, k)
  PROVE  rp <= 101 /\ ln <= spare + 10
<1>1. rp <= 101
  BY DueBelowIsFew, SMTT(20) DEF Thrift
<1>2. CASE sn = NoCount
  BY <1>1, <1>2 DEF Thrift
<1>3. CASE sn # NoCount
  <2>1. sn.done \in Nat /\ sn.done < k /\ sn.done < total
    BY <1>3 DEF Thrift, Count
  <2>2. Decile(sn.done, total) \in 0 .. 9
    BY <2>1, OpenDecile
  <2>3. QED
    BY <1>1, <1>3, <2>2 DEF Thrift
<1>4. QED
  BY <1>2, <1>3

\* How far the log is behind the loop.
LEMMA ThriftKeepsUp ==
  ASSUME NEW n, NEW lg \in Lines, NEW ln \in Nat, NEW rp \in Nat, NEW sn \in Count,
         NEW total \in Nat \ {0}, NEW spare \in Nat, NEW k \in Nat, k <= total,
         Thrift(n, lg, ln, rp, sn, total, spare, k),
         lg.name = n, lg.decile # NoDecile
  PROVE  10 * (k - lg.at) <= total + 10 * Stride(total)
<1> DEFINE s == Stride(total)
<1>1. sn # NoCount /\ lg.at \in Nat
  BY DEF Thrift, Lines
<1>2. sn.done \in Nat /\ sn.done < k /\ lg.at <= sn.done
  BY <1>1 DEF Thrift, Count
<1>3. 10 * (sn.done - lg.at) < total
  BY <1>1, <1>2, DecilesOrder DEF Thrift
<1>4. s \in Nat \ {0}
  BY StrideCovers
<1>5. k <= sn.done + s
  <2>1. SUFFICES ASSUME k > sn.done + s PROVE FALSE
    BY <1>2, <1>4
  <2>2. PICK m \in sn.done + 1 .. sn.done + s : m % s = 0
    BY <1>2, <1>4, NextMultiple
  <2>3. EmitEvery(m, total)
    BY <2>2, Zenon DEF EmitEvery
  <2>4. m \in sn.done + 1 .. k - 1
    BY <1>2, <1>4, <2>1, <2>2
  <2>5. QED
    BY <1>1, <2>3, <2>4, Zenon DEF Thrift
<1> HIDE DEF s
<1>6. 10 * (k - lg.at) <= total + 10 * s
  BY <1>1, <1>2, <1>3, <1>4, <1>5
<1>7. QED
  BY <1>6 DEF s

---------------------------------------------------------------------------
\* What an event leaves on the surfaces that count.

Calm == /\ snapshot' = snapshot /\ reports' = reports
        /\ lines' = lines /\ log' = log

\* A phase is reported without counters.
Told(n) ==
  /\ snapshot' = snapshot /\ reports' = reports
  /\ \/ /\ lines' = [lines EXCEPT ![n] = @ + 1]
        /\ log'.name = n /\ log'.decile = NoDecile
     \/ lines' = lines /\ log' = log /\ log.name = n

LEMMA CalmEvents ==
  /\ Emit(Warning) => Calm
  /\ Quiet => Calm
  /\ Write => Calm
  /\ Emit(Finished) => Calm
  /\ Emit(Started) => Calm
  /\ \A k : Emit(AtStep("step", k)) => Calm
  /\ \A k : Emit(AtStep("checkpoint", k)) => Calm
  /\ \A k : Emit(AtStep("sample", k)) => Calm
<1>1. ASSUME NEW e, Emit(e), e.type # "phase" PROVE Calm
  BY <1>1, Zenon DEF Emit, Calm
<1>2. /\ Warning.type # "phase" /\ Finished.type # "phase" /\ Started.type # "phase"
      /\ \A k : /\ AtStep("step", k).type # "phase"
                /\ AtStep("checkpoint", k).type # "phase"
                /\ AtStep("sample", k).type # "phase"
  BY DEF Warning, Finished, Started, AtStep, Event
<1>3. (Quiet => Calm) /\ (Write => Calm)
  BY DEF Quiet, Write, sinkVars, Calm
<1>4. QED
  BY <1>1, <1>2, <1>3, Zenon

LEMMA ToldEvents ==
  ASSUME NEW n, NEW d, Emit(Phase(n, d))
  PROVE  Told(n)
<1> DEFINE e == Phase(n, d)
<1>1. e.type = "phase" /\ e.name = n /\ e.total = 0 /\ e.done = 0 /\ e.detail = d
  BY DEF Phase, Event
<1>2. ~(e.total > 0)
  BY <1>1
<1>3. Decile(e.done, e.total) = NoDecile
  BY <1>1 DEF Decile
<1> HIDE DEF e
<1>4. ObservePhase(e)
  BY <1>1, Zenon DEF Emit, e
<1>5. snapshot' = snapshot /\ reports' = reports
  BY <1>2, <1>4, Zenon DEF ObservePhase
<1>6. CASE ShouldLog(e)
  <2>1. log' = Logged(e) /\ lines' = [lines EXCEPT ![n] = @ + 1]
    BY <1>1, <1>4, <1>6, Zenon DEF ObservePhase
  <2>2. log'.name = n /\ log'.decile = NoDecile
    BY <1>1, <1>3, <2>1 DEF Logged
  <2>3. QED
    BY <1>5, <2>1, <2>2, Zenon DEF Told
<1>7. CASE ~ShouldLog(e)
  <2>1. log' = log /\ lines' = lines
    BY <1>4, <1>7, Zenon DEF ObservePhase
  <2>2. log.name = n
    BY <1>1, <1>7, Zenon DEF ShouldLog
  <2>3. QED
    BY <1>5, <2>1, <2>2, Zenon DEF Told
<1>8. QED
  BY <1>6, <1>7

\* Item k of `total` is reported: what a counted phase and its log make of it.
Counts(n, d, k, total) ==
  /\ snapshot' = [snapshot EXCEPT ![n] = [done |-> k, total |-> total]]
  /\ reports' = IF d = "encoding" THEN reports ELSE [reports EXCEPT ![n] = @ + 1]
  /\ \/ /\ lines' = [lines EXCEPT ![n] = @ + 1]
        /\ log'.name = n /\ log'.at = k /\ log'.decile = Decile(k, total)
        /\ k # total => ~(log.name = n /\ log.decile = Decile(k, total))
     \/ /\ lines' = lines /\ log' = log /\ k # total
        /\ log.name = n /\ log.decile = Decile(k, total)

LEMMA CountingEvents ==
  ASSUME NEW n, NEW d, NEW k, NEW total \in Nat \ {0}, Emit(Counted(n, d, k, total))
  PROVE  Counts(n, d, k, total)
<1> DEFINE e == Counted(n, d, k, total)
<1>1. /\ e.type = "phase" /\ e.name = n /\ e.total = total /\ e.done = k
      /\ e.detail = d
  BY DEF Counted, Event
<1>2. e.total > 0 /\ e.total # 0
  BY <1>1
<1> HIDE DEF e
<1>4. ObservePhase(e)
  BY <1>1, Zenon DEF Emit, e
<1>5. /\ snapshot' = [snapshot EXCEPT ![n] = [done |-> k, total |-> total]]
      /\ reports' = IF d = "encoding" THEN reports ELSE [reports EXCEPT ![n] = @ + 1]
  BY <1>1, <1>2, <1>4, Zenon DEF ObservePhase
<1>6. CASE ShouldLog(e)
  <2>1. log' = Logged(e) /\ lines' = [lines EXCEPT ![n] = @ + 1]
    BY <1>1, <1>4, <1>6, Zenon DEF ObservePhase
  <2>2. log'.name = n /\ log'.at = k /\ log'.decile = Decile(k, total)
    BY <1>1, <2>1 DEF Logged
  <2>3. k # total => ~(log.name = n /\ log.decile = Decile(k, total))
    BY <1>1, <1>2, <1>6, Zenon DEF ShouldLog
  <2>4. QED
    BY <1>5, <2>1, <2>2, <2>3, Zenon DEF Counts
<1>7. CASE ~ShouldLog(e)
  <2>1. log' = log /\ lines' = lines
    BY <1>4, <1>7, Zenon DEF ObservePhase
  <2>2. log.name = n /\ log.decile = Decile(k, total) /\ k # total
    BY <1>1, <1>2, <1>7, Zenon DEF ShouldLog
  <2>3. QED
    BY <1>5, <2>1, <2>2, Zenon DEF Counts
<1>8. QED
  BY <1>6, <1>7

\* The other phases are left as they are.
Elsewhere(n) ==
  \A m \in PhaseNames \ {n} :
    lines'[m] = lines[m] /\ reports'[m] = reports[m] /\ snapshot'[m] = snapshot[m]

LEMMA SinkValues ==
  ASSUME TypeOK
  PROVE  /\ log \in Lines
         /\ \A n \in PhaseNames :
              lines[n] \in Nat /\ reports[n] \in Nat /\ snapshot[n] \in Count
BY DEF TypeOK, SinkTypeOK, Lines

LEMMA ToldValues ==
  ASSUME TypeOK, NEW n \in PhaseNames, Told(n)
  PROVE  /\ Elsewhere(n) /\ reports'[n] = reports[n] /\ snapshot'[n] = snapshot[n]
         /\ \/ lines'[n] = lines[n] + 1 /\ log'.name = n /\ log'.decile = NoDecile
            \/ lines'[n] = lines[n] /\ log' = log /\ log.name = n
<1>1. lines \in [PhaseNames -> Nat]
  BY DEF TypeOK, SinkTypeOK
<1>2. CASE /\ lines' = [lines EXCEPT ![n] = @ + 1]
           /\ log'.name = n /\ log'.decile = NoDecile
  BY <1>1, <1>2 DEF Told, Elsewhere
<1>3. CASE lines' = lines /\ log' = log /\ log.name = n
  BY <1>1, <1>3 DEF Told, Elsewhere
<1>4. QED
  BY <1>2, <1>3 DEF Told

LEMMA CountsValues ==
  ASSUME TypeOK, NEW n \in PhaseNames, NEW d, NEW k \in Nat,
         NEW total \in Nat \ {0}, Counts(n, d, k, total)
  PROVE  /\ Elsewhere(n) /\ snapshot'[n] = [done |-> k, total |-> total]
         /\ reports'[n] = reports[n] + IF d = "encoding" THEN 0 ELSE 1
         /\ k # total => Answered(n, log, lines[n], log', lines'[n], k, total)
         /\ lines'[n] \in {lines[n], lines[n] + 1} /\ log'.name = n
<1>1. /\ lines \in [PhaseNames -> Nat] /\ reports \in [PhaseNames -> Nat]
      /\ snapshot \in [PhaseNames -> Count]
  BY DEF TypeOK, SinkTypeOK
<1>2. /\ snapshot'[n] = [done |-> k, total |-> total]
      /\ \A m \in PhaseNames \ {n} : snapshot'[m] = snapshot[m]
  BY <1>1 DEF Counts
<1>3. /\ reports'[n] = reports[n] + IF d = "encoding" THEN 0 ELSE 1
      /\ \A m \in PhaseNames \ {n} : reports'[m] = reports[m]
  BY <1>1 DEF Counts
<1>4. CASE /\ lines' = [lines EXCEPT ![n] = @ + 1]
           /\ log'.name = n /\ log'.at = k /\ log'.decile = Decile(k, total)
           /\ k # total => ~(log.name = n /\ log.decile = Decile(k, total))
  <2>1. /\ lines'[n] = lines[n] + 1
        /\ \A m \in PhaseNames \ {n} : lines'[m] = lines[m]
    BY <1>1, <1>4
  <2>2. QED
    BY <1>2, <1>3, <1>4, <2>1 DEF Elsewhere, Answered
<1>5. CASE /\ lines' = lines /\ log' = log /\ k # total
           /\ log.name = n /\ log.decile = Decile(k, total)
  BY <1>2, <1>3, <1>5 DEF Elsewhere, Answered
<1>6. QED
  BY <1>4, <1>5, Zenon DEF Counts

\* One round of a counted loop.
LEMMA LoopReports ==
  ASSUME TypeOK, TypeOK', NEW n \in PhaseNames, NEW d, NEW total \in Nat \ {0},
         NEW spare \in Nat, NEW k \in Nat, k = item, k < total,
         Thrifty(n, total, spare, k),
         \/ Report(n, d, total)
         \/ d = "encoding" /\ Emit(Counted(n, d, k, total))
  PROVE  /\ Thrift(n, log', lines'[n], reports'[n], snapshot'[n], total, spare, k + 1)
         /\ Elsewhere(n) /\ log'.name \in {log.name, n}
<1>1. /\ log \in Lines /\ lines[n] \in Nat /\ reports[n] \in Nat
      /\ snapshot[n] \in Count
  BY SinkValues
<1>2. log' \in Lines /\ lines'[n] \in Nat /\ reports'[n] \in Nat
  <2>1. /\ SinkTypeOK'
    BY DEF TypeOK
  <2>2. QED
    BY <2>1 DEF SinkTypeOK, Lines
<1>3. Thrift(n, log, lines[n], reports[n], snapshot[n], total, spare, k)
  BY DEF Thrifty
<1>4. CASE ~EmitEvery(k, total) /\ Quiet
  <2>1. Thrift(n, log, lines[n], reports[n], snapshot[n], total, spare, k + 1)
    BY <1>1, <1>3, <1>4, ThriftPassesOver
  <2>2. /\ log' = log /\ lines' = lines /\ reports' = reports /\ snapshot' = snapshot
    BY <1>4 DEF Quiet, sinkVars
  <2>3. QED
    BY <2>1, <2>2 DEF Elsewhere
<1>5. CASE /\ Emit(Counted(n, d, k, total))
           /\ d = "encoding" \/ EmitEvery(k, total)
  <2>1. Counts(n, d, k, total)
    BY <1>5, CountingEvents
  <2>2. /\ Elsewhere(n) /\ snapshot'[n] = [done |-> k, total |-> total]
        /\ reports'[n] = reports[n] + IF d = "encoding" THEN 0 ELSE 1
        /\ k # total => Answered(n, log, lines[n], log', lines'[n], k, total)
        /\ log'.name = n
    BY <2>1, CountsValues
  <2>3. reports'[n] = reports[n] \/ (reports'[n] = reports[n] + 1 /\ EmitEvery(k, total))
    BY <1>1, <1>5, <2>2
  <2>4. Answered(n, log, lines[n], log', lines'[n], k, total)
    BY <2>2
  <2>5. Thrift(n, log', lines'[n], reports'[n], [done |-> k, total |-> total],
               total, spare, k + 1)
    BY <1>1, <1>2, <1>3, <2>3, <2>4, ThriftReports
  <2>6. QED
    BY <2>2, <2>5
<1>6. QED
  BY <1>4, <1>5, Zenon DEF Report

LEMMA ThriftOpens ==
  ASSUME NEW n, NEW lg, NEW ln \in Nat, NEW total, NEW spare \in Nat,
         ln <= spare, lg.name = n => lg.decile = NoDecile
  PROVE  Thrift(n, lg, ln, 0, NoCount, total, spare, 0)
BY NothingDueBelow DEF Thrift

\* The caps hold if they hold of the phase that is reported.
LEMMA OneIsFew ==
  ASSUME TypeOK, TypeOK', ReportsAreFew, NEW n \in PhaseNames, Elsewhere(n),
         lines'["load"] >= lines["load"], reports'[n] <= 102,
         lines'[n] <= 12 + IF n = "encode" THEN lines["load"] ELSE 0
  PROVE  ReportsAreFew'
<1>1. \A m \in PhaseNames : lines[m] \in Nat /\ lines'[m] \in Nat
  <2>1. SinkTypeOK /\ SinkTypeOK'
    BY DEF TypeOK
  <2>2. QED
    BY <2>1 DEF SinkTypeOK
<1>2. "load" \in PhaseNames
  BY DEF PhaseNames
<1>3. SUFFICES ASSUME NEW m \in PhaseNames
               PROVE  /\ reports'[m] <= 102
                      /\ lines'[m] <= 12 + IF m = "encode" THEN lines'["load"] ELSE 0
  BY DEF ReportsAreFew
<1>4. CASE m = n
  BY <1>1, <1>2, <1>4
<1>5. CASE m # n
  BY <1>1, <1>2, <1>5 DEF ReportsAreFew, Elsewhere
<1>6. QED
  BY <1>4, <1>5

LEMMA CalmIsFew ==
  ASSUME ReportsAreFew, Calm
  PROVE  ReportsAreFew'
BY Zenon DEF ReportsAreFew, Calm

---------------------------------------------------------------------------
\* The invariant.

\* Nothing has been said of the phase.
Fresh(n) == lines[n] = 0 /\ reports[n] = 0 /\ log.name # n

\* The items the loop of the encode pass has reported, or passed over.
Passed == IF pc = "encoding" THEN item ELSE item + 1

Unmerged == Setup \cup {"quantized", "accounted", "loaded"}

Loads == Cardinality(loaded)

EncodeFew ==
  /\ pc \in {"idle", "started", "advised"} => Fresh("encode")
  /\ pc \in {"encoding", "latent", "caption"} =>
       Thrifty("encode", job.examples, 1 + lines["load"], Passed)

DatasetFew ==
  /\ pc \in EncodePlaces \cup {"encoded"} => Fresh("dataset")
  /\ pc = "planning" => Thrifty("dataset", job.examples, 0, item)

QuantizeFew ==
  /\ pc \in Unquantized => Fresh("quantize")
  /\ pc = "quantizing" => Thrifty("quantize", job.sites, 1, item)

\* The phases that never count take a line each time they are reported.
OthersFew ==
  /\ pc \in Unquantized \ {"skeleton"} => lines["load"] <= Loads
  /\ pc \in Unmerged => lines["merge"] = 0
  /\ pc \in Unmerged \cup {"merging", "scaled", "merged"} => lines["inject"] = 0

DemoFew ==
  /\ pc \notin {"encoding", "planning", "quantizing"}
  /\ pc \in {"idle", "downloading", "demo"} => lines["dataset"] = 0
  /\ pc = "decoding" => lines["dataset"] <= 1

FewInv ==
  /\ ReportsAreFew
  /\ job.trainer = "demo" => DemoFew
  /\ job.trainer = "diffusion" =>
       EncodeFew /\ DatasetFew /\ QuantizeFew /\ OthersFew

LEMMA PairIsTwo ==
  ASSUME NEW a, NEW b, NEW S \in SUBSET {a, b}
  PROVE  IsFiniteSet(S) /\ Cardinality(S) \in 0 .. 2
<1>1. IsFiniteSet({a}) /\ Cardinality({a}) = 1
  BY FS_Singleton
<1>2. /\ IsFiniteSet({a} \cup {b})
      /\ Cardinality({a} \cup {b}) \in 1 .. 2
  BY <1>1, FS_AddElement
<1>3. S \subseteq {a} \cup {b}
  OBVIOUS
<1>4. IsFiniteSet(S) /\ Cardinality(S) <= Cardinality({a} \cup {b})
  BY <1>2, <1>3, FS_Subset
<1>5. Cardinality(S) \in Nat
  BY <1>4, FS_CardinalityType
<1>6. QED
  BY <1>2, <1>4, <1>5

\* The encoders are two.
LEMMA LoadedAreTwo ==
  ASSUME NEW S \in SUBSET {"vae", "text encoder"}
  PROVE  IsFiniteSet(S) /\ Cardinality(S) \in 0 .. 2
BY PairIsTwo, Zenon
\* An encoder is loaded in the middle of the encode pass.
LEMMA LoadsAreFew ==
  ASSUME TypeOK, TypeOK', CountInv, FewInv, job.trainer = "diffusion",
         NEW encoder, Load(encoder), job' = job,
         pc \in {"encoding", "latent", "caption"},
         pc' \in {"encoding", "latent", "caption"}, Passed' = Passed
  PROVE  FewInv'
<1>i. /\ EncodeInv /\ EncodeFew /\ DatasetFew /\ QuantizeFew /\ OthersFew
      /\ ReportsAreFew
  BY Zenon DEF CountInv, FewInv
<1>j. /\ job.examples \in Nat \ {0} /\ item \in Nat
      /\ {"encode", "dataset", "quantize", "load", "merge", "inject"} \subseteq PhaseNames
  BY JobCounts DEF PhaseNames
<1>v. /\ log \in Lines
      /\ \A n \in PhaseNames :
           lines[n] \in Nat /\ reports[n] \in Nat /\ snapshot[n] \in Count
  BY SinkValues
<1>w. log' \in Lines
  BY DEF TypeOK, SinkTypeOK, Lines
<1>1. Told("load")
  BY ToldEvents DEF Load
<1>2. /\ Elsewhere("load") /\ reports'["load"] = reports["load"]
      /\ \/ lines'["load"] = lines["load"] + 1 /\ log'.name = "load"
         \/ lines'["load"] = lines["load"] /\ log' = log
  BY <1>1, <1>j, ToldValues
<1>3. encoder \notin loaded /\ loaded' = loaded \cup {encoder}
  BY DEF Load
<1>4. Loads' = Loads + 1 /\ Loads \in Nat /\ Loads' <= 2
  <2>1. IsFiniteSet(loaded) /\ Loads \in 0 .. 2 /\ Loads' \in 0 .. 2
    BY LoadedAreTwo DEF TypeOK, Loads
  <2>2. Loads' = Loads + 1
    BY <1>3, <2>1, FS_AddElement DEF Loads
  <2>3. QED
    BY <2>1, <2>2
<1>5. lines["load"] <= Loads
  BY <1>i DEF OthersFew, Unquantized, EncodePlaces
<1>6. lines'["load"] <= Loads' /\ lines'["load"] <= 12
  BY <1>2, <1>4, <1>5, <1>j, <1>v
<1>7. ReportsAreFew'
  <2>1. reports["load"] <= 102
    BY <1>i, <1>j DEF ReportsAreFew
  <2>2. lines'["load"] >= lines["load"]
    BY <1>2, <1>j, <1>v
  <2>3. lines'["load"] <= 12 + IF "load" = "encode" THEN lines["load"] ELSE 0
    BY <1>6
  <2>4. reports'["load"] <= 102
    BY <1>2, <2>1
  <2>5. QED
    BY <1>2, <1>i, <1>j, <2>2, <2>3, <2>4, OneIsFew
<1>8. Thrift("encode", log', lines'["encode"], reports'["encode"], snapshot'["encode"],
             job.examples, 1 + lines'["load"], Passed)
  <2>1. Thrift("encode", log, lines["encode"], reports["encode"], snapshot["encode"],
               job.examples, 1 + lines["load"], Passed)
    BY <1>i DEF EncodeFew, Thrifty
  <2>2. /\ lines'["encode"] = lines["encode"] /\ reports'["encode"] = reports["encode"]
        /\ snapshot'["encode"] = snapshot["encode"]
    BY <1>2, <1>j DEF Elsewhere
  <2>3. Passed \in Nat /\ Passed <= job.examples /\ 1 + lines["load"] \in Nat
    BY <1>i, <1>j, <1>v DEF Passed, EncodeInv
  <2>4. CASE lines'["load"] = lines["load"] + 1 /\ log'.name = "load"
    <3>1. Thrift("encode", log', lines["encode"], reports["encode"], snapshot["encode"],
                 job.examples, 1 + lines["load"] + 1, Passed)
      BY <1>j, <1>v, <1>w, <2>1, <2>3, <2>4, ThriftInterrupted
    <3>2. 1 + lines["load"] + 1 = 1 + lines'["load"]
      BY <1>j, <1>v, <2>4
    <3>3. QED
      BY <2>2, <3>1, <3>2
  <2>5. CASE lines'["load"] = lines["load"] /\ log' = log
    BY <2>1, <2>2, <2>5
  <2>6. QED
    BY <1>2, <2>4, <2>5
<1>9. EncodeFew'
  BY <1>8 DEF EncodeFew, Thrifty
<1>10. DatasetFew' /\ QuantizeFew' /\ OthersFew'
  <2>1. log'.name \in {"load", log.name}
    BY <1>2
  <2>2. QED
    BY <1>2, <1>6, <1>i, <1>j, <2>1
       DEF DatasetFew, QuantizeFew, OthersFew, Fresh, Elsewhere, EncodePlaces,
           Unquantized, Unmerged, Setup
<1>11. QED
  BY <1>7, <1>9, <1>10, Zenon DEF FewInv

LEMMA EncodingIsFew ==
  ASSUME TypeOK, TypeOK', CountInv, FewInv, job.trainer = "diffusion", Encoding
  PROVE  FewInv'
<1> USE DEF EncodePlaces, Unquantized, Quantized, Setup, Unmerged, Passed
<1>i. /\ EncodeInv /\ DatasetInv /\ QuantizeInv
      /\ EncodeFew /\ DatasetFew /\ QuantizeFew /\ OthersFew /\ ReportsAreFew
  BY Zenon DEF CountInv, FewInv
<1>j. /\ job.examples \in Nat \ {0} /\ job.sites \in Nat /\ item \in Nat
      /\ {"encode", "dataset", "quantize", "load", "merge", "inject"} \subseteq PhaseNames
  BY JobCounts DEF PhaseNames
<1>v. /\ log \in Lines
      /\ \A n \in PhaseNames :
           lines[n] \in Nat /\ reports[n] \in Nat /\ snapshot[n] \in Count
  BY SinkValues
<1>w. log' \in Lines /\ \A n \in PhaseNames : lines'[n] \in Nat /\ reports'[n] \in Nat
  <2>1. SinkTypeOK'
    BY DEF TypeOK
  <2>2. QED
    BY <2>1 DEF SinkTypeOK, Lines
<1>1. CASE Start
  <2>1. /\ Calm /\ job' = job /\ pc = "idle" /\ pc' = "started" /\ item' = item
        /\ loaded' = loaded
    BY <1>1, CalmEvents DEF Start, Announce, Goto
  <2>2. ReportsAreFew'
    BY <1>i, <2>1, CalmIsFew
  <2>3. EncodeFew' /\ DatasetFew' /\ QuantizeFew' /\ OthersFew'
    BY <1>i, <1>j, <1>v, <2>1
       DEF EncodeFew, DatasetFew, QuantizeFew, OthersFew, Calm, Fresh, Thrifty, Loads
  <2>4. QED
    BY <2>1, <2>2, <2>3, Zenon DEF FewInv
<1>2. CASE Preflight
  <2>1. /\ Calm /\ job' = job /\ pc = "started" /\ pc' = "advised" /\ item' = item
        /\ loaded' = loaded
    BY <1>2, CalmEvents DEF Preflight, Advise, Goto
  <2>2. ReportsAreFew'
    BY <1>i, <2>1, CalmIsFew
  <2>3. EncodeFew' /\ DatasetFew' /\ QuantizeFew' /\ OthersFew'
    BY <1>i, <1>j, <1>v, <2>1
       DEF EncodeFew, DatasetFew, QuantizeFew, OthersFew, Calm, Fresh, Thrifty, Loads
  <2>4. QED
    BY <2>1, <2>2, <2>3, Zenon DEF FewInv
<1>3. CASE Scan
  <2>1. /\ Told("encode") /\ job' = job /\ pc = "advised"
        /\ pc' = "encoding" /\ item' = item
        /\ loaded' = loaded
    BY <1>3, ToldEvents DEF Scan, Announce, Goto
  <2>2. /\ Elsewhere("encode") /\ reports'["encode"] = reports["encode"]
        /\ snapshot'["encode"] = snapshot["encode"]
        /\ \/ /\ lines'["encode"] = lines["encode"] + 1
              /\ log'.name = "encode" /\ log'.decile = NoDecile
           \/ lines'["encode"] = lines["encode"] /\ log' = log /\ log.name = "encode"
    BY <1>j, <2>1, ToldValues
  <2>3. Fresh("encode") /\ snapshot["encode"] = NoCount /\ item = 0
    BY <1>i, <2>1 DEF EncodeFew, EncodeInv, Uncounted
  <2>4. lines'["encode"] = 1 /\ reports'["encode"] = 0
    BY <2>2, <2>3 DEF Fresh
  <2>5. Thrift("encode", log', 1, 0, NoCount, job.examples, 1 + lines["load"], 0)
    BY <1>j, <1>v, <2>2, <2>3, ThriftOpens DEF Fresh
  <2>6. lines'["load"] = lines["load"] /\ log'.name = "encode"
    BY <1>j, <2>2 DEF Elsewhere
  <2>7. ReportsAreFew'
    BY <1>i, <1>j, <1>v, <2>2, <2>4, <2>6, OneIsFew
  <2>8. EncodeFew' /\ DatasetFew' /\ QuantizeFew' /\ OthersFew'
    BY <1>i, <1>j, <1>v, <2>1, <2>2, <2>3, <2>4, <2>5, <2>6
      
          DEF EncodeFew, DatasetFew, QuantizeFew, OthersFew, Fresh, Thrifty, Loads, Elsewhere
  <2>9. QED
    BY <2>1, <2>7, <2>8, Zenon DEF FewInv
<1>4. CASE ReportEntry
  <2>1. /\ job' = job /\ pc = "encoding" /\ pc' = "latent" /\ item' = item
        /\ loaded' = loaded /\ item < job.examples
        /\ \/ Report("encode", "cached", job.examples)
           \/ Emit(Counted("encode", "encoding", item, job.examples))
    BY <1>4 DEF ReportEntry, Goto
  <2>2. Thrifty("encode", job.examples, 1 + lines["load"], item)
    BY <1>i, <2>1 DEF EncodeFew
  <2>3. /\ Thrift("encode", log', lines'["encode"], reports'["encode"],
                   snapshot'["encode"], job.examples, 1 + lines["load"], item + 1)
        /\ Elsewhere("encode") /\ log'.name \in {log.name, "encode"}
    <3>1. 1 + lines["load"] \in Nat
      BY <1>j, <1>v
    <3>2. CASE Report("encode", "cached", job.examples)
      BY <1>j, <2>1, <2>2, <3>1, <3>2, LoopReports
    <3>3. CASE Emit(Counted("encode", "encoding", item, job.examples))
      BY <1>j, <2>1, <2>2, <3>1, <3>3, LoopReports
    <3>4. QED
      BY <2>1, <3>2, <3>3
  <2>4. lines'["load"] = lines["load"]
    BY <1>j, <2>3 DEF Elsewhere
  <2>5. /\ reports'["encode"] <= 101 /\ lines'["encode"] <= 11 + lines["load"]
    <3>1. snapshot'["encode"] \in Count
      BY <1>j DEF TypeOK, SinkTypeOK
    <3>2. item + 1 \in Nat /\ item + 1 <= job.examples /\ 1 + lines["load"] \in Nat
      BY <1>j, <1>v, <2>1
    <3>3. /\ reports'["encode"] <= 101
          /\ lines'["encode"] <= 1 + lines["load"] + 10
      BY <1>j, <1>w, <2>3, <3>1, <3>2, ThriftIsFew
    <3>4. QED
      BY <1>j, <1>v, <1>w, <3>3
  <2>6. ReportsAreFew'
    <3>1. reports'["encode"] <= 102 /\ lines'["encode"] <= 12 + lines["load"]
      BY <1>j, <1>v, <1>w, <2>5
    <3>2. QED
      BY <1>i, <1>j, <1>v, <2>3, <2>4, <3>1, OneIsFew
  <2>7. EncodeFew' /\ DatasetFew' /\ QuantizeFew' /\ OthersFew'
    BY <1>i, <1>j, <2>1, <2>3, <2>4
      
          DEF EncodeFew, DatasetFew, QuantizeFew, OthersFew, Fresh, Thrifty, Loads, Elsewhere
  <2>8. QED
    BY <2>1, <2>6, <2>7, Zenon DEF FewInv
<1>5. CASE Latent
  <2>1. pc = "latent" /\ pc' = "caption" /\ job' = job
    BY <1>5 DEF Latent, Goto
  <2>2. CASE Load("vae")
    <3>1. item' = item
      BY <2>2 DEF Load
    <3>2. QED
      BY <2>1, <2>2, <3>1, LoadsAreFew
  <2>3. CASE Quiet /\ UNCHANGED <<item, loaded, step>>
    <3>1. Calm /\ item' = item /\ loaded' = loaded
      BY <2>3, CalmEvents
    <3>2. ReportsAreFew'
      BY <1>i, <3>1, CalmIsFew
    <3>3. EncodeFew' /\ DatasetFew' /\ QuantizeFew' /\ OthersFew'
      BY <1>i, <2>1, <3>1
         DEF EncodeFew, DatasetFew, QuantizeFew, OthersFew, Calm, Fresh, Thrifty, Loads
    <3>4. QED
      BY <2>1, <3>2, <3>3, Zenon DEF FewInv
  <2>4. QED
    BY <1>5, <2>2, <2>3 DEF Latent
<1>6. CASE Caption
  <2>1. /\ Calm /\ job' = job /\ pc = "caption" /\ pc' = "encoding" /\ item' = item + 1
        /\ loaded' = loaded
    BY <1>6, CalmEvents DEF Caption, Goto
  <2>2. ReportsAreFew'
    BY <1>i, <2>1, CalmIsFew
  <2>3. EncodeFew' /\ DatasetFew' /\ QuantizeFew' /\ OthersFew'
    BY <1>i, <1>j, <1>v, <2>1
       DEF EncodeFew, DatasetFew, QuantizeFew, OthersFew, Calm, Fresh, Thrifty, Loads
  <2>4. QED
    BY <2>1, <2>2, <2>3, Zenon DEF FewInv
<1>7. CASE LoadForCaption
  <2>1. /\ Load("text encoder") /\ job' = job /\ pc' = pc /\ item' = item
        /\ pc \in {"encoding", "caption"}
    BY <1>7 DEF LoadForCaption, Load
  <2>2. QED
    BY <2>1, LoadsAreFew
<1>8. CASE CacheReady
  <2>1. /\ job' = job /\ pc = "encoding" /\ pc' = "encoded" /\ item' = item
        /\ loaded' = loaded /\ item = job.examples
        /\ Emit(Counted("encode", "ready", job.examples, job.examples))
    BY <1>8 DEF CacheReady, Goto
  <2>2. job.examples \in Nat \ {0} /\ 1 + lines["load"] \in Nat
    BY <1>i, <1>j, <1>v, <2>1 DEF QuantizeInv
  <2>3. Counts("encode", "ready", job.examples, job.examples)
    BY <2>1, <2>2, CountingEvents
  <2>4. /\ Elsewhere("encode") /\ reports'["encode"] = reports["encode"] + 1
        /\ lines'["encode"] \in {lines["encode"], lines["encode"] + 1}
        /\ log'.name = "encode"
    <3>1. "encode" \in PhaseNames /\ job.examples \in Nat
      BY <1>j, <2>2
    <3>2. /\ Elsewhere("encode")
          /\ reports'["encode"] = reports["encode"] + IF "ready" = "encoding" THEN 0 ELSE 1
          /\ lines'["encode"] \in {lines["encode"], lines["encode"] + 1}
          /\ log'.name = "encode"
      BY <2>2, <2>3, <3>1, CountsValues, Zenon
    <3>3. QED
      BY <3>2
  <2>5. Thrift("encode", log, lines["encode"], reports["encode"], snapshot["encode"],
               job.examples, 1 + lines["load"], item)
    BY <1>i, <2>1 DEF EncodeFew, Thrifty
  <2>6. reports["encode"] <= 101 /\ lines["encode"] <= 1 + lines["load"] + 10
    BY <1>j, <1>v, <2>1, <2>2, <2>5, ThriftIsFew
  <2>7. lines'["load"] = lines["load"]
    BY <1>j, <2>4 DEF Elsewhere
  <2>8. reports'["encode"] <= 102 /\ lines'["encode"] <= 12 + lines["load"]
    BY <1>j, <1>v, <2>4, <2>6
  <2>9. ReportsAreFew'
    BY <1>i, <1>j, <1>v, <2>4, <2>7, <2>8, OneIsFew
  <2>10. EncodeFew' /\ DatasetFew' /\ QuantizeFew' /\ OthersFew'
    BY <1>i, <1>j, <2>1, <2>4, <2>7
      
          DEF EncodeFew, DatasetFew, QuantizeFew, OthersFew, Fresh, Thrifty, Loads, Elsewhere
  <2>11. QED
    BY <2>1, <2>9, <2>10, Zenon DEF FewInv
<1>9. CASE Dispatch
  <2>1. /\ Calm /\ job' = job /\ pc = "encoded" /\ pc' = "planning" /\ item' = 0
        /\ loaded' = loaded
    BY <1>9, CalmEvents DEF Dispatch, Goto
  <2>2. ReportsAreFew'
    BY <1>i, <2>1, CalmIsFew
  <2>3. Fresh("dataset") /\ snapshot["dataset"] = NoCount
    BY <1>i, <2>1 DEF DatasetFew, DatasetInv, Uncounted
  <2>4. Thrift("dataset", log, 0, 0, NoCount, job.examples, 0, 0)
    BY <2>3, ThriftOpens DEF Fresh
  <2>5. EncodeFew' /\ DatasetFew' /\ QuantizeFew' /\ OthersFew'
    BY <1>i, <1>j, <2>1, <2>3, <2>4
       DEF EncodeFew, DatasetFew, QuantizeFew, OthersFew, Calm, Fresh, Thrifty, Loads
  <2>6. QED
    BY <2>1, <2>2, <2>5, Zenon DEF FewInv
<1>10. QED
  BY <1>1, <1>2, <1>3, <1>4, <1>5, <1>6, <1>7, <1>8, <1>9 DEF Encoding

LEMMA PreparingIsFew ==
  ASSUME TypeOK, TypeOK', CountInv, FewInv, job.trainer = "diffusion", Preparing
  PROVE  FewInv'
<1> USE DEF EncodePlaces, Unquantized, Quantized, Setup, Unmerged, Passed
<1>i. /\ EncodeInv /\ DatasetInv /\ QuantizeInv
      /\ EncodeFew /\ DatasetFew /\ QuantizeFew /\ OthersFew /\ ReportsAreFew
  BY Zenon DEF CountInv, FewInv
<1>j. /\ job.examples \in Nat \ {0} /\ job.sites \in Nat /\ item \in Nat
      /\ {"encode", "dataset", "quantize", "load", "merge", "inject"} \subseteq PhaseNames
  BY JobCounts DEF PhaseNames
<1>v. /\ log \in Lines
      /\ \A n \in PhaseNames :
           lines[n] \in Nat /\ reports[n] \in Nat /\ snapshot[n] \in Count
  BY SinkValues
<1>w. log' \in Lines /\ \A n \in PhaseNames : lines'[n] \in Nat /\ reports'[n] \in Nat
  <2>1. SinkTypeOK'
    BY DEF TypeOK
  <2>2. QED
    BY <2>1 DEF SinkTypeOK, Lines
<1>1. CASE PlanEntry
  <2>1. /\ job' = job /\ pc = "planning" /\ pc' = "planning" /\ item' = item + 1
        /\ loaded' = loaded /\ item < job.examples
        /\ \E d \in Details : Report("dataset", d, job.examples)
    BY <1>1 DEF PlanEntry, Goto, Details
  <2>2. PICK d : Report("dataset", d, job.examples)
    BY <2>1
  <2>3. Thrifty("dataset", job.examples, 0, item)
    BY <1>i, <2>1 DEF DatasetFew
  <2>4. job.examples \in Nat \ {0} /\ item + 1 \in Nat /\ item + 1 <= job.examples
    BY <1>j, <2>1
  <2>5. /\ Thrift("dataset", log', lines'["dataset"], reports'["dataset"],
                   snapshot'["dataset"], job.examples, 0, item + 1)
        /\ Elsewhere("dataset") /\ log'.name \in {log.name, "dataset"}
    BY <1>j, <2>1, <2>2, <2>3, <2>4, LoopReports
  <2>6. lines'["load"] = lines["load"]
    BY <1>j, <2>5 DEF Elsewhere
  <2>7. snapshot'["dataset"] \in Count
    BY <1>j DEF TypeOK, SinkTypeOK
  <2>8. reports'["dataset"] <= 101 /\ lines'["dataset"] <= 0 + 10
    BY <1>j, <1>w, <2>4, <2>5, <2>7, ThriftIsFew
  <2>9. ReportsAreFew'
    <3>1. /\ reports'["dataset"] <= 102
          /\ lines'["dataset"] <= 12 + IF "dataset" = "encode" THEN lines["load"] ELSE 0
      BY <1>j, <1>w, <2>8
    <3>2. QED
      BY <1>i, <1>j, <1>v, <2>5, <2>6, <3>1, OneIsFew
  <2>10. EncodeFew' /\ DatasetFew' /\ QuantizeFew' /\ OthersFew'
    BY <1>i, <1>j, <2>1, <2>5, <2>6
      
          DEF EncodeFew, DatasetFew, QuantizeFew, OthersFew, Fresh, Thrifty, Loads, Elsewhere
  <2>11. QED
    BY <2>1, <2>9, <2>10, Zenon DEF FewInv
<1>2. CASE Summarize
  <2>1. /\ Told("dataset") /\ job' = job /\ pc = "planning"
        /\ pc' = "planned" /\ item' = item
        /\ loaded' = loaded
    BY <1>2, ToldEvents DEF Summarize, Announce, Goto
  <2>2. /\ Elsewhere("dataset") /\ reports'["dataset"] = reports["dataset"]
        /\ snapshot'["dataset"] = snapshot["dataset"]
        /\ \/ /\ lines'["dataset"] = lines["dataset"] + 1
              /\ log'.name = "dataset" /\ log'.decile = NoDecile
           \/ lines'["dataset"] = lines["dataset"] /\ log' = log /\ log.name = "dataset"
    BY <1>j, <2>1, ToldValues
  <2>3. lines["dataset"] <= 11
    <3>1. Thrift("dataset", log, lines["dataset"], reports["dataset"],
                 snapshot["dataset"], job.examples, 0, item)
      BY <1>i, <2>1 DEF DatasetFew, Thrifty
    <3>2. item <= job.examples
      BY <1>i, <2>1 DEF DatasetInv
    <3>3. lines["dataset"] <= 0 + 10
      BY <1>j, <1>v, <3>1, <3>2, ThriftIsFew
    <3>4. QED
      BY <1>j, <1>v, <3>3
  <2>4. lines'["load"] >= lines["load"]
    BY <1>j, <1>v, <2>2 DEF Elsewhere
  <2>5. reports["dataset"] <= 102
    BY <1>i, <1>j DEF ReportsAreFew
  <2>6. /\ reports'["dataset"] <= 102
        /\ lines'["dataset"] <= 12 + IF "dataset" = "encode" THEN lines["load"] ELSE 0
    BY <1>j, <1>v, <2>2, <2>3, <2>5
  <2>7. ReportsAreFew'
    BY <1>i, <1>j, <2>2, <2>4, <2>6, OneIsFew
  <2>8. log'.name \in {log.name, "dataset"}
    BY <2>2
  <2>9. EncodeFew' /\ DatasetFew' /\ QuantizeFew' /\ OthersFew'
    BY <1>i, <1>j, <2>1, <2>2, <2>8
      
          DEF EncodeFew, DatasetFew, QuantizeFew, OthersFew, Fresh, Thrifty, Loads, Elsewhere
  <2>10. QED
    BY <2>1, <2>7, <2>9, Zenon DEF FewInv
<1>3. CASE LoadDenoiser
  <2>1. /\ Told("load") /\ job' = job /\ pc = "planned"
        /\ pc' \in {"skeleton", "loaded"} /\ item' = item
        /\ loaded' = loaded
    BY <1>3, ToldEvents DEF LoadDenoiser, Announce, Goto
  <2>2. /\ Elsewhere("load") /\ reports'["load"] = reports["load"]
        /\ snapshot'["load"] = snapshot["load"]
        /\ \/ /\ lines'["load"] = lines["load"] + 1
              /\ log'.name = "load" /\ log'.decile = NoDecile
           \/ lines'["load"] = lines["load"] /\ log' = log /\ log.name = "load"
    BY <1>j, <2>1, ToldValues
  <2>3. lines["load"] <= 11
    <3>1. lines["load"] <= Loads /\ Loads \in 0 .. 2
      BY <1>i, <2>1, LoadedAreTwo DEF OthersFew, Loads, TypeOK
    <3>2. QED
      BY <1>j, <1>v, <3>1
  <2>4. lines'["load"] >= lines["load"]
    BY <1>j, <1>v, <2>2 DEF Elsewhere
  <2>5. reports["load"] <= 102
    BY <1>i, <1>j DEF ReportsAreFew
  <2>6. /\ reports'["load"] <= 102
        /\ lines'["load"] <= 12 + IF "load" = "encode" THEN lines["load"] ELSE 0
    BY <1>j, <1>v, <2>2, <2>3, <2>5
  <2>7. ReportsAreFew'
    BY <1>i, <1>j, <2>2, <2>4, <2>6, OneIsFew
  <2>8. log'.name \in {log.name, "load"}
    BY <2>2
  <2>9. EncodeFew' /\ DatasetFew' /\ QuantizeFew' /\ OthersFew'
    BY <1>i, <1>j, <2>1, <2>2, <2>8
      
          DEF EncodeFew, DatasetFew, QuantizeFew, OthersFew, Fresh, Thrifty, Loads, Elsewhere
  <2>10. QED
    BY <2>1, <2>7, <2>9, Zenon DEF FewInv
<1>4. CASE Skeleton
  <2>1. /\ Told("quantize") /\ job' = job /\ pc = "skeleton"
        /\ pc' = "quantizing" /\ item' = 0
        /\ loaded' = loaded
    BY <1>4, ToldEvents DEF Skeleton, Goto
  <2>2. /\ Elsewhere("quantize") /\ reports'["quantize"] = reports["quantize"]
        /\ snapshot'["quantize"] = snapshot["quantize"]
        /\ \/ /\ lines'["quantize"] = lines["quantize"] + 1
              /\ log'.name = "quantize" /\ log'.decile = NoDecile
           \/ lines'["quantize"] = lines["quantize"] /\ log' = log /\ log.name = "quantize"
    BY <1>j, <2>1, ToldValues
  <2>3. lines["quantize"] <= 11
    BY <1>i, <1>j, <2>1 DEF QuantizeFew, Fresh
  <2>4. lines'["load"] >= lines["load"]
    BY <1>j, <1>v, <2>2 DEF Elsewhere
  <2>5. reports["quantize"] <= 102
    BY <1>i, <1>j DEF ReportsAreFew
  <2>6. /\ reports'["quantize"] <= 102
        /\ lines'["quantize"] <= 12 + IF "quantize" = "encode" THEN lines["load"] ELSE 0
    BY <1>j, <1>v, <2>2, <2>3, <2>5
  <2>7. ReportsAreFew'
    BY <1>i, <1>j, <2>2, <2>4, <2>6, OneIsFew
  <2>8. log'.name \in {log.name, "quantize"}
    BY <2>2
  <2>s. Fresh("quantize") /\ snapshot["quantize"] = NoCount
    BY <1>i, <2>1 DEF QuantizeFew, QuantizeInv, Uncounted
  <2>t. /\ lines'["quantize"] = 1 /\ reports'["quantize"] = 0
        /\ snapshot'["quantize"] = NoCount
    BY <2>2, <2>s DEF Fresh
  <2>u. Thrift("quantize", log', 1, 0, NoCount, job.sites, 1, 0)
    BY <2>2, <2>s, ThriftOpens DEF Fresh
  <2>9. EncodeFew' /\ DatasetFew' /\ QuantizeFew' /\ OthersFew'
    BY <1>i, <1>j, <2>1, <2>2, <2>8, <2>t, <2>u
      
          DEF EncodeFew, DatasetFew, QuantizeFew, OthersFew, Fresh, Thrifty, Loads, Elsewhere
  <2>10. QED
    BY <2>1, <2>7, <2>9, Zenon DEF FewInv
<1>5. CASE QuantizeSite
  <2>1. /\ job' = job /\ pc = "quantizing" /\ pc' = "quantizing" /\ item' = item + 1
        /\ loaded' = loaded /\ item < job.sites
        /\ \E d \in Details : Report("quantize", d, job.sites)
    BY <1>5 DEF QuantizeSite, Goto, Details
  <2>2. PICK d : Report("quantize", d, job.sites)
    BY <2>1
  <2>3. Thrifty("quantize", job.sites, 1, item)
    BY <1>i, <2>1 DEF QuantizeFew
  <2>4. job.sites \in Nat \ {0} /\ item + 1 \in Nat /\ item + 1 <= job.sites
    BY <1>j, <2>1
  <2>5. /\ Thrift("quantize", log', lines'["quantize"], reports'["quantize"],
                   snapshot'["quantize"], job.sites, 1, item + 1)
        /\ Elsewhere("quantize") /\ log'.name \in {log.name, "quantize"}
    BY <1>j, <2>1, <2>2, <2>3, <2>4, LoopReports
  <2>6. lines'["load"] = lines["load"]
    BY <1>j, <2>5 DEF Elsewhere
  <2>7. snapshot'["quantize"] \in Count
    BY <1>j DEF TypeOK, SinkTypeOK
  <2>8. reports'["quantize"] <= 101 /\ lines'["quantize"] <= 1 + 10
    BY <1>j, <1>w, <2>4, <2>5, <2>7, ThriftIsFew
  <2>9. ReportsAreFew'
    <3>1. /\ reports'["quantize"] <= 102
          /\ lines'["quantize"] <= 12 +
                  IF "quantize" = "encode" THEN lines["load"] ELSE 0
      BY <1>j, <1>w, <2>8
    <3>2. QED
      BY <1>i, <1>j, <1>v, <2>5, <2>6, <3>1, OneIsFew
  <2>10. EncodeFew' /\ DatasetFew' /\ QuantizeFew' /\ OthersFew'
    BY <1>i, <1>j, <2>1, <2>5, <2>6
      
          DEF EncodeFew, DatasetFew, QuantizeFew, OthersFew, Fresh, Thrifty, Loads, Elsewhere
  <2>11. QED
    BY <2>1, <2>9, <2>10, Zenon DEF FewInv
<1>6. CASE CloseQuantize
  <2>1. /\ job' = job /\ pc = "quantizing" /\ pc' = "quantized" /\ item' = item
        /\ loaded' = loaded /\ item = job.sites
        /\ Emit(Counted("quantize", "site", job.sites, job.sites))
    BY <1>6 DEF CloseQuantize, Announce, Goto
  <2>2. job.sites \in Nat \ {0} /\ 1 \in Nat
    BY <1>i, <1>j, <1>v, <2>1 DEF QuantizeInv
  <2>3. Counts("quantize", "site", job.sites, job.sites)
    BY <2>1, <2>2, CountingEvents
  <2>4. /\ Elsewhere("quantize") /\ reports'["quantize"] = reports["quantize"] + 1
        /\ lines'["quantize"] \in {lines["quantize"], lines["quantize"] + 1}
        /\ log'.name = "quantize"
    <3>1. "quantize" \in PhaseNames /\ job.sites \in Nat
      BY <1>j, <2>2
    <3>2. /\ Elsewhere("quantize")
          /\ reports'["quantize"] = reports["quantize"] 
               + IF "site" = "encoding" THEN 0 ELSE 1
          /\ lines'["quantize"] \in {lines["quantize"], lines["quantize"] + 1}
          /\ log'.name = "quantize"
      BY <2>2, <2>3, <3>1, CountsValues, Zenon
    <3>3. QED
      BY <3>2
  <2>5. Thrift("quantize", log, lines["quantize"], reports["quantize"],
                snapshot["quantize"],
               job.sites, 1, item)
    BY <1>i, <2>1 DEF QuantizeFew, Thrifty
  <2>6. reports["quantize"] <= 101 /\ lines["quantize"] <= 1 + 10
    BY <1>j, <1>v, <2>1, <2>2, <2>5, ThriftIsFew
  <2>7. lines'["load"] = lines["load"]
    BY <1>j, <2>4 DEF Elsewhere
  <2>8. reports'["quantize"] <= 102 /\ lines'["quantize"] <= 12 +
          IF "quantize" = "encode" THEN lines["load"] ELSE 0
    BY <1>j, <1>v, <2>4, <2>6
  <2>9. ReportsAreFew'
    BY <1>i, <1>j, <1>v, <2>4, <2>7, <2>8, OneIsFew
  <2>10. EncodeFew' /\ DatasetFew' /\ QuantizeFew' /\ OthersFew'
    BY <1>i, <1>j, <2>1, <2>4, <2>7
      
          DEF EncodeFew, DatasetFew, QuantizeFew, OthersFew, Fresh, Thrifty, Loads, Elsewhere
  <2>11. QED
    BY <2>1, <2>9, <2>10, Zenon DEF FewInv
<1>7. CASE Account
  <2>1. /\ Calm /\ job' = job /\ pc = "quantized" /\ pc' = "accounted" /\ item' = item
        /\ loaded' = loaded
    BY <1>7, CalmEvents DEF Account, Announce, Goto
  <2>2. ReportsAreFew'
    BY <1>i, <2>1, CalmIsFew
  <2>3. EncodeFew' /\ DatasetFew' /\ QuantizeFew' /\ OthersFew'
    BY <1>i, <1>j, <1>v, <2>1
       DEF EncodeFew, DatasetFew, QuantizeFew, OthersFew, Calm, Fresh, Thrifty, Loads
  <2>4. QED
    BY <2>1, <2>2, <2>3, Zenon DEF FewInv
<1>8. CASE NoteChunks
  <2>1. /\ Calm /\ job' = job /\ pc = "accounted" /\ pc' = "loaded" /\ item' = item
        /\ loaded' = loaded
    BY <1>8, CalmEvents DEF NoteChunks, Advise, Goto
  <2>2. ReportsAreFew'
    BY <1>i, <2>1, CalmIsFew
  <2>3. EncodeFew' /\ DatasetFew' /\ QuantizeFew' /\ OthersFew'
    BY <1>i, <1>j, <1>v, <2>1
       DEF EncodeFew, DatasetFew, QuantizeFew, OthersFew, Calm, Fresh, Thrifty, Loads
  <2>4. QED
    BY <2>1, <2>2, <2>3, Zenon DEF FewInv
<1>9. CASE Merge
  <2>1. /\ Told("merge") /\ job' = job /\ pc = "loaded"
        /\ pc' = "merging" /\ item' = item
        /\ loaded' = loaded
    BY <1>9, ToldEvents DEF Merge, Announce, Goto
  <2>2. /\ Elsewhere("merge") /\ reports'["merge"] = reports["merge"]
        /\ snapshot'["merge"] = snapshot["merge"]
        /\ \/ /\ lines'["merge"] = lines["merge"] + 1
              /\ log'.name = "merge" /\ log'.decile = NoDecile
           \/ lines'["merge"] = lines["merge"] /\ log' = log /\ log.name = "merge"
    BY <1>j, <2>1, ToldValues
  <2>3. lines["merge"] <= 11
    BY <1>i, <2>1 DEF OthersFew
  <2>4. lines'["load"] >= lines["load"]
    BY <1>j, <1>v, <2>2 DEF Elsewhere
  <2>5. reports["merge"] <= 102
    BY <1>i, <1>j DEF ReportsAreFew
  <2>6. /\ reports'["merge"] <= 102
        /\ lines'["merge"] <= 12 + IF "merge" = "encode" THEN lines["load"] ELSE 0
    BY <1>j, <1>v, <2>2, <2>3, <2>5
  <2>7. ReportsAreFew'
    BY <1>i, <1>j, <2>2, <2>4, <2>6, OneIsFew
  <2>8. log'.name \in {log.name, "merge"}
    BY <2>2
  <2>9. EncodeFew' /\ DatasetFew' /\ QuantizeFew' /\ OthersFew'
    BY <1>i, <1>j, <2>1, <2>2, <2>8
      
          DEF EncodeFew, DatasetFew, QuantizeFew, OthersFew, Fresh, Thrifty, Loads, Elsewhere
  <2>10. QED
    BY <2>1, <2>7, <2>9, Zenon DEF FewInv
<1>10. CASE NoteScaling
  <2>1. /\ Calm /\ job' = job /\ pc = "merging" /\ pc' = "scaled" /\ item' = item
        /\ loaded' = loaded
    BY <1>10, CalmEvents DEF NoteScaling, Advise, Goto
  <2>2. ReportsAreFew'
    BY <1>i, <2>1, CalmIsFew
  <2>3. EncodeFew' /\ DatasetFew' /\ QuantizeFew' /\ OthersFew'
    BY <1>i, <1>j, <1>v, <2>1
       DEF EncodeFew, DatasetFew, QuantizeFew, OthersFew, Calm, Fresh, Thrifty, Loads
  <2>4. QED
    BY <2>1, <2>2, <2>3, Zenon DEF FewInv
<1>11. CASE Merged
  <2>1. /\ Calm /\ job' = job /\ pc = "scaled" /\ pc' = "merged" /\ item' = item
        /\ loaded' = loaded
    BY <1>11, CalmEvents DEF Merged, Announce, Goto
  <2>2. ReportsAreFew'
    BY <1>i, <2>1, CalmIsFew
  <2>3. EncodeFew' /\ DatasetFew' /\ QuantizeFew' /\ OthersFew'
    BY <1>i, <1>j, <1>v, <2>1
       DEF EncodeFew, DatasetFew, QuantizeFew, OthersFew, Calm, Fresh, Thrifty, Loads
  <2>4. QED
    BY <2>1, <2>2, <2>3, Zenon DEF FewInv
<1>12. CASE Inject
  <2>1. /\ Told("inject") /\ job' = job /\ pc \in {"loaded", "merged"}
        /\ pc' = "injected" /\ item' = item
        /\ loaded' = loaded
    BY <1>12, ToldEvents DEF Inject, Announce, Goto
  <2>2. /\ Elsewhere("inject") /\ reports'["inject"] = reports["inject"]
        /\ snapshot'["inject"] = snapshot["inject"]
        /\ \/ /\ lines'["inject"] = lines["inject"] + 1
              /\ log'.name = "inject" /\ log'.decile = NoDecile
           \/ lines'["inject"] = lines["inject"] /\ log' = log /\ log.name = "inject"
    BY <1>j, <2>1, ToldValues
  <2>3. lines["inject"] <= 11
    BY <1>i, <2>1 DEF OthersFew
  <2>4. lines'["load"] >= lines["load"]
    BY <1>j, <1>v, <2>2 DEF Elsewhere
  <2>5. reports["inject"] <= 102
    BY <1>i, <1>j DEF ReportsAreFew
  <2>6. /\ reports'["inject"] <= 102
        /\ lines'["inject"] <= 12 + IF "inject" = "encode" THEN lines["load"] ELSE 0
    BY <1>j, <1>v, <2>2, <2>3, <2>5
  <2>7. ReportsAreFew'
    BY <1>i, <1>j, <2>2, <2>4, <2>6, OneIsFew
  <2>8. log'.name \in {log.name, "inject"}
    BY <2>2
  <2>9. EncodeFew' /\ DatasetFew' /\ QuantizeFew' /\ OthersFew'
    BY <1>i, <1>j, <2>1, <2>2, <2>8
      
          DEF EncodeFew, DatasetFew, QuantizeFew, OthersFew, Fresh, Thrifty, Loads, Elsewhere
  <2>10. QED
    BY <2>1, <2>7, <2>9, Zenon DEF FewInv
<1>13. CASE EnterLoop
  <2>1. /\ Calm /\ job' = job /\ pc = "injected" /\ pc' = "looping" /\ item' = item
        /\ loaded' = loaded
    BY <1>13, CalmEvents DEF EnterLoop, Goto
  <2>2. ReportsAreFew'
    BY <1>i, <2>1, CalmIsFew
  <2>3. EncodeFew' /\ DatasetFew' /\ QuantizeFew' /\ OthersFew'
    BY <1>i, <1>j, <1>v, <2>1
       DEF EncodeFew, DatasetFew, QuantizeFew, OthersFew, Calm, Fresh, Thrifty, Loads
  <2>4. QED
    BY <2>1, <2>2, <2>3, Zenon DEF FewInv
<1>14. QED
  BY <1>1, <1>2, <1>3, <1>4, <1>5, <1>6, <1>7, <1>8, <1>9, <1>10, <1>11, <1>12, <1>13
     DEF Preparing

LEMMA SteppingIsFew ==
  ASSUME FewInv, job.trainer = "diffusion", Stepping
  PROVE  FewInv'
<1>1. Calm /\ job' = job
  BY CalmEvents, Zenon
     DEF Stepping, TakeStep, Update, Save, AnnounceCheckpoint, Export, Finish,
         Announce, Goto
<1>2. ReportsAreFew'
  BY <1>1, CalmIsFew DEF FewInv
<1>3. pc' \in {"looping", "updating", "saving", "saved", "exported", "done"}
  BY DEF Stepping, TakeStep, Update, Save, AnnounceCheckpoint, Export, Finish,
         Announce, Goto
<1>4. EncodeFew' /\ DatasetFew' /\ QuantizeFew' /\ OthersFew'
  BY <1>3 DEF EncodeFew, DatasetFew, QuantizeFew, OthersFew, EncodePlaces,
              Unquantized, Unmerged, Setup
<1>5. QED
  BY <1>1, <1>2, <1>4, Zenon DEF FewInv

LEMMA DemoIsFew ==
  ASSUME TypeOK, TypeOK', FewInv, job.trainer = "demo", DemoNext \/ Finish
  PROVE  FewInv'
<1>i. ReportsAreFew /\ DemoFew
  BY Zenon DEF FewInv
<1>j. {"dataset", "load"} \subseteq PhaseNames
  BY DEF PhaseNames
<1>v. \A n \in PhaseNames : lines[n] \in Nat /\ reports[n] \in Nat
  BY SinkValues
<1>1. CASE DemoLoads \/ DemoLoaded
  <2>1. /\ Told("dataset") /\ job' = job
        /\ \/ pc = "downloading" /\ pc' = "decoding"
           \/ pc = "decoding" /\ pc' # "decoding"
        /\ pc' \notin {"idle", "downloading", "demo", "encoding", "planning", "quantizing"}
    BY <1>1, ToldEvents DEF DemoLoads, DemoLoaded, Announce, Goto
  <2>2. /\ Elsewhere("dataset") /\ reports'["dataset"] = reports["dataset"]
        /\ lines'["dataset"] \in {lines["dataset"], lines["dataset"] + 1}
    BY <1>j, <2>1, ToldValues
  <2>3. DemoFew' /\ lines'["dataset"] <= 2
    BY <1>i, <1>j, <1>v, <2>1, <2>2 DEF DemoFew
  <2>4. lines'["load"] >= lines["load"]
    BY <1>j, <1>v, <2>2 DEF Elsewhere
  <2>5. /\ reports'["dataset"] <= 102
        /\ lines'["dataset"] <= 12 + IF "dataset" = "encode" THEN lines["load"] ELSE 0
    <3>1. reports["dataset"] <= 102
      BY <1>i, <1>j DEF ReportsAreFew
    <3>2. lines'["dataset"] <= 12
      BY <1>j, <1>v, <2>2, <2>3
    <3>3. QED
      BY <2>2, <3>1, <3>2
  <2>6. ReportsAreFew'
    BY <1>i, <1>j, <2>2, <2>4, <2>5, OneIsFew
  <2>7. job'.trainer # "diffusion"
    BY <2>1
  <2>8. QED
    BY <2>3, <2>6, <2>7, Zenon DEF FewInv
<1>2. CASE \/ DemoStart \/ DemoSynthetic \/ DemoEnterLoop \/ DemoStep \/ DemoSave
           \/ DemoCheckpoint \/ DemoNoCheckpoint \/ DemoWriteSample \/ DemoSample
           \/ DemoNoSample \/ DemoExport \/ Finish
  <2>1. Calm /\ job' = job
    BY <1>2, CalmEvents, Zenon
       DEF DemoStart, DemoSynthetic, DemoEnterLoop, DemoStep, DemoSave, DemoCheckpoint,
           DemoNoCheckpoint, DemoWriteSample, DemoSample, DemoNoSample, DemoExport,
           Finish, Announce, Goto
  <2>2. /\ pc' \in {"downloading", "demo"} => pc = "idle"
        /\ pc' \notin {"idle", "decoding", "encoding", "planning", "quantizing"}
    BY <1>2
       DEF DemoStart, DemoSynthetic, DemoEnterLoop, DemoStep, DemoSave, DemoCheckpoint,
           DemoNoCheckpoint, DemoWriteSample, DemoSample, DemoNoSample, DemoExport,
           Finish, Announce, Goto
  <2>3. DemoFew'
    BY <1>i, <2>1, <2>2 DEF DemoFew, Calm
  <2>4. ReportsAreFew'
    BY <1>i, <2>1, CalmIsFew
  <2>5. job'.trainer # "diffusion"
    BY <2>1
  <2>6. QED
    BY <2>3, <2>4, <2>5, Zenon DEF FewInv
<1>3. QED
  BY <1>1, <1>2 DEF DemoNext

LEMMA FewStep ==
  ASSUME TypeOK, TypeOK', CountInv, FewInv, [Next]_vars
  PROVE  FewInv'
<1>1. CASE Fail
  <2>1. Calm /\ job' = job /\ pc' = "failed"
    BY <1>1, CalmEvents DEF Fail
  <2>2. ReportsAreFew'
    BY <2>1, CalmIsFew DEF FewInv
  <2>3. EncodeFew' /\ DatasetFew' /\ QuantizeFew' /\ OthersFew' /\ DemoFew'
    BY <2>1 DEF EncodeFew, DatasetFew, QuantizeFew, OthersFew, DemoFew, EncodePlaces,
                Unquantized, Unmerged, Setup
  <2>4. QED
    BY <2>2, <2>3, Zenon DEF FewInv
<1>2. CASE UNCHANGED vars
  <2>1. /\ job' = job /\ pc' = pc /\ item' = item /\ loaded' = loaded /\ log' = log
        /\ lines' = lines /\ reports' = reports /\ snapshot' = snapshot
    BY <1>2 DEF vars, runVars, sinkVars
  <2>2. QED
    BY <2>1, Zenon
       DEF FewInv, ReportsAreFew, EncodeFew, DatasetFew, QuantizeFew, OthersFew,
           DemoFew, Fresh, Thrifty, Passed, Loads
<1>3. QED
  BY <1>1, <1>2, EncodingIsFew, PreparingIsFew, SteppingIsFew, DemoIsFew DEF Next

LEMMA FewInit == Init => FewInv
<1> SUFFICES ASSUME Init PROVE FewInv
  OBVIOUS
<1>1. /\ pc = "idle" /\ item = 0 /\ log.name = "" /\ loaded = {}
      /\ \A n \in PhaseNames : lines[n] = 0 /\ reports[n] = 0
  BY DEF Init, SinkInit
<1>2. {"encode", "dataset", "quantize", "load", "merge", "inject"} \subseteq PhaseNames
  BY DEF PhaseNames
<1>3. ReportsAreFew
  <2>1. \A n \in PhaseNames : 0 <= 102 /\ 0 <= 12 + IF n = "encode" THEN 0 ELSE 0
    OBVIOUS
  <2>2. lines["load"] = 0
    BY <1>1, <1>2
  <2>3. QED
    BY <1>1, <2>1, <2>2 DEF ReportsAreFew
<1>4. EncodeFew /\ DatasetFew /\ QuantizeFew /\ OthersFew /\ DemoFew
  <2>1. Loads = 0
    BY <1>1, FS_EmptySet, Zenon DEF Loads
  <2>2. /\ Fresh("encode") /\ Fresh("dataset") /\ Fresh("quantize")
        /\ lines["load"] = 0 /\ lines["merge"] = 0 /\ lines["inject"] = 0
        /\ lines["dataset"] = 0
    BY <1>1, <1>2 DEF Fresh
  <2>3. 0 <= 0
    OBVIOUS
  <2>4. pc = "idle"
    BY <1>1
  <2>5. QED
    BY <2>1, <2>2, <2>3, <2>4
       DEF EncodeFew, DatasetFew, QuantizeFew, OthersFew, DemoFew
<1>5. QED
  BY <1>3, <1>4, Zenon DEF FewInv

LEMMA TrainersAreTwo ==
  ASSUME job \in Diffusions \cup Demos
  PROVE  job.trainer \in {"diffusion", "demo"}
BY JobsAssumption DEF DiffusionJobs, DemoJobs

LEMMA FewInvariant == Spec => [](TypeOK /\ CountInv /\ FewInv)
<1>1. Init => TypeOK /\ CountInv /\ FewInv
  BY TypeInit, CountInit, FewInit
<1>2. TypeOK /\ CountInv /\ FewInv /\ [Next]_vars => (TypeOK /\ CountInv /\ FewInv)'
  BY TypeStep, CountStep, CountStutter, FewStep
<1>3. QED
  BY <1>1, <1>2, PTL DEF Spec

\* However many items a counted phase has, it reports about a hundred of them,
\* and its log takes a line for each tenth of it, an opening or a summary, and
\* those of the loads that came in between.
THEOREM FewReports == Spec => []ReportsAreFew
<1>1. FewInv => ReportsAreFew
  BY DEF FewInv
<1>2. QED
  BY <1>1, FewInvariant, PTL

\* While a counted phase is the last one logged, the items since its last line
\* are within a tenth of it and a stride.
THEOREM TheLogKeepsUp == Spec => []LogKeepsUp
<1>1. ASSUME TypeOK, CountInv, FewInv PROVE LogKeepsUp
  <2>t. /\ log \in Lines
        /\ \A n \in PhaseNames :
             lines[n] \in Nat /\ reports[n] \in Nat /\ snapshot[n] \in Count
        /\ {"encode", "dataset", "quantize", "load"} \subseteq PhaseNames
    BY <1>1, SinkValues DEF PhaseNames
  <2>1. CASE job.trainer = "diffusion"
    <3>i. /\ EncodeInv /\ DatasetInv /\ QuantizeInv
          /\ EncodeFew /\ DatasetFew /\ QuantizeFew
      BY <1>1, <2>1, Zenon DEF CountInv, FewInv
    <3>j. job.examples \in Nat \ {0} /\ job.sites \in Nat /\ item \in Nat
      BY <1>1, <2>1, JobCounts
    <3>1. ASSUME pc = "encoding" PROVE Behind("encode", job.examples)
      <4>1. /\ Thrift("encode", log, lines["encode"], reports["encode"],
                       snapshot["encode"], job.examples, 1 + lines["load"], item)
            /\ item <= job.examples
        BY <3>i, <3>1 DEF EncodeFew, EncodeInv, Thrifty, Passed
      <4>2. 1 + lines["load"] \in Nat
        BY <2>t
      <4>3. QED
        BY <2>t, <3>j, <4>1, <4>2, ThriftKeepsUp DEF Behind
    <3>2. ASSUME pc = "planning" PROVE Behind("dataset", job.examples)
      <4>1. /\ Thrift("dataset", log, lines["dataset"], reports["dataset"],
                       snapshot["dataset"], job.examples, 0, item)
            /\ item <= job.examples
        BY <3>i, <3>2 DEF DatasetFew, DatasetInv, Thrifty
      <4>2. QED
        BY <2>t, <3>j, <4>1, ThriftKeepsUp DEF Behind
    <3>3. ASSUME pc = "quantizing" PROVE Behind("quantize", job.sites)
      <4>1. /\ Thrift("quantize", log, lines["quantize"], reports["quantize"],
                       snapshot["quantize"], job.sites, 1, item)
            /\ item <= job.sites /\ job.sites \in Nat \ {0}
        BY <3>i, <3>j, <3>3 DEF QuantizeFew, QuantizeInv, Thrifty
      <4>2. QED
        BY <2>t, <3>j, <4>1, ThriftKeepsUp DEF Behind
    <3>4. QED
      BY <3>1, <3>2, <3>3 DEF LogKeepsUp
  <2>2. CASE job.trainer = "demo"
    <3>1. pc \notin {"encoding", "planning", "quantizing"}
      BY <1>1, <2>2 DEF FewInv, DemoFew
    <3>2. QED
      BY <3>1, Zenon DEF LogKeepsUp
  <2>3. QED
    BY <1>1, <2>1, <2>2, TrainersAreTwo DEF TypeOK
<1>2. QED
  BY <1>1, FewInvariant, PTL

=============================================================================
