----------------------------- MODULE LrSchedule -----------------------------
(***************************************************************************)
(* The learning-rate schedule (schedule.rs): the rate of a 1-based global  *)
(* step, a function of the step and the total alone.  A rate is a whole    *)
(* number of units, rounded down.  The half-cosine is replaced by the      *)
(* cubic with its ends, midpoint and symmetry; a gamma is one over         *)
(* gammaInverse, and 0 stands for a gamma or a step size that is not set.  *)
(***************************************************************************)
EXTENDS Integers

Kinds == {"constant", "linear", "cosine", "exponential", "step"}

\* ScheduleConfig::validate: malformed, or a setting that would do nothing.
\* Mutant: min_lr may be above the peak.
InvalidBelowFloor(s, base, total) ==
  \/ s.warmup >= (IF total > 1 THEN total ELSE 1)
  \/ s.kind = "constant" /\ s.minLr # 0
  \/ (s.gammaInverse # 0) # (s.kind \in {"exponential", "step"})
  \/ (s.stepSize # 0) # (s.kind = "step")

InvalidSchedule(s, base, total) ==
  \/ s.warmup >= (IF total > 1 THEN total ELSE 1)
  \/ s.kind # "constant" /\ s.minLr > base
  \/ s.kind = "constant" /\ s.minLr # 0
  \/ (s.gammaInverse # 0) # (s.kind \in {"exponential", "step"})
  \/ (s.stepSize # 0) # (s.kind = "step")

\* min + (base - min) * part / whole.
Blend(base, min, part, whole) == min + ((base - min) * part) \div whole

Floored(rate, min) == IF rate > min THEN rate ELSE min

Power(g, n) ==
  LET power[k \in 0 .. n] == IF k = 0 THEN 1 ELSE g * power[k - 1]
  IN power[n]

LrAt(s, base, step, total) ==
  LET idx == step - 1
      d == idx - s.warmup
      span == IF total - s.warmup > 1 THEN total - s.warmup ELSE 1
      p == IF d < span THEN d ELSE span
      left == span - p
      drops == IF s.kind = "step" THEN d \div s.stepSize ELSE d
  IN CASE idx < s.warmup -> (base * (idx + 1)) \div s.warmup
       [] idx >= s.warmup /\ s.kind = "constant" -> base
       [] idx >= s.warmup /\ s.kind = "linear" -> Blend(base, s.minLr, left, span)
       [] idx >= s.warmup /\ s.kind = "cosine" ->
            Blend(base, s.minLr, left * left * (span + 2 * p), span * span * span)
       [] OTHER -> Floored(base \div Power(s.gammaInverse, drops), s.minLr)

=============================================================================
