----------------------------- MODULE TokenRows -----------------------------
(***************************************************************************)
(* What the two attention models (mmdit.rs, qwen3vl.rs) do to a sequence   *)
(* of tokens, with the numbers left out.  A token's residual stream is a   *)
(* row:                                                                    *)
(*                                                                         *)
(*   src   the inputs its value depends on.  A row of zeros depends on     *)
(*         none, and a zero row is what a padding position starts as       *)
(*   bad   whether it holds a NaN                                          *)
(*                                                                         *)
(* A float format is a record of the magnitudes that matter:               *)
(*                                                                         *)
(*   max    the largest finite value                                       *)
(*   gap    how far below the row's largest score a masked score must be   *)
(*          for its softmax weight to be exactly zero (twice the largest   *)
(*          score, plus where exp underflows)                              *)
(*   half   whether it is f16, for which mmdit.rs has its own algebra      *)
(*   flushes  whether the device flushes its subnormals to zero            *)
(***************************************************************************)
EXTENDS Integers

FloatFormats == [max : Nat, gap : Nat, half : BOOLEAN, flushes : BOOLEAN]

Row(src) == [src |-> src, bad |-> FALSE]

\* A residual sum, a gate, a projection of two rows: it depends on both, and
\* a NaN in either is a NaN in the result.
Join(a, b) == [src |-> a.src \cup b.src, bad |-> a.bad \/ b.bad]

JoinAll(rows) == [src |-> UNION {rows[k].src : k \in DOMAIN rows},
                  bad |-> \E k \in DOMAIN rows : rows[k].bad]

\* The score q . k + bias of a masked pair is -inf when the bias is beyond the
\* format's range, and finite otherwise.
Infinite(format, bias, q, k) == bias[q][k] > format.max

\* Key k has softmax weight exactly zero in query q's row: some other finite
\* score of the row is larger by the gap at least.
Silent(format, bias, q, k) ==
  \E o \in DOMAIN bias : /\ ~Infinite(format, bias, q, o)
                         /\ bias[q][k] >= bias[q][o] + format.gap

Heard(format, bias, q) ==
  {k \in DOMAIN bias : ~Silent(format, bias, q, k)}

\* softmax(scores + bias) . v: a query depends on the keys it hears.  A NaN
\* in any key, heard or not, reaches every query (0 x NaN), and a row whose
\* scores are all -inf is -inf - (-inf).
Attend(format, rows, bias) ==
  [q \in DOMAIN rows |->
     [src |-> UNION {rows[k].src : k \in Heard(format, bias, q)},
      bad |-> \/ \E k \in DOMAIN rows : rows[k].bad
              \/ \A k \in DOMAIN rows : Infinite(format, bias, q, k)]]

=============================================================================
