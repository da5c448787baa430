---------------------------- MODULE MCBlockStep ----------------------------
(***************************************************************************)
(* A prompt of 2 prefix, 4 conditioning and 1 suffix tokens, captions that *)
(* are empty, short, and longer than the budget; grids that are square and *)
(* not, one of which needs no padding; 11 blocks, so that the numbers of   *)
(* two of them share their first digit.                                    *)
(***************************************************************************)
EXTENDS BlockStep

MCSelectLayers == <<1, 3>>

\* The magnitudes of the code: scores to 800, outliers to 600, exp underflows
\* near -17 in f16 and -104 in f32.
MCFloat16 ==
  [max |-> 65504, gap |-> 1617, half |-> TRUE, flushes |-> FALSE]
MCFloat32 ==
  [max |-> 1000000000, gap |-> 1704, half |-> FALSE, flushes |-> FALSE]

MCGrids == {<<2, 2>>, <<2, 3>>, <<5, 1>>}

Named(names) == {s \in Sites : s.name \in names}
InBlocks(blocks) == {s \in Sites : s.block \in blocks}

\* No targets; a pattern that no site matches; one projection of every block;
\* two overlapping patterns on blocks 1 and 10.
MCTargetLists ==
  {<<>>,
   <<{}>>,
   <<Named({"attn.wq"})>>,
   <<InBlocks({10}) \cap Named({"attn.wo", "mlp.up"}),
     InBlocks({1, 10}) \cap Named({"mlp.up", "mlp.down"})>>}
=============================================================================
