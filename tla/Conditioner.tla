---------------------------- MODULE Conditioner ----------------------------
(***************************************************************************)
(* Krea 2's text conditioner (qwen3vl.rs): a caption is templated and      *)
(* tokenized to a fixed length, a causal decoder runs over it, and the     *)
(* outputs of some of its layers, past the template's prefix, are the      *)
(* stack the denoiser consumes.                                            *)
(*                                                                         *)
(*   | prefix | caption ........ | padding ... | suffix |                  *)
(*            | <--------- MaxLength positions -------> |                  *)
(*                                                                         *)
(* A caption is the number of tokens it has.  The encoder always runs on   *)
(* the CPU in f32 (encode_phase), so a row never goes bad here.  Joint     *)
(* tokenization of prefix and caption is taken to split at the boundary,   *)
(* as it does for a caption that read_caption has trimmed.                 *)
(***************************************************************************)
EXTENDS Integers, Sequences, TokenRows

CONSTANTS
  PrefixLen,      \* tokens of PROMPT_PREFIX under the loaded tokenizer
  SuffixLen,      \* tokens of PROMPT_SUFFIX
  MaxLength,      \* the caption budget, max_length
  SelectLayers,   \* select_layers: the decoder layers that are stacked
  EncoderMaskNeg, \* magnitude of qwen3vl.rs MASK_NEG
  Float32         \* the f32 format

ASSUME ConditionerAssumption ==
  /\ PrefixLen \in Nat \ {0}
  /\ SuffixLen \in Nat \ {0}
  /\ MaxLength \in Nat
  /\ MaxLength >= SuffixLen        \* the ensure! of Qwen3VlConditioner::new
  /\ SelectLayers \in Seq(Nat \ {0})
  /\ SelectLayers # <<>>
  /\ \A i \in 1 .. Len(SelectLayers) - 1 : SelectLayers[i] < SelectLayers[i + 1]

\* One masked score underflows in the softmax of f32.
ASSUME EncoderMagnitudes ==
  /\ {EncoderMaskNeg, Float32.max, Float32.gap} \subseteq Nat
  /\ 0 < Float32.gap /\ Float32.gap <= EncoderMaskNeg

BodyLen == MaxLength + PrefixLen - SuffixLen
PromptLen == BodyLen + SuffixLen
Prompt == 1 .. PromptLen

Smaller(a, b) == IF a < b THEN a ELSE b

\* tokenize: prefix + caption, truncated and right-padded to the body's
\* length, and the suffix after the padding.  An id is the place it has in its
\* part of the prompt.
Tokenize(caption) ==
  LET live == Smaller(PrefixLen + caption, BodyLen)
      id(p) == IF p <= live
                 THEN IF p <= PrefixLen THEN <<"prefix", p>>
                                        ELSE <<"caption", p - PrefixLen>>
                 ELSE IF p <= BodyLen THEN <<"pad", 0>>
                                      ELSE <<"suffix", p - BodyLen>>
  IN [ids  |-> [p \in Prompt |-> id(p)],
      mask |-> [p \in Prompt |-> IF p <= live \/ p > BodyLen THEN 1 ELSE 0]]

\* attention_masks: the causal and the key-padding bias, summed.
AttentionMasks(mask) ==
  [q \in Prompt |-> [k \in Prompt |->
     (IF k > q THEN EncoderMaskNeg ELSE 0)
       + (IF mask[k] = 0 THEN EncoderMaskNeg ELSE 0)]]

\* One pre-norm layer: attention and its residual; norms and feed-forward work
\* on a row alone.
DecoderLayer(rows, bias) ==
  LET mixed == Attend(Float32, rows, bias)
  IN [p \in Prompt |-> Join(rows[p], mixed[p])]

\* hidden[0] is the embedding, hidden[i] the output of decoder layer i; only
\* the layers up to the last selected one exist.
HiddenStates(mask) ==
  LET hidden[i \in 0 .. SelectLayers[Len(SelectLayers)]] ==
        IF i = 0 THEN [p \in Prompt |-> Row({p})]
                 ELSE DecoderLayer(hidden[i - 1], AttentionMasks(mask))
  IN hidden

\* Mutant: the slice starts where another tokenizer's prefix ends (#163).
TranscribedPast(k) == PrefixLen - 1 + k

Past(k) == PrefixLen + k

\* encode_captions: the selected states of the positions past the prefix, and
\* the mask sliced with them.  `live` is the model's own: the positions that
\* carry text.
EncodeCaption(caption) ==
  LET prompt == Tokenize(caption)
      hidden == HiddenStates(prompt.mask)
      emitted == 1 .. PromptLen - PrefixLen
  IN [caption |-> caption,
      live    |-> {p \in Prompt : prompt.mask[p] = 1},
      ids     |-> [k \in emitted |-> prompt.ids[Past(k)]],
      mask    |-> [k \in emitted |-> prompt.mask[Past(k)]],
      stack   |-> [k \in emitted |-> [n \in 1 .. Len(SelectLayers) |->
                                      hidden[SelectLayers[n]][Past(k)]]]]

=============================================================================
