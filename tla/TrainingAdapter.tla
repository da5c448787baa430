-------------------------- MODULE TrainingAdapter -------------------------
(* The assistant LoRA folded into the frozen base at load                   *)
(* (training_adapter.rs), and the renames between checkpoint keys and       *)
(* module paths (mmdit.rs). An adapter file is [tensors, alpha, meta]:      *)
(* "alpha" the value behind each ".alpha" key, by site prefix, "meta" the   *)
(* <<alpha, dim>> of its metadata or <<>>.                                   *)
EXTENDS Fp8File

Indexed ==
    <<"tmlp", "0">> :> <<"tmlp", "fc1">> @@ <<"tmlp", "2">> :> <<"tmlp", "fc2">>
    @@ <<"tproj", "1">> :> <<"tproj", "fc">>
    @@ <<"txtmlp", "1">> :> <<"txtmlp", "fc1">> @@ <<"txtmlp", "3">> :> <<"txtmlp", "fc2">>

(* nn.Sequential indices become fields, and the reserved "mod" is spelt out. *)
KeyRemap(name) ==
    IF Front(name) \in DOMAIN Indexed /\ Leaf(name) \in {"weight", "bias"}
    THEN Append(Indexed[Front(name)], Leaf(name))
    ELSE IF name = <<"txtmlp", "0", "scale">> THEN <<"txtmlp", "norm", "scale">>
    ELSE IF IsSuffix(<<"mod", "lin">>, name) THEN Front(Front(name)) \o <<"modulation", "lin">>
    ELSE name

Down == {<<"lora_A", "weight">>, <<"lora_down", "weight">>}
Up == <<<<"lora_B", "weight">>, <<"lora_up", "weight">>>>
SitePrefix(name) == Front(Front(name))
IsDown(name) == \E s \in Down : name = SitePrefix(name) \o s
StripPrefix(prefix) == IF Head(prefix) = "diffusion_model" THEN Tail(prefix) ELSE prefix

(* The path a delta folds into: renamed as the site's weight would be. *)
RemapSitePath(site) == Front(KeyRemap(Append(site, "weight")))

Dora(name) == \E k \in DOMAIN name : name[k] \in {"dora_scale", "lora_magnitude_vector"}

(* The factor matrices: tensors of two dimensions that are no ".alpha". *)
Factors(file) == {s \in Snapshots(file.tensors) : s.dims = 2 /\ Leaf(s.name) # "alpha"}
Named(factors, name) == CHOOSE s \in factors : s.name = name
Ups(factors, prefix) == {k \in 1 .. 2 : \E s \in factors : s.name = prefix \o Up[k]}
UpFactor(factors, prefix) ==
    LET ups == Ups(factors, prefix)
    IN  Named(factors, prefix \o Up[CHOOSE k \in ups : \A l \in ups : k <= l])

(* Without a down factor there is no site; a down factor without its up, or *)
(* of another rank, refuses the file, and so does a sign of DoRA.           *)
AdapterRefused(file) ==
    \/ Refused(file.tensors)
    \/ \E name \in DOMAIN file.tensors : Dora(name)
    \/ ~\E s \in Factors(file) : IsDown(s.name)
    \/ \E s \in Factors(file) :
           /\ IsDown(s.name)
           /\ \/ Ups(Factors(file), SitePrefix(s.name)) = {}
              \/ Columns(UpFactor(Factors(file), SitePrefix(s.name)).data) # Len(s.data)

(* alpha / rank of the site, else the file's alpha / dim, else 1. *)
Scaling(file, prefix, rank) ==
    IF Append(prefix, "alpha") \in DOMAIN file.tensors THEN <<file.alpha[prefix], rank>>
    ELSE IF file.meta # <<>> /\ file.meta[2] > 0 THEN file.meta
    ELSE <<1, 1>>

AdapterSites(file) ==
    {LET prefix == SitePrefix(s.name)
     IN  [path |-> RemapSitePath(StripPrefix(prefix)),
          a |-> Transpose(s.data), b |-> Transpose(UpFactor(Factors(file), prefix).data),
          scaling |-> Scaling(file, prefix, Len(s.data))] :
     s \in {f \in Factors(file) : IsDown(f.name)}}

(* scaling . (A . B): element (i, j) is a sum over the rank. *)
MergeDelta(a, b, scaling) ==
    Matrix(Len(a), Columns(b), LAMBDA i, j :
        [terms |-> [k \in 1 .. Len(b) |->
                        <<a[i][k].of, a[i][k].at, b[k][j].of, b[k][j].at>>],
         scaling |-> scaling])

Fits(base, site) == Len(site.a) = Len(base.weight) /\ Columns(site.b) = Columns(base.weight)

(* The parameter is rebuilt, and frozen again. *)
MergedLinear(base, site) ==
    LET delta == MergeDelta(site.a, site.b, site.scaling)
        rebuilt == PlainLinear(Matrix(Len(base.weight), Columns(base.weight), LAMBDA i, j :
                       [base.weight[i][j] EXCEPT !.plus = Append(@, delta[i][j])]), base.dtype)
    IN  [rebuilt EXCEPT !.grad = FALSE]
============================================================================
