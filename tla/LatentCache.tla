---------------------------- MODULE LatentCache ----------------------------
(***************************************************************************)
(* The encoder cache of a dataset directory (`.loractl-cache/`), shared by *)
(* every run that trains on that directory:                                *)
(*                                                                         *)
(*   prepare_dataset   reads each entry's header and encodes the misses    *)
(*   plan_dataset      records every file and its shape, encodes nothing   *)
(*   assemble_batch    reads the planned files again at every step         *)
(*                                                                         *)
(* Nothing locks the directory.  A file is staged under a name that ends   *)
(* in the process id and renamed to the name every run looks for.  The     *)
(* model keeps names apart from the open file a writer holds, because a    *)
(* rename moves the name and leaves the writer's file open.                *)
(*                                                                         *)
(* One bucket set and one encoder fingerprint: runs that differ in either  *)
(* use other names and do not meet.  A conditioning stack is abstracted to *)
(* its length, which is what a different conditioning build changes under  *)
(* an unchanged fingerprint (cache_guard.rs).                              *)
(***************************************************************************)
EXTENDS Naturals

CONSTANTS
  Runs,           \* the runs over the directory
  Pids,           \* process ids
  Pid,            \* Pid[r]: the process that executes run r
  SharedProcess,  \* whether one process may execute several runs at a time
  Entries,        \* number of images the scan finds
  Stem,           \* Stem[i]: the file stem of image i, which names its caption
  Window,         \* decode_window(): entries the pre-pass reads at a time
  Dropout,        \* Dropout[r]: whether caption_dropout_rate is above zero
  Length,         \* Length[r]: positions in the stacks run r's build emits
  MaxPurges       \* bound: times the operator empties the cache directory

ASSUME CountsAssumption ==
  /\ Entries \in Nat \ {0}
  /\ Window \in Nat \ {0}
  /\ MaxPurges \in Nat
  /\ SharedProcess \in BOOLEAN

ASSUME RunsAssumption ==
  /\ Pid \in [Runs -> Pids]
  /\ Stem \in [1 .. Entries -> Nat]
  /\ Dropout \in [Runs -> BOOLEAN]
  /\ Length \in [Runs -> Nat]

VARIABLES
  cache,     \* cache[p]: the file under the name p that runs look for
  staged,    \* staged[n]: the file under the staging name n
  holds,     \* holds[r]: where the file that run r has open for writing is
  phase,     \* phase[r]: the part of the pipeline run r is in
  item,      \* item[r]: the entry run r is at
  part,      \* part[r]: which of the entry's two files
  step,      \* step[r]: how far it is with that file
  source,    \* source[r][i]: LatentSource of image i in the current pre-pass
  recorded,  \* recorded[r][i]: the conditioning length in the plan
  consumed,  \* consumed[r]: conditioning lengths concatenated into batches
  purges     \* purges made so far

runState == <<phase, item, part, step>>
vars == <<cache, staged, holds, phase, item, part, step, source, recorded,
          consumed, purges>>

-----------------------------------------------------------------------------
(* Names and files. *)

Images == 1 .. Entries

(* The shared empty-caption conditioning comes after the last image, and the
   end of the pass after that. *)
EmptyEntry == Entries + 1
End == Entries + 2

LatentPath(i) == <<"latent", i>>
CondPath(i) == IF i = EmptyEntry THEN <<"empty", 0>> ELSE <<"cond", Stem[i]>>

Paths == {LatentPath(i) : i \in Images} \cup {CondPath(i) : i \in 1 .. EmptyEntry}

StagedPath(r, p) == <<p, Pid[r]>>

Absent == [state |-> "absent", length |-> 0]
Torn == [state |-> "torn", length |-> 0]
Whole(n) == [state |-> "whole", length |-> n]

Files == [state : {"absent", "torn", "whole"}, length : Nat]

Target(r) == IF part[r] = "latent" THEN LatentPath(item[r]) ELSE CondPath(item[r])

Active(r) == phase[r] \in {"prepare", "plan", "train"}

TypeOK ==
  /\ cache \in [Paths -> Files]
  /\ staged \in [Paths \X Pids -> Files]
  /\ holds \in [Runs -> {"nothing", "staged", "published", "unlinked"}]
  /\ phase \in [Runs -> {"idle", "prepare", "plan", "train", "finished",
                         "refused", "stopped"}]
  /\ item \in [Runs -> 1 .. End]
  /\ part \in [Runs -> {"latent", "cond"}]
  /\ step \in [Runs -> {"read", "write", "fill", "publish"}]
  /\ source \in [Runs -> [Images -> {"unread", "cached", "decoded", "error"}]]
  /\ recorded \in [Runs -> [1 .. EmptyEntry -> Nat]]
  /\ consumed \in [Runs -> SUBSET Nat]
  /\ purges \in 0 .. MaxPurges

Init ==
  /\ cache = [p \in Paths |-> Absent]
  /\ staged = [n \in Paths \X Pids |-> Absent]
  /\ holds = [r \in Runs |-> "nothing"]
  /\ phase = [r \in Runs |-> "idle"]
  /\ item = [r \in Runs |-> 1]
  /\ part = [r \in Runs |-> "latent"]
  /\ step = [r \in Runs |-> "read"]
  /\ source = [r \in Runs |-> [i \in Images |-> "unread"]]
  /\ recorded = [r \in Runs |-> [i \in 1 .. EmptyEntry |-> 0]]
  /\ consumed = [r \in Runs |-> {}]
  /\ purges = 0

-----------------------------------------------------------------------------
(* Moving through the entries. *)

(* Every `?` and `bail!` on what the cache holds: the run ends in an error. *)
Refuse(r) ==
  /\ phase' = [phase EXCEPT ![r] = "refused"]
  /\ UNCHANGED <<item, part, step>>

ToConditioning(r) ==
  /\ part' = [part EXCEPT ![r] = "cond"]
  /\ step' = [step EXCEPT ![r] = "read"]
  /\ UNCHANGED <<phase, item>>

(* Mutant: the encode pass forgets the empty entry. *)
EmptyForgotten(r) ==
  IF item[r] = Entries /\ (phase[r] = "prepare" \/ ~Dropout[r])
    THEN End ELSE item[r] + 1

(* The empty entry is visited only when caption dropout is on. *)
After(r) == IF item[r] = Entries /\ ~Dropout[r] THEN End ELSE item[r] + 1

ToNextEntry(r) ==
  /\ item' = [item EXCEPT ![r] = After(r)]
  /\ part' = [part EXCEPT ![r] = IF After(r) \in Images THEN "latent" ELSE "cond"]
  /\ step' = [step EXCEPT ![r] = "read"]
  /\ UNCHANGED phase

Record(r, n) == recorded' = [recorded EXCEPT ![r][item[r]] = n]

At(r, ph, pt, st) == phase[r] = ph /\ part[r] = pt /\ step[r] = st

-----------------------------------------------------------------------------
(* prepare_dataset *)

(* A process that is one training run never runs two; the API server does. *)
Start(r) ==
  /\ phase[r] = "idle"
  /\ SharedProcess \/ \A s \in Runs : Active(s) => Pid[s] # Pid[r]
  /\ phase' = [phase EXCEPT ![r] = "prepare"]
  /\ UNCHANGED <<cache, staged, holds, item, part, step, source, recorded,
                 consumed, purges>>

InWindow(i, j) == (i - 1) \div Window = (j - 1) \div Window

SourceOf(f) ==
  CASE f.state = "absent" -> "decoded"
    [] f.state = "whole" -> "cached"
    [] f.state = "torn" -> "error"

(* The parallel half: the header reads and decodes of one window, in any
   order.  The result, an error included, waits for the serial half. *)
PrePass(r, i) ==
  /\ phase[r] = "prepare"
  /\ InWindow(i, item[r])
  /\ source[r][i] = "unread"
  /\ source' = [source EXCEPT ![r][i] = SourceOf(cache[LatentPath(i)])]
  /\ UNCHANGED <<cache, staged, holds, runState, recorded, consumed, purges>>

(* The serial half takes what the pre-pass decided; it does not look again. *)
TakeLatent(r) ==
  /\ At(r, "prepare", "latent", "read")
  /\ item[r] \in Images
  /\ \A j \in Images : InWindow(j, item[r]) => source[r][j] # "unread"
  /\ \/ source[r][item[r]] = "cached" /\ ToConditioning(r)
     \/ /\ source[r][item[r]] = "decoded"
        /\ step' = [step EXCEPT ![r] = "write"]
        /\ UNCHANGED <<phase, item, part>>
     \/ source[r][item[r]] = "error" /\ Refuse(r)
  /\ UNCHANGED <<cache, staged, holds, source, recorded, consumed, purges>>

(* The conditioning is looked up when the serial loop reaches it, so a caption
   shared by two images is encoded once. *)
ReadConditioning(r) ==
  /\ At(r, "prepare", "cond", "read")
  /\ item[r] # End
  /\ LET f == cache[Target(r)] IN
     \/ f.state = "whole" /\ Record(r, f.length) /\ ToNextEntry(r)
     \/ /\ f.state = "absent"
        /\ step' = [step EXCEPT ![r] = "write"]
        /\ UNCHANGED <<phase, item, part, recorded>>
     \/ f.state = "torn" /\ Refuse(r) /\ UNCHANGED recorded
  /\ UNCHANGED <<cache, staged, holds, source, consumed, purges>>

-----------------------------------------------------------------------------
(* DatasetCache::write, which only prepare_dataset calls: create the staging
   file, fill it, rename it. *)

(* Mutant: the file is written under the name that runs look for. *)
OpenInPlace(r) ==
  /\ phase[r] = "prepare" /\ step[r] = "write"
  /\ cache' = [cache EXCEPT ![Target(r)] = Torn]
  /\ staged' = [staged EXCEPT ![StagedPath(r, Target(r))] = Whole(Length[r])]
  /\ holds' = [holds EXCEPT ![r] = "published"]
  /\ step' = [step EXCEPT ![r] = "fill"]
  /\ UNCHANGED <<phase, item, part, source, recorded, consumed, purges>>

(* File::create truncates whatever stands under the staging name. *)
OpenStaged(r) ==
  /\ phase[r] = "prepare" /\ step[r] = "write"
  /\ staged' = [staged EXCEPT ![StagedPath(r, Target(r))] = Torn]
  /\ holds' = [holds EXCEPT ![r] = "staged"]
  /\ step' = [step EXCEPT ![r] = "fill"]
  /\ UNCHANGED <<cache, phase, item, part, source, recorded, consumed, purges>>

(* Run s has open the file that run r has open. *)
SameFile(r, s) ==
  /\ holds[s] = holds[r]
  /\ holds[r] = "staged" => StagedPath(s, Target(s)) = StagedPath(r, Target(r))
  /\ holds[r] = "published" => Target(s) = Target(r)

(* The last writer of a file leaves it whole; while another still has it open
   it is short or has a hole. *)
FileAfterFill(r) ==
  IF \E s \in Runs \ {r} : SameFile(r, s) THEN Torn ELSE Whole(Length[r])

Fill(r) ==
  /\ phase[r] = "prepare" /\ step[r] = "fill"
  /\ staged' = IF holds[r] = "staged"
                 THEN [staged EXCEPT ![StagedPath(r, Target(r))] = FileAfterFill(r)]
                 ELSE staged
  /\ cache' = IF holds[r] = "published"
                THEN [cache EXCEPT ![Target(r)] = FileAfterFill(r)]
                ELSE cache
  /\ holds' = [holds EXCEPT ![r] = "nothing"]
  /\ step' = [step EXCEPT ![r] = "publish"]
  /\ UNCHANGED <<phase, item, part, source, recorded, consumed, purges>>

(* Where a rename of the staging name leaves the file that run s has open. *)
HoldsAfterRename(r, s) ==
  CASE holds[s] = "staged" /\ StagedPath(s, Target(s)) = StagedPath(r, Target(r))
         -> "published"
    [] holds[s] = "published" /\ Target(s) = Target(r) -> "unlinked"
    [] OTHER -> holds[s]

(* The rename works on names: it publishes whatever stands under the staging
   name, and fails when nothing does. *)
Rename(r) ==
  LET n == StagedPath(r, Target(r)) IN
  /\ staged[n] # Absent
  /\ cache' = [cache EXCEPT ![Target(r)] = staged[n]]
  /\ staged' = [staged EXCEPT ![n] = Absent]
  /\ holds' = [s \in Runs |-> HoldsAfterRename(r, s)]

Publish(r) ==
  /\ phase[r] = "prepare" /\ step[r] = "publish"
  /\ \/ Rename(r) /\ part[r] = "latent" /\ ToConditioning(r) /\ UNCHANGED recorded
     \/ Rename(r) /\ part[r] = "cond" /\ ToNextEntry(r) /\ Record(r, Length[r])
     \/ /\ staged[StagedPath(r, Target(r))] = Absent
        /\ Refuse(r)
        /\ UNCHANGED <<cache, staged, holds, recorded>>
  /\ UNCHANGED <<source, consumed, purges>>

-----------------------------------------------------------------------------
(* plan_dataset *)

(* There is no encoder to call: a miss is an error, as a torn file is. *)
PlanFile(r) ==
  /\ phase[r] = "plan" /\ item[r] # End
  /\ LET f == cache[Target(r)] IN
     \/ /\ f.state = "whole" /\ part[r] = "latent"
        /\ ToConditioning(r)
        /\ UNCHANGED recorded
     \/ /\ f.state = "whole" /\ part[r] = "cond"
        /\ ToNextEntry(r)
        /\ Record(r, f.length)
     \/ f.state # "whole" /\ Refuse(r) /\ UNCHANGED recorded
  /\ UNCHANGED <<cache, staged, holds, source, consumed, purges>>

(* check_empty_matches_items *)
EmptyMatches(r) ==
  Dropout[r] => \A i \in Images : recorded[r][i] = recorded[r][EmptyEntry]

(* Mutant: the guard left out. *)
AnyLength(r) == TRUE

(* check_conditioning_lengths: the items, not the empty entry. *)
LengthsFit(r) == \A i \in Images : recorded[r][i] = Length[r]

(* Both passes end with the same two checks.  The plan records
   everything again. *)
EndOfPass(r) ==
  /\ phase[r] \in {"prepare", "plan"} /\ item[r] = End
  /\ IF EmptyMatches(r) /\ LengthsFit(r)
       THEN /\ phase' = [phase EXCEPT ![r] = IF @ = "prepare" THEN "plan" ELSE "train"]
            /\ item' = [item EXCEPT ![r] = 1]
            /\ part' = [part EXCEPT ![r] = "latent"]
            /\ UNCHANGED step
       ELSE Refuse(r)
  /\ UNCHANGED <<cache, staged, holds, source, recorded, consumed, purges>>

-----------------------------------------------------------------------------
(* assemble_batch: one file per step, each read anew. *)

(* read_cache_required and check_shape *)
AsPlanned(r, i, f) == f.state = "whole" /\ f.length = recorded[r][i]

LoadLatent(r, i) ==
  /\ phase[r] = "train"
  /\ IF cache[LatentPath(i)].state = "whole" THEN UNCHANGED runState ELSE Refuse(r)
  /\ UNCHANGED <<cache, staged, holds, source, recorded, consumed, purges>>

LoadConditioning(r, i) ==
  /\ phase[r] = "train"
  /\ i = EmptyEntry => Dropout[r]
  /\ LET f == cache[CondPath(i)] IN
     \/ /\ AsPlanned(r, i, f)
        /\ consumed' = [consumed EXCEPT ![r] = @ \cup {f.length}]
        /\ UNCHANGED runState
     \/ ~AsPlanned(r, i, f) /\ Refuse(r) /\ UNCHANGED consumed
  /\ UNCHANGED <<cache, staged, holds, source, recorded, purges>>

LastStep(r) ==
  /\ phase[r] = "train"
  /\ phase' = [phase EXCEPT ![r] = "finished"]
  /\ UNCHANGED <<cache, staged, holds, item, part, step, source, recorded,
                 consumed, purges>>

-----------------------------------------------------------------------------
(* The surroundings. *)

(* A kill, a full disk, an encoder that fails: the file it had open stays as
   it is, and so does the staging name. *)
Stop(r) ==
  /\ Active(r)
  /\ phase' = [phase EXCEPT ![r] = "stopped"]
  /\ holds' = [holds EXCEPT ![r] = "nothing"]
  /\ UNCHANGED <<cache, staged, item, part, step, source, recorded, consumed, purges>>

(* The operator deletes the cache's files, as the errors advise. *)
Purge ==
  /\ purges < MaxPurges
  /\ purges' = purges + 1
  /\ cache' = [p \in Paths |-> Absent]
  /\ staged' = [n \in Paths \X Pids |-> Absent]
  /\ holds' = [r \in Runs |-> IF holds[r] = "nothing" THEN "nothing" ELSE "unlinked"]
  /\ UNCHANGED <<runState, source, recorded, consumed>>

Works(r) ==
  \/ \E i \in Images : PrePass(r, i)
  \/ TakeLatent(r)
  \/ ReadConditioning(r)
  \/ OpenStaged(r)
  \/ Fill(r)
  \/ Publish(r)
  \/ PlanFile(r)
  \/ EndOfPass(r)

Trains(r) ==
  \/ \E i \in Images : LoadLatent(r, i)
  \/ \E i \in 1 .. EmptyEntry : LoadConditioning(r, i)
  \/ LastStep(r)

Next ==
  \/ Purge
  \/ \E r \in Runs : Start(r) \/ Works(r) \/ Trains(r) \/ Stop(r)

Spec == Init /\ [][Next]_vars

(* A run that has started keeps executing: it waits for no other run. *)
FairSpec == Spec /\ \A r \in Runs : WF_vars(Works(r))

-----------------------------------------------------------------------------
(* Properties. *)

(* A name that runs look for is absent or holds a complete file, whoever is
   writing, was killed while writing, or restarted under the same process id
   ("a cache file is only ever absent or complete", DatasetCache::write). *)
PublishedIsWhole == \A p \in Paths : cache[p].state # "torn"

(* Every run's build emits stacks of one length. *)
OneBuild == \A r, s \in Runs : Length[r] = Length[s]

(* Runs that share a directory never make each other fail: no run of one build
   is refused a file, loses its staging file or finds a planned file missing
   or changed, unless the operator emptied the cache meanwhile. *)
RunsDoNotDisturb ==
  OneBuild => \A r \in Runs : phase[r] = "refused" => purges > 0

(* Whatever other builds write under the same names, before, between or after
   this run's passes, a batch holds only stacks as long as this run's build
   emits: rows can be concatenated and line up with their captions. *)
TrainsOnItsOwnLength == \A r \in Runs : consumed[r] \subseteq {Length[r]}

(* A started run gets through both passes and trains, unless it is stopped or
   the cache is emptied under it. *)
StartedRunTrains ==
  \A r \in Runs : phase[r] = "prepare"
    ~> (phase[r] \in {"train", "finished", "stopped"} \/ purges > 0)

-----------------------------------------------------------------------------
(* Strengthenings that make the properties inductive. *)

(* A run is where it can name its file. *)
Placed ==
  \A r \in Runs :
    /\ part[r] = "latent" => item[r] \in Images
    /\ step[r] # "read" => item[r] # End
    /\ item[r] = EmptyEntry => Dropout[r]
    /\ phase[r] = "idle" => item[r] = 1 /\ part[r] = "latent" /\ step[r] = "read"

(* Without shared processes: no two live runs have one process id, no open
   file is published, and what is renamed is not torn. *)
ExclusivePids ==
  \A r, s \in Runs : r # s /\ Active(r) /\ Active(s) => Pid[r] # Pid[s]

HeldIsStaged ==
  \A r \in Runs :
    /\ holds[r] # "published"
    /\ holds[r] = "staged" => phase[r] = "prepare" /\ step[r] = "fill"

ReadyIsNotTorn ==
  \A r \in Runs :
    /\ phase[r] = "prepare"
    /\ step[r] = "publish" \/ (step[r] = "fill" /\ holds[r] # "staged")
    => staged[StagedPath(r, Target(r))].state # "torn"

(* What a run trains on passed both checks. *)
TrainingIsChecked ==
  \A r \in Runs : phase[r] = "train" => EmptyMatches(r) /\ LengthsFit(r)

(* While the cache is not emptied and every run is of one build: the files a
   run has passed are there, its plan has its length, and what it is about to
   rename is the file it filled. *)
Present(p) == cache[p].state # "absent"

(* The conditioning entries run r reads; the empty one only under dropout. *)
Uses(r, i) == i \in Images \/ (i = EmptyEntry /\ Dropout[r])

PassedIsPresent(r) ==
  \A i \in 1 .. EmptyEntry :
    /\ Uses(r, i)
    /\ (phase[r] = "prepare" /\ i < item[r]) \/ phase[r] \in {"plan", "train"}
    => Present(CondPath(i)) /\ (i \in Images => Present(LatentPath(i)))

LatentFirst(r) ==
  phase[r] = "prepare" /\ part[r] = "cond" /\ item[r] \in Images
    => Present(LatentPath(item[r]))

SourcesAreRight(r) ==
  \A i \in Images :
    /\ source[r][i] # "error"
    /\ source[r][i] = "cached" => Present(LatentPath(i))

PassedIsRecorded(r) ==
  \A i \in 1 .. EmptyEntry :
    /\ Uses(r, i)
    /\ (phase[r] \in {"prepare", "plan"} /\ i < item[r]) \/ phase[r] = "train"
    => recorded[r][i] = Length[r]

StagedIsOwn(r) ==
  phase[r] = "prepare" =>
    /\ step[r] = "fill" => holds[r] = "staged"
    /\ step[r] = "publish"
         => staged[StagedPath(r, Target(r))] = Whole(Length[r])

CalmRun(r) ==
  /\ phase[r] # "refused"
  /\ PassedIsPresent(r)
  /\ LatentFirst(r)
  /\ SourcesAreRight(r)
  /\ PassedIsRecorded(r)
  /\ StagedIsOwn(r)

OneLength ==
  \A r \in Runs, p \in Paths : Present(p) => cache[p].length = Length[r]

Undisturbed ==
  OneBuild /\ purges = 0 => OneLength /\ \A r \in Runs : CalmRun(r)
=============================================================================
