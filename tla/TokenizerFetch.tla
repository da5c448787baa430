--------------------------- MODULE TokenizerFetch -------------------------
(* The pinned tokenizer (hf.rs, resolve_tokenizer): each run that misses it *)
(* downloads, verifies, stages and publishes one file of a cache directory  *)
(* that all runs share. A staged file carries the id of its process, and    *)
(* the API server executes several runs in one process.                     *)
CONSTANTS Runs, Pids

(* A staged file is named for its process, never as the cached file. *)
ASSUME PidsAssumption == Pids \cap {"cache", "none", "unlinked"} = {}

VARIABLES
    pid,        \* the process of each run
    disk,       \* the cached file ("cache") and the staged one of each process
    fd,         \* where the file a run is writing is now
    fetch,      \* how far a run is in resolving its tokenizer
    tokenizer   \* what the tokenizer file held when the run read it

fetchVars == <<pid, disk, fd, fetch, tokenizer>>

Contents == {"absent", "torn", "other", "pinned"}
Places == {"cache"} \cup Pids

InitFetch ==
    /\ pid \in [Runs -> Pids]
    /\ disk \in [Places -> {"absent", "torn"}] \cup
                {[p \in Places |-> IF p = "cache" THEN c ELSE "absent"] : c \in Contents}
    /\ fd = [r \in Runs |-> "none"]
    /\ fetch = [r \in Runs |-> "idle"]
    /\ tokenizer = [r \in Runs |-> "none"]

GoTo(r, stage) == fetch' = [fetch EXCEPT ![r] = stage]

(* An override must exist and is taken as it is, like the file of the base  *)
(* directory; only without both is the pinned tokenizer looked for.         *)
Resolve(r, override, inBase) ==
    /\ fetch[r] = "idle"
    /\ GoTo(r, IF override = "missing" THEN "failed"
               ELSE IF override = "present" \/ inBase THEN "override" ELSE "lookup")
    /\ UNCHANGED <<pid, disk, fd, tokenizer>>

(* Mutant: the length alone is compared. *)
VerifiedLength(content) == content \in {"other", "pinned"}

(* A cached file is used only if it has the pinned length and digest. *)
Verified(content) == content = "pinned"

ReadCache(r) ==
    /\ fetch[r] = "lookup"
    /\ GoTo(r, IF Verified(disk["cache"]) THEN "fetched" ELSE "download")
    /\ UNCHANGED <<pid, disk, fd, tokenizer>>

(* What a download brings: the file, a cut or changed one, or nothing. *)
Download(r) ==
    /\ fetch[r] = "download"
    /\ \E body \in Contents : GoTo(r, IF Verified(body) THEN "stage" ELSE "failed")
    /\ UNCHANGED <<pid, disk, fd, tokenizer>>

(* Mutant: the body is written to its final name. *)
OpenInPlace(r) ==
    /\ fetch[r] = "stage"
    /\ fd' = [fd EXCEPT ![r] = "cache"]
    /\ disk' = [disk EXCEPT !["cache"] = "torn"]
    /\ GoTo(r, "writing")
    /\ UNCHANGED <<pid, tokenizer>>

(* fs::write truncates or creates the staged file, and fills it. *)
OpenStaged(r) ==
    /\ fetch[r] = "stage"
    /\ fd' = [fd EXCEPT ![r] = pid[r]]
    /\ disk' = [disk EXCEPT ![pid[r]] = "torn"]
    /\ GoTo(r, "writing")
    /\ UNCHANGED <<pid, tokenizer>>

(* While another run has the same file open, it may still have a hole. *)
FillStaged(r) ==
    /\ fetch[r] = "writing"
    /\ \E content \in (IF \E q \in Runs \ {r} : fd[q] = fd[r] THEN {"torn", "pinned"} ELSE {"pinned"}) :
           disk' = IF fd[r] \in Places THEN [disk EXCEPT ![fd[r]] = content] ELSE disk
    /\ fd' = [fd EXCEPT ![r] = "none"]
    /\ GoTo(r, "rename")
    /\ UNCHANGED <<pid, tokenizer>>

(* The name moves, and an open file with it; the file it replaces loses its *)
(* name. Without a staged file the rename fails.                            *)
Rename(r) ==
    /\ fetch[r] = "rename"
    /\ IF disk[pid[r]] = "absent" THEN GoTo(r, "failed") /\ UNCHANGED <<disk, fd>>
       ELSE /\ disk' = [disk EXCEPT !["cache"] = disk[pid[r]], ![pid[r]] = "absent"]
            /\ fd' = [q \in Runs |-> IF fd[q] = pid[r] THEN "cache"
                                     ELSE IF fd[q] = "cache" THEN "unlinked" ELSE fd[q]]
            /\ GoTo(r, "fetched")
    /\ UNCHANGED <<pid, tokenizer>>

(* The conditioner reads the file again; a torn one does not parse. *)
LoadTokenizer(r) ==
    /\ \/ /\ fetch[r] = "fetched"
          /\ tokenizer' = [tokenizer EXCEPT ![r] = disk["cache"]]
          /\ GoTo(r, IF disk["cache"] \in {"absent", "torn"} THEN "failed" ELSE "loaded")
       \/ /\ fetch[r] = "override"
          /\ tokenizer' = [tokenizer EXCEPT ![r] = "own"]
          /\ GoTo(r, "loaded")
    /\ UNCHANGED <<pid, disk, fd>>

(* A run that needs no tokenizer any more, or is killed, leaves its files as *)
(* they are; the kernel closes what it had open.                            *)
Leave(r) ==
    /\ fd' = [fd EXCEPT ![r] = "none"]
    /\ fetch' = [fetch EXCEPT ![r] = "idle"]
    /\ tokenizer' = [tokenizer EXCEPT ![r] = "none"]
    /\ UNCHANGED <<pid, disk>>

FetchStep(r) ==
    ReadCache(r) \/ Download(r) \/ OpenStaged(r) \/ FillStaged(r) \/ Rename(r)

----------------------------------------------------------------------------
(* The tokenizer a run fetched is the pinned one whatever the cache held    *)
(* before, a cut, changed or half-written file included, and whoever else   *)
(* was staging it: hf.rs verifies the cached file and the download and the   *)
(* conditioner refuses a torn file. (An override is taken unverified.)      *)
TrainsOnThePin ==
    \A r \in Runs : fetch[r] = "loaded" => tokenizer[r] \in {"own", "pinned"}

(* Once the cache holds the pinned file, no run of another process replaces *)
(* it with less: a run publishes only what it has staged completely, under  *)
(* a name of its own process (hf.rs, fetch_with).                           *)
CacheStaysGood ==
    [][(\A q, r \in Runs : q # r => pid[q] # pid[r]) /\ disk["cache"] = "pinned"
           => disk'["cache"] = "pinned"]_fetchVars
============================================================================
