------------------------------ MODULE RunServer ------------------------------
(***************************************************************************)
(* The HTTP server's run registry and event streams                        *)
(* (crates/loractl-api/src/state.rs and routes.rs).                        *)
(*                                                                         *)
(* Three kinds of process share one registry and one log per run:          *)
(*   - the training thread of a run appends events to its log and then     *)
(*     wakes the subscribers (push_event: two steps, the lock is released  *)
(*     in between);                                                        *)
(*   - the supervisor task of a run waits for the thread, marks the log    *)
(*     final, retires the run from the registry, and wakes the subscribers *)
(*     a last time (spawn_run: three steps);                               *)
(*   - a subscriber replays the log from its own cursor and parks on the   *)
(*     wake channel when it has drained a snapshot (subscribe).            *)
(* Each critical section of the code is one atomic step here.              *)
(*                                                                         *)
(* An event is abstracted to its kind.  HTTP rejections (401, 422, 400,    *)
(* 429, 404) change nothing and are the disabled cases of RegisterRun and  *)
(* OpenStream.  The watch channel is its `changed` bit: version numbers    *)
(* are only ever compared for equality.                                    *)
(***************************************************************************)
EXTENDS Naturals, Sequences, FiniteSets

CONSTANTS
  MaxConcurrent,   \* ApiConfig::max_concurrent_runs
  Retention,       \* ApiConfig::run_retention
  Clients,         \* connections that may hold an event stream
  Progress,        \* the non-terminal event kinds a trainer emits
  Unserializable,  \* kinds serde_json rejects (paths that are not UTF-8)
  MaxRuns,         \* bound: runs ever registered
  MaxEvents        \* bound: progress events per run

ASSUME LimitsAssumption ==
  /\ MaxConcurrent \in Nat
  /\ Retention \in Nat
  /\ MaxRuns \in Nat
  /\ MaxEvents \in Nat

Terminal == {"finished", "failed"}

ASSUME KindsAssumption ==
  /\ Progress \cap Terminal = {}
  /\ Unserializable \subseteq Progress \cup {"finished"}

RunIds == 1 .. MaxRuns
Kinds  == Progress \cup Terminal \cup {"warning"}
Frames == [index : Nat, kind : Kinds]

VARIABLES
  next_id,     \* AppState::next_id
  runs,        \* the keys of Registry::runs
  completed,   \* Registry::completed, oldest first
  in_flight,   \* Registry::in_flight
  events,      \* RunLog::events of every run
  done,        \* RunLog::done of every run
  thread,      \* where the training thread of a run is
  supervisor,  \* where the supervisor task of a run is
  stream,      \* where the subscriber of a client is
  target,      \* the run a client streams (0: none)
  cursor,      \* the subscriber's cursor
  batch,       \* the part of its last snapshot it has not yielded yet
  final,       \* `done` as of its last snapshot
  fresh,       \* the wake channel changed since the subscriber last looked
  received,    \* history: the frames the current stream has yielded
  retirements  \* history: the order in which runs were retired

registry   == <<next_id, runs, completed, in_flight, retirements>>
logs       == <<events, done>>
subscriber == <<stream, target, cursor, batch, final, fresh, received>>
vars       == <<registry, logs, thread, supervisor, subscriber>>

-----------------------------------------------------------------------------
ThreadStates ==
  {"none", "queued", "training", "notify", "notify_last",
   "ok", "err", "panic"}
SupervisorStates == {"none", "registered", "joining", "retire", "wake", "ended"}
StreamStates ==
  {"idle", "opened", "looping", "draining", "parked", "closed"}

TypeOK ==
  /\ next_id \in 1 .. MaxRuns + 1
  /\ runs \subseteq RunIds
  /\ completed \in Seq(RunIds)
  /\ in_flight \in Nat
  /\ events \in [RunIds -> Seq(Kinds)]
  /\ done \in [RunIds -> BOOLEAN]
  /\ thread \in [RunIds -> ThreadStates]
  /\ supervisor \in [RunIds -> SupervisorStates]
  /\ stream \in [Clients -> StreamStates]
  /\ target \in [Clients -> RunIds \cup {0}]
  /\ \A c \in Clients : target[c] = 0 <=> stream[c] = "idle"
  /\ cursor \in [Clients -> Nat]
  /\ batch \in [Clients -> Seq(Kinds)]
  /\ final \in [Clients -> BOOLEAN]
  /\ fresh \in [Clients -> BOOLEAN]
  /\ received \in [Clients -> Seq(Frames)]
  /\ retirements \in Seq(RunIds)

Init ==
  /\ next_id = 1
  /\ runs = {}
  /\ completed = <<>>
  /\ in_flight = 0
  /\ events = [r \in RunIds |-> <<>>]
  /\ done = [r \in RunIds |-> FALSE]
  /\ thread = [r \in RunIds |-> "none"]
  /\ supervisor = [r \in RunIds |-> "none"]
  /\ stream = [c \in Clients |-> "idle"]
  /\ target = [c \in Clients |-> 0]
  /\ cursor = [c \in Clients |-> 0]
  /\ batch = [c \in Clients |-> <<>>]
  /\ final = [c \in Clients |-> FALSE]
  /\ fresh = [c \in Clients |-> FALSE]
  /\ received = [c \in Clients |-> <<>>]
  /\ retirements = <<>>

-----------------------------------------------------------------------------
(* POST /runs *)

\* The cap check and the insert are one critical section.
HasFreeSlotOffByOne == in_flight <= MaxConcurrent

HasFreeSlot == in_flight < MaxConcurrent

RegisterRun ==
  /\ next_id \in RunIds
  /\ HasFreeSlot
  /\ runs' = runs \cup {next_id}
  /\ in_flight' = in_flight + 1
  /\ next_id' = next_id + 1
  /\ supervisor' = [supervisor EXCEPT ![next_id] = "registered"]
  /\ UNCHANGED <<completed, retirements, logs, thread, subscriber>>

\* The handler builds the trainer and starts the supervisor, which hands the
\* training closure to the blocking pool.
SpawnRun(r) ==
  /\ supervisor[r] = "registered"
  /\ supervisor' = [supervisor EXCEPT ![r] = "joining"]
  /\ thread' = [thread EXCEPT ![r] = "queued"]
  /\ UNCHANGED <<registry, logs, subscriber>>

-----------------------------------------------------------------------------
(* The training thread *)

Subscribed(c) == stream[c] \in {"looping", "draining", "parked"}

\* notify.send_replace: every receiver of this run's channel sees a change.
SendReplace(r) ==
  fresh' = [c \in Clients |-> fresh[c] \/ (target[c] = r /\ Subscribed(c))]

\* push_event stores a placeholder for an event that cannot be serialized.
Stored(kind) == IF kind \in Unserializable THEN "warning" ELSE kind

Push(r, kind) == events' = [events EXCEPT ![r] = Append(@, Stored(kind))]

\* The closure creates the output directory, then calls the trainer.
StartTraining(r) ==
  /\ thread[r] = "queued"
  /\ \E outcome \in {"training", "err"} :
       thread' = [thread EXCEPT ![r] = outcome]
  /\ UNCHANGED <<registry, logs, supervisor, subscriber>>

EmitProgress(r) ==
  /\ thread[r] = "training"
  /\ Len(events[r]) < MaxEvents
  /\ \E kind \in Progress : Push(r, kind)
  /\ thread' = [thread EXCEPT ![r] = "notify"]
  /\ UNCHANGED <<registry, done, supervisor, subscriber>>

\* A trainer emits `finished` itself, last, and then returns Ok.
EmitFinished(r) ==
  /\ thread[r] = "training"
  /\ Push(r, "finished")
  /\ thread' = [thread EXCEPT ![r] = "notify_last"]
  /\ UNCHANGED <<registry, done, supervisor, subscriber>>

\* The second half of push_event, after the log is unlocked.
NotifyEvent(r) ==
  /\ thread[r] \in {"notify", "notify_last"}
  /\ SendReplace(r)
  /\ thread' = [thread EXCEPT ![r] =
                  IF @ = "notify" THEN "training" ELSE "ok"]
  /\ UNCHANGED <<registry, logs, supervisor,
                 stream, target, cursor, batch, final, received>>

TrainerFails(r) ==
  /\ thread[r] = "training"
  /\ \E outcome \in {"err", "panic"} :
       thread' = [thread EXCEPT ![r] = outcome]
  /\ UNCHANGED <<registry, logs, supervisor, subscriber>>

-----------------------------------------------------------------------------
(* The supervisor task *)

\* spawn_blocking's handle resolves when the thread is over, unwound or not.
JoinedOnReturn(r) == thread[r] \in {"ok", "err"}
JoinedEarly(r)    == thread[r] \in {"training", "ok", "err", "panic"}

Joined(r) == thread[r] \in {"ok", "err", "panic"}

\* Both failure arms append the API's own terminal event.
NeedsFailedForErrOnly(r) == thread[r] = "err"

NeedsFailed(r) == thread[r] # "ok"

\* The three arms of the join, under the log's lock.
JoinThread(r) ==
  /\ supervisor[r] = "joining"
  /\ Joined(r)
  /\ events' = IF NeedsFailed(r)
               THEN [events EXCEPT ![r] = Append(@, "failed")]
               ELSE events
  /\ done' = [done EXCEPT ![r] = TRUE]
  /\ supervisor' = [supervisor EXCEPT ![r] = "retire"]
  /\ UNCHANGED <<registry, thread, subscriber>>

\* How many of the oldest completed runs a queue of this length evicts.
Excess(n) == IF n > Retention THEN n - Retention ELSE 0

\* Popping from the front drops the ids that completed first.
KeepOldest(queue) == SubSeq(queue, 1, Len(queue) - Excess(Len(queue)))

Keep(queue) == SubSeq(queue, Excess(Len(queue)) + 1, Len(queue))

EvictNothing(queue) == {}

Evicted(queue) == {queue[i] : i \in 1 .. Excess(Len(queue))}

CompleteRun(r) ==
  /\ supervisor[r] = "retire"
  /\ in_flight' = IF in_flight > 0 THEN in_flight - 1 ELSE 0
  /\ completed' = Keep(Append(completed, r))
  /\ runs' = runs \ Evicted(Append(completed, r))
  /\ retirements' = Append(retirements, r)
  /\ supervisor' = [supervisor EXCEPT ![r] = "wake"]
  /\ UNCHANGED <<next_id, logs, thread, subscriber>>

FinalWakeForgotten(r) ==
  /\ supervisor[r] = "wake"
  /\ supervisor' = [supervisor EXCEPT ![r] = "ended"]
  /\ UNCHANGED <<registry, logs, thread, subscriber>>

FinalWake(r) ==
  /\ supervisor[r] = "wake"
  /\ SendReplace(r)
  /\ supervisor' = [supervisor EXCEPT ![r] = "ended"]
  /\ UNCHANGED <<registry, logs, thread,
                 stream, target, cursor, batch, final, received>>

-----------------------------------------------------------------------------
(* GET /runs/{id}/events *)

\* The locals of a new stream body.
ResetStream(c) ==
  /\ cursor' = [cursor EXCEPT ![c] = 0]
  /\ batch' = [batch EXCEPT ![c] = <<>>]
  /\ final' = [final EXCEPT ![c] = FALSE]
  /\ fresh' = [fresh EXCEPT ![c] = FALSE]
  /\ received' = [received EXCEPT ![c] = <<>>]

\* The handler looks the run up and keeps its Arc; the stream body has not
\* run yet, and a new stream always starts at index 0.
OpenStream(c, r) ==
  /\ stream[c] \in {"idle", "closed"}
  /\ r \in runs
  /\ stream' = [stream EXCEPT ![c] = "opened"]
  /\ target' = [target EXCEPT ![c] = r]
  /\ ResetStream(c)
  /\ UNCHANGED <<registry, logs, thread, supervisor>>

\* First poll: the receiver is created, with the current version as seen.
Subscribe(c) ==
  /\ stream[c] = "opened"
  /\ stream' = [stream EXCEPT ![c] = "looping"]
  /\ fresh' = [fresh EXCEPT ![c] = FALSE]
  /\ UNCHANGED <<registry, logs, thread, supervisor,
                 target, cursor, batch, final, received>>

\* log.events[cursor..]
UnreadFromStart(c) == events[target[c]]

Unread(c) ==
  LET log == events[target[c]] IN SubSeq(log, cursor[c] + 1, Len(log))

\* Copy the unread suffix and the done flag under the lock.
Snapshot(c) ==
  /\ stream[c] = "looping"
  /\ batch' = [batch EXCEPT ![c] = Unread(c)]
  /\ final' = [final EXCEPT ![c] = done[target[c]]]
  /\ stream' = [stream EXCEPT ![c] = "draining"]
  /\ UNCHANGED <<registry, logs, thread, supervisor,
                 target, cursor, fresh, received>>

YieldFrame(c) ==
  /\ stream[c] = "draining"
  /\ batch[c] # <<>>
  /\ received' = [received EXCEPT ![c] =
                    Append(@, [index |-> cursor[c], kind |-> Head(batch[c])])]
  /\ cursor' = [cursor EXCEPT ![c] = @ + 1]
  /\ batch' = [batch EXCEPT ![c] = Tail(@)]
  /\ UNCHANGED <<registry, logs, thread, supervisor,
                 stream, target, final, fresh>>

\* Whether to close is decided on the snapshot, not on the log as it is now.
SawEndInLog(c) == done[target[c]]

SawEnd(c) == final[c]

\* The batch is drained: close if the snapshot was final, else park.
EndOfBatch(c) ==
  /\ stream[c] = "draining"
  /\ batch[c] = <<>>
  /\ stream' = [stream EXCEPT ![c] = IF SawEnd(c) THEN "closed" ELSE "parked"]
  /\ UNCHANGED <<registry, logs, thread, supervisor,
                 target, cursor, batch, final, fresh, received>>

\* rx.changed() resolves and marks the current version as seen.
WakeUp(c) ==
  /\ stream[c] = "parked"
  /\ fresh[c]
  /\ fresh' = [fresh EXCEPT ![c] = FALSE]
  /\ stream' = [stream EXCEPT ![c] = "looping"]
  /\ UNCHANGED <<registry, logs, thread, supervisor,
                 target, cursor, batch, final, received>>

\* The client goes away: the stream and its receiver are dropped.
Disconnect(c) ==
  /\ stream[c] \notin {"idle", "closed"}
  /\ stream' = [stream EXCEPT ![c] = "idle"]
  /\ target' = [target EXCEPT ![c] = 0]
  /\ ResetStream(c)
  /\ UNCHANGED <<registry, logs, thread, supervisor>>

-----------------------------------------------------------------------------
ThreadStep(r) ==
  \/ StartTraining(r)
  \/ EmitProgress(r)
  \/ EmitFinished(r)
  \/ NotifyEvent(r)
  \/ TrainerFails(r)

SupervisorStep(r) ==
  \/ SpawnRun(r)
  \/ JoinThread(r)
  \/ CompleteRun(r)
  \/ FinalWake(r)

SubscriberStep(c) ==
  \/ Subscribe(c)
  \/ Snapshot(c)
  \/ YieldFrame(c)
  \/ EndOfBatch(c)
  \/ WakeUp(c)

Next ==
  \/ RegisterRun
  \/ \E r \in RunIds : ThreadStep(r) \/ SupervisorStep(r)
  \/ \E c \in Clients, r \in RunIds : OpenStream(c, r)
  \/ \E c \in Clients : SubscriberStep(c) \/ Disconnect(c)

\* The runtime keeps polling tasks that are ready and the blocking pool keeps
\* running its threads; no client is obliged to connect, post or stay.
Fairness ==
  /\ \A r \in RunIds : WF_vars(ThreadStep(r)) /\ WF_vars(SupervisorStep(r))
  /\ \A c \in Clients : WF_vars(SubscriberStep(c))

Spec == Init /\ [][Next]_vars /\ Fairness

-----------------------------------------------------------------------------
(* Properties *)

Registered == 1 .. next_id - 1
Retired    == {r \in RunIds : supervisor[r] \in {"wake", "ended"}}
InFlight   == Registered \ Retired
Retained   == {completed[i] : i \in 1 .. Len(completed)}

\* register_run / complete_run: the slot counter counts exactly the runs that
\* were registered and not yet retired, and never exceeds the configured cap.
SlotAccounting ==
  /\ in_flight = Cardinality(InFlight)
  /\ in_flight <= MaxConcurrent

\* Registry ("runs and completed can never disagree about which ids are
\* retained"): the map holds the in-flight runs and the retained completed
\* ones, so no run in flight is ever evicted and no evicted run lingers.
RegistryAgreement ==
  /\ runs = InFlight \cup Retained
  /\ InFlight \cap Retained = {}

\* The inductive strengthening of the two: ids are handed out in order, and
\* only retired runs are in the eviction queue, each once.
RegistryInv ==
  /\ \A r \in RunIds : supervisor[r] # "none" <=> r < next_id
  /\ Retained \subseteq Retired
  /\ \A i, j \in 1 .. Len(completed) : completed[i] = completed[j] => i = j
  /\ SlotAccounting
  /\ RegistryAgreement

\* complete_run: whatever the order in which runs end, the registry retains
\* the most recently completed ones, in completion order, up to the cap.
RetainsLatest ==
  completed = SubSeq(retirements, Excess(Len(retirements)) + 1,
                     Len(retirements))

\* subscribe: what a stream has yielded is the run's history from index 0, in
\* order, each event once, however its snapshots interleaved with the pushes.
StreamIsPrefix ==
  \A c \in Clients :
    LET log == IF target[c] = 0 THEN <<>> ELSE events[target[c]]
    IN  /\ Len(received[c]) <= Len(log)
        /\ \A i \in DOMAIN received[c] :
             received[c][i] = [index |-> i - 1, kind |-> log[i]]

\* subscribe: a stream closes by itself only on a final log it has delivered
\* to the last event.
ClosedIsComplete ==
  \A c \in Clients :
    stream[c] = "closed" =>
      /\ done[target[c]]
      /\ Len(received[c]) = Len(events[target[c]])

\* The inductive strengthening of the two: what a stream has yielded followed
\* by what it still holds is a prefix of the history, and a snapshot taken as
\* final reaches its end.
ReadsLog(c, log) ==
  /\ cursor[c] = Len(received[c])
  /\ cursor[c] + Len(batch[c]) <= Len(log)
  /\ \A i \in 1 .. Len(received[c]) :
       received[c][i] = [index |-> i - 1, kind |-> log[i]]
  /\ \A i \in 1 .. Len(batch[c]) : batch[c][i] = log[cursor[c] + i]

EndsWithLog(c, log) ==
  /\ final[c] => /\ done[target[c]]
                 /\ cursor[c] + Len(batch[c]) = Len(log)
  /\ stream[c] # "draining" => batch[c] = <<>>
  /\ stream[c] = "closed" => final[c]

Faithful(c) ==
  ReadsLog(c, events[target[c]]) /\ EndsWithLog(c, events[target[c]])

StreamInv ==
  \A c \in Clients :
    IF stream[c] = "idle" THEN received[c] = <<>> ELSE Faithful(c)

\* How far a run's thread, supervisor and log are apart.
LifecycleInv ==
  \A r \in RunIds :
    /\ done[r] <=> supervisor[r] \in {"retire", "wake", "ended"}
    /\ supervisor[r] \in {"none", "registered"} <=> thread[r] = "none"
    /\ done[r] => thread[r] \in {"ok", "err", "panic"}

EndsOnce(log) ==
  /\ Len(log) > 0
  /\ \A i \in 1 .. Len(log) : log[i] \in Terminal <=> i = Len(log)

\* spawn_run: a final log holds exactly one terminal event, and it is last,
\* whichever of the three ways the thread ended.
ExactlyOneTerminal ==
  \A r \in RunIds :
    done[r] => EndsOnce(events[r])

\* Its inductive strengthening: no terminal event before `finished` is pushed
\* or the thread is joined.
TerminalInv ==
  \A r \in RunIds :
    IF done[r] \/ thread[r] \in {"notify_last", "ok"}
    THEN EndsOnce(events[r])
    ELSE \A i \in 1 .. Len(events[r]) : events[r][i] \notin Terminal

\* RunLog::done ("Once true, events is final"): a step may only extend a log,
\* and may not touch a final one.
LogsOnlyGrow ==
  [][\A r \in RunIds :
       /\ done[r] => done'[r] /\ events'[r] = events[r]
       /\ Len(events'[r]) >= Len(events[r])
       /\ SubSeq(events'[r], 1, Len(events[r])) = events[r]]_vars

\* Every registered run leaves the in-flight set, so a saturated server always
\* admits runs again.
RunsRetire == \A r \in RunIds : (r \in Registered) ~> (r \in Retired)

\* What a client of the wire contract sees of its subscriber: whether it is
\* served, and the events it has been sent.
ReaderStatus ==
  [c \in Clients |-> IF stream[c] = "idle" THEN "away"
                     ELSE IF stream[c] = "closed" THEN "ended" ELSE "reading"]

KindsOf(frames) == [i \in DOMAIN frames |-> frames[i].kind]

Delivered == [c \in Clients |-> KindsOf(received[c])]

\* The wire contract: the server implements the abstract event stream, its
\* liveness included: no wake is missed, so a subscriber that stays connected
\* gets to the end of a history that is final, and RunsRetire makes it final.
Stream == INSTANCE EventStream WITH
  Sources   <- RunIds,
  Readers   <- Clients,
  Events    <- Kinds,
  history   <- events,
  sealed    <- done,
  status    <- ReaderStatus,
  source    <- target,
  delivered <- Delivered

ImplementsEventStream == Stream!Spec

=============================================================================
