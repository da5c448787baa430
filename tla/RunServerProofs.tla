--------------------------- MODULE RunServerProofs ---------------------------
(***************************************************************************)
(* TLAPS proofs about RunServer, for every cap, retention, set of clients  *)
(* and number of runs: the registry and its slots; then the event streams. *)
(* Histories are append-only and final once done, every stream is a gapless*)
(* prefix of its run's history, and one that closes has delivered it all.  *)
(***************************************************************************)
EXTENDS RunServer, SequenceTheorems, FiniteSetTheorems, TLAPS

-----------------------------------------------------------------------------
(* Facts about the operators the actions are built from *)

LEMMA StoredKind ==
  ASSUME NEW kind \in Progress \cup Terminal
  PROVE  Stored(kind) \in Kinds
BY DEF Stored, Kinds, Terminal

\* What dropping the first m elements of a sequence leaves.
LEMMA SuffixProperties ==
  ASSUME NEW S, NEW s \in Seq(S), NEW m \in Nat
  PROVE  /\ SubSeq(s, m + 1, Len(s)) \in Seq(S)
         /\ Len(SubSeq(s, m + 1, Len(s))) = IF m <= Len(s) THEN Len(s) - m ELSE 0
         /\ \A i \in 1 .. Len(SubSeq(s, m + 1, Len(s))) :
              SubSeq(s, m + 1, Len(s))[i] = s[m + i]
<1>1. Len(s) \in Nat /\ m + 1 \in Int
  BY LenProperties
<1>2. \A i \in m + 1 .. Len(s) : s[i] \in S
  BY <1>1, ElementOfSeq
<1>3. /\ SubSeq(s, m + 1, Len(s)) \in Seq(S)
      /\ Len(SubSeq(s, m + 1, Len(s))) =
           IF m + 1 <= Len(s) THEN Len(s) - (m + 1) + 1 ELSE 0
      /\ \A i \in 1 .. Len(s) - (m + 1) + 1 :
           SubSeq(s, m + 1, Len(s))[i] = s[m + 1 + i - 1]
  BY <1>1, <1>2, SubSeqProperties
<1>4. QED
  BY <1>1, <1>3

-----------------------------------------------------------------------------
(* Type correctness *)

LEMMA TypeInit == Init => TypeOK
BY LimitsAssumption, EmptySeq
   DEF Init, TypeOK, ThreadStates, SupervisorStates, StreamStates, RunIds

LEMMA TypeStep == TypeOK /\ [Next]_vars => TypeOK'
<1> SUFFICES ASSUME TypeOK, [Next]_vars PROVE TypeOK'
  OBVIOUS
<1> USE DEF TypeOK, registry, logs, subscriber
<1>1. CASE RegisterRun
  BY <1>1, LimitsAssumption DEF RegisterRun, SupervisorStates, RunIds
<1>2. ASSUME NEW r \in RunIds, ThreadStep(r) PROVE TypeOK'
  <2>1. CASE StartTraining(r)
    BY <2>1 DEF StartTraining, ThreadStates
  <2>2. CASE EmitProgress(r)
    <3>1. PICK kind \in Progress : Push(r, kind)
      BY <2>2 DEF EmitProgress
    <3>2. Append(events[r], Stored(kind)) \in Seq(Kinds)
      BY StoredKind, AppendProperties
    <3>3. events' \in [RunIds -> Seq(Kinds)]
      BY <3>1, <3>2 DEF Push
    <3>4. QED
      BY <2>2, <3>3 DEF EmitProgress, ThreadStates
  <2>3. CASE EmitFinished(r)
    <3>1. Append(events[r], Stored("finished")) \in Seq(Kinds)
      BY StoredKind, AppendProperties DEF Terminal
    <3>2. events' \in [RunIds -> Seq(Kinds)]
      BY <2>3, <3>1 DEF EmitFinished, Push
    <3>3. QED
      BY <2>3, <3>2 DEF EmitFinished, ThreadStates
  <2>4. CASE NotifyEvent(r)
    BY <2>4 DEF NotifyEvent, SendReplace, ThreadStates, Subscribed
  <2>5. CASE TrainerFails(r)
    BY <2>5 DEF TrainerFails, ThreadStates
  <2>6. QED
    BY <1>2, <2>1, <2>2, <2>3, <2>4, <2>5 DEF ThreadStep
<1>3. ASSUME NEW r \in RunIds, SupervisorStep(r) PROVE TypeOK'
  <2>1. CASE SpawnRun(r)
    BY <2>1 DEF SpawnRun, SupervisorStates, ThreadStates
  <2>2. CASE JoinThread(r)
    <3>1. Append(events[r], "failed") \in Seq(Kinds)
      BY AppendProperties DEF Kinds, Terminal
    <3>2. events' \in [RunIds -> Seq(Kinds)]
      BY <2>2, <3>1 DEF JoinThread, Joined, NeedsFailed
    <3>3. QED
      BY <2>2, <3>2 DEF JoinThread, Joined, NeedsFailed, SupervisorStates
  <2>3. CASE CompleteRun(r)
    <3> DEFINE queue == Append(completed, r)
               excess == Excess(Len(queue))
    <3>1. queue \in Seq(RunIds) /\ Len(queue) \in Nat
      BY AppendProperties, LenProperties
    <3>2. excess \in Nat
      BY <3>1, LimitsAssumption DEF Excess
    <3>3. completed' \in Seq(RunIds)
      BY <2>3, <3>1, <3>2, SuffixProperties DEF CompleteRun, Keep
    <3>4. retirements' \in Seq(RunIds)
      BY <2>3, AppendProperties DEF CompleteRun
    <3>5. in_flight' \in Nat /\ runs' \subseteq RunIds
      BY <2>3 DEF CompleteRun
    <3>6. QED
      BY <2>3, <3>3, <3>4, <3>5 DEF CompleteRun, SupervisorStates
  <2>4. CASE FinalWake(r)
    BY <2>4 DEF FinalWake, SendReplace, SupervisorStates, Subscribed
  <2>5. QED
    BY <1>3, <2>1, <2>2, <2>3, <2>4 DEF SupervisorStep
<1>4. ASSUME NEW c \in Clients, NEW r \in RunIds, OpenStream(c, r)
      PROVE  TypeOK'
  BY <1>4, EmptySeq DEF OpenStream, ResetStream, StreamStates, RunIds
<1>5. ASSUME NEW c \in Clients, SubscriberStep(c)
      PROVE  TypeOK'
  <2>0. target[c] \in RunIds
    BY <1>5 DEF SubscriberStep, Subscribe, Snapshot, YieldFrame, EndOfBatch,
                WakeUp
  <2>1. CASE Subscribe(c)
    BY <2>1 DEF Subscribe, StreamStates
  <2>2. CASE Snapshot(c)
    <3>1. SubSeq(events[target[c]], cursor[c] + 1, Len(events[target[c]]))
            \in Seq(Kinds)
      BY <2>0, SuffixProperties
    <3>2. batch' \in [Clients -> Seq(Kinds)]
      BY <2>2, <3>1 DEF Snapshot, Unread
    <3>3. QED
      BY <2>0, <2>2, <3>2 DEF Snapshot, StreamStates
  <2>3. CASE YieldFrame(c)
    <3>1. Head(batch[c]) \in Kinds /\ Tail(batch[c]) \in Seq(Kinds)
      BY <2>3, HeadTailProperties DEF YieldFrame
    <3>2. [index |-> cursor[c], kind |-> Head(batch[c])] \in Frames
      BY <3>1 DEF Frames
    <3>3. received' \in [Clients -> Seq(Frames)]
      BY <2>3, <3>2, AppendProperties DEF YieldFrame
    <3>4. QED
      BY <2>3, <3>1, <3>3 DEF YieldFrame
  <2>4. CASE EndOfBatch(c)
    BY <2>4 DEF EndOfBatch, SawEnd, StreamStates
  <2>5. CASE WakeUp(c)
    BY <2>5 DEF WakeUp, StreamStates
  <2>6. QED
    BY <1>5, <2>1, <2>2, <2>3, <2>4, <2>5 DEF SubscriberStep
<1>6. ASSUME NEW c \in Clients, Disconnect(c) PROVE TypeOK'
  BY <1>6, EmptySeq DEF Disconnect, ResetStream, StreamStates
<1>7. CASE UNCHANGED vars
  BY <1>7 DEF vars
<1>8. QED
  BY <1>1, <1>2, <1>3, <1>4, <1>5, <1>6, <1>7 DEF Next

\* Every variable keeps its type: the registry, the logs and the cursors never
\* leave their ranges, and every attached subscriber has a run.
THEOREM TypeCorrect == Spec => []TypeOK
BY TypeInit, TypeStep, PTL DEF Spec

-----------------------------------------------------------------------------
(* The registry *)

LEMMA InFlightFinite ==
  ASSUME TypeOK
  PROVE  IsFiniteSet(InFlight) /\ Cardinality(InFlight) \in Nat
<1>1. IsFiniteSet(1 .. next_id - 1)
  BY LimitsAssumption, FS_Interval DEF TypeOK
<1>2. QED
  BY <1>1, FS_Subset, FS_CardinalityType DEF InFlight, Registered

LEMMA RegistryInit == Init => RegistryInv
<1> SUFFICES ASSUME Init PROVE RegistryInv
  OBVIOUS
<1>1. InFlight = {}
  BY DEF Init, InFlight, Registered
<1>2. Retained = {}
  BY DEF Init, Retained
<1>3. QED
  BY <1>1, <1>2, FS_EmptySet, LimitsAssumption
     DEF Init, RegistryInv, SlotAccounting, RegistryAgreement, RunIds

\* A step that leaves the registry alone and retires nothing.
LEMMA RegistryFrame ==
  ASSUME RegistryInv, UNCHANGED registry, Retired' = Retired,
         \A r \in RunIds : supervisor'[r] # "none" <=> supervisor[r] # "none"
  PROVE  RegistryInv'
BY DEF RegistryInv, registry, SlotAccounting, RegistryAgreement, InFlight,
       Registered, Retained

LEMMA RegistryAdmits ==
  ASSUME TypeOK, RegistryInv, RegisterRun
  PROVE  RegistryInv'
<1> USE DEF RegisterRun
<1>1. supervisor[next_id] = "none" /\ next_id \in RunIds /\ next_id \in Nat
  BY DEF RegistryInv, TypeOK, RunIds
<1>2. Retired' = Retired
  BY <1>1 DEF Retired, TypeOK
<1>3. next_id \notin Retired
  BY <1>1 DEF Retired
<1>4. InFlight' = InFlight \cup {next_id} /\ next_id \notin InFlight
  <2>1. Registered' = Registered \cup {next_id} /\ next_id \notin Registered
    BY <1>1, LimitsAssumption DEF Registered, TypeOK
  <2>2. QED
    BY <1>2, <1>3, <2>1 DEF InFlight
<1>5. Retained' = Retained
  BY DEF Retained
<1>6. SlotAccounting'
  <2>1. Cardinality(InFlight') = Cardinality(InFlight) + 1
    BY <1>4, InFlightFinite, FS_AddElement
  <2>2. in_flight' <= MaxConcurrent
    BY LimitsAssumption DEF HasFreeSlot, TypeOK
  <2>3. QED
    BY <2>1, <2>2 DEF SlotAccounting, RegistryInv
<1>7. RegistryAgreement'
  BY <1>3, <1>4, <1>5 DEF RegistryAgreement, RegistryInv
<1>8. \A r \in RunIds : (supervisor'[r] # "none") <=> (r < next_id')
  BY <1>1 DEF RegistryInv, TypeOK, RunIds
<1>9. QED
  BY <1>2, <1>5, <1>6, <1>7, <1>8 DEF RegistryInv

\* The queue after the push holds each retired id once, so what is dropped
\* from its head is disjoint from what stays.
LEMMA RegistryRetires ==
  ASSUME TypeOK, RegistryInv, NEW r \in RunIds, CompleteRun(r)
  PROVE  RegistryInv'
<1> DEFINE queue   == Append(completed, r)
           excess  == Excess(Len(queue))
           evicted == {queue[i] : i \in 1 .. excess}
<1>1. /\ completed \in Seq(RunIds)
      /\ queue \in Seq(RunIds)
      /\ Len(completed) \in Nat
      /\ Len(queue) = Len(completed) + 1
      /\ \A i \in 1 .. Len(completed) : queue[i] = completed[i]
      /\ queue[Len(completed) + 1] = r
  BY AppendProperties, LenProperties DEF TypeOK
<1>2. excess \in Nat /\ excess <= Len(queue)
  BY <1>1, LimitsAssumption DEF Excess
<1>3. /\ Len(completed') = Len(queue) - excess
      /\ \A i \in 1 .. Len(completed') : completed'[i] = queue[excess + i]
  <2>1. completed' = SubSeq(queue, excess + 1, Len(queue))
    BY DEF CompleteRun, Keep
  <2>2. QED
    BY <1>1, <1>2, <2>1, SuffixProperties
<1>4. runs' = runs \ evicted
  BY DEF CompleteRun, Evicted
<1>5. r \in InFlight /\ r \notin Retired /\ r \notin Retained
  <2>1. supervisor[r] = "retire"
    BY DEF CompleteRun
  <2>2. r < next_id
    BY <2>1 DEF RegistryInv
  <2>3. QED
    <3>1. r \in Registered
      BY <2>2, LimitsAssumption DEF Registered, RunIds, TypeOK
    <3>2. r \notin Retired
      BY <2>1 DEF Retired
    <3>3. QED
      BY <3>1, <3>2 DEF InFlight, RegistryInv
<1>6. Retired' = Retired \cup {r}
  BY DEF CompleteRun, Retired, TypeOK
<1>7. InFlight' = InFlight \ {r}
  BY <1>6 DEF InFlight, Registered, CompleteRun
<1>8. \A i, j \in 1 .. Len(queue) : queue[i] = queue[j] => i = j
  BY <1>1, <1>5 DEF RegistryInv, Retained
<1>9. Retained' = {queue[i] : i \in excess + 1 .. Len(queue)}
  <2>1. ASSUME NEW i \in 1 .. Len(completed')
        PROVE  /\ completed'[i] = queue[excess + i]
               /\ excess + i \in excess + 1 .. Len(queue)
    BY <1>1, <1>2, <1>3
  <2>2. ASSUME NEW j \in excess + 1 .. Len(queue)
        PROVE  /\ j - excess \in 1 .. Len(completed')
               /\ completed'[j - excess] = queue[j]
    BY <1>1, <1>2, <1>3
  <2>3. Retained' = {completed'[i] : i \in 1 .. Len(completed')}
    BY DEF Retained
  <2>4. Retained' \subseteq {queue[i] : i \in excess + 1 .. Len(queue)}
    BY <2>1, <2>3
  <2>5. {queue[i] : i \in excess + 1 .. Len(queue)} \subseteq Retained'
    BY <2>2, <2>3
  <2>6. QED
    BY <2>4, <2>5
<1>10. /\ evicted \cap Retained' = {}
       /\ evicted \cup Retained' = Retained \cup {r}
  <2>1. {queue[i] : i \in 1 .. Len(queue)} = Retained \cup {r}
    BY <1>1 DEF Retained
  <2>2. 1 .. Len(queue) = (1 .. excess) \cup (excess + 1 .. Len(queue))
    BY <1>1, <1>2
  <2>3. evicted \cup Retained' = {queue[i] : i \in 1 .. Len(queue)}
    BY <1>9, <2>2
  <2>4. ASSUME NEW i \in 1 .. excess, NEW j \in excess + 1 .. Len(queue)
        PROVE  queue[i] # queue[j]
    BY <1>1, <1>2, <1>8
  <2>5. evicted \cap Retained' = {}
    BY <1>9, <2>4
  <2>6. QED
    BY <2>1, <2>3, <2>5
<1> HIDE DEF evicted
<1>11. SlotAccounting'
  <2>1. Cardinality(InFlight') = Cardinality(InFlight) - 1
    BY <1>5, <1>7, InFlightFinite, FS_RemoveElement
  <2>2. Cardinality(InFlight) = in_flight /\ in_flight > 0
    BY <1>5, InFlightFinite, FS_EmptySet
       DEF RegistryInv, SlotAccounting, TypeOK
  <2>3. in_flight' = in_flight - 1
    BY <2>2 DEF CompleteRun
  <2>4. QED
    BY <2>1, <2>2, <2>3, LimitsAssumption
       DEF SlotAccounting, RegistryInv, TypeOK
<1>12. RegistryAgreement'
  <2>1. runs' = (InFlight \cup Retained) \ evicted
    BY <1>4 DEF RegistryInv, RegistryAgreement
  <2>2. InFlight \cap Retained = {}
    BY DEF RegistryInv, RegistryAgreement
  <2>3. QED
    BY <1>5, <1>7, <1>10, <2>1, <2>2 DEF RegistryAgreement
<1>13. Retained' \subseteq Retired'
  BY <1>6, <1>10 DEF RegistryInv
<1>14. \A i, j \in 1 .. Len(completed') :
         completed'[i] = completed'[j] => i = j
  <2> SUFFICES ASSUME NEW i \in 1 .. Len(completed'),
                      NEW j \in 1 .. Len(completed'),
                      completed'[i] = completed'[j]
               PROVE  i = j
    OBVIOUS
  <2>1. excess + i \in 1 .. Len(queue) /\ excess + j \in 1 .. Len(queue)
    BY <1>1, <1>2, <1>3
  <2>2. excess + i = excess + j
    BY <1>3, <1>8, <2>1
  <2>3. QED
    BY <1>2, <2>2
<1>15. \A x \in RunIds : (supervisor'[x] # "none") <=> (x < next_id')
  BY DEF RegistryInv, CompleteRun, TypeOK
<1>16. QED
  BY <1>11, <1>12, <1>13, <1>14, <1>15 DEF RegistryInv

LEMMA RegistryStep == TypeOK /\ RegistryInv /\ [Next]_vars => RegistryInv'
<1> SUFFICES ASSUME TypeOK, RegistryInv, [Next]_vars PROVE RegistryInv'
  OBVIOUS
<1>1. CASE RegisterRun
  BY <1>1, RegistryAdmits
<1>2. ASSUME NEW r \in RunIds, ThreadStep(r) PROVE RegistryInv'
  BY <1>2, RegistryFrame
     DEF ThreadStep, StartTraining, EmitProgress, EmitFinished, NotifyEvent,
         TrainerFails, registry, Retired
<1>3. ASSUME NEW r \in RunIds, SupervisorStep(r) PROVE RegistryInv'
  <2>1. CASE CompleteRun(r)
    BY <2>1, RegistryRetires
  <2>2. CASE SpawnRun(r) \/ JoinThread(r) \/ FinalWake(r)
    <3>1. /\ UNCHANGED registry
          /\ \A x \in RunIds :
               /\ (supervisor'[x] # "none") <=> (supervisor[x] # "none")
               /\ (supervisor'[x] \in {"wake", "ended"})
                    <=> (supervisor[x] \in {"wake", "ended"})
      BY <2>2 DEF SpawnRun, JoinThread, FinalWake, registry, TypeOK
    <3>2. Retired' = Retired
      BY <3>1 DEF Retired
    <3>3. QED
      BY <3>1, <3>2, RegistryFrame
  <2>3. QED
    BY <1>3, <2>1, <2>2 DEF SupervisorStep
<1>4. ASSUME NEW c \in Clients, NEW r \in RunIds, OpenStream(c, r)
      PROVE  RegistryInv'
  BY <1>4, RegistryFrame DEF OpenStream, ResetStream, registry, Retired
<1>5. ASSUME NEW c \in Clients, SubscriberStep(c) \/ Disconnect(c)
      PROVE  RegistryInv'
  BY <1>5, RegistryFrame
     DEF SubscriberStep, Subscribe, Snapshot, YieldFrame, EndOfBatch, WakeUp,
         Disconnect, registry, Retired
<1>6. CASE UNCHANGED vars
  BY <1>6, RegistryFrame DEF vars, registry, Retired
<1>7. QED
  BY <1>1, <1>2, <1>3, <1>4, <1>5, <1>6 DEF Next

LEMMA RegistryInvariant == Spec => []RegistryInv
BY TypeCorrect, RegistryInit, RegistryStep, PTL DEF Spec

\* The concurrency cap holds whatever the interleaving of POSTs and
\* completions: the counter equals the number of runs in flight.
THEOREM SlotsAreCounted == Spec => []SlotAccounting
BY RegistryInvariant, PTL DEF RegistryInv

\* No run in flight is ever evicted, and no evicted run stays reachable.
THEOREM RegistryAgrees == Spec => []RegistryAgreement
BY RegistryInvariant, PTL DEF RegistryInv

-----------------------------------------------------------------------------
(* Retention *)

LEMMA LastOrBefore ==
  ASSUME NEW n \in Nat, NEW i \in 1 .. n + 1
  PROVE  i \in 1 .. n \/ i = n + 1
OBVIOUS

LEMMA ShiftedIndex ==
  ASSUME NEW gone \in Nat, NEW over \in Nat, NEW n \in Nat, NEW late,
         over <= n, late = gone + over, NEW i \in 1 .. n - over
  PROVE  over + i \in 1 .. n /\ gone + (over + i) = late + i
OBVIOUS

\* Dropping what is due of a history and again with one more element drops
\* what is due of the longer history, and never more than there is.
LEMMA DropsAddUp ==
  ASSUME NEW n \in Nat
  PROVE  /\ Excess(n - Excess(n) + 1) \in Nat
         /\ Excess(n - Excess(n) + 1) <= n - Excess(n) + 1
         /\ Excess(n + 1) \in Nat
         /\ Excess(n + 1) <= n + 1
         /\ Excess(n + 1) = Excess(n) + Excess(n - Excess(n) + 1)
<1>1. Retention \in Nat
  BY LimitsAssumption
<1>2. CASE n > Retention
  <2>1. /\ Excess(n) = n - Retention
        /\ Excess(n + 1) = n + 1 - Retention
    BY <1>1, <1>2 DEF Excess
  <2>2. n - Excess(n) + 1 = Retention + 1
    BY <1>1, <2>1
  <2>3. Excess(Retention + 1) = 1
    BY <1>1 DEF Excess
  <2>4. Excess(n - Excess(n) + 1) = 1
    BY <2>2, <2>3
  <2>5. QED
    BY <1>1, <1>2, <2>1, <2>4
<1>3. CASE ~(n > Retention)
  <2>1. Excess(n) = 0
    BY <1>1, <1>3 DEF Excess
  <2>2. n - Excess(n) + 1 = n + 1
    BY <2>1
  <2>3. Excess(n + 1) \in Nat /\ Excess(n + 1) <= n + 1
    BY <1>1, <1>3 DEF Excess
  <2>4. QED
    BY <2>1, <2>2, <2>3
<1>4. QED
  BY <1>2, <1>3

\* The last Retention elements of a history with one more element are those
\* of the last Retention with it: dropping again drops no more than is due.
LEMMA KeepLatest ==
  ASSUME NEW hist \in Seq(RunIds), NEW r \in RunIds, NEW kept,
         kept = SubSeq(hist, Excess(Len(hist)) + 1, Len(hist))
  PROVE  Keep(Append(kept, r))
           = SubSeq(Append(hist, r), Excess(Len(Append(hist, r))) + 1, Len(Append(hist, r)))
<1> DEFINE gone == Excess(Len(hist))
           queue == Append(kept, r)
           grown == Append(hist, r)
           over == Excess(Len(queue))
           late == Excess(Len(grown))
           left == SubSeq(queue, over + 1, Len(queue))
           right == SubSeq(grown, late + 1, Len(grown))
<1>1. Len(hist) \in Nat /\ gone \in Nat /\ gone <= Len(hist)
  BY LenProperties, LimitsAssumption DEF Excess
<1>2. /\ kept \in Seq(RunIds) /\ Len(kept) = Len(hist) - gone
      /\ \A i \in 1 .. Len(kept) : kept[i] = hist[gone + i]
  <2> HIDE DEF gone
  <2>1. kept = SubSeq(hist, gone + 1, Len(hist))
    BY DEF gone
  <2>2. QED
    BY <1>1, <2>1, SuffixProperties
<1>3. /\ queue \in Seq(RunIds) /\ Len(queue) = Len(kept) + 1
      /\ \A i \in 1 .. Len(kept) : queue[i] = kept[i]
      /\ queue[Len(kept) + 1] = r
  BY <1>2, AppendProperties
<1>4. /\ grown \in Seq(RunIds) /\ Len(grown) = Len(hist) + 1
      /\ \A i \in 1 .. Len(hist) : grown[i] = hist[i]
      /\ grown[Len(hist) + 1] = r
  BY AppendProperties
<1>5. /\ over \in Nat /\ over <= Len(queue) /\ late \in Nat /\ late <= Len(grown)
      /\ late = gone + over
  <2>1. Len(queue) = Len(hist) - gone + 1
    BY <1>1, <1>2, <1>3
  <2>2. Len(grown) = Len(hist) + 1
    BY <1>4
  <2>3. over = Excess(Len(hist) - gone + 1) /\ late = Excess(Len(hist) + 1)
    BY <2>1, <2>2
  <2> HIDE DEF queue, grown, over, late
  <2>4. QED
    BY <1>1, <2>1, <2>2, <2>3, DropsAddUp
<1> HIDE DEF gone, queue, grown, over, late
<1>6. ASSUME NEW i \in 1 .. Len(queue)
      PROVE  queue[i] = grown[gone + i]
  <2>1. CASE i \in 1 .. Len(kept)
    <3>1. gone + i \in 1 .. Len(hist)
      BY <1>1, <1>2, <2>1
    <3>2. QED
      BY <1>2, <1>3, <1>4, <2>1, <3>1
  <2>2. CASE i = Len(kept) + 1
    <3>1. gone + i = Len(hist) + 1
      BY <1>1, <1>2, <2>2
    <3>2. QED
      BY <1>3, <1>4, <2>2, <3>1
  <2>3. i \in 1 .. Len(kept) \/ i = Len(kept) + 1
    <3>1. Len(kept) \in Nat /\ Len(queue) = Len(kept) + 1
      BY <1>2, <1>3, LenProperties
    <3>2. i \in 1 .. Len(kept) + 1
      BY <3>1, Zenon
    <3>3. QED
      BY <3>1, <3>2, LastOrBefore, Zenon
  <2>4. QED
    BY <2>1, <2>2, <2>3, Zenon
<1>7. /\ left \in Seq(RunIds) /\ Len(left) = Len(queue) - over
      /\ \A i \in 1 .. Len(left) : left[i] = queue[over + i]
  BY <1>3, <1>5, SuffixProperties
<1>8. /\ right \in Seq(RunIds) /\ Len(right) = Len(grown) - late
      /\ \A i \in 1 .. Len(right) : right[i] = grown[late + i]
  BY <1>4, <1>5, SuffixProperties
<1>9. Len(left) = Len(right)
  BY <1>1, <1>2, <1>3, <1>4, <1>5, <1>7, <1>8
<1> HIDE DEF left, right
<1>10. ASSUME NEW i \in 1 .. Len(left)
       PROVE  left[i] = right[i]
  <2>1. over + i \in 1 .. Len(queue) /\ gone + (over + i) = late + i
    <3>1. /\ gone \in Nat /\ over \in Nat /\ Len(queue) \in Nat
          /\ over <= Len(queue) /\ late = gone + over
      BY <1>1, <1>3, <1>5, LenProperties
    <3>2. i \in 1 .. Len(queue) - over
      BY <1>7, Zenon
    <3>3. QED
      BY <3>1, <3>2, ShiftedIndex
  <2>2. left[i] = grown[late + i]
    BY <1>6, <1>7, <2>1
  <2>3. right[i] = grown[late + i]
    BY <1>8, <1>9
  <2>4. QED
    BY <2>2, <2>3
<1>11. left = right
  BY <1>7, <1>8, <1>9, <1>10, SeqEqual
<1>12. QED
  BY <1>11 DEF left, right, Keep, queue, grown, over, late

LEMMA RetainsInit == Init => RetainsLatest
<1> SUFFICES ASSUME Init
             PROVE  RetainsLatest
  OBVIOUS
<1>1. completed = <<>> /\ retirements = <<>> /\ Len(<<>>) = 0
  BY EmptySeq DEF Init
<1>2. Excess(0) = 0
  BY LimitsAssumption DEF Excess
<1>3. SubSeq(<<>>, 0 + 1, 0) = <<>>
  OBVIOUS
<1>4. QED
  BY <1>1, <1>2, <1>3 DEF RetainsLatest

LEMMA RetainsStep ==
  ASSUME TypeOK, RetainsLatest, [Next]_vars
  PROVE  RetainsLatest'
<1>1. CASE \E r \in RunIds : CompleteRun(r)
  <2>1. PICK r \in RunIds : CompleteRun(r)
    BY <1>1
  <2>2. completed' = Keep(Append(completed, r)) /\ retirements' = Append(retirements, r)
    BY <2>1 DEF CompleteRun
  <2>3. retirements \in Seq(RunIds)
    BY DEF TypeOK
  <2>4. completed' = SubSeq(Append(retirements, r), Excess(Len(Append(retirements, r))) + 1,
                            Len(Append(retirements, r)))
    BY <2>2, <2>3, KeepLatest DEF RetainsLatest
  <2>5. QED
    BY <2>2, <2>4, Zenon DEF RetainsLatest, Excess
<1>2. CASE ~ \E r \in RunIds : CompleteRun(r)
  <2>1. UNCHANGED <<completed, retirements>>
    BY <1>2 DEF Next, RegisterRun, ThreadStep, StartTraining, EmitProgress, EmitFinished, NotifyEvent,
       TrainerFails, SupervisorStep, SpawnRun, JoinThread, FinalWake, OpenStream, SubscriberStep,
       Subscribe, Snapshot, YieldFrame, EndOfBatch, WakeUp, Disconnect, vars, registry
  <2>2. QED
    BY <2>1, Zenon DEF RetainsLatest, Excess
<1>3. QED
  BY <1>1, <1>2

\* complete_run evicts one queue from its front each time, whatever its length:
\* what is left is always the latest retired runs, in order, up to the cap.
THEOREM LatestAreRetained == Spec => []RetainsLatest
BY TypeCorrect, RetainsInit, RetainsStep, PTL DEF Spec

-----------------------------------------------------------------------------
(* The life of a run: thread, supervisor and log move together *)

LEMMA LifecycleInit == Init => LifecycleInv
BY DEF Init, LifecycleInv

LEMMA LifecycleStep == TypeOK /\ LifecycleInv /\ RegistryInv /\ [Next]_vars
                         => LifecycleInv'
<1> SUFFICES ASSUME TypeOK, LifecycleInv, RegistryInv, [Next]_vars
             PROVE  LifecycleInv'
  OBVIOUS
<1> USE DEF TypeOK, LifecycleInv, logs
<1>1. CASE RegisterRun
  <2>1. supervisor[next_id] = "none"
    BY <1>1 DEF RegisterRun, RegistryInv, RunIds
  <2>2. QED
    BY <1>1, <2>1 DEF RegisterRun
<1>2. ASSUME NEW r \in RunIds, ThreadStep(r) PROVE LifecycleInv'
  <2>1. /\ UNCHANGED <<done, supervisor>>
        /\ ~done[r] /\ thread[r] # "none"
        /\ \E state \in ThreadStates \ {"none"} :
             thread' = [thread EXCEPT ![r] = state]
    <3>1. CASE StartTraining(r)
      BY <3>1 DEF StartTraining, ThreadStates
    <3>2. CASE EmitProgress(r)
      BY <3>2 DEF EmitProgress, ThreadStates
    <3>3. CASE EmitFinished(r)
      BY <3>3 DEF EmitFinished, ThreadStates
    <3>4. CASE NotifyEvent(r)
      BY <3>4 DEF NotifyEvent, ThreadStates
    <3>5. CASE TrainerFails(r)
      BY <3>5 DEF TrainerFails, ThreadStates
    <3>6. QED
      BY <1>2, <3>1, <3>2, <3>3, <3>4, <3>5 DEF ThreadStep
  <2>2. QED
    BY <2>1
<1>3. ASSUME NEW r \in RunIds, SupervisorStep(r) PROVE LifecycleInv'
  BY <1>3 DEF SupervisorStep, SpawnRun, JoinThread, Joined, CompleteRun,
              FinalWake
<1>4. ASSUME NEW c \in Clients, NEW r \in RunIds, OpenStream(c, r)
      PROVE  LifecycleInv'
  BY <1>4 DEF OpenStream, ResetStream
<1>5. ASSUME NEW c \in Clients, SubscriberStep(c) \/ Disconnect(c)
      PROVE  LifecycleInv'
  BY <1>5 DEF SubscriberStep, Subscribe, Snapshot, YieldFrame, EndOfBatch,
              WakeUp, Disconnect
<1>6. CASE UNCHANGED vars
  BY <1>6 DEF vars
<1>7. QED
  BY <1>1, <1>2, <1>3, <1>4, <1>5, <1>6 DEF Next

LEMMA LifecycleInvariant == Spec => []LifecycleInv
BY TypeCorrect, RegistryInvariant, LifecycleInit, LifecycleStep, PTL DEF Spec

-----------------------------------------------------------------------------
(* Logs *)

\* A step extends the log of r by at most one event, and not a final one.
Extends(r) ==
  /\ done[r] => done'[r] /\ events'[r] = events[r]
  /\ Len(events'[r]) >= Len(events[r])
  /\ \A i \in 1 .. Len(events[r]) : events'[r][i] = events[r][i]

\* The four steps that write a hist: the others leave all of them alone.
WritesLog(r) == EmitProgress(r) \/ EmitFinished(r) \/ JoinThread(r)

LEMMA OtherSteps ==
  ASSUME [Next]_vars, ~ \E r \in RunIds : WritesLog(r)
  PROVE  UNCHANGED logs
BY DEF Next, vars, logs, WritesLog, RegisterRun, ThreadStep, StartTraining,
       NotifyEvent, TrainerFails, SupervisorStep, SpawnRun, CompleteRun,
       FinalWake, OpenStream, SubscriberStep, Subscribe, Snapshot, YieldFrame,
       EndOfBatch, WakeUp, Disconnect

\* A writer appends one event, or, when it joins a thread that ended well,
\* none.
LEMMA WriteAppends ==
  ASSUME TypeOK, LifecycleInv, NEW r \in RunIds, WritesLog(r)
  PROVE  /\ ~done[r]
         /\ \A x \in RunIds : done[x] => done'[x]
         /\ \/ events' = events
            \/ \E kind \in Kinds :
                 events' = [events EXCEPT ![r] = Append(@, kind)]
<1>1. CASE EmitProgress(r)
  <2>1. PICK kind \in Progress : Push(r, kind)
    BY <1>1 DEF EmitProgress
  <2>2. QED
    BY <1>1, <2>1, StoredKind DEF EmitProgress, Push, LifecycleInv
<1>2. CASE EmitFinished(r)
  BY <1>2, StoredKind DEF EmitFinished, Push, LifecycleInv, Terminal
<1>3. CASE JoinThread(r)
  BY <1>3 DEF JoinThread, Joined, NeedsFailed, LifecycleInv, TypeOK, Kinds, Terminal
<1>4. QED
  BY <1>1, <1>2, <1>3 DEF WritesLog

LEMMA LogsExtend ==
  ASSUME TypeOK, LifecycleInv, [Next]_vars
  PROVE  \A x \in RunIds : Extends(x)
<1>1. CASE \E r \in RunIds : WritesLog(r)
  <2>1. PICK r \in RunIds : WritesLog(r)
    BY <1>1
  <2>2. CASE events' = events
    BY <2>1, <2>2, WriteAppends DEF Extends, TypeOK
  <2>3. CASE \E kind \in Kinds :
               events' = [events EXCEPT ![r] = Append(@, kind)]
    <3>1. PICK kind \in Kinds :
            events' = [events EXCEPT ![r] = Append(@, kind)]
      BY <2>3
    <3>2. ~done[r] /\ \A x \in RunIds : done[x] => done'[x]
      BY <2>1, WriteAppends
    <3>3. events[r] \in Seq(Kinds) /\ events'[r] = Append(events[r], kind)
      BY <3>1 DEF TypeOK
    <3>4. /\ Len(events'[r]) = Len(events[r]) + 1
          /\ Len(events[r]) \in Nat
          /\ \A i \in 1 .. Len(events[r]) : events'[r][i] = events[r][i]
      BY <3>3, AppendProperties, LenProperties
    <3>5. Extends(r)
      BY <3>2, <3>4 DEF Extends
    <3>6. ASSUME NEW x \in RunIds, x # r PROVE Extends(x)
      BY <3>1, <3>2, <3>6 DEF Extends, TypeOK
    <3>7. QED
      BY <3>5, <3>6
  <2>4. QED
    BY <2>1, <2>2, <2>3, WriteAppends
<1>2. CASE ~ \E r \in RunIds : WritesLog(r)
  BY <1>2, OtherSteps DEF Extends, logs, TypeOK
<1>3. QED
  BY <1>1, <1>2

\* RunLog::done ("Once true, events is final"): no step rewrites or truncates
\* a history, and none appends to a final one.
THEOREM HistoriesAreFinal == Spec => LogsOnlyGrow
<1>1. TypeOK /\ TypeOK' /\ LifecycleInv /\ [Next]_vars =>
        [\A r \in RunIds :
           /\ done[r] => done'[r] /\ events'[r] = events[r]
           /\ Len(events'[r]) >= Len(events[r])
           /\ SubSeq(events'[r], 1, Len(events[r])) = events[r]]_vars
  <2> SUFFICES ASSUME TypeOK, TypeOK', LifecycleInv, [Next]_vars,
                      NEW r \in RunIds
               PROVE  /\ done[r] => done'[r] /\ events'[r] = events[r]
                      /\ Len(events'[r]) >= Len(events[r])
                      /\ SubSeq(events'[r], 1, Len(events[r])) = events[r]
    OBVIOUS
  <2>1. Extends(r)
    BY LogsExtend
  <2> DEFINE prefix == SubSeq(events'[r], 1, Len(events[r]))
  <2>2. events[r] \in Seq(Kinds) /\ events'[r] \in Seq(Kinds)
    BY DEF TypeOK
  <2>3. /\ prefix \in Seq(Kinds)
        /\ Len(prefix) = Len(events[r])
        /\ \A i \in 1 .. Len(events[r]) : prefix[i] = events'[r][i]
    <3>1. /\ Len(events[r]) \in Nat
          /\ \A i \in 1 .. Len(events[r]) : events'[r][i] \in Kinds
      BY <2>1, <2>2, LenProperties, ElementOfSeq DEF Extends
    <3>2. /\ prefix \in Seq(Kinds)
          /\ Len(prefix) = IF 1 <= Len(events[r]) THEN Len(events[r]) - 1 + 1
                           ELSE 0
          /\ \A i \in 1 .. Len(events[r]) - 1 + 1 :
               prefix[i] = events'[r][1 + i - 1]
      BY <3>1, SubSeqProperties
    <3>3. QED
      BY <3>1, <3>2
  <2>4. prefix = events[r]
    BY <2>1, <2>2, <2>3, SeqEqual DEF Extends
  <2>5. QED
    BY <2>1, <2>4 DEF Extends
<1>2. QED
  BY <1>1, TypeCorrect, LifecycleInvariant, PTL DEF Spec, LogsOnlyGrow

-----------------------------------------------------------------------------
(* Streams *)

LEMMA StreamInit == Init => StreamInv
BY DEF Init, StreamInv

\* Positions in two adjacent stretches of an interval.
LEMMA IndexWithin ==
  ASSUME NEW a \in Nat, NEW b \in Nat, NEW n \in Nat, a + b <= n
  PROVE  /\ \A i \in 1 .. a : i \in 1 .. n
         /\ \A i \in 1 .. b : a + i \in 1 .. n
OBVIOUS

\* Appending to logs disturbs no reader.
LEMMA ReaderFrame ==
  ASSUME NEW c, NEW hist \in Seq(Kinds), NEW grown \in Seq(Kinds),
         Len(hist) <= Len(grown),
         \A i \in 1 .. Len(hist) : grown[i] = hist[i],
         cursor[c] \in Nat, batch[c] \in Seq(Kinds), received[c] \in Seq(Frames),
         ReadsLog(c, hist)
  PROVE  ReadsLog(c, grown)
<1>1. /\ Len(hist) \in Nat /\ Len(grown) \in Nat
      /\ Len(batch[c]) \in Nat /\ Len(received[c]) \in Nat
  BY LenProperties
<1>2. cursor[c] + Len(batch[c]) <= Len(hist)
  BY Zenon DEF ReadsLog
<1>0. cursor[c] = Len(received[c])
  BY Zenon DEF ReadsLog
<1>3. ASSUME NEW i \in 1 .. Len(received[c])
      PROVE  received[c][i] = [index |-> i - 1, kind |-> grown[i]]
  <2>1. i \in 1 .. Len(hist)
    <3>1. Len(received[c]) + Len(batch[c]) <= Len(hist)
      BY <1>0, <1>2, Zenon
    <3>2. QED
      BY <1>1, <3>1, IndexWithin, Zenon
  <2>2. received[c][i] = [index |-> i - 1, kind |-> hist[i]]
    BY Zenon DEF ReadsLog
  <2>3. QED
    BY <2>1, <2>2, Zenon
<1>4. ASSUME NEW i \in 1 .. Len(batch[c])
      PROVE  batch[c][i] = grown[cursor[c] + i]
  <2>1. cursor[c] + i \in 1 .. Len(hist)
    BY <1>1, <1>2
  <2>2. batch[c][i] = hist[cursor[c] + i]
    BY Zenon DEF ReadsLog
  <2>3. QED
    BY <2>1, <2>2, Zenon
<1>5. cursor[c] + Len(batch[c]) <= Len(grown)
  BY <1>1, <1>2
<1>6. QED
  BY <1>0, <1>3, <1>4, <1>5, Zenon DEF ReadsLog

LEMMA StreamFrame ==
  ASSUME TypeOK, TypeOK', StreamInv, \A x \in RunIds : Extends(x),
         UNCHANGED <<stream, target, cursor, batch, final, received>>
  PROVE  StreamInv'
<1> SUFFICES ASSUME NEW c \in Clients, stream[c] # "idle" PROVE Faithful(c)'
  BY DEF StreamInv
<1>1. target[c] \in RunIds /\ Faithful(c)
  BY DEF TypeOK, StreamInv
<1> DEFINE hist   == events[target[c]]
           grown == events'[target[c]]
<1>2. /\ hist \in Seq(Kinds) /\ grown \in Seq(Kinds)
      /\ cursor[c] \in Nat /\ batch[c] \in Seq(Kinds)
      /\ received[c] \in Seq(Frames)
  BY <1>1 DEF TypeOK
<1>3. /\ Len(hist) <= Len(grown)
      /\ \A i \in 1 .. Len(hist) : grown[i] = hist[i]
  BY <1>1, <1>2, LenProperties DEF Extends
<1>4. done[target[c]] => done'[target[c]] /\ grown = hist
  BY <1>1 DEF Extends
<1>5. ReadsLog(c, hist) /\ EndsWithLog(c, hist)
  BY <1>1 DEF Faithful
<1> HIDE DEF hist, grown
<1>6. ReadsLog(c, grown)
  BY <1>2, <1>3, <1>5, ReaderFrame
<1>7. /\ final[c] => done'[target[c]] /\ cursor[c] + Len(batch[c]) = Len(grown)
      /\ stream[c] # "draining" => batch[c] = <<>>
      /\ stream[c] = "closed" => final[c]
  BY <1>4, <1>5, Zenon DEF EndsWithLog
<1> USE DEF grown
<1>8. ReadsLog(c, events[target[c]])'
  BY <1>6 DEF ReadsLog
<1>9. EndsWithLog(c, events[target[c]])'
  BY <1>7, Zenon DEF EndsWithLog
<1>10. QED
  BY <1>8, <1>9 DEF Faithful

\* A step of one subscriber leaves the streams of the others as they were.
LEMMA OthersFaithful ==
  ASSUME TypeOK, StreamInv, UNCHANGED logs,
         NEW c \in Clients,
         \A x \in Clients \ {c} :
           /\ stream'[x] = stream[x]
           /\ target'[x] = target[x]
           /\ cursor'[x] = cursor[x]
           /\ batch'[x] = batch[x]
           /\ final'[x] = final[x]
           /\ received'[x] = received[x],
         IF stream'[c] = "idle" THEN received'[c] = <<>> ELSE Faithful(c)'
  PROVE  StreamInv'
<1> SUFFICES ASSUME NEW x \in Clients \ {c}
             PROVE  (IF stream[x] = "idle" THEN received[x] = <<>>
                     ELSE Faithful(x))'
  BY DEF StreamInv
<1>1. IF stream[x] = "idle" THEN received[x] = <<>> ELSE Faithful(x)
  BY DEF StreamInv
<1>2. events' = events /\ done' = done
  BY DEF logs
<1>3. /\ stream'[x] = stream[x] /\ target'[x] = target[x]
      /\ cursor'[x] = cursor[x] /\ batch'[x] = batch[x]
      /\ final'[x] = final[x] /\ received'[x] = received[x]
  OBVIOUS
<1>4. CASE stream[x] = "idle"
  BY <1>1, <1>3, <1>4
<1>5. CASE stream[x] # "idle"
  <2>1. ReadsLog(x, events[target[x]]) /\ EndsWithLog(x, events[target[x]])
    BY <1>1, <1>5 DEF Faithful
  <2>2. ReadsLog(x, events[target[x]])'
    BY <1>2, <1>3, <2>1 DEF ReadsLog
  <2>3. EndsWithLog(x, events[target[x]])'
    <3>1. final'[x] => /\ done'[target'[x]]
                       /\ cursor'[x] + Len(batch'[x]) = Len(events'[target'[x]])
      BY <1>2, <1>3, <2>1, Zenon DEF EndsWithLog
    <3>2. stream'[x] # "draining" => batch'[x] = <<>>
      BY <1>3, <2>1 DEF EndsWithLog
    <3>3. stream'[x] = "closed" => final'[x]
      BY <1>3, <2>1, Zenon DEF EndsWithLog
    <3>4. QED
      BY <3>1, <3>2, <3>3, Zenon DEF EndsWithLog
  <2>4. QED
    BY <1>3, <1>5, <2>2, <2>3 DEF Faithful
<1>6. QED
  BY <1>4, <1>5

LEMMA StreamOpens ==
  ASSUME TypeOK, StreamInv, NEW c \in Clients, NEW r \in RunIds,
         OpenStream(c, r)
  PROVE  StreamInv'
<1>1. /\ stream'[c] = "opened" /\ target'[c] = r /\ cursor'[c] = 0
      /\ batch'[c] = <<>> /\ final'[c] = FALSE /\ received'[c] = <<>>
      /\ UNCHANGED logs
  BY DEF OpenStream, ResetStream, TypeOK
<1>2. Len(<<>>) = 0 /\ Len(events[r]) \in Nat /\ events'[r] = events[r]
  BY <1>1, EmptySeq, LenProperties DEF TypeOK, logs
<1>3. ReadsLog(c, events[target[c]])'
  BY <1>1, <1>2 DEF ReadsLog
<1>4. EndsWithLog(c, events[target[c]])'
  BY <1>1 DEF EndsWithLog
<1>5. Faithful(c)'
  BY <1>3, <1>4 DEF Faithful
<1>6. QED
  BY <1>1, <1>5, OthersFaithful DEF OpenStream, ResetStream, TypeOK

LEMMA StreamLeaves ==
  ASSUME TypeOK, StreamInv, NEW c \in Clients, Disconnect(c)
  PROVE  StreamInv'
<1>1. stream'[c] = "idle" /\ received'[c] = <<>> /\ UNCHANGED logs
  BY DEF Disconnect, ResetStream, TypeOK
<1>2. QED
  BY <1>1, OthersFaithful DEF Disconnect, ResetStream, TypeOK

\* The steps that only move the subscriber's control point.
LEMMA StreamMoves ==
  ASSUME TypeOK, StreamInv, NEW c \in Clients,
         Subscribe(c) \/ EndOfBatch(c) \/ WakeUp(c)
  PROVE  StreamInv'
<1>1. /\ stream[c] # "idle" /\ stream'[c] # "idle"
      /\ batch[c] = <<>>
      /\ stream'[c] = "closed" => final[c]
      /\ UNCHANGED <<logs, target, cursor, batch, final, received>>
  <2>1. CASE Subscribe(c)
    BY <2>1 DEF Subscribe, TypeOK, StreamInv, Faithful, EndsWithLog
  <2>2. CASE EndOfBatch(c)
    BY <2>2 DEF EndOfBatch, SawEnd, TypeOK
  <2>3. CASE WakeUp(c)
    BY <2>3 DEF WakeUp, TypeOK, StreamInv, Faithful, EndsWithLog
  <2>4. QED
    BY <2>1, <2>2, <2>3
<1>2. ReadsLog(c, events[target[c]]) /\ EndsWithLog(c, events[target[c]])
  BY <1>1 DEF StreamInv, Faithful
<1>3. ReadsLog(c, events[target[c]])'
  BY <1>1, <1>2 DEF ReadsLog, logs
<1>4. EndsWithLog(c, events[target[c]])'
  <2>1. final'[c] => /\ done'[target'[c]]
                     /\ cursor'[c] + Len(batch'[c]) = Len(events'[target'[c]])
    BY <1>1, <1>2, Zenon DEF EndsWithLog, logs
  <2>2. (stream'[c] # "draining" => batch'[c] = <<>>)
        /\ (stream'[c] = "closed" => final'[c])
    BY <1>1, Zenon
  <2>3. QED
    BY <2>1, <2>2, Zenon DEF EndsWithLog
<1>5. Faithful(c)'
  BY <1>3, <1>4 DEF Faithful
<1>6. \A x \in Clients \ {c} : stream'[x] = stream[x]
  BY DEF Subscribe, EndOfBatch, WakeUp, TypeOK
<1>7. QED
  BY <1>1, <1>5, <1>6, OthersFaithful

\* A snapshot copies exactly the suffix the cursor has not passed, together
\* with the done flag of the same instant.
LEMMA StreamSnapshots ==
  ASSUME TypeOK, StreamInv, NEW c \in Clients, Snapshot(c)
  PROVE  StreamInv'
<1> DEFINE hist == events[target[c]]
           rest == SubSeq(hist, cursor[c] + 1, Len(hist))
<1>1. /\ stream[c] # "idle" /\ stream'[c] = "draining"
      /\ batch'[c] = rest
      /\ final'[c] = done[target[c]]
      /\ UNCHANGED <<logs, target, cursor, received>>
  BY DEF Snapshot, Unread, TypeOK
<1>2. ReadsLog(c, hist)
  BY <1>1 DEF StreamInv, Faithful
<1>3. /\ hist \in Seq(Kinds) /\ Len(hist) \in Nat /\ cursor[c] \in Nat
      /\ batch[c] \in Seq(Kinds) /\ Len(batch[c]) \in Nat
  BY <1>1, LenProperties DEF TypeOK
<1>4. cursor[c] + Len(batch[c]) <= Len(hist)
  BY <1>2, Zenon DEF ReadsLog
<1>5. cursor[c] <= Len(hist)
  BY <1>3, <1>4
<1>6. /\ Len(rest) = Len(hist) - cursor[c]
      /\ \A i \in 1 .. Len(rest) : rest[i] = hist[cursor[c] + i]
  BY <1>3, <1>5, SuffixProperties
<1>7. cursor[c] + Len(rest) = Len(hist)
  BY <1>3, <1>5, <1>6
<1> HIDE DEF rest
<1>8. ReadsLog(c, events[target[c]])'
  <2>1. cursor[c] + Len(rest) <= Len(hist)
    BY <1>3, <1>7
  <2>2. /\ cursor[c] = Len(received[c])
        /\ \A i \in 1 .. Len(received[c]) :
             received[c][i] = [index |-> i - 1, kind |-> hist[i]]
    BY <1>2, Zenon DEF ReadsLog
  <2>3. events'[target'[c]] = hist /\ cursor'[c] = cursor[c]
        /\ received'[c] = received[c]
    BY <1>1 DEF logs
  <2>4. QED
    BY <1>1, <1>6, <2>1, <2>2, <2>3, Zenon DEF ReadsLog
<1>9. EndsWithLog(c, events[target[c]])'
  <2>1. done'[target'[c]] = done[target[c]] /\ events'[target'[c]] = hist
        /\ cursor'[c] = cursor[c]
    BY <1>1 DEF logs
  <2>2. QED
    BY <1>1, <1>7, <2>1, Zenon DEF EndsWithLog
<1>10. Faithful(c)'
  BY <1>8, <1>9 DEF Faithful
<1>11. QED
  BY <1>1, <1>10, OthersFaithful DEF Snapshot, TypeOK

\* Moving one position from the batch to the cursor.
LEMMA CursorShift ==
  ASSUME NEW a \in Nat
  PROVE  /\ \A b \in Nat : (a + 1) + (b - 1) = a + b
         /\ \A n \in Nat : \A i \in 1 .. n : (a + 1) + i = a + (i + 1)
OBVIOUS

\* Yielding moves the head of the batch to the end of what was received, with
\* the cursor as its index.
LEMMA StreamYields ==
  ASSUME TypeOK, StreamInv, NEW c \in Clients, YieldFrame(c)
  PROVE  StreamInv'
<1> DEFINE hist  == events[target[c]]
           frame == [index |-> cursor[c], kind |-> Head(batch[c])]
<1>1. /\ stream[c] = "draining" /\ stream'[c] = "draining"
      /\ batch[c] # <<>>
      /\ received'[c] = Append(received[c], frame)
      /\ cursor'[c] = cursor[c] + 1
      /\ batch'[c] = Tail(batch[c])
      /\ UNCHANGED <<logs, target, final>>
  BY DEF YieldFrame, TypeOK
<1>2. ReadsLog(c, hist) /\ EndsWithLog(c, hist)
  BY <1>1 DEF StreamInv, Faithful
<1>3. /\ hist \in Seq(Kinds) /\ cursor[c] \in Nat
      /\ batch[c] \in Seq(Kinds) /\ received[c] \in Seq(Frames)
      /\ Len(hist) \in Nat /\ Len(batch[c]) \in Nat
      /\ Len(received[c]) \in Nat
  BY <1>1, LenProperties DEF TypeOK
<1>4. /\ Len(batch[c]) > 0
      /\ Head(batch[c]) = batch[c][1]
      /\ Head(batch[c]) \in Kinds
      /\ Len(batch'[c]) = Len(batch[c]) - 1
      /\ \A i \in 1 .. Len(batch'[c]) : batch'[c][i] = batch[c][i + 1]
  BY <1>1, <1>3, HeadTailProperties
<1>5. frame \in Frames
  BY <1>3, <1>4 DEF Frames
<1>6. /\ Len(received'[c]) = Len(received[c]) + 1
      /\ \A i \in 1 .. Len(received[c]) : received'[c][i] = received[c][i]
      /\ received'[c][Len(received[c]) + 1] = frame
  BY <1>1, <1>3, <1>5, AppendProperties
<1>7. cursor[c] = Len(received[c])
  BY <1>2, Zenon DEF ReadsLog
<1>8. cursor[c] + Len(batch[c]) <= Len(hist)
  BY <1>2, Zenon DEF ReadsLog
<1>9. cursor'[c] + Len(batch'[c]) = cursor[c] + Len(batch[c])
  <2>1. (cursor[c] + 1) + (Len(batch[c]) - 1) = cursor[c] + Len(batch[c])
    BY <1>3, CursorShift
  <2>2. cursor'[c] = cursor[c] + 1 /\ Len(batch'[c]) = Len(batch[c]) - 1
    BY <1>1, <1>4, Zenon
  <2>3. QED
    BY <2>1, <2>2, Zenon
<1>10. events'[target'[c]] = hist /\ done'[target'[c]] = done[target[c]]
  BY <1>1 DEF logs
<1> HIDE DEF frame, hist
<1>11. ASSUME NEW i \in 1 .. Len(received'[c])
       PROVE  received'[c][i] = [index |-> i - 1, kind |-> hist[i]]
  <2>1. CASE i \in 1 .. Len(received[c])
    <3>1. received[c][i] = [index |-> i - 1, kind |-> hist[i]]
      BY <1>2, <2>1, Zenon DEF ReadsLog
    <3>2. QED
      BY <1>6, <2>1, <3>1, Zenon
  <2>2. CASE i = Len(received[c]) + 1
    <3>1. i - 1 = cursor[c] /\ cursor[c] + 1 = i
      BY <1>3, <1>7, <2>2
    <3>2. batch[c][1] = hist[cursor[c] + 1]
      <4>1. 1 \in 1 .. Len(batch[c])
        BY <1>3, <1>4
      <4>2. QED
        BY <1>2, <4>1, Zenon DEF ReadsLog
    <3>3. frame = [index |-> i - 1, kind |-> hist[i]]
      BY <1>4, <3>1, <3>2 DEF frame
    <3>4. QED
      BY <1>6, <2>2, <3>3, Zenon
  <2>3. QED
    BY <1>3, <1>6, <2>1, <2>2
<1>12. ASSUME NEW i \in 1 .. Len(batch'[c])
       PROVE  batch'[c][i] = hist[cursor'[c] + i]
  <2>1. i + 1 \in 1 .. Len(batch[c]) /\ Len(batch'[c]) \in Nat
    BY <1>3, <1>4
  <2>2. batch[c][i + 1] = hist[cursor[c] + (i + 1)]
    BY <1>2, <2>1, Zenon DEF ReadsLog
  <2>3. cursor'[c] + i = cursor[c] + (i + 1)
    <3>1. (cursor[c] + 1) + i = cursor[c] + (i + 1)
      BY <1>3, <2>1, CursorShift
    <3>2. cursor'[c] = cursor[c] + 1
      BY <1>1, Zenon
    <3>3. QED
      BY <3>1, <3>2, Zenon
  <2>4. QED
    BY <1>4, <2>2, <2>3, Zenon
<1>13. cursor'[c] = Len(received'[c]) /\ cursor'[c] + Len(batch'[c]) <= Len(hist)
  BY <1>1, <1>6, <1>7, <1>8, <1>9, Zenon
<1>14. ReadsLog(c, events[target[c]])'
  BY <1>10, <1>11, <1>12, <1>13, Zenon DEF ReadsLog
<1>15. EndsWithLog(c, events[target[c]])'
  BY <1>1, <1>2, <1>9, <1>10, Zenon DEF EndsWithLog
<1>16. Faithful(c)'
  BY <1>14, <1>15 DEF Faithful
<1>17. QED
  BY <1>1, <1>16, OthersFaithful DEF YieldFrame, TypeOK

LEMMA StreamStep ==
  TypeOK /\ TypeOK' /\ LifecycleInv /\ StreamInv /\ [Next]_vars => StreamInv'
<1> SUFFICES ASSUME TypeOK, TypeOK', LifecycleInv, StreamInv, [Next]_vars
             PROVE  StreamInv'
  OBVIOUS
<1>1. CASE UNCHANGED <<stream, target, cursor, batch, final, received>>
  BY <1>1, LogsExtend, StreamFrame
<1>2. ASSUME NEW c \in Clients, NEW r \in RunIds, OpenStream(c, r)
      PROVE  StreamInv'
  BY <1>2, StreamOpens
<1>3. ASSUME NEW c \in Clients, SubscriberStep(c) \/ Disconnect(c)
      PROVE  StreamInv'
  BY <1>3, StreamMoves, StreamSnapshots, StreamYields, StreamLeaves
     DEF SubscriberStep
<1>4. CASE RegisterRun \/ \E r \in RunIds : ThreadStep(r) \/ SupervisorStep(r)
  <2>1. UNCHANGED <<stream, target, cursor, batch, final, received>>
    BY <1>4 DEF RegisterRun, ThreadStep, StartTraining, EmitProgress,
       EmitFinished, NotifyEvent, TrainerFails, SupervisorStep, SpawnRun,
       JoinThread, CompleteRun, FinalWake, subscriber
  <2>2. QED
    BY <1>1, <2>1
<1>5. CASE UNCHANGED vars
  BY <1>1, <1>5 DEF vars, subscriber
<1>6. QED
  BY <1>2, <1>3, <1>4, <1>5 DEF Next

LEMMA StreamInvariant == Spec => []StreamInv
BY TypeCorrect, LifecycleInvariant, StreamInit, StreamStep, PTL DEF Spec

\* subscribe: no event is lost, repeated or reordered on the way to a client,
\* for any number of clients joining at any time.
THEOREM StreamsArePrefixes == Spec => []StreamIsPrefix
<1>1. TypeOK /\ StreamInv => StreamIsPrefix
  <2> SUFFICES ASSUME TypeOK, StreamInv, NEW c \in Clients
               PROVE  LET hist == IF target[c] = 0 THEN <<>> ELSE events[target[c]]
                      IN  /\ Len(received[c]) <= Len(hist)
                          /\ \A i \in DOMAIN received[c] :
                               received[c][i] = [index |-> i - 1, kind |-> hist[i]]
    BY DEF StreamIsPrefix
  <2>1. CASE stream[c] = "idle"
    <3>1. target[c] = 0 /\ received[c] = <<>>
      BY <2>1 DEF TypeOK, StreamInv
    <3>2. QED
      BY <3>1
  <2>2. CASE stream[c] # "idle"
    <3>1. target[c] \in RunIds /\ target[c] # 0 /\ ReadsLog(c, events[target[c]])
      BY <2>2 DEF TypeOK, StreamInv, Faithful
    <3>2. /\ Len(received[c]) \in Nat /\ Len(batch[c]) \in Nat
          /\ Len(events[target[c]]) \in Nat
          /\ DOMAIN received[c] = 1 .. Len(received[c])
      BY <3>1, LenProperties DEF TypeOK
    <3>3. Len(received[c]) + Len(batch[c]) <= Len(events[target[c]])
      BY <3>1, Zenon DEF ReadsLog
    <3>4. Len(received[c]) <= Len(events[target[c]])
      <4> DEFINE a == Len(received[c])
                 b == Len(batch[c])
                 n == Len(events[target[c]])
      <4> HIDE DEF a, b, n
      <4>1. a \in Nat /\ b \in Nat /\ n \in Nat /\ a + b <= n
        BY <3>2, <3>3, Zenon DEF a, b, n
      <4>2. a <= n
        BY <4>1
      <4>3. QED
        BY <4>2, Zenon DEF a, n
    <3>5. \A i \in DOMAIN received[c] :
            received[c][i] = [index |-> i - 1, kind |-> events[target[c]][i]]
      BY <3>1, <3>2, Zenon DEF ReadsLog
    <3>6. QED
      BY <3>1, <3>4, <3>5, Zenon
  <2>3. QED
    BY <2>1, <2>2
<1>2. QED
  BY <1>1, TypeCorrect, StreamInvariant, PTL

\* subscribe: a stream that closes by itself has delivered a final history
\* entirely.
THEOREM ClosedStreamsAreComplete == Spec => []ClosedIsComplete
<1>1. TypeOK /\ StreamInv => ClosedIsComplete
  <2> SUFFICES ASSUME TypeOK, StreamInv, NEW c \in Clients, stream[c] = "closed"
               PROVE  done[target[c]] /\ Len(received[c]) = Len(events[target[c]])
    BY DEF ClosedIsComplete
  <2>1. ReadsLog(c, events[target[c]]) /\ EndsWithLog(c, events[target[c]])
    BY DEF StreamInv, Faithful
  <2>2. batch[c] = <<>> /\ final[c]
    BY <2>1 DEF EndsWithLog
  <2>3. /\ done[target[c]]
        /\ cursor[c] + Len(batch[c]) = Len(events[target[c]])
        /\ cursor[c] = Len(received[c])
    BY <2>1, <2>2, Zenon DEF EndsWithLog, ReadsLog
  <2>4. Len(batch[c]) = 0 /\ cursor[c] \in Nat
    BY <2>2, EmptySeq DEF TypeOK
  <2>5. cursor[c] = Len(events[target[c]])
    BY <2>3, <2>4
  <2>6. QED
    BY <2>3, <2>5, Zenon
<1>2. QED
  BY <1>1, TypeCorrect, StreamInvariant, PTL

-----------------------------------------------------------------------------
(* How a history ends *)

NoTerminal(log) == \A i \in 1 .. Len(log) : log[i] \notin Terminal

LEMMA StillOpen ==
  ASSUME NEW hist \in Seq(Kinds), NEW kind \in Kinds \ Terminal, NoTerminal(hist)
  PROVE  NoTerminal(Append(hist, kind))
<1>1. /\ Len(Append(hist, kind)) = Len(hist) + 1 /\ Len(hist) \in Nat
      /\ \A i \in 1 .. Len(hist) : Append(hist, kind)[i] = hist[i]
      /\ Append(hist, kind)[Len(hist) + 1] = kind
  BY AppendProperties, LenProperties
<1>2. QED
  BY <1>1 DEF NoTerminal

LEMMA NowEnded ==
  ASSUME NEW hist \in Seq(Kinds), NEW kind \in Terminal, NoTerminal(hist)
  PROVE  EndsOnce(Append(hist, kind))
<1>1. kind \in Kinds
  BY DEF Kinds
<1>2. /\ Len(Append(hist, kind)) = Len(hist) + 1 /\ Len(hist) \in Nat
      /\ \A i \in 1 .. Len(hist) : Append(hist, kind)[i] = hist[i]
      /\ Append(hist, kind)[Len(hist) + 1] = kind
  BY <1>1, AppendProperties, LenProperties
<1>3. QED
  BY <1>2 DEF NoTerminal, EndsOnce

\* Whether the history of a run has its terminal event.
HasEnded(r) == done[r] \/ thread[r] \in {"notify_last", "ok"}

EndsRight(r) == IF HasEnded(r) THEN EndsOnce(events[r]) ELSE NoTerminal(events[r])

LEMMA TerminalParts == TerminalInv <=> \A r \in RunIds : EndsRight(r)
BY Zenon DEF TerminalInv, EndsRight, HasEnded, NoTerminal

LEMMA TerminalInit == Init => TerminalInv
<1> SUFFICES ASSUME Init, NEW r \in RunIds
             PROVE  EndsRight(r)
  BY TerminalParts
<1>1. ~HasEnded(r) /\ events[r] = <<>>
  BY DEF Init, HasEnded
<1>2. QED
  BY <1>1, EmptySeq DEF EndsRight, NoTerminal

\* A run whose log and end stay as they are.
LEMMA EndKept ==
  ASSUME NEW r, EndsRight(r), events'[r] = events[r], HasEnded(r)' <=> HasEnded(r)
  PROVE  EndsRight(r)'
<1>1. CASE HasEnded(r)
  BY <1>1, Zenon DEF EndsRight, EndsOnce
<1>2. CASE ~HasEnded(r)
  BY <1>2, Zenon DEF EndsRight, NoTerminal
<1>3. QED
  BY <1>1, <1>2

\* The writers touch one run.
LEMMA WriterEnds ==
  ASSUME "finished" \notin Unserializable, TypeOK, LifecycleInv,
         NEW r \in RunIds, WritesLog(r), EndsRight(r)
  PROVE  /\ EndsRight(r)'
         /\ \A x \in RunIds \ {r} : events'[x] = events[x] /\ done'[x] = done[x] /\ thread'[x] = thread[x]
<1>1. events[r] \in Seq(Kinds) /\ (thread[r] = "training" => ~done[r])
  BY DEF TypeOK, LifecycleInv
<1>2. CASE EmitProgress(r)
  <2>1. PICK kind \in Progress : events' = [events EXCEPT ![r] = Append(@, Stored(kind))]
    BY <1>2 DEF EmitProgress, Push
  <2>2. Stored(kind) \in Kinds \ Terminal
    BY KindsAssumption DEF Stored, Kinds, Terminal
  <2>3. ~HasEnded(r) /\ ~HasEnded(r)'
    BY <1>1, <1>2 DEF EmitProgress, HasEnded, TypeOK
  <2>4. NoTerminal(events[r])
    BY <2>3 DEF EndsRight
  <2>5. events'[r] = Append(events[r], Stored(kind))
    BY <2>1 DEF TypeOK
  <2>6. NoTerminal(events[r])'
    BY <1>1, <2>2, <2>4, <2>5, StillOpen DEF NoTerminal
  <2>7. EndsRight(r)'
    BY <2>3, <2>6, Zenon DEF EndsRight
  <2>8. QED
    BY <1>2, <2>1, <2>7 DEF EmitProgress, TypeOK
<1>3. CASE EmitFinished(r)
  <2>1. events'[r] = Append(events[r], "finished")
    BY <1>3 DEF EmitFinished, Push, Stored, TypeOK
  <2>2. ~HasEnded(r) /\ HasEnded(r)'
    BY <1>1, <1>3 DEF EmitFinished, HasEnded, TypeOK
  <2>3. EndsOnce(events[r])'
    BY <1>1, <2>1, <2>2, NowEnded DEF EndsRight, Terminal, EndsOnce
  <2>4. EndsRight(r)'
    BY <2>2, <2>3, Zenon DEF EndsRight
  <2>5. QED
    BY <1>3, <2>4 DEF EmitFinished, Push, TypeOK
<1>4. CASE JoinThread(r)
  <2>1. ~done[r] /\ HasEnded(r)' /\ (HasEnded(r) <=> thread[r] = "ok")
    BY <1>4 DEF JoinThread, Joined, LifecycleInv, HasEnded, TypeOK
  <2>2. EndsOnce(events[r])'
    <3>1. CASE thread[r] = "ok"
      BY <1>4, <2>1, <3>1 DEF JoinThread, NeedsFailed, EndsRight, EndsOnce
    <3>2. CASE thread[r] # "ok"
      <4>1. events'[r] = Append(events[r], "failed")
        BY <1>4, <3>2 DEF JoinThread, NeedsFailed, TypeOK
      <4>2. QED
        BY <1>1, <2>1, <3>2, <4>1, NowEnded DEF EndsRight, Terminal, EndsOnce
    <3>3. QED
      BY <3>1, <3>2
  <2>3. EndsRight(r)'
    BY <2>1, <2>2, Zenon DEF EndsRight
  <2>4. QED
    BY <1>4, <2>3 DEF JoinThread, TypeOK
<1>5. QED
  BY <1>2, <1>3, <1>4 DEF WritesLog

\* No other step ends a history, or forgets that it has ended.
LEMMA OthersKeepEnds ==
  ASSUME TypeOK, LifecycleInv, RegistryInv, [Next]_vars, ~ \E r \in RunIds : WritesLog(r)
  PROVE  \A x \in RunIds : HasEnded(x)' <=> HasEnded(x)
<1> SUFFICES ASSUME NEW x \in RunIds
             PROVE  HasEnded(x)' <=> HasEnded(x)
  OBVIOUS
<1>1. done' = done
  BY OtherSteps DEF logs
<1>2. ASSUME NEW r \in RunIds, ThreadStep(r)
      PROVE  (thread'[x] \in {"notify_last", "ok"}) <=> (thread[x] \in {"notify_last", "ok"})
  BY <1>2 DEF ThreadStep, WritesLog, StartTraining, NotifyEvent, TrainerFails, TypeOK
<1>3. ASSUME NEW r \in RunIds, SupervisorStep(r)
      PROVE  (thread'[x] \in {"notify_last", "ok"}) <=> (thread[x] \in {"notify_last", "ok"})
  BY <1>3 DEF SupervisorStep, WritesLog, SpawnRun, CompleteRun, FinalWake, TypeOK, LifecycleInv
<1>4. ASSUME \/ RegisterRun
             \/ \E c \in Clients, r \in RunIds : OpenStream(c, r)
             \/ \E c \in Clients : SubscriberStep(c) \/ Disconnect(c)
             \/ UNCHANGED vars
      PROVE  thread' = thread
  BY <1>4 DEF RegisterRun, OpenStream, SubscriberStep, Subscribe, Snapshot, YieldFrame, EndOfBatch,
     WakeUp, Disconnect, vars
<1>5. (thread'[x] \in {"notify_last", "ok"}) <=> (thread[x] \in {"notify_last", "ok"})
  BY <1>2, <1>3, <1>4 DEF Next
<1>6. QED
  BY <1>1, <1>5, Zenon DEF HasEnded

LEMMA TerminalStep ==
  ASSUME "finished" \notin Unserializable, TypeOK, LifecycleInv, RegistryInv, TerminalInv, [Next]_vars
  PROVE  TerminalInv'
<1>1. \A x \in RunIds : EndsRight(x)
  BY TerminalParts
<1>2. ASSUME NEW x \in RunIds
      PROVE  EndsRight(x)'
  <2>1. CASE \E r \in RunIds : WritesLog(r)
    <3>1. PICK r \in RunIds : WritesLog(r)
      BY <2>1
    <3>2. CASE x = r
      BY <1>1, <3>1, <3>2, WriterEnds
    <3>3. CASE x # r
      <4>1. events'[x] = events[x] /\ done'[x] = done[x] /\ thread'[x] = thread[x]
        BY <1>1, <3>1, <3>3, WriterEnds
      <4>2. HasEnded(x)' <=> HasEnded(x)
        BY <4>1, Zenon DEF HasEnded
      <4>3. QED
        BY <1>1, <4>1, <4>2, EndKept
    <3>4. QED
      BY <3>2, <3>3
  <2>2. CASE ~ \E r \in RunIds : WritesLog(r)
    <3>1. events' = events
      BY <2>2, OtherSteps DEF logs
    <3>2. QED
      BY <1>1, <2>2, <3>1, OthersKeepEnds, EndKept
  <2>3. QED
    BY <2>1, <2>2
<1>3. QED
  BY <1>2, Zenon DEF TerminalInv, EndsRight, HasEnded, NoTerminal

\* spawn_run and push_event: a history that is final has one terminal event,
\* its last, however the thread ended; provided that a `finished` event can
\* always be serialized, which a path that is not UTF-8 prevents.
THEOREM HistoriesEndOnce ==
  "finished" \notin Unserializable => (Spec => []ExactlyOneTerminal)
<1> SUFFICES ASSUME "finished" \notin Unserializable
             PROVE  Spec => []ExactlyOneTerminal
  OBVIOUS
<1>1. TypeOK /\ LifecycleInv /\ RegistryInv /\ TerminalInv /\ [Next]_vars => TerminalInv'
  BY TerminalStep
<1>2. TerminalInv => ExactlyOneTerminal
  BY Zenon DEF TerminalInv, ExactlyOneTerminal
<1>3. QED
  BY <1>1, <1>2, TypeCorrect, LifecycleInvariant, RegistryInvariant, TerminalInit, PTL DEF Spec

-----------------------------------------------------------------------------
(* The event streams that the server implements *)

LEMMA KindsOfProperties ==
  ASSUME NEW frames \in Seq(Frames)
  PROVE  /\ Len(KindsOf(frames)) = Len(frames)
         /\ KindsOf(frames) = [i \in 1 .. Len(frames) |-> frames[i].kind]
<1>1. Len(frames) \in Nat /\ DOMAIN frames = 1 .. Len(frames)
  BY LenProperties
<1>2. QED
  BY <1>1 DEF KindsOf

\* Yielding a frame delivers its event.
LEMMA KindsOfAppend ==
  ASSUME NEW frames \in Seq(Frames), NEW frame \in Frames
  PROVE  KindsOf(Append(frames, frame)) = Append(KindsOf(frames), frame.kind)
<1> DEFINE n == Len(frames)
           more == Append(frames, frame)
<1>1. n \in Nat /\ more \in Seq(Frames) /\ Len(more) = n + 1
      /\ (\A i \in 1 .. n : more[i] = frames[i]) /\ more[n + 1] = frame
  BY AppendProperties, LenProperties
<1>2. \A i \in 1 .. n : frames[i] \in Frames
  BY ElementOfSeq, <1>1
<1>3. KindsOf(frames) = [i \in 1 .. n |-> frames[i].kind]
  BY KindsOfProperties
<1>4. KindsOf(more) = [i \in 1 .. n + 1 |-> more[i].kind]
  BY <1>1, KindsOfProperties
<1> HIDE DEF n, more
<1>5. KindsOf(frames) \in Seq(Kinds) /\ Len(KindsOf(frames)) = n
  <2>1. \A i \in 1 .. n : frames[i].kind \in Kinds
    BY <1>2 DEF Frames
  <2>2. QED
    BY <1>1, <1>3, <2>1
<1>6. KindsOf(more) \in Seq(Kinds) /\ Len(KindsOf(more)) = n + 1
  <2>1. \A i \in 1 .. n + 1 : more[i].kind \in Kinds
    <3>1. \A i \in 1 .. n + 1 : more[i] \in Frames
      BY <1>1, <1>2
    <3>2. QED
      BY <3>1 DEF Frames
  <2>2. QED
    BY <1>1, <1>4, <2>1
<1>7. frame.kind \in Kinds
  BY DEF Frames
<1>8. Append(KindsOf(frames), frame.kind) = [i \in 1 .. n + 1 |-> IF i = n + 1 THEN frame.kind ELSE KindsOf(frames)[i]]
  BY <1>5, <1>7, <1>1
<1>9. \A i \in 1 .. n + 1 : more[i].kind = IF i = n + 1 THEN frame.kind ELSE KindsOf(frames)[i]
  BY <1>1, <1>3
<1>10. QED
  BY <1>4, <1>8, <1>9 DEF more

LEMMA StreamStarts == Init => Stream!Init
<1> SUFFICES ASSUME Init
             PROVE  Stream!Init
  OBVIOUS
<1>1. KindsOf(<<>>) = <<>>
  BY DEF KindsOf
<1>2. ReaderStatus = [c \in Clients |-> "away"] /\ Delivered = [c \in Clients |-> <<>>]
  BY <1>1 DEF Init, ReaderStatus, Delivered
<1>3. QED
  BY <1>2 DEF Init, Stream!Init

\* Whatever is not about readers leaves them as they are.
LEMMA ReadersStay ==
  ASSUME UNCHANGED <<stream, received>>
  PROVE  UNCHANGED <<ReaderStatus, Delivered>>
BY DEF ReaderStatus, Delivered

LEMMA WritesPublish ==
  ASSUME TypeOK, LifecycleInv, NEW r \in RunIds, WritesLog(r)
  PROVE  Stream!Publish(r) \/ Stream!Seal(r)
<1>1. ~done[r]
  BY WriteAppends
<1>2. UNCHANGED <<stream, received, target>>
  BY DEF WritesLog, EmitProgress, EmitFinished, JoinThread, subscriber
<1>3. UNCHANGED <<ReaderStatus, Delivered>>
  BY <1>2, ReadersStay
<1>4. CASE EmitProgress(r) \/ EmitFinished(r)
  <2>1. PICK kind \in Progress \cup Terminal : Push(r, kind) /\ done' = done
    BY <1>4 DEF EmitProgress, EmitFinished, Terminal
  <2>2. Stored(kind) \in Kinds
    BY StoredKind
  <2>3. QED
    BY <1>1, <1>2, <1>3, <2>1, <2>2 DEF Stream!Publish, Push
<1>5. CASE JoinThread(r)
  <2>1. "failed" \in Kinds
    BY DEF Kinds, Terminal
  <2>2. /\ done' = [done EXCEPT ![r] = TRUE]
        /\ events' = events \/ events' = [events EXCEPT ![r] = Append(@, "failed")]
    BY <1>5 DEF JoinThread
  <2>3. QED
    BY <1>1, <1>2, <1>3, <2>1, <2>2, Zenon DEF Stream!Seal
<1>6. QED
  BY <1>4, <1>5 DEF WritesLog

\* The steps that no client can see.
Unseen == UNCHANGED <<logs, stream, target, received>>

LEMMA UnseenStutters ==
  ASSUME Unseen
  PROVE  UNCHANGED Stream!vars
BY ReadersStay DEF Unseen, Stream!vars, logs

LEMMA AttachedStatus ==
  ASSUME NEW c \in Clients
  PROVE  /\ ReaderStatus[c] = "reading" <=> stream[c] \notin {"idle", "closed"}
         /\ Delivered[c] = KindsOf(received[c])
BY DEF ReaderStatus, Delivered

LEMMA OpenAttaches ==
  ASSUME TypeOK, NEW c \in Clients, NEW r \in RunIds, OpenStream(c, r)
  PROVE  Stream!Attach(c, r)
<1>1. KindsOf(<<>>) = <<>>
  BY DEF KindsOf
<1>2. ReaderStatus[c] # "reading"
  BY AttachedStatus DEF OpenStream
<1>3. ReaderStatus' = [ReaderStatus EXCEPT ![c] = "reading"]
  BY DEF OpenStream, ReaderStatus, TypeOK
<1>4. Delivered' = [Delivered EXCEPT ![c] = <<>>]
  BY <1>1 DEF OpenStream, ResetStream, Delivered, TypeOK
<1>5. QED
  BY <1>2, <1>3, <1>4 DEF Stream!Attach, OpenStream, logs

LEMMA DisconnectLeaves ==
  ASSUME TypeOK, NEW c \in Clients, Disconnect(c)
  PROVE  Stream!Leave(c)
<1>1. KindsOf(<<>>) = <<>>
  BY DEF KindsOf
<1>2. ReaderStatus[c] = "reading"
  BY AttachedStatus DEF Disconnect
<1>3. ReaderStatus' = [ReaderStatus EXCEPT ![c] = "away"]
  BY DEF Disconnect, ReaderStatus, TypeOK
<1>4. Delivered' = [Delivered EXCEPT ![c] = <<>>]
  BY <1>1 DEF Disconnect, ResetStream, Delivered, TypeOK
<1>5. QED
  BY <1>2, <1>3, <1>4 DEF Stream!Leave, Disconnect, logs

\* A subscriber that only moves on.
LEMMA MovesStutter ==
  ASSUME TypeOK, NEW c \in Clients, Subscribe(c) \/ Snapshot(c) \/ WakeUp(c)
  PROVE  UNCHANGED Stream!vars
<1>1. /\ UNCHANGED <<logs, target, received>>
      /\ stream[c] \notin {"idle", "closed"}
      /\ stream' = [stream EXCEPT ![c] = "looping"] \/ stream' = [stream EXCEPT ![c] = "draining"]
  BY DEF Subscribe, Snapshot, WakeUp
<1>2. ReaderStatus' = ReaderStatus
  BY <1>1 DEF ReaderStatus, TypeOK
<1>3. Delivered' = Delivered
  BY <1>1 DEF Delivered
<1>4. QED
  BY <1>1, <1>2, <1>3 DEF Stream!vars, logs

\* The frame yielded is the next of the history.
LEMMA YieldDelivers ==
  ASSUME TypeOK, StreamInv, NEW c \in Clients, YieldFrame(c)
  PROVE  Stream!Deliver(c)
<1> DEFINE log == events[target[c]]
           n == Len(received[c])
           frame == [index |-> cursor[c], kind |-> Head(batch[c])]
<1>1. stream[c] = "draining" /\ batch[c] # <<>> /\ target[c] \in RunIds
  BY DEF YieldFrame, TypeOK
<1>2. Faithful(c)
  BY <1>1 DEF StreamInv
<1>3. /\ n \in Nat /\ Len(batch[c]) \in Nat \ {0} /\ Head(batch[c]) = batch[c][1]
      /\ Head(batch[c]) \in Kinds /\ Len(log) \in Nat
  BY <1>1, EmptySeq, LenProperties, HeadTailProperties DEF TypeOK
<1>4. /\ cursor[c] = n /\ n + Len(batch[c]) <= Len(log)
      /\ \A i \in 1 .. Len(batch[c]) : batch[c][i] = log[n + i]
  BY <1>2 DEF Faithful, ReadsLog
<1> HIDE DEF n, log
<1>5. Len(log) > n /\ Head(batch[c]) = log[n + 1]
  <2>1. Len(log) > n /\ 1 \in 1 .. Len(batch[c])
    BY <1>3, <1>4
  <2>2. batch[c][1] = log[n + 1]
    BY <1>4, <2>1
  <2>3. QED
    BY <1>3, <2>1, <2>2
<1>6. frame \in Frames /\ frame.kind = Head(batch[c])
  BY <1>3, <1>4 DEF Frames
<1>7. received' = [received EXCEPT ![c] = Append(received[c], frame)]
  BY DEF YieldFrame
<1>8. received[c] \in Seq(Frames)
  BY DEF TypeOK
<1> HIDE DEF frame
<1>9. KindsOf(Append(received[c], frame)) = Append(KindsOf(received[c]), frame.kind)
  BY <1>6, <1>8, KindsOfAppend
<1>10. Len(KindsOf(received[c])) = n
  BY <1>8, KindsOfProperties DEF n
<1>11. Delivered' = [Delivered EXCEPT ![c] = Append(Delivered[c], log[n + 1])]
  <2>1. Delivered' = [x \in Clients |-> KindsOf(received'[x])]
    BY DEF Delivered
  <2>2. \A x \in Clients : received'[x] = IF x = c THEN Append(received[c], frame) ELSE received[x]
    BY <1>7 DEF TypeOK
  <2>3. KindsOf(received'[c]) = Append(KindsOf(received[c]), log[n + 1])
    BY <1>5, <1>6, <1>9, <2>2
  <2>4. \A x \in Clients : KindsOf(received'[x]) = IF x = c THEN Append(KindsOf(received[c]), log[n + 1]) ELSE KindsOf(received[x])
    BY <2>2, <2>3
  <2>5. QED
    BY <2>1, <2>4 DEF Delivered
<1>12. ReaderStatus' = ReaderStatus /\ ReaderStatus[c] = "reading"
  BY <1>1, AttachedStatus DEF YieldFrame, ReaderStatus
<1>13. Len(Delivered[c]) = n
  BY <1>10, AttachedStatus
<1>14. UNCHANGED <<events, done, target>>
  BY DEF YieldFrame, logs
<1>15. QED
  BY <1>5, <1>11, <1>12, <1>13, <1>14, Zenon DEF Stream!Deliver, Stream!Pending, log

\* A stream closes on a snapshot that was final and reached the end.
LEMMA EndOfBatchEnds ==
  ASSUME TypeOK, StreamInv, NEW c \in Clients, EndOfBatch(c)
  PROVE  Stream!End(c) \/ UNCHANGED Stream!vars
<1>1. stream[c] = "draining" /\ batch[c] = <<>> /\ UNCHANGED <<events, done, target, received>>
  BY DEF EndOfBatch, logs
<1>2. Delivered' = Delivered /\ ReaderStatus[c] = "reading"
  BY <1>1, AttachedStatus DEF Delivered
<1>3. CASE SawEnd(c)
  <2>1. final[c] /\ Faithful(c)
    BY <1>1, <1>3 DEF SawEnd, StreamInv
  <2>2. done[target[c]]
    BY <2>1, Zenon DEF Faithful, EndsWithLog
  <2>3. cursor[c] + Len(batch[c]) = Len(events[target[c]]) /\ cursor[c] = Len(received[c])
    BY <2>1, Zenon DEF Faithful, EndsWithLog, ReadsLog
  <2>4. Len(Delivered[c]) = Len(received[c]) /\ Len(received[c]) \in Nat
    BY KindsOfProperties, AttachedStatus, LenProperties DEF TypeOK
  <2>5. ~Stream!Pending(c)
    BY <1>1, <2>3, <2>4, EmptySeq DEF Stream!Pending
  <2>6. ReaderStatus' = [ReaderStatus EXCEPT ![c] = "ended"]
    BY <1>3 DEF EndOfBatch, ReaderStatus, TypeOK
  <2>7. QED
    BY <1>1, <1>2, <2>2, <2>5, <2>6, Zenon DEF Stream!End
<1>4. CASE ~SawEnd(c)
  <2>1. ReaderStatus' = ReaderStatus
    BY <1>1, <1>4 DEF EndOfBatch, ReaderStatus, TypeOK
  <2>2. QED
    BY <1>1, <1>2, <2>1 DEF Stream!vars
<1>5. QED
  BY <1>3, <1>4

LEMMA StepsAreStreamed ==
  ASSUME TypeOK, LifecycleInv, StreamInv, [Next]_vars
  PROVE  [Stream!Next]_(Stream!vars)
<1>1. CASE UNCHANGED vars \/ RegisterRun
  BY <1>1, UnseenStutters DEF vars, RegisterRun, subscriber, Unseen
<1>2. ASSUME NEW r \in RunIds, ThreadStep(r) \/ SupervisorStep(r)
      PROVE  [Stream!Next]_(Stream!vars)
  <2>1. CASE WritesLog(r)
    BY <2>1, WritesPublish DEF Stream!Next
  <2>2. CASE ~WritesLog(r)
    <3>1. Unseen
      BY <1>2, <2>2 DEF ThreadStep, SupervisorStep, WritesLog, StartTraining, NotifyEvent, TrainerFails,
         SpawnRun, CompleteRun, FinalWake, subscriber, Unseen
    <3>2. QED
      BY <3>1, UnseenStutters
  <2>3. QED
    BY <2>1, <2>2
<1>3. ASSUME NEW c \in Clients, NEW r \in RunIds, OpenStream(c, r)
      PROVE  [Stream!Next]_(Stream!vars)
  BY <1>3, OpenAttaches DEF Stream!Next
<1>4. ASSUME NEW c \in Clients, SubscriberStep(c) \/ Disconnect(c)
      PROVE  [Stream!Next]_(Stream!vars)
  <2>1. CASE Subscribe(c) \/ Snapshot(c) \/ WakeUp(c)
    BY <2>1, MovesStutter
  <2>2. CASE YieldFrame(c)
    BY <2>2, YieldDelivers DEF Stream!Next
  <2>3. CASE EndOfBatch(c)
    BY <2>3, EndOfBatchEnds DEF Stream!Next
  <2>4. CASE Disconnect(c)
    BY <2>4, DisconnectLeaves DEF Stream!Next
  <2>5. QED
    BY <1>4, <2>1, <2>2, <2>3, <2>4 DEF SubscriberStep
<1>5. QED
  BY <1>1, <1>2, <1>3, <1>4 DEF Next

\* The wire contract but for its liveness (subscribe, push_event, spawn_run):
\* whatever the server does, a client sees a history that only grows until it
\* is sealed, and is handed every event of it, one at a time, from the first,
\* and told the end only when there is none left.
THEOREM StreamsAreServed == Spec => Stream!Safety
<1>1. Init => Stream!Init
  BY StreamStarts
<1>2. TypeOK /\ LifecycleInv /\ StreamInv /\ [Next]_vars => [Stream!Next]_(Stream!vars)
  BY StepsAreStreamed
<1>3. QED
  BY <1>1, <1>2, TypeCorrect, LifecycleInvariant, StreamInvariant, PTL DEF Spec, Stream!Safety
=============================================================================
