----------------------------- MODULE EventStream -----------------------------
(***************************************************************************)
(* What GET /runs/{id}/events promises (docs/api/events.md, state.rs       *)
(* module docs: "one code path serves live, late, and finished runs with   *)
(* zero event loss"), with no registry, threads, snapshots or wake-ups: a  *)
(* history per source that only grows until it is sealed, and readers that *)
(* are handed every event of one history, one at a time, from the first.   *)
(***************************************************************************)
EXTENDS Naturals, Sequences

CONSTANTS Sources, Readers, Events

VARIABLES
  history,   \* the events published by each source
  sealed,    \* the sources that will publish nothing more
  status,    \* what each reader is doing
  source,    \* the source a reader is attached to (0: none)
  delivered  \* what it has been handed since it attached

vars == <<history, sealed, status, source, delivered>>

Init ==
  /\ history = [s \in Sources |-> <<>>]
  /\ sealed = [s \in Sources |-> FALSE]
  /\ status = [c \in Readers |-> "away"]
  /\ source = [c \in Readers |-> 0]
  /\ delivered = [c \in Readers |-> <<>>]

Publish(s) ==
  /\ ~sealed[s]
  /\ \E e \in Events : history' = [history EXCEPT ![s] = Append(@, e)]
  /\ UNCHANGED <<sealed, status, source, delivered>>

\* A source may be sealed together with one last event.
Seal(s) ==
  /\ ~sealed[s]
  /\ sealed' = [sealed EXCEPT ![s] = TRUE]
  /\ \/ UNCHANGED history
     \/ \E e \in Events : history' = [history EXCEPT ![s] = Append(@, e)]
  /\ UNCHANGED <<status, source, delivered>>

Attach(c, s) ==
  /\ status[c] # "reading"
  /\ status' = [status EXCEPT ![c] = "reading"]
  /\ source' = [source EXCEPT ![c] = s]
  /\ delivered' = [delivered EXCEPT ![c] = <<>>]
  /\ UNCHANGED <<history, sealed>>

Pending(c) == Len(history[source[c]]) > Len(delivered[c])

Deliver(c) ==
  /\ status[c] = "reading"
  /\ Pending(c)
  /\ LET next == history[source[c]][Len(delivered[c]) + 1]
     IN  delivered' = [delivered EXCEPT ![c] = Append(@, next)]
  /\ UNCHANGED <<history, sealed, status, source>>

\* A stream ends only when there is nothing left to wait for.
End(c) ==
  /\ status[c] = "reading"
  /\ sealed[source[c]]
  /\ ~Pending(c)
  /\ status' = [status EXCEPT ![c] = "ended"]
  /\ UNCHANGED <<history, sealed, source, delivered>>

Leave(c) ==
  /\ status[c] = "reading"
  /\ status' = [status EXCEPT ![c] = "away"]
  /\ source' = [source EXCEPT ![c] = 0]
  /\ delivered' = [delivered EXCEPT ![c] = <<>>]
  /\ UNCHANGED <<history, sealed>>

Next ==
  \/ \E s \in Sources : Publish(s) \/ Seal(s)
  \/ \E c \in Readers, s \in Sources : Attach(c, s)
  \/ \E c \in Readers : Deliver(c) \/ End(c) \/ Leave(c)

\* The server keeps serving a reader that stays.
Fairness == \A c \in Readers : WF_vars(Deliver(c) \/ End(c))

Safety == Init /\ [][Next]_vars

Spec == Safety /\ Fairness

=============================================================================
