--------------------------- MODULE AdapterRounds ---------------------------
(***************************************************************************)
(* What a training step promises of the adapters: every one of the set     *)
(* takes the step's update, or none does.  BlockStep.tla implements it.    *)
(***************************************************************************)
EXTENDS Naturals

CONSTANT Sites

VARIABLES
  adapters,   \* the sites that have an adapter
  version     \* version[s]: updates that the adapter of site s has taken

RoundsInit ==
  /\ adapters \subseteq Sites
  /\ version = [s \in Sites |-> 0]

Round ==
  /\ version' = [s \in Sites |-> IF s \in adapters THEN version[s] + 1
                                                   ELSE version[s]]
  /\ UNCHANGED adapters

RoundsSpec == RoundsInit /\ [][Round]_<<adapters, version>>
=============================================================================
