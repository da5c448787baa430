-------------------------- MODULE MCLatentCache ---------------------------
(* Instances of LatentCache for TLC. *)
EXTENDS LatentCache

CONSTANTS r1, r2, r3, p1, p2

(* Two processes at a time; the third run has the process id of the first. *)
PidReused == [r \in {r1, r2, r3} |-> IF r = r2 THEN p2 ELSE p1]
TwoProcesses == [r \in {r1, r2} |-> IF r = r1 THEN p1 ELSE p2]
OneServer == [r \in Runs |-> p1]

(* a.png and a.jpg share a caption, b.png has its own. *)
TwoStems == [i \in {1, 2, 3} |-> IF i = 3 THEN 2 ELSE 1]
OneStem == [i \in 1 .. Entries |-> 1]

OneWithDropout == [r \in Runs |-> r = r1]
NoDropout == [r \in Runs |-> FALSE]

SameBuild == [r \in Runs |-> 2]
TwoBuilds == [r \in Runs |-> IF r = r1 THEN 2 ELSE 3]
=============================================================================
