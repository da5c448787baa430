--------------------------- MODULE MCTrainEvents ---------------------------
EXTENDS TrainEvents

Run(examples, cached, sites, merge, first, total, every) ==
  [trainer |-> "diffusion", examples |-> examples, cached |-> cached,
   sites |-> sites, merge |-> merge, first |-> first, total |-> total,
   every |-> every]

\* Sizes around the stride's boundaries; a warm pass, a cold one and, while
\* few, every mix; the real denoiser's 261 sites; runs that start over,
\* resume, and have nothing left to do.
MCDiffusions ==
  {Run(n, {TRUE}, s, FALSE, 1, 3, 2) : n \in {1, 99, 100, 101, 250}, s \in {0, 261}}
    \cup {Run(n, {FALSE}, 0, TRUE, 1, 3, 1) : n \in {2, 120}}
    \cup {Run(n, BOOLEAN, s, FALSE, 1, 4, 2) : n \in {7, 21}, s \in {1, 99}}
    \cup {Run(3, {TRUE}, s, FALSE, f, 5, 2) : s \in {0, 3}, f \in {3, 6}}

Demo1(mnist, flow, every, sample) ==
  [trainer |-> "demo", mnist |-> mnist, flow |-> flow, total |-> 5,
   every |-> every, sample |-> sample]

MCDemos ==
  {Demo1(m, FALSE, e, s) : m \in BOOLEAN, e \in {1, 2, 9}, s \in {0, 2, 3}}
    \cup {Demo1(FALSE, TRUE, e, s) : e \in {2, 9}, s \in {0, 2}}

=============================================================================
