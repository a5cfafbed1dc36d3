---------------------------- MODULE MCThreadPool ----------------------------
(* ThreadPool for TLC: pools that keep a thread and pools that keep none,  *)
(* one with more minimum than maximum threads, one with no queue.          *)
EXTENDS ThreadPool, TLC

MCConfigs ==
  {[min |-> 0, max |-> 1, queue |-> 2], [min |-> 1, max |-> 2, queue |-> 1],
   [min |-> 2, max |-> 1, queue |-> 1], [min |-> 0, max |-> 2, queue |-> 0]}

Symmetry ==
  Permutations(Clients) \cup Permutations(Workers) \cup Permutations(Tasks)

=============================================================================
