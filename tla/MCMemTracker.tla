---------------------------- MODULE MCMemTracker ----------------------------
(***************************************************************************)
(* The MemTracker for TLC: its accounts on a chain of three, where the     *)
(* root and the leaf have a limit and the root's is the one that siblings  *)
(* of the leaf would share; and the life of trackers in the tree.  A chain *)
(* is alive as long as a call on its leaf runs, and the tree carries no    *)
(* accounts, so a behaviour is about one of the two, the subject.          *)
(***************************************************************************)
EXTENDS MemTracker, TrackerTree, TLC
CONSTANTS root, mid, leaf

VARIABLE subject

MCAllTrackers ==
  root :> <<root>> @@ mid :> <<mid, root>> @@ leaf :> <<leaf, mid, root>>
MCLimit == root :> 2 @@ mid :> -1 @@ leaf :> 1
MCSoftLimit == root :> 0 @@ mid :> -1 @@ leaf :> 1
Symmetry == Permutations(Threads)

MCInit == subject \in {"accounts", "tree"} /\ Init /\ TreeInit

MCNext ==
  /\ UNCHANGED subject
  /\ \/ subject = "accounts" /\ Next /\ UNCHANGED treeVars
     \/ subject = "tree" /\ TreeNext /\ UNCHANGED vars

MCSpec == MCInit /\ [][MCNext]_<<subject, vars, treeVars>>

=============================================================================
