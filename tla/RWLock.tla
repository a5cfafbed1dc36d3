------------------------------- MODULE RWLock -------------------------------
(***************************************************************************)
(* What a reader-writer lock promises: any number of readers, or one       *)
(* writer alone.                                                           *)
(***************************************************************************)
CONSTANT Users

VARIABLES
  readers, \* users that hold the lock shared
  writers  \* users that hold it exclusively

Init == readers = {} /\ writers = {}

LockShared(u) ==
  writers = {} /\ readers' = readers \cup {u} /\ UNCHANGED writers

UnlockShared(u) ==
  u \in readers /\ readers' = readers \ {u} /\ UNCHANGED writers

LockExclusive(u) ==
  readers = {} /\ writers = {} /\ writers' = {u} /\ UNCHANGED readers

UnlockExclusive(u) ==
  u \in writers /\ writers' = {} /\ UNCHANGED readers

Next == \E u \in Users :
          LockShared(u) \/ UnlockShared(u) \/ LockExclusive(u) \/ UnlockExclusive(u)

Spec == Init /\ [][Next]_<<readers, writers>>

=============================================================================
