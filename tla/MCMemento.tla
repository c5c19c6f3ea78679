----------------------------- MODULE MCMemento -----------------------------
(* Instances of Memento for TLC.                                            *)
EXTENDS Memento, TLC

CONSTANT i1

AllEntries == [impu : Impus, fragment : Fragment]

NothingStored == [i \in Impus |-> {}]

Symm == Permutations(Workers) \cup Permutations(Requests)
=============================================================================
