------------------------------ MODULE MC_Storage ------------------------------
EXTENDS Storage, TLC

(* Both runs inspect one task at one commit. *)
OneSnapshot == [r \in Runs |-> "snapshot"]

(* Runs and processes are interchangeable, the ties of a purge included. *)
Symmetry == Permutations(Runs) \cup Permutations(Procs)
===============================================================================
