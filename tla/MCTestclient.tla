---------------------------- MODULE MCTestclient ----------------------------
(* Testclient for TLC: the clients are interchangeable.                    *)
EXTENDS Testclient

Symmetry == Permutations(Client)
=============================================================================
