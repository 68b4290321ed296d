------------------------- MODULE MCBluetoothWorker -------------------------
(* BluetoothWorker for TLC: who calls what, and how often.                 *)
EXTENDS BluetoothWorker, TLC

(* Every thread calls everything.                                          *)
EveryoneEverything == [c \in Callers |-> Ops]

TwoEach == [c \in Callers |-> 2]

(* Callers are alike, and so are addresses, where everyone calls everything. *)
Symmetry == Permutations(Callers) \cup Permutations(Devices)
=============================================================================
