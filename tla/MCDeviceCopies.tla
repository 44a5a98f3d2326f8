--------------------------- MODULE MCDeviceCopies ---------------------------
(* Instances of DeviceCopies small enough for TLC. *)
EXTENDS DeviceCopies, TLC

CONSTANTS c1, c2, x1, x2, b1

\* Two calls at the same time, of any kind.
MCCopies == {c1, c2}

\* One call, which nothing but a kernel has come before.
MCOneCopy == {c1}

\* Two tensors: the copies need not be about the same one.
MCTensors == {x1, x2}

\* One address: two copies use it one after the other, or one of them gets none.
MCBlocks == {b1}

Symmetry == Permutations(MCCopies) \cup Permutations(MCTensors)

TensorSymmetry == Permutations(MCTensors)

=============================================================================
