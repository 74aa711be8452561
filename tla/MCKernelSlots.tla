---------------------------- MODULE MCKernelSlots ----------------------------
(* Instances of KernelSlots: a factory kernel, a signed one that comes up, a  *)
(* signed one that does not, and an unsigned one; what may fail.              *)
EXTENDS KernelSlots

CONSTANTS factory, good, dead, alien

MCAllFaults == {"read", "write", "staging"}
=============================================================================
