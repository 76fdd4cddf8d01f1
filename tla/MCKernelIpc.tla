---------------------------- MODULE MCKernelIpc ----------------------------
(* The refinement of MessagePassing, for TLC *)
EXTENDS KernelIpc
=============================================================================
