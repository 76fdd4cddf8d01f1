----------------------------- MODULE MCKernelFp -----------------------------
(* The kernel with floating point context switching, for TLC *)
EXTENDS KernelFp
=============================================================================
