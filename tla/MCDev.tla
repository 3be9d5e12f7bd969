------------------------------- MODULE MCDev -------------------------------
(***************************************************************************)
(* Dev with one multiboot module, the initrd.                              *)
(***************************************************************************)
EXTENDS Dev

CONSTANT mbmod00

MCMbMod == <<mbmod00>>
=============================================================================
