------------------------------- MODULE MCDma -------------------------------
(* The three channels that differ.                                         *)
EXTENDS Dma

SomeSets == {{}, {Spu}, {Gpu, Spu}, Channels}
=============================================================================
