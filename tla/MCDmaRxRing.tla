----------------------------- MODULE MCDmaRxRing -----------------------------
(* DmaRxRing with a short buffer that the stream fills twice. *)
EXTENDS DmaRxRing

MCReadSizes == {1, 3}
==============================================================================
