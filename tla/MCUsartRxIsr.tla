---------------------------- MODULE MCUsartRxIsr ----------------------------
(* UsartRxIsr with a small ring; the configurations choose the families and *)
(* the receivers.                                                           *)
EXTENDS UsartRxIsr

F1x0Only == {"F1x0"}
F10xOnly == {"F10x"}

BufferedOnly == {"buffered"}
RingOnly == {"ring"}
==============================================================================
