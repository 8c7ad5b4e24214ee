----------------------------- MODULE MCI2cMaster -----------------------------
(* I2cMaster on reads of every length class, writes with and without bytes, a
   register read, and lists that re-acquire the bus. *)
EXTENDS I2cMaster

R(k) == [kind |-> "read", n |-> k]
W(k) == [kind |-> "write", n |-> k]

MCCalls ==
  {<<R(1)>>, <<R(2)>>, <<R(4)>>, <<W(0)>>, <<W(2)>>, <<W(1), R(3)>>, <<W(1), R(0)>>,
   <<R(1), W(1)>>}
==============================================================================
