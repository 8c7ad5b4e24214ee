------------------------------- MODULE MCUsart -------------------------------
(***************************************************************************)
(* The three ways a USART moves bytes, checked side by side: receive by    *)
(* interrupt (UsartRxIsr), polled (PolledSerial) and transmit by DMA       *)
(* (DmaTx).  They share nothing; `part` says which one a behaviour is      *)
(* about, the others stay as they began.                                   *)
(***************************************************************************)
EXTENDS UsartRxIsr, PolledSerial, MCDmaTx

VARIABLE part

MCInit ==
  /\ part \in {"interrupt", "polled", "transmit"}
  /\ UrInit /\ PsInit /\ Init
  /\ part # "interrupt" => family = "F1x0" /\ driver = "buffered"
  /\ part # "polled" => psFam = "F1x0"

MCNext ==
  /\ UNCHANGED part
  /\ \/ part = "interrupt" /\ UrNext /\ UNCHANGED <<psVars, vars>>
     \/ part = "polled" /\ PsNext /\ UNCHANGED <<urVars, vars>>
     \/ part = "transmit" /\ Next /\ UNCHANGED <<urVars, psVars>>

\* Each part under the fairness its module states.
MCFairness ==
  /\ WF_urVars(part = "interrupt" /\ (IsrEnter \/ IsrBody))
  /\ WF_psVars(part = "polled" /\ (ReadStep \/ WriteStep))
  /\ SF_psVars(part = "polled" /\ ReadCall)
  /\ WF_vars(part = "transmit" /\ Tick)
  /\ WF_vars(part = "transmit" /\ InCall)
  /\ SF_vars(part = "transmit" /\ Abandon)
  /\ \A p \in Port : SF_vars(part = "transmit" /\ GatedSend(p))

MCSpec == MCInit /\ [][MCNext]_<<part, urVars, psVars, vars>> /\ MCFairness
==============================================================================
