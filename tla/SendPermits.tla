------------------------------ MODULE SendPermits ------------------------------
(***************************************************************************)
(* What outbound delivery promises about one customer-facing text, with    *)
(* everything else forgotten.  A message starts with one permit to be      *)
(* sent.  Another is granted by a person, who states that the customer did *)
(* not receive it, or comes with a delivery that began beside another one. *)
(* Every copy that reaches the customer uses one.                          *)
(***************************************************************************)
EXTENDS Naturals

CONSTANT Messages

VARIABLES
    permits,    \* permits[m]: how often m may be sent
    copies      \* copies[m]: how many copies of m reached the customer

pvars == <<permits, copies>>

PermitsInit ==
    /\ permits \in [Messages -> {1}]
    /\ copies \in [Messages -> {0, 1}]

Grant(m) ==
    /\ permits' = [permits EXCEPT ![m] = @ + 1]
    /\ UNCHANGED copies

Deliver(m) ==
    /\ copies[m] < permits[m]
    /\ copies' = [copies EXCEPT ![m] = @ + 1]
    /\ UNCHANGED permits

PermitsNext == \E m \in Messages : Grant(m) \/ Deliver(m)

PermitsSpec == PermitsInit /\ [][PermitsNext]_pvars
================================================================================
