---------------------------- MODULE MCOrderPayment ----------------------------
(* OrderPayment on a small instance: see the .cfg files.                   *)
EXTENDS OrderPayment
================================================================================
