--------------------------- MODULE MCWebhookIngestion ---------------------------
(* Three deliveries: the second repeats an event of the first and, under   *)
(* another event key, its first message, and ends with an event without    *)
(* content; the third does not parse.                                      *)
EXTENDS WebhookIngestion

CONSTANTS d1, d2, d3, e1, e2, e3, e4, p1, p2

MCCarries == [d \in {d1, d2, d3} |->
                CASE d = d1 -> <<e1, e2>> [] d = d2 -> <<e2, e3, e4>> [] d = d3 -> <<>>]
MCMessageOf == [e \in {e1, e2, e3, e4} |-> IF e = e2 THEN p2 ELSE p1]
================================================================================
