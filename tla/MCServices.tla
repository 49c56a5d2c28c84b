----------------------------- MODULE MCServices -----------------------------
(* The daemons beside the flow, on small instances: see services.cfg. *)
EXTENDS Services

AlertDelays == [c \in LastingConditions |-> IF c = "terminating" THEN 1 ELSE 3]
=============================================================================
