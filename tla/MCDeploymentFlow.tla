-------------------------- MODULE MCDeploymentFlow --------------------------
(* Small instances of DeploymentFlow for TLC. *)
EXTENDS DeploymentFlow, TLC

CONSTANTS w1, w2, h1, h2, h3

\* All the hostnames are of one worker.
OneOwner == [h \in Hostnames |-> w1]

\* h2 is of a second one.
TwoOwners == [h \in Hostnames |-> IF h = h2 THEN w2 ELSE w1]
=============================================================================
