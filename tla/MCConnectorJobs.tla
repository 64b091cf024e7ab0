-------------------------- MODULE MCConnectorJobs --------------------------
(***************************************************************************)
(* Instances of ConnectorJobs for TLC: with two connectors and two         *)
(* signatures, rows appear, change, disappear and reappear.                *)
(***************************************************************************)
EXTENDS ConnectorJobs

=============================================================================
