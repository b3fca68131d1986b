----------------------------- MODULE MCHubStream -----------------------------
(* HubStream with a queue of three patches instead of a hundred.           *)
EXTENDS HubStream
=============================================================================
