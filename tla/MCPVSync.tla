------------------------------ MODULE MCPVSync ------------------------------
(* One replicated volume; the policy and the hazards are set in the .cfg.    *)
EXTENDS PVSync

=============================================================================
