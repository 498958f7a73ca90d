------------------------------ MODULE MCRGSync ------------------------------
(* One replication; the policy and the hazards are set in the .cfg.          *)
EXTENDS RGSync

=============================================================================
