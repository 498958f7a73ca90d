----------------------------- MODULE MCPVCSwap -----------------------------
EXTENDS PVCSwap
=============================================================================
