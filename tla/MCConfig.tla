------------------------------ MODULE MCConfig ------------------------------
EXTENDS Config
CONSTANTS c1, c2, w1
=============================================================================
