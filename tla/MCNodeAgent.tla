---------------------------- MODULE MCNodeAgent ----------------------------
EXTENDS NodeAgent
=============================================================================
