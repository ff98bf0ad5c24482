------------------------ MODULE MCRollupPublication ------------------------
EXTENDS RollupPublication
=============================================================================
