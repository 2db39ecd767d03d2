---------------------------- MODULE MCConfigFile ----------------------------
EXTENDS ConfigFile
MCWeights == [deleted |-> 5, used |-> -1, age |-> 50]
=============================================================================
