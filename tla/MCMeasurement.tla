---------------------------- MODULE MCMeasurement ----------------------------
EXTENDS Measurement
CONSTANT client
MCProcs == Drivers \cup {client}
=============================================================================
