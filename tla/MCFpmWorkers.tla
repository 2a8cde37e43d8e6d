----------------------------- MODULE MCFpmWorkers -----------------------------
EXTENDS FpmWorkers
=============================================================================
