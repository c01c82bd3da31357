-------------------------- MODULE MCRequestPool -----------------------------
EXTENDS RequestPool

MCTimes == 1..2
=============================================================================
