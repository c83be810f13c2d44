----------------------------- MODULE MC_Oracle -----------------------------
EXTENDS Oracle
=============================================================================
