----------------------------- MODULE MCKeyedLock -----------------------------
EXTENDS KeyedLock
=============================================================================
