---------------------------- MODULE MCMemoryWrite ----------------------------
EXTENDS MemoryWrite, TLC
CONSTANTS a, k1, k2, m0
Keys == a :> k1
KnownKeys == m0 :> k2
=============================================================================
