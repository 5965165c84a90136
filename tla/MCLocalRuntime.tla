---------------------------- MODULE MCLocalRuntime ----------------------------
EXTENDS LocalRuntime

CONSTANTS m1, m2

MCSensitive == {{}, {m2}}
=============================================================================
