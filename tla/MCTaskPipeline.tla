---------------------------- MODULE MCTaskPipeline ----------------------------
(* TaskPipeline for TLC: one task, so that every fault can hit it.          *)
EXTENDS TaskPipeline

CONSTANT root

MCTask == {root}
MCParent == [t \in MCTask |-> NoTask]
=============================================================================
