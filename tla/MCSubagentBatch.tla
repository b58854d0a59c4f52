---- MODULE MCSubagentBatch ----
(* Small batches for SubagentBatch. *)
EXTENDS SubagentBatch

EveryMode == {"parallel", "wave", "shared", "chain"}
WithTrees == {"parallel", "wave"}
====
