--------------------------- MODULE MCStagingWorker ---------------------------
(* Sizes for StagingWorker: the second of three captures is the large one. *)
EXTENDS StagingWorker

Sizes == [c \in Captures |-> IF c = 2 THEN 2 ELSE 1]
=============================================================================
