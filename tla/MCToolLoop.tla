----------------------------- MODULE MCToolLoop -----------------------------
(***************************************************************************)
(* A request that may ask for two files: the making of the first is        *)
(* exposed to every fault, that of the second to none.                     *)
(***************************************************************************)
EXTENDS ToolLoop

CONSTANTS t1, t2

MCFaultsOf ==
    [t \in Tasks |-> IF t = t1 THEN {"db", "broker", "stage", "minio", "worker"} ELSE {}]
=============================================================================
