-------------------------- MODULE MCMaintenanceLoop --------------------------
EXTENDS MaintenanceLoop

\* Two shipped jobs with different intervals and one without a handler.
MCInterval == [j \in Jobs |-> IF j = 2 THEN 2 ELSE 1]
=============================================================================
