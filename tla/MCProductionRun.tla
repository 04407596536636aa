--------------------------- MODULE MCProductionRun ---------------------------
EXTENDS ProductionRun

\* The first step ends with an approval, the last one with its submission, and
\* QC closes the run.
MCRunFlows == {[supervised |-> {}, approved |-> {1}, requiresQc |-> TRUE]}

\* The flow of the QC run: nobody reviews a step, QC closes the run.
MCUnreviewed == {[supervised |-> {}, approved |-> {}, requiresQc |-> TRUE]}
=============================================================================
