------------------------- MODULE MCProductionSerial -------------------------
EXTENDS ProductionRefinement

\* Every flow of NumSteps steps.
MCFlows == FlowType
=============================================================================
