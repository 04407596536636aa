--------------------------- MODULE MCProductionFlows ---------------------------
EXTENDS ProductionFlows

\* One step, two steps in any order, and two inputs that must be refused.
MCContents ==
  [orders : {<<1>>, <<2, 1>>}, qc : BOOLEAN, active : {TRUE}]
    \cup [orders : {<<1, 1>>, <<1, 3>>}, qc : {FALSE}, active : {TRUE}]
    \cup [orders : {<<1>>}, qc : {FALSE}, active : {FALSE}]

\* One serial number, typed without and with spaces around it, and a blank one.
MCSerials == {"sn", " sn ", " "}
MCTrim == [raw \in MCSerials |-> IF raw = " " THEN NoSerial ELSE "sn"]
=============================================================================
