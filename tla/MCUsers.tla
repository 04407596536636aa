-------------------------------- MODULE MCUsers --------------------------------
EXTENDS Users

CONSTANTS ann, bob, cyd

\* A chain of three.
MCCharts == {[u \in {ann, bob, cyd} |-> IF u = ann THEN bob ELSE IF u = bob THEN cyd ELSE Nobody]}
=============================================================================
