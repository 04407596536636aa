--------------------------- MODULE MCCustomerEvents ---------------------------
EXTENDS CustomerEvents
=============================================================================
