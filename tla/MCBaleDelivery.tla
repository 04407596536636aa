---------------------------- MODULE MCBaleDelivery ----------------------------
EXTENDS BaleDelivery
=============================================================================
