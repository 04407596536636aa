------------------------------- MODULE MCRepairs -------------------------------
\* One user may touch every case, a technician only his own.
EXTENDS Repairs
=============================================================================
