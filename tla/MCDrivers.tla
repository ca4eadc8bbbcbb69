----------------------------- MODULE MCDrivers ------------------------------
EXTENDS Drivers

MCSizes == {-4, -1, 0, 1, 7}
=============================================================================
