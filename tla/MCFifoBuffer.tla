---------------------------- MODULE MCFifoBuffer ----------------------------
EXTENDS FifoBuffer
=============================================================================
