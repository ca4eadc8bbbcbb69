----------------------------- MODULE MCFlagXdp -----------------------------
EXTENDS FlagXdp
=============================================================================
