----------------------------- MODULE MCSysTimer -----------------------------
EXTENDS SysTimer
=============================================================================
