------------------------------ MODULE MCZpuSic ------------------------------
EXTENDS ZpuSic

MCShared == [i \in Source |-> 0]
MCDirect == [i \in Source |-> i]
=============================================================================
