------------------------ MODULE MCCompactionRecovery ------------------------
EXTENDS CompactionRecovery
=============================================================================
