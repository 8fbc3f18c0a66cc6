---------------------------- MODULE MCBpfTimeout ----------------------------
EXTENDS BpfTimeout

CONSTANTS c1, c2

MCOrder == <<c1, c2>>
=============================================================================
