------------------------------ MODULE MCPmLoop ------------------------------
EXTENDS PmLoop

CONSTANTS t1, t2, t3

MCTexts == {t1, t2, t3}
MCStart == <<t1, t2>>
=============================================================================
