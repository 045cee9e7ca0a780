----------------------------- MODULE MCMonitor ------------------------------
EXTENDS Monitor
CONSTANTS a1, a2
Two == {a1, a2}
InOrder == <<a1, a2>>
=============================================================================
