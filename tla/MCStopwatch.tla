----------------------------- MODULE MCStopwatch -----------------------------
EXTENDS StopwatchTrace
=============================================================================
