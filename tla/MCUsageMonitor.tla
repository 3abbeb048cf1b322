--------------------------- MODULE MCUsageMonitor ---------------------------
EXTENDS UsageMonitor
=============================================================================
