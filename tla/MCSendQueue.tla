---------------------------- MODULE MCSendQueue -----------------------------
EXTENDS SendQueue
\* The code's queue holds 1000 packets; two are enough to fill it.
MCPackets == {"v1", "v2", "a1"}
MCVideo   == {"v1", "v2"}
=============================================================================
