-------------------------- MODULE MCNiceConnection --------------------------
EXTENDS NiceConnection
\* The code's queue holds 1000 packets; three packets overflow a queue of two.
MCPackets == {"p1", "p2", "p3"}
=============================================================================
