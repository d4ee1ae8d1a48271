----------------------------- MODULE MCResender -----------------------------
EXTENDS Resender
=============================================================================
