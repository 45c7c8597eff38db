------------------------------ MODULE MC_Layout -----------------------------
EXTENDS Layout

CONSTANTS r1, r2, NI

MCSubs == {"mp", "data", "ctl", "fs"}
=============================================================================
