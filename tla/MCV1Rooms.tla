----------------------------- MODULE MCV1Rooms -----------------------------
\* A small instance of V1Rooms.
EXTENDS V1Rooms

CONSTANTS r1, c1, c2, loopback
============================================================================
