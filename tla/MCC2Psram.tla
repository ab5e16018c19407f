------------------------------ MODULE MCC2Psram -----------------------------
EXTENDS C2Psram

\* The board waits before the first command and after the device reset.
MCGuards == [s \in Stages |-> CASE s = 0 -> 1 [] s = 2 -> 3 [] OTHER -> 0]
=============================================================================
