------------------------------ MODULE MCOutage ------------------------------
EXTENDS Outage

\* A display that has two of the extensions asked for.
MCMajorOf == [n \in Extensions |-> CASE n = "SYNC" -> 1 [] n = "XKEYBOARD" -> 2 [] OTHER -> 0]
=============================================================================
