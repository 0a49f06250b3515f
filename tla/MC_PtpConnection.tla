---- MODULE MC_PtpConnection ----
\* Two GUIDs that can be generated; ends of the process and failed saves, three in all.
EXTENDS PtpConnection

CONSTANTS g1, g2
MCGuids == {g1, g2}
MCKeys == {"hostname", "fuji_mode", "guid"}
MCValues == MCGuids \cup Modes \cup {Host}
====
