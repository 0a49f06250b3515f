------------------------- MODULE MC_PtpTransaction --------------------------
(* Instances of PtpTransaction for TLC.                                    *)
EXTENDS PtpTransaction

BothTransports == {"ptpip", "fuji"}
PtpIp == {"ptpip"}
=============================================================================
