--------------------------- MODULE MCLoginCounters ---------------------------
(* Small instances of LoginCounters. *)
EXTENDS LoginCounters, TLC

CONSTANTS ip1, ip2, ip3

ThreeIps == {ip1, ip2, ip3}
OneIp    == {ip1}
=============================================================================
