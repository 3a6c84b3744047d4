---------------------------- MODULE MCConnectRetry ----------------------------
(* Instance of ConnectRetry for TLC: the settings range over 0..6 retries    *)
(* and 0..2 units of delay; the cap of 8 delays is reached by the fifth.     *)
EXTENDS ConnectRetry
=============================================================================
