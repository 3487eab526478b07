--------------------------- MODULE MCProxySession ---------------------------
(* Values of ProxySession's constants for TLC.                             *)
EXTENDS ProxySession

AllModes == {"socket", "command"}
CommandOnly == {"command"}

\* The daemon's second chunk is one that bypasses the BufWriter.
SecondAnswer == {<<D2C, 2>>}
=============================================================================
