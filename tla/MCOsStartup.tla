----------------------------- MODULE MCOsStartup -----------------------------
(* Three cores, two modes. *)
EXTENDS OsStartup

MCModes == {"normal", "diagnosis"}
MCMayStopAlone == {2}
=============================================================================
