---------------------------- MODULE MCLaunchStream ----------------------------
(* A full desktop with a critical and an optional component, its degraded     *)
(* profile with one component, and a degraded profile nobody has installed.   *)
EXTENDS LaunchStream

MCProfiles == {"full", "safe"}
MCComponents == {"wm", "panel"}
MCSessionComponents == [p \in MCProfiles |-> IF p = "full" THEN {"wm", "panel"} ELSE {"wm"}]
MCCritical == {"wm"}
MCBound == [p \in MCProfiles |-> "wm"]

\* full falls back to safe, safe names a profile that does not exist.
MCDegraded == [p \in MCProfiles |-> IF p = "full" THEN "safe" ELSE "gone"]

AllOutcomes == {"Spawned", "Failed", "Missing"}
=============================================================================
