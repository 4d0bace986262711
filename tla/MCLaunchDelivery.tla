--------------------------- MODULE MCLaunchDelivery ---------------------------
(* Two profiles that compete for one cache entry, two components. *)
EXTENDS LaunchDelivery

MCProfiles == {"full", "safe"}
MCComponents == {"wm", "panel"}
MCValues == {"a", "b"}
=============================================================================
