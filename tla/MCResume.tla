------------------------------- MODULE MCResume -------------------------------
(* Profiles over three component ids; "gone" is bound but not a component.    *)
EXTENDS Resume

Profile(comps, compd, lockd, own, pc, pl) ==
    [comps |-> comps,
     bound |-> [s \in {"compd", "lockd"} |-> IF s = "compd" THEN compd ELSE lockd],
     ownLockd |-> own,
     policy |-> [s \in {"compd", "lockd"} |-> IF s = "compd" THEN pc ELSE pl]]

OneWM == [c \in {"wm", "ls"} |-> IF c = "wm" THEN "WindowManager" ELSE "LockScreen"]
TwoWM == [c \in {"wm", "wm2"} |-> "WindowManager"]
NoComponents == [c \in {} |-> "WindowManager"]

Plain == Profile(OneWM, {"wm"}, {"ls"}, FALSE, "absent", "restart")
Native == Profile(TwoWM, {"wm"}, {}, TRUE, "absent", "absent")
Safe == Profile(OneWM, {}, {}, TRUE, "absent", "restart")

\* lockd is bound to the window manager.
Crossed == Profile(OneWM, {"ls"}, {"wm"}, FALSE, "absent", "restart")

SomeProfiles == {Plain, Native, Safe}
SafeOrCrossed == {Safe, Crossed}

\* Bindings that dangle, are double or missing, no component at all, and a policy
\* that forbids the restart.
ManyProfiles ==
    SomeProfiles \cup
    {Crossed,
     Profile(OneWM, {"gone"}, {"gone"}, FALSE, "absent", "restart"),
     Profile(OneWM, {"wm", "ls"}, {"ls"}, TRUE, "restart", "restart"),
     Profile(OneWM, {}, {}, FALSE, "restart", "restart"),
     Profile(TwoWM, {}, {"wm"}, TRUE, "absent", "restart"),
     Profile(NoComponents, {"wm"}, {}, TRUE, "restart", "absent"),
     Profile(OneWM, {"wm"}, {"ls"}, FALSE, "disabled", "disabled")}
=============================================================================
