----------------------------- MODULE Boundaries -----------------------------
(***************************************************************************)
(* The four surface boundaries of crates/xwin-sec: pure evaluators that    *)
(* map what is known of a surface (its runtime, posture, requests and the  *)
(* overrides the operator confirmed) to an action.  The order of their     *)
(* early returns is the order of the IFs here.  Enumeration members that   *)
(* no evaluator tells apart are one value; findings and reasons, which are *)
(* text, are left out.                                                     *)
(***************************************************************************)
EXTENDS Naturals

Actions == {"Allow", "Observe", "Constrain", "Quarantine", "FailClosed"}

(* How much each action withholds.                                         *)
Strictness(a) == CASE a = "Allow" -> 0 [] a = "Observe" -> 1 [] a = "Constrain" -> 2
                   [] a = "Quarantine" -> 3 [] a = "FailClosed" -> 4

Postures == {"KairoAllowed", "KairoObserve", "KairoQuarantine", "Unknown", "KairoFailClosed"}
Constrained == {"KairoObserve", "KairoQuarantine", "Unknown"}

-----------------------------------------------------------------------------
(* browser_surface_boundary.rs                                             *)

BrowserOverrides == {"clipboard", "file_picker", "native_messaging"}

BrowserContexts ==
    [family : {"Browser", "Unknown"},
     posture : Postures,
     role : {"Window", "Kiosk", "Other", "Unknown"},
     state : {"Plain", "Other", "Unknown"},
     clipboard : {"None", "Ordinary", "Sensitive", "Unknown"},
     file : {"None", "Requested", "Unknown"},
     input : {"Normal", "Capture", "Unknown"},
     gpu : {"Normal", "HighRisk", "Unknown"},
     native : {"None", "NativeMessaging", "ExternalProtocol", "Unknown"},
     overrides : SUBSET BrowserOverrides]

is_browser_surface(c) == c.family # "Unknown" \/ c.role # "Unknown"

is_sensitive_clipboard_request(c) == c.clipboard = "Sensitive" /\ "clipboard" \notin c.overrides

is_file_boundary_request(c) == c.file = "Requested"

is_input_capture_request(c) == c.input = "Capture"

\* Mutant: external protocol handlers are forgotten.
OnlyNativeMessaging(c) == c.native = "NativeMessaging"

is_native_messaging_request(c) == c.native \in {"NativeMessaging", "ExternalProtocol"}

is_native_messaging_request_without_override(c) ==
    is_native_messaging_request(c) /\ "native_messaging" \notin c.overrides

is_gpu_high_risk_request(c) == c.gpu = "HighRisk"

request_is_explicit_high_risk(c) ==
    \/ is_sensitive_clipboard_request(c)
    \/ is_file_boundary_request(c) /\ "file_picker" \notin c.overrides
    \/ is_input_capture_request(c)
    \/ is_native_messaging_request_without_override(c)
    \/ is_gpu_high_risk_request(c)

is_unknown_high_risk(c) ==
    /\ c.family # "Unknown"
    /\ c.posture = "Unknown" /\ c.state = "Unknown" /\ c.clipboard = "Unknown"
    /\ c.file = "Unknown" /\ c.input = "Unknown" /\ c.gpu = "Unknown"

allow_surface_conditions_met(c) ==
    /\ c.posture = "KairoAllowed" /\ c.role = "Window" /\ c.state = "Plain"
    /\ ~request_is_explicit_high_risk(c)

(* The observe and constrain conditions of the code end in the same        *)
(* decision as its default, so they have no arm of their own.              *)
evaluate_browser_surface_boundary(c) ==
    IF c.posture = "KairoFailClosed" THEN "KairoFailClosedPropagated"
    ELSE IF ~is_browser_surface(c) THEN "NotApplicable"
    ELSE IF is_unknown_high_risk(c) THEN "UnknownFailClosed"
    ELSE IF is_sensitive_clipboard_request(c) THEN "ClipboardQuarantine"
    ELSE IF is_file_boundary_request(c) /\ "file_picker" \notin c.overrides
         THEN "FileBoundaryQuarantine"
    ELSE IF is_input_capture_request(c) /\ c.posture \in Constrained
         THEN "InputCaptureFailClosed"
    ELSE IF is_native_messaging_request_without_override(c) THEN "NativeMessagingFailClosed"
    ELSE IF is_gpu_high_risk_request(c) /\ c.posture \in Constrained THEN "GpuSurfaceFailClosed"
    ELSE IF allow_surface_conditions_met(c) THEN "AllowSurface"
    ELSE "ConstrainSurface"

browser_action(s) ==
    CASE s \in {"NotApplicable", "AllowSurface"} -> "Allow"
      [] s = "ConstrainSurface" -> "Constrain"
      [] s \in {"ClipboardQuarantine", "FileBoundaryQuarantine"} -> "Quarantine"
      [] OTHER -> "FailClosed"

-----------------------------------------------------------------------------
(* age_assurance_browser_surface_boundary.rs                               *)

AgeOverrides == BrowserOverrides \cup
    {"age_signal", "identity_upload", "biometric", "external_protocol"}

AgeContexts ==
    [family : {"Browser", "Unknown"},
     posture : Postures,
     role : {"Window", "Kiosk", "Other", "Unknown"},
     state : {"Plain", "AgeSignal", "IdentityUpload", "Biometric", "Capture", "Other", "Unknown"},
     clipboard : {"None", "Ordinary", "Sensitive", "Unknown"},
     file : {"None", "Requested", "Unknown"},
     gpu : {"Normal", "HighRisk", "Unknown"},
     native : {"None", "NativeMessaging", "ExternalProtocol", "Unknown"},
     overrides : SUBSET AgeOverrides]

is_clipboard_request(c) == c.clipboard \in {"Ordinary", "Sensitive"}

is_screen_capture_or_gpu_request(c) == c.state = "Capture" \/ c.gpu = "HighRisk"

age_is_unknown_high_risk(c) ==
    /\ c.family # "Unknown"
    /\ c.posture = "Unknown" /\ c.role = "Unknown" /\ c.state = "Unknown"
    /\ c.clipboard = "Unknown" /\ c.file = "Unknown" /\ c.native = "Unknown" /\ c.gpu = "Unknown"

age_allow_surface_conditions_met(c) ==
    /\ c.posture = "KairoAllowed" /\ c.role \in {"Window", "Kiosk"} /\ c.state = "Plain"
    /\ ~is_clipboard_request(c) /\ ~is_file_boundary_request(c)
    /\ ~is_native_messaging_request(c) /\ ~is_screen_capture_or_gpu_request(c)

age_signal_observe_conditions_met(c) ==
    /\ c.posture \in {"KairoAllowed", "KairoObserve"} /\ is_browser_surface(c)
    /\ c.state = "AgeSignal" /\ "age_signal" \notin c.overrides
    /\ ~is_clipboard_request(c) /\ ~is_file_boundary_request(c)
    /\ ~is_native_messaging_request(c) /\ ~is_screen_capture_or_gpu_request(c)

(* One request and the override that lifts it: allowed with it, otherwise  *)
(* the given decision.                                                     *)
Unless(c, override, decision) == IF override \in c.overrides THEN "AllowSurface" ELSE decision

(* What a surface that asks for nothing guarded is given.                  *)
age_surface_decision(c) ==
    IF c.state = "AgeSignal" /\ "age_signal" \in c.overrides THEN "AllowSurface"
    ELSE IF age_signal_observe_conditions_met(c) THEN "AgeSignalObserve"
    ELSE IF age_allow_surface_conditions_met(c) THEN "AllowSurface"
    ELSE "ConstrainSurface"

(* What a surface is given for its requests.                               *)
age_request_decision(c) ==
    IF is_clipboard_request(c) THEN Unless(c, "clipboard", "ClipboardQuarantine")
    ELSE IF is_file_boundary_request(c) THEN Unless(c, "file_picker", "FilePickerQuarantine")
    ELSE IF c.native = "NativeMessaging"
         THEN Unless(c, "native_messaging", "NativeMessagingFailClosed")
    ELSE IF c.native = "ExternalProtocol"
         THEN Unless(c, "external_protocol", "ExternalProtocolFailClosed")
    ELSE IF is_screen_capture_or_gpu_request(c) THEN "ScreenCaptureFailClosed"
    ELSE age_surface_decision(c)

evaluate_age_assurance_browser_surface_boundary(c) ==
    IF c.posture = "KairoFailClosed" THEN "KairoFailClosedPropagated"
    ELSE IF ~is_browser_surface(c) THEN "NotApplicable"
    ELSE IF age_is_unknown_high_risk(c) THEN "UnknownFailClosed"
    ELSE IF c.state = "IdentityUpload"
         THEN Unless(c, "identity_upload", "IdentityUploadFailClosed")
    ELSE IF c.state = "Biometric" THEN Unless(c, "biometric", "BiometricPromptFailClosed")
    ELSE age_request_decision(c)

age_action(s) ==
    CASE s \in {"NotApplicable", "AllowSurface", "AgeSignalObserve"} -> "Allow"
      [] s = "ConstrainSurface" -> "Constrain"
      [] s \in {"ClipboardQuarantine", "FilePickerQuarantine"} -> "Quarantine"
      [] OTHER -> "FailClosed"

-----------------------------------------------------------------------------
(* privileged_ai_surface_boundary.rs and developer_tool_surface_boundary.rs*)
(* Both read a list of surface markers, a list of PAL markers and KAIRO's  *)
(* verdict.  The markers that ask for a surface are `requested', the ones  *)
(* that describe the situation are `situation', the ones that carry a      *)
(* verdict are `propagated'.                                               *)

Verdicts == {"none", "quarantine", "fail_closed"}

AiForbidden == {"native_messaging", "external_protocol", "browser_profile"}
AiGuarded   == {"clipboard", "file_picker", "drag_drop", "screen_capture", "window_capture",
                "download_upload"}
AiContexts  == [verdict : Verdicts, propagated : SUBSET {"quarantine", "fail_closed"},
                present : BOOLEAN, situation : SUBSET {"sensitive", "external_input"},
                requested : SUBSET (AiForbidden \cup AiGuarded \cup {"other"})]

Told(c, v) == c.verdict = v \/ v \in c.propagated

evaluate_xwin_privileged_ai_surface_boundary(c) ==
    IF Told(c, "fail_closed") THEN "FailClosed"
    ELSE IF c.situation # {} /\ c.requested \cap AiForbidden # {} THEN "FailClosed"
    ELSE IF c.situation # {} /\ c.requested \cap AiGuarded # {} THEN "Quarantine"
    ELSE IF Told(c, "quarantine") THEN "Quarantine"
    ELSE IF c.present /\ c.requested # {} /\ c.requested \cap (AiForbidden \cup AiGuarded) = {}
         THEN "FailClosed"
    ELSE IF c.present THEN IF c.requested # {} THEN "Constrain" ELSE "Observe"
    ELSE "Allow"

DevGuarded  == {"clipboard", "file_picker", "drag_drop", "terminal_launch", "download_upload",
                "ide_extension", "browser_extension", "screen_capture", "window_capture"}
DevSecret   == {"file_picker", "clipboard", "terminal_launch", "ide_extension"}
DevPersist  == {"terminal_launch", "ide_extension", "browser_extension"}
DevContexts == [verdict : Verdicts, propagated : SUBSET {"quarantine", "fail_closed"},
                present : BOOLEAN,
                situation : SUBSET {"untrusted", "secret", "persistence"},
                requested : SUBSET (DevGuarded \cup {"external_protocol", "other"})]

evaluate_xwin_developer_tool_surface_boundary(c) ==
    LET untrusted == "untrusted" \in c.situation
    IN IF Told(c, "fail_closed") THEN "FailClosed"
       ELSE IF untrusted /\ "external_protocol" \in c.requested THEN "FailClosed"
       ELSE IF untrusted /\ "secret" \in c.situation /\ c.requested \cap DevSecret # {}
            THEN "FailClosed"
       ELSE IF untrusted /\ "persistence" \in c.situation /\ c.requested \cap DevPersist # {}
            THEN "FailClosed"
       ELSE IF untrusted /\ c.requested \cap DevGuarded # {} THEN "Quarantine"
       ELSE IF Told(c, "quarantine") THEN "Quarantine"
       ELSE IF untrusted /\ c.requested # {} THEN "FailClosed"
       ELSE IF c.present THEN IF untrusted \/ c.requested = {} THEN "Observe" ELSE "Constrain"
       ELSE "Allow"
=============================================================================
