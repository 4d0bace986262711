----------------------------- MODULE MCSecurity -----------------------------
(* The policies of xwin-sec on one app, two       *)
(* surfaces, and a value per case each boundary tells apart.               *)
EXTENDS Security, TLC

CONSTANTS a1, s1, s2

Symmetry == Permutations(Surfaces)

MCBrowserValues ==
    [role |-> {"Window", "Unknown"}, state |-> {"Plain", "Unknown"},
     clipboard |-> {"None", "Sensitive"}, file |-> {"None", "Requested"},
     input |-> {"Normal", "Capture"}, gpu |-> {"Normal", "HighRisk"},
     native |-> {"None", "NativeMessaging", "ExternalProtocol"}]

MCAgeValues ==
    [role |-> {"Kiosk", "Unknown"},
     state |-> {"Plain", "AgeSignal", "IdentityUpload", "Biometric", "Capture"},
     clipboard |-> {"Ordinary"}, file |-> {"Requested"}, gpu |-> {"HighRisk"},
     native |-> {"NativeMessaging", "ExternalProtocol"}]

MCMarkerValues ==
    [ai |-> [propagated |-> {"quarantine", "fail_closed"},
             situation |-> {"sensitive", "external_input"},
             requested |-> {"native_messaging", "clipboard", "drag_drop", "other"}],
     dev |-> [propagated |-> {"quarantine", "fail_closed"},
              situation |-> {"untrusted", "secret", "persistence"},
              requested |-> {"external_protocol", "clipboard", "browser_extension", "drag_drop",
                             "other"}]]
=============================================================================
