------------------------------ MODULE Security ------------------------------
(***************************************************************************)
(* crates/xwin-sec in use.  A caller builds the context of one subject     *)
(* call by call (the with_... methods) and evaluates it; a client's        *)
(* context is also evaluated again after the user gave the grant that was  *)
(* asked for.  The subject is a client under the capability policy of      *)
(* Policy.tla or a surface under one of the boundaries of Boundaries.tla.  *)
(***************************************************************************)
EXTENDS Policy, Boundaries, Sequences, FiniteSets

CONSTANTS BrowserValues,  \* field -> the values the builder calls may set
          AgeValues,
          MarkerValues,
          MaxGrants,      \* bound on the grants a client collects
          MaxOverrides    \* bound on the overrides the operator confirms

ASSUME GrantsAssumption == MaxGrants \in Nat /\ MaxOverrides \in Nat

(* The values are members of the enumerations the contexts are made of.    *)
Browsers == [role : SUBSET {"Window", "Kiosk", "Other", "Unknown"},
             state : SUBSET {"Plain", "Other", "Unknown"},
             clipboard : SUBSET {"None", "Ordinary", "Sensitive", "Unknown"},
             file : SUBSET {"None", "Requested", "Unknown"},
             input : SUBSET {"Normal", "Capture", "Unknown"},
             gpu : SUBSET {"Normal", "HighRisk", "Unknown"},
             native : SUBSET {"None", "NativeMessaging", "ExternalProtocol", "Unknown"}]
Ages == [role : SUBSET {"Window", "Kiosk", "Other", "Unknown"},
         state : SUBSET {"Plain", "AgeSignal", "IdentityUpload", "Biometric", "Capture",
                         "Other", "Unknown"},
         clipboard : SUBSET {"None", "Ordinary", "Sensitive", "Unknown"},
         file : SUBSET {"None", "Requested", "Unknown"},
         gpu : SUBSET {"Normal", "HighRisk", "Unknown"},
         native : SUBSET {"None", "NativeMessaging", "ExternalProtocol", "Unknown"}]
Markers(situations, requests) ==
    [propagated : SUBSET {"quarantine", "fail_closed"}, situation : SUBSET situations,
     requested : SUBSET requests]

ASSUME ValuesAssumption ==
    /\ BrowserValues \in Browsers /\ AgeValues \in Ages
    /\ MarkerValues \in
           [ai : Markers({"sensitive", "external_input"}, AiForbidden \cup AiGuarded \cup {"other"}),
            dev : Markers({"untrusted", "secret", "persistence"},
                          DevGuarded \cup {"external_protocol", "other"})]

VARIABLES subject,   \* "client", "browser", "age", "ai" or "dev"
          ctx,       \* its context
          answer     \* of the last evaluation, <<>> before the first

securityVars == <<subject, ctx, answer>>

NoAnswer == <<>>

(* The constructors: every field the caller does not name is the default.  *)
NewClient(a, k, t) ==
    [app |-> a, kind |-> k, trust |-> t, source |-> Nothing, target |-> Nothing, focus |-> Nothing,
     visible |-> Nothing, grants |-> {}]

NewBrowser(f, p, r) ==
    [family |-> f, posture |-> p, role |-> r, state |-> "Unknown", clipboard |-> "Unknown",
     file |-> "Unknown", input |-> "Unknown", gpu |-> "Unknown", native |-> "Unknown",
     overrides |-> {}]

NewAge(f, p, r) ==
    [family |-> f, posture |-> p, role |-> r, state |-> "Unknown", clipboard |-> "Unknown",
     file |-> "Unknown", gpu |-> "Unknown", native |-> "Unknown", overrides |-> {}]

NoMarkers == [verdict |-> "none", propagated |-> {}, present |-> FALSE, situation |-> {},
              requested |-> {}]

SecurityInit ==
    /\ answer = NoAnswer
    /\ \/ subject = "client" /\ \E a \in Apps, k \in Kinds, t \in Trusts : ctx = NewClient(a, k, t)
       \/ subject = "browser" /\ \E f \in {"Browser", "Unknown"}, p \in Postures,
                                    r \in BrowserValues.role : ctx = NewBrowser(f, p, r)
       \/ subject = "age" /\ \E f \in {"Browser", "Unknown"}, p \in Postures,
                                r \in AgeValues.role : ctx = NewAge(f, p, r)
       \/ subject \in {"ai", "dev"} /\ ctx = NoMarkers

-----------------------------------------------------------------------------
(* A client under the capability policy                                    *)

WithSurface ==
    /\ subject = "client"
    /\ \E f \in {"source", "target", "focus", "visible"}, s \in Surfaces :
          ctx' = [ctx EXCEPT ![f] = s]
    /\ answer' = NoAnswer /\ UNCHANGED subject

(* The caller asks for a capability.                                       *)
Decide ==
    /\ subject = "client"
    /\ \E cap \in Capabilities \cup {Nothing} :
          answer' = <<cap, decide_optional(ctx, cap)>>
    /\ UNCHANGED <<subject, ctx>>

Asked == answer # NoAnswer /\ Len(answer[2]) = 2

(* The user gives the grant the decision asked for; the caller asks again  *)
(* with the same context.                                                  *)
WithGrantAsked ==
    /\ subject = "client" /\ Asked /\ Cardinality(ctx.grants) < MaxGrants
    /\ LET with == [ctx EXCEPT !.grants = @ \cup {answer[2][2]}]
       IN /\ ctx' = with
          /\ answer' = <<answer[1], decide_optional(with, answer[1])>>
    /\ UNCHANGED subject

-----------------------------------------------------------------------------
(* A surface under a boundary                                              *)

(* with_surface_state, with_clipboard_policy, ...: one field of the context*)
With(values) ==
    /\ \E f \in DOMAIN values : \E v \in values[f] : ctx' = [ctx EXCEPT ![f] = v]
    /\ answer' = NoAnswer /\ UNCHANGED subject

(* with_operator_overrides: the operator confirms one more exception.      *)
WithOverride(overrides) ==
    /\ Cardinality(ctx.overrides) < MaxOverrides
    /\ \E o \in overrides \ ctx.overrides : ctx' = [ctx EXCEPT !.overrides = @ \cup {o}]
    /\ answer' = NoAnswer /\ UNCHANGED subject

(* One more marker, or a verdict of KAIRO.                                 *)
WithMarker ==
    /\ subject \in {"ai", "dev"}
    /\ \/ \E f \in {"propagated", "situation", "requested"} :
             \E v \in MarkerValues[subject][f] : ctx' = [ctx EXCEPT ![f] = @ \cup {v}]
       \/ ctx' = [ctx EXCEPT !.present = TRUE]
       \/ \E v \in Verdicts : ctx' = [ctx EXCEPT !.verdict = v]
    /\ answer' = NoAnswer /\ UNCHANGED subject

ActionOf(sub, c) ==
    CASE sub = "browser" -> browser_action(evaluate_browser_surface_boundary(c))
      [] sub = "age" -> age_action(evaluate_age_assurance_browser_surface_boundary(c))
      [] sub = "ai" -> evaluate_xwin_privileged_ai_surface_boundary(c)
      [] sub = "dev" -> evaluate_xwin_developer_tool_surface_boundary(c)

Evaluate ==
    /\ subject # "client"
    /\ answer' = <<subject, <<ActionOf(subject, ctx)>>>>
    /\ UNCHANGED <<subject, ctx>>

SecurityNext ==
    \/ WithSurface \/ Decide \/ WithGrantAsked
    \/ subject = "browser" /\ With(BrowserValues)
    \/ subject = "browser" /\ WithOverride(BrowserOverrides)
    \/ subject = "age" /\ With(AgeValues)
    \/ subject = "age" /\ WithOverride(AgeOverrides)
    \/ WithMarker
    \/ Evaluate

SecuritySpec == SecurityInit /\ [][SecurityNext]_securityVars

-----------------------------------------------------------------------------
SecurityTypeOK ==
    /\ \/ subject = "client" /\ ctx \in Contexts
       \/ subject = "browser" /\ ctx \in BrowserContexts
       \/ subject = "age" /\ ctx \in AgeContexts
       \/ subject = "ai" /\ ctx \in AiContexts
       \/ subject = "dev" /\ ctx \in DevContexts
    /\ answer # NoAnswer =>
          IF subject = "client" THEN answer[2][1] \in {"Allow", "Deny", "RequireUserGrant"}
          ELSE answer[2][1] \in Actions

(* The grant a guarded capability needs in a context.                      *)
NeededScope(c, cap) ==
    CASE cap \in Clipboard \cup DragAndDrop \cup {"ShareGpuBuffer"} -> App(c.app)
      [] cap = "RequestScreenCapture" -> VisibleSurface(Captured(c))
      [] cap = "ReadOtherSurface" -> Surface(c.target)
      [] cap = "RequestCompositorPrivilegedOperation" -> Compositor
      [] OTHER -> SelectedHandle

Free == {"ReadOwnSurface", "ReceiveImeText", "UseGpuBuffer"}

(* policy.rs: a guarded capability is allowed only under a grant for this  *)
(* very capability and for the app or surface as it is now.  A grant given *)
(* while one surface was shown does not serve the next one.                *)
NothingWithoutAGrant ==
    subject = "client" /\ answer # NoAnswer /\ answer[2] = Allow /\ answer[1] \notin Free =>
        [capability |-> answer[1], scope |-> NeededScope(ctx, answer[1])] \in ctx.grants

(* policy.rs: the grant a RequireUserGrant names is the one the next       *)
(* decision looks for: the user is not asked twice for the same thing.     *)
(* The file picker hands out one selected handle per request and a capture *)
(* with nothing visible is never granted; both keep asking.                *)
GivenGrantIsEnough ==
    [][WithGrantAsked /\ answer[2][2].scope \notin {SelectedHandle, SessionScope}
         => answer'[2] = Allow]_securityVars

As(c, k, t) == [c EXCEPT !.kind = k, !.trust = t]

(* policy.rs: in the same context and with the same grants, whatever is    *)
(* allowed to a browser is allowed to a user application, whatever is      *)
(* allowed to that is allowed to a trusted system application, and a       *)
(* client of unknown kind is allowed nothing.                              *)
TrustOnlyAdds ==
    subject = "client" =>
        \A cap \in Capabilities, t \in Trusts :
            LET allowed(k, u) == decide(As(ctx, k, u), cap) = Allow
            IN /\ allowed("Browser", t) => allowed("NativeApp", "UserApp")
               /\ allowed("NativeApp", "UserApp") => allowed("SystemApp", "TrustedSystem")
               /\ ~allowed("Unknown", t)

(* How little a posture trusts the runtime.                                *)
Distrust(p) == CASE p = "KairoAllowed" -> 0 [] p = "KairoObserve" -> 1
                 [] p = "KairoQuarantine" -> 2 [] p = "Unknown" -> 3 [] p = "KairoFailClosed" -> 4

(* The boundaries: knowing worse of the runtime (browser, age assurance)   *)
(* or of the situation (AI, developer tools) never softens the action, and *)
(* a fail-closed verdict of KAIRO overrules everything.                    *)
RiskNeverSoftens ==
    /\ subject \in {"browser", "age"} =>
          \A p \in Postures :
              LET worse == ActionOf(subject, [ctx EXCEPT !.posture = p])
              IN /\ Distrust(p) >= Distrust(ctx.posture) =>
                        Strictness(worse) >= Strictness(ActionOf(subject, ctx))
                 /\ p = "KairoFailClosed" => worse = "FailClosed"
    /\ subject \in {"ai", "dev"} =>
          /\ \A s \in MarkerValues[subject].situation :
                Strictness(ActionOf(subject, [ctx EXCEPT !.situation = @ \cup {s}]))
                    >= Strictness(ActionOf(subject, ctx))
          /\ ActionOf(subject, [ctx EXCEPT !.verdict = "fail_closed"]) = "FailClosed"

(* Is the request an override is for pending?                              *)
Pending(sub, c, o) ==
    CASE o = "clipboard" -> c.clipboard = "Sensitive" \/ (sub = "age" /\ c.clipboard = "Ordinary")
      [] o = "file_picker" -> c.file = "Requested"
      [] o = "native_messaging" ->
             c.native = "NativeMessaging" \/ (sub = "browser" /\ c.native = "ExternalProtocol")
      [] o = "external_protocol" -> c.native = "ExternalProtocol"
      [] o = "age_signal" -> c.state = "AgeSignal"
      [] o = "identity_upload" -> c.state = "IdentityUpload"
      [] o = "biometric" -> c.state = "Biometric"

(* An override the operator confirmed for one kind of request has no       *)
(* effect on a surface that makes no such request.                         *)
OverridesAreScoped ==
    subject \in {"browser", "age"} =>
        \A o \in ctx.overrides :
            ~Pending(subject, ctx, o) =>
                ActionOf(subject, [ctx EXCEPT !.overrides = @ \ {o}]) = ActionOf(subject, ctx)

(* The requests no override answers.                                       *)
Unresolved(sub, c) ==
    \/ \E o \in IF sub = "browser" THEN BrowserOverrides ELSE AgeOverrides \ {"age_signal"} :
           o \notin c.overrides /\ Pending(sub, c, o)
    \/ sub = "browser" /\ c.posture \in Constrained /\ (c.input = "Capture" \/ c.gpu = "HighRisk")
    \/ sub = "age" /\ (c.state = "Capture" \/ c.gpu = "HighRisk")

(* A browser surface with a request nothing resolves is quarantined or     *)
(* failed closed, whatever else it asks for and whatever other overrides   *)
(* the operator confirmed; an age-assurance surface is, as long as none of *)
(* its requests was let through by an override (the first such request     *)
(* allows the surface as a whole).                                         *)
UnresolvedIsHeld ==
    /\ subject \in {"browser", "age"} /\ is_browser_surface(ctx) /\ Unresolved(subject, ctx)
    /\ subject = "age" => \A o \in ctx.overrides : ~Pending("age", ctx, o)
    => ActionOf(subject, ctx) \in {"Quarantine", "FailClosed"}

(* The capability policy over any sequence of builder calls and grants: what *)
(* is guarded is never allowed without its grant, and the tables of the four *)
(* trust levels are ordered as the levels are.                               *)
PolicyHolds == SecurityTypeOK /\ NothingWithoutAGrant /\ TrustOnlyAdds

(* The boundary modules decide by a fixed order of early returns: no mix of  *)
(* risks and overrides makes a later return soften what an earlier risk      *)
(* calls for, an override reaches past its own request, or an unanswered     *)
(* request slip through.                                                     *)
BoundariesHold == RiskNeverSoftens /\ OverridesAreScoped /\ UnresolvedIsHeld
=============================================================================
