------------------------------- MODULE Policy -------------------------------
(***************************************************************************)
(* The capability policy of crates/xwin-sec (policy.rs, decision.rs,       *)
(* capability.rs, client.rs): what a client of some kind and trust may do  *)
(* in the present arrangement of surfaces, given the grants of the user.   *)
(* Pure operators; Security.tla runs them.  Reason codes and the wording   *)
(* of decisions are left out.                                              *)
(***************************************************************************)
CONSTANTS Apps, Surfaces, Nothing

ASSUME NothingAssumption == Nothing \notin Apps \cup Surfaces

Kinds  == {"Browser", "NativeApp", "SystemApp", "Unknown"}
Trusts == {"TrustedSystem", "UserApp", "Hostile", "Unknown"}

(* XwinCapability, in groups the policy treats alike.                      *)
Clipboard    == {"ReadClipboard", "WriteClipboard"}
DragAndDrop  == {"ReceiveDroppedData", "SendDroppedData"}
Capabilities == Clipboard \cup DragAndDrop \cup
    {"UseFilePicker", "RequestScreenCapture", "ReadOwnSurface", "ReadOtherSurface",
     "ReceiveImeText", "ObserveGlobalInput", "UseGpuBuffer", "ShareGpuBuffer",
     "RequestCompositorPrivilegedOperation"}

(* GrantScope: the scopes with a payload are pairs of a tag and the app or *)
(* surface they are for.                                                   *)
App(a)            == <<"App", a>>
Surface(s)        == <<"Surface", s>>
VisibleSurface(s) == <<"VisibleSurface", s>>
SelectedHandle    == <<"SelectedHandle", Nothing>>
SessionScope      == <<"Session", Nothing>>
Compositor        == <<"Compositor", Nothing>>

Scopes == {App(a) : a \in Apps} \cup {Surface(s) : s \in Surfaces}
          \cup {VisibleSurface(s) : s \in Surfaces}
          \cup {SelectedHandle, SessionScope, Compositor}

(* CapabilityGrant.  The lifetime is dropped: has_grant never looks at it. *)
Grants == [capability : Capabilities, scope : Scopes]

Contexts == [app : Apps, kind : Kinds, trust : Trusts,
             source : Surfaces \cup {Nothing}, target : Surfaces \cup {Nothing},
             focus : Surfaces \cup {Nothing}, visible : Surfaces \cup {Nothing},
             grants : SUBSET Grants]

\* Mutant: a grant for any scope will do.
AnyGrant(ctx, cap, scope) == \E g \in ctx.grants : g.capability = cap

has_grant(ctx, cap, scope) == [capability |-> cap, scope |-> scope] \in ctx.grants

(* SecurityDecision.                                                       *)
Allow == <<"Allow">>
Deny  == <<"Deny">>
RequireUserGrant(cap, scope) ==
    <<"RequireUserGrant", [capability |-> cap, scope |-> scope]>>

\* Mutant: the user is asked for another scope than the one looked up.
AsksTooMuch(ctx, cap, scope) ==
    IF has_grant(ctx, cap, scope) THEN Allow ELSE RequireUserGrant(cap, Compositor)

GrantOrAsk(ctx, cap, scope) ==
    IF has_grant(ctx, cap, scope) THEN Allow ELSE RequireUserGrant(cap, scope)

effective_trust(ctx) == IF ctx.kind \in {"Browser", "Unknown"} THEN "Hostile" ELSE ctx.trust

same_surface(left, right) == left # Nothing /\ left = right

(* What a capture would show: the visible surface, failing that the target,*)
(* failing that the source.                                                *)
Captured(ctx) == IF ctx.visible # Nothing THEN ctx.visible
                 ELSE IF ctx.target # Nothing THEN ctx.target ELSE ctx.source

allowed_for_user_app(ctx, cap) ==
    CASE cap = "ReadOwnSurface" ->
             IF same_surface(ctx.source, ctx.target) THEN Allow ELSE Deny
      [] cap = "ReadOtherSurface" ->
             IF ctx.target # Nothing /\ has_grant(ctx, cap, Surface(ctx.target))
             THEN Allow ELSE Deny
      [] cap \in {"ObserveGlobalInput", "RequestCompositorPrivilegedOperation"} -> Deny
      [] cap \in Clipboard \cup DragAndDrop \cup {"ShareGpuBuffer"} ->
             GrantOrAsk(ctx, cap, App(ctx.app))
      [] cap = "UseFilePicker" -> RequireUserGrant(cap, SelectedHandle)
      [] cap = "RequestScreenCapture" ->
             IF Captured(ctx) # Nothing THEN GrantOrAsk(ctx, cap, VisibleSurface(Captured(ctx)))
             ELSE RequireUserGrant(cap, SessionScope)
      [] cap = "ReceiveImeText" ->
             IF same_surface(ctx.focus, ctx.source) THEN Allow ELSE Deny
      [] cap = "UseGpuBuffer" -> Allow

allowed_for_trusted_system(ctx, cap) ==
    CASE cap = "ObserveGlobalInput" -> Deny
      [] cap = "RequestCompositorPrivilegedOperation" -> GrantOrAsk(ctx, cap, Compositor)
      [] cap = "ShareGpuBuffer" -> GrantOrAsk(ctx, cap, App(ctx.app))
      [] OTHER -> allowed_for_user_app(ctx, cap)

(* Browsers get what a user application gets: the arms that do not defer   *)
(* to it give the answer it would give.                                    *)
allowed_for_hostile(ctx, cap) ==
    CASE cap \in {"ObserveGlobalInput", "RequestCompositorPrivilegedOperation"} -> Deny
      [] cap = "UseGpuBuffer" -> Allow
      [] OTHER -> allowed_for_user_app(ctx, cap)

decide(ctx, cap) ==
    CASE ctx.kind = "SystemApp" /\ effective_trust(ctx) = "TrustedSystem" ->
             allowed_for_trusted_system(ctx, cap)
      [] ctx.kind = "NativeApp" /\ effective_trust(ctx) = "UserApp" ->
             allowed_for_user_app(ctx, cap)
      [] ctx.kind = "Browser" -> allowed_for_hostile(ctx, cap)
      [] OTHER -> Deny

(* A capability the caller could not name is refused.                      *)
decide_optional(ctx, cap) == IF cap = Nothing THEN Deny ELSE decide(ctx, cap)
=============================================================================
