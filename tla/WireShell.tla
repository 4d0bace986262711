------------------------------- MODULE WireShell -------------------------------
(* The protocols that give a surface a role or extend it: xdg_shell,          *)
(* layer_shell, subsurfaces, viewports, fractional scales and decorations.    *)
EXTENDS WireSurface

RoleKinds == {"xdg_surface", "zwlr_layer_surface_v1", "wl_subsurface"}

(* "... already exists for this surface": no row of the kind refers to it.    *)
Unclaimed(k, of) == \A r \in RowsOf(core, k) : r.of # of

----------------------------------------------------------------------------
(* xdg_shell.  An xdg_surface's row is [of: wl_surface, at: configured].      *)

GetXdgSurface(id, s) ==
  /\ Request("xdg_wm_base")
  /\ Offers(id) /\ Polite(Has("wl_surface", s) /\ NoneOn(RoleKinds, s))
  /\ Respond(Unclaimed("xdg_surface", s) /\ Fresh(core, id) /\ Refers(id, s)
               /\ core.role[s] = None,
             [core EXCEPT !.obj[id] = "xdg_surface", !.role[s] = "xdg_surface",
                          !.tab = Put(core, Row("xdg_surface", id, s, None))],
             mine \cup {Row("xdg_surface", id, s, None)})

RowOf(k, id) == CHOOSE r \in RowsOf(core, k) : r.id = id

(* Mutant: the surface keeps the role when the role object goes.              *)
KeepsRole(k, id) == core

(* The role of whatever surface the row names is released.                    *)
Released(k, id) ==
  IF id \in Keys(core, k) THEN [core EXCEPT !.role[RowOf(k, id).of] = None] ELSE core

DestroyXdgSurface(x) ==
  /\ Request("xdg_wm_base")
  /\ Destroy("xdg_surface", x, TRUE, Released("xdg_surface", x))

(* get_toplevel sends the first configure; the toplevel has no state of its   *)
(* own and nothing stops a second one.                                        *)

(* Mutant: the serial that was sent is not kept.                              *)
ForgetsSerial(x) == core.tab

Configured(x) ==
  {IF r.k = "xdg_surface" /\ r.id = x THEN [r EXCEPT !.at = "configured"] ELSE r : r \in core.tab}

GetToplevel(id, x) ==
  /\ Request("xdg_wm_base")
  /\ Names("xdg_surface", x)
  /\ Offers(id) /\ Polite(NoneOn({"xdg_toplevel", "xdg_popup"}, x))
  /\ Respond(Is("xdg_surface", x) /\ Fresh(core, id),
             [core EXCEPT !.obj[id] = "xdg_toplevel", !.tab = Configured(x)],
             mine \cup {Row("xdg_toplevel", id, x, None)})

DestroyToplevel(t) == Request("xdg_wm_base") /\ Lenient("xdg_toplevel", t)

(* set_title, set_app_id and set_parent.                                      *)
SetToplevel(t) == Request("xdg_wm_base") /\ Note("xdg_toplevel", t)

(* ack_configure: some configure was sent and the serial is not ahead of it.  *)
AckConfigure(x, ahead) ==
  /\ Request("xdg_wm_base")
  /\ Polite(~ahead /\ \E r \in mine : r.k = "xdg_toplevel" /\ r.of = x)
  /\ Touch("xdg_surface", x,
           ~ahead /\ \E r \in RowsOf(core, "xdg_surface") : r.id = x /\ r.at = "configured")

SetWindowGeometry(x, positive) ==
  Request("xdg_wm_base") /\ Polite(positive) /\ Touch("xdg_surface", x, positive)

CreatePositioner(id) ==
  Request("xdg_wm_base") /\ Create("xdg_positioner", id, None, None, TRUE)
SetPositioner(p) == Request("xdg_wm_base") /\ Note("xdg_positioner", p)
DestroyPositioner(p) == Request("xdg_wm_base") /\ Lenient("xdg_positioner", p)

(* A popup copies the positioner; the parent is not looked at.                *)
GetPopup(id, x, p) ==
  /\ Request("xdg_wm_base")
  /\ Names("xdg_surface", x)
  /\ Polite(Has("xdg_positioner", p) /\ NoneOn({"xdg_toplevel", "xdg_popup"}, x))
  /\ Create("xdg_popup", id, x, None,
            Is("xdg_surface", x) /\ p \in Keys(core, "xdg_positioner"))
DestroyPopup(p) == Request("xdg_wm_base") /\ Lenient("xdg_popup", p)

----------------------------------------------------------------------------
(* layer_shell.  The manager keeps one row per object and one binding per     *)
(* surface; both are written and removed together and are one row here.       *)

GetLayerSurface(id, s) ==
  /\ Request("zwlr_layer_shell_v1")
  /\ Offers(id) /\ Polite(Has("wl_surface", s) /\ NoneOn(RoleKinds, s))
  /\ Respond(Fresh(core, id) /\ Refers(id, s) /\ Unclaimed("zwlr_layer_surface_v1", s)
               /\ core.role[s] = None,
             [core EXCEPT !.obj[id] = "zwlr_layer_surface_v1", !.role[s] = "layer_surface",
                          !.tab = Put(core, Row("zwlr_layer_surface_v1", id, s, None))],
             mine \cup {Row("zwlr_layer_surface_v1", id, s, None)})

(* set_size, set_anchor, set_exclusive_zone, set_margin, set_layer,           *)
(* set_keyboard_interactivity and ack_configure.                              *)
SetLayerState(l, valid) ==
  Request("zwlr_layer_shell_v1") /\ Polite(valid) /\ Touch("zwlr_layer_surface_v1", l, valid)

GetLayerPopup(id, l, p) ==
  /\ Request("zwlr_layer_shell_v1")
  /\ Names("zwlr_layer_surface_v1", l)
  /\ Polite(Has("xdg_positioner", p))
  /\ Plain("xdg_popup", id, l, Is("zwlr_layer_surface_v1", l) /\ Refers(id, p)
                                 /\ l \in Keys(core, "zwlr_layer_surface_v1"))

DestroyLayerSurface(l) ==
  /\ Request("zwlr_layer_shell_v1")
  /\ Destroy("zwlr_layer_surface_v1", l, l \in Keys(core, "zwlr_layer_surface_v1"),
             Released("zwlr_layer_surface_v1", l))

----------------------------------------------------------------------------
(* Subsurfaces, viewports, fractional scales and decorations check only that  *)
(* the target has none yet: not that it exists, nor that it has no role.      *)

GetSubsurface(id, s, parent) ==
  /\ Request("wl_subcompositor")
  /\ Polite(Has("wl_surface", s) /\ Has("wl_surface", parent) /\ s # parent /\ NoneOn(RoleKinds, s))
  /\ Create("wl_subsurface", id, s, parent, s # parent /\ Unclaimed("wl_subsurface", s))
SetSubsurface(b) == Request("wl_subcompositor") /\ Touch("wl_subsurface", b, TRUE)
DestroySubsurface(b) == Request("wl_subcompositor") /\ Lenient("wl_subsurface", b)

Extend(k, id, of, target) ==
  /\ Polite(Has(target, of) /\ NoneOn({k}, of))
  /\ Create(k, id, of, None, Unclaimed(k, of))

GetViewport(id, s) ==
  Request("wp_viewporter") /\ Extend("wp_viewport", id, s, "wl_surface")
SetViewport(v, positive) ==
  Request("wp_viewporter") /\ Polite(positive) /\ Touch("wp_viewport", v, positive)
DestroyViewport(v) == Request("wp_viewporter") /\ Lenient("wp_viewport", v)

GetFractionalScale(id, s) ==
  /\ Request("wp_fractional_scale_manager_v1")
  /\ Extend("wp_fractional_scale_v1", id, s, "wl_surface")
DestroyFractionalScale(f) ==
  Request("wp_fractional_scale_manager_v1") /\ Lenient("wp_fractional_scale_v1", f)

GetDecoration(id, t) ==
  /\ Request("zxdg_decoration_manager_v1")
  /\ Extend("zxdg_toplevel_decoration_v1", id, t, "xdg_toplevel")
SetDecorationMode(d, known) ==
  /\ Request("zxdg_decoration_manager_v1")
  /\ Polite(known)
  /\ Touch("zxdg_toplevel_decoration_v1", d, known)
DestroyDecoration(d) ==
  Request("zxdg_decoration_manager_v1") /\ Lenient("zxdg_toplevel_decoration_v1", d)
=============================================================================
