------------------------------ MODULE MCWire ------------------------------
EXTENDS Wire, TLC

CONSTANTS i1, i2, i3

IdsValue == {i1, i2, i3}
Symmetry == Permutations(IdsValue)

(* Each behaviour is of one of these clients.  A client that breaks the     *)
(* rules is explored one family of protocols at a time; one that keeps them *)
(* also where families meet.                                                *)
Families == {
  {"wl_display", "wl_compositor", "wl_compositor.create_region", "wl_surface.damage",
   "wp_presentation"},
  {"wl_compositor", "wl_output", "wp_presentation"},
  {"wl_compositor", "xdg_wm_base", "zwlr_layer_shell_v1"},
  {"wl_compositor", "xdg_wm_base", "wl_subcompositor"},
  {"wl_compositor", "xdg_wm_base", "zxdg_decoration_manager_v1"},
  {"wl_compositor", "wp_viewporter", "zwp_idle_inhibit_manager_v1"},
  {"wl_compositor", "wp_fractional_scale_manager_v1", "zwp_input_method_manager_v2"},
  {"wl_compositor", "wl_seat", "zwp_relative_pointer_manager_v1", "zwp_pointer_constraints_v1"},
  {"wl_seat", "wl_data_device_manager"},
  {"wl_seat", "zwp_text_input_manager_v3", "zwp_input_method_manager_v2"},
  {"zwlr_output_manager_v1", "zwlr_screencopy_manager_v1"},
  {"ext_image_copy_capture_manager_v1"}}

Meetings == {
  {"wl_compositor", "wl_shm", "wl_seat", "zwp_pointer_constraints_v1"},
  {"wl_compositor", "xdg_wm_base", "wp_viewporter", "zwp_idle_inhibit_manager_v1"},
  {"wl_compositor", "xdg_wm_base", "zwlr_layer_shell_v1", "wl_subcompositor"}}

ClientsValue ==
  [orderly : BOOLEAN, globals : Families] \cup [orderly : {TRUE}, globals : Meetings]
    \cup [orderly : {FALSE}, globals : {{"wl_compositor", "wl_shm"}}]
===========================================================================
