------------------------------- MODULE WireInput -------------------------------
(* Seats and what hangs on them: pointers, keyboards, relative pointers,      *)
(* pointer constraints, idle inhibitors, data devices and text input; output  *)
(* configuration and capture; and the physical input waylandd routes to the   *)
(* client.                                                                     *)
EXTENDS WireShell

(* A seat's pointer takes the youngest surface as its focus without telling   *)
(* the client; a row is [of: focus].                                          *)
GetPointer(id) ==
  /\ Request("wl_seat")
  /\ \E f \in (IF Surfaces = {} THEN {None} ELSE Surfaces) :
       /\ Offers(id)
       /\ Respond(Fresh(core, id),
                  [core EXCEPT !.obj[id] = "wl_pointer",
                               !.tab = Put(core, Row("wl_pointer", id, f, None))],
                  mine \cup {Row("wl_pointer", id, None, None)})

GetKeyboard(id) == Request("wl_seat") /\ Create("wl_keyboard", id, None, None, TRUE)

(* wl_pointer.release takes the relative pointers' and the constraints' rows  *)
(* with it; their objects stay.                                               *)
ReleasePointer(p) ==
  LET lost == {r \in core.tab : \/ r.k = "zwp_relative_pointer_v1" /\ r.of = p
                                \/ r.k \in Constraints /\ r.at = p}
      rest == [core EXCEPT
                !.tab = @ \ lost,
                !.pairs = @ \ {<<r.of, r.at>> : r \in {q \in lost : q.k \in Constraints}}]
  IN  /\ Request("wl_seat")
      /\ Destroy("wl_pointer", p, p \in Keys(core, "wl_pointer"), rest)

GetRelativePointer(id, p) ==
  /\ Request("zwp_relative_pointer_manager_v1")
  /\ Polite(Has("wl_pointer", p))
  /\ Create("zwp_relative_pointer_v1", id, p, None, Refers(id, p))
DestroyRelativePointer(r) ==
  Request("zwp_relative_pointer_manager_v1") /\ Strict("zwp_relative_pointer_v1", r)

(* lock_pointer and confine_pointer: a pointer with a row must have the       *)
(* surface as its focus, and the pair must not be constrained already.        *)
Constrain(k, id, s, p) ==
  /\ Request("zwp_pointer_constraints_v1")
  /\ Offers(id)
  /\ Polite(/\ Has("wl_surface", s)
            /\ \E r \in mine : r.k = "entered" /\ r.id = p /\ r.of = s
            /\ \A r \in mine : r.k \in Constraints => ~(r.of = s /\ r.at = p))
  /\ Respond(/\ Fresh(core, id) /\ Refers(id, s) /\ Refers(id, p)
             /\ \A r \in RowsOf(core, "wl_pointer") : r.id = p => r.of = s
             /\ <<s, p>> \notin core.pairs,
             [core EXCEPT !.obj[id] = k, !.tab = Put(core, Row(k, id, s, p)),
                          !.pairs = @ \cup {<<s, p>>}],
             mine \cup {Row(k, id, s, p)})

SetConstraint(k, c) == Request("zwp_pointer_constraints_v1") /\ Touch(k, c, TRUE)

DestroyConstraint(k, c) ==
  LET known == c \in Keys(core, k)
      pair == <<RowOf(k, c).of, RowOf(k, c).at>>
  IN  /\ Request("zwp_pointer_constraints_v1")
      /\ Destroy(k, c, known, IF known THEN [core EXCEPT !.pairs = @ \ {pair}] ELSE core)

(* idle_inhibit: one row per inhibitor, a count per surface and a flag.       *)
CreateInhibitor(id, s) ==
  /\ Request("zwp_idle_inhibit_manager_v1")
  /\ Offers(id) /\ Polite(Has("wl_surface", s))
  /\ Respond(Fresh(core, id) /\ Refers(id, s),
             [core EXCEPT !.obj[id] = "zwp_idle_inhibitor_v1",
                          !.tab = Put(core, Row("zwp_idle_inhibitor_v1", id, s, None)),
                          !.counts[s] = @ + 1, !.inhibited = TRUE],
             mine \cup {Row("zwp_idle_inhibitor_v1", id, s, None)})

Uninhibited(i) ==
  LET s == RowOf("zwp_idle_inhibitor_v1", i).of
  IN  [core EXCEPT !.counts[s] = IF @ = 0 THEN 0 ELSE @ - 1,
                   !.inhibited = \E r \in RowsOf(core, "zwp_idle_inhibitor_v1") : r.id # i]

DestroyInhibitor(i) ==
  LET known == i \in Keys(core, "zwp_idle_inhibitor_v1")
  IN  /\ Request("zwp_idle_inhibit_manager_v1")
      /\ Destroy("zwp_idle_inhibitor_v1", i, known, IF known THEN Uninhibited(i) ELSE core)

----------------------------------------------------------------------------
(* Data devices.  A source that is destroyed is only marked and a device      *)
(* that is released keeps its row.  One seat, whose selection is core.selection. *)

CreateSource(id) ==
  Request("wl_data_device_manager") /\ Create("wl_data_source", id, None, "live", TRUE)

OfferType(x) == Request("wl_data_device_manager") /\ Note("wl_data_source", x)

DestroySource(x) ==
  /\ Request("wl_data_device_manager")
  /\ Names("wl_data_source", x)
  /\ Respond(Is("wl_data_source", x),
             [core EXCEPT !.obj[x] = None,
                !.tab = {IF r.k = "wl_data_source" /\ r.id = x
                         THEN [r EXCEPT !.at = "destroyed"] ELSE r : r \in @}],
             {r \in mine : r.id # x})

GetDataDevice(id) ==
  Request("wl_data_device_manager") /\ Create("wl_data_device", id, None, None, TRUE)

ReleaseDataDevice(d) ==
  /\ Request("wl_data_device_manager")
  /\ Names("wl_data_device", d)
  /\ Respond(Is("wl_data_device", d), [core EXCEPT !.obj[d] = None], {r \in mine : r.id # d})

(* Every device of the seat is sent an offer of the source, which must have a *)
(* row; a drag with a focus does the same for the device that starts it.      *)
SetSelection(d, x) ==
  /\ Request("wl_data_device_manager")
  /\ Names("wl_data_device", d)
  /\ Polite(x # None => Has("wl_data_source", x))
  /\ Respond(/\ Is("wl_data_device", d) /\ d \in Keys(core, "wl_data_device")
             /\ x # None => x \in Keys(core, "wl_data_source"),
             [core EXCEPT !.selection = x], mine)

StartDrag(d, x) ==
  /\ Request("wl_data_device_manager")
  /\ Names("wl_data_device", d)
  /\ Polite(x # None => Has("wl_data_source", x))
  /\ Respond(/\ Is("wl_data_device", d) /\ d \in Keys(core, "wl_data_device")
             /\ (x # None /\ \E r \in RowsOf(core, "wl_pointer") : r.of # None)
                  => x \in Keys(core, "wl_data_source"),
             core, mine)

----------------------------------------------------------------------------
(* Text input and the seat's one input method.                                *)

GetTextInput(id) ==
  Request("zwp_text_input_manager_v3") /\ Create("zwp_text_input_v3", id, None, "disabled", TRUE)
DestroyTextInput(t) ==
  Request("zwp_text_input_manager_v3") /\ Lenient("zwp_text_input_v3", t)

(* enable looks for a keyboard with a focus and goes on without one.          *)
EnableTextInput(t, mode) ==
  /\ Request("zwp_text_input_manager_v3")
  /\ Names("zwp_text_input_v3", t)
  /\ Respond(Is("zwp_text_input_v3", t) /\ t \in Keys(core, "zwp_text_input_v3"),
             [core EXCEPT !.tab = Put(core, Row("zwp_text_input_v3", t, None, mode))], mine)

SetTextState(t) == Request("zwp_text_input_manager_v3") /\ Note("zwp_text_input_v3", t)
CommitText(t) == Request("zwp_text_input_manager_v3") /\ Touch("zwp_text_input_v3", t, TRUE)

GetInputMethod(id) ==
  /\ Request("zwp_input_method_manager_v2")
  /\ Polite(\A r \in mine : r.k # "zwp_input_method_v2")
  /\ Create("zwp_input_method_v2", id, None, None, RowsOf(core, "zwp_input_method_v2") = {})

(* commit_string and its like unwrap the method's row and forward to the      *)
(* seat's text input if it is enabled.                                        *)
InputMethodRequest(i) ==
  Request("zwp_input_method_manager_v2") /\ Touch("zwp_input_method_v2", i, TRUE)

GetInputPopup(id, i, s) ==
  /\ Request("zwp_input_method_manager_v2")
  /\ Names("zwp_input_method_v2", i)
  /\ Polite(Has("wl_surface", s))
  /\ Create("zwp_input_popup_surface_v2", id, s, None, Is("zwp_input_method_v2", i))
DestroyInputPopup(p) ==
  Request("zwp_input_method_manager_v2") /\ Lenient("zwp_input_popup_surface_v2", p)

----------------------------------------------------------------------------
(* Output configuration and capture.  A configuration head is kept in its     *)
(* configuration and goes with it; a capture frame outlives its session.      *)

CreateConfiguration(id) ==
  /\ Request("zwlr_output_manager_v1")
  /\ Create("zwlr_output_configuration_v1", id, None, None, TRUE)
EnableHead(id, c, h) ==
  /\ Request("zwlr_output_manager_v1")
  /\ Names("zwlr_output_configuration_v1", c)
  /\ Polite(\A r \in mine : ~(r.k = "zwlr_output_configuration_head_v1" /\ r.of = c /\ r.at = h))
  /\ Create("zwlr_output_configuration_head_v1", id, c, h,
            /\ Is("zwlr_output_configuration_v1", c)
            /\ c \in Keys(core, "zwlr_output_configuration_v1")
            /\ \A r \in RowsOf(core, "zwlr_output_configuration_head_v1") : ~(r.of = c /\ r.at = h))
ApplyConfiguration(c) ==
  Request("zwlr_output_manager_v1") /\ Touch("zwlr_output_configuration_v1", c, TRUE)
DestroyConfiguration(c) ==
  /\ Request("zwlr_output_manager_v1")
  /\ Destroy("zwlr_output_configuration_v1", c, TRUE,
             [core EXCEPT !.tab = {r \in @ : ~(r.k = "zwlr_output_configuration_head_v1" /\ r.of = c)}])

CaptureOutput(id, positive) ==
  /\ Request("zwlr_screencopy_manager_v1")
  /\ Polite(positive)
  /\ Create("zwlr_screencopy_frame_v1", id, None, None, positive)
CopyFrame(f) == Request("zwlr_screencopy_manager_v1") /\ Touch("zwlr_screencopy_frame_v1", f, TRUE)
DestroyFrame(f) == Request("zwlr_screencopy_manager_v1") /\ Lenient("zwlr_screencopy_frame_v1", f)

CreateSession(id) ==
  /\ Request("ext_image_copy_capture_manager_v1")
  /\ Create("ext_image_copy_capture_session_v1", id, None, None, TRUE)
DestroySession(x) ==
  Request("ext_image_copy_capture_manager_v1") /\ Lenient("ext_image_copy_capture_session_v1", x)
CreateCaptureFrame(id, x) ==
  /\ Request("ext_image_copy_capture_manager_v1")
  /\ Names("ext_image_copy_capture_session_v1", x)
  /\ Create("ext_image_copy_capture_frame_v1", id, x, None,
            Is("ext_image_copy_capture_session_v1", x)
              /\ x \in Keys(core, "ext_image_copy_capture_session_v1"))
CopyCaptureFrame(f) ==
  Request("ext_image_copy_capture_manager_v1") /\ Touch("ext_image_copy_capture_frame_v1", f, TRUE)
DestroyCaptureFrame(f) ==
  Request("ext_image_copy_capture_manager_v1") /\ Lenient("ext_image_copy_capture_frame_v1", f)

----------------------------------------------------------------------------
(* Physical input.  The event is routed to a surface of the canonical scene,  *)
(* which is as old as the client's last commit, and queued for the client's   *)
(* connection loop; that refuses a surface the client has destroyed since.    *)

RouteInput(s) ==
  /\ gone = "no" /\ "wl_seat" \in bound
  /\ s \in core.shown \ core.input
  /\ Cardinality(core.input) < MaxInput
  /\ core' = [core EXCEPT !.input = @ \cup {s}]
  /\ UNCHANGED <<orderly, bound, mine, gone>>

(* Every pointer, or every keyboard, of the client moves to the surface; one  *)
(* that was elsewhere sends enter.                                            *)
DeliverInput(s, dev) ==
  LET moved == {r \in RowsOf(core, dev) : r.of # s}
      told == {r.id : r \in {q \in moved : q.k = "wl_pointer"}}
  IN  /\ gone = "no"
      /\ s \in core.input
      /\ \/ /\ Is("wl_surface", s)
            /\ core' = [core EXCEPT !.input = @ \ {s},
                          !.tab = (@ \ moved) \cup {[r EXCEPT !.of = s] : r \in moved}]
            /\ mine' = Recorded({r \in mine : ~(r.k = "entered" /\ r.id \in told)} \cup
                                {Row("entered", p, s, None) : p \in told})
            /\ UNCHANGED <<orderly, bound, gone>>
         \/ ~Is("wl_surface", s) /\ Dropped("input")
=============================================================================
