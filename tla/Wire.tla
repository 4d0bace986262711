---------------------------------- MODULE Wire ----------------------------------
(* One client's connection to waylandd: every request handler of              *)
(* HeadlessWireCore, the commands of the topology actor, the releases of the  *)
(* connection loop and routed input.                                          *)
EXTENDS WireInput

Init ==
  /\ \E c \in Clients : orderly = c.orderly /\ bound = c.globals
  /\ core = Blank
  /\ mine = {}
  /\ gone = "no"

SurfaceRequests ==
  \E id \in Ids :
    \/ Sync(id) \/ GetRegistry(id) \/ CreateSurface(id) \/ CreateRegion(id)
    \/ DestroySurface(id) \/ Damage(id)
    \/ \E s \in Ids : Frame(id, s) \/ Feedback(id, s)
    \/ \E b \in Ids \cup {None} : Attach(id, b)
    \/ \E seen \in SUBSET core.adv : Commit(id, seen)

ShmRequests ==
  \E id \in Ids :
    \/ \E b \in Ids, size \in 0 .. MaxPool + 1 : CreatePool(id, b, size, TRUE, size)
    \/ \E b \in Ids, size, length \in 1 .. MaxPool : CreatePool(id, b, size, FALSE, length)
    \/ \E p \in Ids, end \in 1 .. MaxPool + 1 : CreateBuffer(id, p, end)
    \/ DestroyPool(id) \/ DestroyBuffer(id)
    \/ \E size \in 1 .. MaxPool + 1 : ResizePool(id, size)

OutputSteps ==
  \/ \E n \in Outputs : RemoveOutput(n)
  \/ \E n \in Outputs, on \in SUBSET Ids : AddOutput(n, on) \/ ReconfigureOutput(n, on)
  \/ \E id \in Ids, n \in Outputs : BindOutput(id, n)
  \/ \E id, o \in Ids : GetXdgOutput(id, o)
  \/ \E x \in Ids : DestroyXdgOutput(x)

ShellRequests ==
  \E id \in Ids :
    \/ DestroyXdgSurface(id) \/ DestroyToplevel(id) \/ CreatePositioner(id)
    \/ SetToplevel(id) \/ SetPositioner(id)
    \/ DestroyPositioner(id) \/ DestroyPopup(id) \/ DestroyLayerSurface(id)
    \/ SetSubsurface(id) \/ DestroySubsurface(id)
    \/ DestroyViewport(id) \/ DestroyFractionalScale(id) \/ DestroyDecoration(id)
    \/ \E of \in Ids :
         \/ GetXdgSurface(id, of) \/ GetToplevel(id, of) \/ GetLayerSurface(id, of)
         \/ GetViewport(id, of) \/ GetFractionalScale(id, of) \/ GetDecoration(id, of)
         \/ \E p \in Ids : GetPopup(id, of, p) \/ GetLayerPopup(id, of, p)
                             \/ GetSubsurface(id, of, p)
    \/ \E valid \in BOOLEAN :
         \/ AckConfigure(id, ~valid) \/ SetWindowGeometry(id, valid)
         \/ SetLayerState(id, valid) \/ SetViewport(id, valid) \/ SetDecorationMode(id, valid)

SeatRequests ==
  \E id \in Ids :
    \/ GetPointer(id) \/ GetKeyboard(id) \/ ReleasePointer(id)
    \/ DestroyRelativePointer(id) \/ DestroyInhibitor(id)
    \/ \E of \in Ids : GetRelativePointer(id, of) \/ CreateInhibitor(id, of)
    \/ \E k \in Constraints :
         \/ SetConstraint(k, id) \/ DestroyConstraint(k, id)
         \/ \E s, p \in Ids : Constrain(k, id, s, p)

DataRequests ==
  \E id \in Ids :
    \/ CreateSource(id) \/ OfferType(id) \/ DestroySource(id) \/ GetDataDevice(id) \/ ReleaseDataDevice(id)
    \/ \E x \in Ids \cup {None} : SetSelection(id, x) \/ StartDrag(id, x)

TextRequests ==
  \E id \in Ids :
    \/ GetTextInput(id) \/ SetTextState(id) \/ CommitText(id) \/ DestroyTextInput(id)
    \/ \E mode \in {"enabled", "disabled"} : EnableTextInput(id, mode)
    \/ GetInputMethod(id) \/ InputMethodRequest(id) \/ DestroyInputPopup(id)
    \/ \E i, s \in Ids : GetInputPopup(id, i, s)

CaptureRequests ==
  \E id \in Ids :
    \/ CreateConfiguration(id) \/ ApplyConfiguration(id) \/ DestroyConfiguration(id)
    \/ \E c, h \in Ids : EnableHead(id, c, h)
    \/ \E positive \in BOOLEAN : CaptureOutput(id, positive)
    \/ CopyFrame(id) \/ DestroyFrame(id)
    \/ CreateSession(id) \/ DestroySession(id)
    \/ CopyCaptureFrame(id) \/ DestroyCaptureFrame(id)
    \/ \E x \in Ids : CreateCaptureFrame(id, x)

LoopSteps ==
  \/ \E r \in core.tab : Present(r)
  \/ \E s \in Ids : RouteInput(s)
  \/ \E s \in Ids, dev \in {"wl_pointer", "wl_keyboard"} : DeliverInput(s, dev)

Next ==
  \/ SurfaceRequests \/ ShmRequests \/ OutputSteps \/ ShellRequests
  \/ SeatRequests \/ DataRequests \/ TextRequests \/ CaptureRequests
  \/ LoopSteps \/ BadRequest

Spec == Init /\ [][Next]_vars

----------------------------------------------------------------------------
(* Rows of these kinds are removed with a surface, a pointer or a             *)
(* configuration while the object itself stays registered.                    *)
Cascaded == Constraints \cup
  {"zwlr_layer_surface_v1", "zwp_relative_pointer_v1", "wp_presentation_feedback",
   "wl_output", "xdg_popup", "zwlr_output_configuration_head_v1"}

(* These keep their rows after the object is gone.                            *)
Lingering == {"wl_data_source", "wl_data_device"}

Exact ==
  {"wl_surface", "wl_region", "wl_shm_pool", "wl_buffer", "zxdg_output_v1", "xdg_surface",
   "xdg_positioner", "wl_subsurface", "wp_viewport", "wp_fractional_scale_v1",
   "zxdg_toplevel_decoration_v1", "wl_pointer", "wl_keyboard", "zwp_idle_inhibitor_v1",
   "zwp_text_input_v3", "zwp_input_method_v2", "zwp_input_popup_surface_v2",
   "zwlr_output_configuration_v1", "zwlr_screencopy_frame_v1",
   "ext_image_copy_capture_session_v1", "ext_image_copy_capture_frame_v1"}

Kinds == Exact \cup Cascaded \cup Lingering \cup
  {"wl_callback", "wl_registry", "xdg_toplevel", "held_callback", "held_feedback", "entered"}

(* An absent object is none of the interfaces and no role.                    *)
ASSUME NoneAssumption == None \notin Kinds \cup {"layer_surface"}

(* Every part of the state has its type.                                      *)
TypeOK ==
  /\ [orderly |-> orderly, globals |-> bound] \in Clients
  /\ gone \in {"no", "request", "release", "input"}
  /\ core.obj \in [Ids -> Kinds \cup {None}]
  /\ \A r \in core.tab \cup mine : r.k \in Kinds /\ r.id \in Ids
  /\ core.role \in [Ids -> {None, "xdg_surface", "layer_surface"}]
  /\ core.pairs \subseteq Ids \X Ids
  /\ core.counts \in [Ids -> 0 .. Cardinality(Ids)]
  /\ core.member \in [Ids -> SUBSET Ids]
  /\ core.selection \in Ids \cup {None}

(* The registry and the managers agree on what exists: an object of an exact  *)
(* kind has one row and a row has its object; a row of a kind that goes with  *)
(* another object still has its own.  This is what the unwraps on a method's  *)
(* or a text input's row and the lookups of strict destructors rely on.       *)
Mirrored ==
  /\ \A k \in Exact : Keys(core, k) = {i \in Ids : core.obj[i] = k}
  /\ \A k \in Cascaded : \A i \in Keys(core, k) : core.obj[i] = k
  /\ \A r, q \in core.tab : r.k = q.k /\ r.id = q.id => r = q
  /\ core.selection # None => core.selection \in Keys(core, "wl_data_source")

(* What the connection loop holds until the frame is presented is still the   *)
(* object it took, and no id is held twice: the done event and delete_id go   *)
(* to the callback the client asked for.                                      *)
HeldIsOwed ==
  \A r \in core.tab :
    /\ r.k = "held_feedback" => core.obj[r.id] = "wp_presentation_feedback"
    /\ r.k \in {"wl_callback", "held_callback"} => core.obj[r.id] = "wl_callback"

(* active_pairs is the set of pairs of the constraints that exist, one each:  *)
(* no pair stays blocked after its constraint is gone, none is doubled.       *)
PairsAgree ==
  LET held == {r \in core.tab : r.k \in Constraints}
  IN  /\ core.pairs = {<<r.of, r.at>> : r \in held}
      /\ \A r, q \in held : <<r.of, r.at>> = <<q.of, q.at>> => r = q

(* The idle flag and the per-surface counts are those of the inhibitors that  *)
(* exist: the screen neither stays on for ever nor sleeps under one.          *)
InhibitAgrees ==
  LET held == RowsOf(core, "zwp_idle_inhibitor_v1")
  IN  /\ core.inhibited = (held # {})
      /\ \A s \in Ids : core.counts[s] = Cardinality({r \in held : r.of = s})

(* A buffer cut from server memory lies inside it whatever pools were resized *)
(* or destroyed since, and the memory of all clients' pools stays in budget.  *)
BufferInside ==
  /\ \A r \in RowsOf(core, "wl_buffer") : r.of \in core.fake => r.at <= core.store[r.of]
  /\ FakeBytes(core) <= MaxTotal

(* A surface that has been committed is a member of wl_output objects that    *)
(* are still bound to advertised outputs, also after hot-unplug.              *)
EnteredIsOffered ==
  \A s \in Surfaces :
    \A o \in core.member[s] :
      core.over[s] # None =>
        \E r \in RowsOf(core, "wl_output") : r.id = o /\ r.of \in core.adv \cap core.over[s]

(* What the managers keep beside the registry is what exists, and what they   *)
(* sum up in tables of their own (pairs, counts, memory, membership) is what  *)
(* their rows say, whatever is destroyed in whatever order and whatever ids   *)
(* are used again (dispatch and the destructors of HeadlessWireCore).         *)
TablesAgree ==
  /\ TypeOK
  /\ Mirrored
  /\ HeldIsOwed
  /\ PairsAgree
  /\ InhibitAgrees
  /\ BufferInside
  /\ EnteredIsOffered

(* A client that follows the protocol is never disconnected for one of its    *)
(* requests, nor by the release of a callback or a feedback.                  *)
OrderlyIsServed == orderly => gone \notin {"request", "release"}

(* For a client that follows the protocol the role a surface is recorded with *)
(* is that of the one role object that refers to it: none outlives it, and    *)
(* none is missing while it lives.                                            *)
RolesAgree ==
  orderly => \A s \in Surfaces :
    /\ (core.role[s] = "xdg_surface") <=> ~Unclaimed("xdg_surface", s)
    /\ (core.role[s] = "layer_surface") <=> ~Unclaimed("zwlr_layer_surface_v1", s)
=============================================================================
