----------------------------- MODULE WireSurface -----------------------------
(* Surfaces, shared-memory buffers, outputs, frame callbacks and            *)
(* presentation feedback of one client, with the steps waylandd's           *)
(* connection loop takes on them after a request.                           *)
EXTENDS WireCore, Functions

Surfaces == {s \in Ids : Is("wl_surface", s)}

(* handle_sync registers the callback, answers it and destroys it.          *)
Sync(id) ==
  /\ Request("wl_display")
  /\ Offers(id)
  /\ Respond(Fresh(core, id), core, mine)

GetRegistry(id) ==
  Request("wl_display") /\ Plain("wl_registry", id, None, TRUE)

CreateSurface(id) ==
  /\ Request("wl_compositor")
  /\ Polite(Cardinality(Surfaces) < MaxSurfaces)
  /\ Create("wl_surface", id, None, None, Cardinality(Surfaces) < MaxSurfaces)

CreateRegion(id) ==
  /\ Request("wl_compositor.create_region")
  /\ Polite(Cardinality(Keys(core, "wl_region")) < MaxRegions)
  /\ Create("wl_region", id, None, None,
            Cardinality(Keys(core, "wl_region")) < MaxRegions)

(* wl_surface.destroy.  Callbacks and inhibitors of the surface are         *)
(* destroyed with it, layer surfaces and pointer constraints only lose      *)
(* their rows, and so do feedbacks the core still has; those the loop       *)
(* already holds are discarded and freed.  Rows of xdg_shell, viewports,    *)
(* scales and subsurfaces, the output membership and the focus stay.        *)
Constraints == {"zwp_locked_pointer_v1", "zwp_confined_pointer_v1"}
ClearedWithSurface == Constraints \cup
  {"wl_callback", "zwp_idle_inhibitor_v1", "zwlr_layer_surface_v1",
   "wp_presentation_feedback", "held_callback", "held_feedback"}
FreedWithSurface == {"wl_callback", "zwp_idle_inhibitor_v1", "held_feedback"}

AfterSurface(s) ==
  LET lost == {r \in core.tab : r.k \in ClearedWithSurface /\ r.of = s}
      freed == {r.id : r \in {q \in lost : q.k \in FreedWithSurface}}
      rest == [core EXCEPT !.tab = {r \in @ \ lost : r.id # s \/ r.k # "wl_surface"}]
  IN  [rest EXCEPT
        !.obj = Free(core, freed \cup {s}),
        !.pairs = @ \ {<<r.of, r.at>> : r \in {q \in lost : q.k \in Constraints}},
        !.counts[s] = 0,
        !.inhibited = RowsOf(rest, "zwp_idle_inhibitor_v1") # {},
        !.role[s] = None,
        !.pending[s] = None, !.current[s] = None,
        !.damage[s] = 0, !.over[s] = None]

DestroySurface(s) ==
  /\ Request("wl_compositor")
  /\ Names("wl_surface", s)
  /\ Polite(Unreferenced(s))
  /\ LET freed == {r.id : r \in {q \in core.tab : q.k \in FreedWithSurface /\ q.of = s}}
     IN  Respond(Is("wl_surface", s) /\ \A i \in freed : Live(core, i), AfterSurface(s),
                 {r \in mine : r.id \notin freed \cup {s} /\ ~(r.k = "entered" /\ r.of = s)})

Attach(s, b) ==
  /\ Request("wl_shm")
  /\ Names("wl_surface", s)
  /\ Polite(b # None => Has("wl_buffer", b))
  /\ Respond(Is("wl_surface", s)
               /\ (b # None => Is("wl_buffer", b) /\ b \in Keys(core, "wl_buffer")),
             [core EXCEPT !.pending[s] = b], mine)

Total(f, S) == FoldFunctionOnSet(+, 0, f, S)

Damage(s) ==
  /\ Request("wl_surface.damage")
  /\ Names("wl_surface", s)
  /\ Polite(Total(core.damage, Ids) < MaxDamage)
  /\ Respond(Total(core.damage, Ids) < MaxDamage, [core EXCEPT !.damage[s] = @ + 1], mine)

Frame(id, s) ==
  /\ Request("wp_presentation")
  /\ Names("wl_surface", s)
  /\ Polite(Cardinality(Keys(core, "wl_callback")) < MaxCallbacks)
  /\ Create("wl_callback", id, s, None,
            Is("wl_surface", s) /\ Cardinality(Keys(core, "wl_callback")) < MaxCallbacks)

(* handle_surface_commit with deferred callbacks and feedback, and what the *)
(* connection loop does next: it publishes the client's surfaces and takes  *)
(* over the callbacks and the feedbacks of this one.  A feedback of a       *)
(* surface on no output is discarded and freed at once.                     *)
Inside(c, s) ==
  {r.id : r \in {q \in RowsOf(c, "wl_output") : q.of \in c.over[s]}}

Held(r) == CASE r.k = "wl_callback" -> [r EXCEPT !.k = "held_callback"]
             [] r.k = "wp_presentation_feedback" -> [r EXCEPT !.k = "held_feedback"]

Committed(s, seen) ==
  LET taken == {r \in core.tab : r.k \in Owned /\ r.of = s}
      lost == {r \in taken : r.k = "wp_presentation_feedback" /\ seen = {}}
      placed == [core EXCEPT !.over[s] = seen]
  IN  [placed EXCEPT
        !.obj = Free(core, {r.id : r \in lost}),
        !.tab = (@ \ taken) \cup {Held(r) : r \in taken \ lost},
        !.current[s] = core.pending[s],
        !.damage[s] = 0,
        !.member[s] = Inside(placed, s),
        !.shown = {x \in Surfaces : (IF x = s THEN core.pending[s] ELSE core.current[x])
                                       \in Keys(core, "wl_buffer")}]

Commit(s, seen) ==
  /\ Request("wl_compositor")
  /\ Names("wl_surface", s)
  /\ LET next == Committed(s, seen)
         lost == {i \in Ids : core.obj[i] # None /\ next.obj[i] = None}
     IN  Respond(Is("wl_surface", s), next, {r \in mine : r.id \notin lost})

Feedback(id, s) ==
  /\ Request("wp_presentation")
  /\ Polite(Has("wl_surface", s))
  /\ Create("wp_presentation_feedback", id, s, None, TRUE)

(* release_presented_callbacks and release_presentation_feedbacks: the      *)
(* event, then write_delete_id, which fails if the object is not live.      *)
Present(r) ==
  /\ gone = "no"
  /\ r.k \in {"held_callback", "held_feedback"}
  /\ \/ /\ Live(core, r.id)
        /\ core' = [core EXCEPT !.obj[r.id] = None, !.tab = @ \ {r}]
        /\ mine' = {q \in mine : q.id # r.id}
        /\ UNCHANGED <<orderly, bound, gone>>
     \/ ~Live(core, r.id) /\ Dropped("release")

----------------------------------------------------------------------------
(* Shared memory.  A pool and the buffers cut from it share a backing that  *)
(* lives as long as one of them; a pool's row is [of: backing, at: size], a *)
(* buffer's [of: backing, at: the end of its range].  A backing is memory   *)
(* of the server (fake) or a received descriptor of some length.            *)

Backings(c) == {r.of : r \in RowsOf(c, "wl_shm_pool") \cup RowsOf(c, "wl_buffer")}
FakeBytes(c) == Total(c.store, Backings(c) \cap c.fake)

CreatePool(id, b, size, fake, length) ==
  /\ Request("wl_shm")
  /\ b \notin Backings(core) /\ (b = id \/ id \in Backings(core))  \* a name for it
  /\ Offers(id) /\ Polite(~fake /\ 0 < size /\ length = MaxPool)
  /\ Respond(/\ Fresh(core, id)
             /\ size > 0
             /\ id \notin Keys(core, "wl_shm_pool")
             /\ fake => size <= MaxPool /\ FakeBytes(core) + size <= MaxTotal,
             [core EXCEPT !.obj[id] = "wl_shm_pool",
                          !.tab = Put(core, Row("wl_shm_pool", id, b, size)),
                          !.store[b] = IF fake THEN size ELSE length,
                          !.fake = IF fake THEN @ \cup {b} ELSE @ \ {b}],
             mine \cup {Row("wl_shm_pool", id, None, size)})

PoolRow(p) == CHOOSE r \in RowsOf(core, "wl_shm_pool") : r.id = p

CreateBuffer(id, p, end) ==
  /\ Request("wl_shm")
  /\ Names("wl_shm_pool", p)
  /\ Offers(id) /\ Polite(\E r \in mine : r.id = p /\ end <= r.at)
  /\ Respond(/\ Is("wl_shm_pool", p) /\ p \in Keys(core, "wl_shm_pool")
             /\ Fresh(core, id)
             /\ id \notin Keys(core, "wl_buffer")
             /\ end <= PoolRow(p).at,
             [core EXCEPT !.obj[id] = "wl_buffer",
                          !.tab = Put(core, Row("wl_buffer", id, PoolRow(p).of, end))],
             mine \cup {Row("wl_buffer", id, None, end)})

(* Backings are reference counted: the last holder frees the memory.        *)
Collected(c, k, id) ==
  LET left == Backings([c EXCEPT !.tab = Without(c, k, id)])
  IN  [c EXCEPT !.store = [b \in Ids |-> IF b \in left THEN @[b] ELSE 0], !.fake = @ \cap left]

DropShm(k, id) ==
  Request("wl_shm") /\ Destroy(k, id, id \in Keys(core, k), Collected(core, k, id))

DestroyPool(p) == DropShm("wl_shm_pool", p)
DestroyBuffer(b) == DropShm("wl_buffer", b)

(* resize_pool only grows; fake memory grows with it, a descriptor must     *)
(* already be long enough.                                                  *)
ResizePool(p, size) ==
  /\ Request("wl_shm")
  /\ Names("wl_shm_pool", p)
  /\ LET r == PoolRow(p)
         b == r.of
     IN  /\ Polite(size > r.at /\ b \notin core.fake /\ size <= core.store[b] /\ size <= MaxPool)
         /\ Respond(/\ Is("wl_shm_pool", p) /\ p \in Keys(core, "wl_shm_pool")
                    /\ size > r.at
                    /\ size <= MaxPool
                    /\ IF b \in core.fake
                       THEN FakeBytes(core) - r.at + size <= MaxTotal
                       ELSE size <= core.store[b],
                    [core EXCEPT !.tab = Put(core, [r EXCEPT !.at = size]),
                                 !.store[b] = IF b \in core.fake THEN size ELSE @],
                    {IF q.k = "wl_shm_pool" /\ q.id = p THEN [q EXCEPT !.at = size] ELSE q
                       : q \in mine})

----------------------------------------------------------------------------
(* Outputs: the commands of waylandd's topology actor, wl_output bindings   *)
(* and the surfaces' membership in them.                                    *)

Remember(c) ==
  [c EXCEPT !.member = [s \in Ids |-> IF c.obj[s] = "wl_surface" /\ c.over[s] # None
                                       THEN Inside(c, s)
                                       ELSE IF c.obj[s] = "wl_surface" THEN {} ELSE @[s]]]

(* An output lies over the surfaces in on, as far as they are committed.    *)
Placed(c, n, on) ==
  [s \in Ids |-> IF c.over[s] = None THEN None
                 ELSE IF s \in on THEN c.over[s] \cup {n} ELSE c.over[s] \ {n}]

AddOutput(n, on) ==
  /\ gone = "no" /\ "wl_output" \in bound
  /\ n \notin core.adv
  /\ on \subseteq Surfaces
  /\ core' = [core EXCEPT !.adv = @ \cup {n}, !.over = Placed(core, n, on)]
  /\ UNCHANGED <<orderly, bound, mine, gone>>

BindOutput(id, n) ==
  /\ Request("wl_output")
  /\ Polite(n \in core.adv)
  /\ Create("wl_output", id, n, None, n \in core.adv)

(* remove_topology_output drops the rows of every binding; the objects stay *)
(* in the registry.                                                         *)
RemoveOutput(n) ==
  /\ gone = "no" /\ n \in core.adv
  /\ core' = Remember([core EXCEPT
                !.adv = @ \ {n},
                !.over = Placed(core, n, {}),
                !.tab = {r \in @ : ~(r.k = "wl_output" /\ r.of = n)}])
  /\ UNCHANGED <<orderly, bound, mine, gone>>

(* reconfigure_topology_output moves an output over or away from surfaces.  *)
ReconfigureOutput(n, on) ==
  /\ gone = "no" /\ n \in core.adv
  /\ on \subseteq Surfaces
  /\ core' = Remember([core EXCEPT !.over = Placed(core, n, on)])
  /\ UNCHANGED <<orderly, bound, mine, gone>>

GetXdgOutput(id, o) ==
  /\ Request("wl_output")
  /\ Polite(Has("wl_output", o) /\ NoneOn({"zxdg_output_v1"}, o) /\ o \in Keys(core, "wl_output"))
  /\ Create("zxdg_output_v1", id, o, None,
            /\ \A r \in RowsOf(core, "zxdg_output_v1") : r.of # o
            /\ o \in Keys(core, "wl_output"))

DestroyXdgOutput(x) == Request("wl_output") /\ Lenient("zxdg_output_v1", x)
=============================================================================
