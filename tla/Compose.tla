------------------------------ MODULE Compose ------------------------------
(***************************************************************************)
(* What is on the screen: a client of waylandd draws into shared buffers   *)
(* and commits surfaces with the damage it did, waylandd sends the scene   *)
(* with the pixels of every buffer as they are at that moment, displayd    *)
(* recomposes the damaged rectangles of each output and hands the frame to *)
(* the headless backend, which keeps two slots per output                  *)
(* (crates/displayd/src/main.rs, crates/waylandd/src/main.rs).             *)
(* One client: a scene of several clients is not admitted (module Relay).  *)
(* Of the three colour channels, treated alike, red and blue are kept.     *)
(***************************************************************************)
EXTENDS Integers, SequencesExt

CONSTANTS
    None,
    Surfaces,       \* ids of wl_surface objects, in order of creation
    Buffers,        \* shared buffers: [id, w, h, fmt]
    Patterns,       \* what can be in a buffer: pixels by place, None if the pool is too short
    First,          \* what every buffer holds at first
    Requests,       \* what the client can commit: [surface, buf, x, y, damage], the damage
                    \* a set of [x, y, w, h]
    Outputs, Headless,  \* Headless: the output of the backend itself
    Geometries,     \* [x, y, w, h, pitch], pitch = stride / 4
    MaxCoord,       \* i32::MAX
    MaxDamageRects, \* MAX_DAMAGE_RECTS
    MaxCommits, MaxDraws,
    MaxFaults       \* bound: new geometries and restarts of displayd

ASSUME ComposeAssumption ==
    /\ Surfaces \subseteq Nat /\ IsFiniteSet(Surfaces) /\ Headless \in Outputs /\ MaxCoord \in Nat
    /\ Geometries \subseteq [x : Int, y : Int, w : Nat, h : Nat, pitch : Nat]
    /\ \A g \in Geometries : g.w > 0 /\ g.h > 0 /\ g.pitch >= g.w
    /\ MaxDamageRects \in Nat \ {0}
    /\ MaxCommits \in Nat /\ MaxDraws \in Nat /\ MaxFaults \in Nat

Pixel == (0 .. 255) \X (0 .. 255)                  \* red and blue of a pixel of a frame
Colours == [a : 0 .. 255, r : 0 .. 255, b : 0 .. 255]   \* a pixel of a buffer
Contents == Patterns \cup {First}
Formats == {"xrgb", "argb"}
Whole(b) == (0 .. b.w - 1) \X (0 .. b.h - 1)

\* A buffer has an id of its own, and every content reaches all over it.
ASSUME BuffersAssumption ==
    /\ Buffers \subseteq [id : Nat, w : 1 .. MaxCoord, h : 1 .. MaxCoord, fmt : Formats]
    /\ \A b, c \in Buffers : b.id = c.id => b = c
    /\ \A p \in Contents, b \in Buffers : p # None => \A c \in Whole(b) : p[c] \in Colours

Damages == [x : Int, y : Int, w : Int, h : Int]
Currents == [buf : Buffers, x : Int, y : Int, damage : SUBSET Damages]

ASSUME RequestsAssumption ==
    /\ Requests \subseteq [surface : Surfaces, buf : Buffers, x : Int, y : Int, damage : SUBSET Damages]
    /\ \A q \in Requests : IsFiniteSet(q.damage)

\* A surface as it is sent to displayd, a scene, and what displayd keeps of an output.
Sprites == [x : Int, y : Int, z : Nat, w : Nat, h : Nat, fmt : Formats, buffer_generation : Nat,
            damage : SUBSET Damages, px : Contents \cup {None}]
Scenes(ids) == [gen : Nat, surfaces : [ids -> Sprites]]
Rects == [x0 : Int, y0 : Int, x1 : Int, y1 : Int]
framebuffer_words(geo) == geo.pitch * geo.h
Frames(geo) == [0 .. framebuffer_words(geo) - 1 -> Pixel]
Runtimes(geo) == [geo : {geo}, gen : Nat, fb : Frames(geo) \cup {None}, pend : SUBSET Rects]

ASSUME NoneAssumption ==
    /\ None \notin Currents
    /\ \A ids \in SUBSET Surfaces : None \notin Scenes(ids)
    /\ \A geo \in Geometries : None \notin Frames(geo) \cup Runtimes(geo)

VARIABLES
    pix,       \* contents of each buffer
    cur,       \* core.surfaces: current state of each surface, or None
    touched,   \* what the client has drawn over since its last commit of the surface
    canon,     \* CANONICAL_SCENE: generation and surfaces with their pixels
    scene,     \* displayd: last_scene, None before the first one
    resident,  \* displayd: the pixel store holds the payloads of last_scene
    out,       \* displayd: OutputRuntime of each output, or None
    shm,       \* HeadlessShmOutput of each output, or None
    undamaged, \* history: places of a surface that changed and were never damaged
    skipped,   \* history: a commit was replaced before it was sent, or its damage overflows
    budget

vars == <<pix, cur, touched, canon, scene, resident, out, shm, undamaged, skipped, budget>>

-----------------------------------------------------------------------------
(* RendererRect; an optional rectangle is a set of at most one *)

Rect(x0, y0, x1, y1) == [x0 |-> x0, y0 |-> y0, x1 |-> x1, y1 |-> y1]
Cells(r) == (r.x0 .. r.x1 - 1) \X (r.y0 .. r.y1 - 1)
Covered(R) == UNION {Cells(r) : r \in R}

from_origin_size(x, y, w, h) ==
    {r \in {Rect(x, y, x + w, y + h)} :
        w > 0 /\ h > 0 /\ r.x1 <= MaxCoord /\ r.y1 <= MaxCoord}

\* The larger and the smaller of two coordinates.
Hi(a, b) == IF a > b THEN a ELSE b
Lo(a, b) == IF a < b THEN a ELSE b

intersect(R, S) ==
    {t \in {Rect(Hi(r.x0, s.x0), Hi(r.y0, s.y0), Lo(r.x1, s.x1), Lo(r.y1, s.y1)) : r \in R, s \in S} :
        t.x1 > t.x0 /\ t.y1 > t.y0}

bounds(geo) == Rect(geo.x, geo.y, geo.x + geo.w, geo.y + geo.h)
surface_output_bounds(s) == from_origin_size(s.x, s.y, s.w, s.h)

-----------------------------------------------------------------------------
(* Damage *)

\* The damage of a surface that falls on it, in its own coordinates.
LocalDamage(s) ==
    intersect(UNION {from_origin_size(d.x, d.y, d.w, d.h) : d \in s.damage},
              from_origin_size(0, 0, s.w, s.h))

surface_damage_rects(s, area) ==
    LET moved == UNION {from_origin_size(s.x + r.x0, s.y + r.y0, r.x1 - r.x0, r.y1 - r.y0)
                            : r \in LocalDamage(s)}
    IN  intersect(intersect(moved, surface_output_bounds(s)), area)

surface_exposes_or_occupies_different_region(old, new) ==
    \/ <<old.x, old.y, old.z, old.w, old.h>> # <<new.x, new.y, new.z, new.w, new.h>>
    \/ old.buffer_generation # new.buffer_generation

Bounded(R, area) == IF Cardinality(R) > MaxDamageRects THEN {area} ELSE R

effective_damage_rects(previous, surfaces, ready, area) ==
    IF previous = None \/ ~ready THEN {area}
    ELSE LET both == DOMAIN previous \cap DOMAIN surfaces
             changed == {i \in both :
                 surface_exposes_or_occupies_different_region(previous[i], surfaces[i])}
             entered == UNION {surface_output_bounds(surfaces[i])
                                   : i \in changed \cup (DOMAIN surfaces \ both)}
             left == UNION {surface_output_bounds(previous[i])
                                : i \in changed \cup (DOMAIN previous \ both)}
             drawn == UNION {surface_damage_rects(surfaces[i], {area}) : i \in DOMAIN surfaces}
         IN  Bounded(intersect(entered \cup left, {area}) \cup drawn, area)

-----------------------------------------------------------------------------
(* Composition *)

Background == <<0, 0>>             \* BACKGROUND_PIXEL, as <<red, blue>>
fallback_surface_pixel == <<255, 0>>

framebuffer_offset_for_output(geo, c) == (c[2] - geo.y) * geo.pitch + (c[1] - geo.x)

\* The place of the screen that a word of the framebuffer shows.
PlaceOf(geo, i) == <<geo.x + (i % geo.pitch), geo.y + (i \div geo.pitch)>>

div255_rounded(v) == (v + 127) \div 255

compose_source_over(p, dst) ==
    LET channel(c, d) == Lo(c + div255_rounded(d * (255 - p.a)), 255)
    IN  CASE p.a = 0 -> dst
          [] p.a = 255 -> <<p.r, p.b>>
          [] OTHER -> <<channel(p.r, dst[1]), channel(p.b, dst[2])>>

\* source_pixel_offset, decode_source_pixel: the pixel a surface has at place c
\* of the screen.
pixel_for_surface(s, c) ==
    LET p == s.px[<<c[1] - s.x, c[2] - s.y>>]
    IN  IF s.fmt = "xrgb" THEN [p EXCEPT !.a = 255] ELSE p
Premultiplied(p) == p.r <= p.a /\ p.b <= p.a

\* A surface drawn over what is at place c.
copy_surface_rect(s, c, under) ==
    IF s.px = None THEN fallback_surface_pixel ELSE compose_source_over(pixel_for_surface(s, c), under)

\* Back to front: z is the rank of a surface (order_scene_surfaces).
BackToFront(surfaces) ==
    [k \in 1 .. Cardinality(DOMAIN surfaces) |-> CHOOSE i \in DOMAIN surfaces : surfaces[i].z = k - 1]

\* What each word goes through: rectangle after rectangle, the background is restored
\* (fill_framebuffer_rect) and every surface that reaches into it is copied.
compose_damage_rects(fb, geo, surfaces, R) ==
    LET copies(c, r) == FoldLeft(LAMBDA under, i :
            IF c \in Covered(intersect(surface_output_bounds(surfaces[i]), {r}))
            THEN copy_surface_rect(surfaces[i], c, under) ELSE under,
            Background, BackToFront(surfaces))
        rects(c, word) == FoldSet(LAMBDA r, old : IF c \in Cells(r) THEN copies(c, r) ELSE old, word, R)
    IN  [k \in 0 .. framebuffer_words(geo) - 1 |-> rects(PlaceOf(geo, k), fb[k])]

\* validate_surface_pixels_for_damage: the payloads the damage needs are there.
PayloadsFor(surfaces, R) ==
    \A i \in DOMAIN surfaces :
        surfaces[i].px # None /\ intersect(surface_output_bounds(surfaces[i]), R) # {} => resident

\* Every pixel that is composed decodes.
Decodes(surfaces, R) ==
    \A i \in DOMAIN surfaces : LET s == surfaces[i] IN
        s.px # None =>
            \A c \in Covered(intersect(surface_output_bounds(s), R)) : Premultiplied(pixel_for_surface(s, c))
-----------------------------------------------------------------------------
(* The client and waylandd *)

Fits(d) == d.x + d.w <= MaxCoord /\ d.y + d.h <= MaxCoord
Reported(D) == UNION {Cells(Rect(d.x, d.y, d.x + d.w, d.y + d.h)) : d \in D}

Spend(what, max) == budget[what] < max /\ budget' = [budget EXCEPT ![what] = @ + 1]

\* Where two contents of a buffer differ.
Changed(b, p, q) == IF p = q THEN {} ELSE {c \in Whole(b) : p = None \/ q = None \/ p[c] # q[c]}

\* The client draws into a buffer; no wl_buffer.release ever tells it not to.
Draw(b, p) ==
    /\ pix[b] # p /\ Spend("draws", MaxDraws)
    /\ (p # None /\ pix[b] # None => Changed(b, pix[b], p) # {})
    /\ pix' = [pix EXCEPT ![b] = p]
    /\ touched' = [s \in Surfaces |->
           IF cur[s] # None /\ cur[s].buf = b THEN touched[s] \cup Changed(b, pix[b], p) ELSE touched[s]]
    /\ UNCHANGED <<cur, canon, scene, resident, out, shm, undamaged, skipped>>

\* production_scene_surfaces_for_generation, order_scene_surfaces: every surface of
\* the client with the pixels its buffer has now (read_shm_buffer).
Snapshot(state) ==
    LET ids == {s \in Surfaces : state[s] # None}
    IN  [s \in ids |->
            [x |-> state[s].x, y |-> state[s].y, z |-> Cardinality({t \in ids : t < s}),
             w |-> state[s].buf.w, h |-> state[s].buf.h, fmt |-> state[s].buf.fmt,
             buffer_generation |-> state[s].buf.id, damage |-> state[s].damage,
             px |-> pix[state[s].buf]]]

\* wl_surface.attach, damage and commit.  The client reports what it has drawn over.
\* The previous publication may still be unsent: this one replaces it
\* (coalesce_pending_commit).
Commit(q) ==
    /\ canon.gen < MaxCommits
    /\ \/ cur[q.surface] # None /\ cur[q.surface].buf # q.buf
       \/ touched[q.surface] \cap Whole(q.buf) \subseteq Reported(q.damage)
    /\ cur' = [cur EXCEPT ![q.surface] = [buf |-> q.buf, x |-> q.x, y |-> q.y, damage |-> q.damage]]
    /\ touched' = [touched EXCEPT ![q.surface] = {}]
    /\ canon' = [gen |-> canon.gen + 1, surfaces |-> Snapshot(cur')]
    /\ skipped' = (skipped \/ (canon.gen > 0 /\ (scene = None \/ canon.gen # scene.gen))
                           \/ \E d \in q.damage : ~Fits(d))
    /\ UNCHANGED <<pix, scene, resident, out, shm, undamaged, budget>>

\* wl_surface.destroy: the scene keeps the surface until the next commit.  Another
\* surface may get the id; all of it is new to the client.
Destroy(s) ==
    /\ cur[s] # None
    /\ cur' = [cur EXCEPT ![s] = None]
    /\ touched' = [touched EXCEPT ![s] = UNION {Whole(b) : b \in Buffers}]
    /\ UNCHANGED <<pix, canon, scene, resident, out, shm, undamaged, skipped, budget>>

-----------------------------------------------------------------------------
(* displayd *)

Ready(o) == out[o].fb # None    \* framebuffer_is_initialized

Previous == IF scene = None THEN None ELSE scene.surfaces

\* History: what changes under the surfaces and is in no rectangle of this scene.
Unreported(new) ==
    [s \in Surfaces |->
        IF \/ scene = None \/ s \notin DOMAIN new
           \/ s \notin DOMAIN scene.surfaces
           \/ surface_exposes_or_occupies_different_region(scene.surfaces[s], new[s])
        THEN {}
        ELSE (undamaged[s] \cup Changed([w |-> new[s].w, h |-> new[s].h], scene.surfaces[s].px, new[s].px))
             \ Covered(LocalDamage(new[s]))]

\* The damage an output has after the scene: its own and what it still owes.
Owed(o, surfaces) ==
    LET area == bounds(out[o].geo)
        new == IF DOMAIN surfaces = {} /\ scene = None THEN {}
               ELSE effective_damage_rects(Previous, surfaces, Ready(o), area)
    IN  Bounded(new \cup out[o].pend, area)

\* Mutant: the damage an output still owes is replaced by that of the new scene.
MutAccept ==
    /\ canon.gen > 0 /\ (scene # None => canon.gen > scene.gen \/ ~resident)
    /\ out' = [o \in Outputs |-> IF out[o] = None THEN None
               ELSE [out[o] EXCEPT !.pend =
                   effective_damage_rects(Previous, canon.surfaces, Ready(o), bounds(out[o].geo))]]
    /\ undamaged' = Unreported(canon.surfaces)
    /\ scene' = canon /\ resident' = TRUE
    /\ UNCHANGED <<pix, cur, touched, canon, shm, skipped, budget>>

\* handle_scene_acceptance of what waylandd sends, or sends again: a newer scene, or
\* after a restart of displayd the same one, for its pixels.
Accept ==
    /\ canon.gen > 0 /\ (scene # None => canon.gen > scene.gen \/ ~resident)
    /\ out' = [o \in Outputs |-> IF out[o] = None THEN None
               ELSE [out[o] EXCEPT !.pend = Owed(o, canon.surfaces)]]
    /\ undamaged' = Unreported(canon.surfaces)
    /\ scene' = canon /\ resident' = TRUE
    /\ UNCHANGED <<pix, cur, touched, canon, shm, skipped, budget>>

\* publish_atomic and complete_submission: the other slot is written, then shown.
publish_atomic(region, frame) ==
    [region EXCEPT !.slots = [@ EXCEPT ![1 - region.active] = frame],
                   !.active = 1 - @, !.presented = frame]
NewRegion(gen) == [gen |-> gen, active |-> 0, slots |-> [i \in {0, 1} |-> None], presented |-> None]
Region(o) == IF shm[o] = None \/ shm[o].gen # out[o].gen THEN NewRegion(out[o].gen) ELSE shm[o]

\* validate_frame: as many pixels as the output has, so no padding at the end of a line.
Publishable(geo) == framebuffer_words(geo) = geo.w * geo.h

\* The frame an output gets: its framebuffer, recomposed where it owes something.
Composed(o) ==
    LET geo == out[o].geo
        scratch == IF Ready(o) THEN out[o].fb ELSE [i \in 0 .. framebuffer_words(geo) - 1 |-> Background]
    IN  compose_damage_rects(scratch, geo, scene.surfaces, Bounded(out[o].pend, bounds(geo)))

\* The output is there, owes a picture, and there is a scene to take it from.
Due(o) == out[o] # None /\ out[o].pend # {} /\ scene # None

\* advance_presentation and handle_multi_output_commit of one output, when they
\* succeed: a missing payload, a pixel that does not decode or a frame the backend
\* refuses leaves everything as it was.
Tick(o) ==
    /\ Due(o)
    /\ PayloadsFor(scene.surfaces, out[o].pend) /\ Decodes(scene.surfaces, out[o].pend)
    /\ Publishable(out[o].geo)
    /\ \E frame \in {Composed(o)} :
           /\ out' = [out EXCEPT ![o].fb = frame, ![o].pend = {}]
           /\ shm' = [shm EXCEPT ![o] = publish_atomic(Region(o), frame)]
    /\ UNCHANGED <<pix, cur, touched, canon, scene, resident, undamaged, skipped, budget>>

Runtime(geo, gen) == [geo |-> geo, gen |-> gen, fb |-> None, pend |-> {bounds(geo)}]

\* The backend drops the region of an output that changes or goes.
DropRegion(o) == shm' = [shm EXCEPT ![o] = None]

\* ConfigureOutput: a new geometry under a new generation.
ConfigureOutput(o, geo) ==
    /\ o # Headless /\ Spend("faults", MaxFaults)
    /\ out' = [out EXCEPT ![o] = Runtime(geo, budget'.faults + 1)]
    /\ DropRegion(o)
    /\ UNCHANGED <<pix, cur, touched, canon, scene, resident, undamaged, skipped>>

\* Mutant: the backend keeps the region.
MutRemoveOutput(o) ==
    /\ o # Headless /\ out[o] # None
    /\ out' = [out EXCEPT ![o] = None]
    /\ UNCHANGED <<pix, cur, touched, canon, scene, resident, shm, undamaged, skipped, budget>>

\* RemoveOutput.
RemoveOutput(o) ==
    /\ o # Headless /\ out[o] # None
    /\ out' = [out EXCEPT ![o] = None] /\ DropRegion(o)
    /\ UNCHANGED <<pix, cur, touched, canon, scene, resident, undamaged, skipped, budget>>

\* displayd starts again: the scene is loaded, its pixels are not, and the backend
\* reports its own output.
Restart ==
    /\ Spend("faults", MaxFaults)
    /\ resident' = (scene = None)
    /\ \E g \in Geometries : Publishable(g) /\ out' = [o \in Outputs |-> IF o = Headless THEN Runtime(g, 1) ELSE None]
    /\ shm' = [o \in Outputs |-> None]
    /\ UNCHANGED <<pix, cur, touched, canon, scene, undamaged, skipped>>

Init ==
    /\ pix = [b \in Buffers |-> First]
    /\ cur = [s \in Surfaces |-> None] /\ touched = [s \in Surfaces |-> {}]
    /\ canon = [gen |-> 0, surfaces |-> <<>>]
    /\ scene = None /\ resident = TRUE
    /\ \E g \in Geometries : Publishable(g) /\ out = [o \in Outputs |-> IF o = Headless THEN Runtime(g, 1) ELSE None]
    /\ shm = [o \in Outputs |-> None]
    /\ undamaged = [s \in Surfaces |-> {}] /\ skipped = FALSE
    /\ budget = [draws |-> 0, faults |-> 0]

Next ==
    \/ \E b \in Buffers, p \in Patterns : Draw(b, p)
    \/ \E q \in Requests : Commit(q)
    \/ \E s \in Surfaces : Destroy(s)
    \/ Accept
    \/ \E o \in Outputs : Tick(o) \/ RemoveOutput(o)
    \/ \E o \in Outputs, g \in Geometries : ConfigureOutput(o, g)
    \/ Restart

Spec == Init /\ [][Next]_vars

-----------------------------------------------------------------------------
(* Properties *)

Placed == {s \in Surfaces : scene # None /\ s \in DOMAIN scene.surfaces}

\* Every rectangle an output owes lies on it, every pixel of every frame is a colour,
\* and a surface of the scene was committed under its own generation.
TypeOK ==
    /\ \A o \in Outputs : out[o] # None =>
           /\ \A r \in out[o].pend : r.x0 < r.x1 /\ r.y0 < r.y1 /\ Cells(r) \subseteq Cells(bounds(out[o].geo))
           /\ Cardinality(out[o].pend) <= MaxDamageRects
           /\ Ready(o) => out[o].fb \in Frames(out[o].geo)
    /\ scene # None => scene.gen \in 1 .. canon.gen
    /\ \A s \in Surfaces : undamaged[s] \subseteq UNION {Whole(b) : b \in Buffers}

\* What the scene looks like at a place: all its surfaces over the background,
\* without any rectangles.
Look(surfaces, c) ==
    FoldLeft(LAMBDA under, i :
        LET s == surfaces[i]
        IN  IF c \notin Covered(surface_output_bounds(s)) THEN under
            ELSE IF s.px = None THEN fallback_surface_pixel
            ELSE compose_source_over(pixel_for_surface(s, c), under),
        Background, BackToFront(surfaces))

\* Outside what an output still owes, its framebuffer is the whole scene composed
\* anew, whatever moved, was uncovered, overlapped or was clipped on the way there;
\* only where a client changed pixels that no damage reached displayd for, it may
\* show what was there before (effective_damage_rects, compose_damage_rects).
OutsideDamageIsCurrent ==
    scene # None =>
    \A o \in Outputs : out[o] # None =>
        LET stale == UNION {{<<scene.surfaces[s].x + c[1], scene.surfaces[s].y + c[2]>> : c \in undamaged[s]} : s \in Placed}
        IN  \A c \in Cells(bounds(out[o].geo)) \ (Covered(out[o].pend) \cup stale) :
                Ready(o) /\ out[o].fb[framebuffer_offset_for_output(out[o].geo, c)] = Look(scene.surfaces, c)

\* When displayd has the last commit of a client that reports what it draws, and no
\* earlier commit was given up for it, nothing on the screen is left stale: reading
\* all buffers at every commit never shows half of a drawing for good.
ReportedIsShown ==
    scene # None /\ canon.gen = scene.gen /\ ~skipped =>
        \A s \in Placed : cur[s] # None /\ touched[s] = {} => undamaged[s] = {}

\* What the outputs show is the scene, but for what is owed or was never reported,
\* drawn within the rectangles and colours of the outputs (handle_scene_acceptance,
\* handle_multi_output_commit).
ScreenIsCurrent == TypeOK /\ OutsideDamageIsCurrent /\ ReportedIsShown

\* What a capture returns is what the runtime composed last, and the slot that is
\* shown holds that frame (capture_published, complete_presentation).
CaptureIsShown ==
    \A o \in Outputs : shm[o] # None =>
        /\ out[o] # None /\ shm[o].gen = out[o].gen
        /\ shm[o].presented = out[o].fb /\ shm[o].slots[shm[o].active] = shm[o].presented

=============================================================================
