------------------------------- MODULE Relay -------------------------------
(***************************************************************************)
(* Publication of the scene (crates/waylandd/src/main.rs, crates/compd and *)
(* what displayd does with it): each client of waylandd has a thread that  *)
(* changes the canonical scene and publishes it, one publication at a      *)
(* time, through compd, which serves one request after the other and       *)
(* forwards it to displayd.  Every hop may time out after the request has  *)
(* taken effect, and every process may be started again.                   *)
(***************************************************************************)
EXTENDS Naturals, SequencesExt

CONSTANTS
    Clients, None,
    Epochs,        \* the scene epochs a waylandd can come up with
    MaxCallbacks,  \* MAX_PENDING_FRAME_CALLBACKS
    MaxGen,        \* bound: generations of the scene
    MaxFaults      \* bound: restarts and failed calls

ASSUME RelayAssumption ==
    /\ None \notin Clients \cup {"committed", "presented", "rejected", "lost"}
    /\ Epochs \subseteq Nat \ {0} /\ Epochs # {}
    /\ MaxCallbacks \in Nat \ {0} /\ MaxGen \in Nat /\ MaxFaults \in Nat

VARIABLES
    epoch,    \* generate_scene_epoch of the running waylandd
    spent,    \* epochs used so far
    scene,    \* CANONICAL_SCENE: generation, pending (0: none), last_presented_generation,
              \* last_presentation (is there one)
    part,     \* CANONICAL_SCENE.clients: None, 0 (no pixels) or the handles' generation
    permit,   \* SCENE_COMMIT_GATE
    cl,       \* the thread of each client
    compd,    \* CompdRelayState and the connections it has not served
    disp,     \* displayd: accepting, version floor, accepted and presented version
    faults,
    told      \* history: generations each client was told to be on the screen

vars == <<epoch, spent, scene, part, permit, cl, compd, disp, faults, told>>

Unversioned == <<0, 0>>
Older(v, w) == v[1] < w[1] \/ (v[1] = w[1] /\ v[2] < w[2])

Fault == faults < MaxFaults /\ faults' = faults + 1

NewClient ==
    [pc |-> "off", why |-> "none", own |-> 0, pub |-> 0, stamps |-> {},
     seen |-> 0, wants |-> {}, ans |-> None]
EmptyScene == [gen |-> 0, pending |-> 0, presented |-> 0, event |-> FALSE]
EmptyRelay == [floor |-> Unversioned, pending |-> None, q |-> <<>>]

Become(c, r) == cl' = [cl EXCEPT ![c] = r]

-----------------------------------------------------------------------------
(* The thread of a client: handle_production_client *)

Connect(c) ==
    /\ cl[c].pc = "off"
    /\ Become(c, [NewClient EXCEPT !.pc = "idle"])
    /\ UNCHANGED <<epoch, spent, scene, part, permit, compd, disp, faults, told>>

Wants(g, first) == {[gen |-> g, first |-> first, kind |-> k] : k \in {"frame", "feedback"}}
Frames(W) == {w \in W : w.kind = "frame"}

\* wl_surface.commit with a frame callback and a presentation feedback, of a
\* surface that reaches the first output or not, with pixels or not: the scene
\* gets a new generation, and the handles of this client alone get it too
\* (upsert_client_scene, PendingFrameCallbacks.register).
Commit(c, first, pixels) ==
    LET g == scene.gen + 1
        W == cl[c].wants \cup Wants(g, first)
    IN  /\ cl[c].pc = "idle" /\ g <= MaxGen
        /\ scene' = [scene EXCEPT !.gen = g]
        /\ part' = [part EXCEPT ![c] = IF pixels THEN g ELSE 0]
        /\ IF Cardinality(Frames(cl[c].wants)) >= MaxCallbacks
           THEN Become(c, [cl[c] EXCEPT !.pc = "dying", !.wants = {}])
           ELSE Become(c, [cl[c] EXCEPT !.pc = "want", !.why = "commit", !.own = g, !.wants = W])
        /\ UNCHANGED <<epoch, spent, permit, compd, disp, faults, told>>

\* wl_surface.destroy: the callbacks go, the scene keeps the surface.
DestroySurface(c) ==
    /\ cl[c].pc = "idle" /\ cl[c].wants # {}
    /\ Become(c, [cl[c] EXCEPT !.wants = {}])
    /\ UNCHANGED <<epoch, spent, scene, part, permit, compd, disp, faults, told>>

\* retry_pending_canonical_scene, at its deadline.
Retry(c) ==
    /\ cl[c].pc = "idle" /\ scene.pending # 0
    /\ Become(c, [cl[c] EXCEPT !.pc = "want", !.why = "retry"])
    /\ UNCHANGED <<epoch, spent, scene, part, permit, compd, disp, faults, told>>

\* Mutant: what is released is what the scene has, not what was presented.
MutReleased(W, g) == {w \in W : w.kind = "frame" => w.first}

\* release_for_presented and resolve_for_presented: frames up to g, the feedback
\* of g itself; an earlier feedback is discarded.
Released(W, g) ==
    {w \in W : IF w.kind = "frame" THEN w.gen <= g /\ w.first
               ELSE w.gen < g \/ (w.gen = g /\ w.first)}
Presents(w, g) == w.kind = "frame" \/ w.gen = g
Notify(c, r, g) ==
    LET R == Released(r.wants, g)
    IN  /\ Become(c, [r EXCEPT !.wants = @ \ R])
        /\ told' = [told EXCEPT ![c] = @ \cup {w.gen : w \in {x \in R : Presents(x, g)}}]

\* shared_presentation_since: another thread has published.
Observe(c) ==
    /\ cl[c].pc = "idle" /\ scene.presented > cl[c].seen
    /\ Notify(c, [cl[c] EXCEPT !.seen = scene.presented], scene.presented)
    /\ UNCHANGED <<epoch, spent, scene, part, permit, compd, disp, faults>>

\* The end of the thread: ClientRegistryGuard.finalize takes the client out of the
\* scene and publishes what is left.
Leave(c) ==
    /\ cl[c].pc \in {"idle", "dying"}
    /\ part' = [part EXCEPT ![c] = None]
    /\ scene' = IF part[c] = None THEN scene ELSE [scene EXCEPT !.gen = @ + 1]
    /\ Become(c, [NewClient EXCEPT !.pc = "want", !.why = "leave"])
    /\ UNCHANGED <<epoch, spent, permit, compd, disp, faults, told>>

-----------------------------------------------------------------------------
(* commit_canonical_scene *)

\* What becomes of the thread when the publication has succeeded up to g.
Return(c, g) ==
    CASE cl[c].why = "leave" -> Become(c, NewClient) /\ UNCHANGED told
      [] cl[c].why = "commit" ->
             Notify(c, [cl[c] EXCEPT !.pc = "idle", !.seen = cl[c].own, !.ans = None], cl[c].own)
      [] OTHER ->
             Notify(c, [cl[c] EXCEPT !.pc = "idle", !.seen = IF @ > g THEN @ ELSE g, !.ans = None], g)

Current == scene.event /\ scene.presented >= scene.gen
Superseded == scene.pending < scene.gen

\* The permit is free and the scene was presented already.
UseCached(c) ==
    /\ cl[c].pc = "want" /\ permit = None
    /\ scene.pending = 0 \/ Superseded
    /\ Current
    /\ scene' = [scene EXCEPT !.pending = 0]
    /\ Return(c, scene.presented)
    /\ UNCHANGED <<epoch, spent, part, permit, compd, disp, faults>>

Stamps == {part[d] : d \in {x \in Clients : part[x] # None}} \ {0}

\* The permit is taken, and under the lock the scene to publish with its handles; a pending one is the same
\* generation, or older and dropped.
Acquire(c) ==
    /\ cl[c].pc = "want" /\ permit = None
    /\ ~(Current /\ (scene.pending = 0 \/ Superseded))
    /\ permit' = c
    /\ scene' = [scene EXCEPT !.pending = IF Superseded THEN 0 ELSE @]
    /\ Become(c, [cl[c] EXCEPT !.pc = "send", !.pub = scene.gen, !.stamps = Stamps])
    /\ UNCHANGED <<epoch, spent, part, compd, disp, faults, told>>

\* An unversioned scene is the one of a waylandd that never had a surface.
Version(c) == IF cl[c].pub = 0 THEN Unversioned ELSE <<epoch, cl[c].pub>>

Request(kind, c) ==
    [kind |-> kind, from |-> c, ver |-> Version(c), stamps |-> IF kind = "commit" THEN cl[c].stamps ELSE {}]

\* commit_production_scene: the scene, then the question whether it was presented.
Send(c) ==
    /\ cl[c].pc \in {"send", "ask"}
    /\ compd' = [compd EXCEPT !.q = Append(@, Request(IF cl[c].pc = "send" THEN "commit" ELSE "feedback", c))]
    /\ Become(c, [cl[c] EXCEPT !.pc = IF @ = "send" THEN "wait" ELSE "await", !.ans = None])
    /\ UNCHANGED <<epoch, spent, scene, part, permit, disp, faults, told>>

\* Mutant: an accepted scene is taken for a presented one.
MutCommitted(c) ==
    /\ cl[c].pc = "wait" /\ cl[c].ans = "committed"
    /\ scene' = [scene EXCEPT !.pending = 0, !.presented = cl[c].pub, !.event = TRUE]
    /\ permit' = None
    /\ Return(c, cl[c].pub)
    /\ UNCHANGED <<epoch, spent, part, compd, disp, faults>>

Committed(c) ==
    /\ cl[c].pc = "wait" /\ cl[c].ans = "committed"
    /\ Become(c, [cl[c] EXCEPT !.pc = "ask"])
    /\ UNCHANGED <<epoch, spent, scene, part, permit, compd, disp, faults, told>>

Succeed(c) ==
    LET g == cl[c].pub
        p == IF g >= scene.presented THEN g ELSE scene.presented
    IN  /\ cl[c].pc = "await" /\ cl[c].ans = "presented"
        /\ scene' = [scene EXCEPT !.pending = IF @ <= g THEN 0 ELSE @, !.presented = p, !.event = TRUE]
        /\ permit' = None
        /\ Return(c, p)
        /\ UNCHANGED <<epoch, spent, part, compd, disp, faults>>

\* Mutant: a failed publication is not kept for a retry.
MutStored(g) == scene

should_store_pending_commit(g) == g >= scene.gen /\ g >= scene.pending
Stored(g) == IF should_store_pending_commit(g) THEN [scene EXCEPT !.pending = g] ELSE scene

\* The connection fails or times out: the request may be served all the same, its
\* answer finds nobody.
Orphaned(q, c) == [i \in DOMAIN q |-> IF q[i].from = c THEN [q[i] EXCEPT !.from = None] ELSE q[i]]
Fails(c) ==
    /\ scene' = Stored(cl[c].pub)
    /\ permit' = None
    /\ Become(c, IF cl[c].why = "leave" THEN NewClient
                 ELSE [cl[c] EXCEPT !.pc = "idle", !.ans = None])
TimeOut(c) ==
    /\ cl[c].pc \in {"send", "wait", "ask", "await"} /\ Fault
    /\ Fails(c)
    /\ compd' = [compd EXCEPT !.q = Orphaned(@, c)]
    /\ UNCHANGED <<epoch, spent, part, disp, told>>

\* Every Rejected is fatal for the client.
Rejected(c) ==
    /\ cl[c].pc \in {"wait", "await"} /\ cl[c].ans = "rejected"
    /\ permit' = None
    /\ Become(c, IF cl[c].why = "leave" THEN NewClient ELSE [cl[c] EXCEPT !.pc = "dying", !.ans = None])
    /\ UNCHANGED <<epoch, spent, scene, part, compd, disp, faults, told>>

-----------------------------------------------------------------------------
(* displayd *)

scene_version_is_stale(v) == v # Unversioned /\ Older(v, disp.floor)
Accepted(v) ==
    [disp EXCEPT !.shown = v, !.floor = IF v = Unversioned THEN @ ELSE v]

\* A restart: the floor is the version of the snapshot on disk.
DisplayDown ==
    /\ disp.up /\ Fault
    /\ disp' = [disp EXCEPT !.up = FALSE]
    /\ UNCHANGED <<epoch, spent, scene, part, permit, cl, compd, told>>
DisplayUp ==
    /\ ~disp.up
    /\ disp' = [disp EXCEPT !.up = TRUE, !.floor = disp.shown]
    /\ UNCHANGED <<epoch, spent, scene, part, permit, cl, compd, faults, told>>

-----------------------------------------------------------------------------
(* compd: handle_client and forward_display_command *)

\* validate_relay_scene: a handle of another generation.
Malformed(r) == \E s \in r.stamps : s # r.ver[2]

version_floor ==
    IF compd.pending # None /\ Older(compd.floor, compd.pending) THEN compd.pending ELSE compd.floor

should_reject_version(v) ==
    /\ version_floor # Unversioned
    /\ \/ v = Unversioned
       \/ Older(v, version_floor)
       \/ v = version_floor /\ compd.pending # v

note_forwarded(v) ==
    [floor |-> IF v # Unversioned /\ ~Older(v, compd.floor) THEN v ELSE compd.floor,
     pending |-> IF compd.pending # None /\ ~Older(v, compd.pending) THEN None ELSE compd.pending,
     q |-> Tail(compd.q)]
defer_latest(v) ==
    [compd EXCEPT !.q = Tail(@),
                  !.pending = IF @ = None \/ ~Older(v, @) THEN v ELSE @]
Served == [compd EXCEPT !.q = Tail(@)]

Answer(a) ==
    LET c == Head(compd.q).from
    IN  cl' = IF c = None THEN cl ELSE [cl EXCEPT ![c].ans = a]

Serves(kind) == compd.q # <<>> /\ Head(compd.q).kind = kind
compdOnly == <<epoch, spent, scene, part, permit, told>>

Refuse ==
    LET r == Head(compd.q)
    IN  /\ Serves("commit")
        /\ Malformed(r) \/ should_reject_version(r.ver)
        /\ compd' = Served /\ Answer("rejected")
        /\ UNCHANGED <<compdOnly, disp, faults>>

\* The scene is to be forwarded.
Forwards(v) ==
    /\ Serves("commit") /\ Head(compd.q).ver = v
    /\ ~Malformed(Head(compd.q)) /\ ~should_reject_version(v)

\* A deferred version that displayd has accepted after all.
AlreadyThere(v) == compd.pending = v /\ disp.up /\ disp.shown = v

\* displayd answers the scene, or the reconciliation after a lost connection.
Forward ==
    LET v == Head(compd.q).ver
    IN  /\ compd.q # <<>> /\ Forwards(v) /\ disp.up
        /\ IF scene_version_is_stale(v) /\ ~AlreadyThere(v)
           THEN compd' = Served /\ Answer("rejected") /\ UNCHANGED disp
           ELSE /\ compd' = note_forwarded(v)
                /\ disp' = IF AlreadyThere(v) THEN disp ELSE Accepted(v)
                /\ Answer("committed")
        /\ UNCHANGED <<compdOnly, faults>>

\* displayd cannot be reached, or does not answer although it has accepted, and the
\* reconciliation does not succeed either.
Defer ==
    LET v == Head(compd.q).ver
    IN  /\ compd.q # <<>> /\ Forwards(v) /\ ~AlreadyThere(v)
        /\ IF disp.up THEN Fault ELSE UNCHANGED faults
        /\ disp' \in {disp} \cup (IF disp.up /\ ~scene_version_is_stale(v) THEN {Accepted(v)} ELSE {})
        /\ compd' = defer_latest(v) /\ Answer("rejected")
        /\ UNCHANGED compdOnly

\* GetPresentationFeedback: displayd presents what it has accepted.
Feedback ==
    /\ Serves("feedback") /\ disp.up
    /\ disp' = [disp EXCEPT !.pres = disp.shown]
    /\ compd' = Served /\ Answer("presented")
    /\ UNCHANGED <<compdOnly, faults>>

\* displayd is away, or the frame is still pending.
FeedbackFails ==
    /\ Serves("feedback")
    /\ IF disp.up THEN Fault ELSE UNCHANGED faults
    /\ compd' = Served /\ Answer("rejected")
    /\ UNCHANGED <<compdOnly, disp>>

\* compd is started again, possibly after displayd has accepted the scene it was
\* about to relay: versions and connections are forgotten, the threads that wait
\* see the connection fail.
CompdRestarts ==
    LET waiting == {c \in Clients : \E i \in DOMAIN compd.q : compd.q[i].from = c}
    IN  /\ Fault
        /\ compd' = EmptyRelay
        /\ disp' \in {disp} \cup
               (IF Serves("commit") /\ Forwards(Head(compd.q).ver) /\ disp.up
                   /\ ~scene_version_is_stale(Head(compd.q).ver)
                THEN {Accepted(Head(compd.q).ver)} ELSE {})
        /\ cl' = [c \in Clients |-> IF c \in waiting THEN [cl[c] EXCEPT !.ans = "lost"] ELSE cl[c]]
        /\ UNCHANGED <<epoch, spent, scene, part, permit, told>>
ConnectionLost(c) ==
    /\ cl[c].pc \in {"wait", "await"} /\ cl[c].ans = "lost"
    /\ Fails(c)
    /\ UNCHANGED <<epoch, spent, part, compd, disp, faults, told>>

\* waylandd is started again; its epoch is not ordered with the one before.
WaylandRestarts ==
    /\ Fault
    /\ \E e \in Epochs \ spent : epoch' = e /\ spent' = spent \cup {e}
    /\ scene' = EmptyScene /\ permit' = None
    /\ part' = [c \in Clients |-> None]
    /\ cl' = [c \in Clients |-> NewClient]
    /\ told' = [c \in Clients |-> {}]
    /\ compd' = [compd EXCEPT !.q = [i \in DOMAIN @ |-> [@[i] EXCEPT !.from = None]]]
    /\ UNCHANGED disp

-----------------------------------------------------------------------------
Init ==
    /\ epoch \in Epochs /\ spent = {epoch}
    /\ scene = EmptyScene /\ permit = None
    /\ part = [c \in Clients |-> None]
    /\ cl = [c \in Clients |-> NewClient]
    /\ compd = EmptyRelay
    /\ disp = [up |-> TRUE, floor |-> Unversioned, shown |-> Unversioned, pres |-> Unversioned]
    /\ faults = 0
    /\ told = [c \in Clients |-> {}]

\* What a thread does without being asked to.
Publish(c) ==
    UseCached(c) \/ Acquire(c) \/ Send(c) \/ Committed(c) \/ Succeed(c) \/ Rejected(c) \/ ConnectionLost(c)
Serve == Refuse \/ Forward \/ Defer \/ Feedback \/ FeedbackFails

Next ==
    \/ \E c \in Clients :
           \/ Connect(c) \/ DestroySurface(c) \/ Retry(c) \/ Observe(c) \/ Leave(c)
           \/ \E first, pixels \in BOOLEAN : Commit(c, first, pixels)
           \/ Publish(c) \/ TimeOut(c)
    \/ DisplayDown \/ DisplayUp \/ Serve \/ CompdRestarts \/ WaylandRestarts

Spec == Init /\ [][Next]_vars

\* The threads run, each polls its socket and the retry deadline, and compd serves
\* the connections in order; the clients, the faults and their repair are free.
Fairness ==
    /\ WF_vars(Serve)
    /\ \A c \in Clients : WF_vars(Publish(c)) /\ WF_vars(Retry(c) \/ Observe(c) \/ (cl[c].pc = "dying" /\ Leave(c)))
FairSpec == Spec /\ Fairness

-----------------------------------------------------------------------------
(* Properties *)

Versions == (Epochs \cup {0}) \X (0 .. MaxGen + MaxGen)

\* The state has the shape of the variables of the three services.
TypeOK ==
    /\ scene.gen \in Nat /\ scene.pending \in 0 .. scene.gen /\ scene.presented \in 0 .. scene.gen
    /\ \A c \in Clients :
           /\ cl[c].pc \in {"off", "idle", "want", "send", "wait", "ask", "await", "dying"}
           /\ part[c] # None => part[c] \in 0 .. scene.gen
           /\ Cardinality(Frames(cl[c].wants)) <= MaxCallbacks
    /\ {disp.floor, disp.shown, disp.pres, compd.floor} \subseteq Versions

\* What waylandd takes for presented is on the screen: answering a commit out of
\* the cache, without publishing, tells the client the truth, also after any of the
\* services was started again (commit_canonical_scene).  Callbacks are held within
\* their budget (TypeOK).
PresentedIsShown ==
    /\ TypeOK
    /\ scene.presented > 0 => disp.pres[1] = epoch /\ disp.pres[2] >= scene.presented

\* waylandd, compd and displayd together keep the promise about frames: a callback
\* fires and a feedback says presented only when that generation or a later one is
\* on the screen, and the screen never goes back, whatever is lost or repeated.
Owed == [c \in Clients |-> {w.gen : w \in cl[c].wants}]
Top == IF disp.pres[1] = epoch THEN disp.pres[2] ELSE 0
Frame == INSTANCE FrameService WITH gen <- scene.gen, top <- Top, owed <- Owed
KeepsFramePromise == Frame!Spec

\* A commit whose publication failed is published after all and answered, as long as
\* nobody leaves or is thrown out (retry_pending_canonical_scene): a failure that is
\* not fatal is stored, and every thread that polls can carry it on.
CommitIsAnswered ==
    [](\A d \in Clients : cl[d].pc # "dying" /\ cl[d].why # "leave")
        => \A c \in Clients : cl[c].own > cl[c].seen ~> cl[c].own <= cl[c].seen
=============================================================================
