------------------------------- MODULE Display -------------------------------
(***************************************************************************)
(* The scenes of displayd (crates/displayd/src/main.rs): which scenes it   *)
(* accepts, what it writes down, and how accepted scenes get to outputs    *)
(* that come and go.                                                       *)
(*                                                                         *)
(* Accepting a scene and presenting it are two requests.  Acceptance gives *)
(* the scene a commit id, replaces the scene snapshot, queues damage on    *)
(* every output and notes that the target output owes a presentation.  A   *)
(* tick composes the pending damage of one output from the scene accepted  *)
(* last and submits the frame; when the frame has been presented the       *)
(* obligations it covers turn into feedback.                               *)
(*                                                                         *)
(* displayd serves one request after the other, so a request is one        *)
(* action; only the loss of the process in the middle of record_commit     *)
(* needs an action of its own.  Peers send any scene at any time.          *)
(***************************************************************************)
EXTENDS Naturals, FiniteSets, SequencesExt

CONSTANTS
    Outputs,          \* names of outputs
    Builtin,          \* outputs at the start: default_output_registry, or none
    Scenes,           \* the scenes peers offer
    Cells,            \* Cells[o]: the regions that output o is made of
    Covers,           \* Covers[p]: the regions covered by the surface of picture p
    None,
    MaxObligations,   \* MAX_PRESENTATION_OBLIGATIONS
    MaxFeedbacks,     \* MAX_PRESENTATION_FEEDBACKS
    MaxCommits,       \* bound: commit ids handed out
    MaxMishaps        \* bound: output events, reconciliations, failures and restarts

\* A scene has a version <<scene_epoch, scene_generation>>, a target output, a
\* picture and the regions its client reports as damaged.  Picture 0 has no
\* surface; the others have one surface, placed where Covers says, whose buffer
\* generation is the number of the picture.
Unversioned == <<0, 0>>
Pictures == DOMAIN Covers
Regions == UNION {Cells[o] : o \in Outputs}

ASSUME DisplayAssumption ==
    /\ Builtin \subseteq Outputs
    /\ DOMAIN Cells = Outputs
    /\ \A o \in Outputs : Cells[o] # {} /\ None \notin [Cells[o] -> Pictures]
    /\ 0 \in Pictures /\ Pictures \subseteq Nat
    /\ Covers \in [Pictures -> SUBSET Regions] /\ Covers[0] = {}
    /\ Scenes \subseteq [ver : Nat \X Nat, pic : Pictures, target : Outputs,
                        damage : SUBSET Regions]
    /\ \A s \in Scenes : s.ver[1] = 0 <=> s.ver[2] = 0
    /\ MaxObligations \in Nat \ {0} /\ MaxFeedbacks \in Nat \ {0}
    /\ MaxCommits \in Nat /\ MaxMishaps \in Nat
    /\ None \notin [scene : Scenes, commit : Nat]

VARIABLES
    immediate,    \* the backend completes a submission at once
    recon,        \* reconciliation_state
    last,         \* last_scene with its commit id, or None
    floor,        \* last_scene_epoch and last_scene_generation
    nextCommit,   \* next_commit_id
    disk,         \* the scene snapshot artifact
    store,        \* the handle whose pixels pixel_transport holds, or None
    outputs,      \* a runtime for each output that is connected
    obligations,  \* commit id -> [ver, out] still to be presented
    feedbacks,    \* commit ids with a FramePresented
    mishaps,      \* output events, reconciliations, failures and restarts so far
    told,         \* history: the scene each SceneCommitted answer was about
    shown,        \* history: the newest scene each output has presented, by commit id
    astray        \* history: obligations that a failed request has moved

sceneVars == <<last, floor, nextCommit, disk, store>>
history == <<told, shown, astray>>
vars == <<immediate, recon, sceneVars, outputs, obligations, feedbacks, mishaps,
          history>>

-----------------------------------------------------------------------------
(* Outputs *)

\* OutputRuntime.  fb is the frame the output shows, pend its pending damage,
\* flight the outstanding presentation.  Output generations, tick sequences and
\* the cadence only refuse requests, so they are left out.
Fresh ==
    [disabled |-> FALSE, fb |-> None, published |-> FALSE, pend |-> {},
     pver |-> Unversioned, pcommit |-> 0, retry |-> None, flight |-> None]

Active == {o \in DOMAIN outputs : ~outputs[o].disabled}

Without(f, S) == [x \in DOMAIN f \ S |-> f[x]]
With(f, k, v) == [x \in DOMAIN f \cup {k} |-> IF x = k THEN v ELSE f[x]]

Older(v, w) == v[1] < w[1] \/ (v[1] = w[1] /\ v[2] < w[2])

\* Obligations none of whose outputs is there go to output o, if a scene of
\* version ver covers them.
Rebound(ver, o) ==
    [c \in DOMAIN obligations |->
        LET ob == obligations[c]
            covered == IF ver[2] = 0 THEN ob.ver[2] = 0 ELSE ~Older(ver, ob.ver)
        IN  IF covered /\ ob.out \notin Active THEN [ob EXCEPT !.out = o] ELSE ob]

-----------------------------------------------------------------------------
(* Starting *)

\* The things that go wrong, which are bounded together.
Mishap == mishaps < MaxMishaps /\ mishaps' = mishaps + 1

\* Mutant: the commit id of the snapshot is given out again.
MutIdAfter(saved) == IF saved = None THEN 1 ELSE saved.commit

\* The commit id that follows the one of the snapshot.
IdAfter(saved) == IF saved = None THEN 1 ELSE saved.commit + 1

\* DisplayState::load: only the snapshot outlives the process.
Load(saved) ==
    /\ recon' = "Awaiting"
    /\ last' = saved
    /\ floor' = IF saved = None THEN Unversioned ELSE saved.scene.ver
    /\ nextCommit' = IdAfter(saved)
    /\ store' = None
    /\ outputs' = [o \in Builtin |-> Fresh]
    /\ obligations' = [c \in {} |-> None]
    /\ feedbacks' = {}
    /\ shown' = [o \in Outputs |-> 0]
    /\ astray' = {}

Init ==
    /\ immediate \in BOOLEAN
    /\ recon = "Awaiting"
    /\ last = None /\ floor = Unversioned /\ nextCommit = 1 /\ disk = None
    /\ store = None
    /\ outputs = [o \in Builtin |-> Fresh]
    /\ obligations = [c \in {} |-> None]
    /\ feedbacks = {}
    /\ mishaps = 0
    /\ told = [c \in {} |-> None]
    /\ shown = [o \in Outputs |-> 0]
    /\ astray = {}

-----------------------------------------------------------------------------
(* Acceptance: handle_scene_acceptance *)

\* The surface of a versioned scene (waylandd) has a transport handle: its scene
\* and buffer generation, under a client and surface id that stay the same.
\* Unversioned scenes (x11bridge) have none.
Handle(s) == IF s.pic = 0 \/ s.ver = Unversioned THEN None ELSE <<s.ver[2], s.pic>>

\* What a peer may send: a scene, with or without the pixels of its handle.
Requests == {[scene |-> s, pixels |-> px] : s \in Scenes, px \in BOOLEAN}
Sendable(r) == r.pixels => Handle(r.scene) # None

scene_version_is_stale(s) == s.ver # Unversioned /\ Older(s.ver, floor)
scene_version_is_equal(s) == s.ver[1] # 0 /\ s.ver = floor
same_scene_identity(s) == last # None /\ last.scene = s

Conflicts(s) == scene_version_is_equal(s) /\ ~same_scene_identity(s)
Accepted(s) == scene_version_is_equal(s) /\ same_scene_identity(s)
Hydrates(r) == r.pixels /\ store # Handle(r.scene)
Replayed(r) == Accepted(r.scene) /\ (recon = "Recovering" \/ Hydrates(r))

StaleHandle(s) == store # None /\ Handle(s) # None /\ Older(Handle(s), store)
Missing(r) == Handle(r.scene) # None /\ ~r.pixels /\ store # Handle(r.scene)
MissingAllowed(r) == recon = "Recovering" /\ ~r.pixels

\* The reasons for Rejected that leave everything as it is.
Refused(r) ==
    \/ scene_version_is_stale(r.scene)
    \/ Conflicts(r.scene)
    \/ StaleHandle(r.scene)
    \/ Missing(r) /\ ~MissingAllowed(r)

\* A surface that appears, goes away, moves or has a new buffer damages what it
\* covers and what it covered.
Exposed(old, new) == IF old = new THEN {} ELSE Covers[old] \cup Covers[new]

\* Mutant: what was pending before is forgotten.
MutDamage(o, s) ==
    IF last = None /\ s.pic = 0 THEN {}
    ELSE IF last = None \/ outputs[o].fb = None THEN Cells[o]
    ELSE Cells[o] \cap (Exposed(last.scene.pic, s.pic) \cup (s.damage \cap Covers[s.pic]))

\* Pending damage is kept; a first or lost frame is drawn as a whole.
Damage(o, s) ==
    outputs[o].pend \cup
        (IF last = None /\ s.pic = 0 THEN {}
         ELSE IF last = None \/ outputs[o].fb = None THEN Cells[o]
         ELSE Cells[o] \cap (Exposed(last.scene.pic, s.pic)
                             \cup (s.damage \cap Covers[s.pic])))

required_outputs_for_scene(s) ==
    {o \in {s.target} :
        IF o \in Active THEN Damage(o, s) # {} ELSE last # None \/ s.pic # 0}

ReboundFor(s) ==
    IF required_outputs_for_scene(s) = {} THEN obligations ELSE Rebound(s.ver, s.target)

OverBudget(s) ==
    /\ required_outputs_for_scene(s) # {}
    /\ Cardinality(DOMAIN obligations) >= MaxObligations

\* Damage is queued on every output and the target owes a presentation.
Queue(r, commit) ==
    LET s == r.scene
    IN  /\ store' = IF r.pixels \/ store = Handle(s) THEN Handle(s) ELSE None
        /\ outputs' =
              [o \in DOMAIN outputs |->
                  IF o \in Active /\ Damage(o, s) # {}
                  THEN [outputs[o] EXCEPT !.pend = Damage(o, s), !.pver = s.ver,
                                          !.pcommit = commit]
                  ELSE outputs[o]]
        /\ obligations' =
              IF required_outputs_for_scene(s) = {} THEN obligations
              ELSE With(ReboundFor(s), commit, [ver |-> s.ver, out |-> s.target])
        /\ feedbacks' = feedbacks \ {commit}

\* CommitScene and ReconcileScene; the latter ends the recovery.
Recovery(via) == recon' = IF via = "reconcile" THEN "Awaiting" ELSE recon

\* SceneCommitted; told keeps what was answered first for a commit id.
Answer(commit, s) ==
    told' = IF commit \in DOMAIN told THEN told ELSE With(told, commit, s)

record_commit(s) ==
    /\ disk' = [scene |-> s, commit |-> nextCommit]
    /\ last' = disk'
    /\ nextCommit' = nextCommit + 1
    /\ floor' = IF s.ver[2] # 0 THEN s.ver ELSE floor

Commit(r, via) ==
    /\ ~Refused(r) /\ ~Accepted(r.scene) /\ ~OverBudget(r.scene)
    /\ nextCommit <= MaxCommits
    /\ record_commit(r.scene)
    /\ Queue(r, nextCommit)
    /\ Recovery(via)
    /\ Answer(nextCommit, r.scene)
    /\ UNCHANGED <<immediate, mishaps, shown, astray>>

\* The scene is known, but its frames or pixels are lost: it is queued again
\* under its commit id.
Replay(r, via) ==
    /\ ~Refused(r) /\ Replayed(r) /\ ~OverBudget(r.scene)
    /\ Queue(r, last.commit)
    /\ Recovery(via)
    /\ Answer(last.commit, r.scene)
    /\ UNCHANGED <<immediate, last, floor, nextCommit, disk, mishaps, shown, astray>>

\* The scene is known: the answer repeats its commit id.
Repeat(r, via) ==
    /\ Accepted(r.scene) /\ ~Replayed(r)
    /\ Recovery(via)
    /\ Answer(last.commit, r.scene)
    /\ UNCHANGED <<immediate, sceneVars, outputs, obligations, feedbacks, mishaps, shown,
                   astray>>

\* The request fails, but the obligations have been rebound.
Stray(r) ==
    /\ obligations' = ReboundFor(r.scene)
    /\ astray' = astray \cup
          {c \in DOMAIN obligations : obligations'[c].out # obligations[c].out}

\* Rejected for want of budget.
Exhausted(r) ==
    /\ Accepted(r.scene) => Replayed(r)
    /\ ~Refused(r) /\ OverBudget(r.scene)
    /\ Stray(r)
    /\ UNCHANGED <<immediate, recon, sceneVars, outputs, feedbacks, mishaps, told, shown>>

\* The snapshot cannot be written: the request fails without an answer.
RecordFails(r) ==
    /\ Mishap
    /\ ~Refused(r) /\ ~Accepted(r.scene) /\ ~OverBudget(r.scene)
    /\ Stray(r)
    /\ UNCHANGED <<immediate, recon, sceneVars, outputs, feedbacks, told, shown>>

\* displayd dies after the rename and is started again.
DiesRecording(r) ==
    /\ Mishap
    /\ ~Refused(r) /\ ~Accepted(r.scene) /\ ~OverBudget(r.scene)
    /\ nextCommit <= MaxCommits
    /\ disk' = [scene |-> r.scene, commit |-> nextCommit]
    /\ Load(disk')
    /\ UNCHANGED <<immediate, told>>

\* It dies anywhere else, or is stopped, and is started again.
Restart ==
    /\ Mishap
    /\ Load(disk)
    /\ UNCHANGED <<immediate, disk, told>>

\* BeginReconciliation with an epoch before, of or after this displayd's: the
\* outstanding submissions are retired before the epoch is looked at.
BeginReconciliation(epoch) ==
    LET retired == [o \in DOMAIN outputs |->
                       [outputs[o] EXCEPT !.flight = None, !.retry = None]]
    IN  /\ Mishap
        /\ outputs' = IF epoch = "new" THEN Without(outputs, Outputs) ELSE retired
        /\ recon' = IF epoch = "old" THEN recon ELSE "Recovering"
        /\ feedbacks' = IF epoch = "old" THEN feedbacks ELSE {}
        /\ UNCHANGED <<immediate, sceneVars, obligations, history>>

-----------------------------------------------------------------------------
(* Output events: apply_backend_output_event.  An event that is out of sequence, *)
(* stale or over a budget changes nothing.                                       *)

\* Connected and Reconfigured: a new runtime that has to draw everything.
Connected(o) ==
    /\ Mishap
    /\ outputs' = With(outputs, o,
           [Fresh EXCEPT !.pend = Cells[o], !.pver = floor,
                         !.pcommit = IF last = None THEN 0 ELSE last.commit])
    /\ obligations' =
           IF last # None /\ last.scene.target = o THEN Rebound(floor, o) ELSE obligations
    /\ UNCHANGED <<immediate, recon, sceneVars, feedbacks, history>>

Disabled(o) ==
    /\ o \in DOMAIN outputs
    /\ Mishap
    /\ outputs' = [outputs EXCEPT ![o].flight = None, ![o].pend = {}, ![o].retry = None,
                                  ![o].disabled = TRUE]
    /\ UNCHANGED <<immediate, recon, sceneVars, obligations, feedbacks, history>>

\* Disconnected for one output, BackendReset for those of a backend instance.
Disconnected(S) ==
    /\ S # {}
    /\ Mishap
    /\ outputs' = Without(outputs, S)
    /\ UNCHANGED <<immediate, recon, sceneVars, obligations, feedbacks, history>>

-----------------------------------------------------------------------------
(* Presentation *)

\* insert_bounded_feedback
Insert(F, c) ==
    (IF Cardinality(F) >= MaxFeedbacks THEN F \ {Min(F)} ELSE F) \cup {c}

\* Mutant: any frame of the epoch settles an obligation.
MutSettles(f, o, c) ==
    /\ obligations[c].out = o
    /\ IF f.ver[2] = 0 THEN c = f.commit ELSE obligations[c].ver[1] = f.ver[1]

\* Which obligations a frame on output o settles.
Settles(f, o, c) ==
    /\ obligations[c].out = o
    /\ IF f.ver[2] = 0 THEN c = f.commit
       ELSE obligations[c].ver[1] = f.ver[1] /\ obligations[c].ver[2] <= f.ver[2]

\* The ids are taken in ascending order: the greatest is inserted last.
note_presented_obligations(f, o) ==
    LET done == {c \in DOMAIN obligations : Settles(f, o, c)}
    IN  /\ obligations' = Without(obligations, done)
        /\ feedbacks' = MapThenFoldSet(LAMBDA c, F : Insert(F, c), feedbacks,
                                       LAMBDA c : c, Max, done)

\* Mutant: the completion of any frame clears the pending damage.
MutPresented(rt, f) ==
    [rt EXCEPT !.fb = f.pixels, !.published = TRUE, !.flight = None,
               !.pend = {}, !.pcommit = 0, !.retry = None]

\* The runtime after its frame f was presented; damage of a newer scene stays.
Presented(rt, f) ==
    LET rt1 == [rt EXCEPT !.fb = f.pixels, !.published = TRUE, !.flight = None]
    IN  IF Older(f.ver, rt.pver) THEN rt1
        ELSE [rt1 EXCEPT !.pend = {}, !.pcommit = 0, !.retry = None]

\* ... and after it failed: the frame has to be drawn again.
Failed(rt, f) ==
    LET rt1 == [rt EXCEPT !.flight = None, !.retry = [ver |-> f.ver, commit |-> f.commit]]
    IN  IF Older(f.ver, rt.pver) THEN rt1
        ELSE [rt1 EXCEPT !.pend = f.damage, !.pver = f.ver, !.pcommit = f.commit]

Settled(outs) ==
    \A o \in DOMAIN outs : ~outs[o].disabled => outs[o].published /\ outs[o].pend = {}

\* complete_presentation of frame f on output o, whose runtime is rt.
Complete(o, rt, f, ok) ==
    /\ outputs' = [outputs EXCEPT ![o] = IF ok THEN Presented(rt, f) ELSE Failed(rt, f)]
    /\ IF ok THEN note_presented_obligations(f, o) ELSE UNCHANGED <<obligations, feedbacks>>
    /\ recon' = IF ok /\ recon = "Awaiting" /\ Settled(outputs') THEN "Ready" ELSE recon
    /\ shown' = IF ok THEN [shown EXCEPT ![o] = Max({@, f.scene})] ELSE shown
    /\ IF ok THEN UNCHANGED mishaps ELSE Mishap

\* advance_presentation forgets a retry that is about something else.
Ticked(rt) ==
    IF rt.retry # None /\ (rt.retry.ver # rt.pver \/ rt.retry.commit # rt.pcommit)
    THEN [rt EXCEPT !.retry = None] ELSE rt

\* handle_multi_output_commit gets as far as submit_frame.
CanSubmit(o) ==
    /\ last # None
    /\ o \in Active
    /\ outputs[o].pend # {} /\ outputs[o].flight = None
    /\ \/ Covers[last.scene.pic] \cap outputs[o].pend = {}
       \/ Handle(last.scene) \in {None, store}

\* What a picture shows in a region: the buffer of its surface or, as 0, the background.
Content(p) == [c \in Regions |-> IF c \in Covers[p] THEN p ELSE 0]

\* compose_damage_rects draws the pending damage over the frame shown.
Frame(o) ==
    [ver |-> last.scene.ver, commit |-> outputs[o].pcommit, scene |-> last.commit,
     damage |-> outputs[o].pend,
     pixels |-> [c \in Cells[o] |->
                   IF c \in outputs[o].pend THEN Content(last.scene.pic)[c]
                   ELSE IF outputs[o].fb = None THEN 0 ELSE outputs[o].fb[c]]]

\* AdvancePresentation before the cadence allows a frame, or when there is none.
\* The actions after it are the ticks that submit one; GetPresentationFeedback
\* ticks the output that the obligation is on.
Advance(o) ==
    /\ o \in DOMAIN outputs
    /\ outputs' = [outputs EXCEPT ![o] = Ticked(@)]
    /\ UNCHANGED <<immediate, recon, sceneVars, obligations, feedbacks, mishaps, history>>

Submit(o) ==
    /\ CanSubmit(o)
    /\ ~immediate
    /\ outputs' = [outputs EXCEPT ![o] = [Ticked(@) EXCEPT !.flight = Frame(o)]]
    /\ UNCHANGED <<immediate, recon, sceneVars, obligations, feedbacks, mishaps, history>>

SubmitAndComplete(o, ok) ==
    /\ CanSubmit(o)
    /\ immediate
    /\ Complete(o, Ticked(outputs[o]), Frame(o), ok)
    /\ UNCHANGED <<immediate, sceneVars, told, astray>>

SubmitFails(o) ==
    /\ CanSubmit(o)
    /\ Mishap
    /\ outputs' = [outputs EXCEPT
           ![o].retry = [ver |-> last.scene.ver, commit |-> outputs[o].pcommit]]
    /\ UNCHANGED <<immediate, recon, sceneVars, obligations, feedbacks, history>>

CompletePresentation(o, ok) ==
    /\ o \in DOMAIN outputs
    /\ outputs[o].flight # None
    /\ Complete(o, outputs[o], outputs[o].flight, ok)
    /\ UNCHANGED <<immediate, sceneVars, told, astray>>

-----------------------------------------------------------------------------
Next ==
    \/ \E r \in Requests :
           /\ Sendable(r)
           /\ \/ \E via \in {"commit", "reconcile"} :
                     Commit(r, via) \/ Replay(r, via) \/ Repeat(r, via)
              \/ Exhausted(r) \/ RecordFails(r) \/ DiesRecording(r)
    \/ Restart
    \/ \E epoch \in {"old", "same", "new"} : BeginReconciliation(epoch)
    \/ \E o \in Outputs : Connected(o) \/ Disabled(o)
    \/ \E S \in SUBSET DOMAIN outputs : Disconnected(S)
    \/ \E o \in Outputs : Advance(o) \/ Submit(o) \/ SubmitFails(o)
    \/ \E o \in Outputs, ok \in BOOLEAN :
           SubmitAndComplete(o, ok) \/ CompletePresentation(o, ok)

Spec == Init /\ [][Next]_vars

-----------------------------------------------------------------------------
(* Properties *)

Versions == {s.ver : s \in Scenes} \cup {Unversioned}
Commits == 0 .. MaxCommits
Recorded == [scene : Scenes, commit : Commits]
Frames == [ver : Versions, commit : Commits, scene : Commits, damage : SUBSET Regions,
           pixels : UNION {[Cells[o] -> Pictures] : o \in Outputs}]
Runtimes ==
    [disabled : BOOLEAN, fb : {None} \cup UNION {[Cells[o] -> Pictures] : o \in Outputs},
     published : BOOLEAN, pend : SUBSET Regions, pver : Versions, pcommit : Commits,
     retry : [ver : Versions, commit : Commits] \cup {None}, flight : Frames \cup {None}]

\* The state has the shape of DisplayState, within its budgets.
TypeOK ==
    /\ immediate \in BOOLEAN
    /\ recon \in {"Recovering", "Awaiting", "Ready"}
    /\ {last, disk} \subseteq Recorded \cup {None}
    /\ floor \in Versions
    /\ nextCommit \in 1 .. MaxCommits + 1
    /\ store \in {Handle(s) : s \in Scenes} \cup {None}
    /\ DOMAIN outputs \subseteq Outputs
    /\ \A o \in DOMAIN outputs : outputs[o] \in Runtimes
    /\ DOMAIN obligations \subseteq Commits
    /\ \A c \in DOMAIN obligations : obligations[c] \in [ver : Versions, out : Outputs]
    /\ Cardinality(DOMAIN obligations) <= MaxObligations
    /\ feedbacks \subseteq Commits /\ Cardinality(feedbacks) <= MaxFeedbacks
    /\ mishaps \in 0 .. MaxMishaps
    /\ DOMAIN told \subseteq Commits /\ \A c \in DOMAIN told : told[c] \in Scenes
    /\ shown \in [Outputs -> Commits] /\ astray \subseteq Commits

\* readiness_from_state
OutputReady(o) ==
    /\ ~outputs[o].disabled /\ outputs[o].retry = None /\ outputs[o].flight = None
    /\ outputs[o].published /\ outputs[o].pend = {}

OnlyVersioned == \A c \in DOMAIN told : told[c].ver # Unversioned

\* An output that readiness_from_state calls Ready shows, in every region, the
\* scene displayd accepted last, although frames draw damage only, fail, are
\* overtaken by newer scenes and the output comes and goes.  (A backend that
\* completes later needs versions for that.)
ReadyIsCurrent ==
    immediate \/ OnlyVersioned =>
        \A o \in DOMAIN outputs : OutputReady(o) =>
            outputs[o].fb = [c \in Cells[o] |-> Content(last.scene.pic)[c]]

\* get_presentation_feedback: FramePresented for a commit means that an output
\* has shown the scene of that commit or of a later one.
FeedbackIsEarned == \A c \in feedbacks : \E o \in Outputs : shown[o] >= c

\* A commit id that was answered names one scene for ever: the scene snapshot
\* holds that scene or one with a greater id, across crashes and restarts.
AnsweredIsDurable ==
    \A c \in DOMAIN told :
        disk # None /\ c <= disk.commit /\ (c = disk.commit => told[c] = disk.scene)

\* An obligation of the current scene epoch whose output is there will be met by
\* its next frame: the damage it waits for is still pending there.  Obligations and
\* feedback stay within their budgets (TypeOK).
ObligationIsBacked ==
    /\ TypeOK
    /\ OnlyVersioned =>
        \A c \in DOMAIN obligations \ astray :
            LET ob == obligations[c]
            IN  ob.out \in Active /\ ob.ver[1] = floor[1] =>
                    outputs[ob.out].pend # {} /\ c <= outputs[ob.out].pcommit
=============================================================================
