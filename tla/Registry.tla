------------------------------ MODULE Registry ------------------------------
(***************************************************************************)
(* waylandd's surface registry and the restart of compd that reads it      *)
(* (crates/waylandd/src/main.rs, crates/compd/src/main.rs).                *)
(*                                                                         *)
(* One thread per Wayland client writes its surfaces into GLOBAL_REGISTRY; *)
(* the IPC thread copies the registry when it accepts a connection, works  *)
(* on the copy, saves it and writes it back.  A restarted compd (with the  *)
(* arguments the profiles give it: --restore-from-displayd                 *)
(* --reconcile-waylandd --handoff-selection, displayd and waylandd         *)
(* required) takes displayd's last scene, keeps the surfaces the registry  *)
(* still knows, hands selections of dead owners to the new focus, and      *)
(* commits the scene.                                                      *)
(***************************************************************************)
EXTENDS Naturals, FiniteSets, FiniteSetsExt

CONSTANTS SurfaceClients,      \* Wayland clients; each connects once, ids are not reused
          SurfaceOf,    \* client -> its surface
          Loaded,       \* the registry waylandd starts with
          LastScene,    \* what displayd shows when compd first starts
          NoSurface,
          MaxBatches,   \* bound on the request batches of all clients
          MaxCrashes,   \* bound on the crashes of compd
          MaxSaveFaults \* bound on the artifact writes that fail

Surfaces == {SurfaceOf[c] : c \in SurfaceClients} \cup DOMAIN Loaded.rows
SelectionSlots    == {"clipboard", "primary"}
Roles    == {"Toplevel", "Popup", "Lock", "Layer", "Background"}

(* A row of the registry, and a selection slot: who owns it, and whether a *)
(* payload and a serial are on record.                                     *)
Rows       == [role : Roles, active : BOOLEAN, buffer : Nat]
SlotStates == [owner : Surfaces \cup {NoSurface}, payload : BOOLEAN, serial : BOOLEAN]

IsPartial(f, D, R) == DOMAIN f \subseteq D /\ \A x \in DOMAIN f : f[x] \in R

IsRegistry(reg) ==
    /\ DOMAIN reg = {"generation", "rows", "selection"}
    /\ reg.generation \in Nat
    /\ IsPartial(reg.rows, Surfaces, Rows)
    /\ reg.selection \in [SelectionSlots -> SlotStates]

(* A scene: placement of each surface, the buffer it shows, and whether it *)
(* refers to transported pixels.                                           *)
Placed == [z : Nat, visible : BOOLEAN, buffer : Nat, pixels : BOOLEAN]

IsScene(scene) ==
    /\ DOMAIN scene = {"surfaces", "focus", "selection"}
    /\ IsPartial(scene.surfaces, Surfaces, Placed)
    /\ scene.focus \in Surfaces \cup {NoSurface}
    /\ scene.selection \in [SelectionSlots -> SlotStates]

NoOwner == [owner |-> NoSurface, payload |-> FALSE, serial |-> FALSE]
NoSelection == [k \in SelectionSlots |-> NoOwner]

ASSUME ConstantsAssumption ==
    /\ NoSurface \notin Surfaces
    /\ IsRegistry(Loaded) /\ IsScene(LastScene)
    /\ MaxBatches \in Nat /\ MaxCrashes \in Nat /\ MaxSaveFaults \in Nat

VARIABLES global,    \* GLOBAL_REGISTRY
          artifact,  \* the registry as last saved
          status,    \* of each client: "new", "live" or "gone"
          committed,      \* the committed surface of each client: [role, buffer]
          batches,   \* number of batches sent so far
          unsynced,  \* clients whose last batch is not in the registry yet
          ipc,       \* waylandd's IPC thread
          compd,     \* the compositor's startup
          shown,     \* the scene displayd keeps
          crashes, saveFaults

registryVars == <<global, artifact, status, committed, batches, unsynced, ipc, compd, shown, crashes, saveFaults>>
clientVars == <<status, committed, batches, unsynced>>

Idle == [step |-> "idle", copy |-> Loaded, candidate |-> Loaded]
Down == [step |-> "down", scene |-> LastScene, seen |-> Loaded]

Blank == [role |-> "Toplevel", buffer |-> 0]

RegistryInit ==
    /\ global = Loaded /\ artifact = Loaded
    /\ status = [c \in SurfaceClients |-> "new"]
    /\ committed = [c \in SurfaceClients |-> Blank]
    /\ batches = 0
    /\ unsynced = {}
    /\ ipc = Idle
    /\ compd = Down
    /\ shown = LastScene
    /\ crashes = 0 /\ saveFaults = 0

WithoutRow(f, S) == [s \in DOMAIN f \ S |-> f[s]]
WithRow(f, s, v) == [t \in DOMAIN f \cup {s} |-> IF t = s THEN v ELSE f[t]]

Active(reg) == {s \in DOMAIN reg.rows : reg.rows[s].active}

-----------------------------------------------------------------------------
(* Wayland clients                                                         *)

Connect(c) ==
    /\ status[c] = "new"
    /\ status' = [status EXCEPT ![c] = "live"]
    /\ UNCHANGED <<global, artifact, committed, batches, unsynced, ipc, compd, shown, crashes, saveFaults>>

(* The scene waylandd forwards has the surfaces of its clients that have a *)
(* buffer, no focus and no selection.  It reaches displayd while compd     *)
(* serves.                                                                 *)
CanonicalScene(cores, live) ==
    [surfaces |-> [s \in {SurfaceOf[c] : c \in {d \in live : cores[d].buffer # 0}} |->
                      LET c == CHOOSE d \in live : SurfaceOf[d] = s
                      IN [z |-> 10, visible |-> TRUE, buffer |-> cores[c].buffer, pixels |-> TRUE]],
     focus |-> NoSurface, selection |-> NoSelection]

Live == {c \in SurfaceClients : status[c] = "live"}

Forward(cores, live) ==
    shown' = IF compd.step = "up" THEN CanonicalScene(cores, live) ELSE shown

(* A batch of requests gives the surface a role and attaches or removes    *)
(* its buffer; the commits in it are forwarded at once.                    *)
Batch(c) ==
    /\ status[c] = "live" /\ c \notin unsynced /\ batches < MaxBatches
    /\ \E r \in {"Toplevel", "Layer"}, b \in {0, batches + 1} :
          committed' = [committed EXCEPT ![c] = [role |-> r, buffer |-> b]]
    /\ batches' = batches + 1
    /\ unsynced' = unsynced \cup {c}
    /\ Forward(committed', Live)
    /\ UNCHANGED <<global, artifact, status, ipc, compd, crashes, saveFaults>>

(* After the batch the client's rows are replaced by what its core holds.  *)
sync_core_to_global_registry(c) ==
    /\ c \in unsynced
    /\ global' = [global EXCEPT
                    !.rows = WithRow(@, SurfaceOf[c],
                                  [role |-> committed[c].role, active |-> committed[c].buffer # 0,
                                   buffer |-> committed[c].buffer]),
                    !.generation = @ + 1]
    /\ unsynced' = unsynced \ {c}
    /\ UNCHANGED <<artifact, status, committed, batches, ipc, compd, shown, crashes, saveFaults>>

(* The connection ends: the rows go, and the scene without the client is   *)
(* committed.                                                              *)
ClientExits(c) ==
    /\ status[c] = "live" /\ c \notin unsynced
    /\ status' = [status EXCEPT ![c] = "gone"]
    /\ global' = IF SurfaceOf[c] \in DOMAIN global.rows
                 THEN [global EXCEPT !.rows = WithoutRow(@, {SurfaceOf[c]}), !.generation = @ + 1]
                 ELSE global
    /\ Forward(committed, Live \ {c})
    /\ UNCHANGED <<artifact, committed, batches, unsynced, ipc, compd, crashes, saveFaults>>

-----------------------------------------------------------------------------
(* compd rebuilds its scene                                                *)

is_focusable_role(r) == r \in {"Toplevel", "Popup", "Lock"}

Focusable(reg) == {s \in Active(reg) : is_focusable_role(reg.rows[s].role)}

\* Mutant: a row is enough, mapped or not.
KeptUnmapped(scene, reg) ==
    [s \in DOMAIN scene.surfaces \cap DOMAIN reg.rows |->
        [scene.surfaces[s] EXCEPT !.buffer = reg.rows[s].buffer]]

(* Surfaces the registry does not know as active are dropped; the others   *)
(* take their buffer from it, and keep transported pixels only while the   *)
(* buffer is the same.                                                     *)
Kept(scene, reg) ==
    [s \in DOMAIN scene.surfaces \cap Active(reg) |->
        [scene.surfaces[s] EXCEPT !.buffer = reg.rows[s].buffer,
                                  !.pixels = @ /\ scene.surfaces[s].buffer = reg.rows[s].buffer]]

(* The visible focusable surfaces nothing is above.                        *)
fallback_focus_target(kept, reg) ==
    LET candidates == {s \in DOMAIN kept \cap Focusable(reg) : kept[s].visible}
    IN {s \in candidates : \A t \in candidates : kept[t].z <= kept[s].z}

reconcile_focus(scene, kept, reg) ==
    IF scene.focus \in Focusable(reg) THEN {scene.focus}
    ELSE IF fallback_focus_target(kept, reg) # {} THEN fallback_focus_target(kept, reg)
    ELSE {NoSurface}

\* Mutant: the new owner inherits what the dead one had published.
SlotInherited(slot, focus, reg) ==
    IF slot.owner \in Active(reg) THEN slot
    ELSE [slot EXCEPT !.owner = IF focus \in Focusable(reg) THEN focus ELSE NoSurface]

(* A live owner keeps the slot with its metadata; a dead one loses both to *)
(* the focus.                                                              *)
reconcile_selection_slot(slot, focus, reg) ==
    CASE slot.owner \in Active(reg) -> slot
      [] slot.owner # NoSurface /\ slot.owner \notin Active(reg) ->
             [NoOwner EXCEPT !.owner = IF focus \in Focusable(reg) THEN focus ELSE NoSurface]
      [] OTHER -> NoOwner

(* Layer metadata in the registry is the default, layer 0.                 *)
apply_role_based_layout(placed, role) ==
    CASE role = "Background" -> [placed EXCEPT !.z = 0]
      [] role = "Layer" -> [placed EXCEPT !.z = 10]
      [] role = "Toplevel" -> [placed EXCEPT !.z = Max({@, 30})]
      [] OTHER -> placed

reconcile_scene_with_registry(scene, reg) ==
    LET kept == Kept(scene, reg)
    IN {[surfaces |-> [s \in DOMAIN kept |-> apply_role_based_layout(kept[s], reg.rows[s].role)],
         focus |-> f,
         selection |-> [k \in SelectionSlots |-> reconcile_selection_slot(reg.selection[k], f, reg)]]
        : f \in reconcile_focus(scene, kept, reg)}

(* compd starts and takes the last scene from displayd.                    *)
query_scene_snapshot_from_displayd ==
    /\ compd.step = "down"
    /\ compd' = [Down EXCEPT !.step = "ask", !.scene = shown]
    /\ UNCHANGED <<global, artifact, clientVars, ipc, shown, crashes, saveFaults>>

(* The rebuilt scene is committed under the version of the snapshot.       *)
(* displayd refuses a version it already has; compd then finds that very   *)
(* version in displayd's snapshot and takes its commit for done.           *)
CommitRebuilt ==
    /\ compd.step = "commit"
    /\ compd' = [Down EXCEPT !.step = "up"]
    /\ UNCHANGED <<global, artifact, clientVars, ipc, shown, crashes, saveFaults>>

(* What compd asks waylandd for, and what it does with the answers.        *)
Asks     == compd.step = "ask"
HandsOff == compd.step = "handoff"

reconcile_scene(reg) ==
    \E scene \in reconcile_scene_with_registry(compd.scene, reg) :
        compd' = [step |-> "handoff", scene |-> scene, seen |-> reg]

(* With --require-waylandd a refusal ends compd, which is started again.   *)
apply_selection_handoff(applied) ==
    compd' = IF applied THEN [compd EXCEPT !.step = "commit"] ELSE Down

(* A request compd had already sent is served all the same.                *)
CrashCompd ==
    /\ compd.step # "down" /\ crashes < MaxCrashes
    /\ crashes' = crashes + 1
    /\ compd' = Down
    /\ ipc' = IF ipc.step = "accepted" THEN Idle ELSE ipc    \* end of stream before the request
    /\ UNCHANGED <<global, artifact, clientVars, shown, saveFaults>>

-----------------------------------------------------------------------------
(* waylandd's IPC thread serves one connection at a time                   *)

(* The registry is copied when the connection is accepted, before the      *)
(* request is read.                                                        *)
Accept ==
    /\ ipc.step = "idle" /\ (Asks \/ HandsOff)
    /\ ipc' = [Idle EXCEPT !.step = "accepted", !.copy = global]
    /\ UNCHANGED <<global, artifact, clientVars, compd, shown, crashes, saveFaults>>

(* GetSurfaceRegistry is answered from the copy; compd reconciles.         *)
GetSurfaceRegistry ==
    /\ ipc.step = "accepted" /\ Asks
    /\ reconcile_scene(ipc.copy)
    /\ ipc' = Idle
    /\ UNCHANGED <<global, artifact, clientVars, shown, crashes, saveFaults>>

validate_selection_metadata(slot) ==
    /\ slot.owner = NoSurface => ~slot.payload /\ ~slot.serial
    /\ slot.payload <=> slot.serial

validate_selection_handoff(scene, reg) ==
    /\ scene.focus # NoSurface => scene.focus \in Active(reg)
    /\ \A k \in SelectionSlots :
          /\ scene.selection[k].owner # NoSurface => scene.selection[k].owner \in Active(reg)
          /\ validate_selection_metadata(scene.selection[k])

\* Mutant: compd sends the refused handoff again.
HandoffRepeated ==
    /\ ipc.step = "accepted" /\ HandsOff
    /\ ~validate_selection_handoff(compd.scene, ipc.copy)
    /\ ipc' = Idle
    /\ UNCHANGED <<global, artifact, clientVars, compd, shown, crashes, saveFaults>>

(* ApplySelectionHandoff, refused.                                         *)
RefuseHandoff ==
    /\ ipc.step = "accepted" /\ HandsOff
    /\ ~validate_selection_handoff(compd.scene, ipc.copy)
    /\ apply_selection_handoff(FALSE)
    /\ ipc' = Idle
    /\ UNCHANGED <<global, artifact, clientVars, shown, crashes, saveFaults>>

\* Mutant: the changed registry is not saved.
HandoffUnsaved ==
    /\ ipc.step = "accepted" /\ HandsOff
    /\ validate_selection_handoff(compd.scene, ipc.copy)
    /\ ipc' = [ipc EXCEPT !.step = "saved",
                          !.candidate = [ipc.copy EXCEPT !.selection = compd.scene.selection,
                                                         !.generation = @ + 1]]
    /\ UNCHANGED <<global, artifact, clientVars, compd, shown, crashes, saveFaults>>

(* Accepted: the changed copy is saved before anything else sees it.       *)
ApplySelectionHandoff ==
    /\ ipc.step = "accepted" /\ HandsOff
    /\ validate_selection_handoff(compd.scene, ipc.copy)
    /\ ipc' = [ipc EXCEPT !.step = "saved",
                          !.candidate = [ipc.copy EXCEPT !.selection = compd.scene.selection,
                                                         !.generation = @ + 1]]
    /\ artifact' = ipc'.candidate
    /\ UNCHANGED <<global, clientVars, compd, shown, crashes, saveFaults>>

(* The saved copy becomes the registry and the request is answered.        *)
PublishCandidate ==
    /\ ipc.step = "saved"
    /\ global' = ipc.candidate
    /\ IF HandsOff THEN apply_selection_handoff(TRUE) ELSE UNCHANGED compd
    /\ ipc' = Idle
    /\ UNCHANGED <<artifact, clientVars, shown, crashes, saveFaults>>

(* The artifact cannot be written: waylandd ends, its clients with it, and *)
(* is started again with the registry it is configured with.               *)
SaveFails ==
    /\ ipc.step = "accepted" /\ HandsOff /\ saveFaults < MaxSaveFaults
    /\ validate_selection_handoff(compd.scene, ipc.copy)
    /\ saveFaults' = saveFaults + 1
    /\ global' = Loaded /\ artifact' = Loaded
    /\ status' = [c \in SurfaceClients |-> IF status[c] = "live" THEN "gone" ELSE status[c]]
    /\ unsynced' = {}
    /\ ipc' = Idle
    /\ compd' = Down
    /\ UNCHANGED <<committed, batches, shown, crashes>>

-----------------------------------------------------------------------------
SurfaceStep(c) ==
    Connect(c) \/ Batch(c) \/ sync_core_to_global_registry(c) \/ ClientExits(c)

IpcStep == Accept \/ GetSurfaceRegistry \/ RefuseHandoff \/ ApplySelectionHandoff
           \/ PublishCandidate

CompdStep == query_scene_snapshot_from_displayd \/ CommitRebuilt

RegistryNext == (\E c \in SurfaceClients : SurfaceStep(c)) \/ IpcStep \/ CompdStep \/ CrashCompd \/ SaveFails

(* The IPC thread and a started compd keep running, and sessiond restarts  *)
(* compd when it ends.  Nothing is assumed of the clients.                 *)
RegistrySpec == RegistryInit /\ [][RegistryNext]_registryVars /\ WF_registryVars(IpcStep) /\ WF_registryVars(CompdStep)

-----------------------------------------------------------------------------
RegistryTypeOK ==
    /\ IsRegistry(global) /\ IsRegistry(artifact)
    /\ status \in [SurfaceClients -> {"new", "live", "gone"}]
    /\ committed \in [SurfaceClients -> [role : Roles, buffer : 0 .. MaxBatches]]
    /\ batches \in 0 .. MaxBatches /\ unsynced \subseteq SurfaceClients
    /\ ipc.step \in {"idle", "accepted", "saved"}
    /\ IsRegistry(ipc.copy) /\ IsRegistry(ipc.candidate)
    /\ compd.step \in {"down", "ask", "handoff", "commit", "up"}
    /\ IsScene(compd.scene) /\ IsRegistry(compd.seen) /\ IsScene(shown)
    /\ crashes \in 0 .. MaxCrashes /\ saveFaults \in 0 .. MaxSaveFaults

(* What compd proposes after reconciling is acceptable to waylandd: the    *)
(* handoff passes validate_selection_handoff against the registry it was   *)
(* computed from, whatever scene displayd had kept.  A refusal therefore   *)
(* always means that the registry moved on.                                *)
ProposalIsAcceptable ==
    compd.step \in {"handoff", "commit"} => validate_selection_handoff(compd.scene, compd.seen)

(* docs/api-boundary.md: the owner of a selection is only replaced when    *)
(* the registry compd was given had it dead, what it had published is not  *)
(* attributed to the new owner, and the new selection is published         *)
(* together with rows in which its owners are active.                      *)
OnlyDeadOwnersReplaced ==
    [][\A k \in SelectionSlots :
          LET old == global.selection[k]
              new == global'.selection[k]
          IN /\ PublishCandidate /\ compd.step = "handoff" /\ new.owner # old.owner =>
                   /\ old.owner \notin Active(compd.seen)
                   /\ ~new.payload /\ ~new.serial
             /\ global'.selection # global.selection /\ saveFaults' = saveFaults =>
                   /\ new.owner \in Active(global') \cup {NoSurface}
                   /\ validate_selection_metadata(new)]_registryVars

(* A selection other processes can see has been saved.                     *)
SelectionIsSaved == ipc.step # "saved" => artifact.selection = global.selection

(* The scene a started compd built has no surface that was dead in the     *)
(* registry, refers to transported pixels only of the buffer the registry  *)
(* has, and hands selections over only to owners waylandd will accept.     *)
RebuiltFromTheLiving ==
    /\ RegistryTypeOK
    /\ ProposalIsAcceptable
    /\ compd.step \in {"handoff", "commit"} =>
        /\ DOMAIN compd.scene.surfaces \subseteq Active(compd.seen)
        /\ compd.scene.focus \in Active(compd.seen) \cup {NoSurface}
        /\ \A s \in DOMAIN compd.scene.surfaces :
              compd.scene.surfaces[s].buffer = compd.seen.rows[s].buffer

(* compd's startup ends: however clients come and go meanwhile, it is up   *)
(* for good once it no longer crashes.                                     *)
CompdComesUp == <>[](compd.step = "up")
=============================================================================
