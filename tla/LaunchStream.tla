----------------------------- MODULE LaunchStream -----------------------------
(***************************************************************************)
(* The health stream between the sessiond supervisor                       *)
(* (crates/sessiond/src/main.rs) and the watchdog                          *)
(* (crates/watchdog/src/main.rs).                                          *)
(*                                                                         *)
(* sessiond runs the components of the active profile.  Whenever one of    *)
(* them exits it takes a snapshot, numbers it with its generation and the  *)
(* next sequence, makes the number durable and sends the snapshot to the   *)
(* watchdog: in full the first time, later as the difference to the last   *)
(* snapshot the watchdog has confirmed.  The watchdog merges it into its   *)
(* cache, looks at every component and reports back; a report that asks    *)
(* for it makes sessiond fall back to the degraded profile, with a new     *)
(* generation.                                                             *)
(*                                                                         *)
(* Each side may die and restart at any point, the reply may come too late *)
(* (sessiond has stopped waiting, the watchdog still handles the request). *)
(* A watchdog started once to inspect the launch-state artifact sends its  *)
(* report to the socket of sessiond, whenever it gets there.               *)
(***************************************************************************)
EXTENDS Watchdog, Sequences

CONSTANTS
    SessionComponents, \* the components of each profile
    Critical,        \* the components marked critical
    Bound,           \* per profile, the component a recovery request restarts
    DegradedProfile, \* per profile, its degraded_profile_id
    InitialProfile,  \* the active profile of a new session
    NoProfile,       \* degraded_profile_id is absent
    Outcomes,        \* what spawning may end in: Spawned, Failed, Missing
    RestartLimit,    \* --restart-limit of sessiond
    MaxGeneration,   \* u64::MAX of the stream generation
    MaxRequests,     \* recovery requests and inspections (model bound)
    MaxFaults        \* crashes and timeouts (model bound)

ASSUME ProfilesAssumption ==
    /\ InitialProfile \in Profiles
    /\ NoProfile \notin Profiles
    /\ SessionComponents \in [Profiles -> SUBSET Components]
    /\ Critical \subseteq Components
    /\ \A p \in Profiles : Bound[p] \in SessionComponents[p] \cup {None}
    /\ DOMAIN DegradedProfile = Profiles
    /\ None \notin Components
ASSUME OutcomesAssumption == Outcomes \subseteq {"Spawned", "Failed", "Missing"}
ASSUME LimitsAssumption ==
    /\ RestartLimit \in Nat
    /\ MaxGeneration \in Nat
    /\ MaxRequests \in Nat
    /\ MaxFaults \in Nat

VARIABLES
    \* sessiond
    spc,         \* Down, Idle, Snapshot, Notify, Wait, WaitRetry or Switch
    profile,     \* the profile this sessiond runs
    comps,       \* its component states
    generation, sequence,
    streamed,    \* last_streamed_state
    serving,     \* the step is part of handle_client
    \* artifacts that survive a crash of sessiond
    active,      \* active-profile.json
    authority,   \* the generation and sequence of the authority artifact
    launch,      \* launch-state.json
    pending,     \* an accepted recovery request waits in its artifact
    up,          \* the watchdog is running
    \* the socket between them
    queue,       \* requests not yet handled, in connection order
    reply,       \* the reply sessiond will read
    \* the component processes sessiond has started
    started,     \* per component, the number of processes started
    exited,      \* components whose process has ended and is not reaped
    inspection,  \* a watchdog started once: what it has read and its report
    \* bounds
    requests, faults

sessionVars == <<spc, profile, comps, generation, sequence, streamed, serving>>
artifactVars == <<active, authority, launch, pending>>
watchdogVars == <<up, cache>>
socketVars == <<queue, reply>>
processVars == <<started, exited, inspection>>
vars == <<sessionVars, artifactVars, watchdogVars, socketVars, processVars,
          requests, faults>>

\* SessionLaunchComponentState.  pid 0: no process; otherwise the pid-th
\* process started for this component, so that no pid is used twice.
ComponentState ==
    [state : {"Spawned", "Failed", "Missing"}, pid : Nat, restart_count : Nat]

CompStates == UNION {[D -> ComponentState] : D \in SUBSET Components}

LaunchStates ==
    [profile : Profiles, generation : Nat, sequence : Nat, comps : CompStates]

\* A request to the watchdog; live: sessiond still waits for the reply.
Messages ==
    [kind : {"Full", "Replace", "Delta"}, state : LaunchStates, live : BOOLEAN]

ASSUME NoneAssumption == None \notin LaunchStates

Stamp(g, s) == [generation |-> g, sequence |-> s]

Init ==
    /\ spc = "Down"
    /\ profile = InitialProfile
    /\ comps = <<>>
    /\ generation = 0
    /\ sequence = 0
    /\ streamed = None
    /\ serving = FALSE
    /\ active = InitialProfile
    /\ authority = Stamp(0, 0)
    /\ launch = None
    /\ pending = FALSE
    /\ up \in BOOLEAN          \* the watchdog may have been started first
    /\ cache = EmptyCache
    /\ queue = <<>>
    /\ reply = None
    /\ started = [c \in Components |-> 0]
    /\ exited = {}
    /\ inspection = None
    /\ requests = 0
    /\ faults = 0

-----------------------------------------------------------------------------
(* Component processes *)

\* spawn_with_args: a component whose command is not installed stays Missing.
Spawn(c, outcome, restarts) ==
    [state |-> outcome,
     pid |-> IF outcome = "Spawned" THEN started[c] + 1 ELSE 0,
     restart_count |-> restarts]

\* Components sessiond has a child of.
Children == {c \in DOMAIN comps : comps[c].pid # 0}

\* /proc has the process: it runs, or it has ended and sessiond, its parent,
\* has not waited for it yet.
process_exists(c, pid) == c \in DOMAIN comps /\ pid = comps[c].pid /\ pid # 0

\* A component process ends.
ProcessExit(c) ==
    /\ c \in Children \ exited
    /\ exited' = exited \cup {c}
    /\ UNCHANGED <<sessionVars, artifactVars, watchdogVars, socketVars, started,
                   inspection, requests, faults>>

Started(results) ==
    [c \in Components |->
        started[c] + IF c \in DOMAIN results /\ results[c].state = "Spawned" THEN 1 ELSE 0]

-----------------------------------------------------------------------------
(* sessiond *)

CurrentState == LaunchState(profile, generation, sequence, comps)

\* RuntimeComponent::new and spawn for every component of profile p.
Launch(p, out) == [c \in SessionComponents[p] |-> Spawn(c, out[c], 0)]

\* A new stream of profile p under generation g (SessionSupervisor::new and
\* the first half of activate).
NewStream(p, g, out) ==
    /\ g <= MaxGeneration
    /\ profile' = p
    /\ generation' = g
    /\ sequence' = 0
    /\ streamed' = None
    /\ comps' = Launch(p, out)
    /\ started' = Started(Launch(p, out))
    /\ exited' = {}
    /\ spc' = "Snapshot"

\* Mutant: the stored generation is taken over as it is.
MutRestoredGeneration == authority.generation + IF authority.generation = 0 THEN 1 ELSE 0

\* load_session_authority_generation: 1 in a new session, otherwise one more
\* than the artifact has.
RestoredGeneration == authority.generation + 1

Bootstrap(out) ==
    /\ spc = "Down"
    /\ NewStream(active, RestoredGeneration, out)
    /\ UNCHANGED <<serving, artifactVars, watchdogVars, socketVars, inspection, requests, faults>>

\* Mutant: the watchdog is told before the number is durable.
MutPersistSnapshot ==
    /\ spc = "Snapshot"
    /\ sequence' = sequence + 1
    /\ spc' = "Notify"
    /\ launch' = LaunchState(profile, generation, sequence + 1, comps)
    /\ UNCHANGED <<profile, comps, generation, streamed, serving, active, authority, pending,
                   watchdogVars, socketVars, processVars, requests, faults>>

\* write_snapshot up to notify_watchdog: the snapshot is numbered and both
\* artifacts are replaced.
PersistSnapshot ==
    /\ spc = "Snapshot"
    /\ sequence' = sequence + 1
    /\ launch' = LaunchState(profile, generation, sequence + 1, comps)
    /\ authority' = Stamp(generation, sequence + 1)
    /\ spc' = "Notify"
    /\ UNCHANGED <<profile, comps, generation, streamed, serving, active, pending,
                   watchdogVars, socketVars, processVars, requests, faults>>

Message(kind, cs) ==
    [kind |-> kind, state |-> LaunchState(profile, generation, sequence, cs), live |-> TRUE]

\* The components a delta carries: those that differ from the last state the
\* watchdog has confirmed.
Changed == {c \in DOMAIN comps : streamed.comps[c] # comps[c]}

\* watchdog_stream_command
StreamCommand ==
    IF streamed = None THEN Message("Full", comps)
    ELSE IF streamed.profile # profile \/ streamed.generation # generation
         THEN Message("Replace", comps)
         ELSE Message("Delta", [c \in Changed |-> comps[c]])

NotifySend ==
    /\ spc = "Notify"
    /\ up
    /\ queue' = Append(queue, StreamCommand)
    /\ spc' = "Wait"
    /\ UNCHANGED <<profile, comps, generation, sequence, streamed, serving, artifactVars,
                   watchdogVars, reply, processVars, requests, faults>>

\* Back in the loop of serve_ipc.
Rest == spc' = "Idle" /\ serving' = FALSE

\* send_watchdog_command cannot connect or write: the watchdog is down, or it
\* is up and the call fails all the same.  The snapshot is not sent again
\* until another component exits.
NotifyFails ==
    /\ spc = "Notify"
    /\ up => faults < MaxFaults
    /\ faults' = IF up THEN faults + 1 ELSE faults
    /\ Rest
    /\ UNCHANGED <<profile, comps, generation, sequence, streamed, artifactVars,
                   watchdogVars, socketVars, processVars, requests>>

\* The state sessiond is left in when it stops: nothing of it is remembered.
Stopped ==
    /\ spc' = "Down"
    /\ profile' = InitialProfile
    /\ generation' = 0
    /\ sequence' = 0
    /\ comps' = <<>>
    /\ streamed' = None
    /\ serving' = FALSE
    /\ exited' = {}

\* degraded_trigger_component_ids
Triggers(report) == {c \in DOMAIN report : report[c].action = "DegradedProfile"}

\* Mutant: every unhealthy component is a reason to degrade.
MutWantsDegrade(r) ==
    /\ \E c \in DOMAIN r.report : r.report[c].status = "Unhealthy"
    /\ DegradedProfile[profile] # NoProfile

\* apply_watchdog_report: the report names a component that needs the degraded
\* profile and the active profile has one.
WantsDegrade(r) == Triggers(r.report) # {} /\ DegradedProfile[profile] # NoProfile

\* A degraded profile that is unknown, or the active one, is an error that
\* ends sessiond.
CanDegrade == DegradedProfile[profile] \in Profiles \ {profile}

Waits == spc \in {"Wait", "WaitRetry"}

\* InspectionResult: the snapshot counts as confirmed.
ReceiveReport ==
    /\ Waits
    /\ reply # None
    /\ reply.kind = "Report"
    /\ ~WantsDegrade(reply)
    /\ streamed' = CurrentState
    /\ reply' = None
    /\ Rest
    /\ UNCHANGED <<profile, comps, generation, sequence, artifactVars, watchdogVars,
                   queue, processVars, requests, faults>>

\* apply_watchdog_stream_report: the active profile is replaced on disk.
ReceiveDegrade ==
    /\ Waits
    /\ reply # None
    /\ reply.kind = "Report"
    /\ WantsDegrade(reply)
    /\ CanDegrade
    /\ active' = DegradedProfile[profile]
    /\ streamed' = CurrentState
    /\ reply' = None
    /\ spc' = "Switch"
    /\ UNCHANGED <<profile, comps, generation, sequence, serving, authority, launch, pending,
                   watchdogVars, queue, processVars, requests, faults>>

DegradeFails ==
    /\ Waits
    /\ ~serving
    /\ reply # None
    /\ reply.kind = "Report"
    /\ WantsDegrade(reply)
    /\ ~CanDegrade
    /\ reply' = None
    /\ Stopped
    /\ UNCHANGED <<artifactVars, watchdogVars, queue, started, inspection, requests, faults>>

\* In a request of a client the error is the answer.
DegradeRefused ==
    /\ Waits
    /\ serving
    /\ reply # None
    /\ reply.kind = "Report"
    /\ WantsDegrade(reply)
    /\ ~CanDegrade
    /\ streamed' = CurrentState
    /\ reply' = None
    /\ Rest
    /\ UNCHANGED <<profile, comps, generation, sequence, artifactVars, watchdogVars,
                   queue, processVars, requests, faults>>

\* switch_to: the components are killed and waited for, the degraded profile
\* starts under the next generation.
Switch(out) ==
    /\ spc = "Switch"
    /\ NewStream(active, generation + 1, out)
    /\ UNCHANGED <<serving, artifactVars, watchdogVars, socketVars, inspection, requests, faults>>

\* ResyncLaunchState as the answer to the first request: the full state is
\* sent once.
ReceiveResync ==
    /\ spc = "Wait"
    /\ reply # None
    /\ reply.kind = "Resync"
    /\ reply' = None
    /\ IF up
       THEN queue' = Append(queue, Message("Full", comps)) /\ spc' = "WaitRetry" /\ UNCHANGED serving
       ELSE Rest /\ UNCHANGED queue
    /\ UNCHANGED <<profile, comps, generation, sequence, streamed, artifactVars,
                   watchdogVars, processVars, requests, faults>>

\* Any other answer is logged; the snapshot stays unconfirmed.
ReceiveError ==
    /\ Waits
    /\ reply # None
    /\ reply.kind = "Invalid" \/ (reply.kind = "Resync" /\ spc = "WaitRetry")
    /\ reply' = None
    /\ Rest
    /\ UNCHANGED <<profile, comps, generation, sequence, streamed, artifactVars,
                   watchdogVars, queue, processVars, requests, faults>>

\* The watchdog died before it answered.
ConnectionLost ==
    /\ Waits
    /\ reply = None
    /\ \A i \in 1..Len(queue) : ~queue[i].live
    /\ Rest
    /\ UNCHANGED <<profile, comps, generation, sequence, streamed, artifactVars,
                   watchdogVars, socketVars, processVars, requests, faults>>

Abandon(m) == [kind |-> m.kind, state |-> m.state, live |-> FALSE]
Abandoned == [i \in 1..Len(queue) |-> Abandon(queue[i])]

\* CLIENT_IO_TIMEOUT expires; the watchdog will still handle the request.
TimeOut ==
    /\ Waits
    /\ faults < MaxFaults
    /\ faults' = faults + 1
    /\ queue' = Abandoned
    /\ reply' = None
    /\ Rest
    /\ UNCHANGED <<profile, comps, generation, sequence, streamed, artifactVars,
                   watchdogVars, processVars, requests>>

\* poll_and_restart starts an ended component again.
Restarts(c) == c \in Critical /\ comps[c].restart_count + 1 <= RestartLimit

\* poll: a recovery request that waits is executed (stop and spawn of the bound
\* component), then every component whose process has ended is reaped and
\* restarted or given up.
Poll(out) ==
    LET recovered == IF pending /\ Bound[profile] # None THEN {Bound[profile]} ELSE {}
        ended == exited \ recovered
        Count(c) == comps[c].restart_count + IF c \in ended THEN 1 ELSE 0
        results == [c \in recovered \cup {e \in ended : Restarts(e)} |->
                       Spawn(c, IF comps[c].state = "Missing" THEN "Missing" ELSE out[c],
                             Count(c))]
    IN
    /\ spc = "Idle"
    /\ pending \/ exited # {}
    /\ \A c \in DOMAIN results : comps[c].state # "Missing" => out[c] # "Missing"
    /\ comps' = [c \in DOMAIN comps |->
                   IF c \in DOMAIN results THEN results[c]
                   ELSE IF c \in ended
                        THEN [state |-> "Failed", pid |-> 0, restart_count |-> Count(c)]
                        ELSE comps[c]]
    /\ started' = Started(results)
    /\ exited' = {}
    /\ pending' = FALSE
    /\ spc' = "Snapshot"
    /\ UNCHANGED <<profile, generation, sequence, streamed, serving, active, authority, launch,
                   watchdogVars, socketVars, inspection, requests, faults>>

\* A restart request the watchdog has accepted becomes an artifact (see the
\* resume scenario); a second one before the first is executed replaces it.
RequestRecovery ==
    /\ requests < MaxRequests
    /\ requests' = requests + 1
    /\ pending' = TRUE
    /\ UNCHANGED <<sessionVars, active, authority, launch, watchdogVars, socketVars,
                   processVars, faults>>

SessiondCrash ==
    /\ spc # "Down"
    /\ faults < MaxFaults
    /\ faults' = faults + 1
    /\ Stopped
    /\ queue' = Abandoned
    /\ reply' = None
    /\ UNCHANGED <<artifactVars, watchdogVars, started, inspection, requests>>

-----------------------------------------------------------------------------
(* watchdog *)

\* inspect_launch_state: status and action of every component.
Health(cs) ==
    [c \in DOMAIN cs |-> Inspect(cs[c], c \in Critical, process_exists(c, cs[c].pid))]

\* build_response: a report about the merged state, or about the cached one if
\* the request was ignored.
ReplyTo(m) ==
    LET outcome == Outcome(m) IN
    [kind |-> IF outcome \in {"Accepted", "Ignored"} THEN "Report" ELSE outcome,
     profile |-> m.state.profile,
     report |-> IF outcome = "Accepted" THEN Health(Merged(m).comps)
                ELSE IF outcome = "Ignored" THEN Health(Cached(m).comps)
                ELSE <<>>]

\* handle_client: the oldest connection is served; the answer reaches sessiond
\* if it still waits.
HandleRequest ==
    /\ up
    /\ queue # <<>>
    /\ cache' = NextCache(Head(queue))
    /\ reply' = IF Head(queue).live THEN ReplyTo(Head(queue)) ELSE reply
    /\ queue' = Tail(queue)
    /\ UNCHANGED <<sessionVars, artifactVars, up, processVars, requests, faults>>

(* A watchdog that is started once *)

\* load_launch_states and inspect_launch_state on the artifact.  alive: the
\* components whose recorded process an earlier sessiond has left behind.
InspectOnce(alive) ==
    /\ inspection = None
    /\ launch # None
    /\ requests < MaxRequests
    /\ requests' = requests + 1
    /\ inspection' = [profile |-> launch.profile, comps |-> launch.comps,
                      report |-> [c \in DOMAIN launch.comps |->
                          Inspect(launch.comps[c], c \in Critical,
                                  c \in alive \/ process_exists(c, launch.comps[c].pid))]]
    /\ UNCHANGED <<sessionVars, artifactVars, watchdogVars, socketVars, started, exited, faults>>

\* notify_sessiond cannot connect, or sessiond ends before it answers.
ReportLost ==
    /\ inspection # None
    /\ spc = "Down"
    /\ inspection' = None
    /\ UNCHANGED <<sessionVars, artifactVars, watchdogVars, socketVars, started, exited,
                   requests, faults>>

\* ApplyWatchdogReport: a report about the active profile is acted on.  It may
\* be about an earlier run of that profile.
AcceptsReport == inspection.profile = profile /\ WantsDegrade(inspection) /\ CanDegrade

\* The answer is ProfileUnchanged, for whatever reason.
ReportUnchanged ==
    /\ inspection # None
    /\ spc = "Idle"
    /\ ~AcceptsReport
    /\ inspection' = None
    /\ UNCHANGED <<sessionVars, artifactVars, watchdogVars, socketVars, started, exited,
                   requests, faults>>

\* persist_watchdog_apply_outcome: as ReceiveDegrade, within the request.
ReportDegrades ==
    /\ inspection # None
    /\ spc = "Idle"
    /\ AcceptsReport
    /\ active' = DegradedProfile[profile]
    /\ inspection' = None
    /\ serving' = TRUE
    /\ spc' = "Switch"
    /\ UNCHANGED <<profile, comps, generation, sequence, streamed, authority, launch, pending,
                   watchdogVars, socketVars, started, exited, requests, faults>>

-----------------------------------------------------------------------------
(* The watchdog as a service *)

WatchdogStart ==
    /\ ~up
    /\ up' = TRUE
    /\ UNCHANGED <<sessionVars, artifactVars, cache, socketVars, processVars,
                   requests, faults>>

\* The cache lives in memory only; unserved connections are reset.
WatchdogCrash ==
    /\ up
    /\ faults < MaxFaults
    /\ faults' = faults + 1
    /\ up' = FALSE
    /\ cache' = EmptyCache
    /\ queue' = <<>>
    /\ UNCHANGED <<sessionVars, artifactVars, reply, processVars, requests>>

-----------------------------------------------------------------------------

Supervise ==
    \/ \E out \in [Components -> Outcomes] : Bootstrap(out) \/ Switch(out) \/ Poll(out)
    \/ PersistSnapshot
    \/ NotifySend \/ NotifyFails
    \/ ReceiveReport \/ ReceiveDegrade \/ DegradeFails \/ DegradeRefused
    \/ ReportUnchanged \/ ReportDegrades
    \/ ReceiveResync \/ ReceiveError \/ ConnectionLost

Next ==
    \/ Supervise
    \/ HandleRequest
    \/ WatchdogStart
    \/ \E c \in Components : ProcessExit(c)
    \/ RequestRecovery
    \/ \E alive \in SUBSET Components : InspectOnce(alive)
    \/ ReportLost
    \/ TimeOut \/ SessiondCrash \/ WatchdogCrash

\* sessiond and the watchdog are loops that never block for good, and the
\* service manager starts the watchdog again.  Nothing forces a component to
\* exit, a request to be made or a fault to happen.
Spec ==
    Init /\ [][Next]_vars /\ WF_vars(Supervise) /\ WF_vars(HandleRequest) /\ WF_vars(WatchdogStart)

-----------------------------------------------------------------------------
(* Properties *)

\* Every variable has its type; a sessiond that runs has all components of its
\* profile, and only a sessiond that waits has a reply to read.
TypeOK ==
    /\ spc \in {"Down", "Snapshot", "Notify", "Wait", "WaitRetry", "Idle", "Switch"}
    /\ profile \in Profiles
    /\ DOMAIN comps = IF spc = "Down" THEN {} ELSE SessionComponents[profile]
    /\ \A c \in DOMAIN comps : comps[c] \in ComponentState
    /\ generation \in 0..MaxGeneration
    /\ sequence \in Nat
    /\ active \in Profiles
    /\ authority \in [generation : Nat, sequence : Nat]
    /\ pending \in BOOLEAN
    /\ serving \in BOOLEAN /\ (spc \in {"Down", "Idle"} => ~serving)
    /\ launch # None => launch.profile \in Profiles
    /\ inspection # None => DOMAIN inspection.report = SessionComponents[inspection.profile]
    /\ up \in BOOLEAN
    /\ DOMAIN cache = Profiles /\ Cardinality(CachedProfiles) <= MaxCachedStates
    /\ reply # None => Waits /\ reply.kind \in {"Report", "Resync", "Invalid"}
    /\ started \in [Components -> Nat]
    /\ exited \subseteq Children
    /\ requests \in 0..MaxRequests
    /\ faults \in 0..MaxFaults

\* Everything the watchdog has cached or has still to read carries a stamp the
\* authority artifact has covered, so that a sessiond that dies at any point
\* and restarts from the artifact never repeats a stamp for another state
\* (write_snapshot persists before it notifies).
AuthorityCoversStream ==
    /\ \A p \in Profiles : cache[p] # None => ~Older(authority, cache[p])
    /\ \A i \in 1..Len(queue) : ~Older(authority, queue[i].state)

\* A stream starts under a generation the watchdog has not seen, whichever
\* sessiond or profile the queued and cached states come from
\* (load_session_authority_generation, switch_to).
NewStreamIsUnseen ==
    spc \notin {"Down", "Switch"} /\ sequence = 0 =>
        /\ \A p \in Profiles : cache[p] # None => cache[p].generation < generation
        /\ \A i \in 1..Len(queue) : queue[i].state.generation < generation

\* The verdict sessiond acts on is the one its own snapshot deserves, although
\* the watchdog pieced its copy together from deltas some of which sessiond
\* believes lost (watchdog_stream_command against apply_delta and
\* inspect_launch_state).
VerdictAgrees ==
    Waits /\ reply # None /\ reply.kind = "Report" =>
        reply.profile = profile /\ reply.report = Health(comps)

\* One full resend repairs the stream: the watchdog never asks for a second
\* resync of the same snapshot (notify_watchdog treats that as an error).
ResyncConverges ==
    spc = "WaitRetry" /\ reply # None => reply.kind # "Resync"

\* What sessiond reads from the watchdog it can act on: the variables have their
\* types, the cache stays within MAX_CACHED_STATES, a report is about the snapshot
\* it answers and a resync is asked for once (notify_watchdog).
AnswersAgree == TypeOK /\ VerdictAgrees /\ ResyncConverges

\* A critical component of cs cannot be started or has crashed too often, and is
\* not among those that run.
Lost(cs, running) ==
    \E c \in (Critical \cap DOMAIN cs) \ running :
        cs[c].state = "Missing" \/ cs[c].restart_count >= CrashLoop

\* What an inspection has found running.
InspectedRunning ==
    {c \in DOMAIN inspection.report : inspection.report[c].status = "Healthy"}

\* sessiond leaves a profile only when it has lost a critical component of it: by its
\* own snapshot, with no process of that component left (apply_watchdog_stream_report),
\* or by the snapshot and processes a watchdog has inspected (ApplyWatchdogReport):
\* then of the same profile, and nothing says that the component was not started
\* again since.
DegradeIsJustified ==
    [][active' # active =>
         \/ Lost(comps, Children)
         \/ /\ spc = "Idle" /\ inspection.profile = profile
            /\ Lost(inspection.comps, InspectedRunning)]_vars

\* A critical component of profile p the supervisor has given up for good.
GivenUp(p) ==
    /\ profile = p
    /\ \E c \in Critical \cap DOMAIN comps :
          comps[c].state = "Failed" /\ comps[c].restart_count >= CrashLoop

\* As long as the watchdog runs, a profile whose critical component was given
\* up is left for its degraded profile, or a recovery request has started the
\* component again (write_snapshot, apply_watchdog_stream_report, switch_to).
GivenUpLeadsToDegrade ==
    [](up /\ faults = 0) => \A p \in Profiles :
                DegradedProfile[p] \in Profiles \ {p} => (GivenUp(p) ~> ~GivenUp(p))
=============================================================================
