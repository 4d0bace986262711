------------------------------- MODULE Watchdog -------------------------------
(***************************************************************************)
(* The launch-state cache of the watchdog (crates/watchdog/src/main.rs):   *)
(* what it does with a full launch state or with a delta, and what it      *)
(* concludes about a component.  LaunchDelivery puts the cache behind an   *)
(* unreliable stream, LaunchStream connects it to sessiond.                *)
(***************************************************************************)
EXTENDS Naturals, FiniteSets

CONSTANTS
    Profiles,        \* desktop profiles of the session
    Components,      \* component ids of all profiles
    None,            \* no value
    MaxCachedStates, \* MAX_CACHED_STATES
    CrashLoop        \* restart_count at which component_action gives up (3)

ASSUME CacheAssumption ==
    /\ MaxCachedStates \in Nat
    /\ CrashLoop \in Nat

VARIABLE cache       \* cached_states, by profile

\* A SessionLaunchState: the profile, the stamp and the component states.
LaunchState(p, g, s, cs) ==
    [profile |-> p, generation |-> g, sequence |-> s, comps |-> cs]

Older(a, b) ==
    \/ a.generation < b.generation
    \/ a.generation = b.generation /\ a.sequence < b.sequence

\* A request m carries m.state, which is all of a launch state (kind "Full":
\* InspectLaunchState; kind "Replace": a delta with replace set) or only the
\* changed components (kind "Delta").
Cached(m) == cache[m.state.profile]

\* Mutant: stamps are compared by sequence alone.
MutStale(m) ==
    /\ Cached(m) # None
    /\ m.state.sequence <= Cached(m).sequence

\* The request is not newer than the cache: an older or an identical full
\* state, or a delta that does not move the stamp forward.
Stale(m) ==
    /\ Cached(m) # None
    /\ IF m.kind = "Full"
       THEN Older(m.state, Cached(m)) \/ m.state = Cached(m)
       ELSE ~Older(Cached(m), m.state)

\* Mutant: a gap in the sequence goes unnoticed.
MutGap(m) ==
    IF Cached(m) = None THEN m.kind # "Full"
    ELSE IF m.kind = "Full" THEN ~Older(Cached(m), m.state)
    ELSE /\ m.state.generation > Cached(m).generation
         /\ m.kind # "Replace"

\* The request does not fit the cache: nothing to merge a delta into, another
\* full state under the same stamp, a new generation that is not a full
\* replacement with sequence 1, or a gap in the sequence.
Gap(m) ==
    IF Cached(m) = None THEN m.kind # "Full"
    ELSE IF m.kind = "Full" THEN ~Older(Cached(m), m.state)
    ELSE IF m.state.generation > Cached(m).generation
         THEN m.kind # "Replace" \/ m.state.sequence # 1
         ELSE m.state.sequence # Cached(m).sequence + 1

CachedProfiles == {p \in Profiles : cache[p] # None}

\* A state of another profile, and the cache is full.
OverCapacity(m) ==
    Cached(m) = None /\ Cardinality(CachedProfiles) >= MaxCachedStates

\* StateUpdateOutcome of cache_full_state and apply_delta.
Outcome(m) ==
    IF Stale(m) THEN "Ignored"
    ELSE IF Gap(m) THEN "Resync"
    ELSE IF OverCapacity(m) THEN "Invalid"
    ELSE "Accepted"

\* Mutant: a delta replaces the whole state.
MutMerged(m) == m.state

\* The launch state an accepted request leads to: a delta puts the changed
\* components over the cached ones.
Merged(m) ==
    LET Both == DOMAIN Cached(m).comps \cup DOMAIN m.state.comps
    IN IF m.kind # "Delta" THEN m.state
       ELSE LaunchState(m.state.profile, m.state.generation, m.state.sequence,
                [c \in Both |-> IF c \in DOMAIN m.state.comps THEN m.state.comps[c]
                                ELSE Cached(m).comps[c]])

\* The cache after the request has been handled.
NextCache(m) ==
    IF Outcome(m) = "Accepted"
    THEN [cache EXCEPT ![m.state.profile] = Merged(m)]
    ELSE cache

EmptyCache == [p \in Profiles |-> None]

-----------------------------------------------------------------------------

\* Mutant: one crash more than the supervisor allows.
MutComponentAction(critical, restarts) ==
    IF ~critical THEN "None"
    ELSE IF restarts > CrashLoop THEN "DegradedProfile"
    ELSE "RestartComponent"

\* component_action
ComponentAction(critical, restarts) ==
    IF ~critical THEN "None"
    ELSE IF restarts >= CrashLoop THEN "DegradedProfile"
    ELSE "RestartComponent"

\* inspect_component: status and action for component state cs, where exists
\* says whether /proc has its process.
Inspect(cs, critical, exists) ==
    IF cs.state = "Missing"
    THEN [status |-> "Unhealthy",
          action |-> IF critical THEN "DegradedProfile" ELSE "None"]
    ELSE IF cs.state = "Spawned" /\ exists
    THEN [status |-> "Healthy", action |-> "None"]
    ELSE [status |-> "Unhealthy",
          action |-> ComponentAction(critical, cs.restart_count)]
=============================================================================
