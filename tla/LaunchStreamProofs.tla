-------------------------- MODULE LaunchStreamProofs --------------------------
(***************************************************************************)
(* The stamps of the health stream, for every set of profiles and          *)
(* components, every limit and any number of crashes: what the watchdog    *)
(* holds or will read is covered by the durable authority artifact, and a  *)
(* new stream starts under a generation nobody has seen.  The answers that *)
(* sessiond reads are those its snapshots deserve, and a profile is left   *)
(* only for a snapshot that lost a critical component.                     *)
(***************************************************************************)
EXTENDS LaunchStream, LaunchDelivery, FiniteSetTheorems, TLAPS

USE ProfilesAssumption, OutcomesAssumption, LimitsAssumption

\* Types of what the argument is about.
StreamType ==
    /\ spc \in {"Down", "Snapshot", "Notify", "Wait", "WaitRetry", "Idle", "Switch"}
    /\ profile \in Profiles
    /\ active \in Profiles
    /\ comps \in CompStates
    /\ generation \in Nat
    /\ sequence \in Nat
    /\ authority \in [generation : Nat, sequence : Nat]
    /\ cache \in [Profiles -> LaunchStates \cup {None}]
    /\ queue \in Seq(Messages)
    /\ started \in [Components -> Nat]

\* The artifact holds the numbers in memory from the moment the snapshot is
\* written; a stream without a snapshot has a generation beyond the artifact's.
AuthorityAgrees ==
    /\ spc \notin {"Down", "Snapshot"} =>
           authority = Stamp(generation, sequence) /\ sequence > 0
    /\ spc = "Snapshot" =>
           IF sequence = 0 THEN authority.generation < generation
           ELSE authority = Stamp(generation, sequence)

StreamInv == StreamType /\ AuthorityAgrees /\ AuthorityCoversStream

-----------------------------------------------------------------------------
(* Types of the operators *)

\* A function on components with component states as values is a member of
\* CompStates, and every member is one.
LEMMA CompStatesIntro ==
    ASSUME NEW D \in SUBSET Components, NEW f \in [D -> ComponentState]
    PROVE  f \in CompStates
  BY DEF CompStates

\* The other direction.
LEMMA CompStatesElim ==
    ASSUME NEW f \in CompStates
    PROVE  /\ DOMAIN f \in SUBSET Components
           /\ f \in [DOMAIN f -> ComponentState]
  BY DEF CompStates

\* Spawning gives a component state.
LEMMA SpawnType ==
    ASSUME StreamType, NEW c \in Components, NEW outcome \in {"Spawned", "Failed", "Missing"},
           NEW n \in Nat
    PROVE  Spawn(c, outcome, n) \in ComponentState
  BY DEF StreamType, Spawn, ComponentState

\* Starting processes only counts them.
LEMMA StartedType ==
    ASSUME StreamType, NEW results
    PROVE  Started(results) \in [Components -> Nat]
  BY DEF StreamType, Started

\* A merged launch state has the stamp of the request.
LEMMA MergedType ==
    ASSUME StreamType, NEW m \in Messages, Outcome(m) = "Accepted"
    PROVE  /\ Merged(m) \in LaunchStates
           /\ Merged(m).generation = m.state.generation
           /\ Merged(m).sequence = m.state.sequence
<1>0. m.state \in LaunchStates
  BY DEF Messages
<1>1. CASE m.kind # "Delta"
  BY <1>0, <1>1 DEF Merged
<1>2. CASE m.kind = "Delta"
  <2> DEFINE old == Cached(m).comps
             new == m.state.comps
             f == [c \in DOMAIN old \cup DOMAIN new |->
                      IF c \in DOMAIN new THEN new[c] ELSE old[c]]
  <2>1. Cached(m) # None
    BY <1>2 DEF Outcome, Gap
  <2>2. m.state.profile \in Profiles
    BY <1>0 DEF LaunchStates
  <2>3. old \in CompStates /\ new \in CompStates
    BY <1>0, <2>1, <2>2 DEF StreamType, Cached, LaunchStates
  <2> HIDE DEF old, new
  <2>4. /\ DOMAIN old \in SUBSET Components /\ old \in [DOMAIN old -> ComponentState]
        /\ DOMAIN new \in SUBSET Components /\ new \in [DOMAIN new -> ComponentState]
    BY <2>3, CompStatesElim
  <2>5. f \in [DOMAIN old \cup DOMAIN new -> ComponentState]
    BY <2>4
  <2>6. f \in CompStates
    BY <2>4, <2>5, CompStatesIntro
  <2> HIDE DEF f
  <2>7. Merged(m) = LaunchState(m.state.profile, m.state.generation, m.state.sequence, f)
    BY <1>2 DEF Merged, old, new, f
  <2> QED BY <1>0, <2>6, <2>7 DEF LaunchState, LaunchStates
<1> QED BY <1>1, <1>2

\* What sessiond sends is a request with the stamp in memory.
LEMMA MessageType ==
    ASSUME StreamType, NEW kind \in {"Full", "Replace", "Delta"}, NEW cs \in CompStates
    PROVE  /\ Message(kind, cs) \in Messages
           /\ Message(kind, cs).state.generation = generation
           /\ Message(kind, cs).state.sequence = sequence
  BY DEF StreamType, Message, LaunchState, Messages, LaunchStates

\* So is the command watchdog_stream_command chooses.
LEMMA CommandType ==
    ASSUME StreamType
    PROVE  /\ StreamCommand \in Messages
           /\ StreamCommand.state.generation = generation
           /\ StreamCommand.state.sequence = sequence
<1>1. comps \in CompStates
  BY DEF StreamType
<1>2. DOMAIN comps \in SUBSET Components /\ comps \in [DOMAIN comps -> ComponentState]
  BY <1>1, CompStatesElim
<1>3. Changed \in SUBSET Components /\ [c \in Changed |-> comps[c]] \in [Changed -> ComponentState]
  BY <1>2 DEF Changed
<1>4. [c \in Changed |-> comps[c]] \in CompStates
  BY <1>3, CompStatesIntro
<1> QED BY <1>1, <1>4, MessageType DEF StreamCommand

\* Abandoned requests keep their stamps.
LEMMA AbandonedType ==
    ASSUME StreamType
    PROVE  /\ Abandoned \in Seq(Messages)
           /\ Len(Abandoned) = Len(queue)
           /\ \A i \in 1..Len(queue) : Abandoned[i].state = queue[i].state
<1>1. queue \in Seq(Messages)
  BY DEF StreamType
<1>2. \A m \in Messages : Abandon(m) \in Messages /\ Abandon(m).state = m.state
  BY DEF Abandon, Messages
<1>3. Abandoned \in [1..Len(queue) -> Messages]
  BY <1>1, <1>2 DEF Abandoned
<1>4. Abandoned \in Seq(Messages) /\ Len(Abandoned) = Len(queue)
  BY <1>1, <1>3
<1>5. \A i \in 1..Len(queue) : Abandoned[i].state = queue[i].state
  BY <1>1, <1>2 DEF Abandoned
<1> QED BY <1>4, <1>5

-----------------------------------------------------------------------------
(* Induction *)

\* No snapshot has been sent, nothing is cached.
LEMMA InitStreamInv == Init => StreamInv
<1> SUFFICES ASSUME Init PROVE StreamInv
  OBVIOUS
<1>1. <<>> \in CompStates
  <2>1. <<>> \in [{} -> ComponentState]
    OBVIOUS
  <2> QED BY <2>1, CompStatesIntro
<1>2. StreamType
  BY <1>1 DEF Init, StreamType, EmptyCache, Stamp
<1>3. AuthorityAgrees
  BY DEF Init, AuthorityAgrees
<1>4. AuthorityCoversStream
  BY DEF Init, AuthorityCoversStream, EmptyCache
<1> QED BY <1>2, <1>3, <1>4 DEF StreamInv

\* Numbers, cache and queue are as before; sessiond may move between two
\* points at which artifact and memory agree, and comps may change.
LEMMA QuietStep ==
    ASSUME StreamInv,
           spc' \in {"Notify", "Wait", "WaitRetry", "Idle", "Switch", "Snapshot"},
           spc \notin {"Down", "Snapshot"},
           UNCHANGED <<generation, sequence, authority, cache, profile>>,
           active' \in Profiles,
           comps' \in CompStates,
           queue' \in Seq(Messages),
           \A i \in 1..Len(queue') : ~Older(authority, queue'[i].state),
           started' \in [Components -> Nat]
    PROVE  StreamInv'
<1>1. StreamType'
  BY DEF StreamInv, StreamType
<1>2. AuthorityAgrees'
  BY DEF StreamInv, StreamType, AuthorityAgrees, Stamp
<1>3. AuthorityCoversStream'
  BY DEF StreamInv, AuthorityCoversStream
<1> QED BY <1>1, <1>2, <1>3 DEF StreamInv

\* A stream under a generation beyond the artifact's.
LEMMA NewStreamStep ==
    ASSUME StreamInv, NEW p \in Profiles, NEW g \in Nat, NEW out \in [Components -> Outcomes],
           NewStream(p, g, out), g > authority.generation,
           UNCHANGED <<artifactVars, watchdogVars, socketVars>>
    PROVE  StreamInv'
<1>1. StreamType
  BY DEF StreamInv
<1>2. Launch(p, out) \in CompStates
  <2>1. SessionComponents[p] \in SUBSET Components
    OBVIOUS
  <2>2. \A c \in SessionComponents[p] : out[c] \in {"Spawned", "Failed", "Missing"}
    BY <2>1
  <2>3. \A c \in SessionComponents[p] : Spawn(c, out[c], 0) \in ComponentState
    BY <1>1, <2>1, <2>2, SpawnType
  <2>4. Launch(p, out) \in [SessionComponents[p] -> ComponentState]
    BY <2>3 DEF Launch
  <2> QED BY <2>1, <2>4, CompStatesIntro
<1>3. started' \in [Components -> Nat]
  BY <1>1, StartedType DEF NewStream
<1>4. StreamType'
  BY <1>1, <1>2, <1>3 DEF StreamType, NewStream, artifactVars, watchdogVars, socketVars
<1>5. AuthorityAgrees'
  BY DEF AuthorityAgrees, NewStream, artifactVars
<1>6. AuthorityCoversStream'
  BY DEF StreamInv, AuthorityCoversStream, artifactVars, watchdogVars, socketVars
<1> QED BY <1>4, <1>5, <1>6 DEF StreamInv

\* sessiond stops: only what the artifact has is left of it.
LEMMA StoppedStep ==
    ASSUME StreamInv, Stopped, UNCHANGED <<artifactVars, watchdogVars, started>>,
           queue' = queue \/ queue' = Abandoned
    PROVE  StreamInv'
<1>1. StreamType
  BY DEF StreamInv
<1>2. queue' \in Seq(Messages) /\ Len(queue') = Len(queue)
  BY <1>1, AbandonedType DEF StreamType
<1>3. \A i \in 1..Len(queue) : queue'[i].state = queue[i].state
  BY <1>1, AbandonedType
<1>4. <<>> \in CompStates
  <2>1. <<>> \in [{} -> ComponentState]
    OBVIOUS
  <2> QED BY <2>1, CompStatesIntro
<1>5. StreamType'
  BY <1>1, <1>2, <1>4 DEF StreamType, Stopped, artifactVars, watchdogVars
<1>6. AuthorityAgrees'
  BY DEF AuthorityAgrees, Stopped
<1>7. AuthorityCoversStream'
  BY <1>2, <1>3 DEF StreamInv, AuthorityCoversStream, artifactVars, watchdogVars
<1> QED BY <1>5, <1>6, <1>7 DEF StreamInv

\* The snapshot gets the next number before anybody is told.
LEMMA PersistStep == StreamInv /\ PersistSnapshot => StreamInv'
<1> SUFFICES ASSUME StreamInv, PersistSnapshot PROVE StreamInv'
  OBVIOUS
<1>1. StreamType'
  BY DEF StreamInv, StreamType, PersistSnapshot, Stamp, watchdogVars, socketVars, processVars
<1>2. AuthorityAgrees'
  BY DEF StreamInv, StreamType, AuthorityAgrees, PersistSnapshot, Stamp
<1>3. AuthorityCoversStream'
  <2>1. Older(authority, authority')
    BY DEF StreamInv, StreamType, AuthorityAgrees, PersistSnapshot, Stamp, Older
  <2>2. \A s \in LaunchStates : ~Older(authority, s) => ~Older(authority', s)
    BY <2>1, <1>1 DEF StreamInv, StreamType, Older, LaunchStates
  <2>3. \A p \in Profiles : cache[p] # None => cache[p] \in LaunchStates
    BY DEF StreamInv, StreamType
  <2>4. \A i \in 1..Len(queue) : queue[i].state \in LaunchStates
    <3>1. \A i \in 1..Len(queue) : queue[i] \in Messages
      BY DEF StreamInv, StreamType
    <3> QED BY <3>1 DEF Messages
  <2> QED BY <2>2, <2>3, <2>4
          DEF StreamInv, AuthorityCoversStream, PersistSnapshot, watchdogVars, socketVars
<1> QED BY <1>1, <1>2, <1>3 DEF StreamInv

\* A request sessiond puts in the queue carries the stamp the artifact has.
LEMMA AppendCovered ==
    ASSUME StreamInv, spc \notin {"Down", "Snapshot"}, NEW m \in Messages,
           m.state.generation = generation, m.state.sequence = sequence
    PROVE  /\ Append(queue, m) \in Seq(Messages)
           /\ \A i \in 1..Len(Append(queue, m)) : ~Older(authority, Append(queue, m)[i].state)
<1>1. queue \in Seq(Messages)
  BY DEF StreamInv, StreamType
<1>2. ~Older(authority, m.state)
  BY DEF StreamInv, StreamType, AuthorityAgrees, Stamp, Older
<1>3. \A i \in 1..Len(Append(queue, m)) :
          \/ Append(queue, m)[i] = m
          \/ i \in 1..Len(queue) /\ Append(queue, m)[i] = queue[i]
  BY <1>1
<1>4. \A i \in 1..Len(queue) : ~Older(authority, queue[i].state)
  BY DEF StreamInv, AuthorityCoversStream
<1> QED BY <1>1, <1>2, <1>3, <1>4

\* The watchdog caches the stamp of the request it has read.
LEMMA HandleStep == StreamInv /\ HandleRequest => StreamInv'
<1> SUFFICES ASSUME StreamInv, HandleRequest PROVE StreamInv'
  OBVIOUS
<1> DEFINE m == Head(queue)
<1>1. StreamType
  BY DEF StreamInv
<1>2. queue \in Seq(Messages) /\ queue # <<>>
  BY DEF StreamInv, StreamType, HandleRequest
<1>3. /\ m \in Messages /\ m = queue[1] /\ 1 \in 1..Len(queue)
      /\ queue' \in Seq(Messages)
      /\ \A i \in 1..Len(queue') : i + 1 \in 1..Len(queue) /\ queue'[i] = queue[i + 1]
  BY <1>2 DEF HandleRequest
<1>4. ~Older(authority, m.state)
  BY <1>3 DEF StreamInv, AuthorityCoversStream
<1> HIDE DEF m
<1>5. cache' \in [Profiles -> LaunchStates \cup {None}]
      /\ \A p \in Profiles : cache'[p] # None => ~Older(authority, cache'[p])
  <2>1. cache' = NextCache(m)
    BY DEF HandleRequest, m
  <2>2. CASE Outcome(m) = "Accepted"
    <3>1. m.state.profile \in Profiles
      BY <1>3 DEF Messages, LaunchStates
    <3>2. /\ Merged(m) \in LaunchStates
          /\ Merged(m).generation = m.state.generation
          /\ Merged(m).sequence = m.state.sequence
      BY <1>1, <1>3, <2>2, MergedType
    <3>3. ~Older(authority, Merged(m))
      BY <1>4, <3>2 DEF Older
    <3>4. cache' = [cache EXCEPT ![m.state.profile] = Merged(m)]
      BY <2>1, <2>2 DEF NextCache
    <3>5. cache \in [Profiles -> LaunchStates \cup {None}]
          /\ \A p \in Profiles : cache[p] # None => ~Older(authority, cache[p])
      BY DEF StreamInv, StreamType, AuthorityCoversStream
    <3> QED BY <3>1, <3>2, <3>3, <3>4, <3>5
  <2>3. CASE Outcome(m) # "Accepted"
    BY <2>1, <2>3 DEF NextCache, StreamInv, StreamType, AuthorityCoversStream
  <2> QED BY <2>2, <2>3
<1>6. UNCHANGED <<spc, profile, comps, generation, sequence, active, authority, started>>
  BY DEF HandleRequest, sessionVars, artifactVars, processVars
<1>7. StreamType'
  BY <1>1, <1>3, <1>5, <1>6 DEF StreamType
<1>8. AuthorityAgrees'
  BY <1>6 DEF StreamInv, AuthorityAgrees
<1>9. AuthorityCoversStream'
  BY <1>3, <1>5, <1>6 DEF StreamInv, AuthorityCoversStream
<1> QED BY <1>7, <1>8, <1>9 DEF StreamInv

\* Reaping and restarting keep the component states typed.
LEMMA PollType ==
    ASSUME StreamType, NEW out \in [Components -> Outcomes], Poll(out)
    PROVE  comps' \in CompStates /\ started' \in [Components -> Nat]
<1> DEFINE recovered == IF pending /\ Bound[profile] # None THEN {Bound[profile]} ELSE {}
           ended == exited \ recovered
           Count(c) == comps[c].restart_count + IF c \in ended THEN 1 ELSE 0
           results == [c \in recovered \cup {e \in ended : Restarts(e)} |->
                          Spawn(c, IF comps[c].state = "Missing" THEN "Missing" ELSE out[c],
                                Count(c))]
           Given(c) == [state |-> "Failed", pid |-> 0, restart_count |-> Count(c)]
<1>1. started' \in [Components -> Nat]
  BY StartedType DEF Poll
<1>2. comps \in CompStates
  BY DEF StreamType
<1>3. DOMAIN comps \in SUBSET Components /\ comps \in [DOMAIN comps -> ComponentState]
  BY <1>2, CompStatesElim
<1>4. comps' = [c \in DOMAIN comps |-> IF c \in DOMAIN results THEN results[c]
                                      ELSE IF c \in ended THEN Given(c) ELSE comps[c]]
  BY DEF Poll
<1>5. \A c \in DOMAIN comps : Count(c) \in Nat
  BY <1>3 DEF ComponentState
<1> HIDE DEF Count, ended, recovered
<1>6. \A c \in DOMAIN comps : Given(c) \in ComponentState
  BY <1>5 DEF ComponentState
<1>7. \A c \in DOMAIN comps \cap DOMAIN results : results[c] \in ComponentState
  <2> TAKE c \in DOMAIN comps \cap DOMAIN results
  <2> DEFINE o == IF comps[c].state = "Missing" THEN "Missing" ELSE out[c]
  <2>1. c \in Components /\ o \in {"Spawned", "Failed", "Missing"}
    BY <1>3
  <2>2. Count(c) \in Nat
    BY <1>5
  <2>3. results[c] = Spawn(c, o, Count(c))
    OBVIOUS
  <2> HIDE DEF o, results
  <2> QED BY <2>1, <2>2, <2>3, SpawnType
<1> HIDE DEF results, Given
<1>8. comps' \in [DOMAIN comps -> ComponentState]
  BY <1>3, <1>4, <1>6, <1>7
<1> QED BY <1>1, <1>3, <1>8, CompStatesIntro

\* Every step preserves the invariant.
LEMMA NextStreamInv == StreamInv /\ [Next]_vars => StreamInv'
<1> SUFFICES ASSUME StreamInv, [Next]_vars PROVE StreamInv'
  OBVIOUS
<1> USE DEF sessionVars, artifactVars, watchdogVars, socketVars, processVars
<1>0. StreamType
  BY DEF StreamInv
<1>a. /\ \A i \in 1..Len(queue) : ~Older(authority, queue[i].state)
      /\ \A p \in Profiles : cache[p] # None => ~Older(authority, cache[p])
  BY DEF StreamInv, AuthorityCoversStream
<1>1. ASSUME NEW out \in [Components -> Outcomes], Bootstrap(out) PROVE StreamInv'
  <2>1. active \in Profiles /\ RestoredGeneration \in Nat /\ RestoredGeneration > authority.generation
    BY <1>0 DEF StreamType, RestoredGeneration
  <2> QED BY <1>1, <2>1, NewStreamStep DEF Bootstrap
<1>2. ASSUME NEW out \in [Components -> Outcomes], Switch(out) PROVE StreamInv'
  <2>1. active \in Profiles /\ generation + 1 \in Nat /\ generation + 1 > authority.generation
    BY <1>0, <1>2 DEF StreamInv, StreamType, AuthorityAgrees, Stamp, Switch
  <2> QED BY <1>2, <2>1, NewStreamStep DEF Switch
<1>3. ASSUME NEW out \in [Components -> Outcomes], Poll(out) PROVE StreamInv'
  <2>1. comps' \in CompStates /\ started' \in [Components -> Nat]
    BY <1>0, <1>3, PollType
  <2>2. /\ spc' = "Snapshot" /\ spc = "Idle"
        /\ UNCHANGED <<generation, sequence, authority, cache, profile, active, queue>>
    BY <1>3 DEF Poll
  <2> QED BY <1>0, <1>a, <2>1, <2>2, QuietStep DEF StreamType
<1>4. CASE PersistSnapshot
  BY <1>4, PersistStep
<1>5. CASE NotifySend
  <2>1. spc = "Notify" /\ spc' = "Wait" /\ queue' = Append(queue, StreamCommand)
        /\ UNCHANGED <<generation, sequence, authority, cache, profile, active, comps, started>>
    BY <1>5 DEF NotifySend
  <2>2. queue' \in Seq(Messages) /\ \A i \in 1..Len(queue') : ~Older(authority, queue'[i].state)
    BY <1>0, <2>1, CommandType, AppendCovered
  <2> QED BY <1>0, <2>1, <2>2, QuietStep DEF StreamType
<1>6. CASE NotifyFails \/ ReceiveReport \/ DegradeRefused \/ ReceiveError \/ ConnectionLost
  <2>1. /\ spc \in {"Notify", "Wait", "WaitRetry"} /\ spc' = "Idle"
        /\ UNCHANGED <<generation, sequence, authority, cache, profile, active, comps,
                       started, queue>>
    BY <1>6 DEF NotifyFails, ReceiveReport, DegradeRefused, ReceiveError, ConnectionLost, Waits, Rest
  <2> QED BY <1>0, <1>a, <2>1, QuietStep DEF StreamType
<1>7. CASE ReceiveDegrade
  <2>1. /\ spc \in {"Wait", "WaitRetry"} /\ spc' = "Switch" /\ active' \in Profiles
        /\ UNCHANGED <<generation, sequence, authority, cache, profile, comps, started, queue>>
    BY <1>7 DEF ReceiveDegrade, Waits, CanDegrade
  <2> QED BY <1>0, <1>a, <2>1, QuietStep DEF StreamType
<1>b. CASE ReportDegrades
  <2>1. /\ spc = "Idle" /\ spc' = "Switch" /\ active' \in Profiles
        /\ UNCHANGED <<generation, sequence, authority, cache, profile, comps, started, queue>>
    BY <1>b DEF ReportDegrades, AcceptsReport, CanDegrade
  <2> QED BY <1>0, <1>a, <2>1, QuietStep DEF StreamType
<1>8. CASE DegradeFails
  BY <1>8, StoppedStep DEF DegradeFails
<1>9. CASE ReceiveResync
  <2>1. comps \in CompStates
    BY <1>0 DEF StreamType
  <2>2. /\ spc = "Wait" /\ spc' \in {"WaitRetry", "Idle"}
        /\ queue' = queue \/ queue' = Append(queue, Message("Full", comps))
        /\ UNCHANGED <<generation, sequence, authority, cache, profile, active, comps, started>>
    BY <1>9 DEF ReceiveResync, Rest
  <2>3. queue' \in Seq(Messages) /\ \A i \in 1..Len(queue') : ~Older(authority, queue'[i].state)
    <3>1. CASE queue' = queue
      BY <1>0, <1>a, <3>1 DEF StreamType
    <3>2. CASE queue' = Append(queue, Message("Full", comps))
      BY <1>0, <2>1, <2>2, <3>2, MessageType, AppendCovered
    <3> QED BY <2>2, <3>1, <3>2
  <2> QED BY <1>0, <2>1, <2>2, <2>3, QuietStep DEF StreamType
<1>10. CASE TimeOut
  <2>1. /\ spc \in {"Wait", "WaitRetry"} /\ spc' = "Idle" /\ queue' = Abandoned
        /\ UNCHANGED <<generation, sequence, authority, cache, profile, active, comps, started>>
    BY <1>10 DEF TimeOut, Waits, Rest
  <2>2. queue' \in Seq(Messages) /\ \A i \in 1..Len(queue') : ~Older(authority, queue'[i].state)
    BY <1>0, <1>a, <2>1, AbandonedType
  <2> QED BY <1>0, <2>1, <2>2, QuietStep DEF StreamType
<1>11. CASE SessiondCrash
  BY <1>11, StoppedStep DEF SessiondCrash
<1>12. CASE HandleRequest
  BY <1>12, HandleStep
<1>13. CASE WatchdogCrash
  <2>1. UNCHANGED <<spc, profile, comps, generation, sequence, active, authority, started>>
        /\ cache' = EmptyCache /\ queue' = <<>>
    BY <1>13 DEF WatchdogCrash
  <2>2. StreamType'
    BY <1>0, <2>1 DEF StreamType, EmptyCache
  <2>3. AuthorityAgrees'
    BY <2>1 DEF StreamInv, AuthorityAgrees
  <2>4. AuthorityCoversStream'
    BY <2>1 DEF AuthorityCoversStream, EmptyCache
  <2> QED BY <2>2, <2>3, <2>4 DEF StreamInv
<1>14. CASE \/ WatchdogStart \/ RequestRecovery \/ ReportUnchanged \/ ReportLost
            \/ \E c \in Components : ProcessExit(c)
            \/ \E alive \in SUBSET Components : InspectOnce(alive)
            \/ UNCHANGED vars
  <2>1. UNCHANGED <<spc, profile, comps, generation, sequence, active, authority, started,
                    cache, queue>>
    BY <1>14 DEF WatchdogStart, RequestRecovery, ReportUnchanged, ReportLost, ProcessExit,
                 InspectOnce, vars
  <2>2. StreamType'
    BY <1>0, <2>1 DEF StreamType
  <2>3. AuthorityAgrees'
    BY <2>1 DEF StreamInv, AuthorityAgrees
  <2>4. AuthorityCoversStream'
    BY <2>1 DEF StreamInv, AuthorityCoversStream
  <2> QED BY <2>2, <2>3, <2>4 DEF StreamInv
<1> QED
  BY <1>1, <1>2, <1>3, <1>4, <1>5, <1>6, <1>7, <1>8, <1>9, <1>10, <1>11, <1>12, <1>13, <1>14,
     <1>b
  DEF Next, Supervise

\* The invariant holds in every reachable state.
LEMMA StreamInvariant == Spec => []StreamInv
  BY InitStreamInv, NextStreamInv, PTL DEF Spec

-----------------------------------------------------------------------------

\* For every set of profiles and components and any number of crashes and
\* timeouts, nothing the watchdog holds or will read is ahead of the durable
\* authority artifact (write_snapshot persists before it notifies).
THEOREM AuthorityCoversStreamHolds == Spec => []AuthorityCoversStream
<1>1. StreamInv => AuthorityCoversStream
  BY DEF StreamInv
<1> QED BY <1>1, StreamInvariant, PTL

\* A stream without a snapshot has a generation nobody has seen, however many
\* times sessiond has died, switched profiles or been left without an answer
\* (load_session_authority_generation, switch_to).
THEOREM NewStreamIsUnseenHolds == Spec => []NewStreamIsUnseen
<1>1. StreamInv => NewStreamIsUnseen
  <2> SUFFICES ASSUME StreamInv, spc \notin {"Down", "Switch"}, sequence = 0
               PROVE  /\ \A p \in Profiles : cache[p] # None => cache[p].generation < generation
                      /\ \A i \in 1..Len(queue) : queue[i].state.generation < generation
    BY DEF NewStreamIsUnseen
  <2>1. authority.generation < generation
    BY DEF StreamInv, StreamType, AuthorityAgrees
  <2>2. \A s \in LaunchStates : ~Older(authority, s) => s.generation < generation
    BY <2>1 DEF StreamInv, StreamType, Older, LaunchStates
  <2>3. \A p \in Profiles : cache[p] # None => cache[p] \in LaunchStates
    BY DEF StreamInv, StreamType
  <2>4. \A i \in 1..Len(queue) : queue[i].state \in LaunchStates
    <3>1. \A i \in 1..Len(queue) : queue[i] \in Messages
      BY DEF StreamInv, StreamType
    <3> QED BY <3>1 DEF Messages
  <2> QED BY <2>2, <2>3, <2>4 DEF StreamInv, AuthorityCoversStream
<1> QED BY <1>1, StreamInvariant, PTL
-----------------------------------------------------------------------------
(* The inductive invariant of the answers *)

\* What the types of the stream leave out: a component has a process exactly
\* when it is Spawned, no pid is ahead of the processes started, and a cached
\* state is cached under its profile.
SessionType ==
    /\ DOMAIN comps = IF spc = "Down" THEN {} ELSE SessionComponents[profile]
    /\ \A c \in DOMAIN comps :
          /\ comps[c].pid # 0 <=> comps[c].state = "Spawned"
          /\ comps[c].pid <= started[c]
    /\ generation <= MaxGeneration
    /\ pending \in BOOLEAN
    /\ serving \in BOOLEAN /\ (spc \in {"Down", "Idle"} => ~serving)
    /\ exited \subseteq Children
    /\ up \in BOOLEAN
    /\ requests \in 0..MaxRequests
    /\ faults \in 0..MaxFaults

CacheType ==
    /\ \A p \in Profiles : cache[p] # None => cache[p].profile = p
    /\ IsFiniteSet(CachedProfiles) /\ Cardinality(CachedProfiles) <= MaxCachedStates

\* The launch state on disk is one of a whole profile; an inspection is about it.
ArtifactInv ==
    /\ launch # None =>
          /\ launch.profile \in Profiles
          /\ DOMAIN launch.comps = SessionComponents[launch.profile]
    /\ inspection # None =>
          /\ DOMAIN inspection.comps = SessionComponents[inspection.profile]
          /\ DOMAIN inspection.report = DOMAIN inspection.comps
          /\ \A c \in DOMAIN inspection.report : \E exists \in BOOLEAN :
                inspection.report[c] = Inspect(inspection.comps[c], c \in Critical, exists)

\* Component state v leads to the same verdict as w, the state sessiond has now.
Agrees(v, w) ==
    /\ v.state = "Missing" <=> w.state = "Missing"
    /\ v.restart_count = w.restart_count
    /\ w.state = "Spawned" => v = w

\* Component state v of c is of the current stream and not older than what the
\* watchdog has confirmed: if nothing has changed since, its verdict is the
\* current one.
Reflects(v, c) ==
    /\ v.state = "Missing" <=> comps[c].state = "Missing"
    /\ v.restart_count <= comps[c].restart_count
    /\ streamed # None =>
          /\ streamed.comps[c].restart_count <= v.restart_count
          /\ streamed.comps[c] = comps[c] => Agrees(v, comps[c])

\* What the watchdog holds or will read of the current stream.
OfStream(s) ==
    s.generation = generation =>
        /\ s.profile = profile
        /\ DOMAIN s.comps \subseteq DOMAIN comps
        /\ \A c \in DOMAIN s.comps : Reflects(s.comps[c], c)

Whole(s) == s.generation = generation => DOMAIN s.comps = DOMAIN comps

\* The confirmed state is of the current stream, and older than comps.
StreamedInv ==
    streamed # None =>
        /\ streamed \in LaunchStates
        /\ streamed.profile = profile
        /\ streamed.generation = generation
        /\ DOMAIN streamed.comps = DOMAIN comps
        /\ \A c \in DOMAIN comps :
              /\ streamed.comps[c].restart_count <= comps[c].restart_count
              /\ streamed.comps[c].pid <= started[c]

ReflectInv ==
    /\ spc = "Down" => streamed = None
    /\ StreamedInv
    /\ spc # "Down" =>
          /\ \A p \in Profiles : cache[p] # None => OfStream(cache[p]) /\ Whole(cache[p])
          /\ \A i \in 1..Len(queue) :
                /\ OfStream(queue[i].state)
                /\ queue[i].kind # "Delta" => Whole(queue[i].state)

Behind(s) == Older(s, Stamp(generation, sequence))
CachesBehind == \A p \in Profiles : cache[p] # None => Behind(cache[p])

\* The request sessiond waits for.
Current(m) ==
    /\ m.live
    /\ m.state.profile = profile
    /\ m.state.generation = generation
    /\ m.state.sequence = sequence
    /\ m.kind # "Delta" => m.state.comps = comps
    /\ m.kind = "Delta" => streamed # None /\ m.state.comps = [c \in Changed |-> comps[c]]
    /\ spc = "WaitRetry" => m.kind = "Full"

WaitsForLast ==
    /\ queue # <<>>
    /\ Current(queue[Len(queue)])
    /\ \A i \in 1..(Len(queue) - 1) : ~queue[i].live /\ Behind(queue[i].state)
    /\ CachesBehind

\* The answer r, which sessiond has not read yet, and the cache behind it.
Answers(r) ==
    /\ r.kind \in {"Report", "Resync", "Invalid"}
    /\ r.kind = "Report" =>
          /\ r.profile = profile
          /\ r.report = Health(comps)
          /\ cache[profile] # None =>
                /\ cache[profile].generation = generation
                /\ \A c \in DOMAIN comps : Agrees(cache[profile].comps[c], comps[c])
    /\ r.kind = "Resync" => spc = "Wait" /\ CachesBehind

LiveInv ==
    /\ ~Waits => reply = None /\ \A i \in 1..Len(queue) : ~queue[i].live
    /\ Waits /\ reply = None => queue = <<>> \/ WaitsForLast
    /\ Waits /\ reply # None => queue = <<>> /\ Answers(reply)
    /\ spc = "Notify" => CachesBehind /\ \A i \in 1..Len(queue) : Behind(queue[i].state)

AnswerInv ==
    StreamInv /\ SessionType /\ CacheType /\ ArtifactInv /\ ReflectInv /\ LiveInv

-----------------------------------------------------------------------------
(* Processes and bounds *)

\* What poll does to a component: a Missing one stays Missing, the restarts only
\* grow, a new process has a new pid, and without a process it is not Spawned.
LEMMA PollEffect ==
    ASSUME AnswerInv, NEW out \in [Components -> Outcomes], Poll(out)
    PROVE  /\ comps' \in CompStates
           /\ DOMAIN comps' = DOMAIN comps
           /\ started' \in [Components -> Nat]
           /\ \A c \in Components : started[c] <= started'[c]
           /\ \A c \in DOMAIN comps :
                 /\ comps'[c].state = "Missing" <=> comps[c].state = "Missing"
                 /\ comps[c].restart_count <= comps'[c].restart_count
                 /\ comps'[c].pid # 0 <=> comps'[c].state = "Spawned"
                 /\ comps'[c].pid <= started'[c]
                 /\ \/ comps'[c] = comps[c]
                    \/ comps'[c].pid > started[c]
                    \/ comps'[c].state # "Spawned"
<1> DEFINE recovered == IF pending /\ Bound[profile] # None THEN {Bound[profile]} ELSE {}
           ended == exited \ recovered
           Count(c) == comps[c].restart_count + IF c \in ended THEN 1 ELSE 0
           results == [c \in recovered \cup {e \in ended : Restarts(e)} |->
                          Spawn(c, IF comps[c].state = "Missing" THEN "Missing" ELSE out[c],
                                Count(c))]
           Given(c) == [state |-> "Failed", pid |-> 0, restart_count |-> Count(c)]
<1>1. StreamType /\ SessionType /\ spc = "Idle"
  BY DEF AnswerInv, StreamInv, Poll
<1>2. comps' \in CompStates /\ started' \in [Components -> Nat]
  BY <1>1, PollType
<1>3. comps \in CompStates /\ started \in [Components -> Nat] /\ profile \in Profiles
  BY <1>1 DEF StreamType
<1>4. DOMAIN comps \in SUBSET Components /\ comps \in [DOMAIN comps -> ComponentState]
  BY <1>3, CompStatesElim
<1>5. DOMAIN comps = SessionComponents[profile]
  BY <1>1 DEF SessionType
<1>6. recovered \subseteq DOMAIN comps
  BY <1>3, <1>5
<1>7. exited \subseteq DOMAIN comps /\ \A c \in exited : comps[c].state = "Spawned"
  BY <1>1 DEF SessionType, Children
<1>8. /\ comps' = [c \in DOMAIN comps |-> IF c \in DOMAIN results THEN results[c]
                                         ELSE IF c \in ended THEN Given(c) ELSE comps[c]]
      /\ started' = Started(results)
      /\ \A c \in DOMAIN results : comps[c].state # "Missing" => out[c] # "Missing"
  BY DEF Poll
<1>9. \A c \in Components :
         started'[c] = started[c] + IF c \in DOMAIN results /\ results[c].state = "Spawned"
                                    THEN 1 ELSE 0
  BY <1>8 DEF Started
<1>10. \A c \in Components : started[c] <= started'[c]
  <2> HIDE DEF results
  <2> TAKE c \in Components
  <2>1. started[c] \in Nat
    BY <1>3
  <2>2. started'[c] \in {started[c], started[c] + 1}
    BY <1>9, <2>1
  <2> QED BY <2>1, <2>2
<1>11. ASSUME NEW c \in DOMAIN comps
       PROVE  /\ comps'[c].state = "Missing" <=> comps[c].state = "Missing"
              /\ comps[c].restart_count <= comps'[c].restart_count
              /\ comps'[c].pid # 0 <=> comps'[c].state = "Spawned"
              /\ comps'[c].pid <= started'[c]
              /\ \/ comps'[c] = comps[c]
                 \/ comps'[c].pid > started[c]
                 \/ comps'[c].state # "Spawned"
  <2>1. c \in Components /\ comps[c] \in ComponentState /\ started[c] \in Nat
    BY <1>3, <1>4
  <2>2. /\ comps[c].state \in {"Spawned", "Failed", "Missing"}
        /\ comps[c].restart_count \in Nat /\ comps[c].pid \in Nat
    BY <2>1 DEF ComponentState
  <2>3. /\ comps[c].pid # 0 <=> comps[c].state = "Spawned"
        /\ comps[c].pid <= started[c]
    BY <1>1 DEF SessionType
  <2>4. Count(c) \in Nat /\ comps[c].restart_count <= Count(c)
    BY <2>2
  <2>5. CASE c \in DOMAIN results
    <3> DEFINE o == IF comps[c].state = "Missing" THEN "Missing" ELSE out[c]
    <3>1. o \in {"Spawned", "Failed", "Missing"} /\ (o = "Missing" <=> comps[c].state = "Missing")
      BY <1>8, <2>1, <2>5
    <3>2. results[c] = Spawn(c, o, Count(c))
      BY <2>5
    <3> HIDE DEF o, Count, results
    <3>3. comps'[c] = Spawn(c, o, Count(c))
      BY <1>8, <2>5, <3>2
    <3>4. /\ comps'[c].state = o /\ comps'[c].restart_count = Count(c)
          /\ comps'[c].pid = IF o = "Spawned" THEN started[c] + 1 ELSE 0
      BY <3>3 DEF Spawn
    <3>5. o = "Spawned" => started'[c] = started[c] + 1
      BY <1>9, <2>1, <2>5, <3>2 DEF Spawn
    <3>6. started'[c] \in Nat
      BY <1>2, <2>1
    <3> QED BY <2>1, <2>2, <2>4, <3>1, <3>4, <3>5, <3>6
  <2>6. CASE c \notin DOMAIN results /\ c \in ended
    <3>1. comps[c].state = "Spawned"
      BY <1>7, <2>6
    <3> HIDE DEF results, Count, ended
    <3>2. comps'[c] = Given(c)
      BY <1>8, <2>6
    <3> QED BY <1>2, <2>1, <2>4, <3>1, <3>2
  <2>7. CASE c \notin DOMAIN results /\ c \notin ended
    <3> HIDE DEF results, ended
    <3>1. comps'[c] = comps[c]
      BY <1>8, <2>7
    <3>2. started[c] <= started'[c] /\ started'[c] \in Nat
      BY <1>2, <1>10, <2>1
    <3> QED BY <2>1, <2>2, <2>3, <3>1, <3>2
  <2> QED BY <2>5, <2>6, <2>7
<1>12. DOMAIN comps' = DOMAIN comps
  BY <1>8
<1> QED BY <1>2, <1>10, <1>11, <1>12

\* A new stream starts with components of its own profile.
LEMMA NewStreamSession ==
    ASSUME AnswerInv, NEW p \in Profiles, NEW g \in Nat, NEW out \in [Components -> Outcomes],
           NewStream(p, g, out),
           UNCHANGED <<serving, pending, up, requests, faults>>
    PROVE  SessionType'
<1>1. StreamType /\ SessionType
  BY DEF AnswerInv, StreamInv
<1>2. comps' = Launch(p, out) /\ started' = Started(Launch(p, out)) /\ profile' = p
      /\ spc' = "Snapshot" /\ exited' = {} /\ generation' = g /\ g <= MaxGeneration
  BY DEF NewStream
<1>3. DOMAIN comps' = SessionComponents[p]
  BY <1>2 DEF Launch
<1>4. ASSUME NEW c \in DOMAIN comps'
      PROVE  (comps'[c].pid # 0 <=> comps'[c].state = "Spawned") /\ comps'[c].pid <= started'[c]
  <2>1. c \in SessionComponents[p] /\ c \in Components
    BY <1>3, <1>4
  <2>2. comps'[c] = Spawn(c, out[c], 0)
    BY <1>2, <2>1 DEF Launch
  <2>3. started'[c] = started[c] + IF comps'[c].state = "Spawned" THEN 1 ELSE 0
    BY <1>2, <1>3, <2>1 DEF Started
  <2>4. started[c] \in Nat
    BY <1>1, <2>1 DEF StreamType
  <2> QED BY <2>2, <2>3, <2>4 DEF Spawn
<1> QED BY <1>1, <1>2, <1>3, <1>4 DEF SessionType

\* Processes, flags and bounds.
LEMMA NextSessionType == AnswerInv /\ [Next]_vars => SessionType'
<1> SUFFICES ASSUME AnswerInv, [Next]_vars PROVE SessionType'
  OBVIOUS
<1> USE DEF sessionVars, artifactVars, watchdogVars, socketVars, processVars
<1>0. StreamType /\ SessionType
  BY DEF AnswerInv, StreamInv
<1>1. ASSUME NEW out \in [Components -> Outcomes], Bootstrap(out) PROVE SessionType'
  <2>1. active \in Profiles /\ RestoredGeneration \in Nat
    BY <1>0 DEF StreamType, RestoredGeneration
  <2> QED BY <1>1, <2>1, NewStreamSession DEF Bootstrap
<1>2. ASSUME NEW out \in [Components -> Outcomes], Switch(out) PROVE SessionType'
  <2>1. active \in Profiles /\ generation + 1 \in Nat
    BY <1>0 DEF StreamType
  <2> QED BY <1>2, <2>1, NewStreamSession DEF Switch
<1>3. ASSUME NEW out \in [Components -> Outcomes], Poll(out) PROVE SessionType'
  <2>1. /\ DOMAIN comps' = DOMAIN comps
        /\ \A c \in DOMAIN comps :
              (comps'[c].pid # 0 <=> comps'[c].state = "Spawned") /\ comps'[c].pid <= started'[c]
    BY <1>3, PollEffect
  <2>2. /\ spc = "Idle" /\ spc' = "Snapshot" /\ exited' = {} /\ pending' = FALSE
        /\ UNCHANGED <<profile, generation, serving, up, requests, faults>>
    BY <1>3 DEF Poll
  <2> QED BY <1>0, <2>1, <2>2 DEF SessionType
<1>4. CASE DegradeFails \/ SessiondCrash
  <2>1. /\ Stopped /\ UNCHANGED <<pending, up, started, requests>>
        /\ faults' \in {faults, faults + 1} /\ (faults' # faults => faults < MaxFaults)
    BY <1>4 DEF DegradeFails, SessiondCrash
  <2>2. DOMAIN comps' = {} /\ spc' = "Down" /\ exited' = {} /\ serving' = FALSE /\ generation' = 0
    BY <2>1 DEF Stopped
  <2>3. faults' \in 0..MaxFaults
    BY <1>0, <2>1 DEF SessionType
  <2>4. serving' \in BOOLEAN /\ ~serving' /\ pending' \in BOOLEAN /\ up' \in BOOLEAN
    BY <1>0, <2>1, <2>2, Zenon DEF SessionType
  <2>5. exited' \subseteq Children' /\ requests' \in 0..MaxRequests /\ generation' <= MaxGeneration
    BY <1>0, <2>1, <2>2 DEF SessionType
  <2> QED BY <2>2, <2>3, <2>4, <2>5 DEF SessionType
<1>5. CASE \/ PersistSnapshot \/ NotifySend \/ NotifyFails \/ ReceiveReport \/ ReceiveDegrade
           \/ DegradeRefused \/ ReportUnchanged \/ ReportDegrades \/ ReceiveResync
           \/ ReceiveError \/ ConnectionLost
           \/ \E c \in Components : ProcessExit(c)
           \/ TimeOut
  <2>1. /\ UNCHANGED <<profile, comps, generation, pending, up, started, requests>>
        /\ exited' = exited \/ \E c \in Children : exited' = exited \cup {c}
    BY <1>5 DEF PersistSnapshot, NotifySend, NotifyFails, ReceiveReport, ReceiveDegrade,
                DegradeRefused, ReportUnchanged, ReportDegrades, ReceiveResync, ReceiveError,
                ConnectionLost, ProcessExit, TimeOut
  <2>2. spc' = "Down" <=> spc = "Down"
    BY <1>5 DEF PersistSnapshot, NotifySend, NotifyFails, ReceiveReport, ReceiveDegrade,
                DegradeRefused, ReportUnchanged, ReportDegrades, ReceiveResync, ReceiveError,
                ConnectionLost, ProcessExit, TimeOut, Waits, Rest
  <2>3. \/ serving' = FALSE
        \/ serving' = TRUE /\ spc' = "Switch"
        \/ serving' = serving /\ spc' = spc
        \/ serving' = serving /\ spc' \in {"Notify", "Wait", "WaitRetry", "Switch"}
    BY <1>5
    DEF PersistSnapshot, NotifySend, NotifyFails, ReceiveReport, ReceiveDegrade,
        DegradeRefused, ReportUnchanged, ReportDegrades, ReceiveResync, ReceiveError,
        ConnectionLost, ProcessExit, TimeOut, Rest
  <2>6. serving' \in BOOLEAN /\ (spc' \in {"Down", "Idle"} => serving' = FALSE)
    BY <1>0, <2>3, Zenon DEF SessionType
  <2>4. faults' \in 0..MaxFaults
    BY <1>0, <1>5
    DEF SessionType, PersistSnapshot, NotifySend, NotifyFails, ReceiveReport, ReceiveDegrade,
        DegradeRefused, ReportUnchanged, ReportDegrades, ReceiveResync, ReceiveError,
        ConnectionLost, ProcessExit, TimeOut
  <2>5. exited' \subseteq Children'
    BY <1>0, <2>1 DEF SessionType, Children
  <2> QED BY <1>0, <2>1, <2>2, <2>4, <2>5, <2>6 DEF SessionType
<1>6. CASE \/ HandleRequest \/ WatchdogStart \/ RequestRecovery \/ ReportLost \/ WatchdogCrash
           \/ \E alive \in SUBSET Components : InspectOnce(alive)
           \/ UNCHANGED vars
  <2>1. /\ UNCHANGED <<spc, profile, comps, generation, serving, started, exited>>
        /\ pending' = pending \/ pending' = TRUE
        /\ up' = up \/ up' = TRUE \/ up' = FALSE
        /\ requests' = requests \/ (requests < MaxRequests /\ requests' = requests + 1)
        /\ faults' = faults \/ (faults < MaxFaults /\ faults' = faults + 1)
    BY <1>6 DEF HandleRequest, WatchdogStart, RequestRecovery, ReportLost,
                WatchdogCrash, InspectOnce, vars
  <2>2. pending' \in BOOLEAN /\ up' \in BOOLEAN
    BY <1>0, <2>1, Zenon DEF SessionType
  <2>3. requests' \in 0..MaxRequests /\ faults' \in 0..MaxFaults
    BY <1>0, <2>1 DEF SessionType
  <2> QED BY <1>0, <2>1, <2>2, <2>3 DEF SessionType, Children
<1> QED BY <1>1, <1>2, <1>3, <1>4, <1>5, <1>6 DEF Next, Supervise

\* The watchdog caches a state under its profile, and no more than it may.
LEMMA NextCacheType == AnswerInv /\ [Next]_vars => CacheType'
<1> SUFFICES ASSUME AnswerInv, [Next]_vars PROVE CacheType'
  OBVIOUS
<1> USE DEF sessionVars, artifactVars, watchdogVars, socketVars, processVars
<1>0. StreamType /\ CacheType
  BY DEF AnswerInv, StreamInv
<1>1. CASE cache' = cache
  BY <1>0, <1>1 DEF CacheType, CachedProfiles
<1>2. CASE cache' = EmptyCache
  <2>1. \A p \in Profiles : cache'[p] = None
    BY <1>2 DEF EmptyCache
  <2>2. CachedProfiles' = {}
    BY <2>1 DEF CachedProfiles
  <2>3. IsFiniteSet(CachedProfiles') /\ Cardinality(CachedProfiles') = 0
    BY <2>2, FS_EmptySet
  <2> QED BY <2>1, <2>3, CacheAssumption DEF CacheType
<1>3. CASE HandleRequest
  <2> DEFINE m == Head(queue)
  <2>1. m \in Messages /\ cache' = NextCache(m)
    BY <1>0, <1>3 DEF HandleRequest, StreamType
  <2> HIDE DEF m
  <2>2. CASE Outcome(m) # "Accepted"
    BY <1>1, <2>1, <2>2 DEF NextCache
  <2>3. CASE Outcome(m) = "Accepted"
    <3> DEFINE p == m.state.profile
    <3>1. p \in Profiles
      BY <2>1 DEF Messages, LaunchStates
    <3>2. Merged(m) # None /\ Merged(m).profile = p
      BY <1>0, <2>1, <2>3, MergedType, NoneAssumption DEF Merged, LaunchState
    <3>3. cache \in [Profiles -> LaunchStates \cup {None}]
          /\ cache' = [cache EXCEPT ![p] = Merged(m)]
      BY <1>0, <2>1, <2>3 DEF StreamType, NextCache
    <3>4. cache[p] = None => Cardinality(CachedProfiles) < MaxCachedStates
      <4>1. ~OverCapacity(m)
        BY <2>3 DEF Outcome
      <4>2. Cardinality(CachedProfiles) \in Nat
        BY <1>0, FS_CardinalityType DEF CacheType
      <4> QED BY <4>1, <4>2, CacheAssumption DEF OverCapacity, Cached
    <3> HIDE DEF p
    <3>5. CachedProfiles' = CachedProfiles \cup {p}
      BY <3>1, <3>2, <3>3 DEF CachedProfiles
    <3>6. \A q \in Profiles : cache'[q] # None => cache'[q].profile = q
      BY <1>0, <3>1, <3>2, <3>3 DEF CacheType
    <3>7. IsFiniteSet(CachedProfiles') /\ Cardinality(CachedProfiles') <= MaxCachedStates
      <4>1. IsFiniteSet(CachedProfiles)
        BY <1>0 DEF CacheType
      <4>2. CASE p \in CachedProfiles
        <5>1. CachedProfiles' = CachedProfiles
          BY <3>5, <4>2
        <5> QED BY <1>0, <5>1 DEF CacheType
      <4>3. CASE p \notin CachedProfiles
        <5>1. cache[p] = None
          BY <3>1, <4>3 DEF CachedProfiles
        <5>2. Cardinality(CachedProfiles \cup {p}) = Cardinality(CachedProfiles) + 1
          BY <4>1, <4>3, FS_AddElement
        <5>3. IsFiniteSet(CachedProfiles \cup {p})
          BY <4>1, FS_AddElement
        <5>4. Cardinality(CachedProfiles) \in Nat
          BY <4>1, FS_CardinalityType
        <5> QED BY <3>4, <3>5, <5>1, <5>2, <5>3, <5>4, CacheAssumption
      <4> QED BY <4>2, <4>3
    <3> QED BY <3>6, <3>7 DEF CacheType
  <2> QED BY <2>2, <2>3
<1>4. CASE WatchdogCrash
  BY <1>2, <1>4 DEF WatchdogCrash
<1>5. CASE \/ WatchdogStart \/ RequestRecovery \/ ReportLost \/ Supervise \/ TimeOut \/ SessiondCrash
           \/ \E c \in Components : ProcessExit(c)
           \/ \E alive \in SUBSET Components : InspectOnce(alive)
           \/ UNCHANGED vars
  <2>1. cache' = cache
    BY <1>5
    DEF WatchdogStart, RequestRecovery, ReportLost, ProcessExit, InspectOnce, vars, Supervise,
        Bootstrap, Switch, Poll, PersistSnapshot, NotifySend, NotifyFails, ReceiveReport,
        ReceiveDegrade, DegradeFails, DegradeRefused, ReportUnchanged, ReportDegrades,
        ReceiveResync, ReceiveError, ConnectionLost, TimeOut, SessiondCrash
  <2> QED BY <1>1, <2>1
<1> QED BY <1>3, <1>4, <1>5 DEF Next

\* The launch state on disk is a snapshot, an inspection is about one.
LEMMA NextArtifactInv == AnswerInv /\ [Next]_vars => ArtifactInv'
<1> SUFFICES ASSUME AnswerInv, [Next]_vars PROVE ArtifactInv'
  OBVIOUS
<1> USE DEF sessionVars, artifactVars, watchdogVars, socketVars, processVars
<1>0. StreamType /\ SessionType /\ ArtifactInv
  BY DEF AnswerInv, StreamInv
<1>1. CASE PersistSnapshot
  <2>1. launch' = LaunchState(profile, generation, sequence + 1, comps) /\ inspection' = inspection
        /\ spc = "Snapshot"
    BY <1>1 DEF PersistSnapshot
  <2> QED BY <1>0, <2>1 DEF ArtifactInv, LaunchState, StreamType, SessionType
<1>2. ASSUME NEW alive \in SUBSET Components, InspectOnce(alive) PROVE ArtifactInv'
  <2>1. /\ launch # None /\ launch' = launch
        /\ inspection' = [profile |-> launch.profile, comps |-> launch.comps,
                      report |-> [c \in DOMAIN launch.comps |->
                          Inspect(launch.comps[c], c \in Critical,
                                  c \in alive \/ process_exists(c, launch.comps[c].pid))]]
    BY <1>2 DEF InspectOnce
  <2>2. \A c \in DOMAIN launch.comps : \E exists \in BOOLEAN :
           inspection'.report[c] = Inspect(launch.comps[c], c \in Critical, exists)
    <3> TAKE c \in DOMAIN launch.comps
    <3> DEFINE e == c \in alive \/ process_exists(c, launch.comps[c].pid)
    <3>1. e \in BOOLEAN /\ inspection'.report[c] = Inspect(launch.comps[c], c \in Critical, e)
      BY <2>1
    <3> HIDE DEF e
    <3> QED BY <3>1
  <2> QED BY <1>0, <2>1, <2>2 DEF ArtifactInv
<1>3. CASE ReportLost \/ ReportUnchanged \/ ReportDegrades
  BY <1>0, <1>3 DEF ArtifactInv, ReportLost, ReportUnchanged, ReportDegrades
<1>4. CASE launch' = launch /\ inspection' = inspection
  BY <1>0, <1>4 DEF ArtifactInv
<1>5. CASE \/ \E out \in [Components -> Outcomes] : Bootstrap(out) \/ Switch(out) \/ Poll(out)
           \/ NotifySend \/ NotifyFails \/ ReceiveReport \/ ReceiveDegrade \/ DegradeFails
           \/ DegradeRefused \/ ReceiveResync \/ ReceiveError \/ ConnectionLost
           \/ HandleRequest \/ WatchdogStart \/ \E c \in Components : ProcessExit(c)
           \/ RequestRecovery \/ TimeOut \/ SessiondCrash \/ WatchdogCrash \/ UNCHANGED vars
  <2>1. launch' = launch /\ inspection' = inspection
    BY <1>5
    DEF Bootstrap, Switch, Poll, NotifySend, NotifyFails, ReceiveReport, ReceiveDegrade,
        DegradeFails, DegradeRefused, ReceiveResync, ReceiveError, ConnectionLost,
        HandleRequest, WatchdogStart, ProcessExit, RequestRecovery, TimeOut, SessiondCrash,
        WatchdogCrash, vars
  <2> QED BY <1>4, <2>1
<1> QED BY <1>1, <1>2, <1>3, <1>5 DEF Next, Supervise

-----------------------------------------------------------------------------
(* The copies the watchdog has, and the one it has confirmed *)

\* What the states in the cache and the queue are made of.
LEMMA StatesTyped ==
    ASSUME AnswerInv
    PROVE  /\ \A p \in Profiles : cache[p] # None => cache[p] \in LaunchStates
           /\ queue \in Seq(Messages)
           /\ \A i \in 1..Len(queue) : queue[i] \in Messages /\ queue[i].state \in LaunchStates
           /\ comps \in CompStates /\ comps \in [DOMAIN comps -> ComponentState]
           /\ DOMAIN comps \subseteq Components
<1>1. /\ cache \in [Profiles -> LaunchStates \cup {None}]
      /\ queue \in Seq(Messages) /\ comps \in CompStates
  BY DEF AnswerInv, StreamInv, StreamType
<1>2. \A i \in 1..Len(queue) : queue[i] \in Messages
  BY <1>1
<1>3. \A m \in Messages : m.state \in LaunchStates
  BY DEF Messages
<1> QED BY <1>1, <1>2, <1>3, CompStatesElim

\* A launch state has components with component states.
LEMMA StateComps ==
    ASSUME NEW s \in LaunchStates
    PROVE  /\ s.comps \in CompStates /\ DOMAIN s.comps \subseteq Components
           /\ \A c \in DOMAIN s.comps :
                 /\ s.comps[c].state \in {"Spawned", "Failed", "Missing"}
                 /\ s.comps[c].pid \in Nat
                 /\ s.comps[c].restart_count \in Nat
           /\ s.profile \in Profiles /\ s.generation \in Nat /\ s.sequence \in Nat
<1>1. s.comps \in CompStates /\ s.profile \in Profiles /\ s.generation \in Nat /\ s.sequence \in Nat
  BY DEF LaunchStates
<1>2. DOMAIN s.comps \in SUBSET Components /\ s.comps \in [DOMAIN s.comps -> ComponentState]
  BY <1>1, CompStatesElim
<1>3. \A c \in DOMAIN s.comps : s.comps[c] \in ComponentState
  BY <1>2
<1> QED BY <1>1, <1>2, <1>3 DEF ComponentState

\* The stream stays, requests may leave the queue or be abandoned.
LEMMA ReflectQuiet ==
    ASSUME AnswerInv,
           UNCHANGED <<profile, comps, generation, streamed, cache, started>>,
           spc' = "Down" <=> spc = "Down",
           \A i \in 1..Len(queue') : \E j \in 1..Len(queue) :
               queue'[i].state = queue[j].state /\ queue'[i].kind = queue[j].kind
    PROVE  ReflectInv'
<1>1. ReflectInv
  BY DEF AnswerInv
<1>2. ASSUME NEW s PROVE (OfStream(s) => OfStream(s)') /\ (Whole(s) => Whole(s)')
  BY DEF OfStream, Whole, Reflects
<1>3. StreamedInv' /\ (spc' = "Down" => streamed' = None)
  BY <1>1 DEF ReflectInv, StreamedInv
<1>4. ASSUME spc' # "Down"
      PROVE  \A p \in Profiles : cache'[p] # None => OfStream(cache[p])' /\ Whole(cache[p])'
  BY <1>1, <1>4 DEF ReflectInv, OfStream, Whole, Reflects
<1>5. ASSUME spc' # "Down", NEW i \in 1..Len(queue')
      PROVE  /\ OfStream(queue[i].state)'
             /\ (queue[i].kind # "Delta")' => Whole(queue[i].state)'
  <2>1. PICK j \in 1..Len(queue) :
               queue'[i].state = queue[j].state /\ queue'[i].kind = queue[j].kind
    OBVIOUS
  <2>2. OfStream(queue[j].state) /\ (queue[j].kind # "Delta" => Whole(queue[j].state))
    BY <1>1, <1>5 DEF ReflectInv
  <2> QED BY <2>1, <2>2 DEF OfStream, Whole, Reflects
<1> QED BY <1>3, <1>4, <1>5 DEF ReflectInv

\* A new generation: nothing is of the new stream yet.
LEMMA ReflectNewStream ==
    ASSUME AnswerInv, AuthorityCoversStream', NEW p \in Profiles, NEW g \in Nat,
           NEW out \in [Components -> Outcomes],
           NewStream(p, g, out), g > authority.generation,
           UNCHANGED <<cache, queue>>
    PROVE  ReflectInv'
<1>1. streamed' = None /\ spc' = "Snapshot" /\ generation' = g
  BY DEF NewStream
<1>2. authority \in [generation : Nat, sequence : Nat] /\ AuthorityCoversStream
  BY DEF AnswerInv, StreamInv, StreamType
<1>3. \A s \in LaunchStates : ~Older(authority, s) => s.generation # g
  BY <1>2, StateComps DEF Older
<1>4. \A q \in Profiles : cache[q] # None => cache[q].generation # g
  BY <1>2, <1>3, StatesTyped DEF AuthorityCoversStream
<1>5. \A i \in 1..Len(queue) : queue[i].state.generation # g
  BY <1>2, <1>3, StatesTyped DEF AuthorityCoversStream
<1>6. \A q \in Profiles : cache'[q] # None => OfStream(cache[q])' /\ Whole(cache[q])'
  BY <1>1, <1>4 DEF OfStream, Whole
<1>7. \A i \in 1..Len(queue') : OfStream(queue[i].state)' /\ Whole(queue[i].state)'
  BY <1>1, <1>5 DEF OfStream, Whole
<1> QED BY <1>1, <1>6, <1>7 DEF ReflectInv, StreamedInv

\* Components change: a copy stays behind them, and what is the same as in the
\* confirmed state has not changed since it was confirmed.
LEMMA ReflectPoll ==
    ASSUME AnswerInv, NEW out \in [Components -> Outcomes], Poll(out)
    PROVE  ReflectInv'
<1>1. ReflectInv /\ spc = "Idle" /\ spc' = "Snapshot"
      /\ UNCHANGED <<profile, generation, streamed, cache, queue>>
  BY DEF AnswerInv, Poll, watchdogVars, socketVars
<1>2. /\ DOMAIN comps' = DOMAIN comps
      /\ \A c \in Components : started[c] <= started'[c]
      /\ \A c \in DOMAIN comps :
            /\ comps'[c].state = "Missing" <=> comps[c].state = "Missing"
            /\ comps[c].restart_count <= comps'[c].restart_count
            /\ \/ comps'[c] = comps[c]
               \/ comps'[c].pid > started[c]
               \/ comps'[c].state # "Spawned"
  BY PollEffect
<1>3. comps' \in CompStates /\ started' \in [Components -> Nat]
  BY PollEffect
<1>4. comps' \in [DOMAIN comps -> ComponentState] /\ DOMAIN comps \subseteq Components
      /\ comps \in [DOMAIN comps -> ComponentState]
  BY <1>2, <1>3, CompStatesElim, StatesTyped
<1>5. started \in [Components -> Nat]
  BY DEF AnswerInv, StreamInv, StreamType
<1>6. \A c \in DOMAIN comps : /\ comps[c].restart_count \in Nat /\ comps'[c].restart_count \in Nat
                              /\ comps'[c].pid \in Nat /\ started[c] \in Nat /\ started'[c] \in Nat
  <2>1. \A c \in DOMAIN comps : comps[c] \in ComponentState /\ comps'[c] \in ComponentState
    BY <1>4
  <2> QED BY <1>3, <1>4, <1>5, <2>1 DEF ComponentState
<1>7. StreamedInv'
  <2> SUFFICES ASSUME streamed' # None
               PROVE  /\ streamed' \in LaunchStates
                      /\ streamed'.profile = profile'
                      /\ streamed'.generation = generation'
                      /\ DOMAIN streamed'.comps = DOMAIN comps'
                      /\ \A c \in DOMAIN comps' :
                            /\ streamed'.comps[c].restart_count <= comps'[c].restart_count
                            /\ streamed'.comps[c].pid <= started'[c]
    BY DEF StreamedInv
  <2>1. /\ streamed \in LaunchStates /\ streamed.profile = profile
        /\ streamed.generation = generation
        /\ DOMAIN streamed.comps = DOMAIN comps
        /\ \A c \in DOMAIN comps :
              /\ streamed.comps[c].restart_count <= comps[c].restart_count
              /\ streamed.comps[c].pid <= started[c]
    BY <1>1 DEF ReflectInv, StreamedInv
  <2>2. \A c \in DOMAIN comps : /\ streamed.comps[c].restart_count \in Nat
                                /\ streamed.comps[c].pid \in Nat
    BY <2>1, StateComps
  <2>3. \A c \in DOMAIN comps :
              /\ streamed.comps[c].restart_count <= comps'[c].restart_count
              /\ streamed.comps[c].pid <= started'[c]
    BY <1>2, <1>4, <1>6, <2>1, <2>2
  <2> QED BY <1>1, <1>2, <2>1, <2>3
<1>8. ASSUME NEW s \in LaunchStates, OfStream(s)
      PROVE  OfStream(s)'
  <2> SUFFICES ASSUME s.generation = generation
               PROVE  /\ s.profile = profile
                      /\ DOMAIN s.comps \subseteq DOMAIN comps'
                      /\ \A c \in DOMAIN s.comps : Reflects(s.comps[c], c)'
    BY <1>1 DEF OfStream
  <2>1. /\ s.profile = profile /\ DOMAIN s.comps \subseteq DOMAIN comps
        /\ \A c \in DOMAIN s.comps : Reflects(s.comps[c], c)
    BY <1>8 DEF OfStream
  <2>2. ASSUME NEW c \in DOMAIN s.comps PROVE Reflects(s.comps[c], c)'
    <3> DEFINE v == s.comps[c]
    <3>1. c \in DOMAIN comps /\ c \in Components /\ Reflects(v, c)
      BY <1>4, <2>1
    <3>2. v.restart_count \in Nat
      BY StateComps
    <3> HIDE DEF v
    <3>3. /\ v.state = "Missing" <=> comps[c].state = "Missing"
          /\ v.restart_count <= comps[c].restart_count
      BY <3>1 DEF Reflects
    <3>4. /\ v.state = "Missing" <=> comps'[c].state = "Missing"
          /\ v.restart_count <= comps'[c].restart_count
      BY <1>2, <1>6, <3>1, <3>2, <3>3
    <3>5. ASSUME streamed # None
          PROVE  /\ streamed.comps[c].restart_count <= v.restart_count
                 /\ streamed.comps[c] = comps'[c] => Agrees(v, comps'[c])
      <4>1. /\ streamed.comps[c].restart_count <= v.restart_count
            /\ streamed.comps[c] = comps[c] => Agrees(v, comps[c])
        BY <3>1, <3>5 DEF Reflects
      <4>2. ASSUME streamed.comps[c] = comps'[c] PROVE Agrees(v, comps'[c])
        <5>1. CASE comps'[c] = comps[c]
          BY <4>1, <4>2, <5>1
        <5>2. CASE comps'[c].pid > started[c]
          <6>1. streamed.comps[c].pid <= started[c]
            BY <1>1, <3>1, <3>5 DEF ReflectInv, StreamedInv
          <6> QED BY <1>6, <3>1, <4>2, <5>2, <6>1
        <5>3. CASE comps'[c].state # "Spawned"
          <6>1. v.restart_count = comps'[c].restart_count
            BY <1>6, <3>1, <3>2, <3>4, <4>1, <4>2
          <6> QED BY <3>4, <5>3, <6>1 DEF Agrees
        <5> QED BY <1>2, <3>1, <5>1, <5>2, <5>3
      <4> QED BY <4>1, <4>2
    <3>6. Reflects(v, c)'
      BY <1>1, <3>4, <3>5 DEF Reflects
    <3> QED BY <3>6 DEF v
  <2> QED BY <1>2, <2>1, <2>2
<1>9. \A p \in Profiles : cache'[p] # None => OfStream(cache[p])' /\ Whole(cache[p])'
  <2> SUFFICES ASSUME NEW p \in Profiles, cache[p] # None
               PROVE  OfStream(cache[p])' /\ Whole(cache[p])'
    BY <1>1
  <2> DEFINE s == cache[p]
  <2>1. s \in LaunchStates /\ OfStream(s) /\ Whole(s) /\ cache' = cache
    BY <1>1, StatesTyped DEF ReflectInv
  <2>2. s.generation = generation => s.profile = profile /\ DOMAIN s.comps = DOMAIN comps
    BY <2>1 DEF OfStream, Whole
  <2>3. OfStream(cache[p])'
    <3>1. \A t \in LaunchStates : OfStream(t) => OfStream(t)'
      BY <1>8
    <3> QED BY <2>1, <3>1 DEF OfStream, Reflects
  <2> QED BY <1>1, <1>2, <2>2, <2>3 DEF Whole
<1>10. \A i \in 1..Len(queue') :
            /\ OfStream(queue[i].state)'
            /\ (queue[i].kind # "Delta")' => Whole(queue[i].state)'
  <2> SUFFICES ASSUME NEW i \in 1..Len(queue)
               PROVE  /\ OfStream(queue[i].state)'
                      /\ (queue[i].kind # "Delta")' => Whole(queue[i].state)'
    BY <1>1
  <2> DEFINE s == queue[i].state
  <2>1. s \in LaunchStates /\ OfStream(s) /\ (queue[i].kind # "Delta" => Whole(s)) /\ queue' = queue
    BY <1>1, StatesTyped DEF ReflectInv
  <2>2. queue[i].kind # "Delta" => (s.generation = generation => DOMAIN s.comps = DOMAIN comps)
    BY <2>1 DEF Whole
  <2>3. OfStream(queue[i].state)'
    <3>1. \A t \in LaunchStates : OfStream(t) => OfStream(t)'
      BY <1>8
    <3> QED BY <2>1, <3>1 DEF OfStream, Reflects
  <2> QED BY <1>1, <1>2, <2>2, <2>3 DEF Whole
<1> QED BY <1>1, <1>7, <1>9, <1>10 DEF ReflectInv

\* sessiond takes the snapshot as confirmed: the cache has a copy of it, and
\* nothing else of this stream is on its way.
LEMMA ReflectConfirm ==
    ASSUME AnswerInv, Waits, reply # None, reply.kind = "Report",
           streamed' = CurrentState, spc' \in {"Idle", "Switch"},
           UNCHANGED <<profile, comps, generation, cache, queue, started>>
    PROVE  ReflectInv'
<1>1. /\ queue = <<>>
      /\ cache[profile] # None => \A c \in DOMAIN comps : Agrees(cache[profile].comps[c], comps[c])
  BY DEF AnswerInv, LiveInv, Answers
<1>2. spc # "Down" /\ ReflectInv /\ StreamType /\ SessionType /\ CacheType
  BY DEF AnswerInv, Waits, StreamInv
<1>3. /\ streamed'.profile = profile /\ streamed'.generation = generation
      /\ streamed'.comps = comps /\ streamed' \in LaunchStates
  BY <1>2 DEF CurrentState, LaunchState, LaunchStates, StreamType
<1>4. \A c \in DOMAIN comps : comps[c].restart_count \in Nat
  BY StatesTyped DEF ComponentState
<1>5. StreamedInv'
  BY <1>2, <1>3, <1>4 DEF StreamedInv, SessionType
<1>6. ASSUME NEW p \in Profiles, cache[p] # None PROVE OfStream(cache[p])' /\ Whole(cache[p])'
  <2>1. OfStream(cache[p]) /\ Whole(cache[p]) /\ cache[p].profile = p
    BY <1>2, <1>6 DEF ReflectInv, CacheType
  <2>2. SUFFICES ASSUME cache[p].generation = generation
                 PROVE  OfStream(cache[p])' /\ Whole(cache[p])'
    BY DEF OfStream, Whole
  <2>3. p = profile /\ DOMAIN cache[p].comps = DOMAIN comps
    BY <2>1, <2>2 DEF OfStream, Whole
  <2>4. ASSUME NEW c \in DOMAIN comps PROVE Reflects(cache[p].comps[c], c)'
    <3>1. Agrees(cache[p].comps[c], comps[c]) /\ comps[c].restart_count \in Nat
      BY <1>1, <1>4, <1>6, <2>3
    <3>2. cache[p].comps[c].restart_count = comps[c].restart_count
      BY <3>1 DEF Agrees
    <3> QED BY <1>3, <3>1, <3>2 DEF Reflects, Agrees
  <2> QED BY <2>1, <2>3, <2>4 DEF OfStream, Whole
<1> QED BY <1>1, <1>5, <1>6 DEF ReflectInv

\* A request with the state of all or of some components.
LEMMA ReflectAppend ==
    ASSUME AnswerInv, spc # "Down", spc' # "Down", NEW m \in Messages,
           m.state.profile = profile, DOMAIN m.state.comps \subseteq DOMAIN comps,
           \A c \in DOMAIN m.state.comps : m.state.comps[c] = comps[c],
           m.kind # "Delta" => DOMAIN m.state.comps = DOMAIN comps,
           queue' = Append(queue, m),
           UNCHANGED <<profile, comps, generation, streamed, cache, started>>
    PROVE  ReflectInv'
<1>1. ReflectInv /\ queue \in Seq(Messages)
  BY StatesTyped DEF AnswerInv
<1>2. \A c \in DOMAIN comps : comps[c].restart_count \in Nat
  BY StatesTyped DEF ComponentState
<1>3. \A c \in DOMAIN comps : Reflects(comps[c], c)
  BY <1>1, <1>2 DEF Reflects, Agrees, ReflectInv, StreamedInv
<1>4. OfStream(m.state) /\ (m.kind # "Delta" => Whole(m.state))
  BY <1>3 DEF OfStream, Whole
<1>5. StreamedInv'
  BY <1>1 DEF ReflectInv, StreamedInv
<1>6. \A p \in Profiles : cache'[p] # None => OfStream(cache[p])' /\ Whole(cache[p])'
  BY <1>1 DEF ReflectInv, OfStream, Whole, Reflects
<1>7. ASSUME NEW i \in 1..Len(queue')
      PROVE  /\ OfStream(queue[i].state)'
             /\ (queue[i].kind # "Delta")' => Whole(queue[i].state)'
  <2>1. \/ queue'[i] = m
        \/ i \in 1..Len(queue) /\ queue'[i] = queue[i]
    BY <1>1, <1>7
  <2>2. OfStream(queue'[i].state) /\ (queue'[i].kind # "Delta" => Whole(queue'[i].state))
    <3>1. CASE queue'[i] = m
      BY <1>4, <3>1
    <3>2. CASE i \in 1..Len(queue) /\ queue'[i] = queue[i]
      BY <1>1, <3>2 DEF ReflectInv
    <3> QED BY <2>1, <3>1, <3>2
  <2> QED BY <2>2 DEF OfStream, Whole, Reflects
<1> QED BY <1>5, <1>6, <1>7 DEF ReflectInv

\* What the watchdog makes of an accepted request is of the stream it is from:
\* a delta is merged only into a state of the same generation.
LEMMA MergedOfStream ==
    ASSUME AnswerInv, spc # "Down", queue # <<>>, Outcome(Head(queue)) = "Accepted"
    PROVE  OfStream(Merged(Head(queue))) /\ Whole(Merged(Head(queue)))
<1> DEFINE m == Head(queue)
<1>1. /\ m \in Messages /\ m.state \in LaunchStates /\ OfStream(m.state)
      /\ m.kind # "Delta" => Whole(m.state)
  <2>1. queue \in Seq(Messages) /\ 1 \in 1..Len(queue) /\ m = queue[1]
    BY StatesTyped
  <2> QED BY <2>1, StatesTyped DEF AnswerInv, ReflectInv
<1>2. CASE m.kind # "Delta"
  BY <1>1, <1>2 DEF Merged
<1>3. CASE m.kind = "Delta"
  <2> DEFINE old == Cached(m)
  <2>0. Outcome(m) = "Accepted"
    OBVIOUS
  <2> HIDE DEF m
  <2>1. m.state.profile \in Profiles /\ old # None /\ old = cache[m.state.profile]
    BY <1>1, <1>3, <2>0, StateComps DEF Outcome, Gap, Cached
  <2>2. old \in LaunchStates /\ OfStream(old) /\ Whole(old)
    BY <2>1, StatesTyped DEF AnswerInv, ReflectInv
  <2>3. old.generation = m.state.generation
    <3>1. ~Stale(m) /\ ~Gap(m)
      BY <2>0 DEF Outcome
    <3>2. Older(old, m.state) /\ ~(m.state.generation > old.generation)
      BY <1>3, <2>1, <3>1 DEF Stale, Gap
    <3>3. old.generation \in Nat /\ m.state.generation \in Nat
      BY <1>1, <2>2, StateComps
    <3> QED BY <3>2, <3>3 DEF Older
  <2>4. /\ Merged(m).profile = m.state.profile /\ Merged(m).generation = m.state.generation
        /\ DOMAIN Merged(m).comps = DOMAIN old.comps \cup DOMAIN m.state.comps
        /\ \A c \in DOMAIN Merged(m).comps :
              \/ c \in DOMAIN m.state.comps /\ Merged(m).comps[c] = m.state.comps[c]
              \/ c \in DOMAIN old.comps /\ Merged(m).comps[c] = old.comps[c]
    BY <1>3 DEF Merged, LaunchState
  <2> HIDE DEF old
  <2>5. SUFFICES ASSUME m.state.generation = generation
                 PROVE  OfStream(Merged(m)) /\ Whole(Merged(m))
    BY <2>4 DEF OfStream, Whole, m
  <2>6. /\ m.state.profile = profile /\ DOMAIN m.state.comps \subseteq DOMAIN comps
        /\ \A c \in DOMAIN m.state.comps : Reflects(m.state.comps[c], c)
        /\ DOMAIN old.comps = DOMAIN comps
        /\ \A c \in DOMAIN old.comps : Reflects(old.comps[c], c)
    BY <1>1, <2>2, <2>3, <2>5 DEF OfStream, Whole
  <2>7. \A c \in DOMAIN Merged(m).comps : Reflects(Merged(m).comps[c], c)
    BY <2>4, <2>6
  <2> QED BY <2>4, <2>6, <2>7 DEF OfStream, Whole
<1> QED BY <1>2, <1>3

\* The watchdog handles a request.
LEMMA ReflectHandle == AnswerInv /\ HandleRequest => ReflectInv'
<1> SUFFICES ASSUME AnswerInv, HandleRequest PROVE ReflectInv'
  OBVIOUS
<1> DEFINE m == Head(queue)
<1>1. /\ UNCHANGED <<spc, profile, comps, generation, streamed, started>>
      /\ queue # <<>> /\ queue' = Tail(queue) /\ cache' = NextCache(m)
  BY DEF HandleRequest, sessionVars, processVars
<1>2. ReflectInv /\ queue \in Seq(Messages)
  BY StatesTyped DEF AnswerInv
<1>3. m \in Messages /\ m.state.profile \in Profiles
  <2>1. m \in Messages
    BY <1>1, <1>2
  <2> HIDE DEF m
  <2> QED BY <2>1 DEF Messages, LaunchStates
<1>4. cache \in [Profiles -> LaunchStates \cup {None}]
  BY DEF AnswerInv, StreamInv, StreamType
<1>5. \A i \in 1..Len(queue') : i + 1 \in 1..Len(queue) /\ queue'[i] = queue[i + 1]
  BY <1>1, <1>2
<1>6. ASSUME spc # "Down", NEW p \in Profiles, cache'[p] # None
      PROVE  OfStream(cache'[p]) /\ Whole(cache'[p])
  <2>1. CASE Outcome(m) = "Accepted" /\ p = m.state.profile
    <3>1. OfStream(Merged(m)) /\ Whole(Merged(m))
      BY <1>1, <1>6, <2>1, MergedOfStream
    <3> HIDE DEF m
    <3>2. cache'[p] = Merged(m)
      BY <1>1, <1>3, <1>4, <2>1 DEF NextCache
    <3> QED BY <3>1, <3>2
  <2>2. CASE ~(Outcome(m) = "Accepted" /\ p = m.state.profile)
    <3> HIDE DEF m
    <3>1. cache'[p] = cache[p]
      BY <1>1, <1>3, <1>4, <2>2 DEF NextCache
    <3> QED BY <1>2, <1>6, <3>1 DEF ReflectInv
  <2> QED BY <2>1, <2>2
<1>7. ASSUME spc # "Down", NEW i \in 1..Len(queue')
      PROVE  OfStream(queue'[i].state) /\ (queue'[i].kind # "Delta" => Whole(queue'[i].state))
  BY <1>2, <1>5, <1>7 DEF ReflectInv
<1>8. StreamedInv' /\ (spc' = "Down" => streamed' = None)
  BY <1>1, <1>2 DEF ReflectInv, StreamedInv
<1>9. ASSUME spc # "Down"
      PROVE \A p \in Profiles : cache'[p] # None => OfStream(cache[p])' /\ Whole(cache[p])'
  BY <1>1, <1>6, <1>9 DEF OfStream, Whole, Reflects
<1>10. ASSUME spc # "Down"
       PROVE \A i \in 1..Len(queue') :
                /\ OfStream(queue[i].state)'
                /\ (queue[i].kind # "Delta")' => Whole(queue[i].state)'
  BY <1>1, <1>7, <1>10 DEF OfStream, Whole, Reflects
<1> QED BY <1>1, <1>8, <1>9, <1>10 DEF ReflectInv

\* watchdog_stream_command sends what the watchdog lacks of the present state.
LEMMA CommandCurrent ==
    ASSUME AnswerInv
    PROVE  /\ StreamCommand \in Messages /\ StreamCommand.live
           /\ StreamCommand.state.profile = profile
           /\ StreamCommand.state.generation = generation
           /\ StreamCommand.state.sequence = sequence
           /\ StreamCommand.kind # "Delta" => StreamCommand.state.comps = comps
           /\ StreamCommand.kind = "Delta" =>
                 streamed # None /\ StreamCommand.state.comps = [c \in Changed |-> comps[c]]
<1>1. StreamType
  BY DEF AnswerInv, StreamInv
<1>2. StreamCommand \in Messages
  BY <1>1, CommandType
<1> QED BY <1>2 DEF StreamCommand, Message, LaunchState

\* Every step keeps the copies of the stream behind the components.
LEMMA NextReflectInv == AnswerInv /\ [Next]_vars => ReflectInv'
<1> SUFFICES ASSUME AnswerInv, [Next]_vars PROVE ReflectInv'
  OBVIOUS
<1> USE DEF sessionVars, artifactVars, watchdogVars, socketVars, processVars
<1>0. StreamType /\ AuthorityAgrees /\ ReflectInv /\ StreamInv
  BY DEF AnswerInv, StreamInv
<1>00. AuthorityCoversStream'
  BY <1>0, NextStreamInv DEF StreamInv
<1>1. ASSUME NEW out \in [Components -> Outcomes], Bootstrap(out) PROVE ReflectInv'
  <2>1. active \in Profiles /\ RestoredGeneration \in Nat /\ RestoredGeneration > authority.generation
    BY <1>0 DEF StreamType, RestoredGeneration
  <2> QED BY <1>00, <1>1, <2>1, ReflectNewStream DEF Bootstrap
<1>2. ASSUME NEW out \in [Components -> Outcomes], Switch(out) PROVE ReflectInv'
  <2>1. active \in Profiles /\ generation + 1 \in Nat /\ generation + 1 > authority.generation
    BY <1>0, <1>2 DEF StreamType, AuthorityAgrees, Stamp, Switch
  <2> QED BY <1>00, <1>2, <2>1, ReflectNewStream DEF Switch
<1>3. ASSUME NEW out \in [Components -> Outcomes], Poll(out) PROVE ReflectInv'
  BY <1>3, ReflectPoll
<1>4. CASE DegradeFails \/ SessiondCrash
  BY <1>4 DEF DegradeFails, SessiondCrash, Stopped, ReflectInv, StreamedInv
<1>5. CASE ReceiveReport \/ ReceiveDegrade \/ DegradeRefused
  BY <1>5, ReflectConfirm DEF ReceiveReport, ReceiveDegrade, DegradeRefused, Rest
<1>6. CASE NotifySend
  <2>1. /\ spc = "Notify" /\ spc' = "Wait" /\ queue' = Append(queue, StreamCommand)
        /\ UNCHANGED <<profile, comps, generation, streamed, cache, started>>
    BY <1>6 DEF NotifySend
  <2> DEFINE m == StreamCommand
  <2>2. /\ m \in Messages /\ m.state.profile = profile
        /\ DOMAIN m.state.comps \subseteq DOMAIN comps
        /\ \A c \in DOMAIN m.state.comps : m.state.comps[c] = comps[c]
        /\ m.kind # "Delta" => DOMAIN m.state.comps = DOMAIN comps
    <3> HIDE DEF m
    <3>1. m \in Messages /\ m.state.profile = profile
          /\ (m.kind # "Delta" => m.state.comps = comps)
          /\ (m.kind = "Delta" => m.state.comps = [c \in Changed |-> comps[c]])
      BY CommandCurrent DEF m
    <3> QED BY <3>1 DEF Changed
  <2>3. queue' = Append(queue, m) /\ spc # "Down" /\ spc' # "Down"
    BY <2>1
  <2> HIDE DEF m
  <2> QED BY <2>1, <2>2, <2>3, ReflectAppend
<1>7. CASE ReceiveResync /\ queue' = Append(queue, Message("Full", comps))
  <2>1. /\ spc = "Wait" /\ spc' \in {"WaitRetry", "Idle"}
        /\ UNCHANGED <<profile, comps, generation, streamed, cache, started>>
    BY <1>7 DEF ReceiveResync, Rest
  <2> DEFINE m == Message("Full", comps)
  <2>2. m \in Messages
    BY <1>0, MessageType DEF StreamType
  <2>3. m.state.profile = profile /\ m.state.comps = comps
    BY DEF Message, LaunchState
  <2>4. queue' = Append(queue, m) /\ spc # "Down" /\ spc' # "Down"
    BY <1>7, <2>1
  <2> HIDE DEF m
  <2> QED BY <2>1, <2>2, <2>3, <2>4, ReflectAppend
<1>8. CASE HandleRequest
  BY <1>8, ReflectHandle
<1>9. CASE WatchdogCrash
  <2>1. /\ UNCHANGED <<spc, profile, comps, generation, streamed, started>>
        /\ cache' = EmptyCache /\ queue' = <<>>
    BY <1>9 DEF WatchdogCrash
  <2> QED BY <1>0, <2>1 DEF ReflectInv, StreamedInv, EmptyCache
<1>10. CASE TimeOut
  <2>1. /\ spc' = "Idle" /\ spc \in {"Wait", "WaitRetry"} /\ queue' = Abandoned
        /\ UNCHANGED <<profile, comps, generation, streamed, cache, started>>
    BY <1>10 DEF TimeOut, Rest, Waits
  <2>2. queue \in Seq(Messages) /\ Len(Abandoned) = Len(queue)
    BY <1>0, AbandonedType, StatesTyped
  <2>3. \A i \in 1..Len(queue') : /\ i \in 1..Len(queue)
                                  /\ queue'[i].state = queue[i].state
                                  /\ queue'[i].kind = queue[i].kind
    BY <2>1, <2>2 DEF Abandoned, Abandon
  <2> QED BY <2>1, <2>3, ReflectQuiet
<1>11. CASE \/ ReceiveResync /\ queue' = queue
            \/ PersistSnapshot \/ NotifyFails \/ ReportUnchanged \/ ReportDegrades
            \/ ReceiveError \/ ConnectionLost \/ WatchdogStart \/ RequestRecovery \/ ReportLost
            \/ \E c \in Components : ProcessExit(c)
            \/ \E alive \in SUBSET Components : InspectOnce(alive)
            \/ UNCHANGED vars
  <2>1. /\ UNCHANGED <<profile, comps, generation, streamed, cache, queue, started>>
        /\ spc' = "Down" <=> spc = "Down"
    BY <1>11
    DEF ReceiveResync, PersistSnapshot, NotifyFails, ReportUnchanged, ReportDegrades,
        ReceiveError, ConnectionLost, WatchdogStart, RequestRecovery, ReportLost, ProcessExit,
        InspectOnce, vars, Waits, Rest
  <2>2. \A i \in 1..Len(queue') : /\ i \in 1..Len(queue)
                                  /\ queue'[i].state = queue[i].state
                                  /\ queue'[i].kind = queue[i].kind
    BY <2>1
  <2> QED BY <2>1, <2>2, ReflectQuiet
<1>12. ReceiveResync => queue' = queue \/ queue' = Append(queue, Message("Full", comps))
  BY DEF ReceiveResync
<1> QED BY <1>1, <1>2, <1>3, <1>4, <1>5, <1>6, <1>7, <1>8, <1>9, <1>10, <1>11, <1>12
        DEF Next, Supervise

-----------------------------------------------------------------------------
(* The answer *)

\* A state with the verdict of the current one gets it: where the current
\* component has no process, an older process of it does not exist either.
LEMMA SameVerdict ==
    ASSUME AnswerInv, NEW c \in DOMAIN comps, NEW v, Agrees(v, comps[c]),
           v.state \in {"Spawned", "Failed", "Missing"}
    PROVE  Inspect(v, c \in Critical, process_exists(c, v.pid))
               = Inspect(comps[c], c \in Critical, process_exists(c, comps[c].pid))
<1>1. /\ comps[c].pid # 0 <=> comps[c].state = "Spawned"
      /\ comps[c].state \in {"Spawned", "Failed", "Missing"}
  BY StatesTyped DEF AnswerInv, SessionType, ComponentState
<1>2. CASE comps[c].state = "Spawned"
  BY <1>2 DEF Agrees
<1>3. CASE comps[c].state = "Missing"
  BY <1>3 DEF Agrees, Inspect
<1>4. CASE comps[c].state = "Failed"
  <2>1. comps[c].pid = 0
    BY <1>1, <1>4
  <2>2. ~process_exists(c, v.pid)
    BY <2>1 DEF process_exists
  <2> QED BY <1>4, <2>2 DEF Agrees, Inspect
<1> QED BY <1>1, <1>2, <1>3, <1>4

\* The merged state after the request sessiond waits for has the verdicts of the
\* snapshot.
LEMMA MergedAgrees ==
    ASSUME AnswerInv, Waits, NEW m \in Messages, Current(m), m.state \in LaunchStates,
           Outcome(m) = "Accepted", Merged(m) \in LaunchStates,
           OfStream(Merged(m)), Whole(Merged(m))
    PROVE  /\ Merged(m).profile = profile
           /\ Merged(m).generation = generation
           /\ DOMAIN Merged(m).comps = DOMAIN comps
           /\ \A c \in DOMAIN comps : Agrees(Merged(m).comps[c], comps[c])
           /\ Health(Merged(m).comps) = Health(comps)
<1>1. Merged(m).profile = m.state.profile /\ Merged(m).generation = m.state.generation
  BY DEF Merged, LaunchState
<1>2. Merged(m).profile = profile /\ Merged(m).generation = generation
  BY <1>1 DEF Current
<1>3. /\ DOMAIN Merged(m).comps = DOMAIN comps
      /\ \A c \in DOMAIN comps : Reflects(Merged(m).comps[c], c)
  BY <1>2 DEF OfStream, Whole
<1>4. ASSUME NEW c \in DOMAIN comps PROVE Agrees(Merged(m).comps[c], comps[c])
  <2>1. CASE m.kind # "Delta"
    <3>1. Merged(m).comps = comps
      BY <2>1 DEF Merged, Current
    <3> QED BY <3>1 DEF Agrees
  <2>2. CASE m.kind = "Delta"
    <3>1. streamed # None /\ m.state.comps = [d \in Changed |-> comps[d]]
      BY <2>2 DEF Current
    <3>2. CASE c \in Changed
      <4>1. Merged(m).comps[c] = comps[c]
        BY <2>2, <3>1, <3>2 DEF Merged, LaunchState
      <4> QED BY <4>1 DEF Agrees
    <3>3. CASE c \notin Changed
      <4>1. streamed.comps[c] = comps[c]
        BY <3>3 DEF Changed
      <4> QED BY <1>3, <3>1, <4>1 DEF Reflects
    <3> QED BY <3>2, <3>3
  <2> QED BY <2>1, <2>2
<1>5. ASSUME NEW c \in DOMAIN comps
      PROVE  Inspect(Merged(m).comps[c], c \in Critical, process_exists(c, Merged(m).comps[c].pid))
                 = Inspect(comps[c], c \in Critical, process_exists(c, comps[c].pid))
  <2> DEFINE v == Merged(m).comps[c]
  <2>1. Agrees(v, comps[c]) /\ v.state \in {"Spawned", "Failed", "Missing"}
    BY <1>3, <1>4, StateComps
  <2> HIDE DEF v
  <2>2. Inspect(v, c \in Critical, process_exists(c, v.pid))
           = Inspect(comps[c], c \in Critical, process_exists(c, comps[c].pid))
    BY <2>1, SameVerdict
  <2> QED BY <2>2 DEF v
<1>6. Health(Merged(m).comps) = Health(comps)
  BY <1>3, <1>5 DEF Health
<1> QED BY <1>2, <1>3, <1>4, <1>6

\* Nobody waits for an answer.
LEMMA LiveQuiet ==
    ASSUME spc' \in {"Down", "Snapshot", "Idle", "Switch"}, reply' = None,
           \A i \in 1..Len(queue') : ~queue'[i].live
    PROVE  LiveInv'
  BY DEF LiveInv, Waits

\* A request with the current stamp is the newest of all.
LEMMA LiveSend ==
    ASSUME AnswerInv, spc' \in {"Wait", "WaitRetry"}, reply' = None,
           CachesBehind, \A i \in 1..Len(queue) : ~queue[i].live /\ Behind(queue[i].state),
           NEW m \in Messages, Current(m), spc' = "WaitRetry" => m.kind = "Full",
           queue' = Append(queue, m),
           UNCHANGED <<profile, comps, generation, sequence, streamed, cache>>
    PROVE  LiveInv'
<1>1. queue \in Seq(Messages)
  BY StatesTyped
<1>2. /\ queue' # <<>> /\ Len(queue') = Len(queue) + 1 /\ queue'[Len(queue')] = m
      /\ \A i \in 1..(Len(queue') - 1) : i \in 1..Len(queue) /\ queue'[i] = queue[i]
  BY <1>1
<1>3. Current(queue[Len(queue)])'
  BY <1>2 DEF Current, Changed
<1>4. CachesBehind'
  BY DEF CachesBehind, Behind
<1>5. \A i \in 1..(Len(queue') - 1) : ~queue'[i].live /\ Behind(queue[i].state)'
  BY <1>2 DEF Behind
<1>6. WaitsForLast'
  BY <1>2, <1>3, <1>4, <1>5 DEF WaitsForLast
<1> QED BY <1>6 DEF LiveInv, Waits

\* What the watchdog caches has the stamp of the request.
LEMMA CachesStayBehind ==
    ASSUME AnswerInv, HandleRequest, CachesBehind, Behind(Head(queue).state)
    PROVE  CachesBehind'
<1> DEFINE m == Head(queue)
<1>1. /\ UNCHANGED <<generation, sequence>> /\ queue # <<>> /\ cache' = NextCache(m)
      /\ queue \in Seq(Messages)
  BY StatesTyped DEF HandleRequest, sessionVars
<1>2. m \in Messages
  BY <1>1
<1>3. Behind(m.state) /\ StreamType
  BY DEF AnswerInv, StreamInv
<1> HIDE DEF m
<1>4. m.state.profile \in Profiles /\ cache \in [Profiles -> LaunchStates \cup {None}]
  BY <1>2, <1>3 DEF Messages, LaunchStates, StreamType
<1>5. ASSUME Outcome(m) = "Accepted" PROVE Behind(Merged(m))
  BY <1>2, <1>3, <1>5, MergedType DEF Behind, Older
<1>6. ASSUME NEW p \in Profiles, cache'[p] # None PROVE Behind(cache'[p])
  <2>1. CASE Outcome(m) = "Accepted" /\ p = m.state.profile
    BY <1>1, <1>4, <1>5, <2>1 DEF NextCache
  <2>2. CASE ~(Outcome(m) = "Accepted" /\ p = m.state.profile)
    <3>1. cache'[p] = cache[p]
      BY <1>1, <1>4, <2>2 DEF NextCache
    <3> QED BY <1>6, <3>1 DEF CachesBehind
  <2> QED BY <2>1, <2>2
<1> QED BY <1>1, <1>6 DEF CachesBehind, Behind

\* The request sessiond waits for is answered for what it is: it is newer than
\* all the watchdog has, so that it is never ignored, and a full state fits.
LEMMA AnswerToCurrent ==
    ASSUME AnswerInv, HandleRequest, Waits, CachesBehind, Len(queue) = 1, Current(Head(queue))
    PROVE  Answers(reply)' /\ queue' = <<>>
<1> DEFINE m == Head(queue)
<1>1. /\ UNCHANGED <<spc, profile, comps, generation, sequence, streamed>>
      /\ queue # <<>> /\ cache' = NextCache(m) /\ queue' = Tail(queue)
      /\ queue \in Seq(Messages)
      /\ reply' = IF m.live THEN ReplyTo(m) ELSE reply
  BY StatesTyped DEF HandleRequest, sessionVars
<1>2. m \in Messages /\ queue' = <<>>
  BY <1>1
<1>3. Outcome(m) = "Accepted" => OfStream(Merged(m)) /\ Whole(Merged(m))
  BY <1>1, MergedOfStream DEF Waits
<1>4. Current(m) /\ StreamType
  BY DEF AnswerInv, StreamInv
<1> HIDE DEF m
<1>5. /\ m.state \in LaunchStates /\ m.state.profile = profile
      /\ m.state.generation = generation /\ m.state.sequence = sequence
      /\ reply' = ReplyTo(m)
  BY <1>1, <1>2, <1>4 DEF Messages, Current
<1>6. profile \in Profiles /\ cache \in [Profiles -> LaunchStates \cup {None}]
      /\ generation \in Nat /\ sequence \in Nat
  BY <1>4 DEF StreamType
<1>7. Cached(m) # None => /\ Older(Cached(m), m.state) /\ ~Older(m.state, Cached(m))
                          /\ m.state # Cached(m)
  <2> SUFFICES ASSUME Cached(m) # None
               PROVE  /\ Older(Cached(m), m.state) /\ ~Older(m.state, Cached(m))
                      /\ m.state # Cached(m)
    OBVIOUS
  <2>1. Behind(Cached(m)) /\ Cached(m) \in LaunchStates
    BY <1>5, <1>6 DEF CachesBehind, Cached
  <2>2. Cached(m).generation \in Nat /\ Cached(m).sequence \in Nat
    BY <2>1, StateComps
  <2> QED BY <1>5, <1>6, <2>1, <2>2 DEF Behind, Older, Stamp
<1>8. ~Stale(m)
  BY <1>7 DEF Stale
<1>9. m.kind = "Full" => ~Gap(m)
  BY <1>7 DEF Gap
<1>10. CASE Outcome(m) = "Accepted"
  <2>1. Merged(m) \in LaunchStates
    BY <1>2, <1>4, <1>10, MergedType
  <2>2. /\ Merged(m).generation = generation
        /\ \A c \in DOMAIN comps : Agrees(Merged(m).comps[c], comps[c])
        /\ Health(Merged(m).comps) = Health(comps)
    BY <1>2, <1>3, <1>4, <1>5, <1>10, <2>1, MergedAgrees
  <2>3. cache'[profile] = Merged(m)
    BY <1>1, <1>5, <1>6, <1>10 DEF NextCache
  <2>4. reply'.kind = "Report" /\ reply'.profile = profile /\ reply'.report = Health(comps)
    BY <1>5, <1>10, <2>2 DEF ReplyTo
  <2>5. Health(comps)' = Health(comps)
    BY <1>1 DEF Health, process_exists
  <2> QED BY <1>1, <1>2, <2>2, <2>3, <2>4, <2>5 DEF Answers
<1>11. CASE Outcome(m) = "Resync"
  <2>1. Gap(m)
    BY <1>8, <1>11 DEF Outcome
  <2>2. spc = "Wait"
    BY <1>4, <1>9, <2>1 DEF Waits, Current
  <2>3. reply'.kind = "Resync" /\ cache' = cache
    BY <1>1, <1>5, <1>11 DEF ReplyTo, NextCache
  <2>4. CachesBehind'
    BY <1>1, <2>3 DEF CachesBehind, Behind
  <2> QED BY <1>1, <1>2, <2>2, <2>3, <2>4 DEF Answers
<1>12. CASE Outcome(m) = "Invalid"
  <2>1. reply'.kind = "Invalid"
    BY <1>5, <1>12 DEF ReplyTo
  <2> QED BY <1>2, <2>1 DEF Answers
<1> QED BY <1>8, <1>10, <1>11, <1>12 DEF Outcome

\* The watchdog handles a request.
LEMMA LiveHandle == AnswerInv /\ HandleRequest => LiveInv'
<1> SUFFICES ASSUME AnswerInv, HandleRequest PROVE LiveInv'
  OBVIOUS
<1> DEFINE m == Head(queue)
<1>1. /\ UNCHANGED <<spc, profile, comps, generation, sequence, streamed>>
      /\ queue # <<>> /\ queue' = Tail(queue) /\ queue \in Seq(Messages)
      /\ reply' = IF m.live THEN ReplyTo(m) ELSE reply
  BY StatesTyped DEF HandleRequest, sessionVars
<1>2. /\ m = queue[1] /\ 1 \in 1..Len(queue) /\ Len(queue') = Len(queue) - 1
      /\ \A i \in 1..Len(queue') : i + 1 \in 1..Len(queue) /\ queue'[i] = queue[i + 1]
  BY <1>1
<1>3. LiveInv
  BY DEF AnswerInv
<1>4. CASE ~Waits
  <2>1. reply = None /\ \A i \in 1..Len(queue) : ~queue[i].live
    BY <1>3, <1>4 DEF LiveInv
  <2> HIDE DEF m
  <2>2. reply' = None /\ \A i \in 1..Len(queue') : ~queue'[i].live
    BY <1>1, <1>2, <2>1
  <2>3. ASSUME spc = "Notify"
        PROVE  CachesBehind' /\ \A i \in 1..Len(queue') : Behind(queue'[i].state)
    <3>1. CachesBehind /\ \A i \in 1..Len(queue) : Behind(queue[i].state)
      BY <1>3, <2>3 DEF LiveInv
    <3>2. Behind(Head(queue).state)
      BY <1>2, <3>1 DEF m
    <3>3. \A i \in 1..Len(queue') : Behind(queue'[i].state)
      BY <1>2, <3>1
    <3> QED BY <3>1, <3>2, <3>3, CachesStayBehind
  <2>4. ASSUME spc' = "Notify"
        PROVE  CachesBehind' /\ \A i \in 1..Len(queue') : Behind(queue[i].state)'
    BY <1>1, <2>3, <2>4 DEF Behind
  <2> QED BY <1>1, <1>4, <2>2, <2>4 DEF LiveInv, Waits
<1>5. CASE Waits
  <2>1. reply = None /\ WaitsForLast
    BY <1>1, <1>3, <1>5 DEF LiveInv
  <2>2. CASE Len(queue) = 1
    <3>1. Current(Head(queue)) /\ CachesBehind
      BY <1>2, <2>1, <2>2 DEF WaitsForLast
    <3>2. Answers(reply)' /\ queue' = <<>>
      BY <1>5, <2>2, <3>1, AnswerToCurrent
    <3> QED BY <1>1, <1>5, <3>2 DEF LiveInv, Waits
  <2>3. CASE Len(queue) # 1
    <3>1. /\ ~m.live /\ Behind(m.state) /\ CachesBehind
          /\ Current(queue[Len(queue)])
      BY <1>2, <2>1, <2>3 DEF WaitsForLast
    <3>2. CachesBehind'
      BY <3>1, CachesStayBehind
    <3> HIDE DEF m
    <3>8. /\ Len(queue) \in Nat /\ Len(queue') \in Nat /\ Len(queue) > 1
          /\ Len(queue') + 1 = Len(queue) /\ Len(queue') \in 1..Len(queue')
      BY <1>1, <1>2, <2>3
    <3>9. queue'[Len(queue')] = queue[Len(queue)] /\ queue' # <<>>
      BY <1>2, <3>8
    <3>10. \A i \in 1..(Len(queue') - 1) :
                i + 1 \in 1..(Len(queue) - 1) /\ queue'[i] = queue[i + 1]
      BY <1>2, <3>8
    <3>3. /\ reply' = None /\ queue' # <<>> /\ queue'[Len(queue')] = queue[Len(queue)]
          /\ \A i \in 1..(Len(queue') - 1) :
                i + 1 \in 1..(Len(queue) - 1) /\ queue'[i] = queue[i + 1]
      BY <1>1, <2>1, <3>1, <3>9, <3>10
    <3>4. Current(queue[Len(queue)])'
      BY <1>1, <3>1, <3>3 DEF Current, Changed
    <3>5. \A i \in 1..(Len(queue') - 1) : ~queue'[i].live /\ Behind(queue'[i].state)
      BY <2>1, <3>3 DEF WaitsForLast
    <3>6. \A i \in 1..(Len(queue') - 1) : ~queue'[i].live /\ Behind(queue[i].state)'
      BY <1>1, <3>5 DEF Behind
    <3>7. WaitsForLast'
      BY <3>2, <3>3, <3>4, <3>6 DEF WaitsForLast
    <3> QED BY <1>1, <1>5, <3>3, <3>7 DEF LiveInv, Waits
  <2> QED BY <2>2, <2>3
<1> QED BY <1>4, <1>5

\* The next number is ahead of everything the watchdog has or will read.
LEMMA LivePersist == AnswerInv /\ PersistSnapshot => LiveInv'
<1> SUFFICES ASSUME AnswerInv, PersistSnapshot PROVE LiveInv'
  OBVIOUS
<1>1. /\ spc = "Snapshot" /\ spc' = "Notify" /\ sequence' = sequence + 1
      /\ UNCHANGED <<generation, cache, queue, reply>>
  BY DEF PersistSnapshot, watchdogVars, socketVars
<1>2. reply = None /\ \A i \in 1..Len(queue) : ~queue[i].live
  BY <1>1 DEF AnswerInv, LiveInv, Waits
<1>3. StreamType /\ AuthorityAgrees /\ AuthorityCoversStream
  BY DEF AnswerInv, StreamInv
<1>4. ASSUME NEW s \in LaunchStates, ~Older(authority, s) PROVE Behind(s)'
  <2>1. s.generation \in Nat /\ s.sequence \in Nat
    BY StateComps
  <2>2. /\ authority.generation \in Nat /\ authority.sequence \in Nat
        /\ generation \in Nat /\ sequence \in Nat
    BY <1>3 DEF StreamType
  <2>3. \/ authority.generation < generation
        \/ authority.generation = generation /\ authority.sequence = sequence
    BY <1>1, <1>3, <2>2 DEF AuthorityAgrees, Stamp
  <2> QED BY <1>1, <1>4, <2>1, <2>2, <2>3 DEF Behind, Older, Stamp
<1>5. \A p \in Profiles : cache'[p] # None => Behind(cache[p])'
  <2> TAKE p \in Profiles
  <2>1. cache[p] # None => cache[p] \in LaunchStates /\ ~Older(authority, cache[p])
    BY <1>3, StatesTyped DEF AuthorityCoversStream
  <2> QED BY <1>1, <1>4, <2>1 DEF Behind
<1>6. \A i \in 1..Len(queue') : Behind(queue[i].state)'
  <2> TAKE i \in 1..Len(queue')
  <2>1. queue[i].state \in LaunchStates /\ ~Older(authority, queue[i].state)
    BY <1>1, <1>3, StatesTyped DEF AuthorityCoversStream
  <2> QED BY <1>1, <1>4, <2>1 DEF Behind
<1> QED BY <1>1, <1>2, <1>5, <1>6 DEF LiveInv, CachesBehind, Waits

\* Every step keeps what sessiond waits for and what it will read.
LEMMA NextLiveInv == AnswerInv /\ [Next]_vars => LiveInv'
<1> SUFFICES ASSUME AnswerInv, [Next]_vars PROVE LiveInv'
  OBVIOUS
<1> USE DEF sessionVars, artifactVars, watchdogVars, socketVars, processVars
<1>0. StreamType /\ LiveInv
  BY DEF AnswerInv, StreamInv
<1>1. ~Waits => reply = None /\ \A i \in 1..Len(queue) : ~queue[i].live
  BY <1>0 DEF LiveInv
<1>2. Waits /\ reply # None => queue = <<>> /\ Answers(reply)
  BY <1>0 DEF LiveInv
<1>3. \A i \in 1..Len(Abandoned) : ~Abandoned[i].live
  <2>1. queue \in Seq(Messages) /\ Len(Abandoned) = Len(queue)
    BY <1>0, AbandonedType, StatesTyped
  <2> QED BY <2>1 DEF Abandoned, Abandon
<1>4. CASE \/ \E out \in [Components -> Outcomes] : Bootstrap(out) \/ Switch(out) \/ Poll(out)
           \/ ReportDegrades \/ NotifyFails
  <2>1. /\ spc \in {"Down", "Switch", "Idle", "Notify"}
        /\ spc' \in {"Snapshot", "Switch", "Idle"}
        /\ UNCHANGED <<queue, reply>>
    BY <1>4 DEF Bootstrap, Switch, NewStream, Poll, ReportDegrades, NotifyFails, Rest
  <2> QED BY <1>1, <2>1, LiveQuiet DEF Waits
<1>5. CASE \/ ReceiveReport \/ ReceiveDegrade \/ DegradeFails \/ DegradeRefused \/ ReceiveError
           \/ (ReceiveResync /\ ~up)
  <2>1. /\ Waits /\ reply # None /\ reply' = None /\ queue' = queue
        /\ spc' \in {"Down", "Switch", "Idle"}
    BY <1>5 DEF ReceiveReport, ReceiveDegrade, DegradeFails, DegradeRefused, ReceiveError,
                ReceiveResync, Rest, Stopped, Waits
  <2> QED BY <1>2, <2>1, LiveQuiet
<1>6. CASE ReceiveResync /\ up
  <2>1. /\ spc = "Wait" /\ spc' = "WaitRetry" /\ reply # None /\ reply' = None
        /\ reply.kind = "Resync" /\ queue' = Append(queue, Message("Full", comps))
        /\ UNCHANGED <<profile, comps, generation, sequence, streamed, cache>>
    BY <1>6 DEF ReceiveResync
  <2>2. queue = <<>> /\ CachesBehind
    BY <1>2, <2>1 DEF Waits, Answers
  <2> DEFINE m == Message("Full", comps)
  <2>3. m \in Messages
    BY <1>0, MessageType DEF StreamType
  <2>4. m.kind = "Full" /\ Current(m)
    BY DEF Message, LaunchState, Current
  <2>5. queue' = Append(queue, m) /\ spc' \in {"Wait", "WaitRetry"}
    BY <2>1
  <2>6. \A i \in 1..Len(queue) : ~queue[i].live /\ Behind(queue[i].state)
    BY <2>2
  <2> HIDE DEF m
  <2> QED BY <2>1, <2>2, <2>3, <2>4, <2>5, <2>6, LiveSend
<1>7. CASE NotifySend
  <2>1. /\ spc = "Notify" /\ spc' = "Wait" /\ reply' = reply
        /\ queue' = Append(queue, StreamCommand)
        /\ UNCHANGED <<profile, comps, generation, sequence, streamed, cache>>
    BY <1>7 DEF NotifySend
  <2>2. /\ CachesBehind /\ reply = None
        /\ \A i \in 1..Len(queue) : ~queue[i].live /\ Behind(queue[i].state)
    BY <1>0, <1>1, <2>1 DEF LiveInv, Waits
  <2> DEFINE m == StreamCommand
  <2>3. m \in Messages /\ Current(m)
    BY <2>1, CommandCurrent DEF Current
  <2>4. queue' = Append(queue, m) /\ spc' \in {"Wait", "WaitRetry"}
        /\ (spc' = "WaitRetry" => m.kind = "Full") /\ reply' = None
    BY <2>1, <2>2
  <2> HIDE DEF m
  <2> QED BY <2>1, <2>2, <2>3, <2>4, LiveSend
<1>8. CASE ConnectionLost
  <2>1. /\ spc' = "Idle" /\ reply' = None /\ queue' = queue
        /\ \A i \in 1..Len(queue) : ~queue[i].live
    BY <1>8 DEF ConnectionLost, Rest
  <2> QED BY <2>1, LiveQuiet
<1>9. CASE TimeOut \/ SessiondCrash
  <2>1. spc' \in {"Idle", "Down"} /\ reply' = None /\ queue' = Abandoned
    BY <1>9 DEF TimeOut, SessiondCrash, Rest, Stopped
  <2> QED BY <1>3, <2>1, LiveQuiet
<1>10. CASE PersistSnapshot
  BY <1>10, LivePersist
<1>11. CASE HandleRequest
  BY <1>11, LiveHandle
<1>12. CASE WatchdogCrash
  <2>1. /\ UNCHANGED <<spc, profile, comps, generation, sequence, streamed, reply>>
        /\ cache' = EmptyCache /\ queue' = <<>>
    BY <1>12 DEF WatchdogCrash
  <2>2. profile' \in Profiles /\ \A p \in Profiles : cache'[p] = None
    BY <1>0, <2>1 DEF EmptyCache, StreamType
  <2>3. CachesBehind'
    BY <2>2 DEF CachesBehind
  <2>4. Health(comps)' = Health(comps)
    BY <2>1 DEF Health, process_exists
  <2>5. Waits /\ reply # None => Answers(reply)'
    BY <1>2, <2>1, <2>2, <2>3, <2>4 DEF Answers
  <2> QED BY <1>1, <2>1, <2>3, <2>5 DEF LiveInv, Waits
<1>13. CASE \/ ReportUnchanged \/ WatchdogStart \/ RequestRecovery \/ ReportLost
            \/ \E c \in Components : ProcessExit(c)
            \/ \E alive \in SUBSET Components : InspectOnce(alive)
            \/ UNCHANGED vars
  <2>1. UNCHANGED <<spc, profile, comps, generation, sequence, streamed, reply, cache, queue>>
    BY <1>13 DEF ReportUnchanged, WatchdogStart, RequestRecovery, ReportLost, ProcessExit,
                 InspectOnce, vars
  <2> QED BY <1>0, <2>1
          DEF LiveInv, Waits, WaitsForLast, Current, Changed, Behind, CachesBehind, Answers,
              Health, process_exists
<1> QED BY <1>4, <1>5, <1>6, <1>7, <1>8, <1>9, <1>10, <1>11, <1>12, <1>13 DEF Next, Supervise

-----------------------------------------------------------------------------

\* Nothing runs, nothing is cached.
LEMMA InitAnswerInv == Init => AnswerInv
<1> SUFFICES ASSUME Init PROVE AnswerInv
  OBVIOUS
<1>1. StreamInv
  BY InitStreamInv
<1>2. DOMAIN comps = {} /\ spc = "Down" /\ queue = <<>> /\ reply = None /\ streamed = None
  BY DEF Init
<1>3. SessionType
  <2>1. exited \subseteq Children /\ generation <= MaxGeneration
        /\ requests \in 0..MaxRequests /\ faults \in 0..MaxFaults
    BY DEF Init
  <2>2. pending \in BOOLEAN /\ serving \in BOOLEAN /\ ~serving /\ up \in BOOLEAN
    BY DEF Init
  <2> QED BY <1>2, <2>1, <2>2 DEF SessionType
<1>4. CacheType
  <2>1. CachedProfiles = {} /\ \A p \in Profiles : cache[p] = None
    BY DEF Init, EmptyCache, CachedProfiles
  <2> QED BY <2>1, FS_EmptySet, CacheAssumption DEF CacheType
<1>5. ArtifactInv
  BY DEF Init, ArtifactInv
<1>6. ReflectInv /\ LiveInv
  BY <1>2 DEF ReflectInv, StreamedInv, LiveInv, Waits
<1> QED BY <1>1, <1>3, <1>4, <1>5, <1>6 DEF AnswerInv

\* Every step preserves the invariant.
LEMMA NextAnswerInv == AnswerInv /\ [Next]_vars => AnswerInv'
<1> SUFFICES ASSUME AnswerInv, [Next]_vars PROVE AnswerInv'
  OBVIOUS
<1>1. StreamInv'
  BY NextStreamInv DEF AnswerInv
<1> QED BY <1>1, NextSessionType, NextCacheType, NextArtifactInv, NextReflectInv, NextLiveInv
        DEF AnswerInv

\* The invariant holds in every reachable state.
LEMMA AnswerInvariant == Spec => []AnswerInv
  BY InitAnswerInv, NextAnswerInv, PTL DEF Spec

\* For every set of profiles and components, every limit and any number of
\* crashes, lost answers and restarts: the report sessiond reads is the one its
\* own snapshot deserves, although the watchdog merged its copy from deltas,
\* and one full resend repairs the stream (watchdog_stream_command against
\* apply_delta, notify_watchdog).
THEOREM AnswersAgreeHolds == Spec => []AnswersAgree
<1>1. AnswerInv => AnswersAgree
  <2> SUFFICES ASSUME AnswerInv PROVE AnswersAgree
    OBVIOUS
  <2>1. StreamType /\ SessionType /\ CacheType /\ ArtifactInv /\ LiveInv
    BY DEF AnswerInv, StreamInv
  <2>2. VerdictAgrees /\ ResyncConverges
    BY <2>1 DEF VerdictAgrees, ResyncConverges, LiveInv, Answers, Waits
  <2>3. TypeOK
    <3>1. \A c \in DOMAIN comps : comps[c] \in ComponentState
      BY StatesTyped
    <3>2. generation \in 0..MaxGeneration
      BY <2>1 DEF StreamType, SessionType
    <3>3. reply # None => Waits /\ reply.kind \in {"Report", "Resync", "Invalid"}
      BY <2>1 DEF LiveInv, Answers
    <3>4. DOMAIN cache = Profiles
      BY <2>1 DEF StreamType
    <3>5. inspection # None => DOMAIN inspection.report = SessionComponents[inspection.profile]
      BY <2>1 DEF ArtifactInv
    <3>6. launch # None => launch.profile \in Profiles
      BY <2>1 DEF ArtifactInv
    <3> QED BY <2>1, <3>1, <3>2, <3>3, <3>4, <3>5, <3>6
            DEF TypeOK, StreamType, SessionType, CacheType
  <2> QED BY <2>2, <2>3 DEF AnswersAgree
<1> QED BY <1>1, AnswerInvariant, PTL

\* What makes sessiond leave its profile, per step: the answer to its own
\* snapshot, or a report of an inspection.
LEMMA DegradeStep ==
    ASSUME AnswerInv, [Next]_vars, active' # active
    PROVE  \/ Lost(comps, Children)
           \/ /\ spc = "Idle" /\ inspection.profile = profile
              /\ Lost(inspection.comps, InspectedRunning)
<1> USE DEF sessionVars, artifactVars, watchdogVars, socketVars, processVars
<1>1. ReceiveDegrade \/ ReportDegrades
  BY DEF Next, Supervise, Bootstrap, Switch, NewStream, Poll, PersistSnapshot, NotifySend,
         NotifyFails, ReceiveReport, DegradeFails, DegradeRefused, ReportUnchanged,
         ReceiveResync, ReceiveError, ConnectionLost, HandleRequest, WatchdogStart,
         ProcessExit, RequestRecovery, InspectOnce, ReportLost, TimeOut, SessiondCrash,
         WatchdogCrash, vars
<1>2. CASE ReceiveDegrade
  <2>1. Waits /\ reply # None /\ reply.kind = "Report" /\ Triggers(reply.report) # {}
    BY <1>2 DEF ReceiveDegrade, WantsDegrade
  <2>2. reply.report = Health(comps)
    BY <2>1 DEF AnswerInv, LiveInv, Answers
  <2>3. PICK c \in DOMAIN comps :
           Inspect(comps[c], c \in Critical, process_exists(c, comps[c].pid)).action
              = "DegradedProfile"
    BY <2>1, <2>2 DEF Triggers, Health
  <2>4. /\ c \in Critical
        /\ comps[c].state = "Missing" \/ comps[c].restart_count >= CrashLoop
        /\ comps[c].state = "Missing"
              \/ ~(comps[c].state = "Spawned" /\ process_exists(c, comps[c].pid))
    BY <2>3 DEF Inspect, ComponentAction
  <2>5. comps[c].pid # 0 <=> comps[c].state = "Spawned"
    BY DEF AnswerInv, SessionType
  <2>6. c \notin Children
    BY <2>4, <2>5 DEF Children, process_exists
  <2> QED BY <2>4, <2>6 DEF Lost
<1>3. CASE ReportDegrades
  <2>1. /\ spc = "Idle" /\ inspection # None /\ inspection.profile = profile
        /\ Triggers(inspection.report) # {}
    BY <1>3 DEF ReportDegrades, AcceptsReport, WantsDegrade
  <2>2. PICK c \in DOMAIN inspection.report : inspection.report[c].action = "DegradedProfile"
    BY <2>1 DEF Triggers
  <2>3. /\ DOMAIN inspection.report = DOMAIN inspection.comps
        /\ \E exists \in BOOLEAN :
              inspection.report[c] = Inspect(inspection.comps[c], c \in Critical, exists)
    BY <2>1 DEF AnswerInv, ArtifactInv
  <2>4. /\ c \in Critical /\ inspection.report[c].status # "Healthy"
        /\ inspection.comps[c].state = "Missing" \/ inspection.comps[c].restart_count >= CrashLoop
    <3>1. PICK exists \in BOOLEAN :
               inspection.report[c] = Inspect(inspection.comps[c], c \in Critical, exists)
      BY <2>3
    <3> QED BY <2>2, <3>1 DEF Inspect, ComponentAction
  <2>5. c \notin InspectedRunning
    BY <2>4 DEF InspectedRunning
  <2> QED BY <2>1, <2>3, <2>4, <2>5 DEF Lost
<1> QED BY <1>1, <1>2, <1>3

\* For every set of profiles and components and any number of crashes, sessiond
\* leaves a profile only for a critical component it has lost
\* (apply_watchdog_stream_report, ApplyWatchdogReport).
THEOREM DegradeIsJustifiedHolds == Spec => DegradeIsJustified
<1>1. AnswerInv /\ [Next]_vars =>
         [active' # active =>
            \/ Lost(comps, Children)
            \/ /\ spc = "Idle" /\ inspection.profile = profile
               /\ Lost(inspection.comps, InspectedRunning)]_vars
  BY DegradeStep
<1>2. DegradeIsJustified <=>
         [][active' # active =>
            \/ Lost(comps, Children)
            \/ /\ spc = "Idle" /\ inspection.profile = profile
               /\ Lost(inspection.comps, InspectedRunning)]_vars
  BY DEF DegradeIsJustified
<1> QED BY <1>1, <1>2, AnswerInvariant, PTL DEF Spec

-----------------------------------------------------------------------------
(* LaunchDelivery: the same cache behind an unreliable stream.  MirrorExact *)
(* is inductive together with the types: a delta is accepted only on top of *)
(* its predecessor, and merging the difference of two states into the first *)
(* gives the second.                                                        *)

\* The inductive invariant: types and the exactness of the mirror.
MirrorInv == DeliveryTypeOK /\ MirrorExact

\* The initial state satisfies it.
LEMMA InitMirror == DeliveryInit => MirrorInv
  BY DEF DeliveryInit, MirrorInv, DeliveryTypeOK, MirrorExact, EmptyCache

\* Entries stay exact when the stream grows, because nothing in it changes.
LEMMA LogGrows ==
    ASSUME MirrorInv,
           sent' \in Seq(Generation),
           cache' = cache,
           Len(sent') >= Len(sent),
           \A g \in 1..Len(sent) :
               /\ sent'[g].profile = sent[g].profile
               /\ Len(sent'[g].states) >= Len(sent[g].states)
               /\ \A s \in 1..Len(sent[g].states) : sent'[g].states[s] = sent[g].states[s]
    PROVE  MirrorInv'
<1>1. DeliveryTypeOK'
  BY DEF MirrorInv, DeliveryTypeOK
<1>2. SUFFICES ASSUME NEW p \in Profiles, cache[p] # None
               PROVE  /\ cache[p].generation \in 1..Len(sent')
                      /\ cache[p].sequence \in 1..Len(sent'[cache[p].generation].states)
                      /\ cache[p].profile = p
                      /\ sent'[cache[p].generation].profile = p
                      /\ cache[p].comps
                            = sent'[cache[p].generation].states[cache[p].sequence]
  BY <1>1 DEF MirrorInv, MirrorExact
<1> DEFINE g == cache[p].generation
           s == cache[p].sequence
<1>3. /\ g \in 1..Len(sent)
      /\ s \in 1..Len(sent[g].states)
      /\ cache[p].profile = p
      /\ sent[g].profile = p
      /\ cache[p].comps = sent[g].states[s]
  BY <1>2 DEF MirrorInv, MirrorExact
<1>4. Len(sent) \in Nat /\ Len(sent') \in Nat
  BY DEF MirrorInv, DeliveryTypeOK
<1>5. sent[g] \in Generation /\ sent'[g] \in Generation
  BY <1>3, <1>4 DEF MirrorInv, DeliveryTypeOK
<1>6. Len(sent[g].states) \in Nat /\ Len(sent'[g].states) \in Nat
  BY <1>5 DEF Generation
<1> HIDE DEF g, s
<1>7. /\ g \in 1..Len(sent')
      /\ s \in 1..Len(sent'[g].states)
      /\ sent'[g].profile = p
      /\ sent'[g].states[s] = sent[g].states[s]
  BY <1>3, <1>4, <1>6
<1> QED BY <1>3, <1>7 DEF g, s

\* Starting a generation leaves the stream before it alone.
LEMMA NewGenerationMirror ==
    ASSUME MirrorInv, NEW p \in Profiles, NEW cs \in States, NewGeneration(p, cs)
    PROVE  MirrorInv'
<1> DEFINE e == [profile |-> p, states |-> <<cs>>]
<1>1. e \in Generation
  BY DEF Generation
<1> HIDE DEF e
<1>2. sent' = Append(sent, e) /\ sent \in Seq(Generation) /\ cache' = cache
  BY DEF NewGeneration, MirrorInv, DeliveryTypeOK, e
<1>3. /\ sent' \in Seq(Generation)
      /\ Len(sent') = Len(sent) + 1
      /\ \A g \in 1..Len(sent) : sent'[g] = sent[g]
  BY <1>1, <1>2
<1>4. \A g \in 1..Len(sent) : sent[g] \in Generation
  BY <1>2
<1>5. \A g \in 1..Len(sent) : Len(sent[g].states) \in Nat
  BY <1>4 DEF Generation
<1> QED BY <1>2, <1>3, <1>5, LogGrows

\* So does adding a state to the current generation.
LEMMA NewStateMirror ==
    ASSUME MirrorInv, NEW cs \in States, NewState(cs)
    PROVE  MirrorInv'
<1> DEFINE n == Len(sent)
           e == [profile |-> sent[n].profile, states |-> Append(sent[n].states, cs)]
<1>1. sent \in Seq(Generation) /\ n \in Nat /\ n \in 1..n
  BY DEF NewState, MirrorInv, DeliveryTypeOK
<1>2. sent[n] \in Generation
  BY <1>1
<1>3. /\ e \in Generation
      /\ e.profile = sent[n].profile
      /\ Len(e.states) = Len(sent[n].states) + 1
      /\ \A s \in 1..Len(sent[n].states) : e.states[s] = sent[n].states[s]
  BY <1>2 DEF Generation
<1> HIDE DEF e
<1>4. sent' = [sent EXCEPT ![n] = e] /\ cache' = cache
  BY DEF NewState, e
<1>5. /\ sent' \in Seq(Generation)
      /\ Len(sent') = n
      /\ \A g \in 1..n : sent'[g] = IF g = n THEN e ELSE sent[g]
  BY <1>1, <1>3, <1>4
<1>6. \A g \in 1..n : Len(sent[g].states) \in Nat
  BY <1>1 DEF Generation
<1>7. \A g \in 1..n : /\ sent'[g].profile = sent[g].profile
                      /\ Len(sent'[g].states) >= Len(sent[g].states)
                      /\ \A s \in 1..Len(sent[g].states) : sent'[g].states[s] = sent[g].states[s]
  BY <1>3, <1>5, <1>6
<1> HIDE DEF n
<1>8. Len(sent') >= Len(sent)
  BY <1>1, <1>5 DEF n
<1> QED BY <1>4, <1>5, <1>7, <1>8, LogGrows DEF n

\* An accepted delta is the successor of the state in the cache.
LEMMA AcceptedDelta ==
    ASSUME MirrorInv, NEW g \in 1..Len(sent), NEW s \in 1..Len(sent[g].states),
           Outcome(Request("Delta", g, s)) = "Accepted"
    PROVE  LET e == cache[sent[g].profile] IN
           e # None /\ e.generation = g /\ s = e.sequence + 1
<1> DEFINE m == Request("Delta", g, s)
           e == cache[sent[g].profile]
<1>1. /\ m.kind = "Delta"
      /\ m.state.generation = g
      /\ m.state.sequence = s
      /\ Cached(m) = e
  BY DEF Request, Emitted, LaunchState, Cached
<1>2. ~Stale(m) /\ ~Gap(m)
  BY DEF Outcome
<1>3. sent[g] \in Generation
  BY DEF MirrorInv, DeliveryTypeOK
<1>4. sent[g].profile \in Profiles
  BY <1>3 DEF Generation
<1> HIDE DEF m
<1>5. e # None
  BY <1>1, <1>2 DEF Gap
<1>6. e.generation \in Nat /\ e.sequence \in Nat
  BY <1>4, <1>5 DEF MirrorInv, DeliveryTypeOK, Entry
<1> HIDE DEF e
<1>7. Older(e, m.state)
  BY <1>1, <1>2, <1>5 DEF Stale
<1>8. ~(g > e.generation)
  BY <1>1, <1>2, <1>5 DEF Gap
<1>9. e.generation = g /\ e.sequence < s
  BY <1>1, <1>6, <1>7, <1>8 DEF Older
<1>10. s = e.sequence + 1
  BY <1>1, <1>2, <1>5, <1>8 DEF Gap
<1> QED BY <1>5, <1>9, <1>10 DEF e

\* What an accepted request leaves in the cache is the state the sender gave
\* that stamp.
LEMMA MergedIsEmitted ==
    ASSUME MirrorInv, NEW kind \in {"Full", "Replace", "Delta"},
           NEW g \in 1..Len(sent), NEW s \in 1..Len(sent[g].states),
           Outcome(Request(kind, g, s)) = "Accepted"
    PROVE  Merged(Request(kind, g, s)) = Emitted(g, s, sent[g].states[s])
<1>1. CASE kind # "Delta"
  BY <1>1 DEF Merged, Request
<1>2. CASE kind = "Delta"
  <2> DEFINE e == cache[sent[g].profile]
             before == sent[g].states[s - 1]
             after == sent[g].states[s]
  <2>1. e # None /\ e.generation = g /\ s = e.sequence + 1
    BY <1>2, AcceptedDelta
  <2>2. sent[g] \in Generation
    BY DEF MirrorInv, DeliveryTypeOK
  <2>3. sent[g].profile \in Profiles
    BY <2>2 DEF Generation
  <2>4. e.sequence \in Nat /\ e.sequence \in 1..Len(sent[g].states)
                         /\ e.comps = sent[g].states[e.sequence]
    BY <2>1, <2>3 DEF MirrorInv, MirrorExact, DeliveryTypeOK, Entry
  <2>5. e.comps = before /\ s - 1 \in 1..Len(sent[g].states)
    BY <2>1, <2>4
  <2>6. before \in States /\ after \in States
    BY <2>2, <2>5 DEF Generation
  <2> HIDE DEF before, after
  <2>7. /\ Request(kind, g, s).kind = "Delta"
        /\ Request(kind, g, s).state.profile = sent[g].profile
        /\ Request(kind, g, s).state.generation = g
        /\ Request(kind, g, s).state.sequence = s
        /\ Request(kind, g, s).state.comps = [c \in Differing(g, s) |-> after[c]]
        /\ Cached(Request(kind, g, s)).comps = before
    BY <1>2, <2>5 DEF Request, Emitted, LaunchState, Cached, after
  <2>8. \A c \in Components : c \notin Differing(g, s) => before[c] = after[c]
    BY DEF Differing, before, after
  <2>9. Differing(g, s) \subseteq Components
    BY DEF Differing
  <2> DEFINE delta == [c \in Differing(g, s) |-> after[c]]
  <2>10. DOMAIN before \cup DOMAIN delta = Components
    BY <2>6, <2>9 DEF States
  <2>11. [c \in Components |-> IF c \in DOMAIN delta THEN delta[c] ELSE before[c]] = after
    BY <2>6, <2>8, <2>9 DEF States
  <2> HIDE DEF delta
  <2>12. Merged(Request(kind, g, s)) = LaunchState(sent[g].profile, g, s, after)
    BY <2>7, <2>10, <2>11 DEF Merged, delta
  <2> QED BY <2>12 DEF Emitted, after
<1> QED BY <1>1, <1>2

\* Handling a request keeps every entry exact.
LEMMA DeliverMirror ==
    ASSUME MirrorInv, NEW kind \in {"Full", "Replace", "Delta"},
           NEW g \in 1..Len(sent), NEW s \in 1..Len(sent[g].states), Deliver(kind, g, s)
    PROVE  MirrorInv'
<1> DEFINE m == Request(kind, g, s)
<1>1. CASE Outcome(m) # "Accepted"
  BY <1>1 DEF Deliver, NextCache, MirrorInv, DeliveryTypeOK, MirrorExact
<1>2. CASE Outcome(m) = "Accepted"
  <2> DEFINE p == sent[g].profile
             e == Emitted(g, s, sent[g].states[s])
  <2>1. sent[g] \in Generation
    BY DEF MirrorInv, DeliveryTypeOK
  <2>2. p \in Profiles /\ sent[g].states[s] \in States
    BY <2>1 DEF Generation
  <2>3. g \in Nat /\ s \in Nat
    OBVIOUS
  <2>4. e \in Entry
    BY <2>2, <2>3 DEF Emitted, LaunchState, Entry
  <2>5. e # None
    BY <2>4, EntryAssumption
  <2>6. /\ e.generation = g /\ e.sequence = s /\ e.profile = p
        /\ e.comps = sent[g].states[s]
        /\ m.state.profile = p
    BY DEF Emitted, LaunchState, Request
  <2> HIDE DEF e, p
  <2>7. cache' = [cache EXCEPT ![p] = e] /\ sent' = sent
    <3>1. Merged(m) = e
      BY <1>2, MergedIsEmitted DEF e
    <3>2. cache' = NextCache(m) /\ sent' = sent
      BY DEF Deliver
    <3> HIDE DEF m
    <3> QED BY <1>2, <2>6, <3>1, <3>2 DEF NextCache
  <2>8. cache \in [Profiles -> Entry \cup {None}]
    BY DEF MirrorInv, DeliveryTypeOK
  <2>9. DeliveryTypeOK'
    BY <2>2, <2>4, <2>7, <2>8 DEF MirrorInv, DeliveryTypeOK
  <2>10. \A q \in Profiles : cache'[q] = IF q = p THEN e ELSE cache[q]
    BY <2>2, <2>7, <2>8
  <2>11. MirrorExact'
    BY <2>6, <2>7, <2>10 DEF MirrorInv, MirrorExact, p
  <2> QED BY <2>9, <2>11 DEF MirrorInv
<1> QED BY <1>1, <1>2

\* Every step keeps the invariant.
LEMMA NextMirror == MirrorInv /\ [DeliveryNext]_deliveryVars => MirrorInv'
<1> SUFFICES ASSUME MirrorInv, [DeliveryNext]_deliveryVars PROVE MirrorInv'
  OBVIOUS
<1>1. CASE Restart
  BY <1>1 DEF Restart, MirrorInv, DeliveryTypeOK, MirrorExact, EmptyCache
<1>2. CASE UNCHANGED deliveryVars
  BY <1>2 DEF deliveryVars, MirrorInv, DeliveryTypeOK, MirrorExact
<1> QED
  BY <1>1, <1>2, NewGenerationMirror, NewStateMirror, DeliverMirror DEF DeliveryNext

\* Whatever the stream loses, repeats or reorders, the watchdog holds under each
\* stamp exactly the launch state the sender gave it.
THEOREM MirrorExactHolds == DeliverySpec => []MirrorExact
<1>1. MirrorInv => MirrorExact
  BY DEF MirrorInv
<1> QED BY <1>1, InitMirror, NextMirror, PTL DEF DeliverySpec

-----------------------------------------------------------------------------

\* The watchdog accepts only what is newer than the entry it replaces.
LEMMA AcceptedIsNewer ==
    ASSUME NEW m, Outcome(m) = "Accepted", Cached(m) # None
    PROVE  Older(Cached(m), m.state)
  BY DEF Outcome, Stale, Gap

\* One step of the stream changes an entry only to a newer one.
LEMMA RegressStep ==
    ASSUME MirrorInv, [DeliveryNext]_deliveryVars, cache' # EmptyCache,
           NEW p \in Profiles, cache[p] # None
    PROVE  cache'[p] # None /\ (cache'[p] = cache[p] \/ Older(cache[p], cache'[p]))
<1>1. CASE cache' = cache
  BY <1>1
<1>2. ASSUME NEW kind \in {"Full", "Replace", "Delta"}, NEW g \in 1..Len(sent),
             NEW s \in 1..Len(sent[g].states), Deliver(kind, g, s), cache' # cache
      PROVE  cache'[p] # None /\ (cache'[p] = cache[p] \/ Older(cache[p], cache'[p]))
  <2> DEFINE m == Request(kind, g, s)
             e == Emitted(g, s, sent[g].states[s])
  <2>1. Outcome(m) = "Accepted"
    BY <1>2 DEF Deliver, NextCache
  <2>2. cache' = [cache EXCEPT ![sent[g].profile] = e]
    BY <1>2, <2>1, MergedIsEmitted DEF Deliver, NextCache, Request, Emitted, LaunchState
  <2>3. cache'[p] = IF p = sent[g].profile THEN e ELSE cache[p]
    BY <2>2 DEF MirrorInv, DeliveryTypeOK
  <2>4. CASE p # sent[g].profile
    BY <2>3, <2>4
  <2>5. CASE p = sent[g].profile
    <3>1. sent[g] \in Generation
      BY DEF MirrorInv, DeliveryTypeOK
    <3>2. e \in Entry
      BY <2>5, <3>1 DEF Emitted, LaunchState, Entry, Generation
    <3>3. Cached(m) = cache[p]
      BY <2>5 DEF Cached, Request, Emitted, LaunchState
    <3>4. m.state.generation = e.generation /\ m.state.sequence = e.sequence
      BY DEF Request, Emitted, LaunchState
    <3>5. Older(cache[p], m.state)
      BY <2>1, <3>3, AcceptedIsNewer
    <3> HIDE DEF m, e
    <3>6. Older(cache[p], e)
      BY <3>4, <3>5 DEF Older
    <3> QED BY <2>3, <2>5, <3>2, <3>6, EntryAssumption
  <2> QED BY <2>4, <2>5
<1> QED
  BY <1>1, <1>2 DEF DeliveryNext, deliveryVars, NewGeneration, NewState, Restart

\* No late or repeated request takes the watchdog back to an older state of a
\* profile.
THEOREM CacheNeverRegressesHolds == DeliverySpec => CacheNeverRegresses
<1>1. MirrorInv /\ [DeliveryNext]_deliveryVars =>
        [cache' = EmptyCache \/
         \A p \in Profiles : cache[p] # None =>
             /\ cache'[p] # None
             /\ cache'[p] = cache[p] \/ Older(cache[p], cache'[p])]_deliveryVars
  BY RegressStep
<1> QED BY <1>1, InitMirror, NextMirror, PTL DEF DeliverySpec, CacheNeverRegresses
=============================================================================
