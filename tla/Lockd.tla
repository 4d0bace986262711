-------------------------------- MODULE Lockd --------------------------------
(***************************************************************************)
(* lockd, the service that owns the lock state of one session              *)
(* (crates/lockd/src/main.rs).                                             *)
(*                                                                         *)
(* lockd answers one connection at a time.  The lock state is kept twice:  *)
(* in memory, where requests are answered from, and in an artifact file    *)
(* that is replaced atomically (temporary file, fsync, rename) before the  *)
(* memory is updated and before the request is acknowledged.  The process  *)
(* may die between any two of these steps; a restart believes the file.    *)
(***************************************************************************)
EXTENDS Naturals, Sequences

CONSTANTS
    Clients,         \* the services that connect to lockd
    Offered,         \* the requests they send
    MaxGeneration,   \* stands for u64::MAX, where checked_add fails
    MaxBacklog,      \* connections waiting in the listener (model bound)
    MaxDamage,       \* how often the artifact is damaged (model bound)
    None,            \* no value
    Absent, Damaged  \* an artifact file that is missing, that is unusable

ASSUME ClientsAssumption == "Sessiond" \in Clients
ASSUME BoundsAssumption ==
    /\ MaxGeneration \in Nat \ {0}
    /\ MaxBacklog \in Nat
    /\ MaxDamage \in Nat

VARIABLES
    pc,        \* where the single lockd thread stands
    failResume,\* the --fail-resume fault injection of this process
    mem,       \* LockRuntimeState.persisted: lock state and generation
    disk,      \* the artifact: Absent, Damaged or a PersistedLockState
    next,      \* the PersistedLockState being written
    backlog,   \* connections not yet accepted, in connection order
    req,       \* the connection being served
    resp,      \* its response, once build_response has returned
    damage,    \* number of times the artifact was damaged
    acked,     \* history: the acknowledgement of sessiond's latest
               \* SetLockState, None while it has none
    reported   \* history: the latest State response a client received
               \* since lockd last had to initialize the artifact

vars == <<pc, failResume, mem, disk, next, backlog, req, resp, damage,
          acked, reported>>

LockStates == {"Unlocked", "Locked", "BlankOnly"}

Persisted == [state : LockStates, generation : 1..MaxGeneration]

\* What a connection carries.  "Unsupported" is a request lockd rejects
\* whatever its source (another destination, a response-only command, a
\* command of another service); "Stalled" is a connection that never sends a
\* complete line.  live: the client still waits for the response.
Command == {"SetLockState", "AuthPrompt", "GetState", "Unsupported", "Stalled"}
Message == [src : Clients, cmd : Command, state : LockStates]
Request == [src : Clients, cmd : Command, state : LockStates, live : BOOLEAN]

Response ==
    [kind : {"SetLockState", "AuthPrompt", "Rejected"}, state : LockStates]
        \cup [kind : {"State"}, state : LockStates, generation : 1..MaxGeneration]

ASSUME OfferedAssumption == Offered \subseteq Message
ASSUME NoneAssumption ==
    None \notin LockStates \cup Persisted \cup Request \cup Response
ASSUME ArtifactAssumption ==
    /\ {Absent, Damaged} \cap Persisted = {}
    /\ Absent # Damaged

Init ==
    /\ pc = "Down"
    /\ failResume = FALSE
    /\ mem = None
    /\ disk = Absent
    /\ next = None
    /\ backlog = <<>>
    /\ req = None
    /\ resp = None
    /\ damage = 0
    /\ acked = None
    /\ reported = None

-----------------------------------------------------------------------------
(* Clients *)

\* A client that is already waiting does not connect a second time.
Waiting(c) ==
    \/ \E i \in 1..Len(backlog) : backlog[i].src = c /\ backlog[i].live
    \/ req # None /\ req.src = c /\ req.live

IsControl(r) == r.src = "Sessiond" /\ r.cmd = "SetLockState"

\* A client connects and sends its request; the socket is bound from the
\* start of serve_ipc, before the state has been loaded.
Connect(m) ==
    /\ pc # "Down"
    /\ ~Waiting(m.src)
    /\ Len(backlog) < MaxBacklog
    /\ backlog' = Append(backlog, [src |-> m.src, cmd |-> m.cmd,
                                   state |-> m.state, live |-> TRUE])
    /\ acked' = IF IsControl(m) THEN None ELSE acked
    /\ UNCHANGED <<pc, failResume, mem, disk, next, req, resp, damage, reported>>

Abandon(r, c) ==
    [src |-> r.src, cmd |-> r.cmd, state |-> r.state, live |-> r.live /\ r.src # c]

\* The client's own timeout expires.  Its request stays where it is and will
\* still be served.
GiveUp(c) ==
    /\ Waiting(c)
    /\ backlog' = [i \in 1..Len(backlog) |-> Abandon(backlog[i], c)]
    /\ req' = IF req = None THEN None ELSE Abandon(req, c)
    /\ UNCHANGED <<pc, failResume, mem, disk, next, resp, damage, acked, reported>>

-----------------------------------------------------------------------------
(* Startup: load_or_initialize_lock_state *)

fresh(s) == [state |-> s, generation |-> 1]

\* bind_service_socket, then the artifact is read.
Start(fail) ==
    /\ pc = "Down"
    /\ pc' = "Loading"
    /\ failResume' = fail
    /\ UNCHANGED <<mem, disk, next, backlog, req, resp, damage, acked, reported>>

\* Mutant: an unusable artifact is treated like a missing one.
MutInitialState == fresh("Unlocked")

\* The state a lockd without a usable artifact starts from: a missing
\* artifact means a new session, an unusable one fails closed.
InitialState == fresh(IF disk = Absent THEN "Unlocked" ELSE "BlankOnly")

LoadRecovered ==
    /\ pc = "Loading"
    /\ disk \notin {Absent, Damaged}
    /\ mem' = disk
    /\ pc' = "Idle"
    /\ UNCHANGED <<failResume, disk, next, backlog, req, resp, damage, acked, reported>>

LoadInitialize ==
    /\ pc = "Loading"
    /\ disk \in {Absent, Damaged}
    /\ next' = InitialState
    /\ pc' = "InitPersist"
    /\ UNCHANGED <<failResume, mem, disk, backlog, req, resp, damage, acked, reported>>

\* persist_lock_state renames the temporary file over the artifact.
InitRename ==
    /\ pc = "InitPersist"
    /\ disk' = next
    /\ mem' = next
    /\ next' = None
    /\ pc' = "Idle"
    /\ reported' = None
    /\ UNCHANGED <<failResume, backlog, req, resp, damage, acked>>

-----------------------------------------------------------------------------
(* Serving: handle_client and build_response *)

Reply(kind, s) == [kind |-> kind, state |-> s]
Rejected == Reply("Rejected", "Unlocked")

is_control_source(c) == c = "Sessiond"
is_status_source(c) == c \in {"Sessiond", "Watchdog"}

\* The request makes transition() write a new artifact: the state changes and
\* the generation is not exhausted.
NeedsPersist(r) ==
    /\ r.cmd = "SetLockState"
    /\ is_control_source(r.src)
    /\ ~failResume
    /\ mem.state # r.state
    /\ mem.generation < MaxGeneration

\* Requests build_response grants without writing: a SetLockState that changes
\* nothing, a prompt over a locked or blank screen, a status query.
Granted(r) ==
    \/ /\ r.cmd = "SetLockState"
       /\ is_control_source(r.src)
       /\ ~failResume
       /\ mem.state = r.state
    \/ /\ r.cmd = "AuthPrompt"
       /\ is_control_source(r.src)
       /\ ~failResume
       /\ mem.state # "Unlocked"
    \/ /\ r.cmd = "GetState"
       /\ is_status_source(r.src)

DirectResponse(r) ==
    IF ~Granted(r) THEN Rejected
    ELSE IF r.cmd = "GetState"
         THEN [kind |-> "State", state |-> mem.state, generation |-> mem.generation]
         ELSE Reply(r.cmd, mem.state)

\* accept: connections are taken in the order they were made.
Accept ==
    /\ pc = "Idle"
    /\ backlog # <<>>
    /\ req' = Head(backlog)
    /\ backlog' = Tail(backlog)
    /\ pc' = "Read"
    /\ UNCHANGED <<failResume, mem, disk, next, resp, damage, acked, reported>>

\* Mutant: no read timeout, the loop stays with a connection that sends nothing.
MutReadFails == FALSE /\ UNCHANGED vars

\* CLIENT_IO_TIMEOUT expires on a connection without a complete line:
\* handle_client returns an error, the connection is dropped.
ReadFails ==
    /\ pc = "Read"
    /\ req.cmd = "Stalled"
    /\ req' = None
    /\ pc' = "Idle"
    /\ UNCHANGED <<failResume, mem, disk, next, backlog, resp, damage, acked, reported>>

Respond ==
    /\ pc = "Read"
    /\ req.cmd # "Stalled"
    /\ ~NeedsPersist(req)
    /\ resp' = DirectResponse(req)
    /\ pc' = "Send"
    /\ UNCHANGED <<failResume, mem, disk, next, backlog, req, damage, acked, reported>>

\* Mutant: transition() keeps the generation of the previous state.
MutSuccessor(s) == [state |-> s, generation |-> mem.generation]

Successor(s) == [state |-> s, generation |-> mem.generation + 1]

\* transition() has built the next snapshot and persist_lock_state writes and
\* syncs it under a temporary name no other process uses.
BeginTransition ==
    /\ pc = "Read"
    /\ NeedsPersist(req)
    /\ next' = Successor(req.state)
    /\ pc' = "Persist"
    /\ UNCHANGED <<failResume, mem, disk, backlog, req, resp, damage, acked, reported>>

\* Mutant: the memory is updated although the artifact was not replaced.
MutPersistFails ==
    /\ pc = "Persist"
    /\ next' = None
    /\ mem' = next
    /\ resp' = Reply("SetLockState", req.state)
    /\ pc' = "Send"
    /\ UNCHANGED <<failResume, disk, backlog, req, damage, acked, reported>>

\* Creating, writing, syncing or renaming fails: the temporary file is
\* removed, state and artifact stay as they were.
PersistFails ==
    /\ pc = "Persist"
    /\ next' = None
    /\ resp' = Rejected
    /\ pc' = "Send"
    /\ UNCHANGED <<failResume, mem, disk, backlog, req, damage, acked, reported>>

Rename ==
    /\ pc = "Persist"
    /\ disk' = next
    /\ pc' = "Renamed"
    /\ UNCHANGED <<failResume, mem, next, backlog, req, resp, damage, acked, reported>>

\* The artifact is in place; memory follows and the response is built.
FinishTransition ==
    /\ pc = "Renamed"
    /\ mem' = next
    /\ next' = None
    /\ resp' = Reply("SetLockState", req.state)
    /\ pc' = "Send"
    /\ UNCHANGED <<failResume, disk, backlog, req, damage, acked, reported>>

\* send_json_line: a client that still waits receives the response; for one
\* that has gone the write fails and the loop goes on.
Send ==
    /\ pc = "Send"
    /\ acked' = IF req.live /\ IsControl(req) /\ resp.kind = "SetLockState"
                THEN resp.state ELSE acked
    /\ reported' = IF req.live /\ resp.kind = "State"
                   THEN [state |-> resp.state, generation |-> resp.generation]
                   ELSE reported
    /\ req' = None
    /\ resp' = None
    /\ pc' = "Idle"
    /\ UNCHANGED <<failResume, mem, disk, next, backlog, damage>>

-----------------------------------------------------------------------------
(* The environment *)

\* The process dies (or serve_ipc returns: --once, a fatal accept error, an
\* artifact that can be neither read nor written at startup).  Memory and
\* connections are gone, the artifact stays.
Crash ==
    /\ pc # "Down"
    /\ pc' = "Down"
    /\ mem' = None
    /\ next' = None
    /\ req' = None
    /\ resp' = None
    /\ backlog' = <<>>
    /\ UNCHANGED <<failResume, disk, damage, acked, reported>>

\* The artifact becomes undecodable, or its version, session or generation
\* field is not one load_or_initialize_lock_state accepts.
Damage ==
    /\ disk # Absent
    /\ damage < MaxDamage
    /\ disk' = Damaged
    /\ damage' = damage + 1
    /\ UNCHANGED <<pc, failResume, mem, next, backlog, req, resp, acked, reported>>

Serve ==
    \/ LoadRecovered \/ LoadInitialize \/ InitRename
    \/ Accept \/ ReadFails \/ Respond
    \/ BeginTransition \/ PersistFails \/ Rename \/ FinishTransition
    \/ Send

Next ==
    \/ \E m \in Offered : Connect(m)
    \/ \E c \in Clients : GiveUp(c)
    \/ \E fail \in BOOLEAN : Start(fail)
    \/ Serve
    \/ Crash
    \/ Damage

\* The serving thread never stops of itself: every blocking call it makes has
\* a timeout.
Spec == Init /\ [][Next]_vars /\ WF_vars(Serve)

-----------------------------------------------------------------------------
(* Properties *)

\* Every variable has its type, and the thread's registers are filled exactly
\* where the code has them in scope.
TypeOK ==
    /\ pc \in {"Down", "Loading", "InitPersist", "Idle", "Read", "Persist",
               "Renamed", "Send"}
    /\ failResume \in BOOLEAN
    /\ mem \in Persisted \cup {None}
    /\ disk \in Persisted \cup {Absent, Damaged}
    /\ next \in Persisted \cup {None}
    /\ backlog \in Seq(Request)
    /\ req \in Request \cup {None}
    /\ resp \in Response \cup {None}
    /\ damage \in 0..MaxDamage
    /\ acked \in LockStates \cup {None}
    /\ reported \in Persisted \cup {None}
    /\ mem # None <=> pc \in {"Idle", "Read", "Persist", "Renamed", "Send"}
    /\ req # None <=> pc \in {"Read", "Persist", "Renamed", "Send"}
    /\ next # None <=> pc \in {"InitPersist", "Persist", "Renamed"}
    /\ resp # None <=> pc = "Send"

\* The state a lockd that started now would serve (load_or_initialize_lock_state).
RestoredState ==
    IF disk \in {Absent, Damaged} THEN InitialState.state ELSE disk.state

\* Once sessiond has received the acknowledgement of its latest SetLockState,
\* a lockd that dies at any later point comes back in that state, whatever
\* requests were abandoned before and are still queued, unless the artifact
\* was damaged, and then it comes back blank (transition persists before it
\* updates memory and before build_response acknowledges).
AckedDurable ==
    acked # None =>
        RestoredState = acked \/ (damage > 0 /\ RestoredState = "BlankOnly")

\* A generation names one lock state: what a client was told is never ahead
\* of the artifact, and as long as the artifact has the generation the client
\* was told, it has that lock state too, across crashes and failed writes
\* (transition, generation checked_add; a damaged artifact starts over at 1).
ReportedIsDurable ==
    reported # None /\ disk # Damaged =>
        /\ disk.generation >= reported.generation
        /\ disk.generation = reported.generation => disk.state = reported.state

\* Only a SetLockState(Unlocked) of sessiond takes the session out of a locked
\* or blank state: no crash, restart, damaged artifact, failed write or other
\* client's request does (build_response, load_or_initialize_lock_state).
UnlockOnlyOnRequest ==
    [][RestoredState # "Unlocked" /\ RestoredState' = "Unlocked"
         => /\ pc = "Persist"
            /\ IsControl(req)
            /\ req.state = "Unlocked"]_vars

\* Every connected client is answered or dropped, even behind clients that
\* never send their line (CLIENT_IO_TIMEOUT in handle_client).
ClientsServed ==
    \A c \in Clients : Waiting(c) ~> ~Waiting(c)

-----------------------------------------------------------------------------
(* The inductive invariant behind AckedDurable and ReportedIsDurable *)

\* The artifact is missing only before the first lockd has written it.
ArtifactInv ==
    /\ disk = Absent => mem = None /\ acked = None /\ reported = None
    /\ disk = Damaged => damage > 0

\* Memory and an undamaged artifact agree except between rename and the
\* update of memory; what is being written belongs to the request in service.
WriteInv ==
    /\ mem # None /\ disk # Damaged =>
           disk = IF pc = "Renamed" THEN next ELSE mem
    /\ pc = "InitPersist" => disk \in {Absent, Damaged} /\ next = InitialState
    /\ pc \in {"Persist", "Renamed"} =>
           IsControl(req) /\ next = Successor(req.state)

\* A control request somebody still waits for has no control request behind
\* it, and an acknowledged one has none left at all.
QueueInv ==
    /\ \A i, j \in 1..Len(backlog) :
           i < j /\ IsControl(backlog[i]) /\ backlog[i].live => ~IsControl(backlog[j])
    /\ req # None /\ IsControl(req) /\ req.live =>
           \A i \in 1..Len(backlog) : ~IsControl(backlog[i])
    /\ acked # None =>
           /\ req # None => ~IsControl(req)
           /\ \A i \in 1..Len(backlog) : ~IsControl(backlog[i])

\* A positive response tells the state lockd holds while it sends it, and no
\* client was told a newer state than lockd holds.
AnswerInv ==
    /\ pc = "Send" /\ resp.kind = "SetLockState" => resp.state = mem.state
    /\ pc = "Send" /\ resp.kind = "State" =>
           resp.state = mem.state /\ resp.generation = mem.generation
    /\ reported # None /\ mem # None =>
           /\ mem.generation >= reported.generation
           /\ mem.generation = reported.generation => mem.state = reported.state

\* The conjunction that every step of lockd preserves: it adds to the two
\* durability properties how memory, artifact, queue and response are related.
LockdInv ==
    /\ TypeOK
    /\ ArtifactInv
    /\ WriteInv
    /\ QueueInv
    /\ AnswerInv
    /\ AckedDurable
    /\ ReportedIsDurable
=============================================================================
