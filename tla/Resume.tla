-------------------------------- MODULE Resume --------------------------------
(***************************************************************************)
(* Resume after suspend, and the restart requests a failed resume leads to *)
(* (run_resume_scenario and process_recovery_requests in                   *)
(* crates/sessiond/src/main.rs, WatchdogCommand::Restart in                *)
(* crates/watchdog/src/main.rs).                                           *)
(*                                                                         *)
(* The resume driver is a process of its own that walks through displayd,  *)
(* lockd, compd, lockd and compd again, one blocking call after the other. *)
(* Where a call fails it stops and may ask the watchdog to restart compd   *)
(* or lockd.  The watchdog leaves the request in an artifact, one per      *)
(* service; the supervising sessiond, a second process, finds it there,    *)
(* restarts the component that the profile binds to the service, records   *)
(* the result and removes the artifact.                                    *)
(***************************************************************************)
EXTENDS Naturals

CONSTANTS
    Profiles,        \* the profiles a session may be in
    Degraded,        \* those of them the supervisor may fall back to
    Nil,            \* no value
    MaxResumes,      \* resumes (model bound)
    MaxCrashes       \* crashes of driver and supervisor (model bound)

ASSUME ProfilesAssumption == Degraded \subseteq Profiles /\ Nil \notin Profiles
ASSUME ResumeBounds == MaxResumes \in Nat /\ MaxCrashes \in Nat

\* A recovery artifact, and what execute_recovery leads to for it.
Components == UNION {DOMAIN p.comps : p \in Profiles}
Requests == [id : Nat, by : Profiles \cup {Nil}]
Outcomes == [result : {"config-error", "policy-disabled", "no-executor", "succeeded", "failed"},
             component : Components \cup {Nil}]
Results == [outcome : Outcomes, covers : Nat]

ASSUME NilAssumption == Nil \notin Components \cup Requests \cup Results

VARIABLES
    \* the resume driver
    phase,       \* the call it makes next; Off or Done between resumes
    seen,        \* the active profile it has read, Nil if it could not
    final,       \* final_state
    steps,       \* the outcome of every step in the resume trace
    resumes,     \* the number of the resume
    \* the services it calls
    lock,        \* the lock state lockd holds
    lateLock,    \* a SetLockState the driver gave up on waits for lockd
    hints,       \* the resume hints compd has handled in this resume
    \* recovery
    active,      \* active-profile.json
    managed,     \* the profile the supervisor runs, Nil while it is down
    turn,        \* the service whose artifact the supervisor looks at
    at,          \* what it does next with it: Look, Execute, Record or Remove
    taken,       \* the request it has read and not removed yet
    result,      \* what execute_recovery has returned for it
    request,     \* the recovery artifact of each service
    execution,   \* the execution artifact of each service
    crashes

driverVars == <<phase, seen, final, steps, resumes>>
serviceVars == <<lock, lateLock, hints>>
superVars == <<managed, turn, at, taken, result>>
resumeVars == <<driverVars, serviceVars, active, superVars, request,
          execution, crashes>>

Services == {"compd", "lockd"}
LockdStates == {"Unlocked", "Locked", "BlankOnly"}
Steps == {"begin", "lock", "outputs", "prompt", "complete", "restart"}

\* What a call may end in: the answer asked for, another answer, none in time.
Answers == {"success", "failed", "unreachable"}

NoSteps == [s \in Steps |-> "absent"]

ResumeInit ==
    /\ phase = "Off"
    /\ seen = Nil
    /\ final = "normal"
    /\ steps = NoSteps
    /\ resumes = 0
    /\ lock \in LockdStates
    /\ lateLock = FALSE
    /\ hints = {}
    /\ active \in Profiles
    /\ managed = Nil
    /\ turn = "compd"
    /\ at = "Look"
    /\ taken = Nil
    /\ result = Nil
    /\ request = [s \in Services |-> Nil]
    /\ execution = [s \in Services |-> Nil]
    /\ crashes = 0

-----------------------------------------------------------------------------
(* Profiles.  comps: the role of each component; bound: the components that  *)
(* service_component_bindings names for a service; ownLockd: Wayland-native  *)
(* with lockd among the broker services; policy: the recovery execution      *)
(* policy of a service.                                                      *)

expected_component_role(s) == IF s = "compd" THEN "WindowManager" ELSE "LockScreen"

WindowManagers(p) == {c \in DOMAIN p.comps : p.comps[c] = "WindowManager"}

Resolution(res, c) == [result |-> res, component |-> c]

\* A binding that names exactly component c.
ResolveBound(p, s, c) ==
    Resolution(IF c \notin DOMAIN p.comps THEN "missing-target"
               ELSE IF p.comps[c] # expected_component_role(s) THEN "role-mismatch"
               ELSE "selected", c)

\* No binding: the only window manager stands in for compd.
ResolveLegacy(p) ==
    IF \E c \in DOMAIN p.comps : WindowManagers(p) = {c}
    THEN Resolution("selected", CHOOSE c \in WindowManagers(p) : TRUE)
    ELSE Resolution(IF WindowManagers(p) = {} THEN "missing" ELSE "collision", Nil)

\* resolve_service_component_binding
Resolve(p, s) ==
    IF p = Nil THEN Resolution("missing", Nil)
    ELSE IF \E c, d \in p.bound[s] : c # d THEN Resolution("collision", Nil)
    ELSE IF p.bound[s] # {} THEN ResolveBound(p, s, CHOOSE c \in p.bound[s] : TRUE)
    ELSE IF s = "compd" THEN ResolveLegacy(p)
    ELSE Resolution(IF p.ownLockd THEN "selected" ELSE "missing", Nil)

-----------------------------------------------------------------------------
(* The resume driver: run_resume_scenario *)

\* The next call, and none where the resume has already failed.
Proceed(to) == phase' = IF final' = "normal" THEN to ELSE "Restart"

\* The active profile is read, bindings are resolved.
BeginResume(p) ==
    /\ phase \in {"Off", "Done"}
    /\ resumes < MaxResumes
    /\ resumes' = resumes + 1
    /\ seen' = p
    /\ final' = IF Resolve(p, "lockd").result = "selected" THEN "normal" ELSE "blank-only"
    /\ steps' = NoSteps
    /\ hints' = {}
    /\ phase' = "Begin"
    /\ UNCHANGED <<lock, lateLock, active, superVars, request, execution, crashes>>

\* ResumeBegin to displayd: a failure means hold, whatever the binding was.
ResumeBegin(a) ==
    /\ phase = "Begin"
    /\ steps' = [steps EXCEPT !["begin"] = a]
    /\ final' = IF a = "success" THEN final ELSE "hold"
    /\ Proceed("Lock")
    /\ UNCHANGED <<seen, resumes, serviceVars, active, superVars, request,
                   execution, crashes>>

\* SetLockState(Locked) to lockd.  A request without an answer may still be
\* in lockd's queue.
SetLockState(a) ==
    /\ phase = "Lock"
    /\ steps' = [steps EXCEPT !["lock"] = a]
    /\ final' = IF a = "success" THEN final ELSE "blank-only"
    /\ Proceed("Outputs")
    /\ lock' = IF a = "success" THEN "Locked" ELSE lock
    /\ lateLock' \in IF a = "unreachable" THEN {lateLock, TRUE} ELSE {lateLock}
    /\ UNCHANGED <<seen, resumes, hints, active, superVars, request,
                   execution, crashes>>

\* compd handles the hint and its answer arrives, arrives late, or compd
\* never sees the hint.
Hint(h, a) ==
    \/ a # "failed" /\ hints' = hints \cup {h}
    \/ a # "success" /\ hints' = hints

\* ResumeHint(OutputsRecovered) to compd.
OutputsRecovered(a) ==
    /\ phase = "Outputs"
    /\ steps' = [steps EXCEPT !["outputs"] = a]
    /\ final' = IF a = "success" THEN final ELSE "restart-request"
    /\ Proceed("Prompt")
    /\ Hint("outputs", a)
    /\ UNCHANGED <<seen, resumes, lock, lateLock, active, superVars, request,
                   execution, crashes>>

\* Mutant: a prompt that was refused does not stop the resume.
MutAuthPrompt(a) ==
    /\ phase = "Prompt"
    /\ a = "success" => lock # "Unlocked"
    /\ steps' = [steps EXCEPT !["prompt"] = a]
    /\ final' = IF a = "unreachable" THEN "blank-only" ELSE final
    /\ Proceed("Complete")
    /\ UNCHANGED <<seen, resumes, serviceVars, active, superVars, request,
                   execution, crashes>>

\* AuthPrompt to lockd, which prompts over a locked or blank screen only.
AuthPrompt(a) ==
    /\ phase = "Prompt"
    /\ a = "success" => lock # "Unlocked"
    /\ steps' = [steps EXCEPT !["prompt"] = a]
    /\ final' = IF a = "success" THEN final ELSE "blank-only"
    /\ Proceed("Complete")
    /\ UNCHANGED <<seen, resumes, serviceVars, active, superVars, request,
                   execution, crashes>>

\* ResumeHint(Complete) to compd: the trace says success whatever the answer.
Complete(a) ==
    /\ phase = "Complete"
    /\ steps' = [steps EXCEPT !["complete"] = "success"]
    /\ phase' = "Restart"
    /\ Hint("complete", a)
    /\ UNCHANGED <<seen, final, resumes, lock, lateLock, active, superVars,
                   request, execution, crashes>>

\* The service whose restart the final state calls for.
Blamed ==
    IF final = "restart-request" THEN {"compd"}
    ELSE IF final = "blank-only" THEN {"lockd"} ELSE {}

\* is_compd_enabled and is_lockd_enabled
DriverEnabled(p, s) ==
    IF p = Nil \/ p.policy[s] = "absent" THEN s = "compd" ELSE p.policy[s] = "restart"

Execution(n, by, on, res, c) ==
    [id |-> n, by |-> by, on |-> on, result |-> res, component |-> c]

\* WatchdogCommand::Restart: the watchdog writes the artifact and answers; it
\* may write it and answer too late, reject the request or be down.
RequestRestart(s, a) ==
    /\ phase = "Restart"
    /\ s \in Blamed
    /\ DriverEnabled(seen, s)
    /\ Resolve(seen, s).result = "selected"
    /\ \/ a # "failed" /\ request' = [request EXCEPT ![s] = [id |-> resumes, by |-> seen]]
       \/ a # "success" /\ request' = request
    /\ steps' = [steps EXCEPT !["restart"] = a]
    /\ phase' = "Finish"
    /\ UNCHANGED <<seen, final, resumes, serviceVars, active, superVars,
                   execution, crashes>>

\* The policy forbids it, or there is no component to restart: that is
\* recorded where the policy allows restarts.
SkipRestart(s) ==
    /\ phase = "Restart"
    /\ s \in Blamed
    /\ ~(DriverEnabled(seen, s) /\ Resolve(seen, s).result = "selected")
    /\ execution' = IF DriverEnabled(seen, s)
                    THEN [execution EXCEPT ![s] =
                             Execution(resumes, seen, Nil, "config-error", Nil)]
                    ELSE execution
    /\ steps' = [steps EXCEPT !["restart"] = "skipped"]
    /\ phase' = "Finish"
    /\ UNCHANGED <<seen, final, resumes, serviceVars, active, superVars,
                   request, crashes>>

\* Resume trace and lock path artifact are written.
Finish ==
    /\ phase = "Finish" \/ (phase = "Restart" /\ Blamed = {})
    /\ phase' = "Done"
    /\ UNCHANGED <<seen, final, steps, resumes, serviceVars, active, superVars, request,
                   execution, crashes>>

\* The driver dies, or an artifact cannot be written.
DriverDies ==
    /\ phase \notin {"Off", "Done"}
    /\ crashes < MaxCrashes
    /\ crashes' = crashes + 1
    /\ phase' = "Off"
    /\ UNCHANGED <<seen, final, steps, resumes, serviceVars, active, superVars,
                   request, execution>>

\* lockd gets to a request whose sender has gone.
LateLock ==
    /\ lateLock
    /\ lateLock' = FALSE
    /\ lock' = "Locked"
    /\ UNCHANGED <<driverVars, hints, active, superVars, request, execution, crashes>>

\* lockd restarts and finds its artifact damaged; abandoned requests are gone.
LockdFailsClosed ==
    /\ lock' = "BlankOnly"
    /\ lateLock' = FALSE
    /\ UNCHANGED <<driverVars, hints, active, superVars, request, execution, crashes>>

-----------------------------------------------------------------------------
(* The supervisor: process_recovery_requests, once per turn of its loop *)

Other(s) == IF s = "compd" THEN "lockd" ELSE "compd"

StartSupervisor ==
    /\ managed = Nil
    /\ managed' = active
    /\ UNCHANGED <<driverVars, serviceVars, active, turn, at, taken, result,
                   request, execution, crashes>>

\* There is no artifact for this service, but there is one for the other.
Skip ==
    /\ managed # Nil
    /\ at = "Look"
    /\ request[turn] = Nil
    /\ request[Other(turn)] # Nil
    /\ turn' = Other(turn)
    /\ UNCHANGED <<driverVars, serviceVars, active, managed, at, taken, result,
                   request, execution, crashes>>

\* Mutant: the artifact is removed as soon as it has been read.
MutRead ==
    /\ managed # Nil
    /\ at = "Look"
    /\ request[turn] # Nil
    /\ taken' = request[turn]
    /\ at' = "Execute"
    /\ request' = [request EXCEPT ![turn] = Nil]
    /\ UNCHANGED <<driverVars, serviceVars, active, managed, turn, result,
                   execution, crashes>>

\* The artifact is read and is a request the supervisor knows.
Read ==
    /\ managed # Nil
    /\ at = "Look"
    /\ request[turn] # Nil
    /\ taken' = request[turn]
    /\ at' = "Execute"
    /\ UNCHANGED <<driverVars, serviceVars, active, managed, turn, result,
                   request, execution, crashes>>

ExecutorEnabled(p, s) ==
    IF p.policy[s] = "absent" THEN s = "compd" ELSE p.policy[s] = "restart"

\* Mutant: a binding to a component of another role is followed.
MutMisbound(p, s) == Resolve(p, s).result = "missing-target"

\* The binding names a component that is not there or has another role.
Misbound(p, s) == Resolve(p, s).result \in {"missing-target", "role-mismatch"}

\* execute_recovery: the outcome for service s under profile p, and the
\* component that is stopped and started again.
ExecuteRecovery(p, s, spawned) ==
    LET c == Resolve(p, s).component
        Outcome(res, comp) == [result |-> res, component |-> comp]
    IN  IF Resolve(p, s).result = "collision" THEN Outcome("config-error", Nil)
        ELSE IF ~ExecutorEnabled(p, s) THEN Outcome("policy-disabled", Nil)
        ELSE IF Misbound(p, s) THEN Outcome("config-error", Nil)
        ELSE IF c = Nil THEN Outcome("no-executor", Nil)
        ELSE Outcome(IF spawned THEN "succeeded" ELSE "failed", c)

\* The component is stopped and started; covers: the newest request that had
\* been accepted by then.
Execute(spawned) ==
    /\ at = "Execute"
    /\ result' = [outcome |-> ExecuteRecovery(managed, turn, spawned),
                  covers |-> IF request[turn] = Nil THEN taken.id ELSE request[turn].id]
    /\ at' = "Record"
    /\ UNCHANGED <<driverVars, serviceVars, active, managed, turn, taken,
                   request, execution, crashes>>

\* The execution artifact is written.
Record ==
    /\ at = "Record"
    /\ execution' = [execution EXCEPT ![turn] =
                        Execution(result.covers, taken.by, managed, result.outcome.result,
                                  result.outcome.component)]
    /\ at' = "Remove"
    /\ UNCHANGED <<driverVars, serviceVars, active, managed, turn, taken, result,
                   request, crashes>>

\* The recovery artifact is removed, whatever is in it by now.
Remove ==
    /\ at = "Remove"
    /\ request' = [request EXCEPT ![turn] = Nil]
    /\ taken' = Nil
    /\ result' = Nil
    /\ at' = "Look"
    /\ turn' = Other(turn)
    /\ UNCHANGED <<driverVars, serviceVars, active, managed, execution, crashes>>

\* The supervisor dies, or one of its steps returns an error.
SupervisorDies ==
    /\ managed # Nil
    /\ crashes < MaxCrashes
    /\ crashes' = crashes + 1
    /\ managed' = Nil
    /\ turn' = "compd"
    /\ at' = "Look"
    /\ taken' = Nil
    /\ result' = Nil
    /\ UNCHANGED <<driverVars, serviceVars, active, request, execution>>

\* The supervisor falls back to the degraded profile (see LaunchStream).
FallBack(p) ==
    /\ managed \notin Degraded \cup {Nil}
    /\ at = "Look"
    /\ managed' = p
    /\ active' = p
    /\ UNCHANGED <<driverVars, serviceVars, turn, at, taken, result, request,
                   execution, crashes>>

-----------------------------------------------------------------------------

Call(a) ==
    \/ ResumeBegin(a) \/ SetLockState(a) \/ OutputsRecovered(a) \/ AuthPrompt(a)
    \/ Complete(a)

Drive ==
    \/ \E a \in Answers : Call(a)
    \/ \E s \in Services : SkipRestart(s) \/ \E a \in Answers : RequestRestart(s, a)
    \/ Finish

Supervise ==
    \/ StartSupervisor \/ Skip \/ Read
    \/ \E spawned \in BOOLEAN : Execute(spawned)
    \/ Record \/ Remove

ResumeNext ==
    \/ \E p \in {active, Nil} : BeginResume(p)
    \/ Drive
    \/ Supervise
    \/ LateLock \/ LockdFailsClosed
    \/ \E p \in Degraded : FallBack(p)
    \/ DriverDies \/ SupervisorDies

\* Every call of the driver has a timeout, the supervisor polls in a loop and
\* is started again by the service manager.
ResumeSpec == ResumeInit /\ [][ResumeNext]_resumeVars /\ WF_resumeVars(Drive) /\ WF_resumeVars(Supervise)

-----------------------------------------------------------------------------
(* Properties *)

\* Every variable has its type, and a supervisor that is down has nothing in
\* its hands.
ResumeTypeOK ==
    /\ phase \in {"Off", "Begin", "Lock", "Outputs", "Prompt", "Complete", "Restart",
                  "Finish", "Done"}
    /\ seen \in Profiles \cup {Nil}
    /\ final \in {"normal", "hold", "restart-request", "blank-only"}
    /\ steps \in [Steps -> Answers \cup {"absent", "skipped"}]
    /\ resumes \in 0..MaxResumes
    /\ lock \in LockdStates
    /\ lateLock \in BOOLEAN
    /\ hints \subseteq {"outputs", "complete"}
    /\ active \in Profiles
    /\ managed \in Profiles \cup {Nil}
    /\ turn \in Services
    /\ at \in {"Look", "Execute", "Record", "Remove"}
    /\ managed = Nil => at = "Look"
    /\ taken # Nil <=> at # "Look"
    /\ result # Nil <=> at \in {"Record", "Remove"}
    /\ crashes \in 0..MaxCrashes

\* compd never hears that the resume is complete, and a resume never ends
\* normal, on a session that is not locked or without an accepted prompt,
\* whatever else became of the calls (the final_state checks between the steps
\* of run_resume_scenario).
CompletesLocked ==
    "complete" \in hints \/ (phase = "Done" /\ final = "normal") =>
        /\ lock # "Unlocked"
        /\ steps["prompt"] = "success"
        /\ "outputs" \in hints

\* A restart requested for a service only ever stops a component whose role
\* is the one that serves it, under every profile a user can write
\* (resolve_service_component_binding, execute_recovery).
RestartsOwnRole ==
    \A s \in Services : execution[s] # Nil /\ execution[s].component # Nil =>
        execution[s].on.comps[execution[s].component] = expected_component_role(s)

\* Driver and supervisor judge policy and binding alike: a request the driver
\* found worth making is not refused by a supervisor that runs the profile the
\* driver has read; only a lockd that no component provides has no executor
\* (the gates of run_resume_scenario against those of execute_recovery).
GateAgrees ==
    \A s \in Services :
        /\ execution[s] # Nil
        /\ execution[s].on # Nil
        /\ execution[s].by = execution[s].on
        =>
        \/ execution[s].result \in {"succeeded", "failed"}
        \/ s = "lockd" /\ execution[s].by.ownLockd /\ execution[s].result = "no-executor"

\* Whatever the driver asks for and whichever profile the supervisor has fallen back
\* to since, what is executed is what was asked for, with what is in the hands of
\* the supervisor at each of its steps (process_recovery_requests).
RecoveryAgrees == ResumeTypeOK /\ RestartsOwnRole /\ GateAgrees

\* The supervisor has restarted service s after request n was accepted, or has
\* recorded why it cannot.
Executed(s, n) ==
    execution[s] # Nil /\ execution[s].on # Nil /\ execution[s].id >= n

\* The supervisor is at work on a request for s.
AtWork(s) == turn = s /\ at # "Look"

\* The supervisor finds the artifact of an accepted request and executes it, also
\* when it dies in between (process_recovery_requests removes the artifact last).
\* Only a request that arrives while another one is executed may be lost: it
\* replaces the artifact that is about to be removed.
AcceptedIsExecuted ==
    \A s \in Services, n \in 1..MaxResumes :
        (request[s] # Nil /\ request[s].id = n /\ ~AtWork(s)) ~> Executed(s, n)
=============================================================================
