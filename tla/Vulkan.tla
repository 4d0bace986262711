------------------------------- MODULE Vulkan -------------------------------
(***************************************************************************)
(* The compute backend of vulkan-backend: batches handed to the GPU, the   *)
(* fences that tell when they are over, the tasks that wait for them, and  *)
(* the memory that may be given back only when the GPU has let go of it.   *)
(*                                                                         *)
(* `backend` is the VulkanBackendInner behind the mutex; an action is one  *)
(* critical section.  wait_for_completion takes the lock twice for every   *)
(* answer (Poll, then Finish), and anything may happen in between.  `gpu`  *)
(* and `lost` are the device; `secrets` are the payloads in its memory     *)
(* that are to be cleared before the memory is given back.                 *)
(***************************************************************************)
EXTENDS Integers, Sequences, SequencesExt, FiniteSetsExt, Functions

CONSTANTS
    None,
    Callers,            \* the tasks that use the backend
    Batches,            \* what they submit, payloads counted in words
    MaxId,              \* u64::MAX of next_submission_id
    MaxGeneration,      \* u64::MAX of submission_generation
    MaxPayload,         \* MAX_GPU_PAYLOAD_BYTES and MAX_SURFACE_WORDS
    MinPacketBatch,     \* packet_preclassification_min_batch_bytes
    MaxPending,         \* MAX_PENDING_GPU_SUBMISSIONS
    MaxTerminal,        \* MAX_TERMINAL_RESULTS
    MaxAllocation       \* MAX_TOTAL_GPU_ALLOCATION_BYTES

ASSUME VulkanAssumption ==
    /\ {MaxId, MaxGeneration, MaxPayload, MaxPending, MaxTerminal} \subseteq Nat \ {0}
    /\ MaxAllocation \in Nat /\ MinPacketBatch \in Nat
    /\ \A batch \in Batches : /\ batch.payload \in Nat
                              /\ {batch.allows_gpu, batch.zeroize} \subseteq BOOLEAN
    /\ None \notin (1 .. MaxGeneration) \X (1 .. MaxId)
    /\ None \notin {"Vulkan", "Timeout", "DriverUnavailable", "SubmissionRejected"}

VARIABLES backend, gpu, lost, pc, handle, answer

device == <<gpu, lost>>
tasks == <<pc, handle, answer>>
vars == <<backend, device, tasks>>

Keys == (1 .. MaxGeneration) \X (1 .. MaxId)

Stored == [size : Nat, due : BOOLEAN, completed : BOOLEAN, zeroize : BOOLEAN]
Quarantined == [size : Nat, zeroize : BOOLEAN]     \* nobody waits for these
Kept(s) == [size |-> s.size, zeroize |-> s.zeroize]

Held(b) == DOMAIN b.submissions \cup DOMAIN b.quarantined
Record(b, k) == IF k \in DOMAIN b.submissions THEN b.submissions[k] ELSE b.quarantined[k]

Init ==
    /\ backend \in [enabled : BOOLEAN, state : {"Uninitialized"}, device : {FALSE},
                    next : {1}, generation : {1}, exhausted : {FALSE},
                    submissions : {<<>>}, quarantined : {<<>>},
                    results : {<<>>}, order : {<<>>},
                    bytes : {0}, secrets : {{}}]
    /\ gpu = [k \in Keys |-> "none"] /\ lost = FALSE
    /\ pc = [c \in Callers |-> "idle"]
    /\ handle = [c \in Callers |-> None]
    /\ answer = [c \in Callers |-> None]

-----------------------------------------------------------------------------
(* What the driver answers in one critical section.  Once the device is     *)
(* lost any fence may report it; mapping memory to clear it may fail.       *)

FenceStatus(k) ==
    {IF gpu[k] = "done" THEN "signaled" ELSE "unsignaled"} \cup (IF lost THEN {"error"} ELSE {})

Observations ==
    {seen \in [Held(backend) -> {"signaled", "unsignaled", "error"}] :
        \A k \in Held(backend) : seen[k] \in FenceStatus(k)}
Unmappable == SUBSET {k \in Held(backend) : Record(backend, k).zeroize}

-----------------------------------------------------------------------------
(* The helpers that run under the lock.                                     *)

SaturatingSub(a, d) == IF a < d THEN 0 ELSE a - d
Without(f, K) == Restrict(f, DOMAIN f \ K)
With(f, k, v) == [x \in DOMAIN f \cup {k} |-> IF x = k THEN v ELSE f[x]]

mark_faulted(b) == [b EXCEPT !.state = "Faulted"]

SizeOf(f, K) == MapThenSumSet(LAMBDA k : f[k].size, K)

(* Memory of which the caller asked it is cleared first, and kept when that *)
(* fails; everything else is destroyed unconditionally.                     *)
release_gpu_submission(b, k, s, unmapped) ==
    IF s.zeroize /\ k \in unmapped
    THEN mark_faulted([b EXCEPT !.quarantined = With(@, k, Kept(s))])
    ELSE [b EXCEPT !.bytes = SaturatingSub(@, s.size), !.secrets = @ \ {k}]

reap_quarantined(b, seen, unmapped) ==
    LET over == {k \in DOMAIN b.quarantined : seen[k] = "signaled"}
        kept == {k \in over : b.quarantined[k].zeroize /\ k \in unmapped}
        error == \E k \in DOMAIN b.quarantined : seen[k] = "error"
    IN  IF ~b.device THEN b
        ELSE [b EXCEPT !.state = IF error \/ kept # {} THEN "Faulted" ELSE @,
                       !.quarantined = Without(@, over \ kept),
                       !.bytes = SaturatingSub(@, SizeOf(b.quarantined, over \ kept)),
                       !.secrets = @ \ (over \ kept)]

insert_terminal_result(b, k, reason) ==
    LET full == k \notin DOMAIN b.results /\ Len(b.order) >= MaxTerminal
        evicted == IF full THEN {Head(b.order)} ELSE {}
        rest == IF full THEN Tail(b.order) ELSE b.order
    IN  [b EXCEPT !.results = With(Without(@, evicted), k, reason),
                  !.order = IF k \in DOMAIN b.results THEN @ ELSE Append(rest, k)]

\* The order names a key once, so that retain drops one entry.
take_terminal_result(b, k) ==
    [b EXCEPT !.results = Without(@, {k}), !.order = RemoveFirst(@, k)]

(* The submission is no longer waited for, but the GPU may still run it.    *)
terminalize_submission(b, k, reason) ==
    insert_terminal_result([b EXCEPT !.submissions = Without(@, {k}),
                                     !.quarantined = With(@, k, Kept(b.submissions[k]))],
                           k, reason)

MutFresh(b) == IF Keys \subseteq Held(b) THEN <<b.generation, b.next>>
               ELSE CHOOSE k \in Keys : k \notin Held(b)

Fresh(b) == <<b.generation, b.next>>

allocate_handle(b) ==
    IF b.exhausted THEN b
    ELSE IF b.next < MaxId THEN [b EXCEPT !.next = @ + 1]
    ELSE IF b.generation < MaxGeneration
         THEN [b EXCEPT !.next = 1, !.generation = @ + 1]
         ELSE [b EXCEPT !.exhausted = TRUE]

active_gpu_resource_count(b) ==
    Cardinality(DOMAIN b.submissions) + Cardinality(DOMAIN b.quarantined)

(* admission_fallback_reason finds nothing against the GPU.  The reason it   *)
(* gives otherwise reaches a log line only.                                  *)
Admitted(b, batch) ==
    /\ batch.payload \in 1 .. MaxPayload
    /\ batch.words = batch.payload
    /\ batch.packet => batch.payload >= MinPacketBatch
    /\ batch.allows_gpu
    /\ b.state = "Ready" /\ b.device
    /\ active_gpu_resource_count(b) < MaxPending

-----------------------------------------------------------------------------
(* The backend's life.                                                       *)

Alive == backend.state # "Dropped"

(* Any step may fail, from the loader to the command pool: the guard then    *)
(* destroys what was made, and the backend is faulted for good.              *)
commit(b) == [b EXCEPT !.state = "Ready", !.device = TRUE]

try_init == backend' = commit(backend) \/ backend' = mark_faulted(backend)

initialize ==
    /\ backend.state = "Uninitialized"
    /\ \/ backend.enabled /\ try_init
       \/ ~backend.enabled /\ backend' = [backend EXCEPT !.state = "Disabled"]
    /\ UNCHANGED <<device, tasks>>

(* Reading the counters reaps the quarantine too.                            *)
metrics ==
    /\ Alive
    /\ \E seen \in Observations, unmapped \in Unmappable :
         backend' = reap_quarantined(backend, seen, unmapped)
    /\ UNCHANGED <<device, tasks>>

(* The backend is dropped by its owner when no task uses it any more: the    *)
(* device is waited for, then everything is destroyed, cleared or not.       *)
Drop ==
    /\ Alive /\ \A c \in Callers : pc[c] = "idle"
    /\ backend.device => lost \/ \A k \in Keys : gpu[k] # "running"
    /\ backend' = [backend EXCEPT !.state = "Dropped", !.submissions = <<>>,
                                  !.quarantined = <<>>, !.results = <<>>, !.order = <<>>]
    /\ UNCHANGED <<device, tasks>>

-----------------------------------------------------------------------------
(* submit_batch.                                                             *)

Waits(c, k) == /\ handle' = [handle EXCEPT ![c] = k]
               /\ pc' = [pc EXCEPT ![c] = "waiting"]
               /\ answer' = [answer EXCEPT ![c] = None]

(* A handle of the CPU path is answered without the lock, and forgotten.     *)
Falls(c) == /\ handle' = [handle EXCEPT ![c] = None]
            /\ answer' = [answer EXCEPT ![c] = None]
            /\ UNCHANGED pc

into_stored(batch) == [size |-> batch.payload, due |-> FALSE, completed |-> FALSE,
                       zeroize |-> batch.zeroize]

(* The guard of a submission that failed destroys what was made for it.      *)
PendingDropped(b) == backend' = b /\ UNCHANGED device

(* try_submit up to queue_submit: the budget, then any driver call may fail. *)
try_submit(c, b, k, batch) ==
    \/ PendingDropped(b) /\ Falls(c)
    \/ /\ b.bytes + batch.payload =< MaxAllocation
       /\ backend' = mark_faulted(b) /\ lost' = TRUE /\ UNCHANGED gpu
       /\ Falls(c)
    \/ /\ b.bytes + batch.payload =< MaxAllocation
       /\ backend' = [b EXCEPT
             !.submissions = With(@, k, into_stored(batch)),
             !.bytes = @ + batch.payload,
             !.secrets = IF batch.zeroize THEN @ \cup {k} ELSE @]
       /\ gpu' = [gpu EXCEPT ![k] = "running"] /\ UNCHANGED lost
       /\ Waits(c, k)

submit_batch(c, batch) ==
    /\ Alive /\ pc[c] = "idle"
    /\ \E seen \in Observations, unmapped \in Unmappable :
         LET b == reap_quarantined(backend, seen, unmapped)
         IN  IF Admitted(b, batch) /\ ~b.exhausted
             THEN try_submit(c, allocate_handle(b), Fresh(b), batch)
             ELSE backend' = allocate_handle(b) /\ Falls(c) /\ UNCHANGED device

-----------------------------------------------------------------------------
(* The tasks: wait_for_completion polls, sleeps while the batch is pending,  *)
(* and takes the lock again for the answer.  A handle may be copied and      *)
(* waited for twice; a task may give its batch up while it sleeps.           *)

Share(c, d) ==
    /\ Alive /\ handle[c] # None /\ pc[d] = "idle"
    /\ Waits(d, handle[c])
    /\ UNCHANGED <<backend, device>>

Answer(c, result) == /\ answer' = [answer EXCEPT ![c] = result]
                     /\ pc' = [pc EXCEPT ![c] = "idle"]
                     /\ UNCHANGED handle

MutPoll(b, k, status) ==
    IF k \in DOMAIN b.results \/ k \notin DOMAIN b.submissions THEN <<b, "terminal">>
    ELSE IF b.submissions[k].completed THEN <<b, "completed">>
    ELSE IF status = "error"
         THEN <<mark_faulted(terminalize_submission(b, k, "DriverUnavailable")), "terminal">>
    ELSE IF status = "signaled"
         THEN <<[b EXCEPT !.submissions[k].completed = TRUE], "completed">>
    ELSE <<b, "waiting">>

(* The state poll_completion leaves and the status it returns.               *)
poll_completion(b, k, status) ==
    LET Gone(reason) == mark_faulted(terminalize_submission(b, k, reason))
    IN  IF k \in DOMAIN b.results \/ k \notin DOMAIN b.submissions THEN <<b, "terminal">>
        ELSE IF b.submissions[k].completed THEN <<b, "completed">>
        ELSE IF status = "error" THEN <<Gone("DriverUnavailable"), "terminal">>
        ELSE IF status = "signaled"
             THEN <<[b EXCEPT !.submissions[k].completed = TRUE], "completed">>
        ELSE IF b.submissions[k].due THEN <<Gone("Timeout"), "terminal">>
        ELSE <<b, "waiting">>

Poll(c) ==
    /\ pc[c] = "waiting"
    /\ \E seen \in Observations, unmapped \in Unmappable :
         LET k == handle[c]
             b == reap_quarantined(backend, seen, unmapped)
             polled == poll_completion(b, k, IF k \in Held(backend) THEN seen[k] ELSE "error")
         IN  /\ backend' = polled[1]
             /\ pc' = [pc EXCEPT ![c] = polled[2]]
    /\ UNCHANGED <<device, handle, answer>>

(* The second critical section: a terminal record is the answer, else the    *)
(* submission if it is still there, which another task may have taken.       *)
Recorded(c) ==
    /\ handle[c] \in DOMAIN backend.results
    /\ backend' = take_terminal_result(backend, handle[c])
    /\ Answer(c, backend.results[handle[c]])

MutMissed(c) ==
    /\ handle[c] \notin DOMAIN backend.results
    /\ pc[c] = "terminal" \/ handle[c] \notin DOMAIN backend.submissions
    /\ Answer(c, IF pc[c] = "completed" THEN "Vulkan" ELSE "SubmissionRejected")
    /\ UNCHANGED backend

Missed(c) ==
    /\ handle[c] \notin DOMAIN backend.results
    /\ pc[c] = "terminal" \/ handle[c] \notin DOMAIN backend.submissions
    /\ Answer(c, "SubmissionRejected")
    /\ UNCHANGED backend

Completed(c) ==
    /\ handle[c] \in DOMAIN backend.submissions \ DOMAIN backend.results
    /\ pc[c] = "completed"
    /\ \E unmapped \in Unmappable :
         backend' = release_gpu_submission(
                       [backend EXCEPT !.submissions = Without(@, {handle[c]})],
                       handle[c], backend.submissions[handle[c]], unmapped)
    /\ Answer(c, "Vulkan")

Finish(c) ==
    /\ pc[c] \in {"completed", "terminal"}
    /\ Recorded(c) \/ Missed(c) \/ Completed(c)
    /\ UNCHANGED device

MutRetire(c) ==
    /\ pc[c] = "waiting"
    /\ \E unmapped \in Unmappable :
         LET k == handle[c]
             removed == [backend EXCEPT !.submissions = Without(@, {k})]
         IN  backend' = IF k \notin DOMAIN backend.submissions THEN backend
                        ELSE release_gpu_submission(removed, k, backend.submissions[k], unmapped)
    /\ pc' = [pc EXCEPT ![c] = "idle"]
    /\ UNCHANGED <<device, handle, answer>>

(* A fence that has not been seen signaled keeps its memory in quarantine.   *)
retire_submission(c) ==
    /\ pc[c] = "waiting"
    /\ \E seen \in Observations, unmapped \in Unmappable :
         LET k == handle[c]
             b == reap_quarantined(backend, seen, unmapped)
             s == b.submissions[k]
             removed == [b EXCEPT !.submissions = Without(@, {k})]
             kept == [removed EXCEPT !.quarantined = With(@, k, Kept(s))]
         IN  backend' = take_terminal_result(
               IF k \notin DOMAIN b.submissions THEN b
               ELSE IF seen[k] = "signaled" THEN release_gpu_submission(removed, k, s, unmapped)
               ELSE IF seen[k] = "error" THEN mark_faulted(kept) ELSE kept, k)
    /\ pc' = [pc EXCEPT ![c] = "idle"]
    /\ UNCHANGED <<device, handle, answer>>

-----------------------------------------------------------------------------
(* The device and the clock.                                                 *)

Signal(k) == /\ gpu[k] = "running" /\ ~lost
             /\ gpu' = [gpu EXCEPT ![k] = "done"]
             /\ UNCHANGED <<backend, lost, tasks>>

Lose == /\ Held(backend) # {} /\ ~lost /\ lost' = TRUE
        /\ UNCHANGED <<backend, gpu, tasks>>

Expire(k) == /\ k \in DOMAIN backend.submissions
             /\ ~backend.submissions[k].due /\ ~backend.submissions[k].completed
             /\ backend' = [backend EXCEPT !.submissions[k].due = TRUE]
             /\ UNCHANGED <<device, tasks>>

Next ==
    \/ initialize \/ metrics \/ Drop \/ Lose
    \/ \E c \in Callers : \/ \E batch \in Batches : submit_batch(c, batch)
                          \/ \E d \in Callers \ {c} : Share(c, d)
                          \/ Poll(c) \/ Finish(c) \/ retire_submission(c)
    \/ \E k \in Keys : Signal(k) \/ Expire(k)

Spec == Init /\ [][Next]_vars

(* The executor resumes a sleeping task and time passes; neither the driver  *)
(* nor the GPU is assumed to make progress.                                  *)
Fairness ==
    /\ \A c \in Callers : WF_vars(Poll(c) \/ Finish(c))
    /\ WF_vars(\E k \in Keys : Expire(k))

FairSpec == Spec /\ Fairness

-----------------------------------------------------------------------------
(* Properties.                                                               *)

(* The backend's tables hold submissions under keys that were handed out,    *)
(* the device and the tasks are in states of theirs.                         *)
TypeOK ==
    /\ backend.state \in {"Uninitialized", "Ready", "Disabled", "Faulted", "Dropped"}
    /\ {backend.enabled, backend.device, backend.exhausted, lost} \subseteq BOOLEAN
    /\ backend.next \in 1 .. MaxId /\ backend.generation \in 1 .. MaxGeneration
    /\ {DOMAIN backend.submissions, DOMAIN backend.quarantined, DOMAIN backend.results,
        backend.secrets} \subseteq SUBSET Keys
    /\ Range(backend.submissions) \subseteq Stored
    /\ Range(backend.quarantined) \subseteq Quarantined
    /\ backend.bytes \in Nat
    /\ gpu \in [Keys -> {"none", "running", "done"}]
    /\ pc \in [Callers -> {"idle", "waiting", "completed", "terminal"}]
    /\ handle \in [Callers -> Keys \cup {None}]
    /\ answer \in [Callers -> {None, "Vulkan", "Timeout", "DriverUnavailable",
                              "SubmissionRejected"}]

(* Whatever the GPU still runs keeps its buffers: no path (an answer, a      *)
(* timeout, retire_submission, a reaped quarantine, the drop) frees memory   *)
(* that a working device may still write to.                                 *)
RunningIsHeld == ~lost => {k \in Keys : gpu[k] = "running"} \subseteq Held(backend)

(* The admission limits hold at every moment: the bytes accounted for are    *)
(* exactly those of the submissions that are pending or in quarantine, and   *)
(* both together stay within the budget and the number of submissions.       *)
BudgetIsExact ==
    Alive =>
      /\ DOMAIN backend.submissions \cap DOMAIN backend.quarantined = {}
      /\ backend.bytes = SizeOf([k \in Held(backend) |-> Record(backend, k)], Held(backend))
      /\ backend.bytes =< MaxAllocation
      /\ Cardinality(Held(backend)) =< MaxPending

(* Of all the tasks that wait for one batch at most one is told that the GPU *)
(* did the work, and then none is told that it timed out or failed: the poll *)
(* and the answer are separate critical sections.                            *)
OneVerdict ==
    \A c, d \in Callers :
        c # d /\ handle[c] = handle[d] /\ handle[c] # None /\ answer[c] = "Vulkan"
        => answer[d] \in {None, "SubmissionRejected"}

(* The history of terminal results is bounded and its eviction order names   *)
(* every record once.                                                        *)
HistoryIsOrdered ==
    /\ ToSet(backend.order) = DOMAIN backend.results
    /\ IsInjective(backend.order)
    /\ Len(backend.order) =< MaxTerminal

(* A payload that is to be cleared stays in held memory until it has been:   *)
(* a failed mapping keeps the submission in quarantine.                      *)
SecretsAreHeld == Alive => backend.secrets \subseteq Held(backend)

(* A new submission gets a key that no submission had before, also when the  *)
(* counters wrap, so no old handle can poll, take or retire it.              *)
KeysAreNew ==
    [][\A k \in DOMAIN backend'.submissions \ DOMAIN backend.submissions :
          /\ gpu[k] = "none" /\ k \notin DOMAIN backend.quarantined \cup DOMAIN backend.results
          /\ \A c \in Callers : handle[c] # k]_vars

(* Every wait ends, whatever the GPU does: the deadline answers for it.      *)
WaitEnds == \A c \in Callers : pc[c] = "waiting" ~> pc[c] = "idle"

(* What the backend's tables say of GPU memory while tasks poll, cancel,     *)
(* take and shut down between each other's critical sections: nothing the    *)
(* GPU works on is freed, the budget counts exactly what is held, a payload  *)
(* to be cleared is held until it is, and the result history is in order.    *)
MemoryIsHeld ==
    TypeOK /\ RunningIsHeld /\ BudgetIsExact /\ SecretsAreHeld /\ HistoryIsOrdered
=============================================================================
