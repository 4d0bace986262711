------------------------------ MODULE Topology ------------------------------
(***************************************************************************)
(* Output topology: how a change of the outputs of displayd gets to the    *)
(* Wayland clients of waylandd (crates/displayd/src/main.rs and            *)
(* crates/waylandd/src/main.rs).                                           *)
(*                                                                         *)
(* displayd stamps its outputs with an epoch and a sequence number and     *)
(* sends its subscribers one delta per change.  In waylandd a reader       *)
(* thread moves deltas into a bounded queue, a supervisor thread keeps the *)
(* registry of outputs, asks for a snapshot whenever a delta does not fit  *)
(* and sends commands to one bounded queue per client, and each client's   *)
(* thread turns commands into wl_output globals.                           *)
(***************************************************************************)
EXTENDS Naturals, SequencesExt

CONSTANTS
    Outputs, Modes, Clients, None,
    Start,        \* the outputs of a displayd that has just started
    Slots,        \* TOPOLOGY_QUEUE_CAPACITY + 1
    BufferLimit,  \* TOPOLOGY_DELTA_BUFFER_LIMIT
    SubDepth,     \* TOPOLOGY_SUBSCRIBER_QUEUE_DEPTH
    MaxSubs,      \* MAX_TOPOLOGY_SUBSCRIBERS
    ClientSlots,  \* capacity of a client's command queue
    MaxChanges,   \* bound: changes of outputs and restarts of displayd
    MaxFaults     \* bound: failed queries and reconnects

ASSUME TopologyAssumption ==
    /\ \E S \in SUBSET Outputs : Start \in [S -> Modes]
    /\ IsFiniteSet(Outputs)
    /\ {Slots, BufferLimit, SubDepth, MaxSubs, ClientSlots} \subseteq Nat \ {0}
    /\ {MaxChanges, MaxFaults} \subseteq Nat

VARIABLES
    disp,      \* displayd: display_epoch, TOPOLOGY_SEQUENCE and enabled outputs
    conn,      \* the subscription of waylandd: is it listed in displayd, unread deltas
    dead,      \* listed subscribers whose peer is gone
    reader,    \* the thread of start_topology_subscription
    queue,     \* TopologyInput
    sup,       \* the supervisor: state, buffered_deltas
    fetches,   \* threads of trigger_resync: [at |-> asked with, res, stale]
    reg,       \* TOPOLOGY_REGISTRY: epoch, sequence and projection
    cl,        \* one thread per client
    changes, faults,
    log        \* history: the outputs of displayd at every stamp

dispVars == <<disp, conn, dead>>
vars == <<dispVars, reader, queue, sup, fetches, reg, cl, changes, faults, log>>

Empty == [o \in {} |-> None]
Without(f, o) == [x \in DOMAIN f \ {o} |-> f[x]]
With(f, o, v) == [x \in DOMAIN f \cup {o} |-> IF x = o THEN v ELSE f[x]]

Displace == changes < MaxChanges /\ changes' = changes + 1
Fault == faults < MaxFaults /\ faults' = faults + 1

\* An entry made from a delta has the generation of the backend, one made from a
\* snapshot the generation displayd uses: the two differ for the same output.
Entry(m, effective) == [mode |-> m, eff |-> effective]
Stamp(d) == <<d.epoch, d.seq>>
Snapshot(d) == [o \in DOMAIN d.outs |-> Entry(d.outs[o], TRUE)]
SnapshotInput(d) == [kind |-> "snapshot", at |-> Stamp(d), outs |-> Snapshot(d)]
ModesOf(proj) == [o \in DOMAIN proj |-> proj[o].mode]

-----------------------------------------------------------------------------
(* displayd *)

\* publish_topology_delta: a subscriber whose queue is full is taken off the list,
\* and the thread of one whose peer is gone fails to send and leaves it.
Publish(kind, o, m) ==
    LET d == [at |-> Stamp(disp'), kind |-> kind, out |-> o, mode |-> m]
    IN  /\ conn' = IF ~conn.open THEN conn
                   ELSE IF Len(conn.q) < SubDepth THEN [conn EXCEPT !.q = Append(@, d)]
                   ELSE [conn EXCEPT !.open = FALSE]
        /\ dead' = 0
        /\ log' = With(log, d.at, disp'.outs)

\* apply_backend_output_events: a change of the outputs and its delta.
Change(kind, o, m) ==
    /\ Displace
    /\ kind = "add" => o \notin DOMAIN disp.outs
    /\ kind \in {"reconfigure", "remove"} => o \in DOMAIN disp.outs
    /\ kind = "reconfigure" => m # disp.outs[o]
    /\ disp' = [disp EXCEPT !.seq = @ + 1,
                            !.outs = CASE kind = "reset" -> Empty
                                       [] kind = "remove" -> Without(@, o)
                                       [] OTHER -> With(@, o, m)]
    /\ Publish(kind, o, m)
    /\ UNCHANGED <<reader, queue, sup, fetches, reg, cl, faults>>

\* displayd is started again: a later epoch (the clock), sequence 0, no subscriber.
Restart ==
    /\ Displace
    /\ disp' = [epoch |-> disp.epoch + 1, seq |-> 0, outs |-> Start]
    /\ conn' = [conn EXCEPT !.open = FALSE]
    /\ dead' = 0
    /\ log' = With(log, Stamp(disp'), Start)
    /\ UNCHANGED <<reader, queue, sup, fetches, reg, cl, faults>>

Listed == dead + (IF conn.open THEN 1 ELSE 0)

-----------------------------------------------------------------------------
(* The reader thread *)

TrySend(input) == IF Len(queue) < Slots THEN Append(queue, input) ELSE queue
HasRoom == Len(queue) < Slots

ReadDelta ==
    /\ reader = "reading" /\ conn.q # <<>>
    /\ conn' = [conn EXCEPT !.q = Tail(@)]
    /\ IF HasRoom
       THEN queue' = TrySend([kind |-> "event", delta |-> Head(conn.q)]) /\ UNCHANGED reader
       ELSE reader' = "overflow" /\ UNCHANGED queue
    /\ UNCHANGED <<disp, dead, sup, fetches, reg, cl, changes, faults, log>>

\* The connection is dropped with the thread.
Drop == dead' = IF conn.open THEN dead + 1 ELSE dead

\* The overflow marker, if there is room for it by now; then the thread ends.
MarkOverflow ==
    /\ reader = "overflow" /\ reader' = "ended"
    /\ queue' = TrySend([kind |-> "overflow"])
    /\ Drop /\ conn' = [open |-> FALSE, q |-> <<>>]
    /\ UNCHANGED <<disp, sup, fetches, reg, cl, changes, faults, log>>

\* read_ipc_envelope fails: end of file, or nothing to read for five seconds.
ReadFails ==
    /\ reader = "reading" /\ conn.q = <<>>
    /\ queue' = TrySend([kind |-> "lost"])
    /\ reader' = "lost"
    /\ UNCHANGED <<dispVars, sup, fetches, reg, cl, changes, faults, log>>

\* Mutant: the snapshot of the new subscription is not passed on.
MutReconnect ==
    /\ reader = "lost" /\ Listed < MaxSubs
    /\ Drop
    /\ conn' = [open |-> TRUE, q |-> <<>>]
    /\ reader' = "reading"
    /\ UNCHANGED <<disp, queue, sup, fetches, reg, cl, changes, faults, log>>

\* reconnect_topology_subscription: the old connection is dropped only now.
Reconnect ==
    /\ reader = "lost" /\ Listed < MaxSubs
    /\ Drop
    /\ queue' = TrySend(SnapshotInput(disp))
    /\ conn' = [open |-> HasRoom, q |-> <<>>]
    /\ reader' = IF HasRoom THEN "reading" ELSE "ended"
    /\ UNCHANGED <<disp, sup, fetches, reg, cl, changes, faults, log>>

\* It fails: back to reading from the old connection.
ReconnectFails ==
    /\ reader = "lost"
    /\ IF Listed >= MaxSubs THEN UNCHANGED faults ELSE Fault
    /\ reader' = "reading"
    /\ UNCHANGED <<dispVars, queue, sup, fetches, reg, cl, changes, log>>

-----------------------------------------------------------------------------
(* Commands to clients *)

Command(kind, at, outs) == [kind |-> kind, at |-> at, outs |-> outs]
One(o, e) == [x \in {o} |-> e]
Removes(at, S) == LET s == SetToSeq(S) IN [i \in DOMAIN s |-> Command("remove", at, One(s[i], None))]
Adds(at, S, proj) == LET s == SetToSeq(S) IN [i \in DOMAIN s |-> Command("add", at, One(s[i], proj[s[i]]))]
Recalculate(at) == Command("recalculate", at, Empty)

projection_diff_commands(old, new, at) ==
    LET changed == SetToSeq({o \in DOMAIN new \cap DOMAIN old : old[o] # new[o]})
    IN  Removes(at, DOMAIN old \ DOMAIN new)
        \o [i \in DOMAIN changed |-> Command("reconfigure", at, One(changed[i], new[changed[i]]))]
        \o Adds(at, DOMAIN new \ DOMAIN old, new)
        \o <<Recalculate(at)>>

\* Mutant: a command that does not fit is forgotten.
MutSend(c, cmd) ==
    IF Len(c.q) < ClientSlots /\ ~c.resync THEN [c EXCEPT !.q = Append(@, cmd)] ELSE c

\* broadcast_client_command for one client.
Send(c, cmd) ==
    IF c.pc \in {"none", "gone"} \/ (c.resync /\ cmd.kind # "reset") THEN c
    ELSE IF Len(c.q) < ClientSlots THEN [c EXCEPT !.q = Append(@, cmd)]
    ELSE [c EXCEPT !.resync = TRUE]

Broadcast(cmds) == cl' = [c \in Clients |-> FoldLeft(Send, cl[c], cmds)]

-----------------------------------------------------------------------------
(* The supervisor thread *)

Take(kind) == sup.st # "Failed" /\ queue # <<>> /\ Head(queue).kind = kind
supOnly == <<dispVars, reader, changes, faults, log>>

\* The answers that resync_generation makes stale when it is increased.
Stale(s) == [i \in DOMAIN s |-> [s[i] EXCEPT !.stale = TRUE]]
StaleInputs(s) == [i \in DOMAIN s |-> IF s[i].kind = "result" THEN [s[i] EXCEPT !.stale = TRUE] ELSE s[i]]

HandleLost ==
    /\ Take("lost")
    /\ sup' = [st |-> "SnapshotPending", buf |-> <<>>]
    /\ queue' = StaleInputs(Tail(queue))
    /\ fetches' = Stale(fetches)
    /\ UNCHANGED <<supOnly, reg, cl>>

\* apply_authoritative_topology_snapshot: another epoch begins with a reset.
HandleSnapshot ==
    LET s == Head(queue)
        old == reg.proj
    IN  /\ Take("snapshot")
        /\ queue' = Tail(queue)
        /\ IF s.at[1] = reg.at[1] /\ s.at[2] < reg.at[2] THEN UNCHANGED <<sup, reg, cl>>
           ELSE /\ reg' = [at |-> s.at, proj |-> s.outs]
                /\ sup' = [st |-> "Streaming", buf |-> <<>>]
                /\ Broadcast(
                     (IF s.at[1] # reg.at[1]
                      THEN <<Command("reset", s.at, Empty)>> \o Removes(s.at, DOMAIN old)
                           \o Adds(s.at, DOMAIN s.outs, s.outs)
                      ELSE projection_diff_commands(old, s.outs, s.at))
                     \o <<Recalculate(s.at)>>)
        /\ UNCHANGED <<supOnly, fetches>>

HandleOverflow ==
    /\ Take("overflow")
    /\ sup' = [sup EXCEPT !.st = "Failed"]
    /\ queue' = Tail(queue)
    /\ UNCHANGED <<supOnly, fetches, reg, cl>>

\* apply_topology_delta: the projection and the command for the clients.
DeltaEntry(d) == IF d.kind = "remove" THEN None ELSE Entry(d.mode, FALSE)
ApplyDelta(r, d) ==
    [at |-> d.at,
     proj |-> IF d.kind = "remove" THEN Without(r.proj, d.out) ELSE With(r.proj, d.out, DeltaEntry(d))]
DeltaCommands(d) == <<Command(d.kind, d.at, One(d.out, DeltaEntry(d))), Recalculate(d.at)>>

\* Mutant: replay takes any later delta.
MutFollows(r, d) == d.at[1] = r.at[1] /\ d.at[2] >= r.at[2]

\* A delta that can be applied: the next one, or the last one again.
Follows(r, d) == d.at[1] = r.at[1] /\ d.at[2] \in {r.at[2], r.at[2] + 1}

\* replay_buffered_deltas, with the commands so far.
ReplayOne(acc, d) ==
    IF Follows(acc.reg, d) /\ d.kind # "reset"
    THEN [reg |-> ApplyDelta(acc.reg, d), cmds |-> acc.cmds \o DeltaCommands(d)] ELSE acc
\* Of the deltas at the places I, the one that is replayed last.
Latest(buf, I) == CHOOSE i \in I : \A j \in I : buf[j].at[2] <= buf[i].at[2]
Replay(r, cmds, buf) ==
    MapThenFoldSet(LAMBDA i, acc : ReplayOne(acc, buf[i]), [reg |-> r, cmds |-> cmds],
                   LAMBDA i : i, LAMBDA I : Latest(buf, I), DOMAIN buf)

Answers(r) == ~r.stale /\ sup.st = "SnapshotPending"

Gap(at, buf) ==
    LET later == {d.at[2] : d \in {e \in Range(buf) : e.at[1] = at[1] /\ e.at[2] > at[2]}}
    IN  later # {} /\ Min(later) > at[2] + 1

Failure == [ok |-> FALSE]
Fetch(at) == [at |-> at, res |-> None, stale |-> FALSE]

\* SnapshotResult: replace the projection, replay what was buffered, and ask again
\* when the buffer does not connect.
HandleResult ==
    LET r == Head(queue)
        fresh == [at |-> r.res.at, proj |-> r.res.outs]
        done == Replay(fresh, projection_diff_commands(reg.proj, fresh.proj, fresh.at), sup.buf)
    IN  /\ Take("result")
        /\ IF ~Answers(r) THEN queue' = Tail(queue) /\ UNCHANGED <<sup, fetches, reg, cl>>
           ELSE IF ~r.res.ok
           THEN sup' = [st |-> "Streaming", buf |-> <<>>] /\ queue' = Tail(queue) /\ UNCHANGED <<fetches, reg, cl>>
           ELSE /\ reg' = done.reg
                /\ Broadcast(done.cmds)
                /\ IF Gap(fresh.at, sup.buf)
                   THEN /\ sup' = [st |-> "SnapshotPending", buf |-> <<>>]
                        /\ fetches' = Append(Stale(fetches), Fetch(reg'.at))
                        /\ queue' = StaleInputs(Tail(queue))
                   ELSE /\ sup' = [st |-> "Streaming", buf |-> <<>>]
                        /\ queue' = Tail(queue) /\ UNCHANGED fetches
        /\ UNCHANGED supOnly

\* trigger_resync while streaming.
Resync(buf) ==
    /\ sup' = [st |-> "SnapshotPending", buf |-> buf]
    /\ fetches' = Append(Stale(fetches), Fetch(reg.at))
    /\ UNCHANGED <<reg, cl>>

\* A delta: kept while a snapshot is pending, applied if it follows, or a reason
\* to ask for a snapshot.
HandleDelta ==
    LET d == Head(queue).delta
        kept == IF Len(sup.buf) < BufferLimit THEN Append(sup.buf, d) ELSE <<>>
    IN  /\ Take("event")
        /\ IF sup.st # "Streaming"
           THEN sup' = [sup EXCEPT !.buf = kept] /\ queue' = Tail(queue) /\ UNCHANGED <<fetches, reg, cl>>
           ELSE IF ~Follows(reg, d)
           THEN Resync(kept) /\ queue' = StaleInputs(Tail(queue))
           ELSE IF d.kind = "reset"
           THEN Resync(sup.buf) /\ queue' = StaleInputs(Tail(queue))
           ELSE /\ reg' = ApplyDelta(reg, d)
                /\ Broadcast(DeltaCommands(d))
                /\ queue' = Tail(queue)
                /\ UNCHANGED <<sup, fetches>>
        /\ UNCHANGED supOnly

Supervise == HandleLost \/ HandleSnapshot \/ HandleOverflow \/ HandleResult \/ HandleDelta

\* query_output_snapshot_with_retry: an answer older than the question is refused.
Query(i) ==
    LET at == fetches[i].at
        older == disp.epoch < at[1] \/ (disp.epoch = at[1] /\ disp.seq < at[2])
    IN  /\ i \in DOMAIN fetches /\ fetches[i].res = None
        /\ fetches' = [fetches EXCEPT ![i].res = IF older THEN Failure ELSE [ok |-> TRUE, at |-> Stamp(disp), outs |-> Snapshot(disp)]]
        /\ UNCHANGED <<dispVars, reader, queue, sup, reg, cl, changes, faults, log>>

QueryFails(i) ==
    /\ i \in DOMAIN fetches /\ fetches[i].res = None
    /\ Fault
    /\ fetches' = [fetches EXCEPT ![i].res = Failure]
    /\ UNCHANGED <<dispVars, reader, queue, sup, reg, cl, changes, log>>

\* The answer is lost when the queue is full.
PostResult(i) ==
    /\ i \in DOMAIN fetches /\ fetches[i].res # None
    /\ queue' = TrySend([kind |-> "result", res |-> fetches[i].res, stale |-> fetches[i].stale])
    /\ fetches' = RemoveAt(fetches, i)
    /\ UNCHANGED <<dispVars, reader, sup, reg, cl, changes, faults, log>>

-----------------------------------------------------------------------------
(* The thread of a client: handle_production_client *)

clientOnly == <<dispVars, reader, queue, sup, fetches, reg, changes, faults, log>>
Become(c, r) == cl' = [cl EXCEPT ![c] = r]

\* core holds the outputs of HeadlessWireCore, told the ones of which the client
\* has been told the global, and not that it was removed.  overtaken is history: a
\* delta got into the queue before the command with the initial outputs.
NewClient ==
    [pc |-> "none", q |-> <<>>, resync |-> FALSE, at |-> <<0, 0>>, live |-> Empty, core |-> Empty,
     init |-> None, bound |-> FALSE, unsent |-> <<>>, told |-> {}, overtaken |-> FALSE]

\* The client is put on the list with the outputs of that moment; the command
\* that announces them follows.
Register(c) ==
    /\ cl[c].pc = "none" /\ reg.at[1] # 0 /\ reg.proj # Empty
    /\ Become(c, [NewClient EXCEPT !.pc = "registered", !.live = reg.proj,
                                   !.init = Command("initial", reg.at, reg.proj)])
    /\ UNCHANGED clientOnly

Gone == [NewClient EXCEPT !.pc = "gone"]

SendInitial(c) ==
    /\ cl[c].pc = "registered"
    /\ Become(c, IF Len(cl[c].q) < ClientSlots
                 THEN [cl[c] EXCEPT !.pc = "running", !.q = Append(@, cl[c].init), !.init = None,
                                     !.overtaken = cl[c].q # <<>>]
                 ELSE Gone)
    /\ UNCHANGED clientOnly

\* HeadlessWireCore: an output that is known already is not added again.
CoreAdd(k, o, e) ==
    IF o \in DOMAIN k.core THEN k
    ELSE [k EXCEPT !.core = With(@, o, e.mode),
                   !.unsent = IF k.bound THEN Append(@, <<"global", o>>) ELSE @]
CoreRemove(k, o) ==
    IF o \notin DOMAIN k.core THEN k
    ELSE [k EXCEPT !.core = Without(@, o),
                   !.unsent = IF k.bound THEN Append(@, <<"global_remove", o>>) ELSE @]

\* apply_client_command.
Insert(k, o, e) == CoreAdd([k EXCEPT !.live = With(@, o, e)], o, e)
InsertAll(k, outs) == FoldLeft(LAMBDA a, o : Insert(a, o, outs[o]), k, SetToSeq(DOMAIN outs))
RemoveAll(k, S) == FoldLeft(LAMBDA a, o : CoreRemove([a EXCEPT !.live = Without(@, o)], o), k, SetToSeq(S))

Apply(k, cmd) ==
    LET sameEpoch == k.at[1] # 0 /\ cmd.at[1] = k.at[1]
        k1 == [k EXCEPT !.at = cmd.at]
    IN  IF cmd.kind = "reset" THEN IF sameEpoch /\ cmd.at[2] < k.at[2] THEN k ELSE k1
        ELSE IF k.at[1] # 0 /\ cmd.at[1] < k.at[1] THEN k
        ELSE IF k.at[1] # 0 /\ cmd.at[1] > k.at[1] THEN Gone
        ELSE IF cmd.at[2] < k.at[2] THEN k
        ELSE CASE cmd.kind \in {"initial", "add"} -> InsertAll(k1, cmd.outs)
               [] cmd.kind = "remove" -> RemoveAll(k1, DOMAIN cmd.outs)
               [] cmd.kind = "reconfigure" ->
                      LET o == CHOOSE x \in DOMAIN cmd.outs : TRUE
                      IN  IF o \notin DOMAIN k.core THEN Gone
                          ELSE [k1 EXCEPT !.live = With(@, o, cmd.outs[o]),
                                          !.core = [@ EXCEPT ![o] = cmd.outs[o].mode]]
               [] OTHER -> k1

TakeCommand(c) ==
    /\ cl[c].pc = "running" /\ ~cl[c].resync /\ cl[c].q # <<>>
    /\ LET k == Apply([cl[c] EXCEPT !.q = Tail(@)], Head(cl[c].q))
       IN  Become(c, IF k.pc = "gone" THEN k ELSE [k EXCEPT !.pc = "applied"])
    /\ UNCHANGED clientOnly

\* flush_pending_client_events: every event goes to the client.
Tell(t, e) == IF e[1] = "global" THEN t \cup {e[2]} ELSE t \ {e[2]}
Delivered(k) == [k EXCEPT !.unsent = <<>>, !.told = FoldLeft(Tell, k.told, k.unsent)]

\* Events are flushed after a command unless a resync has been requested meanwhile.
Flush(c) ==
    /\ cl[c].pc = "applied"
    /\ Become(c, [(IF cl[c].resync THEN cl[c] ELSE Delivered(cl[c])) EXCEPT !.pc = "running"])
    /\ UNCHANGED clientOnly

\* The events that core.drain_events throws away.
Discarded(k) == [k EXCEPT !.unsent = <<>>]

\* reconcile_client_topology: start again from the registry.
Reconcile(c) ==
    LET k0 == Discarded([cl[c] EXCEPT !.q = <<>>, !.resync = FALSE])
        k1 == Apply(k0, Command("reset", reg.at, Empty))
        k2 == Apply(k1, Command("remove", reg.at, k1.live))
        k3 == Apply(k2, Command("add", reg.at, reg.proj))
    IN  /\ cl[c].pc = "running" /\ cl[c].resync
        /\ Become(c, [Delivered(k3) EXCEPT !.overtaken = FALSE])
        /\ UNCHANGED clientOnly

\* The client asks for the globals.
GetRegistry(c) ==
    /\ cl[c].pc = "running" /\ ~cl[c].resync /\ cl[c].q = <<>> /\ ~cl[c].bound
    /\ Become(c, [cl[c] EXCEPT !.bound = TRUE, !.told = DOMAIN cl[c].core])
    /\ UNCHANGED clientOnly

Disconnect(c) ==
    /\ cl[c].pc = "running"
    /\ Become(c, Gone)
    /\ UNCHANGED clientOnly

-----------------------------------------------------------------------------
Init ==
    /\ disp = [epoch |-> 1, seq |-> 0, outs |-> Start]
    /\ conn = [open |-> TRUE, q |-> <<>>] /\ dead = 0
    /\ reader = "reading"
    /\ queue = <<SnapshotInput(disp)>>
    /\ sup = [st |-> "Streaming", buf |-> <<>>]
    /\ fetches = <<>>
    /\ reg = [at |-> <<0, 0>>, proj |-> Empty]
    /\ cl = [c \in Clients |-> NewClient]
    /\ changes = 0 /\ faults = 0
    /\ log = [at \in {<<1, 0>>} |-> Start]

Reader == ReadDelta \/ MarkOverflow \/ ReadFails \/ Reconnect \/ ReconnectFails
ClientStep(c) == SendInitial(c) \/ TakeCommand(c) \/ Flush(c) \/ Reconcile(c)

Next ==
    \/ \E kind \in {"add", "reconfigure", "remove", "reset"}, o \in Outputs, m \in Modes : Change(kind, o, m)
    \/ Restart
    \/ Reader
    \/ Supervise
    \/ \E i \in DOMAIN fetches : Query(i) \/ QueryFails(i) \/ PostResult(i)
    \/ \E c \in Clients : Register(c) \/ ClientStep(c) \/ GetRegistry(c) \/ Disconnect(c)

Spec == Init /\ [][Next]_vars

\* The threads run; the read timeout ends a wait, so an idle connection is renewed.
Fairness ==
    /\ WF_vars(Reader) /\ WF_vars(Supervise)
    /\ WF_vars(\E i \in DOMAIN fetches : Query(i) \/ PostResult(i))
FairSpec == Spec /\ Fairness

-----------------------------------------------------------------------------
(* Properties *)

Projections == UNION {[S -> [mode : Modes, eff : BOOLEAN]] : S \in SUBSET Outputs}
Stamps == (0 .. MaxChanges + 1) \X (0 .. MaxChanges)

\* The state has the shape of the threads' variables, within their budgets.
TypeOK ==
    /\ Listed <= MaxSubs
    /\ reader \in {"reading", "overflow", "lost", "ended"}
    /\ Len(queue) <= Slots /\ Len(conn.q) <= SubDepth /\ Len(sup.buf) <= BufferLimit
    /\ sup.st \in {"Streaming", "SnapshotPending", "Failed"}
    /\ reg \in [at : Stamps, proj : Projections]
    /\ \A c \in Clients :
           /\ cl[c].pc \in {"none", "registered", "running", "applied", "gone"}
           /\ Len(cl[c].q) <= ClientSlots
           /\ cl[c].at \in Stamps /\ cl[c].live \in Projections

\* The registry of outputs is never a mixture: it holds exactly the outputs that
\* displayd had at the registry's epoch and sequence, although deltas are lost,
\* buffered, replayed and overtaken by snapshots.  All queues stay within their
\* limits (TypeOK).
ProjectionExact == TypeOK /\ (reg.at[1] # 0 => ModesOf(reg.proj) = log[reg.at])

\* A client that has handled its commands uses the outputs of the registry, its core
\* has them with the same modes and the client has been offered their globals, also
\* after its command queue was full.  Only where a delta overtook the initial outputs,
\* which are then too old for apply_client_command, do some of them stay missing in
\* the core until the next resync.
ClientInSync ==
    \A c \in Clients :
        LET k == cl[c]
        IN  k.pc = "running" /\ ~k.resync /\ k.q = <<>> =>
                /\ ModesOf(k.live) = ModesOf(reg.proj)
                /\ DOMAIN k.core \subseteq DOMAIN k.live
                /\ \A o \in DOMAIN k.core : k.core[o] = k.live[o].mode
                /\ ~k.overtaken => DOMAIN k.core = DOMAIN k.live
                /\ k.bound => DOMAIN k.core \subseteq k.told

\* Once the outputs stay as they are, the registry ends up with them, unless the
\* reader thread has given up after an overflow.
Converges ==
    <>[](reader = "ended" \/ sup.st = "Failed" \/ reg.at = <<disp.epoch, disp.seq>>)
=============================================================================
