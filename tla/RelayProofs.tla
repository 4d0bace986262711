---------------------------- MODULE RelayProofs ----------------------------
(***************************************************************************)
(* What waylandd takes for presented is on the screen, and waylandd, compd *)
(* and displayd together keep the promise of FrameService, for any number  *)
(* of clients, generations, restarts and failed calls.                     *)
(***************************************************************************)
EXTENDS Relay, TLAPS, FiniteSetTheorems, SequenceTheorems

\* The shapes of the state.
Scenes == [gen : Nat, pending : Nat, presented : Nat, event : BOOLEAN]
Want == [gen : Nat, first : BOOLEAN, kind : {"frame", "feedback"}]
Threads ==
    [pc : {"off", "idle", "want", "send", "wait", "ask", "await", "dying"},
     why : {"none", "commit", "retry", "leave"},
     own : Nat, pub : Nat, stamps : SUBSET Nat, seen : Nat, wants : SUBSET Want,
     ans : {None, "committed", "presented", "rejected", "lost"}]
Requests ==
    [kind : {"commit", "feedback"}, from : Clients \cup {None}, ver : Versions,
     stamps : SUBSET Nat]
Relays == [floor : Versions, pending : Versions \cup {None}, q : Seq(Requests)]
Displays == [up : BOOLEAN, floor : Versions, shown : Versions, pres : Versions]

Shape ==
    /\ epoch \in Epochs /\ spent \subseteq Epochs /\ epoch \in spent
    /\ scene \in Scenes
    /\ part \in [Clients -> Nat \cup {None}]
    /\ permit \in Clients \cup {None}
    /\ cl \in [Clients -> Threads]
    /\ compd \in Relays
    /\ disp \in Displays
    /\ told \in [Clients -> SUBSET Nat]

\* A client begins a generation when it commits, and once more when it leaves
\* a scene it had committed to.
Parts == {c \in Clients : part[c] # None}
Bounded ==
    /\ IsFiniteSet(Parts)
    /\ Cardinality(Parts) <= scene.gen
    /\ scene.gen + Cardinality(Parts) <= MaxGen + MaxGen

\* The frame callbacks of every client are within the budget.
Budgeted ==
    \A c \in Clients : IsFiniteSet(Frames(cl[c].wants))
                       /\ Cardinality(Frames(cl[c].wants)) <= MaxCallbacks

\* The bookkeeping of the scene stays within its generations.
Counted ==
    /\ scene.pending <= scene.gen /\ scene.presented <= scene.gen
    /\ \A c \in Clients : /\ part[c] # None => part[c] <= scene.gen
                          /\ cl[c].own <= scene.gen

\* The generation of the running waylandd that a version stands for: 0 for the
\* versions of its predecessors.
RankIn(e, v) == IF v[1] = e THEN v[2] ELSE 0
Rank(v) == RankIn(epoch, v)

\* No version is from an epoch that is still to come.
Known(v) == v[1] = 0 \/ v[1] \in spent
Past ==
    /\ Known(disp.shown) /\ Known(disp.pres)
    /\ \A i \in 1 .. Len(compd.q) : Known(compd.q[i].ver)

\* What is on its way to the screen is in order: what was presented, what was
\* accepted, what compd has still to serve, and the scene.
Ordered ==
    /\ Rank(disp.pres) <= Rank(disp.shown) /\ Rank(disp.shown) <= scene.gen
    /\ \A i \in 1 .. Len(compd.q) :
           Rank(disp.shown) <= Rank(compd.q[i].ver) /\ Rank(compd.q[i].ver) <= scene.gen
    /\ \A i, j \in 1 .. Len(compd.q) : i < j => Rank(compd.q[i].ver) <= Rank(compd.q[j].ver)

\* The one thread that publishes has the permit, and what it publishes is no
\* older than anything on its way.
Publishing(c) == cl[c].pc \in {"send", "wait", "ask", "await"}
Published ==
    \A c \in Clients : Publishing(c) =>
        /\ permit = c
        /\ Rank(disp.shown) <= cl[c].pub /\ cl[c].pub <= scene.gen
        /\ \A i \in 1 .. Len(compd.q) : Rank(compd.q[i].ver) <= cl[c].pub
        /\ cl[c].why = "commit" => cl[c].own <= cl[c].pub

\* A request in compd's queue that somebody waits for is the call that thread
\* makes, and the only one.
Ver(e, t) == IF t.pub = 0 THEN Unversioned ELSE <<e, t.pub>>
IsCall(e, t, m) ==
    /\ m.ver = Ver(e, t)
    /\ t.pc = IF m.kind = "commit" THEN "wait" ELSE "await"
    /\ t.ans = None
Called ==
    /\ \A i \in 1 .. Len(compd.q) : compd.q[i].from # None =>
           IsCall(epoch, cl[compd.q[i].from], compd.q[i])
    /\ \A i, j \in 1 .. Len(compd.q) :
           compd.q[i].from = compd.q[j].from /\ compd.q[i].from # None => i = j

\* What a thread has been answered is so.
Answered ==
    \A c \in Clients :
        /\ cl[c].pc \in {"ask", "await"} \/ (cl[c].pc = "wait" /\ cl[c].ans = "committed")
           => cl[c].pub <= Rank(disp.shown)
        /\ cl[c].pc = "await" /\ cl[c].ans = "presented" => cl[c].pub <= Rank(disp.pres)

RelayInv ==
    /\ Shape /\ Bounded /\ Budgeted /\ Counted /\ Past
    /\ Ordered /\ Published /\ Called /\ Answered
    /\ scene.presented <= Rank(disp.pres)

-----------------------------------------------------------------------------
(* Versions, queues and threads *)

LEMMA VersionType ==
    /\ Unversioned \in Versions
    /\ \A v \in Versions, e \in Epochs : v[1] \in Nat /\ v[2] \in Nat /\ RankIn(e, v) \in Nat
    /\ \A e \in Epochs : RankIn(e, Unversioned) = 0
<1>1. Unversioned \in Versions
    BY RelayAssumption DEF Versions, Unversioned
<1>2. ASSUME NEW v \in Versions, NEW e \in Epochs
      PROVE  v[1] \in Nat /\ v[2] \in Nat /\ RankIn(e, v) \in Nat
    <2>1. v[1] \in Epochs \cup {0}
        BY DEF Versions
    <2>2. v[2] \in 0 .. MaxGen + MaxGen
        BY DEF Versions
    <2>3. \A m \in 0 .. MaxGen + MaxGen : m \in Nat
        BY RelayAssumption
    <2>4. \A m \in Epochs \cup {0} : m \in Nat
        BY RelayAssumption
    <2>5. v[1] \in Nat /\ v[2] \in Nat
        BY <2>1, <2>2, <2>3, <2>4
    <2> QED BY <2>5 DEF RankIn
<1>3. \A e \in Epochs : RankIn(e, Unversioned) = 0
    BY DEF RankIn, Unversioned
<1> QED BY <1>1, <1>2, <1>3

\* A thread's scene has a version of the running waylandd, or none.
LEMMA VersionRank ==
    ASSUME RelayInv, NEW c \in Clients, cl[c].pub <= scene.gen
    PROVE  Version(c) \in Versions /\ Rank(Version(c)) = cl[c].pub /\ Known(Version(c))
<1>1. cl[c].pub \in Nat /\ epoch \in Epochs /\ epoch \in spent
    BY DEF RelayInv, Shape, Threads
<1>2. scene.gen \in Nat /\ Cardinality(Parts) \in Nat
    BY FS_CardinalityType DEF RelayInv, Shape, Scenes, Bounded
<1>3. cl[c].pub \in 0 .. MaxGen + MaxGen
    BY <1>1, <1>2, RelayAssumption DEF RelayInv, Bounded
<1>4. CASE cl[c].pub = 0
    BY <1>1, <1>4, VersionType DEF Version, Rank, Known, Unversioned
<1>5. CASE cl[c].pub # 0
    BY <1>1, <1>3, <1>5 DEF Version, Versions, Rank, RankIn, Known
<1> QED BY <1>4, <1>5

LEMMA QueueTail ==
    ASSUME NEW q \in Seq(Requests), q # <<>>
    PROVE  /\ Tail(q) \in Seq(Requests) /\ Len(Tail(q)) \in Nat /\ Len(q) = Len(Tail(q)) + 1
           /\ \A i \in 1 .. Len(Tail(q)) : i + 1 \in 1 .. Len(q) /\ Tail(q)[i] = q[i + 1]
           /\ 1 \in 1 .. Len(q) /\ Head(q) = q[1] /\ q[1] \in Requests
OBVIOUS

LEMMA QueueAppend ==
    ASSUME NEW q \in Seq(Requests), NEW r \in Requests
    PROVE  /\ Append(q, r) \in Seq(Requests) /\ Len(q) \in Nat /\ Len(Append(q, r)) = Len(q) + 1
           /\ \A i \in 1 .. Len(q) : Append(q, r)[i] = q[i]
           /\ Append(q, r)[Len(q) + 1] = r
OBVIOUS

LEMMA QueueOrphaned ==
    ASSUME NEW q \in Seq(Requests), NEW c
    PROVE  /\ Orphaned(q, c) \in Seq(Requests) /\ Len(Orphaned(q, c)) = Len(q)
           /\ \A i \in 1 .. Len(q) :
                  /\ Orphaned(q, c)[i].ver = q[i].ver
                  /\ Orphaned(q, c)[i].kind = q[i].kind
                  /\ Orphaned(q, c)[i].from = IF q[i].from = c THEN None ELSE q[i].from
<1>1. Len(q) \in Nat /\ DOMAIN q = 1 .. Len(q) /\ \A i \in 1 .. Len(q) : q[i] \in Requests
    OBVIOUS
<1>2. \A i \in 1 .. Len(q) :
          /\ Orphaned(q, c)[i] = IF q[i].from = c THEN [q[i] EXCEPT !.from = None] ELSE q[i]
          /\ Orphaned(q, c)[i] \in Requests
    BY <1>1 DEF Orphaned, Requests
<1>3. Orphaned(q, c) \in [1 .. Len(q) -> Requests]
    BY <1>1, <1>2 DEF Orphaned
<1>4. Orphaned(q, c) \in Seq(Requests) /\ Len(Orphaned(q, c)) = Len(q)
    BY <1>1, <1>3
<1> QED BY <1>1, <1>2, <1>4 DEF Requests

LEMMA BecomeFacts ==
    ASSUME cl \in [Clients -> Threads], NEW c \in Clients, NEW r \in Threads, Become(c, r)
    PROVE  /\ cl' \in [Clients -> Threads] /\ cl'[c] = r
           /\ \A d \in Clients : d # c => cl'[d] = cl[d]
BY DEF Become

\* Callbacks that are released leave the budget kept.
LEMMA FewerFrames ==
    ASSUME NEW W, NEW V, V \subseteq W, IsFiniteSet(Frames(W)), Cardinality(Frames(W)) <= MaxCallbacks
    PROVE  IsFiniteSet(Frames(V)) /\ Cardinality(Frames(V)) <= MaxCallbacks
<1>1. Frames(V) \subseteq Frames(W)
    BY DEF Frames
<1>2. /\ IsFiniteSet(Frames(V)) /\ Cardinality(Frames(V)) <= Cardinality(Frames(W))
      /\ Cardinality(Frames(V)) \in Nat /\ Cardinality(Frames(W)) \in Nat
    BY <1>1, FS_Subset, FS_CardinalityType
<1> QED BY <1>2, RelayAssumption

LEMMA NoFrames ==
    IsFiniteSet(Frames({})) /\ Cardinality(Frames({})) <= MaxCallbacks
<1>1. Frames({}) = {}
    BY DEF Frames
<1>2. Cardinality(Frames({})) = 0 /\ IsFiniteSet(Frames({}))
    BY <1>1, FS_EmptySet
<1> QED BY <1>2, RelayAssumption

\* A commit adds one callback.
LEMMA OneFrameMore ==
    ASSUME NEW W, NEW g, NEW first, IsFiniteSet(Frames(W)), ~(Cardinality(Frames(W)) >= MaxCallbacks)
    PROVE  /\ IsFiniteSet(Frames(W \cup Wants(g, first)))
           /\ Cardinality(Frames(W \cup Wants(g, first))) <= MaxCallbacks
<1> DEFINE x == [gen |-> g, first |-> first, kind |-> "frame"]
<1>1. Frames(W \cup Wants(g, first)) = Frames(W) \cup {x}
    BY DEF Frames, Wants
<1>2. /\ IsFiniteSet(Frames(W) \cup {x}) /\ Cardinality(Frames(W)) \in Nat
      /\ \/ Cardinality(Frames(W) \cup {x}) = Cardinality(Frames(W))
         \/ Cardinality(Frames(W) \cup {x}) = Cardinality(Frames(W)) + 1
    BY FS_AddElement, FS_CardinalityType
<1>3. Cardinality(Frames(W) \cup {x}) <= MaxCallbacks
    BY <1>2, RelayAssumption
<1> QED BY <1>1, <1>2, <1>3

-----------------------------------------------------------------------------
(* Steps of the threads *)

\* A thread that does not publish does something that no service sees.
LEMMA ThreadStep ==
    ASSUME RelayInv, NEW c \in Clients, NEW r \in Threads, Become(c, r),
           ~Publishing(c), r.pc \notin {"send", "wait", "ask", "await"},
           IsFiniteSet(Frames(r.wants)), Cardinality(Frames(r.wants)) <= MaxCallbacks,
           scene' \in Scenes, scene.gen <= scene'.gen, scene'.pending <= scene'.gen,
           scene'.presented = scene.presented, r.own <= scene'.gen,
           part' \in [Clients -> Nat \cup {None}],
           \A d \in Clients : part'[d] # None => part'[d] <= scene'.gen,
           Bounded', told' \in [Clients -> SUBSET Nat],
           UNCHANGED <<epoch, spent, permit, compd, disp>>
    PROVE  RelayInv'
<1> USE VersionType DEF RelayInv, Rank
<1>1. /\ cl' \in [Clients -> Threads] /\ cl'[c] = r
      /\ \A d \in Clients : d # c => cl'[d] = cl[d]
    BY BecomeFacts DEF Shape
<1>2. Shape'
    BY <1>1 DEF Shape
<1>3. Budgeted'
    BY <1>1 DEF Budgeted
<1>4. scene.gen \in Nat /\ scene'.gen \in Nat /\ scene.presented \in Nat
    BY DEF Shape, Scenes
<1>5. \A d \in Clients : cl[d].own \in Nat /\ cl[d].pub \in Nat
    BY DEF Shape, Threads
<1>6. disp.shown \in Versions /\ disp.pres \in Versions /\ epoch \in Epochs
    BY DEF Shape, Displays
<1>7. \A i \in 1 .. Len(compd.q) : compd.q[i] \in Requests
    BY DEF Shape, Relays
<1>8. Counted'
    BY <1>1, <1>4, <1>5 DEF Counted
<1>9. Past'
    BY DEF Past, Known
<1>10. Ordered'
    BY <1>4, <1>6, <1>7 DEF Ordered, Requests
<1>11. Published'
    BY <1>1, <1>4, <1>5 DEF Published, Publishing
<1>12. Called'
    <2>1. ASSUME NEW i \in 1 .. Len(compd.q), compd.q[i].from # None
          PROVE  LET d == compd.q[i].from
                 IN  d \in Clients /\ cl'[d] = cl[d]
        BY <1>1, <1>7, <2>1 DEF Called, IsCall, Publishing, Requests
    <2> QED BY <2>1 DEF Called
<1>13. Answered'
    BY <1>1 DEF Answered, Publishing
<1> QED BY <1>2, <1>3, <1>8, <1>9, <1>10, <1>11, <1>12, <1>13

\* A thread that publishes stops doing so and gives the permit back; a request
\* it has in compd's queue stays there without it.
LEMMA EndStep ==
    ASSUME RelayInv, NEW c \in Clients, NEW r \in Threads, Become(c, r), Publishing(c),
           r.pc \notin {"send", "wait", "ask", "await"}, r.wants \subseteq cl[c].wants,
           r.own <= cl[c].own, permit' = None,
           scene' \in Scenes, scene'.gen = scene.gen, scene'.pending <= scene.gen,
           scene'.presented <= Rank(disp.pres),
           \/ compd' = [compd EXCEPT !.q = Orphaned(@, c)]
           \/ compd' = compd /\ cl[c].ans # None,
           told' \in [Clients -> SUBSET Nat], UNCHANGED <<epoch, spent, part, disp>>
    PROVE  RelayInv'
<1> USE VersionType DEF RelayInv, Rank
<1>1. /\ cl' \in [Clients -> Threads] /\ cl'[c] = r
      /\ \A d \in Clients : d # c => cl'[d] = cl[d]
    BY BecomeFacts DEF Shape
<1>2. scene.gen \in Nat /\ scene'.gen \in Nat /\ scene'.presented \in Nat /\ scene'.pending \in Nat
    BY DEF Shape, Scenes
<1>3. \A d \in Clients : cl[d].own \in Nat /\ cl[d].pub \in Nat /\ cl'[d].own \in Nat
    BY <1>1 DEF Shape, Threads
<1>4. /\ disp.shown \in Versions /\ disp.pres \in Versions /\ epoch \in Epochs
      /\ RankIn(epoch, disp.shown) \in Nat /\ RankIn(epoch, disp.pres) \in Nat
    BY DEF Shape, Displays
<1>5. /\ compd.q \in Seq(Requests)
      /\ \A i \in 1 .. Len(compd.q) : compd.q[i].from \in Clients \cup {None}
    <2>1. compd.q \in Seq(Requests)
        BY DEF Shape, Relays
    <2>2. \A i \in 1 .. Len(compd.q) : compd.q[i] \in Requests
        BY <2>1
    <2> QED BY <2>1, <2>2 DEF Requests
<1>6. /\ compd' \in Relays /\ Len(compd'.q) = Len(compd.q)
      /\ \A i \in 1 .. Len(compd.q) :
             /\ compd'.q[i].ver = compd.q[i].ver
             /\ compd'.q[i].kind = compd.q[i].kind
             /\ compd'.q[i].from # None => compd'.q[i].from = compd.q[i].from
             /\ compd'.q[i].from # c
    <2>1. CASE compd' = [compd EXCEPT !.q = Orphaned(@, c)]
        <3>1. compd'.q = Orphaned(compd.q, c)
            BY <2>1 DEF Shape, Relays
        <3>2. compd' \in Relays
            BY <1>5, <2>1, <3>1, QueueOrphaned DEF Shape, Relays
        <3> QED BY <1>5, <3>1, <3>2, QueueOrphaned, RelayAssumption
    <2>2. CASE compd' = compd /\ cl[c].ans # None
        BY <2>2, RelayAssumption DEF Shape, Called, IsCall
    <2> QED BY <2>1, <2>2
<1>7. Shape'
    BY <1>1, <1>6 DEF Shape
<1>8. Budgeted'
    BY <1>1, FewerFrames DEF Budgeted
<1>9. Bounded'
    BY DEF Bounded, Parts
<1>10. Counted'
    <2>1. scene'.presented <= scene.gen
        BY <1>2, <1>4 DEF Ordered
    <2> QED BY <1>1, <1>2, <1>3, <2>1 DEF Counted
<1>11. Past'
    BY <1>6 DEF Past, Known
<1>12. Ordered'
    BY <1>6 DEF Ordered
<1>13. \A d \in Clients : Publishing(d)' => FALSE
    BY <1>1, RelayAssumption DEF Published, Publishing
<1>14. Called'
    <2>1. ASSUME NEW i \in 1 .. Len(compd.q), compd'.q[i].from # None
          PROVE  LET d == compd'.q[i].from
                 IN  d \in Clients /\ cl'[d] = cl[d] /\ d = compd.q[i].from
        BY <1>1, <1>5, <1>6, <2>1
    <2> QED BY <1>6, <2>1 DEF Called, IsCall
<1>15. Published' /\ Answered'
    BY <1>13 DEF Published, Answered, Publishing
<1>16. scene'.presented <= RankIn(epoch', disp'.pres)
    OBVIOUS
<1> QED BY <1>7, <1>8, <1>9, <1>10, <1>11, <1>12, <1>14, <1>15, <1>16

\* The permit is taken for the scene as it is.
LEMMA AcquireStep ==
    ASSUME RelayInv, NEW c \in Clients, Acquire(c)
    PROVE  RelayInv'
<1> USE VersionType DEF RelayInv, Rank
<1> DEFINE r == [cl[c] EXCEPT !.pc = "send", !.pub = scene.gen, !.stamps = Stamps]
<1>1. scene \in Scenes /\ scene.gen \in Nat /\ scene.pending \in Nat
    BY DEF Shape, Scenes
<1>2. Stamps \subseteq Nat
    BY DEF Stamps, Shape
<1>3. cl[c] \in Threads
    BY DEF Shape
<1>4. /\ r \in Threads /\ r.pc = "send" /\ r.pub = scene.gen /\ r.own = cl[c].own
      /\ r.wants = cl[c].wants /\ r.why = cl[c].why
    BY <1>1, <1>2, <1>3 DEF Threads
<1> HIDE DEF r
<1>5. Become(c, r) /\ permit = None /\ permit' = c
    BY DEF Acquire, r
<1>6. UNCHANGED <<epoch, spent, part, compd, disp, faults, told>>
    BY DEF Acquire
<1>7. /\ scene' \in Scenes /\ scene'.gen = scene.gen /\ scene'.presented = scene.presented
      /\ scene'.pending \in {0, scene.pending}
    BY <1>1 DEF Acquire, Scenes
<1>8. /\ cl' \in [Clients -> Threads] /\ cl'[c] = r
      /\ \A d \in Clients : d # c => cl'[d] = cl[d]
    BY <1>4, <1>5, BecomeFacts DEF Shape
<1>9. \A d \in Clients : ~Publishing(d)
    BY <1>5, RelayAssumption DEF Published
<1>10. \A d \in Clients : cl[d].own \in Nat
    BY DEF Shape, Threads
<1>11. Shape'
    BY <1>5, <1>6, <1>7, <1>8 DEF Shape
<1>12. Bounded'
    BY <1>6, <1>7 DEF Bounded, Parts
<1>13. Budgeted'
    BY <1>4, <1>8 DEF Budgeted
<1>14. Counted'
    BY <1>1, <1>4, <1>6, <1>7, <1>8, <1>10 DEF Counted
<1>15. Past'
    BY <1>6 DEF Past, Known
<1>16. Ordered'
    BY <1>6, <1>7 DEF Ordered
<1>17. Published'
    BY <1>1, <1>4, <1>5, <1>6, <1>7, <1>8, <1>9, <1>10 DEF Published, Publishing, Ordered, Counted
<1>18. Called'
    <2>1. ASSUME NEW i \in 1 .. Len(compd.q) PROVE compd.q[i].from = None
        <3>1. compd.q[i].from \in Clients \cup {None}
            <4>1. compd.q \in Seq(Requests)
                BY DEF Shape, Relays
            <4>2. compd.q[i] \in Requests
                BY <4>1
            <4> QED BY <4>2 DEF Requests
        <3> QED BY <1>9, <3>1 DEF Called, IsCall, Publishing
    <2> QED BY <1>6, <2>1 DEF Called
<1>19. Answered'
    BY <1>4, <1>8, <1>9 DEF Answered, Publishing
<1>20. scene'.presented <= RankIn(epoch', disp'.pres)
    BY <1>6, <1>7
<1> QED BY <1>11, <1>12, <1>13, <1>14, <1>15, <1>16, <1>17, <1>18, <1>19, <1>20

\* A request goes to the end of the queue.
LEMMA SendStep ==
    ASSUME RelayInv, NEW c \in Clients, Send(c)
    PROVE  RelayInv'
<1> USE VersionType DEF RelayInv, Rank
<1> DEFINE r == [cl[c] EXCEPT !.pc = IF @ = "send" THEN "wait" ELSE "await", !.ans = None]
           m == Request(IF cl[c].pc = "send" THEN "commit" ELSE "feedback", c)
<1>1. cl[c] \in Threads /\ cl[c].pc \in {"send", "ask"} /\ Publishing(c)
    BY DEF Send, Shape, Publishing
<1>2. /\ r \in Threads /\ r.pc = (IF cl[c].pc = "send" THEN "wait" ELSE "await") /\ r.ans = None
      /\ r.pub = cl[c].pub /\ r.own = cl[c].own /\ r.why = cl[c].why /\ r.wants = cl[c].wants
    BY <1>1 DEF Threads
<1>3. cl[c].pub <= scene.gen /\ permit = c
    BY <1>1 DEF Published
<1>4. Version(c) \in Versions /\ Rank(Version(c)) = cl[c].pub /\ Known(Version(c))
    BY <1>3, VersionRank
<1>5. /\ m \in Requests /\ m.ver = Version(c) /\ m.from = c
      /\ m.kind = IF cl[c].pc = "send" THEN "commit" ELSE "feedback"
    BY <1>1, <1>4 DEF Request, Requests, Threads
<1> HIDE DEF r, m
<1>6. Become(c, r) /\ UNCHANGED <<epoch, spent, scene, part, permit, disp, faults, told>>
    BY DEF Send, r
<1>7. compd.q \in Seq(Requests) /\ compd' = [compd EXCEPT !.q = Append(compd.q, m)]
    BY DEF Send, m, Shape, Relays
<1> DEFINE q == compd.q
           n == Len(compd.q)
<1>8. /\ compd' \in Relays /\ n \in Nat /\ Len(compd'.q) = n + 1
      /\ \A i \in 1 .. n : compd'.q[i] = q[i] /\ q[i] \in Requests
      /\ compd'.q[n + 1] = m
    <2>1. compd'.q = Append(compd.q, m)
        BY <1>7 DEF Shape, Relays
    <2>2. compd' \in Relays
        BY <1>5, <1>7, QueueAppend DEF Shape, Relays
    <2> QED BY <1>5, <1>7, <2>1, <2>2, QueueAppend
<1>9. \A i \in 1 .. n + 1 : i \in 1 .. n \/ i = n + 1
    BY <1>8
<1>10. \A i \in 1 .. n : i # n + 1 /\ ~(n + 1 < i)
    BY <1>8
<1>11. /\ cl' \in [Clients -> Threads] /\ cl'[c] = r
       /\ \A d \in Clients : d # c => cl'[d] = cl[d]
    BY <1>2, <1>6, BecomeFacts DEF Shape
<1>12. \A d \in Clients : Publishing(d) => d = c
    BY <1>3 DEF Published
<1>13. \A d \in Clients : Publishing(d)' => d = c
    BY <1>11, <1>12 DEF Publishing
<1>14. \A i \in 1 .. n : q[i].from # c /\ q[i].from \in Clients \cup {None}
    BY <1>1, <1>8, RelayAssumption DEF Called, IsCall, Requests
<1>15. Shape'
    BY <1>6, <1>8, <1>11 DEF Shape
<1>16. Bounded'
    BY <1>6 DEF Bounded, Parts
<1>17. Budgeted'
    BY <1>2, <1>11 DEF Budgeted
<1>18. Counted'
    BY <1>2, <1>6, <1>11 DEF Counted
<1>19. Past'
    BY <1>4, <1>5, <1>6, <1>8, <1>9 DEF Past, Known
<1>20. /\ RankIn(epoch, m.ver) = cl[c].pub /\ cl[c].pub \in Nat
       /\ RankIn(epoch, disp.shown) <= cl[c].pub
       /\ \A i \in 1 .. n : RankIn(epoch, q[i].ver) <= cl[c].pub
       /\ cl[c].why = "commit" => cl[c].own <= cl[c].pub
    BY <1>1, <1>4, <1>5 DEF Published, Threads
<1>21. \A i \in 1 .. n + 1 :
           /\ RankIn(epoch, compd'.q[i].ver) <= cl[c].pub
           /\ RankIn(epoch, disp.shown) <= RankIn(epoch, compd'.q[i].ver)
    <2> TAKE i \in 1 .. n + 1
    <2>1. CASE i \in 1 .. n
        BY <1>8, <1>20, <2>1 DEF Ordered
    <2>2. CASE i = n + 1
        BY <1>8, <1>20, <2>2
    <2> QED BY <1>9, <2>1, <2>2
<1>22. Published' /\ Ordered'
    <2>1. Published'
        BY <1>2, <1>3, <1>6, <1>8, <1>11, <1>13, <1>20, <1>21 DEF Published
    <2>2. \A i \in 1 .. n + 1 : RankIn(epoch, compd'.q[i].ver) <= scene.gen
        <3>1. RankIn(epoch, m.ver) <= scene.gen
            BY <1>3, <1>20
        <3> QED BY <1>8, <1>9, <3>1 DEF Ordered
    <2>3. \A i, j \in 1 .. n + 1 :
              i < j => RankIn(epoch, compd'.q[i].ver) <= RankIn(epoch, compd'.q[j].ver)
        <3> SUFFICES ASSUME NEW i \in 1 .. n + 1, NEW j \in 1 .. n + 1, i < j
                     PROVE  RankIn(epoch, compd'.q[i].ver) <= RankIn(epoch, compd'.q[j].ver)
            OBVIOUS
        <3>1. CASE j \in 1 .. n
            <4>1. i \in 1 .. n
                BY <1>8, <1>9, <3>1
            <4> QED BY <1>8, <3>1, <4>1 DEF Ordered
        <3>2. CASE j = n + 1
            BY <1>8, <1>20, <1>21, <3>2
        <3> QED BY <1>9, <3>1, <3>2
    <2> QED BY <1>6, <1>8, <1>21, <2>1, <2>2, <2>3 DEF Ordered
<1>23. Called'
    <2>1. IsCall(epoch, r, m)
        BY <1>1, <1>2, <1>5 DEF IsCall, Ver, Version
    <2>2. \A i \in 1 .. n + 1 : compd'.q[i].from # None =>
              IsCall(epoch, cl'[compd'.q[i].from], compd'.q[i])
        BY <1>5, <1>8, <1>9, <1>11, <1>14, <2>1 DEF Called
    <2>3. \A i, j \in 1 .. n + 1 :
              compd'.q[i].from = compd'.q[j].from /\ compd'.q[i].from # None => i = j
        BY <1>5, <1>8, <1>9, <1>14 DEF Called
    <2> QED BY <1>6, <1>8, <2>2, <2>3 DEF Called
<1>24. Answered'
    BY <1>1, <1>2, <1>6, <1>11, RelayAssumption DEF Answered
<1>25. scene'.presented <= RankIn(epoch', disp'.pres)
    BY <1>6
<1> QED BY <1>15, <1>16, <1>17, <1>18, <1>19, <1>22, <1>23, <1>24, <1>25

\* An accepted scene is followed by the question whether it is presented.
LEMMA CommittedStep ==
    ASSUME RelayInv, NEW c \in Clients, Committed(c)
    PROVE  RelayInv'
<1> USE DEF RelayInv, Rank
<1> DEFINE r == [cl[c] EXCEPT !.pc = "ask"]
<1>1. cl[c] \in Threads /\ cl[c].pc = "wait" /\ cl[c].ans = "committed" /\ Publishing(c)
    BY DEF Committed, Shape, Publishing
<1>2. /\ r \in Threads /\ r.pc = "ask" /\ r.pub = cl[c].pub /\ r.own = cl[c].own
      /\ r.wants = cl[c].wants /\ r.why = cl[c].why
    BY <1>1 DEF Threads
<1> HIDE DEF r
<1>3. Become(c, r) /\ UNCHANGED <<epoch, spent, scene, part, permit, compd, disp, faults, told>>
    BY DEF Committed, r
<1>4. /\ cl' \in [Clients -> Threads] /\ cl'[c] = r
      /\ \A d \in Clients : d # c => cl'[d] = cl[d]
    BY <1>2, <1>3, BecomeFacts DEF Shape
<1>5. Shape' /\ Bounded' /\ Budgeted'
    BY <1>2, <1>3, <1>4 DEF Shape, Bounded, Parts, Budgeted
<1>6. Counted' /\ Past' /\ Ordered'
    BY <1>2, <1>3, <1>4 DEF Counted, Past, Known, Ordered
<1>7. Published'
    BY <1>1, <1>2, <1>3, <1>4 DEF Published, Publishing
<1>8. Called'
    <2>1. compd.q \in Seq(Requests)
        BY DEF Shape, Relays
    <2>2. \A i \in 1 .. Len(compd.q) : compd.q[i] \in Requests
        BY <2>1
    <2>3. \A i \in 1 .. Len(compd.q) : compd.q[i].from # c /\ compd.q[i].from \in Clients \cup {None}
        BY <1>1, <2>2, RelayAssumption DEF Called, IsCall, Requests
    <2> QED BY <1>3, <1>4, <2>3 DEF Called
<1>9. Answered'
    BY <1>1, <1>2, <1>3, <1>4 DEF Answered
<1>10. scene'.presented <= RankIn(epoch', disp'.pres)
    BY <1>3
<1> QED BY <1>5, <1>6, <1>7, <1>8, <1>9, <1>10

-----------------------------------------------------------------------------
(* Steps of compd and displayd *)

\* compd serves the request at the head of its queue.
LEMMA ServeStep ==
    ASSUME RelayInv, compd.q # <<>>,
           NEW a \in {"committed", "presented", "rejected"}, Answer(a),
           compd' \in Relays, compd'.q = Tail(compd.q), disp' \in Displays,
           disp'.shown \in {disp.shown, compd.q[1].ver},
           disp'.pres \in {disp.pres, disp'.shown},
           a = "committed" => compd.q[1].kind = "commit" /\ disp'.shown = compd.q[1].ver,
           a = "presented" => /\ compd.q[1].kind = "feedback"
                              /\ disp'.shown = disp.shown /\ disp'.pres = disp.shown,
           UNCHANGED compdOnly
    PROVE  RelayInv'
<1> USE VersionType DEF RelayInv, Rank
<1> DEFINE q == compd.q
           n == Len(compd'.q)
           c == compd.q[1].from
<1>1. UNCHANGED <<epoch, spent, scene, part, permit, told>>
    BY DEF compdOnly
<1>2. q \in Seq(Requests)
    BY DEF Shape, Relays
<1>3. /\ n \in Nat /\ Len(q) = n + 1 /\ 1 \in 1 .. Len(q) /\ Head(q) = q[1]
      /\ \A i \in 1 .. n : i + 1 \in 1 .. Len(q) /\ compd'.q[i] = q[i + 1] /\ 1 < i + 1
    BY <1>2, QueueTail
<1>4. \A i \in 1 .. Len(q) : q[i].from \in Clients \cup {None} /\ q[i].ver \in Versions
    <2>1. \A i \in 1 .. Len(q) : q[i] \in Requests
        BY <1>2
    <2> QED BY <2>1 DEF Requests
<1>5. /\ scene.gen \in Nat /\ scene.presented \in Nat /\ epoch \in Epochs
      /\ disp.shown \in Versions /\ disp.pres \in Versions
      /\ disp'.shown \in Versions /\ disp'.pres \in Versions
    BY DEF Shape, Scenes, Displays
<1>6. /\ RankIn(epoch, disp.shown) <= RankIn(epoch, disp'.shown)
      /\ RankIn(epoch, disp'.shown) <= RankIn(epoch, q[1].ver)
      /\ RankIn(epoch, disp'.shown) <= scene.gen
      /\ RankIn(epoch, disp.pres) <= RankIn(epoch, disp'.pres)
      /\ RankIn(epoch, disp'.pres) <= RankIn(epoch, disp'.shown)
    BY <1>3, <1>4, <1>5 DEF Ordered
<1>7. /\ cl' \in [Clients -> Threads]
      /\ \A d \in Clients : /\ cl'[d].pc = cl[d].pc /\ cl'[d].pub = cl[d].pub /\ cl'[d].own = cl[d].own
                            /\ cl'[d].wants = cl[d].wants /\ cl'[d].why = cl[d].why
                            /\ cl'[d].pub \in Nat
      /\ \A d \in Clients : d # c => cl'[d] = cl[d]
      /\ \A d \in Clients : d = c => cl'[d].ans = a
    <2>1. CASE c = None
        BY <1>3, <2>1, RelayAssumption DEF Answer, Shape, Threads
    <2>2. CASE c # None
        <3>1. c \in Clients
            BY <1>3, <1>4, <2>2
        <3>2. cl' = [cl EXCEPT ![c] = [cl[c] EXCEPT !.ans = a]]
            BY <1>3, <2>2 DEF Answer
        <3>3. [cl[c] EXCEPT !.ans = a] \in Threads
            <4>1. cl[c] \in Threads
                BY <3>1 DEF Shape
            <4> HIDE DEF c
            <4> QED BY <4>1 DEF Threads
        <3> QED BY <3>1, <3>2, <3>3 DEF Shape, Threads
    <2> QED BY <2>1, <2>2
<1> HIDE DEF c, n
<1>8. Shape' /\ Bounded' /\ Budgeted'
    BY <1>1, <1>7 DEF Shape, Bounded, Parts, Budgeted
<1>9. Counted'
    BY <1>1, <1>7 DEF Counted
<1>10. Past'
    BY <1>1, <1>3 DEF Past, Known, n
<1>11. Ordered'
    <2>1. \A i \in 1 .. n : RankIn(epoch, q[1].ver) <= RankIn(epoch, q[i + 1].ver)
        BY <1>3 DEF Ordered
    <2>2. \A i \in 1 .. n : RankIn(epoch, disp'.shown) <= RankIn(epoch, q[i + 1].ver)
        <3> TAKE i \in 1 .. n
        <3>1. /\ RankIn(epoch, q[1].ver) \in Nat /\ RankIn(epoch, q[i + 1].ver) \in Nat
              /\ RankIn(epoch, disp'.shown) \in Nat
            BY <1>3, <1>4, <1>5
        <3> QED BY <1>6, <2>1, <3>1
    <2>3. \A i, j \in 1 .. n : i < j => i + 1 < j + 1
        OBVIOUS
    <2>4. \A i, j \in 1 .. n : i < j => RankIn(epoch, q[i + 1].ver) <= RankIn(epoch, q[j + 1].ver)
        BY <1>3, <2>3 DEF Ordered
    <2> QED BY <1>1, <1>3, <1>6, <2>2, <2>4 DEF Ordered, n
<1>12. Published'
    <2>1. \A d \in Clients : Publishing(d) => RankIn(epoch, disp'.shown) <= cl[d].pub
        BY <1>3, <1>4, <1>5, <1>6, <1>7 DEF Published
    <2> QED BY <1>1, <1>3, <1>7, <2>1 DEF Published, Publishing, n
<1>13. Called'
    <2>1. \A i \in 1 .. n : q[i + 1].from # None => q[i + 1].from # c
        BY <1>3 DEF Called, c
    <2>2. \A i \in 1 .. n : q[i + 1].from # None =>
              IsCall(epoch, cl'[q[i + 1].from], q[i + 1])
        BY <1>3, <1>4, <1>7, <2>1 DEF Called
    <2>3. \A i, j \in 1 .. n : i + 1 = j + 1 => i = j
        OBVIOUS
    <2>4. \A i, j \in 1 .. n : q[i + 1].from = q[j + 1].from /\ q[i + 1].from # None => i = j
        BY <1>3, <2>3 DEF Called
    <2> QED BY <1>1, <1>3, <2>2, <2>4 DEF Called, n
<1>14. Answered'
    <2> SUFFICES ASSUME NEW d \in Clients
                 PROVE  /\ \/ cl'[d].pc \in {"ask", "await"}
                           \/ cl'[d].pc = "wait" /\ cl'[d].ans = "committed"
                           => cl'[d].pub <= RankIn(epoch, disp'.shown)
                        /\ cl'[d].pc = "await" /\ cl'[d].ans = "presented"
                           => cl'[d].pub <= RankIn(epoch, disp'.pres)
        BY <1>1 DEF Answered
    <2>1. cl[d].pc \in {"ask", "await"} => cl'[d].pub <= RankIn(epoch, disp'.shown)
        BY <1>5, <1>6, <1>7 DEF Answered
    <2>2. CASE d # c
        BY <1>5, <1>6, <1>7, <2>1, <2>2 DEF Answered
    <2>3. CASE d = c
        <3>1. q[1].from = d /\ d # None
            BY <2>3, RelayAssumption DEF c
        <3>2. IsCall(epoch, cl[d], q[1])
            BY <1>3, <3>1 DEF Called
        <3>3. a = "committed" => cl[d].pub <= RankIn(epoch, disp'.shown)
            <4>1. RankIn(epoch, q[1].ver) = cl[d].pub
                BY <1>5, <1>7, <3>2, RelayAssumption DEF IsCall, Ver, RankIn, Unversioned
            <4> QED BY <1>7, <4>1
        <3>4. a = "presented" => cl[d].pub <= RankIn(epoch, disp'.pres)
            BY <3>2 DEF IsCall, Answered
        <3> QED BY <1>7, <2>1, <2>3, <3>3, <3>4
    <2> QED BY <2>2, <2>3
<1>15. scene'.presented <= RankIn(epoch', disp'.pres)
    BY <1>1, <1>5, <1>6
<1> QED BY <1>8, <1>9, <1>10, <1>11, <1>12, <1>13, <1>14, <1>15

-----------------------------------------------------------------------------
(* What a thread is told *)

Gens(W) == {w.gen : w \in W}

\* The client is told of generations it waits for, up to the one presented.
LEMMA NotifyFacts ==
    ASSUME NEW c \in Clients, NEW r \in Threads, NEW g \in Nat, Notify(c, r, g),
           told \in [Clients -> SUBSET Nat]
    PROVE  \E x \in Threads, G \in SUBSET Gens(r.wants) :
               /\ Become(c, x) /\ x.pc = r.pc /\ x.own = r.own /\ x.wants \subseteq r.wants
               /\ told' = [told EXCEPT ![c] = @ \cup G] /\ told' \in [Clients -> SUBSET Nat]
               /\ \A h \in G : h <= g
<1> DEFINE R == Released(r.wants, g)
           x == [r EXCEPT !.wants = @ \ R]
           G == {w.gen : w \in {y \in R : Presents(y, g)}}
<1>1. R \subseteq r.wants
    BY DEF Released
<1>2. \A w \in R : w.gen \in Nat /\ w.gen <= g
    BY DEF Released, Threads, Want
<1>3. x \in Threads /\ x.pc = r.pc /\ x.own = r.own /\ x.wants \subseteq r.wants
    <2> HIDE DEF R
    <2> QED BY <1>1 DEF Threads
<1>4. Become(c, x) /\ told' = [told EXCEPT ![c] = @ \cup G]
    BY DEF Notify
<1>5. told' \in [Clients -> SUBSET Nat]
    <2>1. G \subseteq Nat
        BY <1>2
    <2> HIDE DEF G
    <2> QED BY <1>4, <2>1
<1>6. G \subseteq Gens(r.wants) /\ \A h \in G : h <= g
    <2> HIDE DEF R
    <2> QED BY <1>1, <1>2 DEF Gens
<1> HIDE DEF R, x, G
<1> QED BY <1>3, <1>4, <1>5, <1>6

\* A publication that succeeds ends for the thread with what it may be told: its
\* own commit, or all that is presented.
LEMMA ReturnFacts ==
    ASSUME RelayInv, NEW c \in Clients, NEW g \in Nat, Return(c, g)
    PROVE  \E x \in Threads, G \in SUBSET Gens(cl[c].wants) :
               /\ Become(c, x) /\ x.pc \in {"off", "idle"} /\ x.own <= cl[c].own
               /\ x.wants \subseteq cl[c].wants
               /\ told' = [told EXCEPT ![c] = @ \cup G] /\ told' \in [Clients -> SUBSET Nat]
               /\ \A h \in G : h <= IF cl[c].why = "commit" THEN cl[c].own ELSE g
<1> USE DEF RelayInv
<1>1. cl[c] \in Threads /\ told \in [Clients -> SUBSET Nat]
    BY DEF Shape
<1>2. cl[c].own \in Nat /\ cl[c].seen \in Nat
    BY <1>1 DEF Threads
<1>3. CASE cl[c].why = "leave"
    <2>1. Become(c, NewClient) /\ told' = told
        BY <1>3 DEF Return
    <2>2. NewClient \in Threads
        BY DEF NewClient, Threads
    <2>3. NewClient.pc = "off" /\ NewClient.own = 0 /\ NewClient.wants = {}
        BY DEF NewClient
    <2>4. told' = [told EXCEPT ![c] = @ \cup {}]
        BY <1>1, <2>1
    <2>5. NewClient.own <= cl[c].own /\ {} \in SUBSET Gens(cl[c].wants)
        BY <1>2, <2>3
    <2> WITNESS NewClient \in Threads, {} \in SUBSET Gens(cl[c].wants)
    <2> QED BY <1>1, <2>1, <2>3, <2>4, <2>5
<1>4. CASE cl[c].why = "commit"
    <2> DEFINE r == [cl[c] EXCEPT !.pc = "idle", !.seen = cl[c].own, !.ans = None]
    <2>1. /\ r \in Threads /\ r.pc = "idle" /\ r.own = cl[c].own /\ r.wants = cl[c].wants
        BY <1>1, <1>2 DEF Threads
    <2>2. Notify(c, r, cl[c].own)
        BY <1>4 DEF Return
    <2> HIDE DEF r
    <2>3. PICK x \in Threads, G \in SUBSET Gens(r.wants) :
               /\ Become(c, x) /\ x.pc = r.pc /\ x.own = r.own /\ x.wants \subseteq r.wants
               /\ told' = [told EXCEPT ![c] = @ \cup G] /\ told' \in [Clients -> SUBSET Nat]
               /\ \A h \in G : h <= cl[c].own
        BY <1>1, <1>2, <2>1, <2>2, NotifyFacts
    <2>4. G \in SUBSET Gens(cl[c].wants) /\ x.own <= cl[c].own /\ x.pc \in {"off", "idle"}
        BY <1>2, <2>1, <2>3
    <2> USE <2>4
    <2> WITNESS x \in Threads, G \in SUBSET Gens(cl[c].wants)
    <2> QED BY <1>4, <2>1, <2>3, <2>4
<1>5. CASE cl[c].why \notin {"leave", "commit"}
    <2> DEFINE r == [cl[c] EXCEPT !.pc = "idle", !.seen = IF @ > g THEN @ ELSE g, !.ans = None]
    <2>1. /\ r \in Threads /\ r.pc = "idle" /\ r.own = cl[c].own /\ r.wants = cl[c].wants
        BY <1>1, <1>2 DEF Threads
    <2>2. Notify(c, r, g)
        BY <1>5 DEF Return
    <2> HIDE DEF r
    <2>3. PICK x \in Threads, G \in SUBSET Gens(r.wants) :
               /\ Become(c, x) /\ x.pc = r.pc /\ x.own = r.own /\ x.wants \subseteq r.wants
               /\ told' = [told EXCEPT ![c] = @ \cup G] /\ told' \in [Clients -> SUBSET Nat]
               /\ \A h \in G : h <= g
        BY <1>1, <2>1, <2>2, NotifyFacts
    <2>4. G \in SUBSET Gens(cl[c].wants) /\ x.own <= cl[c].own /\ x.pc \in {"off", "idle"}
        BY <1>2, <2>1, <2>3
    <2> USE <2>4
    <2> WITNESS x \in Threads, G \in SUBSET Gens(cl[c].wants)
    <2> QED BY <1>5, <2>1, <2>3, <2>4
<1> QED BY <1>3, <1>4, <1>5

-----------------------------------------------------------------------------
(* One lemma for the actions of a thread *)

\* Generations are begun by commits and by clients that leave.
LEMMA CommitBounded ==
    ASSUME RelayInv, NEW c \in Clients, NEW x, scene.gen + 1 <= MaxGen,
           part' = [part EXCEPT ![c] = x], scene'.gen = scene.gen + 1
    PROVE  Bounded'
<1> USE DEF RelayInv
<1>1. part \in [Clients -> Nat \cup {None}] /\ scene.gen \in Nat /\ MaxGen \in Nat
    BY RelayAssumption DEF Shape, Scenes
<1>2. Parts' \subseteq Parts \cup {c}
    BY <1>1 DEF Parts
<1>3. /\ IsFiniteSet(Parts \cup {c}) /\ Cardinality(Parts) \in Nat
      /\ Cardinality(Parts \cup {c}) \in Nat
      /\ Cardinality(Parts \cup {c}) <= Cardinality(Parts) + 1
    <2>1. IsFiniteSet(Parts)
        BY DEF Bounded
    <2>2. /\ IsFiniteSet(Parts \cup {c})
          /\ \/ Cardinality(Parts \cup {c}) = Cardinality(Parts)
             \/ Cardinality(Parts \cup {c}) = Cardinality(Parts) + 1
        BY <2>1, FS_AddElement
    <2> QED BY <2>1, <2>2, FS_CardinalityType
<1>4. /\ IsFiniteSet(Parts') /\ Cardinality(Parts') <= Cardinality(Parts \cup {c})
      /\ Cardinality(Parts') \in Nat
    BY <1>2, <1>3, FS_Subset, FS_CardinalityType
<1>5. Cardinality(Parts') <= scene.gen + 1
    BY <1>1, <1>3, <1>4 DEF Bounded
<1> QED BY <1>1, <1>4, <1>5 DEF Bounded

LEMMA LeaveBounded ==
    ASSUME RelayInv, NEW c \in Clients, part' = [part EXCEPT ![c] = None],
           scene'.gen = IF part[c] = None THEN scene.gen ELSE scene.gen + 1
    PROVE  Bounded'
<1> USE DEF RelayInv
<1>1. /\ part \in [Clients -> Nat \cup {None}] /\ scene.gen \in Nat
      /\ IsFiniteSet(Parts) /\ Cardinality(Parts) \in Nat
    BY FS_CardinalityType DEF Shape, Scenes, Bounded
<1>2. CASE part[c] = None
    <2>1. Parts' = Parts
        BY <1>1, <1>2 DEF Parts
    <2> QED BY <1>2, <2>1 DEF Bounded
<1>3. CASE part[c] # None
    <2>1. Parts' = Parts \ {c} /\ c \in Parts
        BY <1>1, <1>3 DEF Parts
    <2>2. IsFiniteSet(Parts \ {c}) /\ Cardinality(Parts \ {c}) = Cardinality(Parts) - 1
        BY <1>1, <2>1, FS_RemoveElement
    <2>3. Cardinality(Parts \ {c}) \in Nat
        BY <2>2, FS_CardinalityType
    <2> QED BY <1>1, <1>3, <2>1, <2>2, <2>3, RelayAssumption DEF Bounded
<1> QED BY <1>2, <1>3

\* Nothing of the scene is changed.
LEMMA IdleStep ==
    ASSUME RelayInv, NEW c \in Clients, NEW r \in Threads, Become(c, r),
           ~Publishing(c), r.pc \notin {"send", "wait", "ask", "await"},
           r.wants \subseteq cl[c].wants, r.own <= cl[c].own,
           scene' = scene \/ scene' = [scene EXCEPT !.pending = 0],
           told' \in [Clients -> SUBSET Nat],
           UNCHANGED <<epoch, spent, part, permit, compd, disp>>
    PROVE  RelayInv'
<1>1. /\ scene \in Scenes /\ scene.gen \in Nat /\ scene.pending <= scene.gen
      /\ cl[c].own <= scene.gen /\ cl[c].own \in Nat /\ r.own \in Nat
    BY DEF RelayInv, Shape, Scenes, Threads, Counted
<1>2. /\ scene' \in Scenes /\ scene'.gen = scene.gen /\ scene'.pending <= scene'.gen
      /\ scene'.presented = scene.presented
    BY <1>1 DEF Scenes
<1>3. IsFiniteSet(Frames(r.wants)) /\ Cardinality(Frames(r.wants)) <= MaxCallbacks
    BY FewerFrames DEF RelayInv, Budgeted
<1>4. Bounded'
    BY <1>2 DEF RelayInv, Bounded, Parts
<1>5. part' \in [Clients -> Nat \cup {None}]
    BY DEF RelayInv, Shape
<1>6. \A d \in Clients : part'[d] # None => part'[d] <= scene'.gen
    BY <1>2 DEF RelayInv, Counted
<1>7. r.own <= scene'.gen /\ scene.gen <= scene'.gen
    BY <1>1, <1>2
<1> QED BY <1>2, <1>3, <1>4, <1>5, <1>6, <1>7, ThreadStep

LEMMA NewClientFacts ==
    /\ NewClient \in Threads /\ NewClient.pc = "off" /\ NewClient.own = 0
    /\ NewClient.wants = {}
BY DEF NewClient, Threads

LEMMA ConnectStep ==
    ASSUME RelayInv, NEW c \in Clients, Connect(c)
    PROVE  RelayInv'
<1> DEFINE r == [NewClient EXCEPT !.pc = "idle"]
<1>1. r \in Threads /\ r.pc = "idle" /\ r.own = 0 /\ r.wants = {}
    BY NewClientFacts DEF Threads
<1>2. cl[c].own \in Nat /\ cl[c].pc = "off" /\ ~Publishing(c)
    BY DEF RelayInv, Shape, Threads, Connect, Publishing
<1>3. Become(c, r)
    BY DEF Connect
<1>4. told' \in [Clients -> SUBSET Nat]
    BY DEF Connect, RelayInv, Shape
<1> HIDE DEF r
<1> QED BY <1>1, <1>2, <1>3, <1>4, IdleStep DEF Connect

LEMMA DestroyStep ==
    ASSUME RelayInv, NEW c \in Clients, DestroySurface(c)
    PROVE  RelayInv'
<1> DEFINE r == [cl[c] EXCEPT !.wants = {}]
<1>1. cl[c] \in Threads /\ cl[c].own \in Nat /\ cl[c].pc = "idle" /\ ~Publishing(c)
    BY DEF RelayInv, Shape, Threads, DestroySurface, Publishing
<1>2. r \in Threads /\ r.pc = "idle" /\ r.own = cl[c].own /\ r.wants = {}
    BY <1>1 DEF Threads
<1>3. Become(c, r)
    BY DEF DestroySurface
<1>4. told' \in [Clients -> SUBSET Nat]
    BY DEF DestroySurface, RelayInv, Shape
<1> HIDE DEF r
<1> QED BY <1>1, <1>2, <1>3, <1>4, IdleStep DEF DestroySurface

LEMMA RetryStep ==
    ASSUME RelayInv, NEW c \in Clients, Retry(c)
    PROVE  RelayInv'
<1> DEFINE r == [cl[c] EXCEPT !.pc = "want", !.why = "retry"]
<1>1. cl[c] \in Threads /\ cl[c].own \in Nat /\ cl[c].pc = "idle" /\ ~Publishing(c)
    BY DEF RelayInv, Shape, Threads, Retry, Publishing
<1>2. r \in Threads /\ r.pc = "want" /\ r.own = cl[c].own /\ r.wants = cl[c].wants
    BY <1>1 DEF Threads
<1>3. Become(c, r)
    BY DEF Retry
<1>4. told' \in [Clients -> SUBSET Nat]
    BY DEF Retry, RelayInv, Shape
<1> HIDE DEF r
<1> QED BY <1>1, <1>2, <1>3, <1>4, IdleStep DEF Retry

LEMMA ObserveStep ==
    ASSUME RelayInv, NEW c \in Clients, Observe(c)
    PROVE  RelayInv'
<1> DEFINE r == [cl[c] EXCEPT !.seen = scene.presented]
<1>1. /\ cl[c] \in Threads /\ cl[c].own \in Nat /\ cl[c].pc = "idle" /\ ~Publishing(c)
      /\ scene.presented \in Nat /\ told \in [Clients -> SUBSET Nat]
    BY DEF RelayInv, Shape, Threads, Scenes, Observe, Publishing
<1>2. r \in Threads /\ r.pc = "idle" /\ r.own = cl[c].own /\ r.wants = cl[c].wants
    BY <1>1 DEF Threads
<1>3. Notify(c, r, scene.presented)
    BY DEF Observe
<1> HIDE DEF r
<1>4. PICK x \in Threads :
          /\ Become(c, x) /\ x.pc = r.pc /\ x.own = r.own /\ x.wants \subseteq r.wants
          /\ told' \in [Clients -> SUBSET Nat]
    BY <1>1, <1>2, <1>3, NotifyFacts
<1> QED BY <1>1, <1>2, <1>4, IdleStep DEF Observe

LEMMA UseCachedStep ==
    ASSUME RelayInv, NEW c \in Clients, UseCached(c)
    PROVE  RelayInv'
<1>1. scene.presented \in Nat /\ cl[c].pc = "want" /\ ~Publishing(c)
    BY DEF RelayInv, Shape, Scenes, UseCached, Publishing
<1>2. PICK x \in Threads :
          /\ Become(c, x) /\ x.pc \in {"off", "idle"} /\ x.own <= cl[c].own
          /\ x.wants \subseteq cl[c].wants /\ told' \in [Clients -> SUBSET Nat]
    BY <1>1, ReturnFacts DEF UseCached
<1> QED BY <1>1, <1>2, IdleStep DEF UseCached

LEMMA CommitStep ==
    ASSUME RelayInv, NEW c \in Clients, NEW first \in BOOLEAN, NEW pixels \in BOOLEAN,
           Commit(c, first, pixels)
    PROVE  RelayInv'
<1> DEFINE g == scene.gen + 1
           W == cl[c].wants \cup Wants(g, first)
           full == [cl[c] EXCEPT !.pc = "dying", !.wants = {}]
           kept == [cl[c] EXCEPT !.pc = "want", !.why = "commit", !.own = g, !.wants = W]
<1>1. /\ cl[c] \in Threads /\ cl[c].own \in Nat /\ cl[c].pc = "idle" /\ ~Publishing(c)
      /\ cl[c].wants \subseteq Want
    BY DEF RelayInv, Shape, Threads, Commit, Publishing
<1>2. /\ scene \in Scenes /\ scene.gen \in Nat /\ scene.pending \in Nat /\ g <= MaxGen
      /\ scene.pending <= scene.gen /\ cl[c].own <= scene.gen
    BY DEF RelayInv, Shape, Scenes, Counted, Commit
<1>3. W \subseteq Want
    BY <1>1, <1>2 DEF Wants, Want
<1>4. full \in Threads /\ full.pc = "dying" /\ full.own = cl[c].own /\ full.wants = {}
    BY <1>1 DEF Threads
<1>5. kept \in Threads /\ kept.pc = "want" /\ kept.own = g /\ kept.wants = W
    <2>1. g \in Nat
        BY <1>2
    <2> HIDE DEF W, g
    <2> QED BY <1>1, <1>3, <2>1 DEF Threads
<1>6. /\ scene' \in Scenes /\ scene'.gen = g /\ scene'.pending <= g
      /\ scene'.presented = scene.presented /\ scene.gen <= g /\ cl[c].own <= g
    BY <1>1, <1>2 DEF Commit, Scenes
<1>7. PICK x \in Nat : x <= g /\ part' = [part EXCEPT ![c] = x]
    <2>1. /\ part' = [part EXCEPT ![c] = IF pixels THEN g ELSE 0]
          /\ g \in Nat /\ 0 <= g /\ g <= g
        BY <1>2 DEF Commit
    <2> HIDE DEF g
    <2>2. CASE pixels
        BY <2>1, <2>2
    <2>3. CASE ~pixels
        BY <2>1, <2>3
    <2> QED BY <2>2, <2>3
<1>8. Bounded'
    BY <1>2, <1>6, <1>7, CommitBounded
<1>9. part' \in [Clients -> Nat \cup {None}] /\ \A d \in Clients : part'[d] # None => part'[d] <= g
    <2>1. part \in [Clients -> Nat \cup {None}] /\ \A d \in Clients : part[d] # None => part[d] <= scene.gen
        BY DEF RelayInv, Shape, Counted
    <2>2. \A d \in Clients : part[d] # None => part[d] <= g
        BY <1>2, <2>1
    <2> QED BY <1>7, <2>1, <2>2
<1>10. /\ told' \in [Clients -> SUBSET Nat]
       /\ UNCHANGED <<epoch, spent, permit, compd, disp>>
    BY DEF RelayInv, Shape, Commit
<1>11. CASE Cardinality(Frames(cl[c].wants)) >= MaxCallbacks
    <2>1. Become(c, full)
        BY <1>11 DEF Commit
    <2> HIDE DEF full
    <2> QED BY <1>1, <1>4, <1>6, <1>8, <1>9, <1>10, <2>1, NoFrames, ThreadStep
<1>12. CASE ~(Cardinality(Frames(cl[c].wants)) >= MaxCallbacks)
    <2>1. Become(c, kept)
        BY <1>12 DEF Commit
    <2>2. IsFiniteSet(Frames(W)) /\ Cardinality(Frames(W)) <= MaxCallbacks
        BY <1>12, OneFrameMore DEF RelayInv, Budgeted
    <2>3. kept.own <= scene'.gen
        BY <1>2, <1>5, <1>6
    <2> HIDE DEF kept, W
    <2> QED BY <1>1, <1>5, <1>6, <1>8, <1>9, <1>10, <2>1, <2>2, <2>3, ThreadStep
<1> QED BY <1>11, <1>12

LEMMA LeaveStep ==
    ASSUME RelayInv, NEW c \in Clients, Leave(c)
    PROVE  RelayInv'
<1> DEFINE r == [NewClient EXCEPT !.pc = "want", !.why = "leave"]
<1>1. r \in Threads /\ r.pc = "want" /\ r.own = 0 /\ r.wants = {}
    BY NewClientFacts DEF Threads
<1>2. ~Publishing(c)
    BY DEF Leave, Publishing
<1>3. /\ scene \in Scenes /\ scene.gen \in Nat /\ scene.pending \in Nat /\ scene.pending <= scene.gen
      /\ part \in [Clients -> Nat \cup {None}]
      /\ \A d \in Clients : part[d] # None => part[d] <= scene.gen
    BY DEF RelayInv, Shape, Scenes, Counted
<1>4. /\ scene' \in Scenes /\ scene'.presented = scene.presented /\ scene'.pending = scene.pending
      /\ scene'.gen = IF part[c] = None THEN scene.gen ELSE scene.gen + 1
    BY <1>3 DEF Leave, Scenes
<1>5. scene'.gen \in Nat /\ scene.gen <= scene'.gen /\ scene'.pending <= scene'.gen /\ 0 <= scene'.gen
    BY <1>3, <1>4
<1>6. part' = [part EXCEPT ![c] = None]
    BY DEF Leave
<1>7. Bounded'
    BY <1>4, <1>6, LeaveBounded
<1>8. part' \in [Clients -> Nat \cup {None}] /\ \A d \in Clients : part'[d] # None => part'[d] <= scene'.gen
    <2>1. \A d \in Clients : part[d] # None => part[d] <= scene'.gen
        BY <1>3, <1>4
    <2> QED BY <1>3, <1>6, <2>1
<1>9. /\ Become(c, r) /\ told' \in [Clients -> SUBSET Nat]
      /\ UNCHANGED <<epoch, spent, permit, compd, disp>>
    BY DEF RelayInv, Shape, Leave
<1> HIDE DEF r
<1> QED BY <1>1, <1>2, <1>4, <1>5, <1>7, <1>8, <1>9, NoFrames, ThreadStep

LEMMA SucceedStep ==
    ASSUME RelayInv, NEW c \in Clients, Succeed(c)
    PROVE  RelayInv'
<1> DEFINE g == cl[c].pub
           p == IF g >= scene.presented THEN g ELSE scene.presented
<1>1. cl[c] \in Threads /\ g \in Nat /\ cl[c].pc = "await" /\ cl[c].ans = "presented" /\ Publishing(c)
    BY DEF RelayInv, Shape, Threads, Succeed, Publishing
<1>2. /\ scene \in Scenes /\ scene.presented \in Nat /\ scene.pending \in Nat /\ scene.gen \in Nat
      /\ scene.pending <= scene.gen
    BY DEF RelayInv, Shape, Scenes, Counted
<1>3. p \in Nat /\ p <= Rank(disp.pres)
    BY <1>1, <1>2 DEF RelayInv, Answered
<1>4. /\ scene' \in Scenes /\ scene'.gen = scene.gen /\ scene'.pending <= scene.gen
      /\ scene'.presented = p
    <2> DEFINE d == IF scene.pending <= g THEN 0 ELSE scene.pending
    <2>1. scene' = [scene EXCEPT !.pending = d, !.presented = p, !.event = TRUE]
        BY DEF Succeed
    <2>2. d \in Nat /\ d <= scene.gen
        BY <1>2
    <2> HIDE DEF p, d
    <2> QED BY <1>2, <1>3, <2>1, <2>2 DEF Scenes
<1>5. Return(c, p)
    BY DEF Succeed
<1> HIDE DEF p, g
<1>6. PICK x \in Threads :
          /\ Become(c, x) /\ x.pc \in {"off", "idle"} /\ x.own <= cl[c].own
          /\ x.wants \subseteq cl[c].wants /\ told' \in [Clients -> SUBSET Nat]
    BY <1>3, <1>5, ReturnFacts
<1>7. permit' = None /\ UNCHANGED <<epoch, spent, part, compd, disp>> /\ cl[c].ans # None
    BY <1>1, RelayAssumption DEF Succeed
<1> QED BY <1>1, <1>3, <1>4, <1>6, <1>7, EndStep

\* A publication that fails may be kept for a retry.
LEMMA FailsFacts ==
    ASSUME RelayInv, NEW c \in Clients, Publishing(c), Fails(c)
    PROVE  /\ scene' \in Scenes /\ scene'.gen = scene.gen /\ scene'.pending <= scene.gen
           /\ scene'.presented = scene.presented /\ permit' = None
           /\ \E r \in Threads :
                  /\ Become(c, r) /\ r.pc \notin {"send", "wait", "ask", "await"}
                  /\ r.wants \subseteq cl[c].wants /\ r.own <= cl[c].own
<1>1. /\ scene \in Scenes /\ scene.pending \in Nat /\ scene.gen \in Nat
      /\ scene.pending <= scene.gen
    BY DEF RelayInv, Shape, Scenes, Counted
<1>2. cl[c] \in Threads /\ cl[c].pub \in Nat /\ cl[c].pub <= scene.gen /\ cl[c].own \in Nat
    BY DEF RelayInv, Shape, Threads, Published
<1>3. /\ scene' \in Scenes /\ scene'.gen = scene.gen /\ scene'.pending <= scene.gen
      /\ scene'.presented = scene.presented /\ permit' = None
    BY <1>1, <1>2 DEF Fails, Stored, Scenes
<1>4. CASE cl[c].why = "leave"
    BY <1>2, <1>3, <1>4, NewClientFacts DEF Fails
<1>5. CASE cl[c].why # "leave"
    <2> DEFINE r == [cl[c] EXCEPT !.pc = "idle", !.ans = None]
    <2>1. r \in Threads /\ r.pc = "idle" /\ r.wants = cl[c].wants /\ r.own = cl[c].own
        BY <1>2 DEF Threads
    <2>2. Become(c, r)
        BY <1>5 DEF Fails
    <2> HIDE DEF r
    <2> QED BY <1>2, <1>3, <2>1, <2>2
<1> QED BY <1>4, <1>5

LEMMA TimeOutStep ==
    ASSUME RelayInv, NEW c \in Clients, TimeOut(c)
    PROVE  RelayInv'
<1>1. Publishing(c) /\ Fails(c) /\ compd' = [compd EXCEPT !.q = Orphaned(@, c)]
    BY DEF TimeOut, Publishing
<1>2. told' \in [Clients -> SUBSET Nat] /\ UNCHANGED <<epoch, spent, part, disp>>
    BY DEF TimeOut, RelayInv, Shape
<1>3. scene.presented <= Rank(disp.pres)
    BY DEF RelayInv
<1> QED BY <1>1, <1>2, <1>3, FailsFacts, EndStep

LEMMA ConnectionLostStep ==
    ASSUME RelayInv, NEW c \in Clients, ConnectionLost(c)
    PROVE  RelayInv'
<1>1. Publishing(c) /\ Fails(c) /\ compd' = compd /\ cl[c].ans # None
    BY RelayAssumption DEF ConnectionLost, Publishing
<1>2. told' \in [Clients -> SUBSET Nat] /\ UNCHANGED <<epoch, spent, part, disp>>
    BY DEF ConnectionLost, RelayInv, Shape
<1>3. scene.presented <= Rank(disp.pres)
    BY DEF RelayInv
<1> QED BY <1>1, <1>2, <1>3, FailsFacts, EndStep

LEMMA RejectedStep ==
    ASSUME RelayInv, NEW c \in Clients, Rejected(c)
    PROVE  RelayInv'
<1>1. Publishing(c) /\ compd' = compd /\ cl[c].ans # None /\ permit' = None /\ scene' = scene
    BY RelayAssumption DEF Rejected, Publishing
<1>2. told' \in [Clients -> SUBSET Nat] /\ UNCHANGED <<epoch, spent, part, disp>>
    BY DEF Rejected, RelayInv, Shape
<1>3. /\ scene.presented <= Rank(disp.pres) /\ scene \in Scenes /\ scene.pending <= scene.gen
      /\ cl[c] \in Threads /\ cl[c].own \in Nat
    BY DEF RelayInv, Shape, Counted, Threads
<1>4. \E r \in Threads :
          /\ Become(c, r) /\ r.pc \notin {"send", "wait", "ask", "await"}
          /\ r.wants \subseteq cl[c].wants /\ r.own <= cl[c].own
    <2>1. CASE cl[c].why = "leave"
        BY <1>3, <2>1, NewClientFacts DEF Rejected
    <2>2. CASE cl[c].why # "leave"
        <3> DEFINE r == [cl[c] EXCEPT !.pc = "dying", !.ans = None]
        <3>1. r \in Threads /\ r.pc = "dying" /\ r.wants = cl[c].wants /\ r.own = cl[c].own
            BY <1>3 DEF Threads
        <3>2. Become(c, r)
            BY <2>2 DEF Rejected
        <3> HIDE DEF r
        <3> QED BY <1>3, <3>1, <3>2
    <2> QED BY <2>1, <2>2
<1> QED BY <1>1, <1>2, <1>3, <1>4, EndStep

-----------------------------------------------------------------------------
(* compd's actions *)

\* What displayd has after it accepted a version.
LEMMA AcceptedFacts ==
    ASSUME disp \in Displays, NEW v \in Versions
    PROVE  Accepted(v) \in Displays /\ Accepted(v).shown = v /\ Accepted(v).pres = disp.pres
BY DEF Accepted, Displays

\* What compd has after it served a request, whatever it noted.
LEMMA ServedFacts ==
    ASSUME compd \in Relays, compd.q # <<>>
    PROVE  LET v == compd.q[1].ver
           IN  /\ Head(compd.q) = compd.q[1] /\ compd.q[1] \in Requests /\ v \in Versions
               /\ Served \in Relays /\ Served.q = Tail(compd.q)
               /\ note_forwarded(v) \in Relays /\ note_forwarded(v).q = Tail(compd.q)
               /\ defer_latest(v) \in Relays /\ defer_latest(v).q = Tail(compd.q)
<1> DEFINE v == compd.q[1].ver
           t == Tail(compd.q)
<1>1. compd.q \in Seq(Requests) /\ compd.floor \in Versions /\ compd.pending \in Versions \cup {None}
    BY DEF Relays
<1>2. t \in Seq(Requests) /\ Head(compd.q) = compd.q[1] /\ compd.q[1] \in Requests
    BY <1>1, QueueTail
<1>3. v \in Versions
    BY <1>2 DEF Requests
<1>4. Served = [compd EXCEPT !.q = t]
    BY DEF Served
<1>5. note_forwarded(v) =
          [floor |-> IF v # Unversioned /\ ~Older(v, compd.floor) THEN v ELSE compd.floor,
           pending |-> IF compd.pending # None /\ ~Older(v, compd.pending) THEN None ELSE compd.pending,
           q |-> t]
    BY DEF note_forwarded
<1>6. defer_latest(v) =
          [compd EXCEPT !.q = t,
                        !.pending = IF @ = None \/ ~Older(v, @) THEN v ELSE @]
    BY DEF defer_latest
<1> HIDE DEF v, t
<1>7. Served \in Relays /\ Served.q = t
    BY <1>2, <1>4 DEF Relays
<1>8. note_forwarded(v) \in Relays /\ note_forwarded(v).q = t
    BY <1>1, <1>2, <1>3, <1>5 DEF Relays
<1>9. defer_latest(v) \in Relays /\ defer_latest(v).q = t
    <2> DEFINE p == IF compd.pending = None \/ ~Older(v, compd.pending) THEN v ELSE compd.pending
    <2>1. p \in Versions \cup {None} /\ defer_latest(v) = [compd EXCEPT !.q = t, !.pending = p]
        BY <1>1, <1>3, <1>6
    <2> HIDE DEF p
    <2> QED BY <1>2, <2>1 DEF Relays
<1> QED BY <1>2, <1>3, <1>7, <1>8, <1>9 DEF v, t

LEMMA ServeAction ==
    ASSUME RelayInv, Serve
    PROVE  RelayInv'
<1> DEFINE v == compd.q[1].ver
<1>1. /\ compd \in Relays /\ disp \in Displays /\ compd.q # <<>>
      /\ disp.shown \in {disp.shown, v} /\ disp.pres \in {disp.pres, disp.shown}
    BY DEF RelayInv, Shape, Serve, Serves, Refuse, Forward, Defer, Feedback, FeedbackFails
<1>2. /\ Head(compd.q) = compd.q[1] /\ v \in Versions
      /\ Served \in Relays /\ Served.q = Tail(compd.q)
      /\ note_forwarded(v) \in Relays /\ note_forwarded(v).q = Tail(compd.q)
      /\ defer_latest(v) \in Relays /\ defer_latest(v).q = Tail(compd.q)
    BY <1>1, ServedFacts
<1>3. Accepted(v) \in Displays /\ Accepted(v).shown = v /\ Accepted(v).pres = disp.pres
    BY <1>1, <1>2, AcceptedFacts
<1>4. CASE Refuse
    <2>1. Answer("rejected") /\ compd' = Served /\ disp' = disp /\ UNCHANGED compdOnly
        BY <1>4 DEF Refuse
    <2> QED BY <1>1, <1>2, <2>1, ServeStep
<1>5. CASE Forward
    <2>1. UNCHANGED compdOnly /\ compd.q[1].kind = "commit"
        BY <1>2, <1>5 DEF Forward, Forwards, Serves
    <2>2. CASE scene_version_is_stale(v) /\ ~AlreadyThere(v)
        <3>1. Answer("rejected") /\ compd' = Served /\ disp' = disp
            BY <1>2, <1>5, <2>2 DEF Forward
        <3> QED BY <1>1, <1>2, <2>1, <3>1, ServeStep
    <2>3. CASE ~(scene_version_is_stale(v) /\ ~AlreadyThere(v))
        <3>1. /\ Answer("committed") /\ compd' = note_forwarded(v)
              /\ disp' = IF AlreadyThere(v) THEN disp ELSE Accepted(v)
            BY <1>2, <1>5, <2>3 DEF Forward
        <3>2. disp' \in Displays /\ disp'.shown = v /\ disp'.pres = disp.pres
            BY <1>1, <1>3, <3>1 DEF AlreadyThere
        <3> QED BY <1>1, <1>2, <2>1, <3>1, <3>2, ServeStep
    <2> QED BY <2>2, <2>3
<1>6. CASE Defer
    <2>1. /\ Answer("rejected") /\ compd' = defer_latest(v) /\ UNCHANGED compdOnly
          /\ disp' \in {disp, Accepted(v)}
        BY <1>2, <1>6 DEF Defer
    <2>2. disp' \in Displays /\ disp'.shown \in {disp.shown, v} /\ disp'.pres = disp.pres
        BY <1>1, <1>3, <2>1
    <2> QED BY <1>1, <1>2, <2>1, <2>2, ServeStep
<1>7. CASE Feedback
    <2>1. /\ Answer("presented") /\ compd' = Served /\ UNCHANGED compdOnly
          /\ disp' = [disp EXCEPT !.pres = disp.shown] /\ compd.q[1].kind = "feedback"
        BY <1>2, <1>7 DEF Feedback, Serves
    <2>2. disp' \in Displays /\ disp'.shown = disp.shown /\ disp'.pres = disp.shown
        BY <1>1, <2>1 DEF Displays
    <2> QED BY <1>1, <1>2, <2>1, <2>2, ServeStep
<1>8. CASE FeedbackFails
    <2>1. Answer("rejected") /\ compd' = Served /\ disp' = disp /\ UNCHANGED compdOnly
        BY <1>8 DEF FeedbackFails
    <2> QED BY <1>1, <1>2, <2>1, ServeStep
<1> QED BY <1>4, <1>5, <1>6, <1>7, <1>8 DEF Serve

-----------------------------------------------------------------------------
(* Restarts *)

\* displayd keeps what it shows.
LEMMA DisplayStep ==
    ASSUME RelayInv, DisplayDown \/ DisplayUp
    PROVE  RelayInv'
<1> USE DEF RelayInv, Rank
<1>1. disp \in Displays
    BY DEF Shape
<1>2. disp' \in Displays /\ disp'.shown = disp.shown /\ disp'.pres = disp.pres
    BY <1>1 DEF DisplayDown, DisplayUp, Displays
<1>3. UNCHANGED <<epoch, spent, scene, part, permit, cl, compd, told>>
    BY DEF DisplayDown, DisplayUp
<1>4. Shape' /\ Bounded' /\ Budgeted' /\ Counted'
    BY <1>2, <1>3 DEF Shape, Bounded, Parts, Budgeted, Counted
<1>5. Past' /\ Ordered'
    BY <1>2, <1>3 DEF Past, Known, Ordered
<1>6. Published' /\ Called' /\ Answered'
    BY <1>2, <1>3 DEF Published, Publishing, Called, Answered
<1> QED BY <1>2, <1>3, <1>4, <1>5, <1>6

\* compd forgets its queue; displayd may have accepted the head of it.
LEMMA CompdRestartsStep ==
    ASSUME RelayInv, CompdRestarts
    PROVE  RelayInv'
<1> USE VersionType DEF RelayInv, Rank
<1>1. UNCHANGED <<epoch, spent, scene, part, permit, told>>
    BY DEF CompdRestarts
<1>2. compd' = EmptyRelay
    BY DEF CompdRestarts
<1>3. EmptyRelay \in Relays /\ EmptyRelay.q = <<>> /\ Len(<<>>) = 0
    BY DEF EmptyRelay, Relays
<1>4. /\ cl' \in [Clients -> Threads]
      /\ \A d \in Clients :
             /\ cl'[d].pc = cl[d].pc /\ cl'[d].pub = cl[d].pub /\ cl'[d].own = cl[d].own
             /\ cl'[d].wants = cl[d].wants /\ cl'[d].why = cl[d].why /\ cl'[d].pub \in Nat
             /\ cl'[d].ans \in {cl[d].ans, "lost"}
    <2>1. \A d \in Clients : cl[d] \in Threads
        BY DEF Shape
    <2>2. PICK waiting : cl' = [d \in Clients |-> IF d \in waiting THEN [cl[d] EXCEPT !.ans = "lost"] ELSE cl[d]]
        BY DEF CompdRestarts
    <2>3. \A d \in Clients : [cl[d] EXCEPT !.ans = "lost"] \in Threads
        BY <2>1 DEF Threads
    <2> QED BY <2>1, <2>2, <2>3 DEF Threads
<1>5. /\ disp \in Displays /\ scene.gen \in Nat /\ scene.presented \in Nat /\ epoch \in Epochs
      /\ disp.shown \in Versions /\ disp.pres \in Versions /\ compd.q \in Seq(Requests)
    BY DEF Shape, Displays, Scenes, Relays
<1>6. /\ disp' \in Displays /\ disp'.pres = disp.pres
      /\ \/ disp'.shown = disp.shown
         \/ 1 \in 1 .. Len(compd.q) /\ disp'.shown = compd.q[1].ver
    <2>1. CASE disp' = disp
        BY <1>5, <2>1
    <2>2. CASE disp' # disp
        <3>1. disp' = Accepted(Head(compd.q).ver) /\ compd.q # <<>>
            BY <2>2 DEF CompdRestarts, Serves
        <3>2. 1 \in 1 .. Len(compd.q) /\ Head(compd.q) = compd.q[1] /\ compd.q[1] \in Requests
            BY <1>5, <3>1, QueueTail
        <3>3. compd.q[1].ver \in Versions
            BY <3>2 DEF Requests
        <3> QED BY <1>5, <3>1, <3>2, <3>3, AcceptedFacts
    <2> QED BY <2>1, <2>2
<1>7. disp'.shown \in Versions
    BY <1>6 DEF Displays
<1>8. /\ RankIn(epoch, disp.shown) <= RankIn(epoch, disp'.shown)
      /\ RankIn(epoch, disp'.shown) <= scene.gen
      /\ Known(disp'.shown)
    BY <1>5, <1>6 DEF Ordered, Past
<1>9. Shape' /\ Bounded' /\ Budgeted' /\ Counted'
    BY <1>1, <1>2, <1>3, <1>4, <1>6 DEF Shape, Bounded, Parts, Budgeted, Counted
<1>10. Past'
    BY <1>1, <1>2, <1>3, <1>6, <1>8 DEF Past, Known
<1>11. RankIn(epoch, disp.pres) <= RankIn(epoch, disp'.shown)
    BY <1>5, <1>7, <1>8 DEF Ordered
<1>12. Ordered'
    BY <1>1, <1>2, <1>3, <1>6, <1>8, <1>11 DEF Ordered
<1>13. Published'
    <2>1. \A d \in Clients : Publishing(d) => RankIn(epoch, disp'.shown) <= cl[d].pub
        BY <1>6 DEF Published
    <2> QED BY <1>1, <1>2, <1>3, <1>4, <2>1 DEF Published, Publishing
<1>14. Called'
    BY <1>2, <1>3 DEF Called
<1>15. Answered'
    <2>1. \A d \in Clients : cl[d].pub <= RankIn(epoch, disp.shown) => cl[d].pub <= RankIn(epoch, disp'.shown)
        BY <1>4, <1>5, <1>7, <1>8
    <2> QED BY <1>1, <1>4, <1>6, <2>1 DEF Answered
<1>16. scene'.presented <= RankIn(epoch', disp'.pres)
    BY <1>1, <1>6
<1> QED BY <1>9, <1>10, <1>12, <1>13, <1>14, <1>15, <1>16

\* A new waylandd begins with an epoch nobody has seen.
LEMMA WaylandRestartsStep ==
    ASSUME RelayInv, WaylandRestarts
    PROVE  RelayInv' /\ RankIn(epoch', disp.pres) = 0
<1> USE VersionType DEF RelayInv, Rank
<1>1. epoch' \in Epochs \ spent /\ spent' = spent \cup {epoch'}
    BY DEF WaylandRestarts
<1>2. /\ scene' = EmptyScene /\ permit' = None /\ part' = [c \in Clients |-> None]
      /\ cl' = [c \in Clients |-> NewClient] /\ told' = [c \in Clients |-> {}] /\ disp' = disp
    BY DEF WaylandRestarts
<1>3. compd \in Relays /\ compd.q \in Seq(Requests) /\ disp \in Displays
      /\ disp.shown \in Versions /\ disp.pres \in Versions
    BY DEF Shape, Relays, Displays
<1>4. /\ compd' \in Relays /\ Len(compd'.q) = Len(compd.q)
      /\ \A i \in 1 .. Len(compd.q) : compd'.q[i].ver = compd.q[i].ver /\ compd'.q[i].from = None
    <2> DEFINE q == compd.q
               o == [i \in DOMAIN q |-> [q[i] EXCEPT !.from = None]]
    <2>1. Len(q) \in Nat /\ DOMAIN q = 1 .. Len(q) /\ \A i \in 1 .. Len(q) : q[i] \in Requests
        BY <1>3
    <2>2. \A i \in 1 .. Len(q) : o[i] \in Requests /\ o[i].ver = q[i].ver /\ o[i].from = None
        BY <2>1 DEF Requests
    <2>3. o \in [1 .. Len(q) -> Requests]
        BY <2>1, <2>2
    <2>4. o \in Seq(Requests) /\ Len(o) = Len(q)
        BY <2>1, <2>3
    <2>5. compd' = [compd EXCEPT !.q = o]
        BY DEF WaylandRestarts
    <2> HIDE DEF o
    <2> QED BY <1>3, <2>2, <2>4, <2>5 DEF Relays
<1>5. \A v : Known(v) => RankIn(epoch', v) = 0
    BY <1>1, RelayAssumption DEF Known, RankIn
<1>6. /\ RankIn(epoch', disp.shown) = 0 /\ RankIn(epoch', disp.pres) = 0
      /\ \A i \in 1 .. Len(compd.q) : RankIn(epoch', compd.q[i].ver) = 0
    BY <1>5 DEF Past
<1>7. Shape'
    <2>1. EmptyScene \in Scenes
        BY DEF EmptyScene, Scenes
    <2>2. /\ part' \in [Clients -> Nat \cup {None}] /\ told' \in [Clients -> SUBSET Nat]
          /\ cl' \in [Clients -> Threads]
        BY <1>2, NewClientFacts
    <2>3. epoch' \in Epochs /\ spent' \subseteq Epochs /\ epoch' \in spent'
        BY <1>1 DEF Shape
    <2> QED BY <1>2, <1>3, <1>4, <2>1, <2>2, <2>3 DEF Shape
<1>8. Bounded'
    <2>1. Parts' = {}
        BY <1>2 DEF Parts
    <2>2. scene'.gen = 0 /\ IsFiniteSet(Parts') /\ Cardinality(Parts') = 0
        BY <1>2, <2>1, FS_EmptySet DEF EmptyScene
    <2> QED BY <2>2, RelayAssumption DEF Bounded
<1>9. Budgeted'
    BY <1>2, NewClientFacts, NoFrames DEF Budgeted
<1>10. Counted'
    BY <1>2, NewClientFacts DEF Counted, EmptyScene
<1>11. Past'
    BY <1>1, <1>2, <1>4 DEF Past, Known
<1>12. Ordered'
    BY <1>2, <1>4, <1>6 DEF Ordered, EmptyScene
<1>13. Published' /\ Answered'
    BY <1>2, NewClientFacts DEF Published, Publishing, Answered
<1>14. Called'
    BY <1>4 DEF Called
<1>15. scene'.presented <= RankIn(epoch', disp'.pres)
    BY <1>2, <1>6 DEF EmptyScene
<1> QED BY <1>6, <1>7, <1>8, <1>9, <1>10, <1>11, <1>12, <1>13, <1>14, <1>15

-----------------------------------------------------------------------------
(* The invariant *)

LEMMA InitRelay == Init => RelayInv
<1> SUFFICES ASSUME Init PROVE RelayInv
    OBVIOUS
<1> USE VersionType DEF Init
<1>1. Shape
    <2>1. EmptyScene \in Scenes /\ EmptyRelay \in Relays
        BY DEF EmptyScene, Scenes, EmptyRelay, Relays
    <2>2. disp \in Displays
        BY DEF Displays
    <2> QED BY <2>1, <2>2, NewClientFacts DEF Shape
<1>2. Bounded
    <2>1. Parts = {}
        BY DEF Parts
    <2>2. scene.gen = 0 /\ IsFiniteSet(Parts) /\ Cardinality(Parts) = 0
        BY <2>1, FS_EmptySet DEF EmptyScene
    <2> QED BY <2>2, RelayAssumption DEF Bounded
<1>3. Budgeted /\ Counted
    BY NewClientFacts, NoFrames DEF Budgeted, Counted, EmptyScene
<1>4. compd.q = <<>> /\ Len(compd.q) = 0
    BY DEF EmptyRelay
<1>5. Past
    BY <1>4 DEF Past, Known, Unversioned
<1>6. Ordered /\ scene.presented <= Rank(disp.pres)
    BY <1>4 DEF Ordered, Rank, EmptyScene
<1>7. Published /\ Answered
    BY NewClientFacts DEF Published, Publishing, Answered
<1>8. Called
    BY <1>4 DEF Called
<1> QED BY <1>1, <1>2, <1>3, <1>5, <1>6, <1>7, <1>8 DEF RelayInv

LEMMA StepKeepsRelay == RelayInv /\ [Next]_vars => RelayInv'
<1> SUFFICES ASSUME RelayInv, [Next]_vars PROVE RelayInv'
    OBVIOUS
<1>1. ASSUME NEW c \in Clients,
             \/ Connect(c) \/ DestroySurface(c) \/ Retry(c) \/ Observe(c) \/ Leave(c)
             \/ \E first, pixels \in BOOLEAN : Commit(c, first, pixels)
             \/ Publish(c) \/ TimeOut(c)
      PROVE  RelayInv'
    <2>1. CASE Connect(c) \/ DestroySurface(c) \/ Retry(c) \/ Observe(c) \/ Leave(c)
        BY <2>1, ConnectStep, DestroyStep, RetryStep, ObserveStep, LeaveStep
    <2>2. ASSUME NEW first \in BOOLEAN, NEW pixels \in BOOLEAN, Commit(c, first, pixels)
          PROVE  RelayInv'
        BY <2>2, CommitStep
    <2>3. CASE Publish(c)
        BY <2>3, UseCachedStep, AcquireStep, SendStep, CommittedStep, SucceedStep, RejectedStep,
           ConnectionLostStep DEF Publish
    <2>4. CASE TimeOut(c)
        BY <2>4, TimeOutStep
    <2> QED BY <1>1, <2>1, <2>2, <2>3, <2>4
<1>2. CASE DisplayDown \/ DisplayUp
    BY <1>2, DisplayStep
<1>3. CASE Serve
    BY <1>3, ServeAction
<1>4. CASE CompdRestarts
    BY <1>4, CompdRestartsStep
<1>5. CASE WaylandRestarts
    BY <1>5, WaylandRestartsStep
<1>6. CASE UNCHANGED vars
    <2>1. UNCHANGED <<epoch, spent, scene, part, permit, cl, compd, disp, told>>
        BY <1>6 DEF vars
    <2>2. Shape' /\ Bounded' /\ Budgeted' /\ Counted'
        BY <2>1 DEF RelayInv, Shape, Bounded, Parts, Budgeted, Counted
    <2>3. Past' /\ Ordered' /\ (scene.presented <= Rank(disp.pres))'
        BY <2>1 DEF RelayInv, Past, Known, Ordered, Rank
    <2>4. Published' /\ Called' /\ Answered'
        BY <2>1 DEF RelayInv, Published, Publishing, Called, Answered, Rank
    <2> QED BY <2>2, <2>3, <2>4 DEF RelayInv
<1> QED BY <1>1, <1>2, <1>3, <1>4, <1>5, <1>6 DEF Next

\* The inductive invariant of the relay holds in every state of every behavior.
THEOREM RelayInvariant == Spec => []RelayInv
BY InitRelay, StepKeepsRelay, PTL DEF Spec

\* What waylandd takes for presented is on the screen (commit_canonical_scene).
THEOREM PresentedIsShownHolds == Spec => []PresentedIsShown
<1>1. RelayInv => PresentedIsShown
    <2> SUFFICES ASSUME RelayInv PROVE PresentedIsShown
        OBVIOUS
    <2>1. /\ scene.gen \in Nat /\ scene.pending \in Nat /\ scene.presented \in Nat
          /\ scene.pending <= scene.gen /\ scene.presented <= scene.gen
        BY DEF RelayInv, Shape, Scenes, Counted
    <2>2. \A c \in Clients : part[c] # None => part[c] \in 0 .. scene.gen
        BY <2>1 DEF RelayInv, Shape, Counted
    <2>3. \A c \in Clients :
              /\ cl[c].pc \in {"off", "idle", "want", "send", "wait", "ask", "await", "dying"}
              /\ Cardinality(Frames(cl[c].wants)) <= MaxCallbacks
        BY DEF RelayInv, Shape, Threads, Budgeted
    <2>4. {disp.floor, disp.shown, disp.pres, compd.floor} \subseteq Versions
        BY DEF RelayInv, Shape, Displays, Relays
    <2>5. TypeOK
        BY <2>1, <2>2, <2>3, <2>4 DEF TypeOK
    <2>6. scene.presented > 0 => disp.pres[1] = epoch /\ disp.pres[2] >= scene.presented
        <3>1. disp.pres \in Versions /\ epoch \in Epochs
            BY DEF RelayInv, Shape, Displays
        <3>2. disp.pres[2] \in Nat
            BY <3>1, VersionType
        <3> QED BY <2>1, <3>2 DEF RelayInv, Rank, RankIn
    <2> QED BY <2>5, <2>6 DEF PresentedIsShown
<1> QED BY <1>1, RelayInvariant, PTL

-----------------------------------------------------------------------------
(* The promise about frames *)

\* What a client waits for, and the generation on the screen.
LEMMA OwedFacts ==
    ASSUME NEW c \in Clients, NEW x \in Threads, cl \in [Clients -> Threads], Become(c, x)
    PROVE  Owed' = [Owed EXCEPT ![c] = Gens(x.wants)]
<1>1. Owed \in [Clients -> SUBSET UNION {Gens(cl[d].wants) : d \in Clients}]
    BY DEF Owed, Gens
<1>2. /\ cl'[c] = x /\ \A d \in Clients : d # c => cl'[d] = cl[d]
    BY BecomeFacts
<1>3. \A d \in Clients : Owed'[d] = IF d = c THEN Gens(x.wants) ELSE Owed[d]
    BY <1>2 DEF Owed, Gens
<1>4. DOMAIN Owed = Clients /\ DOMAIN Owed' = Clients
    BY DEF Owed
<1>5. Owed' = [d \in Clients |-> Owed'[d]] /\ Owed = [d \in Clients |-> Owed[d]]
    BY DEF Owed
<1> QED BY <1>3, <1>4, <1>5

LEMMA TopFacts ==
    ASSUME RelayInv
    PROVE  /\ Top = RankIn(epoch, disp.pres) /\ Top \in Nat /\ scene.gen \in Nat
           /\ scene.presented <= Top /\ Top <= scene.gen
<1>1. disp.pres \in Versions /\ epoch \in Epochs /\ scene.gen \in Nat /\ disp.shown \in Versions
    BY DEF RelayInv, Shape, Displays, Scenes
<1>2. RankIn(epoch, disp.pres) \in Nat /\ RankIn(epoch, disp.shown) \in Nat
    BY <1>1, VersionType
<1> QED BY <1>1, <1>2 DEF RelayInv, Ordered, Rank, RankIn, Top

\* A client is told about some of what it waits for and what is on the screen.
LEMMA TellStep ==
    ASSUME RelayInv, NEW c \in Clients, NEW x \in Threads, NEW G \in SUBSET Gens(cl[c].wants),
           Become(c, x), x.wants \subseteq cl[c].wants, told' = [told EXCEPT ![c] = @ \cup G],
           \A h \in G : h <= Top, scene'.gen = scene.gen, UNCHANGED <<epoch, disp>>
    PROVE  Frame!Tell(c)
<1>1. Owed' = [Owed EXCEPT ![c] = Gens(x.wants)]
    BY OwedFacts DEF RelayInv, Shape
<1>2. Owed[c] = Gens(cl[c].wants)
    BY DEF Owed, Gens
<1>3. Gens(x.wants) \in SUBSET Owed[c]
    BY <1>2 DEF Gens
<1>4. G \in SUBSET {g \in Owed[c] : g <= Top}
    BY <1>2
<1>5. Top' = Top
    BY DEF Top
<1> QED BY <1>1, <1>3, <1>4, <1>5 DEF Frame!Tell

\* A client waits for nothing any more.
LEMMA DropStep ==
    ASSUME RelayInv, NEW c \in Clients, NEW x \in Threads, Become(c, x), x.wants = {},
           scene'.gen \in {scene.gen, scene.gen + 1}, UNCHANGED <<epoch, disp, told>>
    PROVE  Frame!Drop(c)
<1>1. Owed' = [Owed EXCEPT ![c] = Gens(x.wants)] /\ Gens(x.wants) = {}
    BY OwedFacts DEF RelayInv, Shape, Gens
<1>2. Top' = Top
    BY DEF Top
<1> QED BY <1>1, <1>2 DEF Frame!Drop

\* What a thread, compd or displayd does meanwhile is not seen.
LEMMA StutterStep ==
    ASSUME \A d \in Clients : cl'[d].wants = cl[d].wants, scene'.gen = scene.gen,
           UNCHANGED <<epoch, told>>, disp'.pres = disp.pres
    PROVE  UNCHANGED Frame!vars
<1>1. Owed' = Owed
    BY DEF Owed
<1>2. Top' = Top
    BY DEF Top
<1> QED BY <1>1, <1>2 DEF Frame!vars

\* A thread that goes on with what it waits for.
LEMMA KeepStep ==
    ASSUME RelayInv, NEW c \in Clients, NEW x, Become(c, x), x.wants = cl[c].wants,
           scene'.gen = scene.gen, UNCHANGED <<epoch, told>>, disp'.pres = disp.pres
    PROVE  UNCHANGED Frame!vars
<1>1. cl \in [Clients -> Threads]
    BY DEF RelayInv, Shape
<1>2. \A d \in Clients : cl'[d].wants = cl[d].wants
    BY <1>1 DEF Become
<1> QED BY <1>2, StutterStep

\* A publication that fails is not seen, unless its client is leaving.
LEMMA FailsNoFrame ==
    ASSUME RelayInv, NEW c \in Clients, Publishing(c), Fails(c), UNCHANGED <<epoch, disp, told>>
    PROVE  [Frame!Next]_(Frame!vars)
<1>1. scene'.gen = scene.gen
    BY FailsFacts
<1>2. CASE cl[c].why = "leave"
    <2>1. Frame!Drop(c)
        BY <1>1, <1>2, NewClientFacts, DropStep DEF Fails
    <2> QED BY <2>1 DEF Frame!Next
<1>3. CASE cl[c].why # "leave"
    <2> DEFINE r == [cl[c] EXCEPT !.pc = "idle", !.ans = None]
    <2>1. cl[c] \in Threads
        BY DEF RelayInv, Shape
    <2>2. Become(c, r) /\ r.wants = cl[c].wants
        BY <1>3, <2>1 DEF Fails, Threads
    <2> HIDE DEF r
    <2> QED BY <1>1, <2>2, KeepStep
<1> QED BY <1>2, <1>3

\* The steps of a thread as steps of the promise.
LEMMA ThreadImplements ==
    ASSUME RelayInv, NEW c \in Clients,
           \/ Connect(c) \/ DestroySurface(c) \/ Retry(c) \/ Observe(c) \/ Leave(c)
           \/ \E first, pixels \in BOOLEAN : Commit(c, first, pixels)
           \/ Publish(c) \/ TimeOut(c)
    PROVE  [Frame!Next]_(Frame!vars)
<1>1. /\ cl[c] \in Threads /\ cl[c].own \in Nat /\ cl[c].pub \in Nat /\ told \in [Clients -> SUBSET Nat]
      /\ scene \in Scenes /\ scene.gen \in Nat /\ scene.presented \in Nat
      /\ cl[c].own <= scene.gen
    BY DEF RelayInv, Shape, Threads, Scenes, Counted
<1>2. /\ Top \in Nat /\ scene.presented <= Top /\ Top = RankIn(epoch, disp.pres)
    BY TopFacts
<1>3. CASE Connect(c)
    <2>1. [NewClient EXCEPT !.pc = "idle"] \in Threads /\ [NewClient EXCEPT !.pc = "idle"].wants = {}
        BY NewClientFacts DEF Threads
    <2>2. Frame!Drop(c)
        BY <1>3, <2>1, DropStep DEF Connect
    <2> QED BY <2>2 DEF Frame!Next
<1>4. CASE DestroySurface(c)
    <2>1. [cl[c] EXCEPT !.wants = {}] \in Threads /\ [cl[c] EXCEPT !.wants = {}].wants = {}
        BY <1>1 DEF Threads
    <2>2. Frame!Drop(c)
        BY <1>4, <2>1, DropStep DEF DestroySurface
    <2> QED BY <2>2 DEF Frame!Next
<1>5. CASE Retry(c)
    <2>1. [cl[c] EXCEPT !.pc = "want", !.why = "retry"].wants = cl[c].wants
        BY <1>1 DEF Threads
    <2> QED BY <1>5, <2>1, KeepStep DEF Retry
<1>6. CASE Observe(c)
    <2> DEFINE r == [cl[c] EXCEPT !.seen = scene.presented]
    <2>1. r \in Threads /\ r.wants = cl[c].wants
        BY <1>1 DEF Threads
    <2>2. Notify(c, r, scene.presented)
        BY <1>6 DEF Observe
    <2> HIDE DEF r
    <2>3. PICK x \in Threads, G \in SUBSET Gens(r.wants) :
               /\ Become(c, x) /\ x.pc = r.pc /\ x.own = r.own /\ x.wants \subseteq r.wants
               /\ told' = [told EXCEPT ![c] = @ \cup G] /\ told' \in [Clients -> SUBSET Nat]
               /\ \A h \in G : h <= scene.presented
        BY <1>1, <2>1, <2>2, NotifyFacts
    <2>4. \A h \in G : h <= Top
        <3>1. \A h \in G : h \in Nat
            BY <1>1, <2>1 DEF Gens, Threads, Want
        <3> QED BY <1>1, <1>2, <2>3, <3>1
    <2>5. Frame!Tell(c)
        BY <1>6, <2>1, <2>3, <2>4, TellStep DEF Observe
    <2> QED BY <2>5 DEF Frame!Next
<1>7. CASE Leave(c)
    <2> DEFINE r == [NewClient EXCEPT !.pc = "want", !.why = "leave"]
    <2>1. r \in Threads /\ r.wants = {}
        BY NewClientFacts DEF Threads
    <2>2. scene'.gen \in {scene.gen, scene.gen + 1}
        BY <1>1, <1>7 DEF Leave, Scenes
    <2>3. Frame!Drop(c)
        BY <1>7, <2>1, <2>2, DropStep DEF Leave
    <2> QED BY <2>3 DEF Frame!Next
<1>8. ASSUME NEW first \in BOOLEAN, NEW pixels \in BOOLEAN, Commit(c, first, pixels)
      PROVE  [Frame!Next]_(Frame!vars)
    <2> DEFINE g == scene.gen + 1
               W == cl[c].wants \cup Wants(g, first)
               full == [cl[c] EXCEPT !.pc = "dying", !.wants = {}]
               kept == [cl[c] EXCEPT !.pc = "want", !.why = "commit", !.own = g, !.wants = W]
    <2>1. scene'.gen = g /\ UNCHANGED <<epoch, disp, told>>
        BY <1>1, <1>8 DEF Commit, Scenes
    <2>2. CASE Cardinality(Frames(cl[c].wants)) >= MaxCallbacks
        <3>1. full \in Threads /\ full.wants = {}
            BY <1>1 DEF Threads
        <3>2. Become(c, full)
            BY <1>8, <2>2 DEF Commit
        <3>3. Frame!Drop(c)
            BY <2>1, <3>1, <3>2, DropStep
        <3> QED BY <3>3 DEF Frame!Next
    <2>3. CASE ~(Cardinality(Frames(cl[c].wants)) >= MaxCallbacks)
        <3>1. W \subseteq Want /\ g \in Nat
            BY <1>1 DEF Wants, Want, Threads
        <3>2. kept \in Threads /\ kept.wants = W
            <4> HIDE DEF W, g
            <4> QED BY <1>1, <3>1 DEF Threads
        <3>3. Become(c, kept)
            BY <1>8, <2>3 DEF Commit
        <3>4. Gens(W) = Owed[c] \cup {g}
            <4>1. Gens(W) = Gens(cl[c].wants) \cup Gens(Wants(g, first))
                BY DEF Gens
            <4>2. \A w \in Wants(g, first) : w.gen = g
                BY DEF Wants
            <4>3. Wants(g, first) # {}
                BY DEF Wants
            <4>4. Gens(Wants(g, first)) = {g}
                <5> HIDE DEF g
                <5> QED BY <4>2, <4>3 DEF Gens
            <4> QED BY <4>1, <4>4 DEF Owed, Gens
        <3>5. Owed' = [Owed EXCEPT ![c] = Owed[c] \cup {g}]
            <4> HIDE DEF kept, W
            <4> QED BY <3>2, <3>3, <3>4, OwedFacts DEF RelayInv, Shape
        <3>6. Frame!Commit(c)
            BY <2>1, <3>5 DEF Frame!Commit, Top
        <3> QED BY <3>6 DEF Frame!Next
    <2> QED BY <2>2, <2>3
<1>9. ASSUME NEW g \in Nat, g <= Top, Return(c, g), scene'.gen = scene.gen, UNCHANGED <<epoch, disp>>,
             cl[c].why = "commit" => cl[c].own <= Top
      PROVE  [Frame!Next]_(Frame!vars)
    <2>1. PICK x \in Threads, G \in SUBSET Gens(cl[c].wants) :
               /\ Become(c, x) /\ x.wants \subseteq cl[c].wants
               /\ told' = [told EXCEPT ![c] = @ \cup G]
               /\ \A h \in G : h <= IF cl[c].why = "commit" THEN cl[c].own ELSE g
        BY <1>9, ReturnFacts
    <2>2. \A h \in G : h <= Top
        <3>1. \A h \in G : h \in Nat
            BY <1>1 DEF Gens, Threads, Want
        <3> QED BY <1>1, <1>2, <1>9, <2>1, <3>1
    <2>3. Frame!Tell(c)
        BY <1>9, <2>1, <2>2, TellStep
    <2> QED BY <2>3 DEF Frame!Next
<1>10. CASE UseCached(c)
    <2>1. scene'.gen = scene.gen /\ UNCHANGED <<epoch, disp>> /\ Return(c, scene.presented)
        BY <1>1, <1>10 DEF UseCached, Scenes
    <2>2. cl[c].own <= Top
        BY <1>1, <1>2, <1>10 DEF UseCached, Current
    <2> QED BY <1>1, <1>2, <1>9, <2>1, <2>2
<1>11. CASE Acquire(c)
    <2> DEFINE r == [cl[c] EXCEPT !.pc = "send", !.pub = scene.gen, !.stamps = Stamps]
    <2>1. r.wants = cl[c].wants
        BY <1>1 DEF Threads
    <2>2. Become(c, r) /\ scene'.gen = scene.gen /\ UNCHANGED <<epoch, disp, told>>
        BY <1>1, <1>11 DEF Acquire, Scenes
    <2> QED BY <2>1, <2>2, KeepStep
<1>12. CASE Send(c)
    <2> DEFINE r == [cl[c] EXCEPT !.pc = IF @ = "send" THEN "wait" ELSE "await", !.ans = None]
    <2>1. r.wants = cl[c].wants
        BY <1>1 DEF Threads
    <2>2. Become(c, r) /\ scene'.gen = scene.gen /\ UNCHANGED <<epoch, disp, told>>
        BY <1>12 DEF Send
    <2> QED BY <2>1, <2>2, KeepStep
<1>13. CASE Committed(c)
    <2>1. [cl[c] EXCEPT !.pc = "ask"].wants = cl[c].wants
        BY <1>1 DEF Threads
    <2> QED BY <1>13, <2>1, KeepStep DEF Committed
<1>14. CASE Succeed(c)
    <2> DEFINE p == IF cl[c].pub >= scene.presented THEN cl[c].pub ELSE scene.presented
    <2>1. Publishing(c) /\ cl[c].pc = "await" /\ cl[c].ans = "presented"
        BY <1>14 DEF Succeed, Publishing
    <2>2. cl[c].pub <= Top /\ (cl[c].why = "commit" => cl[c].own <= cl[c].pub)
        BY <1>2, <2>1 DEF RelayInv, Answered, Published, Rank
    <2>3. p \in Nat /\ p <= Top /\ (cl[c].why = "commit" => cl[c].own <= Top)
        BY <1>1, <1>2, <2>2
    <2>4. Return(c, p) /\ scene'.gen = scene.gen /\ UNCHANGED <<epoch, disp>>
        BY <1>1, <1>14 DEF Succeed, Scenes
    <2> HIDE DEF p
    <2> QED BY <1>9, <2>3, <2>4
<1>15. CASE Rejected(c)
    <2>1. CASE cl[c].why = "leave"
        <3>1. Frame!Drop(c)
            BY <1>15, <2>1, NewClientFacts, DropStep DEF Rejected
        <3> QED BY <3>1 DEF Frame!Next
    <2>2. CASE cl[c].why # "leave"
        <3>1. [cl[c] EXCEPT !.pc = "dying", !.ans = None].wants = cl[c].wants
            BY <1>1 DEF Threads
        <3> QED BY <1>15, <2>2, <3>1, KeepStep DEF Rejected
    <2> QED BY <2>1, <2>2
<1>16. CASE ConnectionLost(c)
    BY <1>16, FailsNoFrame DEF ConnectionLost, Publishing
<1>17. CASE TimeOut(c)
    BY <1>17, FailsNoFrame DEF TimeOut, Publishing
<1> QED BY <1>3, <1>4, <1>5, <1>6, <1>7, <1>8, <1>10, <1>11, <1>12, <1>13, <1>14, <1>15, <1>16, <1>17
       DEF Publish

\* compd and displayd show the screen only later generations.
LEMMA ServeImplements ==
    ASSUME RelayInv, Serve \/ CompdRestarts
    PROVE  [Frame!Next]_(Frame!vars)
<1> DEFINE v == disp.shown
<1>1. /\ disp \in Displays /\ disp.shown \in Versions /\ epoch \in Epochs
      /\ cl \in [Clients -> Threads]
    BY DEF RelayInv, Shape, Displays
<1>2. UNCHANGED <<epoch, scene, told>>
    BY DEF Serve, Refuse, Forward, Defer, Feedback, FeedbackFails, CompdRestarts, compdOnly
<1>3. \A d \in Clients : cl'[d].wants = cl[d].wants
    <2>1. ASSUME NEW a, Answer(a) PROVE \A d \in Clients : cl'[d].wants = cl[d].wants
        BY <1>1, <2>1 DEF Answer, Threads
    <2>2. CASE CompdRestarts
        BY <1>1, <2>2 DEF CompdRestarts, Threads
    <2> QED BY <2>1, <2>2 DEF Serve, Refuse, Forward, Defer, Feedback, FeedbackFails
<1>4. CASE disp'.pres = disp.pres
    BY <1>2, <1>3, <1>4, StutterStep
<1>5. CASE disp'.pres # disp.pres
    <2>1. disp'.pres = disp.shown
        <3>1. \A u : Accepted(u).pres = disp.pres
            BY <1>1 DEF Accepted, Displays
        <3>2. disp' # disp /\ \A u : disp' # Accepted(u)
            BY <1>5, <3>1
        <3>3. Feedback
            BY <3>2 DEF Serve, Refuse, Forward, Defer, FeedbackFails, CompdRestarts
        <3> QED BY <1>1, <3>3 DEF Feedback, Displays
    <2>2. Top' = RankIn(epoch, disp.shown) /\ RankIn(epoch, disp.shown) \in Nat
        BY <1>1, <1>2, <2>1, VersionType DEF Top, RankIn
    <2>3. Owed' = Owed
        BY <1>3 DEF Owed
    <2>4. Top <= Top' /\ Top' <= scene.gen
        BY <2>2, TopFacts DEF RelayInv, Ordered, Rank
    <2>5. CASE Top' = Top
        BY <1>2, <2>3, <2>5 DEF Frame!vars
    <2>6. CASE Top' # Top
        <3>1. Top' \in (Top + 1) .. scene.gen
            BY <2>2, <2>4, <2>6, TopFacts
        <3>2. Frame!Show
            BY <1>2, <2>3, <3>1 DEF Frame!Show
        <3> QED BY <3>2 DEF Frame!Next
    <2> QED BY <2>5, <2>6
<1> QED BY <1>4, <1>5

LEMMA RenewImplements ==
    ASSUME RelayInv, WaylandRestarts
    PROVE  Frame!Renew
<1>1. /\ scene' = EmptyScene /\ disp' = disp /\ told' = [c \in Clients |-> {}]
      /\ cl' = [c \in Clients |-> NewClient]
    BY DEF WaylandRestarts
<1>2. Top' = RankIn(epoch', disp'.pres)
    BY DEF Top, RankIn
<1>3. Owed' = [c \in Clients |-> {}]
    <2>1. \A c \in Clients : Owed'[c] = {}
        BY <1>1, NewClientFacts DEF Owed
    <2> QED BY <2>1 DEF Owed
<1> QED BY <1>1, <1>2, <1>3, WaylandRestartsStep DEF Frame!Renew, EmptyScene

LEMMA InitImplements == Init => Frame!Init
<1> SUFFICES ASSUME Init PROVE Frame!Init
    OBVIOUS
<1>1. scene.gen = 0 /\ told = [c \in Clients |-> {}]
    BY DEF Init, EmptyScene
<1>2. Top = 0
    BY DEF Init, Top, Unversioned
<1>3. Owed = [c \in Clients |-> {}]
    <2>1. \A c \in Clients : Owed[c] = {}
        BY NewClientFacts DEF Init, Owed
    <2> QED BY <2>1 DEF Owed
<1> QED BY <1>1, <1>2, <1>3 DEF Frame!Init

\* Every step of the relay is a step of the promise, or is not seen.
LEMMA StepImplements == RelayInv /\ [Next]_vars => [Frame!Next]_(Frame!vars)
<1> SUFFICES ASSUME RelayInv, [Next]_vars PROVE [Frame!Next]_(Frame!vars)
    OBVIOUS
<1>1. CASE DisplayDown \/ DisplayUp
    <2>1. disp \in Displays
        BY DEF RelayInv, Shape
    <2>2. disp'.pres = disp.pres /\ UNCHANGED <<epoch, scene, cl, told>>
        BY <1>1, <2>1 DEF DisplayDown, DisplayUp, Displays
    <2> QED BY <2>2, StutterStep
<1>2. CASE UNCHANGED vars
    <2>1. UNCHANGED <<epoch, scene, cl, told, disp>>
        BY <1>2 DEF vars
    <2> QED BY <2>1, StutterStep
<1>3. CASE WaylandRestarts
    BY <1>3, RenewImplements DEF Frame!Next
<1>4. CASE Serve \/ CompdRestarts
    BY <1>4, ServeImplements
<1> QED BY <1>1, <1>2, <1>3, <1>4, ThreadImplements DEF Next

\* waylandd, compd and displayd together implement the promise about frames: a
\* client is told of a generation only while the screen shows it or a later one,
\* and the screen never goes back.
THEOREM KeepsFramePromiseHolds == Spec => KeepsFramePromise
<1>1. RelayInv /\ [Next]_vars => [Frame!Next]_(Frame!vars)
    BY StepImplements
<1> QED BY <1>1, InitImplements, RelayInvariant, PTL DEF Spec, KeepsFramePromise, Frame!Spec
=============================================================================
