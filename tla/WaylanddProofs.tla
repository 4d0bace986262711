--------------------------- MODULE WaylanddProofs ---------------------------
(***************************************************************************)
(* What waylandd keeps in step, for any outputs, modes and clients, queues *)
(* of any length and any number of changes, restarts and failed queries.   *)
(*                                                                         *)
(* The registry of outputs: all that is on its way is true of the history  *)
(* of displayd's outputs, and in an order that no snapshot undoes.  Every  *)
(* batch of commands the supervisor broadcasts takes a client that has the *)
(* old registry to the new one, so a client is where the commands in its   *)
(* queue leave it: at the registry.                                        *)
(*                                                                         *)
(* The registry of surfaces is at the end of the module.                   *)
(***************************************************************************)
EXTENDS Topology, Registry, FiniteSetTheorems, WellFoundedInduction, SequenceTheorems, TLAPS

-----------------------------------------------------------------------------
(* Folds.  The operators of the model fold over sequences and sets; a fold is *)
(* a function on the parts of a finite set.                                   *)

\* Induction over the parts of a finite set: of the parts that are bad, if any,
\* one has no bad part of its own.
LEMMA SmallestBad ==
    ASSUME NEW S, IsFiniteSet(S), NEW Bad, Bad \subseteq SUBSET S, Bad # {}
    PROVE  \E T \in Bad : \A U \in SUBSET T : U # T => U \notin Bad
<1>1. IsWellFoundedOn(StrictSubsetOrdering(S), FiniteSubsetsOf(S))
  BY FS_StrictSubsetOrderingWellFounded
<1>2. FiniteSubsetsOf(S) = SUBSET S  BY FS_FiniteSubsetsOfFinite
<1>3. PICK T \in Bad : \A U \in Bad : ~(<<U, T>> \in StrictSubsetOrdering(S))
  BY <1>1, <1>2, WFMin
<1>4. ASSUME NEW U \in SUBSET T, U # T, U \in Bad  PROVE FALSE
  <2>1. <<U, T>> \in (SUBSET S) \X (SUBSET S)  BY <1>4
  <2>2. <<U, T>> \in StrictSubsetOrdering(S)  BY <2>1, <1>4 DEF StrictSubsetOrdering
  <2> QED  BY <1>3, <1>4, <2>2
<1> QED  BY <1>3, <1>4

\* Every set of numbers has a least one.
LEMMA LeastOf ==
    ASSUME NEW T \in SUBSET Nat, T # {}
    PROVE  \E x \in T : \A y \in T : x <= y
<1>1. PICK x \in T : \A y \in T : ~(<<y, x>> \in OpToRel(<, Nat))
  BY NatLessThanWellFounded, WFMin
<1>2. \A y \in T : ~(y < x)  BY <1>1 DEF OpToRel
<1> QED  BY <1>2

\* Induction over places 0 to n.
LEMMA EveryPlace ==
    ASSUME NEW n \in Nat, NEW B \in SUBSET (0 .. n), 0 \in B,
           \A i \in 1 .. n : i - 1 \in B => i \in B
    PROVE  \A i \in 0 .. n : i \in B
<1> DEFINE Bad == {x \in 0 .. n : x \notin B}
<1> SUFFICES ASSUME Bad # {}  PROVE FALSE  OBVIOUS
<1>1. PICK x \in Bad : \A y \in Bad : x <= y
  <2>1. Bad \in SUBSET Nat  OBVIOUS
  <2> HIDE DEF Bad
  <2> QED  BY <2>1, LeastOf
<1>2. x \in 0 .. n /\ x \notin B  BY <1>1
<1>3. x \in 1 .. n /\ x - 1 \in 0 .. n /\ ~(x <= x - 1)  BY <1>2
<1>4. x - 1 \in B  BY <1>1, <1>3
<1> QED  BY <1>2, <1>3, <1>4

\* g folds F over the parts of S, taking C[s] of a part s last.
IsFold(g, b, F, C, S) ==
    g = [s \in SUBSET S |-> IF s = {} THEN b ELSE F[<<C[s], g[s \ {C[s]}]>>]]
Chooses(C, S) == \A s \in SUBSET S : s # {} => C[s] \in s

\* Two folds agree where both are defined.
LEMMA FoldsAgree ==
    ASSUME NEW b, NEW F, NEW C, NEW S, NEW T, IsFiniteSet(S), Chooses(C, S), NEW g, NEW h,
           IsFold(g, b, F, C, S), IsFold(h, b, F, C, T)
    PROVE  \A s \in SUBSET S : s \in SUBSET T => g[s] = h[s]
<1> DEFINE Bad == {s \in SUBSET S : s \in SUBSET T /\ g[s] # h[s]}
<1> SUFFICES ASSUME Bad # {}  PROVE FALSE  OBVIOUS
<1>0. Bad \subseteq SUBSET S  OBVIOUS
<1>1. PICK s \in Bad : \A U \in SUBSET s : U # s => U \notin Bad
  <2> HIDE DEF Bad
  <2> QED  BY <1>0, SmallestBad
<1>2. s \in SUBSET S /\ s \in SUBSET T /\ g[s] # h[s]  BY <1>1
<1>3. s # {}  BY <1>2 DEF IsFold
<1> DEFINE r == s \ {C[s]}
<1>4. r \in SUBSET s /\ r # s  BY <1>2, <1>3 DEF Chooses
<1>5. g[r] = h[r]  BY <1>1, <1>2, <1>4
<1>6. g[s] = F[<<C[s], g[r]>>] /\ h[s] = F[<<C[s], h[r]>>]  BY <1>2, <1>3 DEF IsFold
<1> QED  BY <1>2, <1>5, <1>6

\* The fold of a finite set exists.
LEMMA FoldExists ==
    ASSUME NEW b, NEW F, NEW C, NEW S, IsFiniteSet(S), Chooses(C, S)
    PROVE  \E g : IsFold(g, b, F, C, S)
<1> DEFINE Bad == {T \in SUBSET S : ~\E g : IsFold(g, b, F, C, T)}
<1> SUFFICES ASSUME Bad # {}  PROVE FALSE  OBVIOUS
<1>0. Bad \subseteq SUBSET S  OBVIOUS
<1>1. PICK T \in Bad : \A U \in SUBSET T : U # T => U \notin Bad
  <2> HIDE DEF Bad
  <2> QED  BY <1>0, SmallestBad
<1> DEFINE fold(U) == CHOOSE g : IsFold(g, b, F, C, U)
           rest(U) == U \ {C[U]}
<1>2. \A U \in SUBSET T : U # T => IsFold(fold(U), b, F, C, U)  BY <1>1
<1>3. \A U \in SUBSET T : U # {} => rest(U) \in SUBSET U /\ rest(U) # U
  BY <1>1 DEF Chooses
<1> DEFINE value(U) == IF U = {} THEN b ELSE F[<<C[U], fold(rest(U))[rest(U)]>>]
           whole == [U \in SUBSET T |-> value(U)]
<1>4. ASSUME NEW U \in SUBSET T, U # {}
      PROVE  fold(rest(U))[rest(U)] = whole[rest(U)]
  <2> DEFINE V == rest(U)
             W == rest(V)
  <2>1. V \in SUBSET T /\ V # T  BY <1>3, <1>4
  <2>2. IsFold(fold(V), b, F, C, V)  BY <2>1, <1>2
  <2>a. IsFiniteSet(V) /\ Chooses(C, V)  BY <2>1, <1>1, FS_Subset DEF Chooses
  <2> HIDE DEF V
  <2>3. CASE V = {}
    <3>1. fold(V)[V] = b  BY <2>2, <2>3 DEF IsFold
    <3> QED  BY <2>1, <2>3, <3>1 DEF V
  <2>4. CASE V # {}
    <3>1. W \in SUBSET V /\ W # V /\ W \in SUBSET T /\ W # T  BY <1>3, <2>1, <2>4
    <3>2. IsFold(fold(W), b, F, C, W)  BY <1>2, <3>1
    <3>3. fold(V)[V] = F[<<C[V], fold(V)[W]>>]  BY <2>2, <2>4 DEF IsFold
    <3>4. whole[V] = F[<<C[V], fold(W)[W]>>]  BY <2>1, <2>4
    <3> HIDE DEF W, fold, whole
    <3>5. fold(V)[W] = fold(W)[W]  BY <2>2, <2>a, <3>1, <3>2, FoldsAgree
    <3> QED  BY <3>3, <3>4, <3>5 DEF V
  <2> QED  BY <2>3, <2>4
<1>5. IsFold(whole, b, F, C, T)
  <2> HIDE DEF fold, rest
  <2>1. \A U \in SUBSET T :
            value(U) = IF U = {} THEN b ELSE F[<<C[U], whole[rest(U)]>>]  BY <1>4
  <2> HIDE DEF value
  <2> DEFINE right == [U \in SUBSET T |-> IF U = {} THEN b ELSE F[<<C[U], whole[U \ {C[U]}]>>]]
  <2>2. whole = right  BY <2>1 DEF rest
  <2> QED  BY <2>2 DEF IsFold
<1> QED  BY <1>1, <1>5

\* A fold keeps to a set that F keeps to.
LEMMA FoldStays ==
    ASSUME NEW A, NEW b \in A, NEW F, NEW C, NEW S, IsFiniteSet(S), Chooses(C, S),
           \A x \in S, a \in A : F[<<x, a>>] \in A,
           NEW g, IsFold(g, b, F, C, S)
    PROVE  \A s \in SUBSET S : g[s] \in A
<1> DEFINE Bad == {s \in SUBSET S : g[s] \notin A}
<1> SUFFICES ASSUME Bad # {}  PROVE FALSE  OBVIOUS
<1>0. Bad \subseteq SUBSET S  OBVIOUS
<1>1. PICK s \in Bad : \A U \in SUBSET s : U # s => U \notin Bad
  <2> HIDE DEF Bad
  <2> QED  BY <1>0, SmallestBad
<1>2. s \in SUBSET S /\ g[s] \notin A  BY <1>1
<1>3. s # {}  BY <1>2 DEF IsFold
<1> DEFINE r == s \ {C[s]}
<1>4. C[s] \in s /\ r \in SUBSET s /\ r # s  BY <1>2, <1>3 DEF Chooses
<1>5. g[r] \in A  BY <1>1, <1>2, <1>4
<1>6. g[s] = F[<<C[s], g[r]>>]  BY <1>2, <1>3 DEF IsFold
<1> QED  BY <1>2, <1>4, <1>5, <1>6

\* The first i places of n.
LEMMA Segments ==
    ASSUME NEW n \in Nat
    PROVE  /\ IsFiniteSet(1 .. n) /\ 1 .. 0 = {}
           /\ \A i \in 0 .. n : 1 .. i \in SUBSET (1 .. n)
           /\ \A i \in 1 .. n : 1 .. i # {} /\ Max(1 .. i) = i /\ (1 .. i) \ {i} = 1 .. (i - 1)
<1>1. ASSUME NEW i \in 1 .. n
      PROVE  1 .. i # {} /\ Max(1 .. i) = i /\ (1 .. i) \ {i} = 1 .. (i - 1)
  <2>1. i \in 1 .. i /\ \A y \in 1 .. i : i >= y  OBVIOUS
  <2>2. \A x \in 1 .. i : (\A y \in 1 .. i : x >= y) => x = i  BY <2>1
  <2>3. Max(1 .. i) = i  BY <2>1, <2>2 DEF Max
  <2>4. (1 .. i) \ {i} = 1 .. (i - 1)  OBVIOUS
  <2> QED  BY <2>1, <2>3, <2>4
<1>2. IsFiniteSet(1 .. n)  BY FS_Interval
<1>3. 1 .. 0 = {}  OBVIOUS
<1>4. \A i \in 0 .. n : 1 .. i \in SUBSET (1 .. n)  OBVIOUS
<1> QED  BY <1>1, <1>2, <1>3, <1>4

\* The greatest of some places is one of them.
LEMMA MaxIsIn ==
    ASSUME NEW n \in Nat, NEW s \in SUBSET (1 .. n), s # {}
    PROVE  Max(s) \in s
<1> DEFINE T == {n - x : x \in s}
<1>1. \A x \in s : x \in 1 .. n /\ n - x \in Nat  OBVIOUS
<1>2. T \in SUBSET Nat  BY <1>1
<1>3. T # {}  OBVIOUS
<1> HIDE DEF T
<1>4. PICK m \in T : \A y \in T : m <= y  BY <1>2, <1>3, LeastOf
<1>5. PICK x \in s : m = n - x  BY <1>4 DEF T
<1>6. \A y \in s : n - x <= n - y  BY <1>4, <1>5 DEF T
<1>7. \A y \in s : x >= y  BY <1>1, <1>6
<1> QED  BY <1>7 DEF Max

-----------------------------------------------------------------------------
(* The types of the state *)

Maps == UNION {[S -> Modes] : S \in SUBSET Outputs}
Entries == [mode : Modes, eff : BOOLEAN]
Singles == UNION {[{o} -> Entries] : o \in Outputs}
Lists == UNION {[S -> Entries \cup {None}] : S \in SUBSET Outputs}

Deltas == [at : Stamps, kind : {"add", "reconfigure", "remove", "reset"}, out : Outputs, mode : Modes]
Results == {Failure} \cup [ok : {TRUE}, at : Stamps, outs : Projections]
Inputs == [kind : {"lost", "overflow"}] \cup [kind : {"event"}, delta : Deltas]
          \cup [kind : {"snapshot"}, at : Stamps, outs : Projections]
          \cup [kind : {"result"}, res : Results, stale : BOOLEAN]
Fetches == [at : Stamps, res : Results \cup {None}, stale : BOOLEAN]
Commands ==
    [kind : {"reset", "recalculate"}, at : Stamps, outs : {Empty}]
    \cup [kind : {"initial", "add"}, at : Stamps, outs : Projections]
    \cup [kind : {"reconfigure"}, at : Stamps, outs : Singles]
    \cup [kind : {"remove"}, at : Stamps, outs : Lists]
Events == {"global", "global_remove"} \X Outputs
ClientStates ==
    [pc : {"none", "registered", "running", "applied", "gone"}, q : Seq(Commands), resync : BOOLEAN,
     at : Stamps, live : Projections, core : Maps, init : Commands \cup {None}, bound : BOOLEAN,
     unsent : Seq(Events), told : SUBSET Outputs, overtaken : BOOLEAN]

\* The maps of outputs are the functions on sets of outputs.
LEMMA MapFacts ==
    /\ \A f : f \in Maps <=> f \in [DOMAIN f -> Modes] /\ DOMAIN f \subseteq Outputs
    /\ \A f : f \in Projections <=> f \in [DOMAIN f -> Entries] /\ DOMAIN f \subseteq Outputs
    /\ \A f : f \in Lists <=> f \in [DOMAIN f -> Entries \cup {None}] /\ DOMAIN f \subseteq Outputs
    /\ \A f : f \in Singles <=> \E o \in Outputs : DOMAIN f = {o} /\ f \in [{o} -> Entries]
BY DEF Maps, Projections, Lists, Singles, Entries

\* The empty map is a map of every kind.
LEMMA EmptyFacts ==
    /\ DOMAIN Empty = {} /\ Empty \in Maps /\ Empty \in Projections /\ Empty \in Lists
    /\ \A f : f = [o \in DOMAIN f |-> f[o]] /\ DOMAIN f = {} => f = Empty
<1>1. DOMAIN Empty = {}  BY DEF Empty
<1>2. \A T : Empty \in [{} -> T]  BY DEF Empty
<1>3. \A f : f = [o \in DOMAIN f |-> f[o]] /\ DOMAIN f = {} => f = Empty  BY DEF Empty
<1> QED  BY <1>1, <1>2, <1>3, MapFacts

\* An output put into a map or taken out of it.
LEMMA WithFacts ==
    ASSUME NEW f, NEW o, NEW v
    PROVE  /\ DOMAIN With(f, o, v) = DOMAIN f \cup {o}
           /\ With(f, o, v)[o] = v
           /\ \A x \in DOMAIN f : x # o => With(f, o, v)[x] = f[x]
           /\ DOMAIN Without(f, o) = DOMAIN f \ {o}
           /\ \A x \in DOMAIN f \ {o} : Without(f, o)[x] = f[x]
BY DEF With, Without

\* The result is a map again.
LEMMA WithStays ==
    ASSUME NEW o \in Outputs
    PROVE  /\ \A f \in Maps, m \in Modes : With(f, o, m) \in Maps
           /\ \A f \in Maps : Without(f, o) \in Maps
           /\ \A f \in Projections, e \in Entries : With(f, o, e) \in Projections
           /\ \A f \in Projections : Without(f, o) \in Projections
<1>1. ASSUME NEW f \in Maps, NEW m \in Modes  PROVE With(f, o, m) \in Maps
  <2>1. f \in [DOMAIN f -> Modes] /\ DOMAIN f \subseteq Outputs  BY MapFacts
  <2>2. With(f, o, m) \in [DOMAIN f \cup {o} -> Modes]  BY <2>1 DEF With
  <2> QED  BY <2>1, <2>2, MapFacts
<1>2. ASSUME NEW f \in Maps  PROVE Without(f, o) \in Maps
  <2>1. f \in [DOMAIN f -> Modes] /\ DOMAIN f \subseteq Outputs  BY MapFacts
  <2>2. Without(f, o) \in [DOMAIN f \ {o} -> Modes]  BY <2>1 DEF Without
  <2> QED  BY <2>1, <2>2, MapFacts
<1>3. ASSUME NEW f \in Projections, NEW e \in Entries  PROVE With(f, o, e) \in Projections
  <2>1. f \in [DOMAIN f -> Entries] /\ DOMAIN f \subseteq Outputs  BY MapFacts
  <2>2. With(f, o, e) \in [DOMAIN f \cup {o} -> Entries]  BY <2>1 DEF With
  <2> QED  BY <2>1, <2>2, MapFacts
<1>4. ASSUME NEW f \in Projections  PROVE Without(f, o) \in Projections
  <2>1. f \in [DOMAIN f -> Entries] /\ DOMAIN f \subseteq Outputs  BY MapFacts
  <2>2. Without(f, o) \in [DOMAIN f \ {o} -> Entries]  BY <2>1 DEF Without
  <2> QED  BY <2>1, <2>2, MapFacts
<1> QED  BY <1>1, <1>2, <1>3, <1>4

\* The modes of a projection change as the projection does.
LEMMA ModesFacts ==
    ASSUME NEW p \in Projections
    PROVE  /\ ModesOf(p) \in Maps /\ DOMAIN ModesOf(p) = DOMAIN p
           /\ \A o \in DOMAIN p : p[o] \in Entries /\ ModesOf(p)[o] = p[o].mode /\ p[o].mode \in Modes
           /\ \A o : ModesOf(Without(p, o)) = Without(ModesOf(p), o)
           /\ \A o, e : ModesOf(With(p, o, e)) = With(ModesOf(p), o, e.mode)
<1>1. p \in [DOMAIN p -> Entries] /\ DOMAIN p \subseteq Outputs  BY MapFacts
<1>2. DOMAIN ModesOf(p) = DOMAIN p /\ \A o \in DOMAIN p : p[o] \in Entries /\ ModesOf(p)[o] = p[o].mode /\ p[o].mode \in Modes
  BY <1>1 DEF ModesOf, Entries
<1>3. ModesOf(p) \in [DOMAIN p -> Modes]  BY <1>2 DEF ModesOf
<1>4. ModesOf(p) \in Maps  BY <1>1, <1>2, <1>3, MapFacts
<1>5. \A o : ModesOf(Without(p, o)) = Without(ModesOf(p), o)  BY DEF ModesOf, Without
<1>6. ASSUME NEW o, NEW e  PROVE ModesOf(With(p, o, e)) = With(ModesOf(p), o, e.mode)
  <2>1. DOMAIN With(p, o, e) = DOMAIN p \cup {o}  BY DEF With
  <2>2. \A x \in DOMAIN p \cup {o} : With(p, o, e)[x].mode = IF x = o THEN e.mode ELSE p[x].mode
    BY DEF With
  <2>3. ModesOf(With(p, o, e)) = [x \in DOMAIN p \cup {o} |-> IF x = o THEN e.mode ELSE p[x].mode]
    BY <2>1, <2>2 DEF ModesOf
  <2>4. With(ModesOf(p), o, e.mode) = [x \in DOMAIN p \cup {o} |-> IF x = o THEN e.mode ELSE p[x].mode]
    BY DEF ModesOf, With
  <2> QED  BY <2>3, <2>4
<1> QED  BY <1>2, <1>4, <1>5, <1>6

\* What displayd answers with: all its outputs, exactly.
LEMMA SnapshotFacts ==
    ASSUME NEW d, d.outs \in Maps
    PROVE  Snapshot(d) \in Projections /\ ModesOf(Snapshot(d)) = d.outs
<1>1. d.outs \in [DOMAIN d.outs -> Modes] /\ DOMAIN d.outs \subseteq Outputs  BY MapFacts
<1>2. DOMAIN Snapshot(d) = DOMAIN d.outs /\ \A o \in DOMAIN d.outs : Snapshot(d)[o] = Entry(d.outs[o], TRUE)
  BY DEF Snapshot
<1>3. \A o \in DOMAIN d.outs : Entry(d.outs[o], TRUE) \in Entries /\ Entry(d.outs[o], TRUE).mode = d.outs[o]
  BY <1>1 DEF Entry, Entries
<1>4. Snapshot(d) \in [DOMAIN d.outs -> Entries]  BY <1>3 DEF Snapshot
<1>5. Snapshot(d) \in Projections  BY <1>1, <1>2, <1>4, MapFacts
<1>6. ModesOf(Snapshot(d)) = [o \in DOMAIN d.outs |-> d.outs[o]]  BY <1>2, <1>3 DEF ModesOf
<1> QED  BY <1>1, <1>5, <1>6

\* Sequences: what is appended, taken off and taken out.
LEMMA SeqFacts ==
    ASSUME NEW T, NEW s \in Seq(T)
    PROVE  /\ Len(s) \in Nat /\ DOMAIN s = 1 .. Len(s) /\ \A i \in DOMAIN s : s[i] \in T
           /\ \A x \in T : /\ Append(s, x) \in Seq(T) /\ Len(Append(s, x)) = Len(s) + 1
                           /\ DOMAIN Append(s, x) = 1 .. Len(s) + 1
                           /\ \A i \in DOMAIN s : Append(s, x)[i] = s[i]
                           /\ Append(s, x)[Len(s) + 1] = x
           /\ s # <<>> => /\ Head(s) \in T /\ Head(s) = s[1] /\ 1 \in DOMAIN s
                          /\ Tail(s) \in Seq(T) /\ Len(Tail(s)) = Len(s) - 1
                          /\ DOMAIN Tail(s) = 1 .. Len(s) - 1
                          /\ \A i \in DOMAIN Tail(s) : i + 1 \in DOMAIN s /\ Tail(s)[i] = s[i + 1]
           /\ s = <<>> <=> Len(s) = 0
<1>1. Len(s) \in Nat /\ DOMAIN s = 1 .. Len(s) /\ \A i \in DOMAIN s : s[i] \in T  OBVIOUS
<1>2. ASSUME NEW x \in T
      PROVE  /\ Append(s, x) \in Seq(T) /\ Len(Append(s, x)) = Len(s) + 1
             /\ DOMAIN Append(s, x) = 1 .. Len(s) + 1
             /\ \A i \in DOMAIN s : Append(s, x)[i] = s[i]
             /\ Append(s, x)[Len(s) + 1] = x
  BY AppendProperties
<1>3. ASSUME s # <<>>
      PROVE  /\ Head(s) \in T /\ Head(s) = s[1] /\ 1 \in DOMAIN s
             /\ Tail(s) \in Seq(T) /\ Len(Tail(s)) = Len(s) - 1
             /\ DOMAIN Tail(s) = 1 .. Len(s) - 1
             /\ \A i \in DOMAIN Tail(s) : i + 1 \in DOMAIN s /\ Tail(s)[i] = s[i + 1]
  <2>1. Len(s) \in Nat \ {0}  BY <1>3, EmptySeq
  <2>2. Tail(s) \in Seq(T) /\ Len(Tail(s)) = Len(s) - 1 /\ \A i \in 1 .. Len(Tail(s)) : Tail(s)[i] = s[i + 1]
    BY <1>3, HeadTailProperties
  <2>3. Head(s) \in T /\ Head(s) = s[1] /\ 1 \in DOMAIN s  BY <1>3, <2>1, HeadTailProperties
  <2>4. DOMAIN Tail(s) = 1 .. Len(Tail(s))  BY <2>2
  <2> QED  BY <2>1, <2>2, <2>3, <2>4
<1>4. s = <<>> <=> Len(s) = 0  BY EmptySeq
<1> QED  BY <1>1, <1>2, <1>3, <1>4

-----------------------------------------------------------------------------
(* Commands and their queues *)

\* What a broadcast leaves of a client.
SendsTo(k, cmds, r) ==
    /\ r \in ClientStates /\ Len(r.q) <= ClientSlots
    /\ r.pc = k.pc /\ r.at = k.at /\ r.live = k.live /\ r.core = k.core /\ r.init = k.init
    /\ r.bound = k.bound /\ r.unsent = k.unsent /\ r.told = k.told /\ r.overtaken = k.overtaken
    /\ k.pc \in {"none", "gone"} => r = k
    /\ k.resync => r.resync
    /\ ~r.resync /\ k.pc \notin {"none", "gone"} => r.q = k.q \o cmds
    /\ \A i \in DOMAIN r.q : \/ \E j \in DOMAIN k.q : r.q[i] = k.q[j]
                             \/ \E j \in DOMAIN cmds : r.q[i] = cmds[j]

\* What one command does.
Sent(k, cmd, r) ==
    /\ r \in ClientStates /\ Len(r.q) <= ClientSlots
    /\ r.pc = k.pc /\ r.at = k.at /\ r.live = k.live /\ r.core = k.core /\ r.init = k.init
    /\ r.bound = k.bound /\ r.unsent = k.unsent /\ r.told = k.told /\ r.overtaken = k.overtaken
    /\ k.pc \in {"none", "gone"} => r = k
    /\ k.resync => r.resync
    /\ ~r.resync /\ k.pc \notin {"none", "gone"} => r.q = Append(k.q, cmd)
    /\ r.q = k.q \/ r.q = Append(k.q, cmd)

\* try_send puts a command last, or leaves the client to reconcile.
LEMMA SendOne ==
    ASSUME NEW k \in ClientStates, Len(k.q) <= ClientSlots, NEW cmd \in Commands
    PROVE  Sent(k, cmd, Send(k, cmd))
<1> SUFFICES ASSUME NEW r, r = Send(k, cmd)  PROVE Sent(k, cmd, r)  OBVIOUS
<1>1. Append(k.q, cmd) \in Seq(Commands) /\ Len(Append(k.q, cmd)) = Len(k.q) + 1 /\ Len(k.q) \in Nat
  BY SeqFacts DEF ClientStates
<1>2. ClientSlots \in Nat  BY TopologyAssumption
<1>3. \/ r = k /\ (k.pc \in {"none", "gone"} \/ k.resync)
      \/ Len(k.q) < ClientSlots /\ k.pc \notin {"none", "gone"} /\ r = [k EXCEPT !.q = Append(@, cmd)]
      \/ k.pc \notin {"none", "gone"} /\ r = [k EXCEPT !.resync = TRUE]
  BY DEF Send
<1>4. CASE r = k /\ (k.pc \in {"none", "gone"} \/ k.resync)
  <2>1. /\ r \in ClientStates /\ Len(r.q) <= ClientSlots
        /\ r.pc = k.pc /\ r.at = k.at /\ r.live = k.live /\ r.core = k.core /\ r.init = k.init
        /\ r.bound = k.bound /\ r.unsent = k.unsent /\ r.told = k.told /\ r.overtaken = k.overtaken
        /\ r.q = k.q
    BY <1>4
  <2>2. r = k  BY <1>4
  <2>3. r.resync = k.resync  BY <2>2
  <2>4. k.resync \/ k.pc \in {"none", "gone"}  BY <1>4
  <2> QED  BY <2>1, <2>2, <2>3, <2>4 DEF Sent
<1>5. CASE Len(k.q) < ClientSlots /\ k.pc \notin {"none", "gone"} /\ r = [k EXCEPT !.q = Append(@, cmd)]
  <2>1. /\ r \in ClientStates /\ r.q = Append(k.q, cmd)
        /\ r.pc = k.pc /\ r.at = k.at /\ r.live = k.live /\ r.core = k.core /\ r.init = k.init
        /\ r.bound = k.bound /\ r.unsent = k.unsent /\ r.told = k.told /\ r.overtaken = k.overtaken
        /\ r.resync = k.resync
    BY <1>1, <1>5 DEF ClientStates
  <2>2. Len(r.q) <= ClientSlots  BY <1>1, <1>2, <1>5, <2>1
  <2> QED  BY <1>5, <2>1, <2>2 DEF Sent
<1>6. CASE k.pc \notin {"none", "gone"} /\ r = [k EXCEPT !.resync = TRUE]
  BY <1>1, <1>2, <1>6 DEF ClientStates, Sent
<1> QED  BY <1>3, <1>4, <1>5, <1>6

\* A broadcast as a trace of single commands.
LEMMA SendTrace ==
    ASSUME NEW k \in ClientStates, Len(k.q) <= ClientSlots, NEW cmds \in Seq(Commands)
    PROVE  \E h \in [0 .. Len(cmds) -> {r \in ClientStates : Len(r.q) <= ClientSlots}] :
               /\ h[0] = k /\ h[Len(cmds)] = FoldLeft(Send, k, cmds)
               /\ \A i \in 1 .. Len(cmds) : h[i] = Send(h[i - 1], cmds[i])
<1> DEFINE A == {r \in ClientStates : Len(r.q) <= ClientSlots}
           n == Len(cmds)
           S == 1 .. n
           F == [p \in S \X A |-> Send(p[2], cmds[p[1]])]
           C == [s \in SUBSET S |-> Max(s)]
           G(f) == f = [s \in SUBSET S |-> IF s = {} THEN k
                                          ELSE Send(f[s \ {Max(s)}], cmds[Max(s)])]
           g == CHOOSE f : G(f)
<1>0. n \in Nat /\ DOMAIN cmds = S /\ \A i \in S : cmds[i] \in Commands  BY SeqFacts
<1>1. FoldLeft(Send, k, cmds) = g[S]
  BY <1>0 DEF FoldLeft, MapThenFoldSet
<1>2. IsFiniteSet(S) /\ Chooses(C, S)  BY <1>0, Segments, MaxIsIn DEF Chooses
<1>3. k \in A  OBVIOUS
<1>4. \A x \in S, a \in A : F[<<x, a>>] = Send(a, cmds[x]) /\ F[<<x, a>>] \in A
  BY <1>0, SendOne DEF Sent
<1> HIDE DEF F, A
<1>5. \E f : G(f) /\ \A s \in SUBSET S : f[s] \in A
  <2>1. PICK f : IsFold(f, k, F, C, S)  BY <1>2, FoldExists
  <2>2. \A s \in SUBSET S : f[s] \in A  BY <1>2, <1>3, <1>4, <2>1, FoldStays
  <2>3. \A s \in SUBSET S : s # {} => /\ Max(s) \in S /\ C[s] = Max(s) /\ f[s \ {Max(s)}] \in A
                                       /\ F[<<C[s], f[s \ {C[s]}]>>] = Send(f[s \ {Max(s)}], cmds[Max(s)])
    BY <1>0, <1>4, <2>2, MaxIsIn
  <2>4. f = [s \in SUBSET S |-> IF s = {} THEN k ELSE F[<<C[s], f[s \ {C[s]}]>>]]
    BY <2>1 DEF IsFold
  <2> HIDE DEF C
  <2>5. G(f)  BY <2>3, <2>4
  <2> QED  BY <2>2, <2>5
<1>6. G(g)  BY <1>5
<1>7. \A s \in SUBSET S : g[s] = IF s = {} THEN k ELSE Send(g[s \ {Max(s)}], cmds[Max(s)])
  BY <1>6
<1> DEFINE B == {i \in 0 .. n : g[1 .. i] \in A}
           h == [i \in 0 .. n |-> g[1 .. i]]
<1> HIDE DEF g
<1>8. g[1 .. 0] = k  BY <1>0, <1>7, Segments
<1>9. ASSUME NEW i \in 1 .. n  PROVE g[1 .. i] = Send(g[1 .. (i - 1)], cmds[i])
  <2>1. 1 .. i \in SUBSET S /\ 1 .. i # {} /\ Max(1 .. i) = i /\ (1 .. i) \ {i} = 1 .. (i - 1)
    BY <1>0, Segments
  <2> QED  BY <1>7, <2>1
<1>10. \A i \in 0 .. n : i \in B
  <2>1. 0 \in B  BY <1>0, <1>3, <1>8
  <2>2. ASSUME NEW i \in 1 .. n, i - 1 \in B  PROVE i \in B
    <3>1. g[1 .. (i - 1)] \in A /\ i \in 0 .. n  BY <1>0, <2>2
    <3>2. Send(g[1 .. (i - 1)], cmds[i]) \in A  BY <1>4, <3>1
    <3> QED  BY <1>9, <3>1, <3>2
  <2>3. B \in SUBSET (0 .. n)  OBVIOUS
  <2> HIDE DEF B
  <2> QED  BY <1>0, <2>1, <2>2, <2>3, EveryPlace
<1>11. h \in [0 .. n -> A] /\ h[0] = k /\ h[n] = g[S] /\ \A i \in 1 .. n : h[i] = Send(h[i - 1], cmds[i])
  BY <1>0, <1>8, <1>9, <1>10
<1> QED  BY <1>1, <1>11 DEF A

\* A broadcast does that with every command in turn.
LEMMA SendFold ==
    ASSUME NEW k \in ClientStates, Len(k.q) <= ClientSlots, NEW cmds \in Seq(Commands),
           NEW r, r = FoldLeft(Send, k, cmds)
    PROVE  SendsTo(k, cmds, r)
<1> DEFINE n == Len(cmds)
           A == {x \in ClientStates : Len(x.q) <= ClientSlots}
<1>1. PICK h \in [0 .. n -> A] :
          h[0] = k /\ h[n] = r /\ \A i \in 1 .. n : h[i] = Send(h[i - 1], cmds[i])
  BY SendTrace
<1>0. n \in Nat /\ DOMAIN cmds = 1 .. n /\ \A i \in 1 .. n : cmds[i] \in Commands  BY SeqFacts
<1> DEFINE first(i) == SubSeq(cmds, 1, i)
           B == {i \in 0 .. n : SendsTo(k, first(i), h[i])}
<1>2. \A i \in 0 .. n : first(i) \in Seq(Commands) /\ Len(first(i)) = i /\ DOMAIN first(i) = 1 .. i
                         /\ \A j \in 1 .. i : first(i)[j] = cmds[j]
  BY <1>0, SubSeqProperties
<1>3. first(0) = <<>>
  BY <1>0, <1>2, EmptySeq
<1>4. ASSUME NEW i \in 1 .. n  PROVE first(i) = Append(first(i - 1), cmds[i])
  <2>0. i - 1 \in 0 .. n /\ i \in 0 .. n /\ cmds[i] \in Commands  BY <1>0
  <2>1. first(i - 1) \in Seq(Commands) /\ Len(first(i - 1)) = i - 1 /\ \A j \in 1 .. i - 1 : first(i - 1)[j] = cmds[j]
    BY <1>2, <2>0
  <2>2. first(i) \in Seq(Commands) /\ Len(first(i)) = i /\ \A j \in 1 .. i : first(i)[j] = cmds[j]
    BY <1>2, <2>0
  <2> HIDE DEF first
  <2> DEFINE t == Append(first(i - 1), cmds[i])
  <2>3. t \in Seq(Commands) /\ Len(t) = i /\ t[i] = cmds[i] /\ \A j \in 1 .. i - 1 : t[j] = cmds[j]
    BY <2>0, <2>1, SeqFacts
  <2> HIDE DEF t
  <2>4. \A j \in 1 .. i : first(i)[j] = t[j]  BY <2>2, <2>3
  <2>5. first(i) = t  BY <2>2, <2>3, <2>4, SeqEqual
  <2> QED  BY <2>5 DEF t
<1> HIDE DEF first
<1>5. 0 \in B
  <2>1. k.q \o <<>> = k.q  BY DEF ClientStates
  <2>2. SendsTo(k, <<>>, k)  BY <2>1 DEF SendsTo, ClientStates
  <2> QED  BY <1>0, <1>1, <1>3, <2>2
<1>6. ASSUME NEW i \in 1 .. n, i - 1 \in B  PROVE i \in B
  <2> DEFINE a == h[i - 1]
             b == h[i]
             c == first(i - 1)
             d == first(i)
  <2>1. i - 1 \in 0 .. n /\ i \in 0 .. n /\ a \in A /\ b \in A /\ cmds[i] \in Commands /\ b = Send(a, cmds[i])
    BY <1>0, <1>1
  <2>2. SendsTo(k, c, a)  BY <1>6
  <2>3. c \in Seq(Commands) /\ DOMAIN c = 1 .. i - 1 /\ Len(c) = i - 1
        /\ DOMAIN d = 1 .. i /\ d = Append(c, cmds[i]) /\ d[i] = cmds[i] /\ \A j \in 1 .. i - 1 : d[j] = c[j]
    <3>1. c \in Seq(Commands) /\ DOMAIN c = 1 .. i - 1 /\ Len(c) = i - 1 /\ \A j \in 1 .. i - 1 : c[j] = cmds[j]
      BY <1>2, <2>1
    <3>2. DOMAIN d = 1 .. i /\ \A j \in 1 .. i : d[j] = cmds[j]  BY <1>2, <2>1
    <3>3. d = Append(c, cmds[i])  BY <1>4
    <3> HIDE DEF c, d
    <3>4. i \in 1 .. i /\ \A j \in 1 .. i - 1 : j \in 1 .. i  OBVIOUS
    <3> QED  BY <3>1, <3>2, <3>3, <3>4
  <2> HIDE DEF a, b, c, d
  <2>4. Sent(a, cmds[i], b)
    <3>1. a \in ClientStates /\ Len(a.q) <= ClientSlots /\ cmds[i] \in Commands /\ b = Send(a, cmds[i])
      BY <2>1
    <3> QED  BY <3>1, SendOne
  <2>5. a.q \in Seq(Commands) /\ k.q \in Seq(Commands)  BY <2>1 DEF ClientStates
  <2>6. ASSUME NEW j \in DOMAIN b.q
        PROVE  (\E l \in DOMAIN k.q : b.q[j] = k.q[l]) \/ (\E l \in DOMAIN d : b.q[j] = d[l])
    <3>1. \A l \in DOMAIN c : l \in DOMAIN d /\ d[l] = c[l]  BY <2>3
    <3>2. CASE j \in DOMAIN a.q /\ b.q[j] = a.q[j]  BY <2>2, <3>1, <3>2 DEF SendsTo
    <3>3. CASE b.q[j] = cmds[i]  BY <2>3, <3>3
    <3>4. (j \in DOMAIN a.q /\ b.q[j] = a.q[j]) \/ b.q[j] = cmds[i]
      <4>1. CASE b.q = a.q  BY <4>1
      <4>2. CASE b.q = Append(a.q, cmds[i])
        <5>1. DOMAIN a.q = 1 .. Len(a.q) /\ DOMAIN b.q = 1 .. Len(a.q) + 1 /\ b.q[Len(a.q) + 1] = cmds[i]
              /\ (\A l \in DOMAIN a.q : b.q[l] = a.q[l]) /\ Len(a.q) \in Nat
          BY <2>1, <2>5, <4>2, SeqFacts
        <5> QED  BY <5>1
      <4> QED  BY <2>4, <4>1, <4>2 DEF Sent
    <3> QED  BY <3>2, <3>3, <3>4
  <2>7. ASSUME ~b.resync, k.pc \notin {"none", "gone"}  PROVE b.q = k.q \o d
    <3>1. ~a.resync /\ a.pc = k.pc  BY <2>2, <2>4, <2>7 DEF SendsTo, Sent
    <3>2. a.q = k.q \o c /\ b.q = Append(a.q, cmds[i])  BY <2>2, <2>4, <2>7, <3>1 DEF SendsTo, Sent
    <3>3. Append(k.q \o c, cmds[i]) = k.q \o Append(c, cmds[i])
      <4>1. c \in Seq(Commands) /\ <<cmds[i]>> \in Seq(Commands)  BY <2>1, <2>3
      <4>2. k.q \o c \in Seq(Commands)  BY <2>5, <4>1, ConcatProperties
      <4>3. Append(k.q \o c, cmds[i]) = (k.q \o c) \o <<cmds[i]>>  BY <2>1, <4>2, AppendIsConcat
      <4>4. Append(c, cmds[i]) = c \o <<cmds[i]>>  BY <2>1, <4>1, AppendIsConcat
      <4> DEFINE x == k.q
                 z == <<cmds[i]>>
      <4>5. (x \o c) \o z = x \o (c \o z)
        <5>1. x \in Seq(Commands) /\ z \in Seq(Commands) /\ c \in Seq(Commands)  BY <2>5, <4>1
        <5> HIDE DEF x, z
        <5> QED  BY <5>1, SMTT(30)
      <4> QED  BY <4>3, <4>4, <4>5
    <3> QED  BY <2>3, <3>2, <3>3
  <2>8. SendsTo(k, d, b)  BY <2>2, <2>4, <2>6, <2>7 DEF SendsTo, Sent
  <2> QED  BY <2>1, <2>8 DEF b, d
<1>7. \A i \in 0 .. n : i \in B
  <2>1. B \in SUBSET (0 .. n)  OBVIOUS
  <2> HIDE DEF B
  <2> QED  BY <1>0, <1>5, <1>6, <2>1, EveryPlace
<1>8. first(n) = cmds  BY SubSeqFull DEF first
<1> QED  BY <1>0, <1>1, <1>7, <1>8

-----------------------------------------------------------------------------
(* What a client does with its commands *)

\* A set of outputs as a sequence: each of them, once.
LEMMA SetToSeqFacts ==
    ASSUME NEW S \in SUBSET Outputs
    PROVE  /\ SetToSeq(S) \in Seq(S) /\ SetToSeq(S) \in Seq(Outputs)
           /\ \A x \in S : \E i \in 1 .. Len(SetToSeq(S)) : SetToSeq(S)[i] = x
           /\ \A i, j \in 1 .. Len(SetToSeq(S)) : SetToSeq(S)[i] = SetToSeq(S)[j] => i = j
<1>1. IsFiniteSet(S)  BY TopologyAssumption, FS_Subset
<1> DEFINE n == Cardinality(S)
           f == SetToSeq(S)
<1>2. n \in Nat /\ \E g \in [1 .. n -> S] : IsInjective(g)
  <2>1. n \in Nat  BY <1>1, FS_CardinalityType
  <2>2. ExistsBijection(1 .. n, S)  BY <1>1, FS_CardinalityType
  <2>3. PICK g : g \in Bijection(1 .. n, S)  BY <2>2 DEF ExistsBijection
  <2>4. g \in [1 .. n -> S] /\ \A i, j \in 1 .. n : g[i] = g[j] => i = j
    BY <2>3 DEF Bijection, Injection, IsInjective
  <2> QED  BY <2>1, <2>4 DEF IsInjective
<1>3. f \in [1 .. n -> S] /\ IsInjective(f)  BY <1>2 DEF SetToSeq
<1> HIDE DEF f
<1>4. f \in Injection(1 .. n, S)  BY <1>3 DEF IsInjective, Injection
<1>5. IsFiniteSet(1 .. n) /\ Cardinality(1 .. n) = n  BY <1>2, FS_Interval
<1>6. f \in Surjection(1 .. n, S)  BY <1>1, <1>4, <1>5, FS_Injection
<1>7. f \in Seq(S) /\ f \in Seq(Outputs) /\ Len(f) = n  BY <1>2, <1>3
<1> QED  BY <1>3, <1>6, <1>7 DEF f, Surjection, IsInjective

\* The globals a client has been offered once the events tell are flushed after
\* the ones in told.
OfferedBy(told, tell) ==
    {o \in Outputs :
       \/ o \in told /\ \A j \in DOMAIN tell : tell[j] # <<"global_remove", o>>
       \/ \E i \in DOMAIN tell : /\ tell[i] = <<"global", o>>
                                 /\ \A j \in DOMAIN tell : j > i => tell[j] # <<"global_remove", o>>}
Offered(k) == OfferedBy(k.told, k.unsent)

\* Nothing sent changes nothing.
LEMMA OfferedEmpty == \A told \in SUBSET Outputs : OfferedBy(told, <<>>) = told
BY DEF OfferedBy

\* A global adds an output to the offered ones, its removal takes it off.
LEMMA OfferedAppend ==
    ASSUME NEW told \in SUBSET Outputs, NEW tell \in Seq(Events), NEW o \in Outputs,
           NEW e \in Events
    PROVE  /\ e = <<"global", o>> => OfferedBy(told, Append(tell, e)) = OfferedBy(told, tell) \cup {o}
           /\ e = <<"global_remove", o>> => OfferedBy(told, Append(tell, e)) = OfferedBy(told, tell) \ {o}
<1> DEFINE n == Len(tell)
<1>0. \A x \in Outputs : <<"global", x>> \in Events /\ <<"global_remove", x>> \in Events
                         /\ <<"global", x>> # <<"global_remove", o>> /\ <<"global", o>> # <<"global_remove", x>>
  BY DEF Events
<1>1. n \in Nat /\ DOMAIN tell = 1 .. n  BY SeqFacts
<1>2. ASSUME e = <<"global", o>>, NEW t, t = Append(tell, e)
      PROVE  OfferedBy(told, t) = OfferedBy(told, tell) \cup {o}
  <2>1. DOMAIN t = 1 .. n + 1 /\ t[n + 1] = <<"global", o>> /\ \A i \in 1 .. n : t[i] = tell[i]
    BY <1>0, <1>1, <1>2, SeqFacts
  <2>2. o \in OfferedBy(told, t)
    <3>1. n + 1 \in DOMAIN t /\ \A j \in DOMAIN t : ~(j > n + 1)  BY <1>1, <2>1
    <3> QED  BY <2>1, <3>1 DEF OfferedBy
  <2>3. ASSUME NEW x \in Outputs, x # o  PROVE x \in OfferedBy(told, t) <=> x \in OfferedBy(told, tell)
    <3>1. t[n + 1] # <<"global", x>> /\ t[n + 1] # <<"global_remove", x>>  BY <1>0, <2>1, <2>3
    <3>2. \A j \in DOMAIN t : j \in DOMAIN tell \/ j = n + 1  BY <1>1, <2>1
    <3>3. \A j \in DOMAIN tell : j \in DOMAIN t /\ t[j] = tell[j]  BY <1>1, <2>1
    <3>4. (\A j \in DOMAIN t : t[j] # <<"global_remove", x>>) <=> (\A j \in DOMAIN tell : tell[j] # <<"global_remove", x>>)
      BY <3>1, <3>2, <3>3
    <3>5. ASSUME NEW i \in DOMAIN tell
          PROVE  (\A j \in DOMAIN t : j > i => t[j] # <<"global_remove", x>>)
                 <=> (\A j \in DOMAIN tell : j > i => tell[j] # <<"global_remove", x>>)
      BY <3>1, <3>2, <3>3
    <3>6. (\E i \in DOMAIN t : t[i] = <<"global", x>> /\ \A j \in DOMAIN t : j > i => t[j] # <<"global_remove", x>>)
          <=> (\E i \in DOMAIN tell : tell[i] = <<"global", x>>
                                      /\ \A j \in DOMAIN tell : j > i => tell[j] # <<"global_remove", x>>)
      BY <3>1, <3>2, <3>3, <3>5
    <3> QED  BY <3>4, <3>6 DEF OfferedBy
  <2>4. OfferedBy(told, t) \subseteq Outputs /\ OfferedBy(told, tell) \subseteq Outputs  BY DEF OfferedBy
  <2> QED  BY <2>2, <2>3, <2>4
<1>3. ASSUME e = <<"global_remove", o>>, NEW t, t = Append(tell, e)
      PROVE  OfferedBy(told, t) = OfferedBy(told, tell) \ {o}
  <2>1. DOMAIN t = 1 .. n + 1 /\ t[n + 1] = <<"global_remove", o>> /\ \A i \in 1 .. n : t[i] = tell[i]
    BY <1>0, <1>1, <1>3, SeqFacts
  <2>2. o \notin OfferedBy(told, t)
    <3>1. n + 1 \in DOMAIN t /\ \A i \in DOMAIN t : i # n + 1 => n + 1 > i  BY <1>1, <2>1
    <3>2. t[n + 1] # <<"global", o>>  BY <1>0, <2>1
    <3> QED  BY <2>1, <3>1, <3>2 DEF OfferedBy
  <2>3. ASSUME NEW x \in Outputs, x # o  PROVE x \in OfferedBy(told, t) <=> x \in OfferedBy(told, tell)
    <3>1. t[n + 1] # <<"global", x>> /\ t[n + 1] # <<"global_remove", x>>  BY <1>0, <2>1, <2>3
    <3>2. \A j \in DOMAIN t : j \in DOMAIN tell \/ j = n + 1  BY <1>1, <2>1
    <3>3. \A j \in DOMAIN tell : j \in DOMAIN t /\ t[j] = tell[j]  BY <1>1, <2>1
    <3>4. (\A j \in DOMAIN t : t[j] # <<"global_remove", x>>) <=> (\A j \in DOMAIN tell : tell[j] # <<"global_remove", x>>)
      BY <3>1, <3>2, <3>3
    <3>5. ASSUME NEW i \in DOMAIN tell
          PROVE  (\A j \in DOMAIN t : j > i => t[j] # <<"global_remove", x>>)
                 <=> (\A j \in DOMAIN tell : j > i => tell[j] # <<"global_remove", x>>)
      BY <3>1, <3>2, <3>3
    <3>6. (\E i \in DOMAIN t : t[i] = <<"global", x>> /\ \A j \in DOMAIN t : j > i => t[j] # <<"global_remove", x>>)
          <=> (\E i \in DOMAIN tell : tell[i] = <<"global", x>>
                                      /\ \A j \in DOMAIN tell : j > i => tell[j] # <<"global_remove", x>>)
      BY <3>1, <3>2, <3>3, <3>5
    <3> QED  BY <3>4, <3>6 DEF OfferedBy
  <2>4. OfferedBy(told, t) \subseteq Outputs /\ OfferedBy(told, tell) \subseteq Outputs  BY DEF OfferedBy
  <2> QED  BY <2>2, <2>3, <2>4
<1> QED  BY <1>2, <1>3

\* What a client keeps while it applies commands.
Keeps(k, r) ==
    /\ r.pc = k.pc /\ r.q = k.q /\ r.resync = k.resync /\ r.at = k.at /\ r.init = k.init
    /\ r.bound = k.bound /\ r.told = k.told /\ r.overtaken = k.overtaken
    /\ ~k.bound => r.unsent = k.unsent
    /\ k.bound /\ DOMAIN k.core \subseteq Offered(k) => DOMAIN r.core \subseteq Offered(r)

\* The outputs D of outs inserted, and the outputs D removed.
Grown(k, outs, D, r) ==
    /\ r \in ClientStates /\ Keeps(k, r)
    /\ r.live = [x \in DOMAIN k.live \cup D |-> IF x \in D THEN outs[x] ELSE k.live[x]]
    /\ r.core = [x \in DOMAIN k.core \cup D |-> IF x \in DOMAIN k.core THEN k.core[x] ELSE outs[x].mode]
Shrunk(k, D, r) ==
    /\ r \in ClientStates /\ Keeps(k, r)
    /\ r.live = [x \in DOMAIN k.live \ D |-> k.live[x]]
    /\ r.core = [x \in DOMAIN k.core \ D |-> k.core[x]]

\* A new output: in the projection, and in the core unless it is there.
LEMMA InsertOne ==
    ASSUME NEW k \in ClientStates, NEW o \in Outputs, NEW e \in Entries
    PROVE  /\ Insert(k, o, e) \in ClientStates
           /\ Keeps(k, Insert(k, o, e))
           /\ Insert(k, o, e).live = With(k.live, o, e)
           /\ Insert(k, o, e).core = IF o \in DOMAIN k.core THEN k.core ELSE With(k.core, o, e.mode)
<1> DEFINE j == [k EXCEPT !.live = With(@, o, e)]
<1>1. k.live \in Projections /\ k.core \in Maps /\ k.unsent \in Seq(Events) /\ k.told \in SUBSET Outputs
      /\ k.bound \in BOOLEAN
  BY DEF ClientStates
<1>2. With(k.live, o, e) \in Projections /\ With(k.core, o, e.mode) \in Maps
  BY <1>1, WithStays DEF Entries
<1>3. /\ j \in ClientStates /\ j.live = With(k.live, o, e) /\ j.core = k.core
      /\ j.pc = k.pc /\ j.q = k.q /\ j.resync = k.resync /\ j.at = k.at /\ j.init = k.init
      /\ j.bound = k.bound /\ j.told = k.told /\ j.overtaken = k.overtaken /\ j.unsent = k.unsent
  BY <1>2 DEF ClientStates
<1> DEFINE r == Insert(k, o, e)
<1>4. CASE o \in DOMAIN k.core
  <2>1. r = j  BY <1>3, <1>4 DEF Insert, CoreAdd
  <2> HIDE DEF r, j
  <2>2. Keeps(k, r)  BY <1>3, <2>1 DEF Keeps, Offered
  <2> QED  BY <1>3, <1>4, <2>1, <2>2 DEF r
<1>5. CASE o \notin DOMAIN k.core
  <2> DEFINE tell == IF k.bound THEN Append(k.unsent, <<"global", o>>) ELSE k.unsent
  <2>0. <<"global", o>> \in Events  BY DEF Events
  <2>1. tell \in Seq(Events)  BY <1>1, <2>0, SeqFacts
  <2>2. r = [j EXCEPT !.core = With(k.core, o, e.mode), !.unsent = tell]
    BY <1>3, <1>5 DEF Insert, CoreAdd
  <2> HIDE DEF tell, j, r
  <2>3. /\ r \in ClientStates /\ r.live = With(k.live, o, e) /\ r.core = With(k.core, o, e.mode)
        /\ r.pc = k.pc /\ r.q = k.q /\ r.resync = k.resync /\ r.at = k.at /\ r.init = k.init
        /\ r.bound = k.bound /\ r.told = k.told /\ r.overtaken = k.overtaken /\ r.unsent = tell
    BY <1>2, <1>3, <2>1, <2>2 DEF ClientStates
  <2>4. DOMAIN r.core = DOMAIN k.core \cup {o}
    <3>1. DOMAIN With(k.core, o, e.mode) = DOMAIN k.core \cup {o}  BY WithFacts
    <3> QED  BY <2>3, <3>1
  <2>5. ASSUME k.bound  PROVE Offered(r) = Offered(k) \cup {o}
    <3>1. r.unsent = Append(k.unsent, <<"global", o>>) /\ r.told = k.told  BY <2>3, <2>5 DEF tell
    <3>2. OfferedBy(k.told, Append(k.unsent, <<"global", o>>)) = OfferedBy(k.told, k.unsent) \cup {o}
      <4> DEFINE t == k.told
                 u == k.unsent
                 ev == <<"global", o>>
      <4>1. t \in SUBSET Outputs /\ u \in Seq(Events) /\ ev \in Events /\ ev = <<"global", o>>  BY <1>1, <2>0
      <4> HIDE DEF t, u, ev
      <4>2. OfferedBy(t, Append(u, ev)) = OfferedBy(t, u) \cup {o}  BY <4>1, OfferedAppend
      <4> QED  BY <4>2 DEF t, u, ev
    <3> QED  BY <3>1, <3>2 DEF Offered
  <2>6. ~k.bound => r.unsent = k.unsent  BY <2>3 DEF tell
  <2>7. Keeps(k, r)  BY <2>3, <2>4, <2>5, <2>6 DEF Keeps
  <2> QED  BY <1>5, <2>3, <2>7 DEF r
<1> QED  BY <1>4, <1>5

\* An output that goes: out of the projection and of the core.
LEMMA RemoveOne ==
    ASSUME NEW k \in ClientStates, NEW o \in Outputs, NEW r,
           r = CoreRemove([k EXCEPT !.live = Without(@, o)], o)
    PROVE  /\ r \in ClientStates
           /\ Keeps(k, r)
           /\ r.live = Without(k.live, o)
           /\ r.core = Without(k.core, o)
<1> DEFINE j == [k EXCEPT !.live = Without(@, o)]
<1>1. k.live \in Projections /\ k.core \in Maps /\ k.unsent \in Seq(Events) /\ k.told \in SUBSET Outputs
      /\ k.bound \in BOOLEAN
  BY DEF ClientStates
<1>2. Without(k.live, o) \in Projections /\ Without(k.core, o) \in Maps
  BY <1>1, WithStays
<1>3. /\ j \in ClientStates /\ j.live = Without(k.live, o) /\ j.core = k.core
      /\ j.pc = k.pc /\ j.q = k.q /\ j.resync = k.resync /\ j.at = k.at /\ j.init = k.init
      /\ j.bound = k.bound /\ j.told = k.told /\ j.overtaken = k.overtaken /\ j.unsent = k.unsent
  BY <1>2 DEF ClientStates
<1>4. CASE o \notin DOMAIN k.core
  <2>1. r = j  BY <1>3, <1>4 DEF CoreRemove
  <2> HIDE DEF j
  <2>2. Keeps(k, r)  BY <1>3, <2>1 DEF Keeps, Offered
  <2>3. Without(k.core, o) = k.core
    <3>1. DOMAIN k.core \ {o} = DOMAIN k.core /\ k.core \in [DOMAIN k.core -> Modes]  BY <1>1, <1>4, MapFacts
    <3> QED  BY <3>1 DEF Without
  <2> QED  BY <1>3, <1>4, <2>1, <2>2, <2>3
<1>5. CASE o \in DOMAIN k.core
  <2> DEFINE tell == IF k.bound THEN Append(k.unsent, <<"global_remove", o>>) ELSE k.unsent
  <2>0. <<"global_remove", o>> \in Events  BY DEF Events
  <2>1. tell \in Seq(Events)  BY <1>1, <2>0, SeqFacts
  <2>2. r = [j EXCEPT !.core = Without(k.core, o), !.unsent = tell]
    BY <1>3, <1>5 DEF CoreRemove
  <2> HIDE DEF tell, j
  <2>3. /\ r \in ClientStates /\ r.live = Without(k.live, o) /\ r.core = Without(k.core, o)
        /\ r.pc = k.pc /\ r.q = k.q /\ r.resync = k.resync /\ r.at = k.at /\ r.init = k.init
        /\ r.bound = k.bound /\ r.told = k.told /\ r.overtaken = k.overtaken /\ r.unsent = tell
    BY <1>2, <1>3, <2>1, <2>2 DEF ClientStates
  <2>4. DOMAIN r.core = DOMAIN k.core \ {o}  BY <2>3, WithFacts
  <2>5. ASSUME k.bound  PROVE Offered(r) = Offered(k) \ {o}
    <3>1. r.unsent = Append(k.unsent, <<"global_remove", o>>) /\ r.told = k.told  BY <2>3, <2>5 DEF tell
    <3>2. OfferedBy(k.told, Append(k.unsent, <<"global_remove", o>>)) = OfferedBy(k.told, k.unsent) \ {o}
      <4> DEFINE t == k.told
                 u == k.unsent
                 ev == <<"global_remove", o>>
      <4>1. t \in SUBSET Outputs /\ u \in Seq(Events) /\ ev \in Events /\ ev = <<"global_remove", o>>  BY <1>1, <2>0
      <4> HIDE DEF t, u, ev
      <4>2. OfferedBy(t, Append(u, ev)) = OfferedBy(t, u) \ {o}  BY <4>1, OfferedAppend
      <4> QED  BY <4>2 DEF t, u, ev
    <3> QED  BY <3>1, <3>2 DEF Offered
  <2>6. ~k.bound => r.unsent = k.unsent  BY <2>3 DEF tell
  <2>7. Keeps(k, r)  BY <2>3, <2>4, <2>5, <2>6 DEF Keeps
  <2> QED  BY <1>5, <2>3, <2>7
<1> QED  BY <1>4, <1>5

\* The insertions of InsertAll as a trace.
LEMMA InsertTrace ==
    ASSUME NEW k \in ClientStates, NEW outs \in Projections, NEW s \in Seq(DOMAIN outs)
    PROVE  \E h \in [0 .. Len(s) -> ClientStates] :
               /\ h[0] = k /\ h[Len(s)] = FoldLeft(LAMBDA a, o : Insert(a, o, outs[o]), k, s)
               /\ \A i \in 1 .. Len(s) : h[i] = Insert(h[i - 1], s[i], outs[s[i]])
<1> DEFINE A == ClientStates
           n == Len(s)
           S == 1 .. n
           Op(a, o) == Insert(a, o, outs[o])
           F == [p \in S \X A |-> Op(p[2], s[p[1]])]
           C == [u \in SUBSET S |-> Max(u)]
           G(f) == f = [u \in SUBSET S |-> IF u = {} THEN k ELSE Op(f[u \ {Max(u)}], s[Max(u)])]
           g == CHOOSE f : G(f)
<1>0. n \in Nat /\ DOMAIN s = S /\ \A i \in S : s[i] \in DOMAIN outs  BY SeqFacts
<1>1. FoldLeft(LAMBDA a, o : Insert(a, o, outs[o]), k, s) = g[S]
  BY <1>0 DEF FoldLeft, MapThenFoldSet
<1>2. IsFiniteSet(S) /\ Chooses(C, S)  BY <1>0, Segments, MaxIsIn DEF Chooses
<1>3. \A a \in A, o \in DOMAIN outs : Op(a, o) \in A  
  <2>1. \A o \in DOMAIN outs : o \in Outputs /\ outs[o] \in Entries  BY MapFacts
  <2> QED  BY <2>1, InsertOne
<1> HIDE DEF Op, A
<1>4. \A x \in S, a \in A : F[<<x, a>>] = Op(a, s[x]) /\ F[<<x, a>>] \in A  BY <1>0, <1>3
<1>k. k \in A  BY DEF A
<1> HIDE DEF F
<1>5. \E f : G(f)
  <2>1. PICK f : IsFold(f, k, F, C, S)  BY <1>2, FoldExists
  <2>2. \A u \in SUBSET S : f[u] \in A  BY <1>2, <1>k, <1>4, <2>1, FoldStays
  <2>3. \A u \in SUBSET S : u # {} => /\ Max(u) \in S /\ C[u] = Max(u) /\ f[u \ {Max(u)}] \in A
                                       /\ F[<<C[u], f[u \ {C[u]}]>>] = Op(f[u \ {Max(u)}], s[Max(u)])
    BY <1>0, <1>4, <2>2, MaxIsIn
  <2>4. f = [u \in SUBSET S |-> IF u = {} THEN k ELSE F[<<C[u], f[u \ {C[u]}]>>]]
    BY <2>1 DEF IsFold
  <2> HIDE DEF C
  <2>5. G(f)  BY <2>3, <2>4
  <2> QED  BY <2>5
<1>6. G(g)  BY <1>5
<1>7. \A u \in SUBSET S : g[u] = IF u = {} THEN k ELSE Op(g[u \ {Max(u)}], s[Max(u)])
  BY <1>6
<1> DEFINE B == {i \in 0 .. n : g[1 .. i] \in A}
           h == [i \in 0 .. n |-> g[1 .. i]]
<1> HIDE DEF g
<1>8. g[1 .. 0] = k  BY <1>0, <1>7, Segments
<1>9. ASSUME NEW i \in 1 .. n  PROVE g[1 .. i] = Op(g[1 .. (i - 1)], s[i])
  <2>1. 1 .. i \in SUBSET S /\ 1 .. i # {} /\ Max(1 .. i) = i /\ (1 .. i) \ {i} = 1 .. (i - 1)
    BY <1>0, Segments
  <2> QED  BY <1>7, <2>1
<1>10. \A i \in 0 .. n : i \in B
  <2>1. 0 \in B  BY <1>0, <1>k, <1>8
  <2>2. ASSUME NEW i \in 1 .. n, i - 1 \in B  PROVE i \in B
    <3>1. g[1 .. (i - 1)] \in A /\ i \in 0 .. n /\ s[i] \in DOMAIN outs  BY <1>0, <2>2
    <3>2. Op(g[1 .. (i - 1)], s[i]) \in A  BY <1>3, <3>1
    <3> QED  BY <1>9, <3>1, <3>2
  <2>3. B \in SUBSET (0 .. n)  OBVIOUS
  <2> HIDE DEF B
  <2> QED  BY <1>0, <2>1, <2>2, <2>3, EveryPlace
<1>11. h \in [0 .. n -> A] /\ h[0] = k /\ h[n] = g[S] /\ \A i \in 1 .. n : h[i] = Op(h[i - 1], s[i])
  BY <1>0, <1>8, <1>9, <1>10
<1> QED  BY <1>1, <1>11 DEF A, Op

\* The removals of RemoveAll as a trace.
LEMMA RemoveTrace ==
    ASSUME NEW k \in ClientStates, NEW s \in Seq(Outputs)
    PROVE  \E h \in [0 .. Len(s) -> ClientStates] :
               /\ h[0] = k /\ h[Len(s)] = FoldLeft(LAMBDA a, o : CoreRemove([a EXCEPT !.live = Without(@, o)], o), k, s)
               /\ \A i \in 1 .. Len(s) : h[i] = CoreRemove([h[i - 1] EXCEPT !.live = Without(@, s[i])], s[i])
<1> DEFINE A == ClientStates
           n == Len(s)
           S == 1 .. n
           Op(a, o) == CoreRemove([a EXCEPT !.live = Without(@, o)], o)
           F == [p \in S \X A |-> Op(p[2], s[p[1]])]
           C == [u \in SUBSET S |-> Max(u)]
           G(f) == f = [u \in SUBSET S |-> IF u = {} THEN k ELSE Op(f[u \ {Max(u)}], s[Max(u)])]
           g == CHOOSE f : G(f)
<1>0. n \in Nat /\ DOMAIN s = S /\ \A i \in S : s[i] \in Outputs  BY SeqFacts
<1>1. FoldLeft(LAMBDA a, o : CoreRemove([a EXCEPT !.live = Without(@, o)], o), k, s) = g[S]
  BY <1>0 DEF FoldLeft, MapThenFoldSet
<1>2. IsFiniteSet(S) /\ Chooses(C, S)  BY <1>0, Segments, MaxIsIn DEF Chooses
<1>3. \A a \in A, o \in Outputs : Op(a, o) \in A  BY RemoveOne
<1> HIDE DEF Op, A
<1>4. \A x \in S, a \in A : F[<<x, a>>] = Op(a, s[x]) /\ F[<<x, a>>] \in A  BY <1>0, <1>3
<1>k. k \in A  BY DEF A
<1> HIDE DEF F
<1>5. \E f : G(f)
  <2>1. PICK f : IsFold(f, k, F, C, S)  BY <1>2, FoldExists
  <2>2. \A u \in SUBSET S : f[u] \in A  BY <1>2, <1>k, <1>4, <2>1, FoldStays
  <2>3. \A u \in SUBSET S : u # {} => /\ Max(u) \in S /\ C[u] = Max(u) /\ f[u \ {Max(u)}] \in A
                                       /\ F[<<C[u], f[u \ {C[u]}]>>] = Op(f[u \ {Max(u)}], s[Max(u)])
    BY <1>0, <1>4, <2>2, MaxIsIn
  <2>4. f = [u \in SUBSET S |-> IF u = {} THEN k ELSE F[<<C[u], f[u \ {C[u]}]>>]]
    BY <2>1 DEF IsFold
  <2> HIDE DEF C
  <2>5. G(f)  BY <2>3, <2>4
  <2> QED  BY <2>5
<1>6. G(g)  BY <1>5
<1>7. \A u \in SUBSET S : g[u] = IF u = {} THEN k ELSE Op(g[u \ {Max(u)}], s[Max(u)])
  BY <1>6
<1> DEFINE B == {i \in 0 .. n : g[1 .. i] \in A}
           h == [i \in 0 .. n |-> g[1 .. i]]
<1> HIDE DEF g
<1>8. g[1 .. 0] = k  BY <1>0, <1>7, Segments
<1>9. ASSUME NEW i \in 1 .. n  PROVE g[1 .. i] = Op(g[1 .. (i - 1)], s[i])
  <2>1. 1 .. i \in SUBSET S /\ 1 .. i # {} /\ Max(1 .. i) = i /\ (1 .. i) \ {i} = 1 .. (i - 1)
    BY <1>0, Segments
  <2> QED  BY <1>7, <2>1
<1>10. \A i \in 0 .. n : i \in B
  <2>1. 0 \in B  BY <1>0, <1>k, <1>8
  <2>2. ASSUME NEW i \in 1 .. n, i - 1 \in B  PROVE i \in B
    <3>1. g[1 .. (i - 1)] \in A /\ i \in 0 .. n /\ s[i] \in Outputs  BY <1>0, <2>2
    <3>2. Op(g[1 .. (i - 1)], s[i]) \in A  BY <1>3, <3>1
    <3> QED  BY <1>9, <3>1, <3>2
  <2>3. B \in SUBSET (0 .. n)  OBVIOUS
  <2> HIDE DEF B
  <2> QED  BY <1>0, <2>1, <2>2, <2>3, EveryPlace
<1>11. h \in [0 .. n -> A] /\ h[0] = k /\ h[n] = g[S] /\ \A i \in 1 .. n : h[i] = Op(h[i - 1], s[i])
  BY <1>0, <1>8, <1>9, <1>10
<1> QED  BY <1>1, <1>11 DEF A, Op

\* The events of Delivered as a trace.
LEMMA TellTrace ==
    ASSUME NEW k \in SUBSET Outputs, NEW s \in Seq(Events)
    PROVE  \E h \in [0 .. Len(s) -> SUBSET Outputs] :
               /\ h[0] = k /\ h[Len(s)] = FoldLeft(Tell, k, s)
               /\ \A i \in 1 .. Len(s) : h[i] = Tell(h[i - 1], s[i])
<1> DEFINE A == SUBSET Outputs
           n == Len(s)
           S == 1 .. n
           Op(a, o) == Tell(a, o)
           F == [p \in S \X A |-> Op(p[2], s[p[1]])]
           C == [u \in SUBSET S |-> Max(u)]
           G(f) == f = [u \in SUBSET S |-> IF u = {} THEN k ELSE Op(f[u \ {Max(u)}], s[Max(u)])]
           g == CHOOSE f : G(f)
<1>0. n \in Nat /\ DOMAIN s = S /\ \A i \in S : s[i] \in Events  BY SeqFacts
<1>1. FoldLeft(Tell, k, s) = g[S]
  BY <1>0 DEF FoldLeft, MapThenFoldSet
<1>2. IsFiniteSet(S) /\ Chooses(C, S)  BY <1>0, Segments, MaxIsIn DEF Chooses
<1>3. \A a \in A, o \in Events : Op(a, o) \in A  BY DEF Events, Tell
<1> HIDE DEF Op, A
<1>4. \A x \in S, a \in A : F[<<x, a>>] = Op(a, s[x]) /\ F[<<x, a>>] \in A  BY <1>0, <1>3
<1>k. k \in A  BY DEF A
<1> HIDE DEF F
<1>5. \E f : G(f)
  <2>1. PICK f : IsFold(f, k, F, C, S)  BY <1>2, FoldExists
  <2>2. \A u \in SUBSET S : f[u] \in A  BY <1>2, <1>k, <1>4, <2>1, FoldStays
  <2>3. \A u \in SUBSET S : u # {} => /\ Max(u) \in S /\ C[u] = Max(u) /\ f[u \ {Max(u)}] \in A
                                       /\ F[<<C[u], f[u \ {C[u]}]>>] = Op(f[u \ {Max(u)}], s[Max(u)])
    BY <1>0, <1>4, <2>2, MaxIsIn
  <2>4. f = [u \in SUBSET S |-> IF u = {} THEN k ELSE F[<<C[u], f[u \ {C[u]}]>>]]
    BY <2>1 DEF IsFold
  <2> HIDE DEF C
  <2>5. G(f)  BY <2>3, <2>4
  <2> QED  BY <2>5
<1>6. G(g)  BY <1>5
<1>7. \A u \in SUBSET S : g[u] = IF u = {} THEN k ELSE Op(g[u \ {Max(u)}], s[Max(u)])
  BY <1>6
<1> DEFINE B == {i \in 0 .. n : g[1 .. i] \in A}
           h == [i \in 0 .. n |-> g[1 .. i]]
<1> HIDE DEF g
<1>8. g[1 .. 0] = k  BY <1>0, <1>7, Segments
<1>9. ASSUME NEW i \in 1 .. n  PROVE g[1 .. i] = Op(g[1 .. (i - 1)], s[i])
  <2>1. 1 .. i \in SUBSET S /\ 1 .. i # {} /\ Max(1 .. i) = i /\ (1 .. i) \ {i} = 1 .. (i - 1)
    BY <1>0, Segments
  <2> QED  BY <1>7, <2>1
<1>10. \A i \in 0 .. n : i \in B
  <2>1. 0 \in B  BY <1>0, <1>k, <1>8
  <2>2. ASSUME NEW i \in 1 .. n, i - 1 \in B  PROVE i \in B
    <3>1. g[1 .. (i - 1)] \in A /\ i \in 0 .. n /\ s[i] \in Events  BY <1>0, <2>2
    <3>2. Op(g[1 .. (i - 1)], s[i]) \in A  BY <1>3, <3>1
    <3> QED  BY <1>9, <3>1, <3>2
  <2>3. B \in SUBSET (0 .. n)  OBVIOUS
  <2> HIDE DEF B
  <2> QED  BY <1>0, <2>1, <2>2, <2>3, EveryPlace
<1>11. h \in [0 .. n -> A] /\ h[0] = k /\ h[n] = g[S] /\ \A i \in 1 .. n : h[i] = Op(h[i - 1], s[i])
  BY <1>0, <1>8, <1>9, <1>10
<1> QED  BY <1>1, <1>11 DEF A, Op

\* All outputs of a map.
LEMMA InsertAllGrows ==
    ASSUME NEW k \in ClientStates, NEW outs \in Projections
    PROVE  Grown(k, outs, DOMAIN outs, InsertAll(k, outs))
<1> DEFINE D == DOMAIN outs
           s == SetToSeq(D)
           n == Len(s)
           E(i) == {s[j] : j \in 1 .. i}
<1>0. outs \in [D -> Entries] /\ D \in SUBSET Outputs  BY MapFacts
<1>1. s \in Seq(D) /\ \A x \in D : \E i \in 1 .. n : s[i] = x  BY <1>0, SetToSeqFacts
<1> HIDE DEF s
<1>2. n \in Nat /\ \A i \in 1 .. n : s[i] \in D /\ s[i] \in Outputs /\ outs[s[i]] \in Entries  BY <1>0, <1>1
<1>3. E(n) = D /\ E(0) = {} /\ \A i \in 1 .. n : E(i) = E(i - 1) \cup {s[i]}
  <2>1. E(n) = D  BY <1>1, <1>2
  <2>2. E(0) = {}  OBVIOUS
  <2>3. ASSUME NEW i \in 1 .. n  PROVE E(i) = E(i - 1) \cup {s[i]}
    <3>1. 1 .. i = (1 .. (i - 1)) \cup {i}  BY <1>2
    <3> QED  BY <3>1
  <2> QED  BY <2>1, <2>2, <2>3
<1>4. PICK h \in [0 .. n -> ClientStates] :
          /\ h[0] = k /\ h[n] = FoldLeft(LAMBDA a, o : Insert(a, o, outs[o]), k, s)
          /\ \A i \in 1 .. n : h[i] = Insert(h[i - 1], s[i], outs[s[i]])
  BY <1>1, InsertTrace
<1> DEFINE B == {i \in 0 .. n : Grown(k, outs, E(i), h[i])}
<1> HIDE DEF E
<1>5. 0 \in B
  <2>1. k.live \in [DOMAIN k.live -> Entries] /\ k.core \in [DOMAIN k.core -> Modes]
    BY MapFacts DEF ClientStates
  <2>2. Keeps(k, k)  BY DEF Keeps
  <2>3. DOMAIN k.live \cup {} = DOMAIN k.live /\ DOMAIN k.core \cup {} = DOMAIN k.core  OBVIOUS
  <2>4. /\ k.live = [x \in DOMAIN k.live \cup {} |-> IF x \in {} THEN outs[x] ELSE k.live[x]]
        /\ k.core = [x \in DOMAIN k.core \cup {} |-> IF x \in DOMAIN k.core THEN k.core[x] ELSE outs[x].mode]
    BY <2>1, <2>3
  <2>5. Grown(k, outs, {}, k)  BY <2>2, <2>4 DEF Grown
  <2>6. E(0) = {} /\ h[0] = k  BY <1>3, <1>4
  <2>7. Grown(k, outs, E(0), h[0])  BY <2>5, <2>6
  <2> QED  BY <1>2, <2>7
<1>6. ASSUME NEW i \in 1 .. n, i - 1 \in B  PROVE i \in B
  <2> DEFINE a == h[i - 1]
             b == h[i]
             o == s[i]
             e == outs[o]
             X == E(i - 1)
  <2>1. i - 1 \in 0 .. n /\ i \in 0 .. n  BY <1>2
  <2>2. a \in ClientStates /\ b = Insert(a, o, e) /\ o \in Outputs /\ e \in Entries /\ Grown(k, outs, X, a)
        /\ E(i) = X \cup {o}
    BY <1>2, <1>3, <1>4, <1>6, <2>1
  <2> HIDE DEF a, b, X
  <2> SUFFICES Grown(k, outs, X \cup {o}, b)  BY <2>1, <2>2 DEF b
  <2>3. /\ b \in ClientStates /\ Keeps(a, b) /\ b.live = With(a.live, o, e)
        /\ b.core = IF o \in DOMAIN a.core THEN a.core ELSE With(a.core, o, e.mode)
    <3> HIDE DEF o, e
    <3> QED  BY <2>2, InsertOne
  <2>4. Keeps(k, b)  BY <2>2, <2>3 DEF Grown, Keeps
  <2>5. b.live = [x \in DOMAIN k.live \cup (X \cup {o}) |-> IF x \in X \cup {o} THEN outs[x] ELSE k.live[x]]
    <3>1. a.live = [x \in DOMAIN k.live \cup X |-> IF x \in X THEN outs[x] ELSE k.live[x]]  BY <2>2 DEF Grown
    <3>2. DOMAIN a.live \cup {o} = DOMAIN k.live \cup (X \cup {o})  BY <3>1
    <3>3. b.live = [x \in DOMAIN a.live \cup {o} |-> IF x = o THEN e ELSE a.live[x]]  BY <2>3 DEF With
    <3> HIDE DEF o
    <3> QED  BY <3>1, <3>2, <3>3
  <2>6. b.core = [x \in DOMAIN k.core \cup (X \cup {o}) |-> IF x \in DOMAIN k.core THEN k.core[x] ELSE outs[x].mode]
    <3>1. a.core = [x \in DOMAIN k.core \cup X |-> IF x \in DOMAIN k.core THEN k.core[x] ELSE outs[x].mode]
      BY <2>2 DEF Grown
    <3>2. DOMAIN a.core \cup {o} = DOMAIN k.core \cup (X \cup {o}) /\ DOMAIN a.core = DOMAIN k.core \cup X  BY <3>1
    <3>3. CASE o \in DOMAIN a.core
      <4>1. DOMAIN k.core \cup X = DOMAIN k.core \cup (X \cup {o})  BY <3>2, <3>3
      <4> QED  BY <2>3, <3>1, <3>3, <4>1
    <3>4. CASE o \notin DOMAIN a.core
      <4>1. b.core = [x \in DOMAIN a.core \cup {o} |-> IF x = o THEN e.mode ELSE a.core[x]]
        BY <2>3, <3>4 DEF With
      <4>2. o \notin DOMAIN k.core /\ o \notin X  BY <3>2, <3>4
      <4> HIDE DEF o
      <4> QED  BY <3>1, <3>2, <4>1, <4>2
    <3> QED  BY <3>3, <3>4
  <2> QED  BY <2>3, <2>4, <2>5, <2>6 DEF Grown
<1>7. \A i \in 0 .. n : i \in B
  <2>1. B \in SUBSET (0 .. n)  OBVIOUS
  <2> HIDE DEF B
  <2> QED  BY <1>2, <1>5, <1>6, <2>1, EveryPlace
<1>8. Grown(k, outs, E(n), h[n])  BY <1>2, <1>7
<1>9. Grown(k, outs, D, h[n])  BY <1>3, <1>8
<1>10. h[n] = InsertAll(k, outs)  BY <1>4 DEF InsertAll, s
<1> QED  BY <1>9, <1>10

\* All outputs of a set.
LEMMA RemoveAllShrinks ==
    ASSUME NEW k \in ClientStates, NEW D \in SUBSET Outputs
    PROVE  Shrunk(k, D, RemoveAll(k, D))
<1> DEFINE s == SetToSeq(D)
           n == Len(s)
           E(i) == {s[j] : j \in 1 .. i}
<1>1. s \in Seq(D) /\ s \in Seq(Outputs) /\ \A x \in D : \E i \in 1 .. n : s[i] = x  BY SetToSeqFacts
<1> HIDE DEF s
<1>2. n \in Nat /\ \A i \in 1 .. n : s[i] \in D /\ s[i] \in Outputs  BY <1>1
<1>3. E(n) = D /\ E(0) = {} /\ \A i \in 1 .. n : E(i) = E(i - 1) \cup {s[i]}
  <2>1. E(n) = D  BY <1>1, <1>2
  <2>2. E(0) = {}  OBVIOUS
  <2>3. ASSUME NEW i \in 1 .. n  PROVE E(i) = E(i - 1) \cup {s[i]}
    <3>1. 1 .. i = (1 .. (i - 1)) \cup {i}  BY <1>2
    <3> QED  BY <3>1
  <2> QED  BY <2>1, <2>2, <2>3
<1>4. PICK h \in [0 .. n -> ClientStates] :
          /\ h[0] = k /\ h[n] = FoldLeft(LAMBDA a, o : CoreRemove([a EXCEPT !.live = Without(@, o)], o), k, s)
          /\ \A i \in 1 .. n : h[i] = CoreRemove([h[i - 1] EXCEPT !.live = Without(@, s[i])], s[i])
  BY <1>1, RemoveTrace
<1> DEFINE B == {i \in 0 .. n : Shrunk(k, E(i), h[i])}
<1> HIDE DEF E
<1>5. 0 \in B
  <2>1. k.live \in [DOMAIN k.live -> Entries] /\ k.core \in [DOMAIN k.core -> Modes]
    BY MapFacts DEF ClientStates
  <2>2. Keeps(k, k)  BY DEF Keeps
  <2>3. DOMAIN k.live \ {} = DOMAIN k.live /\ DOMAIN k.core \ {} = DOMAIN k.core  OBVIOUS
  <2>5. Shrunk(k, {}, k)  BY <2>1, <2>2, <2>3 DEF Shrunk
  <2>6. E(0) = {} /\ h[0] = k  BY <1>3, <1>4
  <2>7. Shrunk(k, E(0), h[0])  BY <2>5, <2>6
  <2> QED  BY <1>2, <2>7
<1>6. ASSUME NEW i \in 1 .. n, i - 1 \in B  PROVE i \in B
  <2> DEFINE a == h[i - 1]
             b == h[i]
             o == s[i]
             X == E(i - 1)
  <2>1. i - 1 \in 0 .. n /\ i \in 0 .. n  BY <1>2
  <2>2. a \in ClientStates /\ b = CoreRemove([a EXCEPT !.live = Without(@, o)], o) /\ o \in Outputs
        /\ Shrunk(k, X, a) /\ E(i) = X \cup {o}
    BY <1>2, <1>3, <1>4, <1>6, <2>1
  <2> HIDE DEF a, b, X, o
  <2> SUFFICES Shrunk(k, X \cup {o}, b)  BY <2>1, <2>2 DEF b
  <2>3. b \in ClientStates /\ Keeps(a, b) /\ b.live = Without(a.live, o) /\ b.core = Without(a.core, o)
    BY <2>2, RemoveOne
  <2>4. Keeps(k, b)  BY <2>2, <2>3 DEF Shrunk, Keeps
  <2>5. b.live = [x \in DOMAIN k.live \ (X \cup {o}) |-> k.live[x]]
    <3>1. a.live = [x \in DOMAIN k.live \ X |-> k.live[x]]  BY <2>2 DEF Shrunk
    <3>2. DOMAIN a.live \ {o} = DOMAIN k.live \ (X \cup {o})  BY <3>1
    <3> QED  BY <2>3, <3>1, <3>2 DEF Without
  <2>6. b.core = [x \in DOMAIN k.core \ (X \cup {o}) |-> k.core[x]]
    <3>1. a.core = [x \in DOMAIN k.core \ X |-> k.core[x]]  BY <2>2 DEF Shrunk
    <3>2. DOMAIN a.core \ {o} = DOMAIN k.core \ (X \cup {o})  BY <3>1
    <3> QED  BY <2>3, <3>1, <3>2 DEF Without
  <2> QED  BY <2>3, <2>4, <2>5, <2>6 DEF Shrunk
<1>7. \A i \in 0 .. n : i \in B
  <2>1. B \in SUBSET (0 .. n)  OBVIOUS
  <2> HIDE DEF B
  <2> QED  BY <1>2, <1>5, <1>6, <2>1, EveryPlace
<1>8. Shrunk(k, E(n), h[n])  BY <1>2, <1>7
<1>9. Shrunk(k, D, h[n])  BY <1>3, <1>8
<1>10. h[n] = RemoveAll(k, D)  BY <1>4 DEF RemoveAll, s
<1> QED  BY <1>9, <1>10

\* What the client has been told after a flush.
LEMMA DeliveredTells ==
    ASSUME NEW k \in ClientStates
    PROVE  Delivered(k) = [k EXCEPT !.unsent = <<>>, !.told = Offered(k)]
<1> DEFINE s == k.unsent
           t == k.told
           n == Len(s)
           first(i) == SubSeq(s, 1, i)
<1>0. s \in Seq(Events) /\ t \in SUBSET Outputs  BY DEF ClientStates
<1> SUFFICES FoldLeft(Tell, t, s)
             = OfferedBy(t, s)
  BY DEF Delivered, Offered
<1> HIDE DEF s, t
<1>1. n \in Nat /\ \A i \in 1 .. n : s[i] \in Events  BY <1>0
<1>2. PICK h \in [0 .. n -> SUBSET Outputs] :
          /\ h[0] = t
          /\ h[n] = FoldLeft(Tell, t, s)
          /\ \A i \in 1 .. n : h[i] = Tell(h[i - 1], s[i])
  BY <1>0, TellTrace
<1> DEFINE B == {i \in 0 .. n : h[i] = OfferedBy(t, first(i))}
<1>3. first(0) = <<>>  BY <1>0, <1>1, SubSeqEmpty
<1>4. \A i \in 0 .. n : first(i) \in Seq(Events)  BY <1>1, SubSeqProperties
<1>5. \A i \in 1 .. n : first(i) = Append(first(i - 1), s[i])
  <2> SUFFICES ASSUME NEW i \in 1 .. n  PROVE first(i) = Append(first(i - 1), s[i])  OBVIOUS
  <2>1. first(i) = first(i - 1) \o <<s[i]>>  BY <1>0, <1>1, SubSeqRecursiveSecond
  <2>2. first(i - 1) \in Seq(Events) /\ s[i] \in Events  BY <1>1, <1>4
  <2> HIDE DEF first
  <2> QED  BY <2>1, <2>2, AppendIsConcat
<1> HIDE DEF first
<1>6. 0 \in B
  <2>1. OfferedBy(t, first(0)) = t  BY <1>0, <1>3, OfferedEmpty
  <2> QED  BY <1>1, <1>2, <2>1
<1>7. ASSUME NEW i \in 1 .. n, i - 1 \in B  PROVE i \in B
  <2>1. PICK o \in Outputs : s[i] = <<"global", o>> \/ s[i] = <<"global_remove", o>>  BY <1>1 DEF Events
  <2>2. first(i - 1) \in Seq(Events) /\ h[i - 1] = OfferedBy(t, first(i - 1)) /\ i \in 0 .. n
    BY <1>1, <1>4, <1>7
  <2> DEFINE e == s[i]
             u == first(i - 1)
  <2>a. e \in Events /\ u \in Seq(Events) /\ first(i) = Append(u, e) /\ h[i] = Tell(OfferedBy(t, u), e)
    BY <1>1, <1>2, <1>5, <2>2
  <2> HIDE DEF e, u
  <2>3. CASE e = <<"global", o>>
    <3>1. h[i] = OfferedBy(t, u) \cup {o}  BY <2>a, <2>3 DEF Tell
    <3>2. OfferedBy(t, Append(u, e)) = OfferedBy(t, u) \cup {o}  BY <1>0, <2>a, <2>3, OfferedAppend
    <3> QED  BY <2>2, <2>a, <3>1, <3>2
  <2>4. CASE e = <<"global_remove", o>>
    <3>1. h[i] = OfferedBy(t, u) \ {o}  BY <2>a, <2>4 DEF Tell
    <3>2. OfferedBy(t, Append(u, e)) = OfferedBy(t, u) \ {o}  BY <1>0, <2>a, <2>4, OfferedAppend
    <3> QED  BY <2>2, <2>a, <3>1, <3>2
  <2> QED  BY <2>1, <2>3, <2>4 DEF e
<1>8. \A i \in 0 .. n : i \in B
  <2>1. B \in SUBSET (0 .. n)  OBVIOUS
  <2> HIDE DEF B
  <2> QED  BY <1>1, <1>6, <1>7, <2>1, EveryPlace
<1>9. first(n) = s  BY <1>0, SubSeqFull DEF first
<1> QED  BY <1>1, <1>2, <1>8, <1>9

-----------------------------------------------------------------------------
(* Batches of commands *)

\* The stamps and the bounds are numbers.
LEMMA StampFacts ==
    /\ MaxChanges \in Nat /\ MaxFaults \in Nat /\ ClientSlots \in Nat \ {0} /\ BufferLimit \in Nat \ {0}
    /\ SubDepth \in Nat \ {0} /\ Slots \in Nat \ {0} /\ MaxSubs \in Nat \ {0}
    /\ \A at \in Stamps : at[1] \in Nat /\ at[2] \in Nat /\ at[1] <= MaxChanges + 1 /\ at[2] <= MaxChanges
                          /\ at = <<at[1], at[2]>>
    /\ <<0, 0>> \in Stamps
BY TopologyAssumption DEF Stamps

\* What the supervisor sends is a command.
LEMMA CommandFacts ==
    ASSUME NEW at \in Stamps
    PROVE  /\ \A kind \in {"reset", "recalculate"} : Command(kind, at, Empty) \in Commands
           /\ \A kind \in {"initial", "add"}, outs \in Projections : Command(kind, at, outs) \in Commands
           /\ \A o \in Outputs, e \in Entries : /\ One(o, e) \in Singles /\ One(o, e) \in Projections
                                                /\ Command("add", at, One(o, e)) \in Commands
                                                /\ Command("reconfigure", at, One(o, e)) \in Commands
           /\ \A o \in Outputs : Command("remove", at, One(o, None)) \in Commands
           /\ \A outs \in Lists : Command("remove", at, outs) \in Commands
           /\ \A o, e : DOMAIN One(o, e) = {o} /\ One(o, e)[o] = e
<1>1. \A o, e : DOMAIN One(o, e) = {o} /\ One(o, e)[o] = e  BY DEF One
<1>2. ASSUME NEW o \in Outputs, NEW e \in Entries  PROVE One(o, e) \in Singles /\ One(o, e) \in Projections
  <2>1. One(o, e) \in [{o} -> Entries] /\ DOMAIN One(o, e) = {o}  BY DEF One
  <2> QED  BY <2>1, MapFacts
<1>3. ASSUME NEW o \in Outputs  PROVE One(o, None) \in Lists
  <2>1. One(o, None) \in [{o} -> Entries \cup {None}] /\ DOMAIN One(o, None) = {o}  BY DEF One
  <2> QED  BY <2>1, MapFacts
<1>4. \A kind \in {"reset", "recalculate"} : Command(kind, at, Empty) \in Commands  BY DEF Command, Commands
<1>5. \A kind \in {"initial", "add"}, outs \in Projections : Command(kind, at, outs) \in Commands
  BY DEF Command, Commands
<1>6. \A outs \in Lists : Command("remove", at, outs) \in Commands  BY DEF Command, Commands
<1>7. \A outs \in Singles : Command("reconfigure", at, outs) \in Commands  BY DEF Command, Commands
<1> QED  BY <1>1, <1>2, <1>3, <1>4, <1>5, <1>6, <1>7

\* The three kinds of runs of commands of a batch.
Reconfigures(at, S, proj) ==
    LET s == SetToSeq(S) IN [i \in DOMAIN s |-> Command("reconfigure", at, One(s[i], proj[s[i]]))]

\* The same of one command per output.
LEMMA RunFacts ==
    ASSUME NEW at \in Stamps, NEW S \in SUBSET Outputs, NEW proj \in Projections
    PROVE  /\ Removes(at, S) \in Seq(Commands)
           /\ S \subseteq DOMAIN proj => Adds(at, S, proj) \in Seq(Commands) /\ Reconfigures(at, S, proj) \in Seq(Commands)
<1> DEFINE s == SetToSeq(S)
           n == Len(s)
<1>1. s \in Seq(S) /\ s \in Seq(Outputs)  BY SetToSeqFacts
<1> HIDE DEF s
<1>2. n \in Nat /\ DOMAIN s = 1 .. n /\ \A i \in 1 .. n : s[i] \in S /\ s[i] \in Outputs  BY <1>1
<1>3. ASSUME NEW f, f = [i \in 1 .. n |-> f[i]], \A i \in 1 .. n : f[i] \in Commands  PROVE f \in Seq(Commands)
  BY <1>2, <1>3
<1>4. Removes(at, S) \in Seq(Commands)
  <2> DEFINE f == [i \in 1 .. n |-> Command("remove", at, One(s[i], None))]
  <2>1. \A i \in 1 .. n : f[i] \in Commands  BY <1>2, CommandFacts
  <2>2. Removes(at, S) = f  BY <1>2 DEF Removes, s
  <2> QED  BY <1>3, <2>1, <2>2
<1>5. ASSUME S \subseteq DOMAIN proj
      PROVE  Adds(at, S, proj) \in Seq(Commands) /\ Reconfigures(at, S, proj) \in Seq(Commands)
  <2>0. \A i \in 1 .. n : s[i] \in Outputs /\ proj[s[i]] \in Entries  BY <1>2, <1>5, MapFacts
  <2> DEFINE f == [i \in 1 .. n |-> Command("add", at, One(s[i], proj[s[i]]))]
             g == [i \in 1 .. n |-> Command("reconfigure", at, One(s[i], proj[s[i]]))]
  <2>1. \A i \in 1 .. n : f[i] \in Commands /\ g[i] \in Commands  BY <2>0, CommandFacts
  <2>2. Adds(at, S, proj) = f /\ Reconfigures(at, S, proj) = g  BY <1>2 DEF Adds, Reconfigures, s
  <2> QED  BY <1>3, <2>1, <2>2
<1> QED  BY <1>4, <1>5

\* projection_diff_commands: removals, reconfigurations, additions, and the
\* command to recalculate.
LEMMA DiffFacts ==
    ASSUME NEW at \in Stamps, NEW old \in Projections, NEW new \in Projections
    PROVE  /\ projection_diff_commands(old, new, at)
                = ((Removes(at, DOMAIN old \ DOMAIN new)
                   \o Reconfigures(at, {o \in DOMAIN new \cap DOMAIN old : old[o] # new[o]}, new))
                   \o Adds(at, DOMAIN new \ DOMAIN old, new)) \o <<Recalculate(at)>>
           /\ projection_diff_commands(old, new, at) \in Seq(Commands)
<1> DEFINE C == {o \in DOMAIN new \cap DOMAIN old : old[o] # new[o]}
           x == Removes(at, DOMAIN old \ DOMAIN new)
           y == Reconfigures(at, C, new)
           z == Adds(at, DOMAIN new \ DOMAIN old, new)
           e == <<Recalculate(at)>>
<1>1. DOMAIN old \subseteq Outputs /\ DOMAIN new \subseteq Outputs  BY MapFacts
<1>2. x \in Seq(Commands) /\ z \in Seq(Commands) /\ y \in Seq(Commands)
  <2>1. (DOMAIN old \ DOMAIN new) \in SUBSET Outputs /\ (DOMAIN new \ DOMAIN old) \in SUBSET Outputs
        /\ C \in SUBSET Outputs /\ C \subseteq DOMAIN new /\ DOMAIN new \ DOMAIN old \subseteq DOMAIN new
    BY <1>1
  <2> HIDE DEF C
  <2> QED  BY <2>1, RunFacts
<1>3. e \in Seq(Commands)
  <2>1. Recalculate(at) \in Commands  BY CommandFacts DEF Recalculate
  <2> QED  BY <2>1
<1>4. projection_diff_commands(old, new, at) = ((x \o y) \o z) \o e
  BY DEF projection_diff_commands, Reconfigures
<1> HIDE DEF x, y, z, e
<1>5. x \o y \in Seq(Commands)  BY <1>2
<1>6. (x \o y) \o z \in Seq(Commands)  BY <1>2, <1>5
<1>7. ((x \o y) \o z) \o e \in Seq(Commands)  BY <1>3, <1>6
<1> QED  BY <1>4, <1>7 DEF x, y, z, e

\* What apply_authoritative_topology_snapshot broadcasts.
SnapshotCommands(r, at, outs) ==
    (IF at[1] # r.at[1]
     THEN <<Command("reset", at, Empty)>> \o Removes(at, DOMAIN r.proj) \o Adds(at, DOMAIN outs, outs)
     ELSE projection_diff_commands(r.proj, outs, at)) \o <<Recalculate(at)>>

\* The commands for a snapshot are commands.
LEMMA SnapshotCommandFacts ==
    ASSUME NEW at \in Stamps, NEW outs \in Projections, NEW r, r.proj \in Projections
    PROVE  SnapshotCommands(r, at, outs) \in Seq(Commands)
<1> DEFINE x == Removes(at, DOMAIN r.proj)
           y == Adds(at, DOMAIN outs, outs)
           e == <<Recalculate(at)>>
           f == <<Command("reset", at, Empty)>>
           z == projection_diff_commands(r.proj, outs, at)
<1>1. DOMAIN r.proj \in SUBSET Outputs /\ DOMAIN outs \in SUBSET Outputs  BY MapFacts
<1>2. x \in Seq(Commands) /\ y \in Seq(Commands)  BY <1>1, RunFacts
<1>3. e \in Seq(Commands) /\ f \in Seq(Commands)
  <2>1. Recalculate(at) \in Commands /\ Command("reset", at, Empty) \in Commands  BY CommandFacts DEF Recalculate
  <2> QED  BY <2>1
<1>4. z \in Seq(Commands)  BY DiffFacts
<1>5. SnapshotCommands(r, at, outs) = (IF at[1] # r.at[1] THEN f \o x \o y ELSE z) \o e
  BY DEF SnapshotCommands
<1> HIDE DEF x, y, z, e, f
<1>6. f \o x \o y \in Seq(Commands)  BY <1>2, <1>3
<1>7. (f \o x \o y) \o e \in Seq(Commands)  BY <1>3, <1>6
<1>8. z \o e \in Seq(Commands)  BY <1>3, <1>4
<1> QED  BY <1>5, <1>7, <1>8

\* apply_topology_delta takes the registry to the stamp of the delta.
LEMMA DeltaFacts ==
    ASSUME NEW d \in Deltas, NEW r \in [at : Stamps, proj : Projections]
    PROVE  /\ ApplyDelta(r, d) \in [at : Stamps, proj : Projections]
           /\ ApplyDelta(r, d).at = d.at
           /\ d.kind # "reset" => DeltaCommands(d) \in Seq(Commands)
<1>0. d.at \in Stamps /\ d.out \in Outputs /\ d.mode \in Modes /\ d.kind \in {"add", "reconfigure", "remove", "reset"}
      /\ r.proj \in Projections
  BY DEF Deltas
<1>1. d.kind # "remove" => DeltaEntry(d) \in Entries  BY <1>0 DEF DeltaEntry, Entry, Entries
<1>2. IF d.kind = "remove" THEN Without(r.proj, d.out) \in Projections ELSE With(r.proj, d.out, DeltaEntry(d)) \in Projections
  BY <1>0, <1>1, WithStays
<1>3. ApplyDelta(r, d) \in [at : Stamps, proj : Projections] /\ ApplyDelta(r, d).at = d.at
  BY <1>0, <1>2 DEF ApplyDelta
<1>4. ASSUME d.kind # "reset"  PROVE DeltaCommands(d) \in Seq(Commands)
  <2> DEFINE x == Command(d.kind, d.at, One(d.out, DeltaEntry(d)))
             y == Recalculate(d.at)
  <2>1. x \in Commands
    <3>1. CASE d.kind = "remove"
      <4>1. DeltaEntry(d) = None  BY <3>1 DEF DeltaEntry
      <4> QED  BY <1>0, <3>1, <4>1, CommandFacts
    <3>2. CASE d.kind \in {"add", "reconfigure"}  BY <1>0, <1>1, <3>2, CommandFacts
    <3> QED  BY <1>0, <1>4, <3>1, <3>2
  <2>2. y \in Commands  BY <1>0, CommandFacts DEF Recalculate
  <2>3. DeltaCommands(d) = <<x, y>>  BY DEF DeltaCommands
  <2> HIDE DEF x, y
  <2> QED  BY <2>1, <2>2, <2>3
<1> QED  BY <1>3, <1>4

\* The delta that is replayed last is one of them.
LEMMA LatestIsIn ==
    ASSUME NEW buf \in Seq(Deltas), NEW I \in SUBSET DOMAIN buf, I # {}
    PROVE  Latest(buf, I) \in I
<1> DEFINE T == {MaxChanges - buf[i].at[2] : i \in I}
<1>1. \A i \in I : buf[i] \in Deltas  BY SeqFacts
<1>2. \A i \in I : buf[i].at[2] \in Nat /\ buf[i].at[2] <= MaxChanges  BY <1>1, StampFacts DEF Deltas
<1>3. T \in SUBSET Nat /\ T # {}  BY <1>2, StampFacts
<1> HIDE DEF T
<1>4. PICK m \in T : \A y \in T : m <= y  BY <1>3, LeastOf
<1>5. PICK i \in I : m = MaxChanges - buf[i].at[2]  BY <1>4 DEF T
<1>6. \A j \in I : MaxChanges - buf[i].at[2] <= MaxChanges - buf[j].at[2]  BY <1>4, <1>5 DEF T
<1>7. ASSUME NEW j \in I  PROVE buf[j].at[2] <= buf[i].at[2]
  <2> DEFINE x == buf[j].at[2]
             y == buf[i].at[2]
  <2>1. x \in Nat /\ y \in Nat /\ MaxChanges \in Nat /\ MaxChanges - y <= MaxChanges - x  BY <1>2, <1>6, StampFacts
  <2> HIDE DEF x, y
  <2>2. x <= y  BY <2>1
  <2> QED  BY <2>2 DEF x, y
<1> QED  BY <1>7 DEF Latest

\* A replay keeps to a set that the replay of one delta keeps to.
LEMMA ReplayStays ==
    ASSUME NEW buf \in Seq(Deltas), NEW A, NEW r, NEW cmds, [reg |-> r, cmds |-> cmds] \in A,
           \A i \in DOMAIN buf, acc \in A : ReplayOne(acc, buf[i]) \in A
    PROVE  Replay(r, cmds, buf) \in A
<1> DEFINE n == Len(buf)
           S == 1 .. n
           b == [reg |-> r, cmds |-> cmds]
           F == [p \in S \X A |-> ReplayOne(p[2], buf[p[1]])]
           C == [u \in SUBSET S |-> Latest(buf, u)]
           G(f) == f = [u \in SUBSET S |-> IF u = {} THEN b
                                           ELSE ReplayOne(f[u \ {Latest(buf, u)}], buf[Latest(buf, u)])]
           g == CHOOSE f : G(f)
<1>0. n \in Nat /\ DOMAIN buf = S  BY SeqFacts
<1>1. Replay(r, cmds, buf) = g[S]
  BY <1>0 DEF Replay, MapThenFoldSet
<1>2. \A u \in SUBSET S : u # {} => Latest(buf, u) \in u  BY <1>0, LatestIsIn
<1>3. IsFiniteSet(S) /\ Chooses(C, S)  BY <1>0, <1>2, Segments DEF Chooses
<1> HIDE DEF b
<1>4. b \in A  BY DEF b
<1>5. \A x \in S, a \in A : F[<<x, a>>] = ReplayOne(a, buf[x]) /\ F[<<x, a>>] \in A  BY <1>0
<1> HIDE DEF F
<1>6. \E f : G(f) /\ \A u \in SUBSET S : f[u] \in A
  <2>1. PICK f : IsFold(f, b, F, C, S)  BY <1>3, FoldExists
  <2>2. \A u \in SUBSET S : f[u] \in A  BY <1>3, <1>4, <1>5, <2>1, FoldStays
  <2>3. \A u \in SUBSET S : u # {} => /\ Latest(buf, u) \in S /\ C[u] = Latest(buf, u) /\ f[u \ {Latest(buf, u)}] \in A
                                       /\ F[<<C[u], f[u \ {C[u]}]>>] = ReplayOne(f[u \ {Latest(buf, u)}], buf[Latest(buf, u)])
    BY <1>2, <1>5, <2>2
  <2>4. f = [u \in SUBSET S |-> IF u = {} THEN b ELSE F[<<C[u], f[u \ {C[u]}]>>]]
    BY <2>1 DEF IsFold
  <2> HIDE DEF C
  <2>5. G(f)  BY <2>3, <2>4
  <2> QED  BY <2>2, <2>5
<1>7. G(g)  BY <1>6
<1>8. PICK f : G(f) /\ \A u \in SUBSET S : f[u] \in A  BY <1>6
<1>9. f = g
  <2> DEFINE H == [p \in S \X A |-> F[p]]
  <2>1. \A u \in SUBSET S : g[u] = IF u = {} THEN b ELSE ReplayOne(g[u \ {Latest(buf, u)}], buf[Latest(buf, u)])
    BY <1>7
  <2>2. \A u \in SUBSET S : f[u] = IF u = {} THEN b ELSE ReplayOne(f[u \ {Latest(buf, u)}], buf[Latest(buf, u)])
    BY <1>8
  <2> DEFINE Bad == {u \in SUBSET S : f[u] # g[u]}
  <2>3. Bad = {}
    <3> SUFFICES ASSUME Bad # {}  PROVE FALSE  OBVIOUS
    <3>0. Bad \subseteq SUBSET S  OBVIOUS
    <3>1. PICK u \in Bad : \A U \in SUBSET u : U # u => U \notin Bad
      <4> HIDE DEF Bad
      <4> QED  BY <1>3, <3>0, SmallestBad
    <3>2. u \in SUBSET S /\ f[u] # g[u]  BY <3>1
    <3>3. u # {}  BY <2>1, <2>2, <3>2
    <3> DEFINE w == u \ {Latest(buf, u)}
    <3>4. w \in SUBSET u /\ w # u  BY <1>2, <3>2, <3>3
    <3>5. f[w] = g[w]  BY <3>1, <3>2, <3>4
    <3> QED  BY <2>1, <2>2, <3>2, <3>3, <3>5
  <2>4. \A u \in SUBSET S : f[u] = g[u]  BY <2>3
  <2>5. f = [u \in SUBSET S |-> f[u]] /\ g = [u \in SUBSET S |-> g[u]]  BY <1>7, <1>8
  <2> QED  BY <2>4, <2>5
<1> HIDE DEF g, G
<1>10. f[S] \in A  BY <1>8
<1> QED  BY <1>1, <1>9, <1>10

-----------------------------------------------------------------------------
(* What a client makes of one command: apply_client_command on the part of its *)
(* state that commands change, in closed form.                                *)

Views == [at : Stamps, live : Projections, core : Maps, gone : BOOLEAN]
ViewOf(k) == [at |-> k.at, live |-> k.live, core |-> k.core, gone |-> FALSE]
Over(f, g) == [x \in DOMAIN f \cup DOMAIN g |-> IF x \in DOMAIN g THEN g[x] ELSE f[x]]
Less(f, S) == [x \in DOMAIN f \ S |-> f[x]]
View(at, live, core) == [at |-> at, live |-> live, core |-> core, gone |-> FALSE]
Lost(v) == [at |-> v.at, live |-> v.live, core |-> v.core, gone |-> TRUE]

\* The command is older than what the view has, or of an epoch it has not been reset to.
Old(v, cmd) ==
    \/ v.at[1] # 0 /\ cmd.kind # "reset" /\ cmd.at[1] < v.at[1]
    \/ (cmd.kind = "reset" => v.at[1] # 0 /\ cmd.at[1] = v.at[1]) /\ cmd.at[2] < v.at[2]
Foreign(v, cmd) == cmd.kind # "reset" /\ v.at[1] # 0 /\ cmd.at[1] > v.at[1]
Effect(v, cmd) ==
    CASE cmd.kind \in {"initial", "add"} ->
            View(cmd.at, Over(v.live, cmd.outs), Over(ModesOf(cmd.outs), v.core))
      [] cmd.kind = "remove" ->
            View(cmd.at, Less(v.live, DOMAIN cmd.outs), Less(v.core, DOMAIN cmd.outs))
      [] cmd.kind = "reconfigure" ->
            IF DOMAIN cmd.outs \subseteq DOMAIN v.core
            THEN View(cmd.at, Over(v.live, cmd.outs), Over(v.core, ModesOf(cmd.outs)))
            ELSE Lost(v)
      [] OTHER -> View(cmd.at, v.live, v.core)
Ap(v, cmd) ==
    IF v.gone THEN v ELSE IF Foreign(v, cmd) THEN Lost(v) ELSE IF Old(v, cmd) THEN v ELSE Effect(v, cmd)

\* What a client keeps while it applies a command.
Remains(k, r) ==
    /\ r.pc = k.pc /\ r.q = k.q /\ r.resync = k.resync /\ r.init = k.init
    /\ r.bound = k.bound /\ r.told = k.told /\ r.overtaken = k.overtaken
    /\ ~k.bound => r.unsent = k.unsent
    /\ k.bound /\ DOMAIN k.core \subseteq Offered(k) => DOMAIN r.core \subseteq Offered(r)

\* The client leaves or has become w.
Becomes(k, w, r) ==
    /\ r \in ClientStates
    /\ w.gone => r = Gone
    /\ ~w.gone => Remains(k, r) /\ ViewOf(r) = w

\* A client that has left, and one that has not come yet.
LEMMA GoneFacts == Gone \in ClientStates /\ NewClient \in ClientStates /\ Gone.q = <<>> /\ Gone.pc = "gone"
<1>1. NewClient \in ClientStates
  BY EmptyFacts, StampFacts DEF NewClient, ClientStates
<1> QED  BY <1>1 DEF Gone, NewClient, ClientStates

\* What a command does that is neither old nor foreign.
Handled(k, k1, cmd) ==
    CASE cmd.kind \in {"initial", "add"} -> InsertAll(k1, cmd.outs)
      [] cmd.kind = "remove" -> RemoveAll(k1, DOMAIN cmd.outs)
      [] cmd.kind = "reconfigure" ->
             LET o == CHOOSE x \in DOMAIN cmd.outs : TRUE
             IN  IF o \notin DOMAIN k.core THEN Gone
                 ELSE [k1 EXCEPT !.live = With(@, o, cmd.outs[o]),
                                 !.core = [@ EXCEPT ![o] = cmd.outs[o].mode]]
      [] OTHER -> k1

\* A client that only changed its view has become that view.
LEMMA BecomesView ==
    ASSUME NEW k \in ClientStates, NEW r \in ClientStates, NEW w, w = View(r.at, r.live, r.core), Remains(k, r)
    PROVE  Becomes(k, w, r)
<1>1. w.gone = FALSE /\ ViewOf(r) = w  BY DEF View, ViewOf
<1> QED  BY <1>1 DEF Becomes

\* What the handler of a command does is its effect on the view.
LEMMA EffectFacts ==
    ASSUME NEW k \in ClientStates, NEW cmd \in Commands, NEW k1, k1 = [k EXCEPT !.at = cmd.at], NEW r,
           r = Handled(k, k1, cmd)
    PROVE  Becomes(k, Effect(ViewOf(k), cmd), r)
<1>0. cmd.at \in Stamps /\ k.live \in Projections /\ k.core \in Maps /\ k.unsent \in Seq(Events)
      /\ k.told \in SUBSET Outputs
  BY DEF Commands, ClientStates
<1>1. /\ k1 \in ClientStates /\ k1.at = cmd.at /\ k1.live = k.live /\ k1.core = k.core
      /\ k1.pc = k.pc /\ k1.q = k.q /\ k1.resync = k.resync /\ k1.init = k.init /\ k1.bound = k.bound
      /\ k1.told = k.told /\ k1.overtaken = k.overtaken /\ k1.unsent = k.unsent
  BY <1>0 DEF ClientStates
<1>2. ASSUME Keeps(k1, r)  PROVE Remains(k, r) /\ r.at = cmd.at
  BY <1>1, <1>2 DEF Keeps, Remains, Offered
<1>3. ViewOf(k) = View(k.at, k.live, k.core)  BY DEF ViewOf, View
<1>4. CASE cmd.kind \in {"initial", "add"}
  <2>1. cmd.outs \in Projections /\ r = InsertAll(k1, cmd.outs)  BY <1>4 DEF Commands, Handled
  <2>2. Grown(k1, cmd.outs, DOMAIN cmd.outs, r)  BY <1>1, <2>1, InsertAllGrows
  <2>3. r.live = Over(k.live, cmd.outs)  BY <1>1, <2>2 DEF Grown, Over
  <2>4. r.core = Over(ModesOf(cmd.outs), k.core)
    <3>1. DOMAIN ModesOf(cmd.outs) = DOMAIN cmd.outs /\ \A x \in DOMAIN cmd.outs : ModesOf(cmd.outs)[x] = cmd.outs[x].mode
      BY DEF ModesOf
    <3>2. r.core = [x \in DOMAIN k.core \cup DOMAIN cmd.outs |-> IF x \in DOMAIN k.core THEN k.core[x] ELSE cmd.outs[x].mode]
      BY <1>1, <2>2 DEF Grown
    <3> QED  BY <3>1, <3>2 DEF Over
  <2>5. Effect(ViewOf(k), cmd) = View(cmd.at, Over(k.live, cmd.outs), Over(ModesOf(cmd.outs), k.core))
    BY <1>4 DEF Effect, ViewOf
  <2>6. Remains(k, r) /\ r.at = cmd.at /\ r \in ClientStates  BY <1>2, <2>2 DEF Grown
  <2> QED  BY <2>3, <2>4, <2>5, <2>6, BecomesView
<1>5. CASE cmd.kind = "remove"
  <2>1. DOMAIN cmd.outs \in SUBSET Outputs /\ r = RemoveAll(k1, DOMAIN cmd.outs)  BY <1>5, MapFacts DEF Commands, Handled
  <2>2. Shrunk(k1, DOMAIN cmd.outs, r)
    <3> DEFINE D == DOMAIN cmd.outs
    <3>1. D \in SUBSET Outputs /\ r = RemoveAll(k1, D)  BY <2>1
    <3> HIDE DEF D
    <3>2. Shrunk(k1, D, r)  BY <1>1, <3>1, RemoveAllShrinks
    <3> QED  BY <3>2 DEF D
  <2>3. r.live = Less(k.live, DOMAIN cmd.outs)  BY <1>1, <2>2 DEF Shrunk, Less
  <2>4. r.core = Less(k.core, DOMAIN cmd.outs)  BY <1>1, <2>2 DEF Shrunk, Less
  <2>5. Effect(ViewOf(k), cmd) = View(cmd.at, Less(k.live, DOMAIN cmd.outs), Less(k.core, DOMAIN cmd.outs))
    BY <1>5 DEF Effect, ViewOf
  <2>6. Remains(k, r) /\ r.at = cmd.at /\ r \in ClientStates  BY <1>2, <2>2 DEF Shrunk
  <2> QED  BY <2>3, <2>4, <2>5, <2>6, BecomesView
<1>6. CASE cmd.kind = "reconfigure"
  <2>1. cmd.outs \in Singles  BY <1>6 DEF Commands
  <2>2. PICK o \in Outputs : DOMAIN cmd.outs = {o} /\ cmd.outs \in [{o} -> Entries]  BY <2>1, MapFacts
  <2>3. (CHOOSE x \in DOMAIN cmd.outs : TRUE) = o  BY <2>2
  <2> DEFINE e == cmd.outs[o]
  <2>4. e \in Entries /\ e.mode \in Modes  BY <2>2 DEF Entries
  <2>5. CASE o \notin DOMAIN k.core
    <3>1. r = Gone  BY <1>6, <2>3, <2>5 DEF Handled
    <3>2. Effect(ViewOf(k), cmd).gone  BY <1>6, <2>2, <2>5 DEF Effect, ViewOf, Lost
    <3> QED  BY <3>1, <3>2, GoneFacts DEF Becomes
  <2>6. CASE o \in DOMAIN k.core
    <3>1. r = [k1 EXCEPT !.live = With(@, o, e), !.core = [@ EXCEPT ![o] = e.mode]]  BY <1>6, <2>3, <2>6 DEF Handled
    <3>2. With(k.live, o, e) \in Projections  BY <1>0, <2>4, WithStays
    <3>3. [k.core EXCEPT ![o] = e.mode] \in Maps
      <4>1. k.core \in [DOMAIN k.core -> Modes] /\ DOMAIN k.core \subseteq Outputs  BY <1>0, MapFacts
      <4>2. [k.core EXCEPT ![o] = e.mode] \in [DOMAIN k.core -> Modes]  BY <2>4, <4>1
      <4> QED  BY <4>1, <4>2, MapFacts
    <3> HIDE DEF e
    <3>4. /\ r \in ClientStates /\ r.live = With(k.live, o, e) /\ r.core = [k.core EXCEPT ![o] = e.mode]
          /\ r.at = cmd.at
          /\ r.pc = k.pc /\ r.q = k.q /\ r.resync = k.resync /\ r.init = k.init /\ r.bound = k.bound
          /\ r.told = k.told /\ r.overtaken = k.overtaken /\ r.unsent = k.unsent
      BY <1>1, <3>1, <3>2, <3>3 DEF ClientStates
    <3>5. Remains(k, r)
      <4>1. DOMAIN r.core = DOMAIN k.core  BY <3>4
      <4> QED  BY <3>4, <4>1 DEF Remains, Offered
    <3>6. r.live = Over(k.live, cmd.outs)  BY <2>2, <3>4 DEF With, Over, e
    <3>7. r.core = Over(k.core, ModesOf(cmd.outs))
      <4>1. DOMAIN ModesOf(cmd.outs) = {o} /\ ModesOf(cmd.outs)[o] = e.mode  BY <2>2 DEF ModesOf, e
      <4>2. k.core \in [DOMAIN k.core -> Modes]  BY <1>0, MapFacts
      <4>3. DOMAIN k.core \cup {o} = DOMAIN k.core  BY <2>6
      <4>4. r.core = [x \in DOMAIN k.core |-> IF x = o THEN e.mode ELSE k.core[x]]  BY <3>4, <4>2
      <4> QED  BY <4>1, <4>3, <4>4 DEF Over
    <3>8. Effect(ViewOf(k), cmd) = View(cmd.at, Over(k.live, cmd.outs), Over(k.core, ModesOf(cmd.outs)))
      BY <1>6, <2>2, <2>6 DEF Effect, ViewOf
    <3> QED  BY <3>4, <3>5, <3>6, <3>7, <3>8, BecomesView
  <2> QED  BY <2>5, <2>6
<1>7. CASE cmd.kind \in {"reset", "recalculate"}
  <2>1. r = k1  BY <1>7 DEF Handled
  <2>2. Effect(ViewOf(k), cmd) = View(cmd.at, k.live, k.core)  BY <1>7 DEF Effect, ViewOf
  <2>3. Remains(k, r)  BY <1>1, <2>1 DEF Remains, Offered
  <2> QED  BY <1>1, <2>1, <2>2, <2>3, BecomesView
<1>8. cmd.kind \in {"reset", "recalculate", "initial", "add", "reconfigure", "remove"}  BY DEF Commands
<1> QED  BY <1>4, <1>5, <1>6, <1>7, <1>8

\* apply_client_command, the test of the stamp included.
LEMMA ApplyFacts ==
    ASSUME NEW k \in ClientStates, NEW cmd \in Commands, NEW r, r = Apply(k, cmd)
    PROVE  Becomes(k, Ap(ViewOf(k), cmd), r)
<1> DEFINE k1 == [k EXCEPT !.at = cmd.at]
           v == ViewOf(k)
<1>0. ~v.gone /\ v.at = k.at  BY DEF ViewOf
<1>1. ASSUME Foreign(v, cmd)  PROVE Becomes(k, Ap(v, cmd), r)
  <2>1. r = Gone  BY <1>0, <1>1, StampFacts DEF Apply, Foreign, ClientStates, Commands
  <2>2. Ap(v, cmd).gone  BY <1>0, <1>1 DEF Ap, Lost
  <2> QED  BY <2>1, <2>2, GoneFacts DEF Becomes
<1>2. ASSUME ~Foreign(v, cmd), Old(v, cmd)  PROVE Becomes(k, Ap(v, cmd), r)
  <2>1. r = k  BY <1>0, <1>2, StampFacts DEF Apply, Foreign, Old, ClientStates, Commands
  <2>2. Ap(v, cmd) = v  BY <1>0, <1>2 DEF Ap
  <2>3. Remains(k, k)  BY DEF Remains
  <2> QED  BY <1>0, <2>1, <2>2, <2>3 DEF Becomes
<1>3. ASSUME ~Foreign(v, cmd), ~Old(v, cmd)  PROVE Becomes(k, Ap(v, cmd), r)
  <2>1. Ap(v, cmd) = Effect(v, cmd)  BY <1>0, <1>3 DEF Ap
  <2>2. k.at[1] \in Nat /\ k.at[2] \in Nat /\ cmd.at[1] \in Nat /\ cmd.at[2] \in Nat
    BY StampFacts DEF ClientStates, Commands
  <2>3. CASE cmd.kind = "reset"
    <3>1. r = k1  BY <1>0, <1>3, <2>2, <2>3 DEF Apply, Old
    <3>2. r = Handled(k, k1, cmd)  BY <2>3, <3>1 DEF Handled
    <3> HIDE DEF k1
    <3>3. k1 = [k EXCEPT !.at = cmd.at]  BY DEF k1
    <3> QED  BY <2>1, <3>2, <3>3, EffectFacts
  <2>4. CASE cmd.kind # "reset"
    <3>1. ~(k.at[1] # 0 /\ cmd.at[1] < k.at[1]) /\ ~(k.at[1] # 0 /\ cmd.at[1] > k.at[1]) /\ ~(cmd.at[2] < k.at[2])
      BY <1>0, <1>3, <2>2, <2>4 DEF Foreign, Old
    <3>2. r = Handled(k, k1, cmd)  BY <2>4, <3>1 DEF Apply, Handled
    <3> HIDE DEF k1
    <3>3. k1 = [k EXCEPT !.at = cmd.at]  BY DEF k1
    <3> QED  BY <2>1, <3>2, <3>3, EffectFacts
  <2> QED  BY <2>3, <2>4
<1> QED  BY <1>1, <1>2, <1>3

-----------------------------------------------------------------------------
(* Everything that is on its way is true of the history of displayd's outputs *)

Le(a, b) == a[1] < b[1] \/ (a[1] = b[1] /\ a[2] <= b[2])
Pred(at) == <<at[1], at[2] - 1>>

\* A delta says how the outputs at its stamp differ from the ones before.
Genuine(l, d) ==
    /\ d.at \in DOMAIN l /\ d.at[2] >= 1 /\ Pred(d.at) \in DOMAIN l
    /\ d.kind = "remove" => l[d.at] = Without(l[Pred(d.at)], d.out)
    /\ d.kind \in {"add", "reconfigure"} => l[d.at] = With(l[Pred(d.at)], d.out, d.mode)
    /\ d.kind = "add" => d.out \notin DOMAIN l[Pred(d.at)]
    /\ d.kind = "reconfigure" => d.out \in DOMAIN l[Pred(d.at)]
Exact(l, at, outs) == at \in DOMAIN l /\ ModesOf(outs) = l[at]

TrueDeltas(l) == {d \in Deltas : Genuine(l, d)}
TrueResults(l) == {Failure} \cup {r \in [ok : {TRUE}, at : Stamps, outs : Projections] : Exact(l, r.at, r.outs)}
TrueInputs(l) ==
    [kind : {"lost", "overflow"}] \cup [kind : {"event"}, delta : TrueDeltas(l)]
    \cup {x \in [kind : {"snapshot"}, at : Stamps, outs : Projections] : Exact(l, x.at, x.outs)}
    \cup [kind : {"result"}, res : TrueResults(l), stale : BOOLEAN]
TrueFetches(l) == [at : Stamps, res : TrueResults(l) \cup {None}, stale : BOOLEAN]
Registries == [at : Stamps, proj : Projections]

DispTyped ==
    /\ disp \in [epoch : 1 .. MaxChanges + 1, seq : 0 .. MaxChanges, outs : Maps]
    /\ changes \in 0 .. MaxChanges /\ faults \in 0 .. MaxFaults
    /\ disp.epoch - 1 + disp.seq <= changes
    /\ DOMAIN log \subseteq Stamps /\ \A at \in DOMAIN log : log[at] \in Maps
History ==
    /\ Stamp(disp) \in DOMAIN log /\ log[Stamp(disp)] = disp.outs
    /\ \A at \in DOMAIN log : at[1] # 0 /\ Le(at, Stamp(disp))
ConnTrue ==
    /\ conn \in [open : BOOLEAN, q : Seq(TrueDeltas(log))] /\ Len(conn.q) <= SubDepth
    /\ dead \in Nat /\ Listed <= MaxSubs
    /\ reader \in {"reading", "overflow", "lost", "ended"}
QueueTrue == queue \in Seq(TrueInputs(log)) /\ Len(queue) <= Slots
SupTrue ==
    /\ sup \in [st : {"Streaming", "SnapshotPending", "Failed"}, buf : Seq(TrueDeltas(log))]
    /\ Len(sup.buf) <= BufferLimit
FetchesTrue == fetches \in Seq(TrueFetches(log))
RegTrue ==
    /\ reg \in Registries
    /\ IF reg.at[1] = 0 THEN reg = [at |-> <<0, 0>>, proj |-> Empty] ELSE Exact(log, reg.at, reg.proj)
ClientsTyped ==
    /\ cl \in [Clients -> ClientStates]
    /\ \A c \in Clients : Len(cl[c].q) <= ClientSlots /\ (cl[c].pc = "registered" => cl[c].init \in Commands)

\* The invariant behind ProjectionExact.
Truthful ==
    /\ DispTyped /\ History /\ ConnTrue /\ QueueTrue /\ SupTrue /\ FetchesTrue /\ RegTrue
    /\ ClientsTyped

\* Sequences over a larger set.
LEMMA SeqOfPart == ASSUME NEW T, NEW U, T \subseteq U, NEW s \in Seq(T)  PROVE s \in Seq(U)
<1>1. Len(s) \in Nat /\ DOMAIN s = 1 .. Len(s) /\ (\A i \in 1 .. Len(s) : s[i] \in T) /\ s = [i \in 1 .. Len(s) |-> s[i]]
  OBVIOUS
<1> QED  BY <1>1

\* What is true stays true when the history grows.
LEMMA TrueStays ==
    ASSUME NEW l, NEW m, DOMAIN l \subseteq DOMAIN m, \A at \in DOMAIN l : m[at] = l[at]
    PROVE  /\ TrueDeltas(l) \subseteq TrueDeltas(m) /\ TrueResults(l) \subseteq TrueResults(m)
           /\ TrueInputs(l) \subseteq TrueInputs(m) /\ TrueFetches(l) \subseteq TrueFetches(m)
           /\ \A at, outs : Exact(l, at, outs) => Exact(m, at, outs)
<1>1. ASSUME NEW d, Genuine(l, d)  PROVE Genuine(m, d)
  <2> DEFINE a == d.at
             b == Pred(d.at)
  <2>1. a \in DOMAIN l /\ b \in DOMAIN l  BY <1>1 DEF Genuine
  <2>2. m[a] = l[a] /\ m[b] = l[b] /\ a \in DOMAIN m /\ b \in DOMAIN m  BY <2>1
  <2> QED  BY <1>1, <2>2 DEF Genuine
<1>2. \A at, outs : Exact(l, at, outs) => Exact(m, at, outs)  BY DEF Exact
<1>3. TrueDeltas(l) \subseteq TrueDeltas(m)  BY <1>1 DEF TrueDeltas
<1>4. TrueResults(l) \subseteq TrueResults(m)  BY <1>2 DEF TrueResults
<1>5. TrueInputs(l) \subseteq TrueInputs(m)
  <2>1. ASSUME NEW x \in [kind : {"event"}, delta : TrueDeltas(l)]
        PROVE  x \in [kind : {"event"}, delta : TrueDeltas(m)]  BY <1>3
  <2>2. ASSUME NEW x \in [kind : {"result"}, res : TrueResults(l), stale : BOOLEAN]
        PROVE  x \in [kind : {"result"}, res : TrueResults(m), stale : BOOLEAN]  BY <1>4
  <2>3. ASSUME NEW x \in [kind : {"snapshot"}, at : Stamps, outs : Projections], Exact(l, x.at, x.outs)
        PROVE  Exact(m, x.at, x.outs)  BY <1>2, <2>3
  <2> QED  BY <2>1, <2>2, <2>3 DEF TrueInputs
<1>6. TrueFetches(l) \subseteq TrueFetches(m)  BY <1>4 DEF TrueFetches
<1> QED  BY <1>2, <1>3, <1>4, <1>5, <1>6

\* The kinds of inputs tell them apart.
LEMMA InputFacts ==
    ASSUME NEW l, NEW x \in TrueInputs(l)
    PROVE  /\ x.kind \in {"lost", "overflow", "event", "snapshot", "result"}
           /\ x.kind = "event" => x.delta \in TrueDeltas(l)
           /\ x.kind = "snapshot" => x.at \in Stamps /\ x.outs \in Projections /\ Exact(l, x.at, x.outs)
           /\ x.kind = "result" => /\ x.res \in TrueResults(l) /\ x.stale \in BOOLEAN
                                   /\ [x EXCEPT !.stale = TRUE] \in TrueInputs(l)
                                   /\ [x EXCEPT !.stale = TRUE].res = x.res
                                   /\ [x EXCEPT !.stale = TRUE].stale
                                   /\ [x EXCEPT !.stale = TRUE].kind = "result"
BY DEF TrueInputs

\* A true answer gives the outputs of its stamp.
LEMMA ResultFacts ==
    ASSUME NEW l, NEW r \in TrueResults(l)
    PROVE  r.ok \in BOOLEAN /\ (r.ok => r.at \in Stamps /\ r.outs \in Projections /\ Exact(l, r.at, r.outs))
<1>1. CASE r = Failure
  <2>1. r.ok = FALSE  BY <1>1 DEF Failure
  <2> QED  BY <2>1
<1>2. CASE r \in [ok : {TRUE}, at : Stamps, outs : Projections] /\ Exact(l, r.at, r.outs)
  BY <1>2
<1> QED  BY <1>1, <1>2 DEF TrueResults

\* try_send into the queue of the supervisor keeps to its capacity.
LEMMA TrySendFacts ==
    ASSUME NEW T, queue \in Seq(T), Len(queue) <= Slots, NEW x \in T
    PROVE  TrySend(x) \in Seq(T) /\ Len(TrySend(x)) <= Slots
<1>1. Len(queue) \in Nat /\ Append(queue, x) \in Seq(T) /\ Len(Append(queue, x)) = Len(queue) + 1  BY SeqFacts
<1> QED  BY <1>1, StampFacts DEF TrySend

\* Marking queries and answers as stale changes nothing else of them.
LEMMA StaleFacts ==
    ASSUME NEW l
    PROVE  /\ \A s \in Seq(TrueFetches(l)) :
                 /\ Stale(s) \in Seq(TrueFetches(l)) /\ Len(Stale(s)) = Len(s) /\ DOMAIN Stale(s) = DOMAIN s
                 /\ \A i \in DOMAIN s : Stale(s)[i] = [s[i] EXCEPT !.stale = TRUE] /\ Stale(s)[i].stale
           /\ \A s \in Seq(TrueInputs(l)) :
                 /\ StaleInputs(s) \in Seq(TrueInputs(l)) /\ Len(StaleInputs(s)) = Len(s)
                 /\ DOMAIN StaleInputs(s) = DOMAIN s
                 /\ \A i \in DOMAIN s :
                       StaleInputs(s)[i] = IF s[i].kind = "result" THEN [s[i] EXCEPT !.stale = TRUE] ELSE s[i]
<1>1. ASSUME NEW s \in Seq(TrueFetches(l))
      PROVE  /\ Stale(s) \in Seq(TrueFetches(l)) /\ Len(Stale(s)) = Len(s) /\ DOMAIN Stale(s) = DOMAIN s
             /\ \A i \in DOMAIN s : Stale(s)[i] = [s[i] EXCEPT !.stale = TRUE] /\ Stale(s)[i].stale
  <2>1. Len(s) \in Nat /\ DOMAIN s = 1 .. Len(s) /\ \A i \in 1 .. Len(s) : s[i] \in TrueFetches(l)  OBVIOUS
  <2> DEFINE f(x) == [x EXCEPT !.stale = TRUE]
  <2>2. \A i \in 1 .. Len(s) : f(s[i]) \in TrueFetches(l) /\ f(s[i]).stale
    BY <2>1 DEF TrueFetches
  <2>3. Stale(s) = [i \in 1 .. Len(s) |-> f(s[i])]  BY <2>1 DEF Stale
  <2> HIDE DEF f
  <2>4. /\ Stale(s) \in Seq(TrueFetches(l)) /\ Len(Stale(s)) = Len(s) /\ DOMAIN Stale(s) = DOMAIN s
        /\ \A i \in DOMAIN s : Stale(s)[i] = f(s[i]) /\ Stale(s)[i].stale
    BY <2>1, <2>2, <2>3
  <2> QED  BY <2>4 DEF f
<1>2. ASSUME NEW s \in Seq(TrueInputs(l))
      PROVE  /\ StaleInputs(s) \in Seq(TrueInputs(l)) /\ Len(StaleInputs(s)) = Len(s)
             /\ DOMAIN StaleInputs(s) = DOMAIN s
             /\ \A i \in DOMAIN s :
                    StaleInputs(s)[i] = IF s[i].kind = "result" THEN [s[i] EXCEPT !.stale = TRUE] ELSE s[i]
  <2> DEFINE f(x) == IF x.kind = "result" THEN [x EXCEPT !.stale = TRUE] ELSE x
  <2>1. Len(s) \in Nat /\ DOMAIN s = 1 .. Len(s) /\ \A i \in 1 .. Len(s) : s[i] \in TrueInputs(l)  OBVIOUS
  <2>2. \A i \in 1 .. Len(s) : f(s[i]) \in TrueInputs(l)  BY <2>1, InputFacts
  <2>3. StaleInputs(s) = [i \in 1 .. Len(s) |-> f(s[i])]  BY <2>1 DEF StaleInputs
  <2> HIDE DEF f
  <2>4. /\ StaleInputs(s) \in Seq(TrueInputs(l)) /\ Len(StaleInputs(s)) = Len(s) /\ DOMAIN StaleInputs(s) = DOMAIN s
        /\ \A i \in DOMAIN s : StaleInputs(s)[i] = f(s[i])
    BY <2>1, <2>2, <2>3
  <2> QED  BY <2>4 DEF f
<1> QED  BY <1>1, <1>2

\* Taking one element out of a sequence leaves the others.
LEMMA RemoveAtFacts ==
    ASSUME NEW T, NEW s \in Seq(T), NEW i \in DOMAIN s
    PROVE  /\ RemoveAt(s, i) \in Seq(T)
           /\ \A j \in DOMAIN RemoveAt(s, i) : \E m \in DOMAIN s : RemoveAt(s, i)[j] = s[m]
<1> DEFINE n == Len(s)
           a == SubSeq(s, 1, i - 1)
           b == SubSeq(s, i + 1, n)
<1>1. n \in Nat /\ i \in 1 .. n /\ DOMAIN s = 1 .. n /\ \A j \in 1 .. n : s[j] \in T  BY SeqFacts
<1>2. a \in Seq(T) /\ Len(a) = i - 1 /\ \A j \in 1 .. i - 1 : a[j] = s[j]
  <2>1. \A j \in 1 .. i - 1 : s[j] \in T  BY <1>1
  <2>2. Len(a) = i - 1 /\ \A j \in 1 .. i - 1 : a[j] = s[j]  BY <1>1
  <2> QED  BY <1>1, <2>1, SubSeqProperties
<1>3. b \in Seq(T) /\ Len(b) = n - i /\ \A j \in 1 .. n - i : b[j] = s[i + j]
  <2>1. b = [j \in 1 .. n - i |-> s[i + j]]  BY <1>1
  <2>2. \A j \in 1 .. n - i : i + j \in 1 .. n /\ s[i + j] \in T  BY <1>1
  <2> HIDE DEF b
  <2> DEFINE k == n - i
  <2>3. k \in Nat  BY <1>1
  <2> HIDE DEF k
  <2>4. b = [j \in 1 .. k |-> s[i + j]] /\ \A j \in 1 .. k : s[i + j] \in T  BY <2>1, <2>2 DEF k
  <2>5. b \in Seq(T) /\ Len(b) = k /\ \A j \in 1 .. k : b[j] = s[i + j]  BY <2>3, <2>4
  <2> QED  BY <2>5 DEF k
<1>4. RemoveAt(s, i) = a \o b  BY DEF RemoveAt
<1> HIDE DEF a, b
<1> DEFINE c == a \o b
<1>5. c \in Seq(T) /\ Len(c) = Len(a) + Len(b)
      /\ \A j \in 1 .. Len(a) + Len(b) : c[j] = IF j <= Len(a) THEN a[j] ELSE b[j - Len(a)]
  BY <1>2, <1>3, ConcatProperties
<1> HIDE DEF c
<1>6. \A j \in DOMAIN c : \E m \in DOMAIN s : c[j] = s[m]
  <2>0. Len(a) + Len(b) = n - 1 /\ DOMAIN c = 1 .. Len(c)  BY <1>1, <1>2, <1>3, <1>5
  <2> SUFFICES ASSUME NEW j \in 1 .. n - 1  PROVE \E m \in 1 .. n : c[j] = s[m]
    BY <1>1, <1>5, <2>0
  <2>1. CASE j <= i - 1
    <3>1. j \in 1 .. i - 1 /\ j \in 1 .. n  BY <1>1, <2>1
    <3> QED  BY <1>2, <1>5, <2>0, <2>1, <3>1
  <2>2. CASE ~(j <= i - 1)
    <3> DEFINE m == j - (i - 1)
    <3>1. m \in 1 .. n - i /\ i + m \in 1 .. n  BY <1>1, <2>2
    <3>2. c[j] = b[m]  BY <1>2, <1>5, <2>0, <2>2
    <3> HIDE DEF m
    <3> QED  BY <1>3, <3>1, <3>2
  <2> QED  BY <2>1, <2>2
<1> QED  BY <1>4, <1>5, <1>6 DEF c

\* A genuine delta that follows an exact registry leaves it exact, also the last one again.
LEMMA FollowsExact ==
    ASSUME NEW l, NEW d \in TrueDeltas(l), NEW r \in Registries, Exact(l, r.at, r.proj), Follows(r, d), d.kind # "reset",
           DOMAIN l \subseteq Stamps
    PROVE  ApplyDelta(r, d) \in Registries /\ Exact(l, ApplyDelta(r, d).at, ApplyDelta(r, d).proj)
<1> DEFINE p == r.proj
           w == ApplyDelta(r, d)
           f == l[Pred(d.at)]
<1>0. d \in Deltas /\ Genuine(l, d) /\ p \in Projections /\ ModesOf(p) = l[r.at] /\ r.at \in DOMAIN l /\ r.at \in Stamps
      /\ d.at \in Stamps /\ d.at \in DOMAIN l /\ d.kind \in {"add", "reconfigure", "remove", "reset"}
  BY DEF TrueDeltas, Exact, Registries, Deltas, Genuine
<1>1. w \in Registries /\ w.at = d.at  BY <1>0, DeltaFacts DEF Registries
<1>2. ModesOf(w.proj) = IF d.kind = "remove" THEN Without(ModesOf(p), d.out) ELSE With(ModesOf(p), d.out, d.mode)
  <2>1. w.proj = IF d.kind = "remove" THEN Without(p, d.out) ELSE With(p, d.out, DeltaEntry(d))  BY DEF ApplyDelta
  <2>2. d.kind # "remove" => DeltaEntry(d).mode = d.mode  BY DEF DeltaEntry, Entry
  <2> QED  BY <1>0, <2>1, <2>2, ModesFacts
<1>3. ModesOf(p) = f \/ ModesOf(p) = l[d.at]
  <2>1. r.at = <<r.at[1], r.at[2]>> /\ d.at = <<d.at[1], d.at[2]>> /\ r.at[2] \in Nat /\ d.at[2] \in Nat
    BY <1>0, StampFacts
  <2>2. CASE d.at[2] = r.at[2]
    <3>1. d.at = r.at  BY <2>1, <2>2 DEF Follows
    <3> QED  BY <1>0, <3>1
  <2>3. CASE d.at[2] = r.at[2] + 1
    <3>1. d.at[2] - 1 = r.at[2] /\ d.at[1] = r.at[1]  BY <2>1, <2>3 DEF Follows
    <3>2. Pred(d.at) = r.at  BY <2>1, <3>1 DEF Pred
    <3> QED  BY <1>0, <3>2
  <2> QED  BY <2>2, <2>3 DEF Follows
<1>4. l[d.at] = IF d.kind = "remove" THEN Without(f, d.out) ELSE With(f, d.out, d.mode)  BY <1>0 DEF Genuine
<1>5. Without(Without(f, d.out), d.out) = Without(f, d.out) /\ With(With(f, d.out, d.mode), d.out, d.mode) = With(f, d.out, d.mode)
  <2>1. (DOMAIN f \ {d.out}) \ {d.out} = DOMAIN f \ {d.out} /\ (DOMAIN f \cup {d.out}) \cup {d.out} = DOMAIN f \cup {d.out}
    OBVIOUS
  <2> QED  BY <2>1 DEF With, Without
<1>6. ModesOf(w.proj) = l[d.at]
  <2> HIDE DEF f, w, p
  <2> QED  BY <1>2, <1>3, <1>4, <1>5
<1> QED  BY <1>0, <1>1, <1>6 DEF Exact

\* At the start everything is true.
LEMMA InitTrue == ASSUME Init  PROVE Truthful
<1>0. PICK S \in SUBSET Outputs : Start \in [S -> Modes]  BY TopologyAssumption
<1>1. Start \in Maps  BY <1>0 DEF Maps
<1>2. disp = [epoch |-> 1, seq |-> 0, outs |-> Start] /\ log = [at \in {<<1, 0>>} |-> Start]  BY DEF Init
<1>3. Stamp(disp) = <<1, 0>> /\ disp.outs = Start  BY <1>2 DEF Stamp
<1>4. <<1, 0>> \in Stamps  BY StampFacts DEF Stamps
<1>5. DOMAIN log = {<<1, 0>>} /\ log[<<1, 0>>] = Start  BY <1>2
<1>6. DispTyped
  <2>1. changes = 0 /\ faults = 0  BY DEF Init
  <2>2. disp \in [epoch : 1 .. MaxChanges + 1, seq : 0 .. MaxChanges, outs : Maps]  BY <1>1, <1>2, StampFacts
  <2>3. disp.epoch - 1 + disp.seq <= changes  BY <1>2, <2>1
  <2> QED  BY <1>1, <1>4, <1>5, <2>1, <2>2, <2>3, StampFacts DEF DispTyped
<1>7. History  BY <1>3, <1>5 DEF History, Le
<1>8. ConnTrue
  <2>1. conn = [open |-> TRUE, q |-> <<>>] /\ dead = 0 /\ reader = "reading"  BY DEF Init
  <2>2. conn.q = <<>> /\ conn.open /\ Listed = 1  BY <2>1 DEF Listed
  <2>3. conn \in [open : BOOLEAN, q : Seq(TrueDeltas(log))]  BY <2>1
  <2> QED  BY <2>1, <2>2, <2>3, StampFacts DEF ConnTrue
<1>9. QueueTrue
  <2> DEFINE x == SnapshotInput(disp)
  <2>1. Snapshot(disp) \in Projections /\ ModesOf(Snapshot(disp)) = Start  BY <1>1, <1>3, SnapshotFacts
  <2>2. x \in TrueInputs(log)
    BY <1>3, <1>4, <1>5, <2>1 DEF SnapshotInput, TrueInputs, Exact
  <2>3. queue = <<x>>  BY DEF Init
  <2> HIDE DEF x
  <2> QED  BY <2>2, <2>3, StampFacts DEF QueueTrue
<1>10. SupTrue  BY StampFacts DEF Init, SupTrue
<1>11. FetchesTrue  BY DEF Init, FetchesTrue
<1>12. RegTrue
  <2>1. reg = [at |-> <<0, 0>>, proj |-> Empty]  BY DEF Init
  <2> QED  BY <2>1, EmptyFacts, StampFacts DEF RegTrue, Registries
<1>13. ClientsTyped
  <2>1. cl = [c \in Clients |-> NewClient]  BY DEF Init
  <2>2. NewClient.q = <<>> /\ NewClient.pc = "none"  BY DEF NewClient
  <2> QED  BY <2>1, <2>2, GoneFacts, StampFacts DEF ClientsTyped
<1> QED  BY <1>6, <1>7, <1>8, <1>9, <1>10, <1>11, <1>12, <1>13 DEF Truthful

-----------------------------------------------------------------------------
(* displayd *)

\* The history gets a stamp that it did not have.
LEMMA HistoryGrows ==
    ASSUME Truthful, NEW at, at \notin DOMAIN log, NEW f, log' = With(log, at, f)
    PROVE  /\ DOMAIN log \subseteq DOMAIN log' /\ \A a \in DOMAIN log : log'[a] = log[a]
           /\ DOMAIN log' = DOMAIN log \cup {at} /\ log'[at] = f
           /\ UNCHANGED queue => QueueTrue'
           /\ UNCHANGED sup => SupTrue'
           /\ UNCHANGED fetches => FetchesTrue'
           /\ UNCHANGED reg => RegTrue'
<1>1. /\ DOMAIN log \subseteq DOMAIN log' /\ \A a \in DOMAIN log : log'[a] = log[a]
      /\ DOMAIN log' = DOMAIN log \cup {at} /\ log'[at] = f
  <2> DEFINE w == With(log, at, f)
  <2>1. DOMAIN w = DOMAIN log \cup {at} /\ w[at] = f /\ \A a \in DOMAIN log : a # at => w[a] = log[a]
    BY DEF With
  <2>2. log' = w  OBVIOUS
  <2> HIDE DEF w
  <2> QED  BY <2>1, <2>2
<1> DEFINE l == log
           m == log'
<1> HIDE DEF l, m
<1>a. DOMAIN l \subseteq DOMAIN m /\ \A a \in DOMAIN l : m[a] = l[a]  BY <1>1 DEF l, m
<1>2. /\ TrueDeltas(l) \subseteq TrueDeltas(m) /\ TrueInputs(l) \subseteq TrueInputs(m)
      /\ TrueFetches(l) \subseteq TrueFetches(m) /\ \A a, outs : Exact(l, a, outs) => Exact(m, a, outs)
  BY <1>a, TrueStays
<1>3. ASSUME UNCHANGED queue  PROVE QueueTrue'
  <2>1. queue \in Seq(TrueInputs(l)) /\ Len(queue) <= Slots  BY DEF Truthful, QueueTrue, l
  <2>2. queue \in Seq(TrueInputs(m))  BY <1>2, <2>1, SeqOfPart
  <2> QED  BY <1>3, <2>1, <2>2 DEF QueueTrue, m
<1>4. ASSUME UNCHANGED sup  PROVE SupTrue'
  <2>1. sup \in [st : {"Streaming", "SnapshotPending", "Failed"}, buf : Seq(TrueDeltas(l))] /\ Len(sup.buf) <= BufferLimit
    BY DEF Truthful, SupTrue, l
  <2>2. sup.buf \in Seq(TrueDeltas(m))
    <3>1. sup.buf \in Seq(TrueDeltas(l))  BY <2>1
    <3> QED  BY <1>2, <3>1, SeqOfPart
  <2>3. sup \in [st : {"Streaming", "SnapshotPending", "Failed"}, buf : Seq(TrueDeltas(m))]  BY <2>1, <2>2
  <2> QED  BY <1>4, <2>1, <2>3 DEF SupTrue, m
<1>5. ASSUME UNCHANGED fetches  PROVE FetchesTrue'
  <2>1. fetches \in Seq(TrueFetches(l))  BY DEF Truthful, FetchesTrue, l
  <2>2. fetches \in Seq(TrueFetches(m))  BY <1>2, <2>1, SeqOfPart
  <2> QED  BY <1>5, <2>2 DEF FetchesTrue, m
<1>6. ASSUME UNCHANGED reg  PROVE RegTrue'
  <2>1. reg \in Registries /\ IF reg.at[1] = 0 THEN reg = [at |-> <<0, 0>>, proj |-> Empty] ELSE Exact(l, reg.at, reg.proj)
    BY DEF Truthful, RegTrue, l
  <2>2. reg \in Registries /\ IF reg.at[1] = 0 THEN reg = [at |-> <<0, 0>>, proj |-> Empty] ELSE Exact(m, reg.at, reg.proj)
    BY <1>2, <2>1
  <2> QED  BY <1>6, <2>2 DEF RegTrue, m
<1> QED  BY <1>1, <1>3, <1>4, <1>5, <1>6

\* A change of an output by displayd.
LEMMA ChangeTrue ==
    ASSUME Truthful, NEW kind \in {"add", "reconfigure", "remove", "reset"}, NEW o \in Outputs, NEW m \in Modes,
           Change(kind, o, m)
    PROVE  Truthful'
<1> DEFINE outs == CASE kind = "reset" -> Empty [] kind = "remove" -> Without(disp.outs, o)
                     [] OTHER -> With(disp.outs, o, m)
           at == <<disp.epoch, disp.seq + 1>>
           d == [at |-> at, kind |-> kind, out |-> o, mode |-> m]
<1>0. /\ disp \in [epoch : 1 .. MaxChanges + 1, seq : 0 .. MaxChanges, outs : Maps]
      /\ changes \in 0 .. MaxChanges /\ disp.epoch - 1 + disp.seq <= changes
      /\ faults \in 0 .. MaxFaults
      /\ DOMAIN log \subseteq Stamps /\ \A a \in DOMAIN log : log[a] \in Maps
  BY DEF Truthful, DispTyped
<1>1. changes < MaxChanges /\ changes' = changes + 1  BY DEF Change, Displace
<1>2. disp' = [epoch |-> disp.epoch, seq |-> disp.seq + 1, outs |-> outs]
  BY <1>0 DEF Change
<1>3. outs \in Maps  BY <1>0, EmptyFacts, WithStays
<1> HIDE DEF outs
<1>4. Stamp(disp') = at /\ disp'.outs = outs /\ disp'.epoch = disp.epoch /\ disp'.seq = disp.seq + 1
  BY <1>2 DEF Stamp
<1>5. log' = With(log, at, outs) /\ UNCHANGED <<reader, queue, sup, fetches, reg, cl, faults>>
  BY <1>4 DEF Change, Publish
<1>6. disp.epoch \in Nat /\ disp.seq \in Nat /\ disp.epoch # 0 /\ at \in Stamps
  <2>1. disp.seq + 1 <= MaxChanges /\ disp.epoch \in 1 .. MaxChanges + 1 /\ disp.seq \in 0 .. MaxChanges
    BY <1>0, <1>1, StampFacts
  <2> QED  BY <2>1, StampFacts DEF Stamps
<1>7. at \notin DOMAIN log
  <2>1. ~Le(at, Stamp(disp))  BY <1>6 DEF Le, Stamp
  <2> QED  BY <2>1 DEF Truthful, History
<1>8. /\ DOMAIN log' = DOMAIN log \cup {at} /\ log'[at] = outs /\ DOMAIN log \subseteq DOMAIN log'
      /\ \A a \in DOMAIN log : log'[a] = log[a]
      /\ QueueTrue' /\ SupTrue' /\ FetchesTrue' /\ RegTrue'
  <2> HIDE DEF at
  <2> QED  BY <1>5, <1>7, HistoryGrows
<1>9. DispTyped'
  <2>1. disp' \in [epoch : 1 .. MaxChanges + 1, seq : 0 .. MaxChanges, outs : Maps]
    <3>1. disp.seq + 1 \in 0 .. MaxChanges  BY <1>0, <1>1, StampFacts
    <3> QED  BY <1>0, <1>2, <1>3, <3>1
  <2>2. changes' \in 0 .. MaxChanges /\ faults' \in 0 .. MaxFaults  BY <1>0, <1>1, <1>5, StampFacts
  <2>3. disp'.epoch - 1 + disp'.seq <= changes'  BY <1>0, <1>1, <1>4, <1>6, StampFacts
  <2>4. DOMAIN log' \subseteq Stamps /\ \A a \in DOMAIN log' : log'[a] \in Maps  BY <1>0, <1>3, <1>6, <1>8
  <2> QED  BY <2>1, <2>2, <2>3, <2>4 DEF DispTyped
<1>10. History'
  <2>1. \A a \in DOMAIN log : a[1] # 0 /\ Le(a, Stamp(disp)) /\ a \in Stamps  BY <1>0 DEF Truthful, History
  <2>2. at[1] # 0 /\ Le(at, at)  BY <1>6 DEF Le
  <2>3. \A a \in DOMAIN log : Le(a, at)  BY <1>6, <2>1, StampFacts DEF Le, Stamp
  <2>4. \A a \in DOMAIN log' : a[1] # 0 /\ Le(a, at)  BY <1>8, <2>1, <2>2, <2>3
  <2> HIDE DEF at
  <2> QED  BY <1>4, <1>8, <2>4 DEF History
<1>11. d \in TrueDeltas(log')
  <2>1. d \in Deltas  BY <1>6 DEF Deltas
  <2>2. Pred(at) = Stamp(disp)  BY <1>6 DEF Pred, Stamp
  <2>3. Stamp(disp) \in DOMAIN log /\ log[Stamp(disp)] = disp.outs  BY DEF Truthful, History
  <2>4. Pred(at) \in DOMAIN log' /\ log'[Pred(at)] = disp.outs  BY <1>8, <2>2, <2>3
  <2>5. at[2] >= 1 /\ at \in DOMAIN log'  BY <1>6, <1>8
  <2>6. (kind = "remove" => outs = Without(disp.outs, o)) /\ (kind \in {"add", "reconfigure"} => outs = With(disp.outs, o, m))
    BY DEF outs
  <2>7. (kind = "add" => o \notin DOMAIN disp.outs) /\ (kind = "reconfigure" => o \in DOMAIN disp.outs)  BY DEF Change
  <2>8. d.at = at /\ d.kind = kind /\ d.out = o /\ d.mode = m  OBVIOUS
  <2> HIDE DEF d, at
  <2>9. Genuine(log', d)  BY <1>8, <2>4, <2>5, <2>6, <2>7, <2>8 DEF Genuine
  <2> QED  BY <2>1, <2>9 DEF TrueDeltas
<1>12. ConnTrue'
  <2>1. /\ conn \in [open : BOOLEAN, q : Seq(TrueDeltas(log))] /\ Len(conn.q) <= SubDepth
        /\ dead \in Nat /\ Listed <= MaxSubs /\ reader \in {"reading", "overflow", "lost", "ended"}
    BY DEF Truthful, ConnTrue
  <2>2. conn' = IF ~conn.open THEN conn
                ELSE IF Len(conn.q) < SubDepth THEN [conn EXCEPT !.q = Append(conn.q, d)]
                ELSE [conn EXCEPT !.open = FALSE]
    BY <1>4 DEF Change, Publish
  <2>3. dead' = 0  BY DEF Change, Publish
  <2> DEFINE u == conn.q
             T == TrueDeltas(log')
  <2>4. u \in Seq(T)
    <3>1. TrueDeltas(log) \subseteq T  BY <1>8, TrueStays
    <3>2. u \in Seq(TrueDeltas(log))  BY <2>1
    <3> HIDE DEF u, T
    <3> QED  BY <3>1, <3>2, SeqOfPart
  <2>5. Append(u, d) \in Seq(T) /\ Len(Append(u, d)) = Len(u) + 1 /\ Len(u) \in Nat
    <3> HIDE DEF u, d
    <3> QED  BY <1>11, <2>4, SeqFacts
  <2> HIDE DEF T, d
  <2>6. conn' \in [open : BOOLEAN, q : Seq(T)] /\ Len(conn'.q) <= SubDepth
    <3>1. CASE ~conn.open  BY <2>1, <2>2, <2>4, <3>1
    <3>2. CASE conn.open /\ Len(conn.q) < SubDepth
      <4>1. conn' = [conn EXCEPT !.q = Append(u, d)]  BY <2>2, <3>2
      <4>2. conn'.open = conn.open /\ conn'.q = Append(u, d) /\ conn' \in [open : BOOLEAN, q : Seq(T)]
        BY <2>1, <2>5, <4>1
      <4>3. Len(u) < SubDepth /\ SubDepth \in Nat  BY <3>2, StampFacts
      <4> HIDE DEF u
      <4>4. Len(Append(u, d)) <= SubDepth  BY <2>5, <4>3
      <4> QED  BY <4>2, <4>4
    <3>3. CASE conn.open /\ ~(Len(conn.q) < SubDepth)  BY <2>1, <2>2, <2>4, <3>3
    <3> QED  BY <3>1, <3>2, <3>3
  <2>7. Listed' <= MaxSubs  BY <2>3, StampFacts DEF Listed
  <2> QED  BY <1>5, <2>1, <2>3, <2>6, <2>7 DEF ConnTrue, T
<1>13. ClientsTyped'  BY <1>5 DEF Truthful, ClientsTyped
<1> QED  BY <1>8, <1>9, <1>10, <1>12, <1>13 DEF Truthful

\* A restart of displayd.
LEMMA RestartTrue == ASSUME Truthful, Restart  PROVE Truthful'
<1> DEFINE at == <<disp.epoch + 1, 0>>
<1>0. /\ disp \in [epoch : 1 .. MaxChanges + 1, seq : 0 .. MaxChanges, outs : Maps]
      /\ changes \in 0 .. MaxChanges /\ disp.epoch - 1 + disp.seq <= changes
      /\ faults \in 0 .. MaxFaults
      /\ DOMAIN log \subseteq Stamps /\ \A a \in DOMAIN log : log[a] \in Maps
  BY DEF Truthful, DispTyped
<1>1. changes < MaxChanges /\ changes' = changes + 1  BY DEF Restart, Displace
<1>2. disp' = [epoch |-> disp.epoch + 1, seq |-> 0, outs |-> Start]  BY DEF Restart
<1>a. PICK S \in SUBSET Outputs : Start \in [S -> Modes]  BY TopologyAssumption
<1>3. Start \in Maps  BY <1>a DEF Maps
<1>4. Stamp(disp') = at /\ disp'.outs = Start /\ disp'.epoch = disp.epoch + 1 /\ disp'.seq = 0  BY <1>2 DEF Stamp
<1>5. log' = With(log, at, Start) /\ UNCHANGED <<reader, queue, sup, fetches, reg, cl, faults>>
  BY <1>4 DEF Restart
<1>6. disp.epoch \in Nat /\ disp.seq \in Nat /\ disp.epoch + 1 \in 1 .. MaxChanges + 1 /\ at \in Stamps
  <2>1. disp.epoch + 1 <= MaxChanges + 1 /\ disp.epoch \in 1 .. MaxChanges + 1 /\ disp.seq \in 0 .. MaxChanges
    BY <1>0, <1>1, StampFacts
  <2> QED  BY <2>1, StampFacts DEF Stamps
<1>7. at \notin DOMAIN log
  <2>1. ~Le(at, Stamp(disp))  BY <1>6 DEF Le, Stamp
  <2> QED  BY <2>1 DEF Truthful, History
<1>8. /\ DOMAIN log' = DOMAIN log \cup {at} /\ log'[at] = Start /\ DOMAIN log \subseteq DOMAIN log'
      /\ \A a \in DOMAIN log : log'[a] = log[a]
      /\ QueueTrue' /\ SupTrue' /\ FetchesTrue' /\ RegTrue'
  <2> HIDE DEF at
  <2> QED  BY <1>5, <1>7, HistoryGrows
<1>9. DispTyped'
  <2>1. disp' \in [epoch : 1 .. MaxChanges + 1, seq : 0 .. MaxChanges, outs : Maps]
    BY <1>2, <1>3, <1>6, StampFacts
  <2>2. changes' \in 0 .. MaxChanges /\ faults' \in 0 .. MaxFaults  BY <1>0, <1>1, <1>5, StampFacts
  <2>3. disp'.epoch - 1 + disp'.seq <= changes'  BY <1>0, <1>1, <1>4, <1>6, StampFacts
  <2>4. DOMAIN log' \subseteq Stamps /\ \A a \in DOMAIN log' : log'[a] \in Maps  BY <1>0, <1>3, <1>6, <1>8
  <2> QED  BY <2>1, <2>2, <2>3, <2>4 DEF DispTyped
<1>10. History'
  <2>1. \A a \in DOMAIN log : a[1] # 0 /\ Le(a, Stamp(disp)) /\ a \in Stamps  BY <1>0 DEF Truthful, History
  <2>2. at[1] # 0 /\ Le(at, at)  BY <1>6 DEF Le
  <2>3. \A a \in DOMAIN log : Le(a, at)  BY <1>6, <2>1, StampFacts DEF Le, Stamp
  <2>4. \A a \in DOMAIN log' : a[1] # 0 /\ Le(a, at)  BY <1>8, <2>1, <2>2, <2>3
  <2> HIDE DEF at
  <2> QED  BY <1>4, <1>8, <2>4 DEF History
<1>12. ConnTrue'
  <2>1. /\ conn \in [open : BOOLEAN, q : Seq(TrueDeltas(log))] /\ Len(conn.q) <= SubDepth
        /\ dead \in Nat /\ Listed <= MaxSubs /\ reader \in {"reading", "overflow", "lost", "ended"}
    BY DEF Truthful, ConnTrue
  <2>2. conn' = [conn EXCEPT !.open = FALSE] /\ dead' = 0  BY DEF Restart
  <2> DEFINE u == conn.q
             T == TrueDeltas(log')
  <2>4. u \in Seq(T)
    <3>1. TrueDeltas(log) \subseteq T  BY <1>8, TrueStays
    <3>2. u \in Seq(TrueDeltas(log))  BY <2>1
    <3> HIDE DEF u, T
    <3> QED  BY <3>1, <3>2, SeqOfPart
  <2> HIDE DEF T
  <2>6. conn' \in [open : BOOLEAN, q : Seq(T)] /\ Len(conn'.q) <= SubDepth  BY <2>1, <2>2, <2>4
  <2>7. Listed' <= MaxSubs  BY <2>2, StampFacts DEF Listed
  <2> QED  BY <1>5, <2>1, <2>2, <2>6, <2>7 DEF ConnTrue, T
<1>13. ClientsTyped'  BY <1>5 DEF Truthful, ClientsTyped
<1> QED  BY <1>8, <1>9, <1>10, <1>12, <1>13 DEF Truthful

-----------------------------------------------------------------------------
(* The reader thread and the queries *)

\* Inputs that are always true.
LEMMA Simple ==
    ASSUME NEW l
    PROVE  /\ [kind |-> "lost"] \in TrueInputs(l) /\ [kind |-> "overflow"] \in TrueInputs(l)
           /\ \A d \in TrueDeltas(l) : [kind |-> "event", delta |-> d] \in TrueInputs(l)
           /\ \A r \in TrueResults(l), b \in BOOLEAN : [kind |-> "result", res |-> r, stale |-> b] \in TrueInputs(l)
           /\ Failure \in TrueResults(l)
BY DEF TrueInputs, TrueResults

\* An answer of displayd is true.
LEMMA AnswerTrue ==
    ASSUME Truthful
    PROVE  /\ SnapshotInput(disp) \in TrueInputs(log)
           /\ [ok |-> TRUE, at |-> Stamp(disp), outs |-> Snapshot(disp)] \in TrueResults(log)
<1>1. disp.outs \in Maps  BY DEF Truthful, DispTyped
<1>2. Snapshot(disp) \in Projections /\ ModesOf(Snapshot(disp)) = disp.outs  BY <1>1, SnapshotFacts
<1>3. Stamp(disp) \in DOMAIN log /\ log[Stamp(disp)] = disp.outs /\ Stamp(disp) \in Stamps
  BY DEF Truthful, History, DispTyped
<1>4. Exact(log, Stamp(disp), Snapshot(disp))  BY <1>2, <1>3 DEF Exact
<1> QED  BY <1>2, <1>3, <1>4 DEF TrueInputs, TrueResults, SnapshotInput

\* The thread that reads the subscription.
LEMMA ReaderTrue == ASSUME Truthful, Reader  PROVE Truthful'
<1>0. /\ conn \in [open : BOOLEAN, q : Seq(TrueDeltas(log))] /\ Len(conn.q) <= SubDepth
      /\ dead \in Nat /\ Listed <= MaxSubs /\ reader \in {"reading", "overflow", "lost", "ended"}
      /\ queue \in Seq(TrueInputs(log)) /\ Len(queue) <= Slots
  BY DEF Truthful, ConnTrue, QueueTrue
<1>1. UNCHANGED <<disp, sup, fetches, reg, cl, changes, log>>
  BY DEF Reader, ReadDelta, MarkOverflow, ReadFails, Reconnect, ReconnectFails, dispVars
<1>2. History' /\ SupTrue' /\ FetchesTrue' /\ RegTrue' /\ ClientsTyped'
  BY <1>1 DEF Truthful, History, SupTrue, FetchesTrue, RegTrue, ClientsTyped
<1> DEFINE T == TrueDeltas(log)
           U == TrueInputs(log)
           u == conn.q
<1>3. u \in Seq(T)  BY <1>0
<1> HIDE DEF T, U
<1>a. queue \in Seq(U)  BY <1>0 DEF U
<1>4. ASSUME ReadDelta  PROVE QueueTrue' /\ ConnTrue' /\ UNCHANGED faults
  <2>1. u # <<>> /\ conn' = [conn EXCEPT !.q = Tail(u)]  BY <1>4 DEF ReadDelta
  <2>2. Head(u) \in T /\ Tail(u) \in Seq(T) /\ Len(Tail(u)) = Len(u) - 1 /\ Len(u) \in Nat
    <3>1. u # <<>>  BY <2>1
    <3> HIDE DEF u
    <3> QED  BY <1>3, <3>1, SeqFacts
  <2>3. [kind |-> "event", delta |-> Head(u)] \in U  BY <2>2, Simple DEF T, U
  <2> DEFINE x == [kind |-> "event", delta |-> Head(u)]
  <2>4. queue' = TrySend(x) \/ queue' = queue  BY <1>4 DEF ReadDelta
  <2>5. reader' \in {"reading", "overflow", "lost", "ended"} /\ dead' = dead /\ faults' = faults
    BY <1>0, <1>4 DEF ReadDelta
  <2>6. conn'.open = conn.open /\ conn'.q = Tail(u) /\ conn' \in [open : BOOLEAN, q : Seq(T)]
    BY <1>0, <2>1, <2>2 DEF T
  <2>7. Len(conn'.q) <= SubDepth
    <3>1. Len(u) <= SubDepth  BY <1>0
    <3> HIDE DEF u
    <3> QED  BY <2>2, <2>6, <3>1, StampFacts
  <2>8. Listed' = Listed  BY <2>5, <2>6 DEF Listed
  <2>9. ConnTrue'  BY <1>0, <1>1, <2>5, <2>6, <2>7, <2>8 DEF ConnTrue, T
  <2>10. QueueTrue'
    <3> HIDE DEF x
    <3>1. x \in U  BY <2>3 DEF x
    <3>2. TrySend(x) \in Seq(U) /\ Len(TrySend(x)) <= Slots  BY <1>a, <1>0, <3>1, TrySendFacts
    <3> QED  BY <1>0, <1>1, <1>a, <2>4, <3>2 DEF QueueTrue, U
  <2> QED  BY <2>5, <2>9, <2>10
<1>5. ASSUME MarkOverflow  PROVE QueueTrue' /\ ConnTrue' /\ UNCHANGED faults
  <2> DEFINE x == [kind |-> "overflow"]
  <2>1. queue' = TrySend(x) /\ reader' = "ended" /\ conn' = [open |-> FALSE, q |-> <<>>] /\ faults' = faults
        /\ dead' = IF conn.open THEN dead + 1 ELSE dead
    BY <1>5 DEF MarkOverflow, Drop
  <2>2. x \in U  BY Simple DEF U
  <2>3. QueueTrue'
    <3> HIDE DEF x
    <3>1. TrySend(x) \in Seq(U) /\ Len(TrySend(x)) <= Slots  BY <1>a, <1>0, <2>2, TrySendFacts
    <3> QED  BY <1>1, <2>1, <3>1 DEF QueueTrue, U
  <2>4. dead' \in Nat /\ Listed' = Listed  BY <1>0, <2>1 DEF Listed
  <2>5. conn' \in [open : BOOLEAN, q : Seq(T)] /\ Len(conn'.q) <= SubDepth  BY <2>1, StampFacts
  <2> QED  BY <1>0, <1>1, <2>1, <2>3, <2>4, <2>5 DEF ConnTrue, T
<1>6. ASSUME ReadFails  PROVE QueueTrue' /\ ConnTrue' /\ UNCHANGED faults
  <2> DEFINE x == [kind |-> "lost"]
  <2>1. queue' = TrySend(x) /\ reader' = "lost" /\ conn' = conn /\ faults' = faults /\ dead' = dead
    BY <1>6 DEF ReadFails, dispVars
  <2>2. x \in U  BY Simple DEF U
  <2>3. QueueTrue'
    <3> HIDE DEF x
    <3>1. TrySend(x) \in Seq(U) /\ Len(TrySend(x)) <= Slots  BY <1>a, <1>0, <2>2, TrySendFacts
    <3> QED  BY <1>1, <2>1, <3>1 DEF QueueTrue, U
  <2>4. Listed' = Listed  BY <2>1 DEF Listed
  <2> QED  BY <1>0, <1>1, <2>1, <2>3, <2>4 DEF ConnTrue
<1>7. ASSUME Reconnect  PROVE QueueTrue' /\ ConnTrue' /\ UNCHANGED faults
  <2> DEFINE x == SnapshotInput(disp)
  <2>1. queue' = TrySend(x) /\ reader' \in {"reading", "ended"} /\ conn' = [open |-> HasRoom, q |-> <<>>] /\ faults' = faults
        /\ dead' = (IF conn.open THEN dead + 1 ELSE dead) /\ Listed < MaxSubs
    BY <1>7 DEF Reconnect, Drop
  <2>2. x \in U  BY AnswerTrue DEF U
  <2>3. QueueTrue'
    <3> HIDE DEF x
    <3>1. TrySend(x) \in Seq(U) /\ Len(TrySend(x)) <= Slots  BY <1>a, <1>0, <2>2, TrySendFacts
    <3> QED  BY <1>1, <2>1, <3>1 DEF QueueTrue, U
  <2>4. dead' \in Nat /\ Listed' <= MaxSubs  BY <1>0, <2>1, StampFacts DEF Listed
  <2>5. conn' \in [open : BOOLEAN, q : Seq(T)] /\ Len(conn'.q) <= SubDepth  BY <2>1, StampFacts DEF HasRoom
  <2> QED  BY <1>1, <2>1, <2>3, <2>4, <2>5 DEF ConnTrue, T
<1>8. ASSUME ReconnectFails  PROVE QueueTrue' /\ ConnTrue' /\ faults' \in 0 .. MaxFaults
  <2>1. queue' = queue /\ reader' = "reading" /\ conn' = conn /\ dead' = dead
    BY <1>8 DEF ReconnectFails, dispVars
  <2>2. faults' = faults \/ (faults < MaxFaults /\ faults' = faults + 1)  BY <1>8 DEF ReconnectFails, Fault
  <2>3. faults' \in 0 .. MaxFaults  BY <2>2, StampFacts DEF Truthful, DispTyped
  <2>4. Listed' = Listed  BY <2>1 DEF Listed
  <2> QED  BY <1>0, <1>1, <2>1, <2>3, <2>4 DEF ConnTrue, QueueTrue
<1>9. QueueTrue' /\ ConnTrue' /\ faults' \in 0 .. MaxFaults
  <2>1. faults \in 0 .. MaxFaults  BY DEF Truthful, DispTyped
  <2> QED  BY <1>4, <1>5, <1>6, <1>7, <1>8, <2>1 DEF Reader
<1>10. DispTyped'  BY <1>1, <1>9 DEF Truthful, DispTyped
<1> QED  BY <1>2, <1>9, <1>10 DEF Truthful

\* The threads that query a snapshot.
LEMMA QueryTrue ==
    ASSUME Truthful, NEW i \in DOMAIN fetches, Query(i) \/ QueryFails(i) \/ PostResult(i)
    PROVE  Truthful'
<1>0. fetches \in Seq(TrueFetches(log)) /\ fetches[i] \in TrueFetches(log)
      /\ queue \in Seq(TrueInputs(log)) /\ Len(queue) <= Slots /\ faults \in 0 .. MaxFaults
  BY SeqFacts DEF Truthful, FetchesTrue, QueueTrue, DispTyped
<1>1. UNCHANGED <<disp, conn, dead, reader, sup, reg, cl, changes, log>>
  BY DEF Query, QueryFails, PostResult, dispVars
<1>2. History' /\ ConnTrue' /\ SupTrue' /\ RegTrue' /\ ClientsTyped'
  BY <1>1 DEF Truthful, History, ConnTrue, SupTrue, RegTrue, ClientsTyped, Listed
<1> DEFINE F == TrueFetches(log)
           U == TrueInputs(log)
<1>3. ASSUME NEW res \in TrueResults(log)  PROVE [fetches EXCEPT ![i].res = res] \in Seq(F)
  <2>1. [fetches[i] EXCEPT !.res = res] \in F  BY <1>0, <1>3 DEF TrueFetches
  <2> DEFINE e == [fetches[i] EXCEPT !.res = res]
             n == Len(fetches)
  <2>2. n \in Nat /\ fetches \in [1 .. n -> F] /\ i \in 1 .. n  BY <1>0, SeqFacts
  <2>3. [fetches EXCEPT ![i].res = res] = [fetches EXCEPT ![i] = e]  OBVIOUS
  <2> HIDE DEF e, n
  <2>4. e \in F  BY <2>1 DEF e
  <2> HIDE DEF F
  <2>5. [fetches EXCEPT ![i] = e] \in [1 .. n -> F]  BY <2>2, <2>4
  <2>6. [fetches EXCEPT ![i] = e] \in Seq(F)  BY <2>2, <2>5
  <2> QED  BY <2>3, <2>6
<1>4. FetchesTrue' /\ QueueTrue' /\ faults' \in 0 .. MaxFaults
  <2>1. CASE Query(i)
    <3>1. PICK res \in TrueResults(log) : fetches' = [fetches EXCEPT ![i].res = res]
      BY <2>1, AnswerTrue, Simple DEF Query
    <3>2. UNCHANGED <<queue, faults>>  BY <2>1 DEF Query
    <3> QED  BY <1>0, <1>1, <1>3, <3>1, <3>2 DEF FetchesTrue, QueueTrue
  <2>2. CASE QueryFails(i)
    <3>1. fetches' = [fetches EXCEPT ![i].res = Failure] /\ queue' = queue /\ faults < MaxFaults /\ faults' = faults + 1
      BY <2>2 DEF QueryFails, Fault
    <3>2. Failure \in TrueResults(log) /\ faults' \in 0 .. MaxFaults  BY <1>0, <3>1, Simple, StampFacts
    <3> QED  BY <1>0, <1>1, <1>3, <3>1, <3>2 DEF FetchesTrue, QueueTrue
  <2>3. CASE PostResult(i)
    <3> DEFINE x == [kind |-> "result", res |-> fetches[i].res, stale |-> fetches[i].stale]
    <3>1. fetches[i].res # None /\ queue' = TrySend(x) /\ fetches' = RemoveAt(fetches, i) /\ faults' = faults
      BY <2>3 DEF PostResult
    <3>2. fetches[i].res \in TrueResults(log) /\ fetches[i].stale \in BOOLEAN  BY <1>0, <3>1 DEF TrueFetches
    <3>3. x \in U  BY <3>2, Simple
    <3> HIDE DEF x, F, U
    <3>4. TrySend(x) \in Seq(U) /\ Len(TrySend(x)) <= Slots  BY <1>0, <3>3, TrySendFacts DEF U
    <3>5. RemoveAt(fetches, i) \in Seq(F)  BY <1>0, RemoveAtFacts DEF F
    <3> QED  BY <1>0, <1>1, <3>1, <3>4, <3>5 DEF FetchesTrue, QueueTrue, F, U
  <2> QED  BY <2>1, <2>2, <2>3
<1>5. DispTyped'  BY <1>1, <1>4 DEF Truthful, DispTyped
<1> QED  BY <1>2, <1>4, <1>5 DEF Truthful

-----------------------------------------------------------------------------
(* The supervisor *)

\* What a broadcast leaves of the clients.
LEMMA BroadcastFacts ==
    ASSUME ClientsTyped, NEW cmds \in Seq(Commands), Broadcast(cmds)
    PROVE  ClientsTyped' /\ \A c \in Clients : SendsTo(cl[c], cmds, cl'[c])
<1>1. cl' = [c \in Clients |-> FoldLeft(Send, cl[c], cmds)]  BY DEF Broadcast
<1>2. ASSUME NEW c \in Clients  PROVE SendsTo(cl[c], cmds, cl'[c])
  <2> DEFINE k == cl[c]
             r == cl'[c]
  <2>1. k \in ClientStates /\ Len(k.q) <= ClientSlots  BY DEF ClientsTyped
  <2>2. r = FoldLeft(Send, k, cmds)  BY <1>1
  <2> HIDE DEF k, r
  <2>3. SendsTo(k, cmds, r)  BY <2>1, <2>2, SendFold
  <2> QED  BY <2>3 DEF k, r
<1>3. ASSUME NEW c \in Clients
      PROVE  /\ cl'[c] \in ClientStates /\ Len(cl'[c].q) <= ClientSlots
             /\ cl'[c].pc = "registered" => cl'[c].init \in Commands
  <2>1. SendsTo(cl[c], cmds, cl'[c])  BY <1>2
  <2>2. cl'[c] \in ClientStates /\ Len(cl'[c].q) <= ClientSlots /\ cl'[c].pc = cl[c].pc /\ cl'[c].init = cl[c].init
    BY <2>1 DEF SendsTo
  <2> QED  BY <2>2 DEF ClientsTyped
<1>4. cl' \in [Clients -> ClientStates]  BY <1>1, <1>3
<1> QED  BY <1>2, <1>3, <1>4 DEF ClientsTyped

\* The head of the queue and the rest.
LEMMA TakeFacts ==
    ASSUME Truthful, NEW kind, Take(kind)
    PROVE  /\ Head(queue) \in TrueInputs(log) /\ Head(queue).kind = kind /\ Head(queue) = queue[1]
           /\ Tail(queue) \in Seq(TrueInputs(log)) /\ Len(Tail(queue)) <= Slots
           /\ StaleInputs(Tail(queue)) \in Seq(TrueInputs(log)) /\ Len(StaleInputs(Tail(queue))) <= Slots
           /\ queue # <<>> /\ sup.st # "Failed"
<1> DEFINE T == TrueInputs(log)
<1>1. queue \in Seq(T) /\ Len(queue) <= Slots /\ queue # <<>> /\ sup.st # "Failed" /\ Head(queue).kind = kind
  BY DEF Truthful, QueueTrue, Take
<1>2. Head(queue) \in T /\ Head(queue) = queue[1] /\ Tail(queue) \in Seq(T) /\ Len(Tail(queue)) = Len(queue) - 1
      /\ Len(queue) \in Nat
  <2> HIDE DEF T
  <2> QED  BY <1>1, SeqFacts
<1>3. Len(Tail(queue)) <= Slots  BY <1>1, <1>2, StampFacts
<1>4. StaleInputs(Tail(queue)) \in Seq(T) /\ Len(StaleInputs(Tail(queue))) = Len(Tail(queue))
  BY <1>2, StaleFacts
<1> QED  BY <1>1, <1>2, <1>3, <1>4

\* Replay: the registry stays exact.
LEMMA ReplayTrue ==
    ASSUME NEW l, DOMAIN l \subseteq Stamps, NEW buf \in Seq(TrueDeltas(l)), NEW r \in Registries,
           Exact(l, r.at, r.proj), NEW cmds \in Seq(Commands)
    PROVE  /\ Replay(r, cmds, buf).reg \in Registries /\ Replay(r, cmds, buf).cmds \in Seq(Commands)
           /\ Exact(l, Replay(r, cmds, buf).reg.at, Replay(r, cmds, buf).reg.proj)
<1> DEFINE A == {acc \in [reg : Registries, cmds : Seq(Commands)] : Exact(l, acc.reg.at, acc.reg.proj)}
<1>1. buf \in Seq(Deltas)
  <2>1. TrueDeltas(l) \subseteq Deltas  BY DEF TrueDeltas
  <2> QED  BY <2>1, SeqOfPart
<1>2. [reg |-> r, cmds |-> cmds] \in A  OBVIOUS
<1>3. ASSUME NEW i \in DOMAIN buf, NEW acc \in A  PROVE ReplayOne(acc, buf[i]) \in A
  <2> DEFINE d == buf[i]
  <2>1. d \in TrueDeltas(l) /\ d \in Deltas  BY <1>1, SeqFacts
  <2> HIDE DEF d
  <2>2. acc.reg \in Registries /\ acc.cmds \in Seq(Commands) /\ Exact(l, acc.reg.at, acc.reg.proj)  OBVIOUS
  <2>3. CASE Follows(acc.reg, d) /\ d.kind # "reset"
    <3> DEFINE w == ApplyDelta(acc.reg, d)
               k == DeltaCommands(d)
    <3>1. w \in Registries /\ Exact(l, w.at, w.proj)  BY <2>1, <2>2, <2>3, FollowsExact
    <3>2. k \in Seq(Commands)  BY <2>1, <2>2, <2>3, DeltaFacts DEF Registries
    <3>3. ReplayOne(acc, d) = [reg |-> w, cmds |-> acc.cmds \o k]  BY <2>3 DEF ReplayOne
    <3> HIDE DEF w, k
    <3>4. acc.cmds \o k \in Seq(Commands)  BY <2>2, <3>2
    <3> QED  BY <3>1, <3>3, <3>4 DEF d
  <2>4. CASE ~(Follows(acc.reg, d) /\ d.kind # "reset")
    <3>1. ReplayOne(acc, d) = acc  BY <2>4 DEF ReplayOne
    <3> QED  BY <3>1 DEF d
  <2> QED  BY <2>3, <2>4
<1> HIDE DEF A
<1>4. Replay(r, cmds, buf) \in A  BY <1>1, <1>2, <1>3, ReplayStays
<1> QED  BY <1>4 DEF A

\* A new query, and the older ones marked stale, are true.
LEMMA FetchFacts ==
    ASSUME Truthful, NEW at \in Stamps
    PROVE  /\ Append(Stale(fetches), Fetch(at)) \in Seq(TrueFetches(log))
           /\ Stale(fetches) \in Seq(TrueFetches(log))
<1>1. fetches \in Seq(TrueFetches(log))  BY DEF Truthful, FetchesTrue
<1>2. Stale(fetches) \in Seq(TrueFetches(log))  BY <1>1, StaleFacts
<1>3. Fetch(at) \in TrueFetches(log)  BY DEF Fetch, TrueFetches
<1> HIDE DEF Truthful
<1> QED  BY <1>2, <1>3, SeqFacts

\* What a step of the supervisor does to the registry and the clients.
LEMMA SuperviseTrue == ASSUME Truthful, Supervise  PROVE Truthful'
<1>0. /\ sup \in [st : {"Streaming", "SnapshotPending", "Failed"}, buf : Seq(TrueDeltas(log))] /\ Len(sup.buf) <= BufferLimit
      /\ fetches \in Seq(TrueFetches(log)) /\ reg \in Registries /\ reg.at \in Stamps /\ reg.proj \in Projections
      /\ ClientsTyped /\ DOMAIN log \subseteq Stamps
      /\ \A at \in DOMAIN log : at[1] # 0
  BY DEF Truthful, SupTrue, FetchesTrue, RegTrue, Registries, DispTyped, History
<1>1. UNCHANGED <<disp, conn, dead, reader, changes, faults, log>>
  BY DEF Supervise, HandleLost, HandleSnapshot, HandleOverflow, HandleResult, HandleDelta, supOnly, dispVars
<1>2. DispTyped' /\ History' /\ ConnTrue'  BY <1>1 DEF Truthful, DispTyped, History, ConnTrue, Listed
<1> DEFINE T == TrueDeltas(log)
           U == TrueInputs(log)
<1>q. ASSUME queue' = Tail(queue) \/ queue' = StaleInputs(Tail(queue)), NEW kind, Take(kind)  PROVE QueueTrue'
  BY <1>1, <1>q, TakeFacts DEF QueueTrue
<1>e. <<>> \in Seq(T) /\ Len(<<>>) <= BufferLimit  BY StampFacts
<1>f. ASSUME NEW w \in Registries, Exact(log, w.at, w.proj), reg' = w  PROVE RegTrue'
  <2>1. w.at[1] # 0  BY <1>0, <1>f DEF Exact
  <2> QED  BY <1>1, <1>f, <2>1 DEF RegTrue
<1>g. ASSUME NEW st \in {"Streaming", "SnapshotPending", "Failed"}, NEW buf \in Seq(T), Len(buf) <= BufferLimit,
             sup' = [st |-> st, buf |-> buf]
      PROVE  SupTrue'
  BY <1>1, <1>g DEF SupTrue
<1>3. CASE HandleLost
  <2>1. Take("lost") /\ queue' = StaleInputs(Tail(queue)) /\ sup' = [st |-> "SnapshotPending", buf |-> <<>>]
        /\ fetches' = Stale(fetches) /\ reg' = reg /\ cl' = cl
    BY <1>3 DEF HandleLost
  <2>2. FetchesTrue'  BY <1>0, <1>1, <2>1, FetchFacts DEF FetchesTrue
  <2>3. SupTrue'  BY <1>e, <1>g, <2>1
  <2>4. RegTrue' /\ ClientsTyped'  BY <1>1, <2>1 DEF Truthful, RegTrue, ClientsTyped
  <2> QED  BY <1>2, <1>q, <2>1, <2>2, <2>3, <2>4 DEF Truthful
<1>4. CASE HandleSnapshot
  <2> DEFINE s == Head(queue)
             cmds == SnapshotCommands(reg, s.at, s.outs)
  <2>1. Take("snapshot") /\ queue' = Tail(queue) /\ fetches' = fetches  BY <1>4 DEF HandleSnapshot
  <2>2. s.at \in Stamps /\ s.outs \in Projections /\ Exact(log, s.at, s.outs)  BY <2>1, TakeFacts, InputFacts
  <2>3. \/ UNCHANGED <<sup, reg, cl>>
        \/ reg' = [at |-> s.at, proj |-> s.outs] /\ sup' = [st |-> "Streaming", buf |-> <<>>] /\ Broadcast(cmds)
    BY <1>4 DEF HandleSnapshot, SnapshotCommands
  <2>4. FetchesTrue'  BY <1>0, <1>1, <2>1 DEF FetchesTrue
  <2>5. CASE UNCHANGED <<sup, reg, cl>>
    BY <1>1, <1>2, <1>q, <2>1, <2>4, <2>5 DEF Truthful, SupTrue, RegTrue, ClientsTyped
  <2>6. CASE reg' = [at |-> s.at, proj |-> s.outs] /\ sup' = [st |-> "Streaming", buf |-> <<>>] /\ Broadcast(cmds)
    <3>1. cmds \in Seq(Commands)  BY <1>0, <2>2, SnapshotCommandFacts
    <3> HIDE DEF cmds
    <3>2. ClientsTyped'  BY <1>0, <2>6, <3>1, BroadcastFacts
    <3> DEFINE w == [at |-> s.at, proj |-> s.outs]
    <3>3. w \in Registries /\ Exact(log, w.at, w.proj)  BY <2>2 DEF Registries
    <3>4. RegTrue'  BY <1>f, <2>6, <3>3
    <3>5. SupTrue'  BY <1>e, <1>g, <2>6
    <3> QED  BY <1>2, <1>q, <2>1, <2>4, <3>2, <3>4, <3>5 DEF Truthful
  <2> QED  BY <2>3, <2>5, <2>6
<1>5. CASE HandleOverflow
  <2>1. Take("overflow") /\ queue' = Tail(queue) /\ sup' = [sup EXCEPT !.st = "Failed"]
        /\ fetches' = fetches /\ reg' = reg /\ cl' = cl
    BY <1>5 DEF HandleOverflow
  <2>2. FetchesTrue'  BY <1>0, <1>1, <2>1 DEF FetchesTrue
  <2>3. SupTrue'  BY <1>0, <1>1, <2>1 DEF SupTrue
  <2>4. RegTrue' /\ ClientsTyped'  BY <1>1, <2>1 DEF Truthful, RegTrue, ClientsTyped
  <2> QED  BY <1>2, <1>q, <2>1, <2>2, <2>3, <2>4 DEF Truthful
<1>6. CASE HandleResult
  <2> DEFINE r == Head(queue)
             fresh == [at |-> r.res.at, proj |-> r.res.outs]
             done == Replay(fresh, projection_diff_commands(reg.proj, fresh.proj, fresh.at), sup.buf)
  <2>1. Take("result")  BY <1>6 DEF HandleResult
  <2>2. r \in TrueInputs(log) /\ r.res \in TrueResults(log)  BY <2>1, TakeFacts, InputFacts
  <2>3. \/ queue' = Tail(queue) /\ UNCHANGED <<sup, fetches, reg, cl>>
        \/ sup' = [st |-> "Streaming", buf |-> <<>>] /\ queue' = Tail(queue) /\ UNCHANGED <<fetches, reg, cl>>
        \/ /\ r.res.ok /\ reg' = done.reg /\ Broadcast(done.cmds)
           /\ \/ /\ sup' = [st |-> "SnapshotPending", buf |-> <<>>] /\ queue' = StaleInputs(Tail(queue))
                 /\ fetches' = Append(Stale(fetches), Fetch(reg'.at))
              \/ sup' = [st |-> "Streaming", buf |-> <<>>] /\ queue' = Tail(queue) /\ fetches' = fetches
    BY <1>6 DEF HandleResult
  <2>4. CASE queue' = Tail(queue) /\ UNCHANGED <<sup, fetches, reg, cl>>
    BY <1>1, <1>2, <1>q, <2>1, <2>4 DEF Truthful, SupTrue, RegTrue, ClientsTyped, FetchesTrue
  <2>5. CASE sup' = [st |-> "Streaming", buf |-> <<>>] /\ queue' = Tail(queue) /\ UNCHANGED <<fetches, reg, cl>>
    <3>1. SupTrue'  BY <1>e, <1>g, <2>5
    <3> QED  BY <1>1, <1>2, <1>q, <2>1, <2>5, <3>1 DEF Truthful, RegTrue, ClientsTyped, FetchesTrue
  <2>6. CASE /\ r.res.ok /\ reg' = done.reg /\ Broadcast(done.cmds)
             /\ \/ /\ sup' = [st |-> "SnapshotPending", buf |-> <<>>] /\ queue' = StaleInputs(Tail(queue))
                   /\ fetches' = Append(Stale(fetches), Fetch(reg'.at))
                \/ sup' = [st |-> "Streaming", buf |-> <<>>] /\ queue' = Tail(queue) /\ fetches' = fetches
    <3>1. fresh \in Registries /\ Exact(log, fresh.at, fresh.proj) /\ fresh.at \in Stamps /\ fresh.proj \in Projections
      BY <2>2, <2>6, ResultFacts DEF Registries
    <3> HIDE DEF fresh
    <3>2. projection_diff_commands(reg.proj, fresh.proj, fresh.at) \in Seq(Commands)  BY <1>0, <3>1, DiffFacts
    <3>3. sup.buf \in Seq(TrueDeltas(log))  BY <1>0
    <3>4. done.reg \in Registries /\ done.cmds \in Seq(Commands) /\ Exact(log, done.reg.at, done.reg.proj)
      BY <1>0, <3>1, <3>2, <3>3, ReplayTrue
    <3> HIDE DEF done
    <3>5. RegTrue'  BY <1>f, <2>6, <3>4
    <3>6. ClientsTyped'  BY <1>0, <2>6, <3>4, BroadcastFacts
    <3>7. SupTrue'  BY <1>e, <1>g, <2>6
    <3>8. FetchesTrue'
      <4>1. reg'.at \in Stamps  BY <2>6, <3>4 DEF Registries
      <4> QED  BY <1>0, <1>1, <2>6, <4>1, FetchFacts DEF FetchesTrue
    <3>9. QueueTrue'  BY <1>q, <2>1, <2>6
    <3> QED  BY <1>2, <3>5, <3>6, <3>7, <3>8, <3>9 DEF Truthful
  <2> QED  BY <2>3, <2>4, <2>5, <2>6
<1>7. CASE HandleDelta
  <2> DEFINE d == Head(queue).delta
             b == sup.buf
             kept == IF Len(b) < BufferLimit THEN Append(b, d) ELSE <<>>
  <2>1. Take("event")  BY <1>7 DEF HandleDelta
  <2>2. d \in T  BY <2>1, TakeFacts, InputFacts
  <2>3. b \in Seq(T) /\ Len(b) <= BufferLimit  BY <1>0
  <2>4. kept \in Seq(T) /\ Len(kept) <= BufferLimit
    <3> HIDE DEF b, d, T
    <3>1. Append(b, d) \in Seq(T) /\ Len(Append(b, d)) = Len(b) + 1 /\ Len(b) \in Nat  BY <2>2, <2>3, SeqFacts
    <3> QED  BY <1>e, <3>1, StampFacts
  <2>5. \/ sup' = [sup EXCEPT !.buf = kept] /\ queue' = Tail(queue) /\ UNCHANGED <<fetches, reg, cl>>
        \/ (Resync(kept) \/ Resync(b)) /\ queue' = StaleInputs(Tail(queue))
        \/ /\ Follows(reg, d) /\ d.kind # "reset" /\ reg' = ApplyDelta(reg, d) /\ Broadcast(DeltaCommands(d))
           /\ queue' = Tail(queue) /\ UNCHANGED <<sup, fetches>>
    BY <1>7 DEF HandleDelta
  <2>q. QueueTrue'  BY <1>q, <2>1, <2>5
  <2> HIDE DEF kept, b, T
  <2>6. CASE sup' = [sup EXCEPT !.buf = kept] /\ queue' = Tail(queue) /\ UNCHANGED <<fetches, reg, cl>>
    <3>1. SupTrue'  BY <1>0, <1>1, <2>4, <2>6 DEF SupTrue, T
    <3> QED  BY <1>1, <1>2, <2>q, <2>6, <3>1 DEF Truthful, RegTrue, ClientsTyped, FetchesTrue
  <2>7. CASE (Resync(kept) \/ Resync(b)) /\ queue' = StaleInputs(Tail(queue))
    <3>1. PICK x \in Seq(T) : Len(x) <= BufferLimit /\ sup' = [st |-> "SnapshotPending", buf |-> x]
      BY <2>3, <2>4, <2>7 DEF Resync
    <3>2. fetches' = Append(Stale(fetches), Fetch(reg.at)) /\ UNCHANGED <<reg, cl>>  BY <2>7 DEF Resync
    <3>3. SupTrue'  BY <1>g, <3>1
    <3>4. FetchesTrue'  BY <1>0, <1>1, <3>2, FetchFacts DEF FetchesTrue
    <3> QED  BY <1>1, <1>2, <2>q, <3>2, <3>3, <3>4 DEF Truthful, RegTrue, ClientsTyped
  <2>8. CASE /\ Follows(reg, d) /\ d.kind # "reset" /\ reg' = ApplyDelta(reg, d) /\ Broadcast(DeltaCommands(d))
             /\ queue' = Tail(queue) /\ UNCHANGED <<sup, fetches>>
    <3>1. d \in TrueDeltas(log) /\ d \in Deltas  BY <2>2 DEF T, TrueDeltas
    <3> HIDE DEF d
    <3>2. Exact(log, reg.at, reg.proj)
      <4>1. d.at \in DOMAIN log  BY <3>1 DEF TrueDeltas, Genuine
      <4>2. reg.at[1] # 0  BY <1>0, <2>8, <4>1 DEF Follows
      <4> QED  BY <4>2 DEF Truthful, RegTrue
    <3>3. ApplyDelta(reg, d) \in Registries /\ Exact(log, ApplyDelta(reg, d).at, ApplyDelta(reg, d).proj)
      BY <1>0, <2>8, <3>1, <3>2, FollowsExact
    <3>4. RegTrue'  BY <1>f, <2>8, <3>3
    <3>5. DeltaCommands(d) \in Seq(Commands)  BY <1>0, <2>8, <3>1, DeltaFacts DEF Registries
    <3>6. ClientsTyped'  BY <1>0, <2>8, <3>5, BroadcastFacts
    <3> QED  BY <1>1, <1>2, <2>q, <2>8, <3>4, <3>6 DEF Truthful, SupTrue, FetchesTrue
  <2> QED  BY <2>5, <2>6, <2>7, <2>8
<1> QED  BY <1>3, <1>4, <1>5, <1>6, <1>7 DEF Supervise

-----------------------------------------------------------------------------
(* The clients *)

\* A flush tells the client what it has been offered.
LEMMA DeliveredFacts ==
    ASSUME NEW k \in ClientStates, NEW r, r = Delivered(k)
    PROVE  /\ r \in ClientStates /\ r.unsent = <<>> /\ r.told = Offered(k) /\ Offered(r) = Offered(k)
           /\ r.pc = k.pc /\ r.q = k.q /\ r.resync = k.resync /\ r.at = k.at /\ r.live = k.live /\ r.core = k.core
           /\ r.init = k.init /\ r.bound = k.bound /\ r.overtaken = k.overtaken
<1>1. r = [k EXCEPT !.unsent = <<>>, !.told = Offered(k)]  BY DeliveredTells
<1>2. Offered(k) \subseteq Outputs  BY DEF Offered, OfferedBy
<1>3. <<>> \in Seq(Events)  OBVIOUS
<1>4. /\ r \in ClientStates /\ r.unsent = <<>> /\ r.told = Offered(k)
      /\ r.pc = k.pc /\ r.q = k.q /\ r.resync = k.resync /\ r.at = k.at /\ r.live = k.live /\ r.core = k.core
      /\ r.init = k.init /\ r.bound = k.bound /\ r.overtaken = k.overtaken
  BY <1>1, <1>2, <1>3 DEF ClientStates
<1>5. Offered(r) = Offered(k)
  <2>1. Offered(r) = OfferedBy(r.told, <<>>) /\ r.told \in SUBSET Outputs  BY <1>2, <1>4 DEF Offered
  <2> QED  BY <1>4, <2>1, OfferedEmpty
<1> QED  BY <1>4, <1>5

\* The three commands with which a client starts again from the registry.
Restarted(k0, r) ==
    LET k1 == Apply(k0, Command("reset", r.at, Empty))
        k2 == Apply(k1, Command("remove", r.at, k1.live))
    IN  Apply(k2, Command("add", r.at, r.proj))
ClearedOf(k) == Discarded([k EXCEPT !.q = <<>>, !.resync = FALSE])

\* Reconciling a client is applying three commands: reset, remove, add.
LEMMA RestartedFacts ==
    ASSUME NEW k \in ClientStates, NEW r \in Registries
    PROVE  \E k1, k2, k3 \in ClientStates :
               /\ k1 = Apply(k, Command("reset", r.at, Empty))
               /\ Becomes(k, Ap(ViewOf(k), Command("reset", r.at, Empty)), k1)
               /\ k2 = Apply(k1, Command("remove", r.at, k1.live))
               /\ Becomes(k1, Ap(ViewOf(k1), Command("remove", r.at, k1.live)), k2)
               /\ k3 = Apply(k2, Command("add", r.at, r.proj))
               /\ Becomes(k2, Ap(ViewOf(k2), Command("add", r.at, r.proj)), k3)
               /\ Restarted(k, r) = k3
<1> DEFINE c1 == Command("reset", r.at, Empty)
           k1 == Apply(k, c1)
           c2 == Command("remove", r.at, k1.live)
           k2 == Apply(k1, c2)
           c3 == Command("add", r.at, r.proj)
           k3 == Apply(k2, c3)
<1>0. r.at \in Stamps /\ r.proj \in Projections  BY DEF Registries
<1>1. c1 \in Commands  BY <1>0, CommandFacts
<1> HIDE DEF c1
<1>2. Becomes(k, Ap(ViewOf(k), c1), k1)  BY <1>1, ApplyFacts
<1> HIDE DEF k1
<1>3. k1 \in ClientStates  BY <1>2 DEF Becomes
<1>4. c2 \in Commands
  <2>1. k1.live \in Projections  BY <1>3 DEF ClientStates
  <2>2. k1.live \in Lists  BY <2>1, MapFacts
  <2> QED  BY <1>0, <2>2, CommandFacts
<1> HIDE DEF c2
<1>5. Becomes(k1, Ap(ViewOf(k1), c2), k2)  BY <1>3, <1>4, ApplyFacts
<1> HIDE DEF k2
<1>6. k2 \in ClientStates  BY <1>5 DEF Becomes
<1>7. c3 \in Commands  BY <1>0, CommandFacts
<1> HIDE DEF c3
<1>8. Becomes(k2, Ap(ViewOf(k2), c3), k3)  BY <1>6, <1>7, ApplyFacts
<1>a. k3 = Apply(k2, c3)  OBVIOUS
<1> HIDE DEF k3
<1>9. k3 \in ClientStates  BY <1>8 DEF Becomes
<1>10. Restarted(k, r) = k3  BY <1>a DEF Restarted, k1, k2, c1, c2, c3
<1>b. k1 = Apply(k, c1) /\ k2 = Apply(k1, c2)  BY DEF k1, k2
<1> QED  BY <1>2, <1>3, <1>5, <1>6, <1>8, <1>9, <1>10, <1>a, <1>b DEF c1, c2, c3

\* A reset and a removal never make a client leave.
LEMMA ClearedFacts ==
    ASSUME NEW k \in ClientStates, NEW r, r = ClearedOf(k)
    PROVE  /\ r \in ClientStates /\ r.q = <<>> /\ ~r.resync /\ r.unsent = <<>>
           /\ r.pc = k.pc /\ r.at = k.at /\ r.live = k.live /\ r.core = k.core /\ r.init = k.init
           /\ r.bound = k.bound /\ r.told = k.told /\ r.overtaken = k.overtaken
<1>1. <<>> \in Seq(Commands) /\ <<>> \in Seq(Events)  OBVIOUS
<1> QED  BY <1>1 DEF ClearedOf, Discarded, ClientStates

\* A command changes nothing of a client but its view and what it has sent.
LEMMA BecomesKeeps ==
    ASSUME NEW k \in ClientStates, NEW w, NEW r, Becomes(k, w, r)
    PROVE  /\ r \in ClientStates /\ (r.q = k.q \/ r.q = <<>>) /\ (r.pc = k.pc \/ r.pc = "gone")
           /\ r.init = k.init \/ r.pc = "gone"
BY GoneFacts DEF Becomes, Remains

\* The steps of a client.
LEMMA ClientTrue ==
    ASSUME Truthful, NEW c \in Clients, Register(c) \/ ClientStep(c) \/ GetRegistry(c) \/ Disconnect(c)
    PROVE  Truthful'
<1> DEFINE k == cl[c]
           r == cl'[c]
<1>0. cl \in [Clients -> ClientStates] /\ k \in ClientStates /\ Len(k.q) <= ClientSlots
      /\ (k.pc = "registered" => k.init \in Commands)
      /\ reg \in Registries /\ reg.at \in Stamps /\ reg.proj \in Projections
  BY DEF Truthful, ClientsTyped, RegTrue, Registries
<1>1. UNCHANGED clientOnly /\ cl' = [cl EXCEPT ![c] = r] /\ \E x : Become(c, x)
  BY <1>0 DEF Register, ClientStep, SendInitial, TakeCommand, Flush, Reconcile, GetRegistry, Disconnect, Become
<1>2. DispTyped' /\ History' /\ ConnTrue' /\ QueueTrue' /\ SupTrue' /\ FetchesTrue' /\ RegTrue'
  BY <1>1 DEF clientOnly, dispVars, Truthful, DispTyped, History, ConnTrue, QueueTrue, SupTrue, FetchesTrue, RegTrue, Listed
<1>a. \A x : Become(c, x) => r = x  BY <1>0 DEF Become
<1>b. Len(k.q) \in Nat /\ k.q \in Seq(Commands)  BY <1>0, SeqFacts DEF ClientStates
<1> SUFFICES r \in ClientStates /\ Len(r.q) <= ClientSlots /\ (r.pc = "registered" => r.init \in Commands)
  <2>1. \A x \in Clients : cl'[x] = IF x = c THEN r ELSE cl[x]  BY <1>0, <1>1
  <2>2. cl' \in [Clients -> ClientStates]  BY <1>0, <1>1, <2>1
  <2>3. ClientsTyped'  BY <2>1, <2>2 DEF Truthful, ClientsTyped
  <2> QED  BY <1>2, <2>3 DEF Truthful
<1> HIDE DEF r, k
<1>3. CASE Register(c)
  <2> DEFINE m == Command("initial", reg.at, reg.proj)
  <2>1. r = [NewClient EXCEPT !.pc = "registered", !.live = reg.proj, !.init = m]  BY <1>3, <1>a DEF Register
  <2>2. m \in Commands  BY <1>0, CommandFacts
  <2> HIDE DEF m
  <2>3. NewClient.q = <<>>  BY DEF NewClient
  <2>4. r \in ClientStates /\ r.q = NewClient.q /\ r.init = m  BY <1>0, <2>1, <2>2, GoneFacts DEF ClientStates
  <2> QED  BY <2>2, <2>3, <2>4, StampFacts
<1>4. CASE SendInitial(c)
  <2>1. k.pc = "registered"  BY <1>4 DEF SendInitial, k
  <2>2. k.init \in Commands  BY <1>0, <2>1
  <2> DEFINE q == Append(k.q, k.init)
  <2>3. q \in Seq(Commands) /\ Len(q) = Len(k.q) + 1  BY <1>b, <2>2, SeqFacts
  <2>4. \/ r = Gone
        \/ Len(k.q) < ClientSlots /\ r = [k EXCEPT !.pc = "running", !.q = q, !.init = None, !.overtaken = k.q # <<>>]
    BY <1>0, <1>4, <1>a DEF SendInitial, k
  <2> HIDE DEF q
  <2>5. CASE r = Gone  BY <2>5, GoneFacts, StampFacts
  <2>6. CASE Len(k.q) < ClientSlots /\ r = [k EXCEPT !.pc = "running", !.q = q, !.init = None, !.overtaken = k.q # <<>>]
    <3>1. r \in ClientStates /\ r.q = q /\ r.pc = "running"  BY <1>0, <2>3, <2>6 DEF ClientStates
    <3>2. Len(k.q) + 1 <= ClientSlots  BY <1>b, <2>6, StampFacts
    <3> QED  BY <2>3, <3>1, <3>2
  <2> QED  BY <2>4, <2>5, <2>6
<1>5. CASE TakeCommand(c)
  <2> DEFINE j == [k EXCEPT !.q = Tail(@)]
             x == Apply(j, Head(k.q))
  <2>1. k.q # <<>> /\ k.pc = "running" /\ r = IF x.pc = "gone" THEN x ELSE [x EXCEPT !.pc = "applied"]
    BY <1>5, <1>a DEF TakeCommand, k
  <2>2. Head(k.q) \in Commands /\ Tail(k.q) \in Seq(Commands) /\ Len(Tail(k.q)) = Len(k.q) - 1  BY <1>b, <2>1, SeqFacts
  <2>3. j \in ClientStates /\ j.q = Tail(k.q)  BY <1>0, <2>2 DEF ClientStates
  <2> HIDE DEF j
  <2>4. Becomes(j, Ap(ViewOf(j), Head(k.q)), x)  BY <2>2, <2>3, ApplyFacts
  <2> HIDE DEF x
  <2>5. x \in ClientStates /\ (x.q = j.q \/ x.q = <<>>)  BY <2>3, <2>4, BecomesKeeps
  <2>6. r \in ClientStates /\ r.q = x.q /\ r.pc \in {"gone", "applied"}  BY <2>1, <2>5 DEF ClientStates
  <2>7. Len(r.q) <= Len(k.q)
    <3>1. r.q = Tail(k.q) \/ r.q = <<>>  BY <2>3, <2>5, <2>6
    <3>2. Len(<<>>) = 0  OBVIOUS
    <3>3. Len(r.q) = Len(k.q) - 1 \/ Len(r.q) = 0  BY <2>2, <3>1, <3>2
    <3> HIDE DEF ClientStates
    <3>4. Len(k.q) \in Nat  BY <1>b
    <3> QED  BY <3>3, <3>4
  <2> QED  BY <1>0, <1>b, <2>6, <2>7, StampFacts
<1>6. CASE Flush(c)
  <2> DEFINE x == IF k.resync THEN k ELSE Delivered(k)
  <2>1. r = [x EXCEPT !.pc = "running"]  BY <1>6, <1>a DEF Flush, k
  <2>2. x \in ClientStates /\ x.q = k.q  BY <1>0, DeliveredFacts
  <2> HIDE DEF x
  <2>3. r \in ClientStates /\ r.q = x.q /\ r.pc = "running"  BY <2>1, <2>2 DEF ClientStates
  <2> QED  BY <1>0, <2>2, <2>3
<1>7. CASE Reconcile(c)
  <2> DEFINE k0 == ClearedOf(k)
             x == Restarted(k0, reg)
  <2>1. r = [Delivered(x) EXCEPT !.overtaken = FALSE] /\ k.pc = "running"
    BY <1>7, <1>a DEF Reconcile, ClearedOf, Restarted, k
  <2>2. k0 \in ClientStates /\ k0.q = <<>> /\ k0.pc = k.pc  BY <1>0, ClearedFacts
  <2> HIDE DEF k0
  <2>3. PICK k1, k2, k3 \in ClientStates :
               /\ Becomes(k0, Ap(ViewOf(k0), Command("reset", reg.at, Empty)), k1)
               /\ Becomes(k1, Ap(ViewOf(k1), Command("remove", reg.at, k1.live)), k2)
               /\ Becomes(k2, Ap(ViewOf(k2), Command("add", reg.at, reg.proj)), k3)
               /\ x = k3
    BY <1>0, <2>2, RestartedFacts
  <2>4. (k1.q = k0.q \/ k1.q = <<>>) /\ (k1.pc = k0.pc \/ k1.pc = "gone")  BY <2>2, <2>3, BecomesKeeps
  <2>5. (k2.q = k1.q \/ k2.q = <<>>) /\ (k2.pc = k1.pc \/ k2.pc = "gone")  BY <2>3, BecomesKeeps
  <2>6. (k3.q = k2.q \/ k3.q = <<>>) /\ (k3.pc = k2.pc \/ k3.pc = "gone")  BY <2>3, BecomesKeeps
  <2>7. x \in ClientStates /\ x.q = <<>> /\ x.pc # "registered"  BY <2>1, <2>2, <2>3, <2>4, <2>5, <2>6
  <2> HIDE DEF x
  <2> DEFINE y == Delivered(x)
  <2>8. y \in ClientStates /\ y.q = <<>> /\ y.pc # "registered"  BY <2>7, DeliveredFacts
  <2> HIDE DEF y
  <2>9. r = [y EXCEPT !.overtaken = FALSE]  BY <2>1 DEF y
  <2>10. r \in ClientStates /\ r.q = <<>> /\ r.pc # "registered"  BY <2>8, <2>9 DEF ClientStates
  <2> QED  BY <2>10, StampFacts
<1>8. CASE GetRegistry(c)
  <2>1. r = [k EXCEPT !.bound = TRUE, !.told = DOMAIN k.core] /\ k.pc = "running"  BY <1>8, <1>a DEF GetRegistry, k
  <2>2. DOMAIN k.core \subseteq Outputs  BY <1>0, MapFacts DEF ClientStates
  <2>3. r \in ClientStates /\ r.q = k.q /\ r.pc = "running"  BY <1>0, <2>1, <2>2 DEF ClientStates
  <2> QED  BY <1>0, <2>3
<1>9. CASE Disconnect(c)
  <2>1. r = Gone  BY <1>9, <1>a DEF Disconnect
  <2> QED  BY <2>1, GoneFacts, StampFacts
<1> QED  BY <1>3, <1>4, <1>5, <1>6, <1>7, <1>8, <1>9 DEF ClientStep

\* Every step keeps what is on its way true.
LEMMA TruthfulStep == Truthful /\ [Next]_vars => Truthful'
<1> SUFFICES ASSUME Truthful, [Next]_vars  PROVE Truthful'  OBVIOUS
<1>1. CASE UNCHANGED vars
  BY <1>1 DEF vars, dispVars, Truthful, DispTyped, History, ConnTrue, QueueTrue, SupTrue, FetchesTrue, RegTrue,
              ClientsTyped, Listed
<1>2. CASE Next
  BY <1>2, ChangeTrue, RestartTrue, ReaderTrue, SuperviseTrue, QueryTrue, ClientTrue DEF Next
<1> QED  BY <1>1, <1>2

\* Whatever happens to deltas and answers, the registry holds exactly the outputs that
\* displayd had at the registry's stamp (apply_topology_delta, replay_buffered_deltas,
\* apply_authoritative_topology_snapshot), and all queues stay within their limits.
THEOREM ProjectionExactHolds == Spec => []ProjectionExact
<1>1. Truthful => ProjectionExact
  <2> SUFFICES ASSUME Truthful  PROVE ProjectionExact  OBVIOUS
  <2>1. \A c \in Clients :
           /\ cl[c] \in ClientStates /\ Len(cl[c].q) <= ClientSlots
    BY DEF Truthful, ClientsTyped
  <2>2. \A c \in Clients :
           /\ cl[c].pc \in {"none", "registered", "running", "applied", "gone"}
           /\ Len(cl[c].q) <= ClientSlots
           /\ cl[c].at \in Stamps /\ cl[c].live \in Projections
    BY <2>1 DEF ClientStates
  <2>3. TypeOK  BY <2>2 DEF TypeOK, Truthful, ConnTrue, QueueTrue, SupTrue, RegTrue, Registries
  <2>4. reg.at[1] # 0 => ModesOf(reg.proj) = log[reg.at]  BY DEF Truthful, RegTrue, Exact
  <2> QED  BY <2>3, <2>4 DEF ProjectionExact
<1>2. Init => Truthful  BY InitTrue
<1>3. Truthful /\ [Next]_vars => Truthful'  BY TruthfulStep
<1> QED  BY <1>1, <1>2, <1>3, PTL DEF Spec

-----------------------------------------------------------------------------
(* Runs of commands on the view of a client *)

\* w is what the commands make of v.
Run(v, cmds, w) ==
    \E h \in [0 .. Len(cmds) -> Views] :
        /\ h[0] = v /\ h[Len(cmds)] = w
        /\ \A i \in 1 .. Len(cmds) : h[i] = Ap(h[i - 1], cmds[i])

\* Laying a map over another, and taking outputs off it.
LEMMA OverStays ==
    /\ \A f, g \in Projections : Over(f, g) \in Projections
    /\ \A f, g \in Maps : Over(f, g) \in Maps
    /\ \A S : \A f \in Projections : Less(f, S) \in Projections
    /\ \A S : \A f \in Maps : Less(f, S) \in Maps
<1>1. ASSUME NEW f, NEW g, NEW T, f \in [DOMAIN f -> T], g \in [DOMAIN g -> T]
      PROVE  Over(f, g) \in [DOMAIN f \cup DOMAIN g -> T] /\ DOMAIN Over(f, g) = DOMAIN f \cup DOMAIN g
  BY <1>1 DEF Over
<1>2. ASSUME NEW f, NEW S, NEW T, f \in [DOMAIN f -> T]
      PROVE  Less(f, S) \in [DOMAIN f \ S -> T] /\ DOMAIN Less(f, S) = DOMAIN f \ S
  BY <1>2 DEF Less
<1>3. ASSUME NEW f \in Projections, NEW g \in Projections  PROVE Over(f, g) \in Projections
  <2>1. f \in [DOMAIN f -> Entries] /\ g \in [DOMAIN g -> Entries] /\ DOMAIN f \cup DOMAIN g \subseteq Outputs
    BY MapFacts
  <2> QED  BY <1>1, <2>1, MapFacts
<1>4. ASSUME NEW f \in Maps, NEW g \in Maps  PROVE Over(f, g) \in Maps
  <2>1. f \in [DOMAIN f -> Modes] /\ g \in [DOMAIN g -> Modes] /\ DOMAIN f \cup DOMAIN g \subseteq Outputs
    BY MapFacts
  <2> QED  BY <1>1, <2>1, MapFacts
<1>5. ASSUME NEW f \in Projections, NEW S  PROVE Less(f, S) \in Projections
  <2>1. f \in [DOMAIN f -> Entries] /\ DOMAIN f \ S \subseteq Outputs  BY MapFacts
  <2>2. Less(f, S) \in [DOMAIN f \ S -> Entries]  BY <1>2, <2>1
  <2> QED  BY <2>1, <2>2, MapFacts
<1>6. ASSUME NEW f \in Maps, NEW S  PROVE Less(f, S) \in Maps
  <2>1. f \in [DOMAIN f -> Modes] /\ DOMAIN f \ S \subseteq Outputs  BY MapFacts
  <2>2. Less(f, S) \in [DOMAIN f \ S -> Modes]  BY <1>2, <2>1
  <2> QED  BY <2>1, <2>2, MapFacts
<1> QED  BY <1>3, <1>4, <1>5, <1>6

\* A command leaves a view, whose core has no output the projection lacks.
LEMMA ApStays ==
    ASSUME NEW v \in Views, NEW cmd \in Commands
    PROVE  /\ Ap(v, cmd) \in Views /\ (v.gone => Ap(v, cmd) = v)
           /\ DOMAIN v.core \subseteq DOMAIN v.live => DOMAIN Ap(v, cmd).core \subseteq DOMAIN Ap(v, cmd).live
           /\ Ap(v, cmd).at = v.at \/ Ap(v, cmd).at = cmd.at
<1>0. v.at \in Stamps /\ v.live \in Projections /\ v.core \in Maps /\ cmd.at \in Stamps  BY DEF Views, Commands
<1>1. \A live \in Projections, core \in Maps : View(cmd.at, live, core) \in Views  BY <1>0 DEF View, Views
<1>2. /\ Lost(v) \in Views /\ Lost(v).at = v.at /\ Lost(v).live = v.live /\ Lost(v).core = v.core
  BY <1>0 DEF Lost, Views
<1>3. \A live, core : View(cmd.at, live, core).at = cmd.at /\ View(cmd.at, live, core).live = live
                      /\ View(cmd.at, live, core).core = core
  BY DEF View
<1> DEFINE w == Effect(v, cmd)
<1>4. /\ w \in Views
      /\ DOMAIN v.core \subseteq DOMAIN v.live => DOMAIN w.core \subseteq DOMAIN w.live
      /\ w.at = v.at \/ w.at = cmd.at
  <2>1. CASE cmd.kind \in {"initial", "add"}
    <3> DEFINE live == Over(v.live, cmd.outs)
               core == Over(ModesOf(cmd.outs), v.core)
    <3>1. cmd.outs \in Projections  BY <2>1 DEF Commands
    <3>2. ModesOf(cmd.outs) \in Maps /\ DOMAIN ModesOf(cmd.outs) = DOMAIN cmd.outs  BY <3>1, ModesFacts
    <3>3. live \in Projections /\ core \in Maps  BY <1>0, <3>1, <3>2, OverStays
    <3>4. DOMAIN live = DOMAIN v.live \cup DOMAIN cmd.outs /\ DOMAIN core = DOMAIN cmd.outs \cup DOMAIN v.core
      BY <3>2 DEF Over
    <3>5. w = View(cmd.at, live, core)  BY <2>1 DEF Effect
    <3> HIDE DEF live, core, w
    <3> QED  BY <1>1, <1>3, <3>3, <3>4, <3>5
  <2>2. CASE cmd.kind = "remove"
    <3> DEFINE live == Less(v.live, DOMAIN cmd.outs)
               core == Less(v.core, DOMAIN cmd.outs)
    <3>1. live \in Projections /\ core \in Maps  BY <1>0, OverStays
    <3>2. DOMAIN live = DOMAIN v.live \ DOMAIN cmd.outs /\ DOMAIN core = DOMAIN v.core \ DOMAIN cmd.outs  BY DEF Less
    <3>3. w = View(cmd.at, live, core)  BY <2>2 DEF Effect
    <3> HIDE DEF live, core, w
    <3> QED  BY <1>1, <1>3, <3>1, <3>2, <3>3
  <2>3. CASE cmd.kind = "reconfigure"
    <3> DEFINE live == Over(v.live, cmd.outs)
               core == Over(v.core, ModesOf(cmd.outs))
    <3>1. cmd.outs \in Projections
      <4>1. cmd.outs \in Singles  BY <2>3 DEF Commands
      <4> QED  BY <4>1, MapFacts
    <3>2. ModesOf(cmd.outs) \in Maps /\ DOMAIN ModesOf(cmd.outs) = DOMAIN cmd.outs  BY <3>1, ModesFacts
    <3>3. live \in Projections /\ core \in Maps  BY <1>0, <3>1, <3>2, OverStays
    <3>4. DOMAIN live = DOMAIN v.live \cup DOMAIN cmd.outs /\ DOMAIN core = DOMAIN v.core \cup DOMAIN cmd.outs
      BY <3>2 DEF Over
    <3>5. w = View(cmd.at, live, core) \/ w = Lost(v)  BY <2>3 DEF Effect
    <3> HIDE DEF live, core, w
    <3> QED  BY <1>1, <1>2, <1>3, <3>3, <3>4, <3>5
  <2>4. CASE cmd.kind \in {"reset", "recalculate"}
    <3>1. w = View(cmd.at, v.live, v.core)  BY <2>4 DEF Effect
    <3> HIDE DEF w
    <3> QED  BY <1>0, <1>1, <1>3, <3>1
  <2>5. cmd.kind \in {"reset", "recalculate", "initial", "add", "reconfigure", "remove"}  BY DEF Commands
  <2> QED  BY <2>1, <2>2, <2>3, <2>4, <2>5
<1>5. Ap(v, cmd) \in {v, Lost(v), w} /\ (v.gone => Ap(v, cmd) = v)  BY DEF Ap
<1> HIDE DEF w
<1> QED  BY <1>2, <1>4, <1>5

\* Runs stay within the views.
LEMMA RunStays ==
    ASSUME NEW v, NEW cmds \in Seq(Commands), NEW w, Run(v, cmds, w)
    PROVE  v \in Views /\ w \in Views
<1>1. Len(cmds) \in Nat  BY SeqFacts
<1>2. 0 \in 0 .. Len(cmds) /\ Len(cmds) \in 0 .. Len(cmds)  BY <1>1
<1> QED  BY <1>2 DEF Run

\* The run of no command.
LEMMA RunNone == ASSUME NEW v \in Views  PROVE Run(v, <<>>, v) /\ \A w : Run(v, <<>>, w) => w = v
<1> DEFINE h == [i \in 0 .. 0 |-> v]
<1>1. h \in [0 .. 0 -> Views] /\ h[0] = v /\ \A i \in 1 .. 0 : h[i] = Ap(h[i - 1], <<>>[i])  OBVIOUS
<1>2. Len(<<>>) = 0  OBVIOUS
<1>3. Run(v, <<>>, v)  BY <1>1, <1>2 DEF Run
<1>4. ASSUME NEW w, Run(v, <<>>, w)  PROVE w = v  BY <1>2, <1>4 DEF Run
<1> QED  BY <1>3, <1>4

\* A run of two sequences is a run of the first and one of the second.
LEMMA RunJoins ==
    ASSUME NEW s \in Seq(Commands), NEW t \in Seq(Commands), NEW v, NEW u, NEW w, Run(v, s, u), Run(u, t, w)
    PROVE  Run(v, s \o t, w)
<1> DEFINE m == Len(s)
           n == Len(t)
           c == s \o t
<1>1. m \in Nat /\ n \in Nat /\ Len(c) = m + n /\ \A i \in 1 .. m + n : c[i] = IF i <= m THEN s[i] ELSE t[i - m]
  BY ConcatProperties, SeqFacts
<1> HIDE DEF c
<1>2. PICK f \in [0 .. m -> Views] : f[0] = v /\ f[m] = u /\ \A i \in 1 .. m : f[i] = Ap(f[i - 1], s[i])
  BY DEF Run
<1>3. PICK g \in [0 .. n -> Views] : g[0] = u /\ g[n] = w /\ \A i \in 1 .. n : g[i] = Ap(g[i - 1], t[i])
  BY DEF Run
<1> HIDE DEF m, n
<1> DEFINE h == [i \in 0 .. m + n |-> IF i <= m THEN f[i] ELSE g[i - m]]
<1>4. h \in [0 .. m + n -> Views]
  <2> SUFFICES ASSUME NEW i \in 0 .. m + n  PROVE (IF i <= m THEN f[i] ELSE g[i - m]) \in Views  OBVIOUS
  <2>1. CASE i <= m
    <3>1. i \in 0 .. m  BY <1>1, <2>1
    <3> QED  BY <2>1, <3>1
  <2>2. CASE ~(i <= m)
    <3>1. i - m \in 0 .. n  BY <1>1, <2>2
    <3> QED  BY <2>2, <3>1
  <2> QED  BY <2>1, <2>2
<1>5. h[0] = v  BY <1>1, <1>2
<1>6. h[m + n] = w
  <2>0. m + n \in 0 .. m + n  BY <1>1
  <2>1. CASE n = 0
    <3>1. m + n = m /\ w = u  BY <1>1, <1>3, <2>1
    <3> QED  BY <1>1, <1>2, <2>0, <3>1
  <2>2. CASE n # 0
    <3>1. ~(m + n <= m) /\ (m + n) - m = n  BY <1>1, <2>2
    <3> QED  BY <1>3, <2>0, <3>1
  <2> QED  BY <2>1, <2>2
<1>7. ASSUME NEW i \in 1 .. m + n  PROVE h[i] = Ap(h[i - 1], c[i])
  <2>0. i \in 0 .. m + n /\ i - 1 \in 0 .. m + n /\ i \in Nat  BY <1>1
  <2>1. CASE i <= m
    <3>1. i \in 1 .. m /\ i - 1 <= m  BY <1>1, <2>1
    <3>2. h[i] = f[i] /\ h[i - 1] = f[i - 1] /\ c[i] = s[i]  BY <1>1, <2>0, <2>1, <3>1
    <3> QED  BY <1>2, <3>1, <3>2
  <2>2. CASE i = m + 1
    <3>1. ~(i <= m) /\ i - m = 1 /\ i - 1 = m /\ m <= m /\ 1 \in 1 .. n  BY <1>1, <2>2
    <3>2. h[i] = g[1] /\ h[i - 1] = f[m] /\ c[i] = t[1]  BY <1>1, <2>0, <3>1
    <3>3. g[1] = Ap(g[1 - 1], t[1]) /\ 1 - 1 = 0  BY <1>3, <3>1
    <3> QED  BY <1>2, <1>3, <3>2, <3>3
  <2>3. CASE i > m + 1
    <3>1. ~(i <= m) /\ ~(i - 1 <= m) /\ i - m \in 1 .. n /\ (i - 1) - m = (i - m) - 1  BY <1>1, <2>0, <2>3
    <3>2. h[i] = g[i - m] /\ h[i - 1] = g[(i - m) - 1] /\ c[i] = t[i - m]  BY <1>1, <2>0, <3>1
    <3> QED  BY <1>3, <3>1, <3>2
  <2> QED  BY <1>1, <2>0, <2>1, <2>2, <2>3
<1> HIDE DEF h
<1>8. \E x \in [0 .. m + n -> Views] : x[0] = v /\ x[m + n] = w /\ \A i \in 1 .. m + n : x[i] = Ap(x[i - 1], c[i])
  BY <1>4, <1>5, <1>6, <1>7
<1>9. Run(v, c, w)  BY <1>1, <1>8 DEF Run
<1> QED  BY <1>9 DEF c

\* The run of two batches is a run of the first and one of the second.
LEMMA RunSplits ==
    ASSUME NEW s \in Seq(Commands), NEW t \in Seq(Commands), NEW v, NEW w, Run(v, s \o t, w)
    PROVE  \E u \in Views : Run(v, s, u) /\ Run(u, t, w)
<1> DEFINE m == Len(s)
           n == Len(t)
           c == s \o t
<1>1. m \in Nat /\ n \in Nat /\ Len(c) = m + n /\ \A i \in 1 .. m + n : c[i] = IF i <= m THEN s[i] ELSE t[i - m]
  BY ConcatProperties, SeqFacts
<1>2. PICK h \in [0 .. m + n -> Views] : h[0] = v /\ h[m + n] = w /\ \A i \in 1 .. m + n : h[i] = Ap(h[i - 1], c[i])
  BY <1>1 DEF Run
<1> HIDE DEF c, m, n
<1> DEFINE f == [i \in 0 .. m |-> h[i]]
           g == [i \in 0 .. n |-> h[m + i]]
<1>3. f \in [0 .. m -> Views] /\ f[0] = v /\ f[m] = h[m]
  <2>1. \A i \in 0 .. m : i \in 0 .. m + n  BY <1>1
  <2> QED  BY <1>1, <1>2, <2>1
<1>4. ASSUME NEW i \in 1 .. m  PROVE f[i] = Ap(f[i - 1], s[i])
  <2>1. i \in 1 .. m + n /\ i <= m /\ i \in 0 .. m /\ i - 1 \in 0 .. m  BY <1>1
  <2>2. c[i] = s[i] /\ h[i] = Ap(h[i - 1], c[i])  BY <1>1, <1>2, <2>1
  <2> QED  BY <2>1, <2>2
<1>5. g \in [0 .. n -> Views] /\ g[0] = h[m] /\ g[n] = w
  <2>1. \A i \in 0 .. n : m + i \in 0 .. m + n  BY <1>1
  <2>2. m + 0 = m  BY <1>1
  <2> QED  BY <1>1, <1>2, <2>1, <2>2
<1>6. ASSUME NEW i \in 1 .. n  PROVE g[i] = Ap(g[i - 1], t[i])
  <2>1. m + i \in 1 .. m + n /\ ~(m + i <= m) /\ (m + i) - m = i /\ i \in 0 .. n /\ i - 1 \in 0 .. n
        /\ (m + i) - 1 = m + (i - 1)
    BY <1>1
  <2>2. c[m + i] = t[i] /\ h[m + i] = Ap(h[m + (i - 1)], c[m + i])  BY <1>1, <1>2, <2>1
  <2> QED  BY <2>1, <2>2
<1>7. h[m] \in Views
  <2>1. m \in 0 .. m + n  BY <1>1
  <2> QED  BY <1>2, <2>1
<1> HIDE DEF f, g
<1>8. Run(v, s, h[m])  BY <1>3, <1>4 DEF Run, m
<1>9. Run(h[m], t, w)  BY <1>5, <1>6 DEF Run, n
<1> QED  BY <1>7, <1>8, <1>9

\* The run of one command.
LEMMA RunOne ==
    ASSUME NEW v \in Views, NEW cmd \in Commands
    PROVE  Run(v, <<cmd>>, Ap(v, cmd)) /\ \A w : Run(v, <<cmd>>, w) => w = Ap(v, cmd)
<1> DEFINE w == Ap(v, cmd)
           h == [i \in 0 .. 1 |-> IF i = 0 THEN v ELSE w]
<1>1. w \in Views  BY ApStays
<1>2. Len(<<cmd>>) = 1 /\ <<cmd>>[1] = cmd  OBVIOUS
<1>3. h \in [0 .. 1 -> Views] /\ h[0] = v /\ h[1] = w  BY <1>1
<1>4. \A i \in 1 .. 1 : i = 1 /\ i - 1 = 0  OBVIOUS
<1> HIDE DEF h
<1>5. \A i \in 1 .. 1 : h[i] = Ap(h[i - 1], <<cmd>>[i])  BY <1>2, <1>3, <1>4
<1>6. Run(v, <<cmd>>, w)  BY <1>2, <1>3, <1>5 DEF Run
<1>7. ASSUME NEW x, Run(v, <<cmd>>, x)  PROVE x = w
  <2>1. PICK f \in [0 .. 1 -> Views] : f[0] = v /\ f[1] = x /\ \A i \in 1 .. 1 : f[i] = Ap(f[i - 1], <<cmd>>[i])
    BY <1>2, <1>7 DEF Run
  <2>2. f[1] = Ap(f[0], <<cmd>>[1])  BY <1>4, <2>1
  <2> QED  BY <1>2, <2>1, <2>2
<1> QED  BY <1>6, <1>7

\* Taking the first command off.
LEMMA RunHead ==
    ASSUME NEW q \in Seq(Commands), q # <<>>, NEW v \in Views, NEW w, Run(v, q, w)
    PROVE  Run(Ap(v, Head(q)), Tail(q), w)
<1>1. Head(q) \in Commands /\ Tail(q) \in Seq(Commands)  BY SeqFacts
<1>2. <<Head(q)>> \in Seq(Commands)  BY <1>1
<1>3. q = <<Head(q)>> \o Tail(q)  BY HeadTailProperties
<1> DEFINE a == <<Head(q)>>
           t == Tail(q)
<1>4. a \in Seq(Commands) /\ t \in Seq(Commands) /\ Run(v, a \o t, w)  BY <1>1, <1>2, <1>3
<1> HIDE DEF a, t
<1>5. PICK u \in Views : Run(v, a, u) /\ Run(u, t, w)  BY <1>4, RunSplits
<1>6. u = Ap(v, Head(q))  BY <1>1, <1>5, RunOne DEF a
<1> QED  BY <1>5, <1>6 DEF t

\* Every sequence of commands has a run.
LEMMA RunExists ==
    ASSUME NEW cmds \in Seq(Commands), NEW v \in Views
    PROVE  \E w \in Views : Run(v, cmds, w)
<1> DEFINE n == Len(cmds)
           first(i) == SubSeq(cmds, 1, i)
           B == {i \in 0 .. n : \E w \in Views : Run(v, first(i), w)}
<1>0. n \in Nat /\ \A i \in 1 .. n : cmds[i] \in Commands  BY SeqFacts
<1>1. \A i \in 0 .. n : first(i) \in Seq(Commands)  BY <1>0, SubSeqProperties
<1>2. first(0) = <<>>  BY <1>0, SubSeqEmpty
<1>3. \A i \in 1 .. n : first(i) = first(i - 1) \o <<cmds[i]>>
  <2> SUFFICES ASSUME NEW i \in 1 .. n  PROVE first(i) = first(i - 1) \o <<cmds[i]>>  OBVIOUS
  <2> QED  BY <1>0, SubSeqRecursiveSecond
<1>9. first(n) = cmds  BY SubSeqFull
<1> HIDE DEF first
<1>4. 0 \in B  BY <1>0, <1>2, RunNone
<1>5. ASSUME NEW i \in 1 .. n, i - 1 \in B  PROVE i \in B
  <2>1. PICK u \in Views : Run(v, first(i - 1), u)  BY <1>5
  <2>2. i \in 0 .. n /\ i - 1 \in 0 .. n /\ cmds[i] \in Commands  BY <1>0
  <2> DEFINE a == first(i - 1)
             t == <<cmds[i]>>
             w == Ap(u, cmds[i])
  <2>3. a \in Seq(Commands) /\ t \in Seq(Commands)  BY <1>1, <2>2
  <2>4. w \in Views /\ Run(u, t, w)  BY <2>2, ApStays, RunOne
  <2> HIDE DEF a, t, w
  <2>5. Run(v, a \o t, w)  BY <2>1, <2>3, <2>4, RunJoins DEF a
  <2> QED  BY <1>3, <2>2, <2>4, <2>5 DEF a, t
<1>6. \A i \in 0 .. n : i \in B
  <2>1. B \in SUBSET (0 .. n)  OBVIOUS
  <2> HIDE DEF B
  <2> QED  BY <1>0, <1>4, <1>5, <2>1, EveryPlace
<1>7. n \in B  BY <1>0, <1>6
<1> QED  BY <1>7, <1>9

\* A view that is gone stays gone.
LEMMA RunGone ==
    ASSUME NEW cmds \in Seq(Commands), NEW v \in Views, v.gone, NEW w, Run(v, cmds, w)
    PROVE  w.gone
<1> DEFINE n == Len(cmds)
<1>0. n \in Nat /\ \A i \in 1 .. n : cmds[i] \in Commands  BY SeqFacts
<1>1. PICK h \in [0 .. n -> Views] : h[0] = v /\ h[n] = w /\ \A i \in 1 .. n : h[i] = Ap(h[i - 1], cmds[i])  BY DEF Run
<1> DEFINE B == {i \in 0 .. n : h[i].gone}
<1>2. 0 \in B  BY <1>0, <1>1
<1>3. ASSUME NEW i \in 1 .. n, i - 1 \in B  PROVE i \in B
  <2>1. i \in 0 .. n /\ i - 1 \in 0 .. n /\ h[i - 1] \in Views /\ h[i - 1].gone /\ cmds[i] \in Commands  BY <1>0, <1>3
  <2>2. h[i] = h[i - 1]  BY <1>1, <2>1, ApStays
  <2> QED  BY <2>1, <2>2
<1>4. \A i \in 0 .. n : i \in B
  <2>1. B \in SUBSET (0 .. n)  OBVIOUS
  <2> HIDE DEF B
  <2> QED  BY <1>0, <1>2, <1>3, <2>1, EveryPlace
<1> QED  BY <1>0, <1>1, <1>4

-----------------------------------------------------------------------------
(* What batches of commands make of a view *)

\* The view takes commands of the stamp at.
Ready(v, at) == ~v.gone /\ (v.at[1] = 0 \/ v.at[1] = at[1]) /\ v.at[2] <= at[2]

\* The values of g on S put over f, or put where f has none.
Put(f, g, S) == [x \in DOMAIN f \cup S |-> IF x \in S THEN g[x] ELSE f[x]]
Fill(f, g, S) == [x \in DOMAIN f \cup S |-> IF x \in DOMAIN f THEN f[x] ELSE g[x]]

\* A command under a stamp that the view takes has its effect.
LEMMA ReadyStep ==
    ASSUME NEW v \in Views, NEW at \in Stamps, Ready(v, at), NEW cmd \in Commands, cmd.at = at
    PROVE  Ap(v, cmd) = Effect(v, cmd)
<1>1. v.at[1] \in Nat /\ v.at[2] \in Nat /\ at[1] \in Nat /\ at[2] \in Nat  BY StampFacts DEF Views
<1>2. ~Foreign(v, cmd) /\ ~Old(v, cmd) /\ ~v.gone  BY <1>1 DEF Ready, Foreign, Old
<1> QED  BY <1>2 DEF Ap

\* A view at a stamp takes commands of that stamp.
LEMMA ReadyView ==
    ASSUME NEW at \in Stamps, NEW live, NEW core, NEW v, v = View(at, live, core)
    PROVE  Ready(v, at)
<1>1. at[1] \in Nat /\ at[2] \in Nat  BY StampFacts
<1>2. v.live = live /\ v.core = core /\ v.at = at /\ v.gone = FALSE  BY DEF View
<1> QED  BY <1>1, <1>2 DEF Ready

\* The elements of a set in a sequence, one after the other.
LEMMA Covered ==
    ASSUME NEW S \in SUBSET Outputs
    PROVE  \E n, s :
               /\ n \in Nat /\ s \in [1 .. n -> S] /\ s = SetToSeq(S) /\ Len(s) = n /\ {s[j] : j \in 1 .. n} = S /\ {s[j] : j \in 1 .. 0} = {}
               /\ \A i \in 1 .. n : {s[j] : j \in 1 .. i} = {s[j] : j \in 1 .. i - 1} \cup {s[i]}
<1> DEFINE s == SetToSeq(S)
           n == Len(s)
<1>1. s \in Seq(S) /\ \A x \in S : \E i \in 1 .. n : s[i] = x  BY SetToSeqFacts
<1> HIDE DEF s
<1>2. n \in Nat /\ s \in [1 .. n -> S]  BY <1>1
<1>3. {s[j] : j \in 1 .. n} = S  BY <1>1, <1>2
<1>4. {s[j] : j \in 1 .. 0} = {}  OBVIOUS
<1>5. ASSUME NEW i \in 1 .. n  PROVE {s[j] : j \in 1 .. i} = {s[j] : j \in 1 .. i - 1} \cup {s[i]}
  <2>1. 1 .. i = (1 .. i - 1) \cup {i}  BY <1>2
  <2> QED  BY <2>1
<1> QED  BY <1>2, <1>3, <1>4, <1>5 DEF s

\* Removals take the outputs off.
LEMMA RemovesRun ==
    ASSUME NEW v \in Views, NEW at \in Stamps, Ready(v, at), NEW S \in SUBSET Outputs, NEW w, Run(v, Removes(at, S), w)
    PROVE  Ready(w, at) /\ w.live = Less(v.live, S) /\ w.core = Less(v.core, S)
<1>1. PICK n, s :
          /\ n \in Nat /\ s \in [1 .. n -> S] /\ s = SetToSeq(S) /\ Len(s) = n /\ {s[j] : j \in 1 .. n} = S /\ {s[j] : j \in 1 .. 0} = {}
          /\ \A i \in 1 .. n : {s[j] : j \in 1 .. i} = {s[j] : j \in 1 .. i - 1} \cup {s[i]}
  BY Covered
<1> n \in Nat /\ s \in [1 .. n -> S]  BY <1>1
<1> DEFINE c(i) == Command("remove", at, One(s[i], None))
           E(i) == {s[j] : j \in 1 .. i}
           cmds == Removes(at, S)
<1>2. cmds = [i \in 1 .. n |-> c(i)] /\ Len(cmds) = n
  <2>1. DOMAIN s = 1 .. n  OBVIOUS
  <2>2. cmds = [i \in 1 .. n |-> c(i)]  BY <1>1, <2>1 DEF Removes
  <2> HIDE DEF cmds, c
  <2> QED  BY <2>2
<1>3. PICK h \in [0 .. n -> Views] : h[0] = v /\ h[n] = w /\ \A i \in 1 .. n : h[i] = Ap(h[i - 1], cmds[i])
  BY <1>2 DEF Run
<1> DEFINE P(X, x) == Ready(x, at) /\ x.live = Less(v.live, X) /\ x.core = Less(v.core, X)
           B == {i \in 0 .. n : P(E(i), h[i])}
<1>4. ASSUME NEW i \in 1 .. n, NEW X, NEW x \in Views, P(X, x)
      PROVE  P(X \cup {s[i]}, Ap(x, c(i)))
  <2>1. s[i] \in Outputs  OBVIOUS
  <2>2. c(i) \in Commands /\ c(i).at = at /\ c(i).kind = "remove" /\ DOMAIN c(i).outs = {s[i]}
    BY <2>1, CommandFacts DEF Command
  <2> HIDE DEF c
  <2>3. Ap(x, c(i)) = Effect(x, c(i))  BY <1>4, <2>2, ReadyStep
  <2>4. Effect(x, c(i)) = View(at, Less(x.live, {s[i]}), Less(x.core, {s[i]}))  BY <2>2 DEF Effect
  <2>5. ASSUME NEW f  PROVE Less(Less(f, X), {s[i]}) = Less(f, X \cup {s[i]})
    <3>1. (DOMAIN f \ X) \ {s[i]} = DOMAIN f \ (X \cup {s[i]})  OBVIOUS
    <3> QED  BY <3>1 DEF Less
  <2>6. Less(x.live, {s[i]}) = Less(v.live, X \cup {s[i]}) /\ Less(x.core, {s[i]}) = Less(v.core, X \cup {s[i]})
    BY <1>4, <2>5
  <2> DEFINE y == Ap(x, c(i))
             live == Less(v.live, X \cup {s[i]})
             core == Less(v.core, X \cup {s[i]})
  <2>7. y = View(at, live, core)  BY <2>3, <2>4, <2>6
  <2> HIDE DEF y, live, core
  <2>8. Ready(y, at)  BY <2>7, ReadyView, Zenon
  <2>9. y.live = live /\ y.core = core  BY <2>7 DEF View
  <2> QED  BY <2>8, <2>9 DEF y, live, core
<1>5. P({}, v)
  <2>1. v.live \in [DOMAIN v.live -> Entries] /\ v.core \in [DOMAIN v.core -> Modes]  BY MapFacts DEF Views
  <2>2. DOMAIN v.live \ {} = DOMAIN v.live /\ DOMAIN v.core \ {} = DOMAIN v.core  OBVIOUS
  <2> QED  BY <2>1, <2>2 DEF Less
<1>6. \A i \in 1 .. n : cmds[i] = c(i)
  <2> HIDE DEF cmds, c
  <2> QED  BY <1>2
<1> HIDE DEF P, c, E, cmds
<1>7. 0 \in B
  <2>1. E(0) = {}  BY <1>1 DEF E
  <2>2. P(E(0), h[0])  BY <1>3, <1>5, <2>1
  <2> QED  BY <2>2
<1>8. ASSUME NEW i \in 1 .. n, i - 1 \in B  PROVE i \in B
  <2>1. i \in 0 .. n /\ i - 1 \in 0 .. n /\ P(E(i - 1), h[i - 1]) /\ h[i - 1] \in Views  BY <1>8
  <2>2. h[i] = Ap(h[i - 1], c(i))  BY <1>3, <1>6
  <2>3. P(E(i - 1) \cup {s[i]}, h[i])  BY <1>4, <2>1, <2>2
  <2>4. E(i) = E(i - 1) \cup {s[i]}  BY <1>1 DEF E
  <2> QED  BY <2>1, <2>3, <2>4
<1>9. \A i \in 0 .. n : i \in B
  <2>1. B \in SUBSET (0 .. n)  OBVIOUS
  <2> HIDE DEF B
  <2> QED  BY <1>1, <1>7, <1>8, <2>1, EveryPlace
<1>10. P(E(n), h[n])  BY <1>1, <1>9
<1>11. E(n) = S  BY <1>1 DEF E
<1> QED  BY <1>3, <1>10, <1>11 DEF P

\* Reconfigurations give outputs their new modes, or the client is gone.
LEMMA ReconfiguresRun ==
    ASSUME NEW v \in Views, NEW at \in Stamps, Ready(v, at), NEW proj \in Projections, NEW S \in SUBSET Outputs,
           S \subseteq DOMAIN proj, NEW w, Run(v, Reconfigures(at, S, proj), w)
    PROVE  \/ w.gone
           \/ /\ Ready(w, at) /\ S \subseteq DOMAIN v.core
              /\ w.live = Put(v.live, proj, S) /\ w.core = Put(v.core, ModesOf(proj), S)
<1>1. PICK n, s :
          /\ n \in Nat /\ s \in [1 .. n -> S] /\ s = SetToSeq(S) /\ Len(s) = n /\ {s[j] : j \in 1 .. n} = S /\ {s[j] : j \in 1 .. 0} = {}
          /\ \A i \in 1 .. n : {s[j] : j \in 1 .. i} = {s[j] : j \in 1 .. i - 1} \cup {s[i]}
  BY Covered
<1> n \in Nat /\ s \in [1 .. n -> S]  BY <1>1
<1> DEFINE c(i) == Command("reconfigure", at, One(s[i], proj[s[i]]))
           E(i) == {s[j] : j \in 1 .. i}
           cmds == Reconfigures(at, S, proj)
<1>2. cmds = [i \in 1 .. n |-> c(i)] /\ Len(cmds) = n
  <2>1. DOMAIN s = 1 .. n  OBVIOUS
  <2>2. cmds = [i \in 1 .. n |-> c(i)]  BY <1>1, <2>1 DEF Reconfigures
  <2> HIDE DEF cmds, c
  <2> QED  BY <2>2
<1>3. PICK h \in [0 .. n -> Views] : h[0] = v /\ h[n] = w /\ \A i \in 1 .. n : h[i] = Ap(h[i - 1], cmds[i])
  BY <1>2 DEF Run
<1> DEFINE P(X, x) == x.gone \/ /\ Ready(x, at) /\ X \subseteq DOMAIN v.core
                                /\ x.live = Put(v.live, proj, X) /\ x.core = Put(v.core, ModesOf(proj), X)
           B == {i \in 0 .. n : P(E(i), h[i])}
<1>4. ASSUME NEW i \in 1 .. n, NEW X, NEW x \in Views, P(X, x)
      PROVE  P(X \cup {s[i]}, Ap(x, c(i)))
  <2> DEFINE o == s[i]
             e == proj[o]
  <2>1. o \in Outputs /\ o \in DOMAIN proj  OBVIOUS
  <2>2. e \in Entries /\ ModesOf(proj)[o] = e.mode  BY <2>1, ModesFacts
  <2>3. c(i) \in Commands /\ c(i).at = at /\ c(i).kind = "reconfigure" /\ c(i).outs = One(o, e)
    BY <2>1, <2>2, CommandFacts DEF Command
  <2>4. DOMAIN One(o, e) = {o} /\ One(o, e)[o] = e /\ ModesOf(One(o, e)) = One(o, e.mode)
        /\ DOMAIN One(o, e.mode) = {o} /\ One(o, e.mode)[o] = e.mode
    BY DEF One, ModesOf
  <2> HIDE DEF c, o, e
  <2>5. CASE x.gone
    <3>1. Ap(x, c(i)) = x  BY <2>3, <2>5, ApStays
    <3> QED  BY <2>5, <3>1
  <2>6. CASE ~x.gone
    <3>1. Ready(x, at) /\ X \subseteq DOMAIN v.core /\ x.live = Put(v.live, proj, X)
          /\ x.core = Put(v.core, ModesOf(proj), X)
      BY <1>4, <2>6
    <3>2. Ap(x, c(i)) = Effect(x, c(i))  BY <2>3, <3>1, ReadyStep
    <3>3. CASE o \in DOMAIN x.core
      <4>1. Effect(x, c(i)) = View(at, Over(x.live, One(o, e)), Over(x.core, One(o, e.mode)))
        BY <2>3, <2>4, <3>3 DEF Effect
      <4>2. Over(x.live, One(o, e)) = Put(v.live, proj, X \cup {o})
        <5>1. DOMAIN x.live = DOMAIN v.live \cup X  BY <3>1 DEF Put
        <5>2. DOMAIN x.live \cup {o} = DOMAIN v.live \cup (X \cup {o})  BY <5>1
        <5>3. \A y \in DOMAIN x.live : x.live[y] = IF y \in X THEN proj[y] ELSE v.live[y]  BY <3>1 DEF Put
        <5> QED  BY <2>4, <5>1, <5>2, <5>3 DEF Over, Put, e
      <4>3. Over(x.core, One(o, e.mode)) = Put(v.core, ModesOf(proj), X \cup {o})
        <5>1. DOMAIN x.core = DOMAIN v.core \cup X  BY <3>1 DEF Put
        <5>2. DOMAIN x.core \cup {o} = DOMAIN v.core \cup (X \cup {o})  BY <5>1
        <5>3. \A y \in DOMAIN x.core : x.core[y] = IF y \in X THEN ModesOf(proj)[y] ELSE v.core[y]  BY <3>1 DEF Put
        <5> QED  BY <2>2, <2>4, <5>1, <5>2, <5>3 DEF Over, Put
      <4>4. X \cup {o} \subseteq DOMAIN v.core
        <5>1. DOMAIN x.core = DOMAIN v.core \cup X  BY <3>1 DEF Put
        <5> QED  BY <3>1, <3>3, <5>1
      <4> DEFINE y == Ap(x, c(i))
                 live == Put(v.live, proj, X \cup {o})
                 core == Put(v.core, ModesOf(proj), X \cup {o})
      <4>5. y = View(at, live, core)  BY <3>2, <4>1, <4>2, <4>3
      <4> HIDE DEF y, live, core
      <4>6. Ready(y, at)  BY <4>5, ReadyView, Zenon
      <4>7. y.live = live /\ y.core = core  BY <4>5 DEF View
      <4> QED  BY <4>4, <4>6, <4>7 DEF y, live, core, o
    <3>4. CASE o \notin DOMAIN x.core
      <4>1. Effect(x, c(i)) = Lost(x)  BY <2>3, <2>4, <3>4 DEF Effect
      <4> QED  BY <3>2, <4>1 DEF Lost
    <3> QED  BY <3>3, <3>4
  <2> QED  BY <2>5, <2>6
<1>5. P({}, v)
  <2>1. v.live \in [DOMAIN v.live -> Entries] /\ v.core \in [DOMAIN v.core -> Modes]  BY MapFacts DEF Views
  <2>2. DOMAIN v.live \cup {} = DOMAIN v.live /\ DOMAIN v.core \cup {} = DOMAIN v.core  OBVIOUS
  <2> QED  BY <2>1, <2>2 DEF Put
<1>6. \A i \in 1 .. n : cmds[i] = c(i)
  <2> HIDE DEF cmds, c
  <2> QED  BY <1>2
<1> HIDE DEF P, c, E, cmds
<1>7. 0 \in B
  <2>1. E(0) = {}  BY <1>1 DEF E
  <2>2. P(E(0), h[0])  BY <1>3, <1>5, <2>1
  <2> QED  BY <2>2
<1>8. ASSUME NEW i \in 1 .. n, i - 1 \in B  PROVE i \in B
  <2>1. i \in 0 .. n /\ i - 1 \in 0 .. n /\ P(E(i - 1), h[i - 1]) /\ h[i - 1] \in Views  BY <1>8
  <2>2. h[i] = Ap(h[i - 1], c(i))  BY <1>3, <1>6
  <2>3. P(E(i - 1) \cup {s[i]}, h[i])  BY <1>4, <2>1, <2>2
  <2>4. E(i) = E(i - 1) \cup {s[i]}  BY <1>1 DEF E
  <2> QED  BY <2>1, <2>3, <2>4
<1>9. \A i \in 0 .. n : i \in B
  <2>1. B \in SUBSET (0 .. n)  OBVIOUS
  <2> HIDE DEF B
  <2> QED  BY <1>1, <1>7, <1>8, <2>1, EveryPlace
<1>10. P(E(n), h[n])  BY <1>1, <1>9
<1>11. E(n) = S  BY <1>1 DEF E
<1> QED  BY <1>3, <1>10, <1>11 DEF P

\* Additions put outputs into the projection, and into the core where new.
LEMMA AddsRun ==
    ASSUME NEW v \in Views, NEW at \in Stamps, Ready(v, at), NEW proj \in Projections, NEW S \in SUBSET Outputs,
           S \subseteq DOMAIN proj, NEW w, Run(v, Adds(at, S, proj), w)
    PROVE  Ready(w, at) /\ w.live = Put(v.live, proj, S) /\ w.core = Fill(v.core, ModesOf(proj), S)
<1>1. PICK n, s :
          /\ n \in Nat /\ s \in [1 .. n -> S] /\ s = SetToSeq(S) /\ Len(s) = n /\ {s[j] : j \in 1 .. n} = S /\ {s[j] : j \in 1 .. 0} = {}
          /\ \A i \in 1 .. n : {s[j] : j \in 1 .. i} = {s[j] : j \in 1 .. i - 1} \cup {s[i]}
  BY Covered
<1> n \in Nat /\ s \in [1 .. n -> S]  BY <1>1
<1> DEFINE c(i) == Command("add", at, One(s[i], proj[s[i]]))
           E(i) == {s[j] : j \in 1 .. i}
           cmds == Adds(at, S, proj)
<1>2. cmds = [i \in 1 .. n |-> c(i)] /\ Len(cmds) = n
  <2>1. DOMAIN s = 1 .. n  OBVIOUS
  <2>2. cmds = [i \in 1 .. n |-> c(i)]  BY <1>1, <2>1 DEF Adds
  <2> HIDE DEF cmds, c
  <2> QED  BY <2>2
<1>3. PICK h \in [0 .. n -> Views] : h[0] = v /\ h[n] = w /\ \A i \in 1 .. n : h[i] = Ap(h[i - 1], cmds[i])
  BY <1>2 DEF Run
<1> DEFINE P(X, x) == Ready(x, at) /\ x.live = Put(v.live, proj, X) /\ x.core = Fill(v.core, ModesOf(proj), X)
           B == {i \in 0 .. n : P(E(i), h[i])}
<1>4. ASSUME NEW i \in 1 .. n, NEW X, NEW x \in Views, P(X, x)
      PROVE  P(X \cup {s[i]}, Ap(x, c(i)))
  <2> DEFINE o == s[i]
             e == proj[o]
  <2>1. o \in Outputs /\ o \in DOMAIN proj  OBVIOUS
  <2>2. e \in Entries /\ ModesOf(proj)[o] = e.mode  BY <2>1, ModesFacts
  <2>3. c(i) \in Commands /\ c(i).at = at /\ c(i).kind = "add" /\ c(i).outs = One(o, e)
    BY <2>1, <2>2, CommandFacts DEF Command
  <2>4. DOMAIN One(o, e) = {o} /\ One(o, e)[o] = e /\ ModesOf(One(o, e)) = One(o, e.mode)
        /\ DOMAIN One(o, e.mode) = {o} /\ One(o, e.mode)[o] = e.mode
    BY DEF One, ModesOf
  <2> HIDE DEF c, o, e
  <2>5. Ap(x, c(i)) = Effect(x, c(i))  BY <1>4, <2>3, ReadyStep
  <2>6. Effect(x, c(i)) = View(at, Over(x.live, One(o, e)), Over(One(o, e.mode), x.core))
    BY <2>3, <2>4 DEF Effect
  <2>7. Over(x.live, One(o, e)) = Put(v.live, proj, X \cup {o})
    <3>1. DOMAIN x.live = DOMAIN v.live \cup X  BY <1>4 DEF Put
    <3>2. DOMAIN x.live \cup {o} = DOMAIN v.live \cup (X \cup {o})  BY <3>1
    <3>3. \A y \in DOMAIN x.live : x.live[y] = IF y \in X THEN proj[y] ELSE v.live[y]  BY <1>4 DEF Put
    <3> QED  BY <2>4, <3>1, <3>2, <3>3 DEF Over, Put, e
  <2>8. Over(One(o, e.mode), x.core) = Fill(v.core, ModesOf(proj), X \cup {o})
    <3>1. DOMAIN x.core = DOMAIN v.core \cup X  BY <1>4 DEF Fill
    <3>2. {o} \cup DOMAIN x.core = DOMAIN v.core \cup (X \cup {o})  BY <3>1
    <3>3. \A y \in DOMAIN x.core : x.core[y] = IF y \in DOMAIN v.core THEN v.core[y] ELSE ModesOf(proj)[y]
      BY <1>4 DEF Fill
    <3>4. DOMAIN v.core \subseteq DOMAIN x.core  BY <3>1
    <3> QED  BY <2>2, <2>4, <3>2, <3>3, <3>4 DEF Over, Fill
  <2> DEFINE y == Ap(x, c(i))
             live == Put(v.live, proj, X \cup {o})
             core == Fill(v.core, ModesOf(proj), X \cup {o})
  <2>9. y = View(at, live, core)  BY <2>5, <2>6, <2>7, <2>8
  <2> HIDE DEF y, live, core
  <2>10. Ready(y, at)  BY <2>9, ReadyView, Zenon
  <2>11. y.live = live /\ y.core = core  BY <2>9 DEF View
  <2> QED  BY <2>10, <2>11 DEF y, live, core, o
<1>5. P({}, v)
  <2>1. v.live \in [DOMAIN v.live -> Entries] /\ v.core \in [DOMAIN v.core -> Modes]  BY MapFacts DEF Views
  <2>2. DOMAIN v.live \cup {} = DOMAIN v.live /\ DOMAIN v.core \cup {} = DOMAIN v.core  OBVIOUS
  <2> QED  BY <2>1, <2>2 DEF Put, Fill
<1>6. \A i \in 1 .. n : cmds[i] = c(i)
  <2> HIDE DEF cmds, c
  <2> QED  BY <1>2
<1> HIDE DEF P, c, E, cmds
<1>7. 0 \in B
  <2>1. E(0) = {}  BY <1>1 DEF E
  <2>2. P(E(0), h[0])  BY <1>3, <1>5, <2>1
  <2> QED  BY <2>2
<1>8. ASSUME NEW i \in 1 .. n, i - 1 \in B  PROVE i \in B
  <2>1. i \in 0 .. n /\ i - 1 \in 0 .. n /\ P(E(i - 1), h[i - 1]) /\ h[i - 1] \in Views  BY <1>8
  <2>2. h[i] = Ap(h[i - 1], c(i))  BY <1>3, <1>6
  <2>3. P(E(i - 1) \cup {s[i]}, h[i])  BY <1>4, <2>1, <2>2
  <2>4. E(i) = E(i - 1) \cup {s[i]}  BY <1>1 DEF E
  <2> QED  BY <2>1, <2>3, <2>4
<1>9. \A i \in 0 .. n : i \in B
  <2>1. B \in SUBSET (0 .. n)  OBVIOUS
  <2> HIDE DEF B
  <2> QED  BY <1>1, <1>7, <1>8, <2>1, EveryPlace
<1>10. P(E(n), h[n])  BY <1>1, <1>9
<1>11. E(n) = S  BY <1>1 DEF E
<1> QED  BY <1>3, <1>10, <1>11 DEF P

-----------------------------------------------------------------------------
(* What each batch of the supervisor makes of a client that has the registry *)

\* The view has the outputs of the projection, in its core with the same modes.
Fits(proj, v) ==
    /\ ModesOf(v.live) = ModesOf(proj) /\ DOMAIN v.core \subseteq DOMAIN v.live
    /\ \A o \in DOMAIN v.core : v.core[o] = v.live[o].mode
Full(v) == DOMAIN v.core = DOMAIN v.live

\* The view has the registry r; commands have brought the view v to it, or it is gone.
Has(r, v) == ~v.gone /\ Fits(r.proj, v) /\ (v.at = r.at \/ v.at = <<0, 0>>)
Reaches(r, v, w) == w.gone \/ (Fits(r.proj, w) /\ w.at = r.at /\ (Full(v) => Full(w)))

\* The commands take a client from the registry r to the registry s.
Takes(r, cmds, s) ==
    /\ cmds \in Seq(Commands) /\ cmds # <<>> /\ Le(r.at, s.at)
    /\ \A i \in DOMAIN cmds : Le(cmds[i].at, s.at)
    /\ \A v, w \in Views : Has(r, v) /\ Run(v, cmds, w) => Reaches(s, v, w)

\* Fits in terms of domains and values.
LEMMA FitsFacts ==
    ASSUME NEW v \in Views, NEW proj \in Projections
    PROVE  Fits(proj, v) <=>
             /\ DOMAIN v.live = DOMAIN proj /\ DOMAIN v.core \subseteq DOMAIN proj
             /\ \A o \in DOMAIN proj : v.live[o].mode = proj[o].mode
             /\ \A o \in DOMAIN v.core : v.core[o] = proj[o].mode
<1> DEFINE L == v.live
           C == v.core
<1>1. L \in Projections  BY DEF Views
<1> HIDE DEF L, C
<1>2. /\ DOMAIN ModesOf(L) = DOMAIN L /\ DOMAIN ModesOf(proj) = DOMAIN proj
      /\ \A o \in DOMAIN L : ModesOf(L)[o] = L[o].mode
      /\ \A o \in DOMAIN proj : ModesOf(proj)[o] = proj[o].mode
  BY <1>1, ModesFacts
<1>3. ModesOf(L) = ModesOf(proj) <=> DOMAIN L = DOMAIN proj /\ \A o \in DOMAIN proj : L[o].mode = proj[o].mode
  <2>1. ASSUME ModesOf(L) = ModesOf(proj)
        PROVE  DOMAIN L = DOMAIN proj /\ \A o \in DOMAIN proj : L[o].mode = proj[o].mode
    <3>1. DOMAIN L = DOMAIN proj  BY <1>2, <2>1
    <3>2. ASSUME NEW o \in DOMAIN proj  PROVE L[o].mode = proj[o].mode
      <4>1. ModesOf(L)[o] = L[o].mode /\ ModesOf(proj)[o] = proj[o].mode  BY <1>2, <3>1
      <4> QED  BY <2>1, <4>1
    <3> QED  BY <3>1, <3>2
  <2>2. ASSUME DOMAIN L = DOMAIN proj, \A o \in DOMAIN proj : L[o].mode = proj[o].mode
        PROVE  ModesOf(L) = ModesOf(proj)
    BY <2>2 DEF ModesOf
  <2> QED  BY <2>1, <2>2
<1>4. Fits(proj, v) <=> /\ ModesOf(L) = ModesOf(proj) /\ DOMAIN C \subseteq DOMAIN L
                        /\ \A o \in DOMAIN C : C[o] = L[o].mode
  BY DEF Fits, L, C
<1>5. Fits(proj, v) <=>
        /\ DOMAIN L = DOMAIN proj /\ DOMAIN C \subseteq DOMAIN proj
        /\ \A o \in DOMAIN proj : L[o].mode = proj[o].mode
        /\ \A o \in DOMAIN C : C[o] = proj[o].mode
  <2>1. ASSUME Fits(proj, v)
        PROVE  /\ DOMAIN L = DOMAIN proj /\ DOMAIN C \subseteq DOMAIN proj
               /\ \A o \in DOMAIN proj : L[o].mode = proj[o].mode
               /\ \A o \in DOMAIN C : C[o] = proj[o].mode
    BY <1>3, <1>4, <2>1
  <2>2. ASSUME /\ DOMAIN L = DOMAIN proj /\ DOMAIN C \subseteq DOMAIN proj
               /\ \A o \in DOMAIN proj : L[o].mode = proj[o].mode
               /\ \A o \in DOMAIN C : C[o] = proj[o].mode
        PROVE  Fits(proj, v)
    <3>1. \A o \in DOMAIN C : o \in DOMAIN proj  BY <2>2
    <3>2. \A o \in DOMAIN C : C[o] = L[o].mode  BY <2>2, <3>1
    <3> QED  BY <1>3, <1>4, <2>2, <3>2
  <2> QED  BY <2>1, <2>2
<1> QED  BY <1>5 DEF L, C

\* The order of stamps.
LEMMA LeFacts ==
    /\ \A a, b, c \in Stamps : Le(a, b) /\ Le(b, c) => Le(a, c)
    /\ \A a \in Stamps : Le(a, a) /\ (a[1] # 0 => Le(<<0, 0>>, a))
<1>1. \A a \in Stamps : a[1] \in Nat /\ a[2] \in Nat  BY StampFacts
<1>2. ASSUME NEW a \in Stamps, NEW b \in Stamps, NEW c \in Stamps, Le(a, b), Le(b, c)  PROVE Le(a, c)
  <2>1. a[1] \in Nat /\ a[2] \in Nat /\ b[1] \in Nat /\ b[2] \in Nat /\ c[1] \in Nat /\ c[2] \in Nat  BY <1>1
  <2> QED  BY <1>2, <2>1 DEF Le
<1>3. ASSUME NEW a \in Stamps  PROVE Le(a, a) /\ (a[1] # 0 => Le(<<0, 0>>, a))
  <2>1. a[1] \in Nat /\ a[2] \in Nat  BY <1>1
  <2> QED  BY <2>1 DEF Le
<1> QED  BY <1>2, <1>3

\* All commands of a sequence have one stamp, and none of them is a reset.
AllAt(cmds, at) == \A i \in DOMAIN cmds : cmds[i].at = at /\ cmds[i].kind # "reset"

\* The commands of one batch carry one stamp.
LEMMA AllAtFacts ==
    ASSUME NEW at \in Stamps
    PROVE  /\ \A S, proj : AllAt(Removes(at, S), at) /\ AllAt(Adds(at, S, proj), at) /\ AllAt(Reconfigures(at, S, proj), at)
           /\ AllAt(<<Recalculate(at)>>, at)
<1>1. \A kind, outs : Command(kind, at, outs).at = at /\ Command(kind, at, outs).kind = kind  BY DEF Command
<1>2. ASSUME NEW S  PROVE AllAt(Removes(at, S), at)
  BY <1>1 DEF AllAt, Removes
<1>3. ASSUME NEW S, NEW proj  PROVE AllAt(Adds(at, S, proj), at) /\ AllAt(Reconfigures(at, S, proj), at)
  BY <1>1 DEF AllAt, Adds, Reconfigures
<1>4. AllAt(<<Recalculate(at)>>, at)
  <2>1. Recalculate(at).at = at /\ Recalculate(at).kind = "recalculate"  BY <1>1 DEF Recalculate
  <2> HIDE DEF Command
  <2>2. DOMAIN <<Recalculate(at)>> = {1} /\ <<Recalculate(at)>>[1] = Recalculate(at)  OBVIOUS
  <2> QED  BY <2>1, <2>2 DEF AllAt
<1> QED  BY <1>2, <1>3, <1>4

\* Two batches of one stamp.
LEMMA AllAtJoins ==
    ASSUME NEW s \in Seq(Commands), NEW t \in Seq(Commands), NEW at, AllAt(s, at), AllAt(t, at)
    PROVE  AllAt(s \o t, at)
<1> DEFINE m == Len(s)
           n == Len(t)
           c == s \o t
<1>1. m \in Nat /\ n \in Nat /\ Len(c) = m + n /\ c \in Seq(Commands)
      /\ \A i \in 1 .. m + n : c[i] = IF i <= m THEN s[i] ELSE t[i - m]
  BY ConcatProperties, SeqFacts
<1>2. DOMAIN s = 1 .. m /\ DOMAIN t = 1 .. n /\ DOMAIN c = 1 .. m + n  BY <1>1, SeqFacts
<1> HIDE DEF c, m, n
<1>3. ASSUME NEW i \in 1 .. m + n  PROVE c[i].at = at /\ c[i].kind # "reset"
  <2>1. CASE i <= m
    <3>1. i \in DOMAIN s /\ c[i] = s[i]  BY <1>1, <1>2, <2>1
    <3> QED  BY <3>1 DEF AllAt
  <2>2. CASE ~(i <= m)
    <3>1. i - m \in DOMAIN t /\ c[i] = t[i - m]  BY <1>1, <1>2, <2>2
    <3> QED  BY <3>1 DEF AllAt
  <2> QED  BY <2>1, <2>2
<1>4. AllAt(c, at)  BY <1>2, <1>3 DEF AllAt
<1> QED  BY <1>4 DEF c

\* Commands of a later epoch without its reset end a client.
LEMMA ForeignRun ==
    ASSUME NEW cmds \in Seq(Commands), cmds # <<>>, NEW at \in Stamps, AllAt(cmds, at),
           NEW v \in Views, v.at[1] # 0, at[1] > v.at[1], NEW w, Run(v, cmds, w)
    PROVE  w.gone
<1>1. Head(cmds) \in Commands /\ Tail(cmds) \in Seq(Commands) /\ Head(cmds) = cmds[1] /\ 1 \in DOMAIN cmds  BY SeqFacts
<1>2. Head(cmds).at = at /\ Head(cmds).kind # "reset"  BY <1>1 DEF AllAt
<1> DEFINE u == Ap(v, Head(cmds))
<1>3. u.gone  BY <1>2 DEF Ap, Foreign, Lost
<1>4. u \in Views /\ Run(u, Tail(cmds), w)  BY <1>1, ApStays, RunHead
<1> HIDE DEF u
<1> QED  BY <1>1, <1>3, <1>4, RunGone

\* A final recalculation changes nothing but the stamp.
LEMMA RecalculateRun ==
    ASSUME NEW at \in Stamps, NEW v \in Views, Ready(v, at), NEW w, Run(v, <<Recalculate(at)>>, w)
    PROVE  w = View(at, v.live, v.core)
<1> DEFINE c == Recalculate(at)
<1>1. c \in Commands /\ c.at = at /\ c.kind = "recalculate"  BY CommandFacts DEF Recalculate, Command
<1> HIDE DEF c
<1>2. Run(v, <<c>>, w)  BY DEF c
<1>3. w = Ap(v, c)  BY <1>1, <1>2, RunOne
<1>4. Ap(v, c) = Effect(v, c)  BY <1>1, ReadyStep
<1> QED  BY <1>1, <1>3, <1>4 DEF Effect

\* No command of such a batch is later than its stamp.
LEMMA SingleAt ==
    ASSUME NEW at \in Stamps, NEW cmds \in Seq(Commands), AllAt(cmds, at)
    PROVE  \A i \in DOMAIN cmds : Le(cmds[i].at, at)
<1>1. Le(at, at)  BY LeFacts
<1> QED  BY <1>1 DEF AllAt

\* projection_diff_commands brings a view of the old projection to the new one.
LEMMA DiffRun ==
    ASSUME NEW at \in Stamps, NEW old \in Projections, NEW new \in Projections,
           NEW v \in Views, Ready(v, at), Fits(old, v), NEW w, Run(v, projection_diff_commands(old, new, at), w)
    PROVE  w.gone \/ (w \in Views /\ Ready(w, at) /\ Fits(new, w) /\ w.at = at /\ (Full(v) => Full(w)))
<1> DEFINE D == DOMAIN old \ DOMAIN new
           C == {o \in DOMAIN new \cap DOMAIN old : old[o] # new[o]}
           A == DOMAIN new \ DOMAIN old
           x == Removes(at, D)
           y == Reconfigures(at, C, new)
           z == Adds(at, A, new)
           e == <<Recalculate(at)>>
<1>1. DOMAIN old \subseteq Outputs /\ DOMAIN new \subseteq Outputs  BY MapFacts
<1>2. D \in SUBSET Outputs /\ C \in SUBSET Outputs /\ A \in SUBSET Outputs /\ C \subseteq DOMAIN new /\ A \subseteq DOMAIN new
  BY <1>1
<1>3. x \in Seq(Commands) /\ y \in Seq(Commands) /\ z \in Seq(Commands)  BY <1>2, RunFacts
<1>4. e \in Seq(Commands)
  <2> DEFINE c == Recalculate(at)
  <2>1. c \in Commands  BY CommandFacts DEF Recalculate
  <2> HIDE DEF c
  <2>2. <<c>> \in Seq(Commands)  BY <2>1
  <2> QED  BY <2>2 DEF c
<1>5. Run(v, ((x \o y) \o z) \o e, w)  BY DiffFacts
<1>6. v.live \in Projections /\ v.core \in Maps  BY DEF Views
<1>7. /\ DOMAIN v.live = DOMAIN old /\ DOMAIN v.core \subseteq DOMAIN old
      /\ \A o \in DOMAIN old : v.live[o].mode = old[o].mode
      /\ \A o \in DOMAIN v.core : v.core[o] = old[o].mode
  BY FitsFacts
<1>8. D \cap DOMAIN new = {} /\ \A o \in DOMAIN old : o \notin D /\ o \notin C => o \in DOMAIN new /\ old[o] = new[o]
  OBVIOUS
<1>9. DOMAIN new = ((DOMAIN old \ D) \cup C) \cup A /\ C \subseteq DOMAIN old \ D /\ A \cap DOMAIN old = {}
  OBVIOUS
<1>a. \A o \in DOMAIN new : ModesOf(new)[o] = new[o].mode  BY ModesFacts
<1>b. (x \o y) \in Seq(Commands) /\ ((x \o y) \o z) \in Seq(Commands)
  <2> HIDE DEF x, y, z
  <2> QED  BY <1>3, ConcatProperties
<1> DEFINE xy == x \o y
           xyz == xy \o z
<1>c. xy \in Seq(Commands) /\ xyz \in Seq(Commands) /\ Run(v, xyz \o e, w)  BY <1>5, <1>b
<1>10. PICK u3 \in Views : Run(v, xyz, u3) /\ Run(u3, e, w)
  <2> HIDE DEF xyz, e
  <2> QED  BY <1>4, <1>c, RunSplits
<1>11. PICK u2 \in Views : Run(v, xy, u2) /\ Run(u2, z, u3)
  <2> HIDE DEF xy, z
  <2>1. Run(v, xy \o z, u3)  BY <1>10
  <2> QED  BY <1>3, <1>c, <2>1, RunSplits
<1>12. PICK u1 \in Views : Run(v, x, u1) /\ Run(u1, y, u2)
  <2> HIDE DEF x, y
  <2>1. Run(v, x \o y, u2)  BY <1>11
  <2> QED  BY <1>3, <2>1, RunSplits
<1> HIDE DEF D, C, A, xy, xyz, Ready
<1>13. Ready(u1, at) /\ u1.live = Less(v.live, D) /\ u1.core = Less(v.core, D)
  BY <1>2, <1>12, RemovesRun
<1>14. \/ u2.gone
       \/ Ready(u2, at) /\ C \subseteq DOMAIN u1.core
          /\ u2.live = Put(u1.live, new, C) /\ u2.core = Put(u1.core, ModesOf(new), C)
  BY <1>2, <1>12, <1>13, ReconfiguresRun
<1>15. CASE u2.gone
  <2>1. u3.gone  BY <1>3, <1>11, <1>15, RunGone
  <2>2. w.gone  BY <1>4, <1>10, <2>1, RunGone
  <2> QED  BY <2>2
<1>16. CASE /\ Ready(u2, at) /\ C \subseteq DOMAIN u1.core
            /\ u2.live = Put(u1.live, new, C) /\ u2.core = Put(u1.core, ModesOf(new), C)
  <2>1. Ready(u3, at) /\ u3.live = Put(u2.live, new, A) /\ u3.core = Fill(u2.core, ModesOf(new), A)
    BY <1>2, <1>11, <1>16, AddsRun
  <2>2. w = View(at, u3.live, u3.core)  BY <1>10, <2>1, RecalculateRun DEF e
  <2>3. w \in Views /\ w.live = u3.live /\ w.core = u3.core /\ w.at = at
    <3>1. u3.live \in Projections /\ u3.core \in Maps  BY DEF Views
    <3> QED  BY <2>2, <3>1 DEF View, Views
  <2>4. Ready(w, at)  BY <2>2, ReadyView, Zenon
  <2>5. DOMAIN u1.live = DOMAIN old \ D /\ \A o \in DOMAIN old \ D : u1.live[o] = v.live[o]
    BY <1>7, <1>13 DEF Less
  <2>6. DOMAIN u1.core = DOMAIN v.core \ D /\ \A o \in DOMAIN u1.core : u1.core[o] = v.core[o]
    BY <1>13 DEF Less
  <2>7. DOMAIN u2.live = DOMAIN old \ D /\ \A o \in DOMAIN old \ D : u2.live[o] = IF o \in C THEN new[o] ELSE v.live[o]
    <3>1. (DOMAIN old \ D) \cup C = DOMAIN old \ D  BY <1>9
    <3>2. u2.live = Put(u1.live, new, C)  BY <1>16
    <3> QED  BY <2>5, <3>1, <3>2 DEF Put
  <2>8. DOMAIN u2.core = DOMAIN u1.core
        /\ \A o \in DOMAIN u1.core : u2.core[o] = IF o \in C THEN ModesOf(new)[o] ELSE v.core[o]
    <3>1. DOMAIN u1.core \cup C = DOMAIN u1.core  BY <1>16
    <3>2. u2.core = Put(u1.core, ModesOf(new), C)  BY <1>16
    <3> QED  BY <2>6, <3>1, <3>2 DEF Put
  <2>9. DOMAIN w.live = DOMAIN new
    <3>1. DOMAIN w.live = DOMAIN u2.live \cup A  BY <2>1, <2>3 DEF Put
    <3>2. DOMAIN w.live = (DOMAIN old \ D) \cup A  BY <2>7, <3>1
    <3> QED  BY <1>9, <3>2
  <2>10. ASSUME NEW o \in DOMAIN new  PROVE w.live[o].mode = new[o].mode
    <3>1. o \in DOMAIN u2.live \cup A  BY <2>1, <2>3, <2>9 DEF Put
    <3>2. w.live[o] = IF o \in A THEN new[o] ELSE u2.live[o]  BY <2>1, <2>3, <3>1 DEF Put
    <3>3. CASE o \in A \/ o \in C
      <4>1. w.live[o] = new[o]
        <5>1. o \notin A => o \in DOMAIN old \ D  BY <1>9
        <5> QED  BY <2>7, <3>2, <3>3, <5>1
      <4> QED  BY <4>1
    <3>4. CASE o \notin A /\ o \notin C
      <4>1. o \in DOMAIN old \ D  BY <1>9, <3>4
      <4>2. w.live[o] = v.live[o]  BY <2>7, <3>2, <3>4, <4>1
      <4>3. old[o] = new[o] /\ v.live[o].mode = old[o].mode  BY <1>7, <1>8, <3>4, <4>1
      <4> QED  BY <4>2, <4>3
    <3> QED  BY <3>3, <3>4
  <2>11. DOMAIN w.core = (DOMAIN v.core \ D) \cup A
    <3>1. DOMAIN w.core = DOMAIN u2.core \cup A  BY <2>1, <2>3 DEF Fill
    <3> QED  BY <2>6, <2>8, <3>1
  <2>12. ASSUME NEW o \in DOMAIN w.core  PROVE w.core[o] = new[o].mode
    <3>1. o \in DOMAIN u2.core \cup A  BY <2>6, <2>8, <2>11
    <3>2. w.core[o] = IF o \in DOMAIN u2.core THEN u2.core[o] ELSE ModesOf(new)[o]  BY <2>1, <2>3, <3>1 DEF Fill
    <3>3. CASE o \notin DOMAIN u2.core
      <4>1. o \in A /\ o \in DOMAIN new  BY <1>2, <3>1, <3>3
      <4> QED  BY <1>a, <3>2, <3>3, <4>1
    <3>4. CASE o \in DOMAIN u2.core /\ o \in C
      <4>1. o \in DOMAIN new  BY <1>2, <3>4
      <4> QED  BY <1>a, <2>8, <3>2, <3>4, <4>1
    <3>5. CASE o \in DOMAIN u2.core /\ o \notin C
      <4>1. o \in DOMAIN v.core /\ o \notin D  BY <2>6, <2>8, <3>5
      <4>2. w.core[o] = v.core[o]  BY <2>8, <3>2, <3>5
      <4>3. o \in DOMAIN old  BY <1>7, <4>1
      <4>4. old[o] = new[o]  BY <1>8, <3>5, <4>1, <4>3
      <4> QED  BY <1>7, <4>1, <4>2, <4>4
    <3> QED  BY <3>3, <3>4, <3>5
  <2>13. DOMAIN w.core \subseteq DOMAIN new  BY <1>7, <1>9, <2>11
  <2>14. Fits(new, w)  BY <2>3, <2>9, <2>10, <2>12, <2>13, FitsFacts
  <2>15. Full(v) => Full(w)
    <3>1. SUFFICES ASSUME DOMAIN v.core = DOMAIN v.live  PROVE DOMAIN w.core = DOMAIN w.live  BY DEF Full
    <3>2. DOMAIN w.core = (DOMAIN old \ D) \cup A  BY <1>7, <2>11, <3>1
    <3>3. (DOMAIN old \ D) \cup A = DOMAIN new  BY <1>9
    <3> QED  BY <2>9, <3>2, <3>3
  <2> QED  BY <2>3, <2>4, <2>14, <2>15
<1> QED  BY <1>14, <1>15, <1>16

\* projection_diff_commands sends its commands under one stamp.
LEMMA DiffAllAt ==
    ASSUME NEW at \in Stamps, NEW old \in Projections, NEW new \in Projections
    PROVE  /\ projection_diff_commands(old, new, at) \in Seq(Commands)
           /\ projection_diff_commands(old, new, at) # <<>>
           /\ AllAt(projection_diff_commands(old, new, at), at)
<1> DEFINE D == DOMAIN old \ DOMAIN new
           C == {o \in DOMAIN new \cap DOMAIN old : old[o] # new[o]}
           A == DOMAIN new \ DOMAIN old
           x == Removes(at, D)
           y == Reconfigures(at, C, new)
           z == Adds(at, A, new)
           e == <<Recalculate(at)>>
           xy == x \o y
           xyz == xy \o z
<1>1. DOMAIN old \subseteq Outputs /\ DOMAIN new \subseteq Outputs  BY MapFacts
<1>2. D \in SUBSET Outputs /\ C \in SUBSET Outputs /\ A \in SUBSET Outputs /\ C \subseteq DOMAIN new /\ A \subseteq DOMAIN new
  BY <1>1
<1>3. x \in Seq(Commands) /\ y \in Seq(Commands) /\ z \in Seq(Commands)  BY <1>2, RunFacts
<1>4. e \in Seq(Commands) /\ e # <<>>
  <2> DEFINE c == Recalculate(at)
  <2>1. c \in Commands  BY CommandFacts DEF Recalculate
  <2> HIDE DEF c
  <2>2. <<c>> \in Seq(Commands) /\ <<c>> # <<>>  BY <2>1
  <2> QED  BY <2>2 DEF c
<1>5. AllAt(x, at) /\ AllAt(y, at) /\ AllAt(z, at) /\ AllAt(e, at)  BY AllAtFacts
<1> HIDE DEF x, y, z, e
<1>6. xy \in Seq(Commands) /\ AllAt(xy, at)  BY <1>3, <1>5, ConcatProperties, AllAtJoins
<1> HIDE DEF xy
<1>7. xyz \in Seq(Commands) /\ AllAt(xyz, at)  BY <1>3, <1>5, <1>6, ConcatProperties, AllAtJoins
<1> HIDE DEF xyz
<1>8. xyz \o e \in Seq(Commands) /\ AllAt(xyz \o e, at) /\ xyz \o e # <<>>
  <2>1. xyz \o e \in Seq(Commands) /\ AllAt(xyz \o e, at)  BY <1>4, <1>5, <1>7, ConcatProperties, AllAtJoins
  <2>2. Len(xyz \o e) = Len(xyz) + Len(e) /\ Len(xyz) \in Nat /\ Len(e) \in Nat /\ Len(e) # 0
    BY <1>4, <1>7, SeqFacts, ConcatProperties
  <2>3. Len(xyz \o e) # 0  BY <2>2
  <2> QED  BY <2>1, <2>3, SeqFacts
<1>9. projection_diff_commands(old, new, at) = xyz \o e  BY DiffFacts DEF x, y, z, e, xy, xyz
<1> QED  BY <1>8, <1>9

\* A view that has a registry takes what follows in the same epoch, or is lost.
LEMMA HasReady ==
    ASSUME NEW r \in Registries, r.at[1] # 0, NEW at \in Stamps, Le(r.at, at), NEW v \in Views, Has(r, v)
    PROVE  Ready(v, at) \/ (v.at[1] # 0 /\ at[1] > v.at[1])
<1>1. r.at[1] \in Nat /\ r.at[2] \in Nat /\ at[1] \in Nat /\ at[2] \in Nat  BY StampFacts DEF Registries
<1>2. CASE v.at = r.at  BY <1>1, <1>2 DEF Has, Ready, Le
<1>3. CASE v.at = <<0, 0>>
  <2>1. v.at[1] = 0 /\ v.at[2] = 0  BY <1>3
  <2> QED  BY <1>1, <2>1 DEF Has, Ready
<1> QED  BY <1>2, <1>3 DEF Has

\* projection_diff_commands takes every client from the old registry to the new.
LEMMA DiffBatch ==
    ASSUME NEW r \in Registries, r.at[1] # 0, NEW s \in Registries, Le(r.at, s.at)
    PROVE  Takes(r, projection_diff_commands(r.proj, s.proj, s.at), s)
<1> DEFINE cmds == projection_diff_commands(r.proj, s.proj, s.at)
<1>0. r.proj \in Projections /\ s.proj \in Projections /\ s.at \in Stamps /\ r.at \in Stamps  BY DEF Registries
<1>1. cmds \in Seq(Commands) /\ cmds # <<>> /\ AllAt(cmds, s.at)  BY <1>0, DiffAllAt
<1>2. \A i \in DOMAIN cmds : Le(cmds[i].at, s.at)
  <2> HIDE DEF cmds
  <2> QED  BY <1>0, <1>1, SingleAt
<1>3. ASSUME NEW v \in Views, NEW w \in Views, Has(r, v), Run(v, cmds, w)  PROVE Reaches(s, v, w)
  <2>1. CASE Ready(v, s.at)
    <3>1. Fits(r.proj, v)  BY <1>3 DEF Has
    <3>2. w.gone \/ (Fits(s.proj, w) /\ w.at = s.at /\ (Full(v) => Full(w)))
      BY <1>0, <1>3, <2>1, <3>1, DiffRun
    <3> QED  BY <3>2 DEF Reaches
  <2>2. CASE v.at[1] # 0 /\ s.at[1] > v.at[1]
    <3> HIDE DEF cmds
    <3>1. w.gone  BY <1>0, <1>1, <1>3, <2>2, ForeignRun
    <3> QED  BY <3>1 DEF Reaches
  <2> QED  BY <1>0, <1>3, <2>1, <2>2, HasReady
<1> HIDE DEF cmds
<1>4. Takes(r, cmds, s)  BY <1>1, <1>2, <1>3 DEF Takes
<1> QED  BY <1>4 DEF cmds

\* One batch after the other.
LEMMA BatchJoins ==
    ASSUME NEW r \in Registries, NEW s \in Registries, NEW t \in Registries, NEW a, NEW b, Takes(r, a, s), Takes(s, b, t)
    PROVE  Takes(r, a \o b, t)
<1> DEFINE c == a \o b
           m == Len(a)
           n == Len(b)
<1>0. a \in Seq(Commands) /\ b \in Seq(Commands) /\ a # <<>> /\ r.at \in Stamps /\ s.at \in Stamps /\ t.at \in Stamps
      /\ Le(r.at, s.at) /\ Le(s.at, t.at)
  BY DEF Takes, Registries
<1>1. m \in Nat /\ n \in Nat /\ Len(c) = m + n /\ c \in Seq(Commands) /\ m # 0
      /\ \A i \in 1 .. m + n : c[i] = IF i <= m THEN a[i] ELSE b[i - m]
  BY <1>0, ConcatProperties, SeqFacts
<1>2. DOMAIN a = 1 .. m /\ DOMAIN b = 1 .. n /\ DOMAIN c = 1 .. m + n  BY <1>0, <1>1, SeqFacts
<1>3. Le(r.at, t.at)  BY <1>0, LeFacts
<1>4. c # <<>>
  <2>1. Len(c) # 0  BY <1>1
  <2> HIDE DEF c
  <2> QED  BY <1>1, <2>1, SeqFacts
<1>5. ASSUME NEW v \in Views, NEW w \in Views, Has(r, v), Run(v, c, w)  PROVE Reaches(t, v, w)
  <2>1. PICK u \in Views : Run(v, a, u) /\ Run(u, b, w)  BY <1>0, <1>5, RunSplits
  <2>2. Reaches(s, v, u)  BY <1>5, <2>1 DEF Takes
  <2>3. CASE u.gone
    <3>1. w.gone  BY <1>0, <2>1, <2>3, RunGone
    <3> QED  BY <3>1 DEF Reaches
  <2>4. CASE ~u.gone
    <3>1. Fits(s.proj, u) /\ u.at = s.at /\ (Full(v) => Full(u))  BY <2>2, <2>4 DEF Reaches
    <3>2. Has(s, u)  BY <2>4, <3>1 DEF Has
    <3>3. Reaches(t, u, w)  BY <2>1, <3>2 DEF Takes
    <3> QED  BY <3>1, <3>3 DEF Reaches
  <2> QED  BY <2>3, <2>4
<1> HIDE DEF c, m, n
<1>6. ASSUME NEW i \in DOMAIN c  PROVE Le(c[i].at, t.at)
  <2>1. CASE i <= m
    <3>1. i \in DOMAIN a /\ c[i] = a[i]  BY <1>1, <1>2, <2>1
    <3>2. a[i].at \in Stamps /\ Le(a[i].at, s.at)
      <4>1. a[i] \in Commands  BY <1>0, <3>1, SeqFacts
      <4> QED  BY <3>1, <4>1 DEF Takes, Commands
    <3>3. Le(a[i].at, t.at)  BY <1>0, <3>2, LeFacts
    <3> QED  BY <3>1, <3>3
  <2>2. CASE ~(i <= m)
    <3>1. i - m \in DOMAIN b /\ c[i] = b[i - m]  BY <1>1, <1>2, <2>2
    <3>2. Le(b[i - m].at, t.at)  BY <3>1 DEF Takes
    <3> QED  BY <3>1, <3>2
  <2> QED  BY <2>1, <2>2
<1>7. Takes(r, c, t)  BY <1>1, <1>3, <1>4, <1>5, <1>6 DEF Takes
<1> QED  BY <1>7 DEF c

\* A recalculation once more.
LEMMA RecalculateBatch == ASSUME NEW s \in Registries, s.at[1] # 0  PROVE Takes(s, <<Recalculate(s.at)>>, s)
<1> DEFINE c == Recalculate(s.at)
           e == <<c>>
<1>0. s.at \in Stamps /\ c \in Commands  BY CommandFacts DEF Registries, Recalculate
<1>1. e \in Seq(Commands) /\ e # <<>>
  <2> HIDE DEF c
  <2> QED  BY <1>0
<1>2. AllAt(e, s.at)  BY <1>0, AllAtFacts
<1>3. Le(s.at, s.at) /\ \A i \in DOMAIN e : Le(e[i].at, s.at)
  <2> HIDE DEF e
  <2> QED  BY <1>0, <1>1, <1>2, LeFacts, SingleAt
<1>4. ASSUME NEW v \in Views, NEW w \in Views, Has(s, v), Run(v, e, w)  PROVE Reaches(s, v, w)
  <2>1. Ready(v, s.at) \/ (v.at[1] # 0 /\ s.at[1] > v.at[1])  BY <1>0, <1>3, <1>4, HasReady
  <2>2. CASE Ready(v, s.at)
    <3>1. w = View(s.at, v.live, v.core)  BY <1>0, <1>4, <2>2, RecalculateRun
    <3>2. w.at = s.at /\ w.live = v.live /\ w.core = v.core  BY <3>1 DEF View
    <3> QED  BY <1>4, <3>2 DEF Reaches, Has, Fits, Full
  <2>3. CASE v.at[1] # 0 /\ s.at[1] > v.at[1]
    <3> HIDE DEF e
    <3>1. w.gone  BY <1>0, <1>1, <1>2, <1>4, <2>3, ForeignRun
    <3> QED  BY <3>1 DEF Reaches
  <2> QED  BY <2>1, <2>2, <2>3
<1> HIDE DEF e
<1>5. Takes(s, e, s)  BY <1>1, <1>3, <1>4 DEF Takes
<1> QED  BY <1>5 DEF e, c

\* The elements of two batches in a row.
LEMMA JoinFacts ==
    ASSUME NEW s \in Seq(Commands), NEW t \in Seq(Commands)
    PROVE  /\ s \o t \in Seq(Commands) /\ Len(s \o t) = Len(s) + Len(t) /\ Len(s) \in Nat /\ Len(t) \in Nat
           /\ \A i \in 1 .. Len(s) + Len(t) : (s \o t)[i] = IF i <= Len(s) THEN s[i] ELSE t[i - Len(s)]
<1>1. Len(s) \in Nat /\ Len(t) \in Nat  BY SeqFacts
<1> QED  BY <1>1, ConcatProperties

\* Another epoch: everything is taken off and put up again.
LEMMA ResetRun ==
    ASSUME NEW r \in Registries, r.at[1] # 0, NEW at \in Stamps, at[1] # r.at[1], NEW outs \in Projections,
           NEW v \in Views, Has(r, v), NEW w, Run(v, SnapshotCommands(r, at, outs), w)
    PROVE  w \in Views /\ w.at = at /\ ~w.gone /\ Fits(outs, w) /\ Full(w)
<1> DEFINE reset == Command("reset", at, Empty)
           f == <<reset>>
           x == Removes(at, DOMAIN r.proj)
           y == Adds(at, DOMAIN outs, outs)
           c == Recalculate(at)
           e == <<c>>
           fx == f \o x
           fxy == fx \o y
<1>0. /\ r.proj \in Projections /\ DOMAIN r.proj \in SUBSET Outputs /\ DOMAIN outs \in SUBSET Outputs
      /\ r.at[1] \in Nat /\ r.at[2] \in Nat /\ at[1] \in Nat /\ at[2] \in Nat
      /\ v.live \in Projections /\ v.core \in Maps /\ r.at \in Stamps
  BY MapFacts, StampFacts DEF Registries, Views
<1>1. reset \in Commands /\ reset.at = at /\ reset.kind = "reset" /\ c \in Commands
  BY CommandFacts DEF Recalculate, Command
<1> HIDE DEF reset
<1>2. x \in Seq(Commands) /\ y \in Seq(Commands)  BY <1>0, RunFacts
<1>3. f \in Seq(Commands) /\ e \in Seq(Commands)
  <2> HIDE DEF c
  <2> QED  BY <1>1
<1>4. Run(v, fxy \o e, w)
  <2>1. SnapshotCommands(r, at, outs) = fxy \o e
    <3>1. SnapshotCommands(r, at, outs) = (f \o x \o y) \o e  BY DEF SnapshotCommands, reset
    <3> QED  BY <3>1
  <2> QED  BY <2>1
<1> HIDE DEF x, y, e, f
<1>5. fx \in Seq(Commands)  BY <1>2, <1>3, ConcatProperties
<1> HIDE DEF fx
<1>6. fxy \in Seq(Commands)  BY <1>2, <1>5, ConcatProperties
<1> HIDE DEF fxy
<1>7. PICK u3 \in Views : Run(v, fxy, u3) /\ Run(u3, e, w)  BY <1>3, <1>4, <1>6, RunSplits
<1>8. PICK u2 \in Views : Run(v, fx, u2) /\ Run(u2, y, u3)
  <2>1. Run(v, fx \o y, u3)  BY <1>7 DEF fxy
  <2> QED  BY <1>2, <1>5, <2>1, RunSplits
<1>9. PICK u1 \in Views : Run(v, f, u1) /\ Run(u1, x, u2)
  <2>1. Run(v, f \o x, u2)  BY <1>8 DEF fx
  <2> QED  BY <1>2, <1>3, <2>1, RunSplits
<1>10. u1 = View(at, v.live, v.core)
  <2>1. u1 = Ap(v, reset)  BY <1>1, <1>9, RunOne DEF f
  <2>2. ~v.gone /\ ~Foreign(v, reset)  BY <1>1 DEF Has, Foreign
  <2>3. ~Old(v, reset)
    <3>1. v.at[1] = 0 \/ v.at[1] = r.at[1]  BY DEF Has
    <3> QED  BY <1>0, <1>1, <3>1 DEF Old
  <2>4. u1 = Effect(v, reset)  BY <2>1, <2>2, <2>3 DEF Ap
  <2> QED  BY <1>1, <2>4 DEF Effect
<1>11. Ready(u1, at) /\ u1.live = v.live /\ u1.core = v.core
  <2>1. Ready(u1, at)  BY <1>10, ReadyView, Zenon
  <2>2. u1.live = v.live /\ u1.core = v.core  BY <1>10 DEF View
  <2> QED  BY <2>1, <2>2
<1>12. Ready(u2, at) /\ u2.live = Less(u1.live, DOMAIN r.proj) /\ u2.core = Less(u1.core, DOMAIN r.proj)
  BY <1>0, <1>9, <1>11, RemovesRun DEF x
<1>13. DOMAIN u2.live = {} /\ DOMAIN u2.core = {}
  <2>1. DOMAIN v.live = DOMAIN r.proj /\ DOMAIN v.core \subseteq DOMAIN r.proj  BY <1>0, FitsFacts DEF Has
  <2> QED  BY <1>11, <1>12, <2>1 DEF Less
<1>14. Ready(u3, at) /\ u3.live = Put(u2.live, outs, DOMAIN outs) /\ u3.core = Fill(u2.core, ModesOf(outs), DOMAIN outs)
  BY <1>0, <1>8, <1>12, AddsRun DEF y
<1>15. DOMAIN u3.live = DOMAIN outs /\ DOMAIN u3.core = DOMAIN outs
       /\ \A o \in DOMAIN outs : u3.live[o] = outs[o] /\ u3.core[o] = ModesOf(outs)[o]
  <2>1. {} \cup DOMAIN outs = DOMAIN outs  OBVIOUS
  <2> QED  BY <1>13, <1>14, <2>1 DEF Put, Fill
<1>16. w = View(at, u3.live, u3.core)  BY <1>7, <1>14, RecalculateRun DEF e, c
<1>17. w \in Views /\ w.live = u3.live /\ w.core = u3.core /\ w.at = at /\ ~w.gone
  <2>1. u3.live \in Projections /\ u3.core \in Maps  BY DEF Views
  <2> QED  BY <1>16, <2>1 DEF View, Views
<1>18. \A o \in DOMAIN outs : ModesOf(outs)[o] = outs[o].mode  BY ModesFacts
<1>19. Fits(outs, w)
  <2>1. \A o \in DOMAIN outs : w.live[o].mode = outs[o].mode /\ w.core[o] = outs[o].mode  BY <1>15, <1>17, <1>18
  <2>2. DOMAIN w.live = DOMAIN outs /\ DOMAIN w.core = DOMAIN outs  BY <1>15, <1>17
  <2> QED  BY <1>17, <2>1, <2>2, FitsFacts
<1> QED  BY <1>15, <1>17, <1>19 DEF Full

\* apply_authoritative_topology_snapshot.
LEMMA SnapshotBatch ==
    ASSUME NEW r \in Registries, r.at[1] # 0, NEW s \in Registries, Le(r.at, s.at)
    PROVE  Takes(r, SnapshotCommands(r, s.at, s.proj), s)
<1>0. r.proj \in Projections /\ s.proj \in Projections /\ s.at \in Stamps /\ r.at \in Stamps
      /\ r.at[1] \in Nat /\ s.at[1] \in Nat
  BY StampFacts DEF Registries
<1>a. s.at[1] # 0  BY <1>0 DEF Le
<1>1. CASE s.at[1] = r.at[1]
  <2>1. SnapshotCommands(r, s.at, s.proj) = projection_diff_commands(r.proj, s.proj, s.at) \o <<Recalculate(s.at)>>
    BY <1>1 DEF SnapshotCommands
  <2>2. Takes(r, projection_diff_commands(r.proj, s.proj, s.at), s)  BY DiffBatch
  <2>3. Takes(s, <<Recalculate(s.at)>>, s)  BY <1>a, RecalculateBatch
  <2> QED  BY <2>1, <2>2, <2>3, BatchJoins
<1>2. CASE s.at[1] # r.at[1]
  <2> DEFINE cmds == SnapshotCommands(r, s.at, s.proj)
             reset == Command("reset", s.at, Empty)
             f == <<reset>>
             x == Removes(s.at, DOMAIN r.proj)
             y == Adds(s.at, DOMAIN s.proj, s.proj)
             e == <<Recalculate(s.at)>>
             rest == (x \o y) \o e
  <2>1. DOMAIN r.proj \in SUBSET Outputs /\ DOMAIN s.proj \in SUBSET Outputs  BY <1>0, MapFacts
  <2>2. x \in Seq(Commands) /\ y \in Seq(Commands)  BY <1>0, <2>1, RunFacts
  <2>3. e \in Seq(Commands)
    <3> DEFINE c == Recalculate(s.at)
    <3>1. c \in Commands  BY <1>0, CommandFacts DEF Recalculate
    <3> HIDE DEF c
    <3>2. <<c>> \in Seq(Commands)  BY <3>1
    <3> QED  BY <3>2 DEF c
  <2>4. reset \in Commands /\ reset.at = s.at  BY <1>0, CommandFacts DEF Command
  <2>5. AllAt(x, s.at) /\ AllAt(y, s.at) /\ AllAt(e, s.at)  BY <1>0, AllAtFacts
  <2>6. cmds = ((f \o x) \o y) \o e
    <3>1. cmds = (f \o x \o y) \o e  BY <1>2 DEF SnapshotCommands
    <3> QED  BY <3>1
  <2> HIDE DEF x, y, e, reset
  <2>7. rest \in Seq(Commands) /\ AllAt(rest, s.at)
    <3> DEFINE xy == x \o y
    <3>1. xy \in Seq(Commands) /\ AllAt(xy, s.at)  BY <2>2, <2>5, ConcatProperties, AllAtJoins
    <3> HIDE DEF xy
    <3>2. xy \o e \in Seq(Commands) /\ AllAt(xy \o e, s.at)  BY <2>3, <2>5, <3>1, ConcatProperties, AllAtJoins
    <3> QED  BY <3>2 DEF xy
  <2>8. f \in Seq(Commands) /\ Len(f) = 1 /\ f[1] = reset  BY <2>4
  <2>9. cmds = f \o rest
    <3> HIDE DEF f, cmds
    <3>1. (f \o x) \o y = f \o (x \o y)  BY <2>2, <2>8, ConcatAssociative
    <3>2. (f \o (x \o y)) \o e = f \o ((x \o y) \o e)
      <4> DEFINE xy == x \o y
      <4>1. xy \in Seq(Commands)  BY <2>2, ConcatProperties
      <4> HIDE DEF xy
      <4>2. (f \o xy) \o e = f \o (xy \o e)  BY <2>3, <2>8, <4>1, ConcatAssociative
      <4> QED  BY <4>2 DEF xy
    <3> QED  BY <2>6, <3>1, <3>2
  <2> HIDE DEF f, rest
  <2>10. cmds \in Seq(Commands) /\ Len(cmds) = 1 + Len(rest) /\ Len(rest) \in Nat
         /\ \A i \in 1 .. 1 + Len(rest) : cmds[i] = IF i <= 1 THEN f[i] ELSE rest[i - 1]
    <3> DEFINE z == f \o rest
    <3>1. z \in Seq(Commands) /\ Len(z) = Len(f) + Len(rest) /\ Len(rest) \in Nat
          /\ \A i \in 1 .. Len(f) + Len(rest) : z[i] = IF i <= Len(f) THEN f[i] ELSE rest[i - Len(f)]
      BY <2>7, <2>8, JoinFacts
    <3>2. cmds = z  BY <2>9
    <3> HIDE DEF cmds, z
    <3> QED  BY <2>8, <3>1, <3>2
  <2> HIDE DEF cmds
  <2>11. cmds # <<>> /\ DOMAIN cmds = 1 .. 1 + Len(rest) /\ DOMAIN rest = 1 .. Len(rest)
    BY <2>7, <2>10, SeqFacts
  <2>12. Le(s.at, s.at)  BY <1>0, LeFacts
  <2>13. ASSUME NEW i \in DOMAIN cmds  PROVE Le(cmds[i].at, s.at)
    <3>1. CASE i = 1
      <4>1. cmds[i] = reset  BY <2>8, <2>10, <2>11, <3>1
      <4> QED  BY <2>4, <2>12, <4>1
    <3>2. CASE i # 1
      <4>1. i - 1 \in DOMAIN rest /\ cmds[i] = rest[i - 1]  BY <2>10, <2>11, <3>2
      <4> QED  BY <2>7, <2>12, <4>1 DEF AllAt
    <3> QED  BY <3>1, <3>2
  <2>14. ASSUME NEW v \in Views, NEW w \in Views, Has(r, v), Run(v, cmds, w)  PROVE Reaches(s, v, w)
    <3>1. w.at = s.at /\ ~w.gone /\ Fits(s.proj, w) /\ Full(w)
      BY <1>0, <1>2, <2>14, ResetRun DEF cmds
    <3> QED  BY <3>1 DEF Reaches
  <2>15. Takes(r, cmds, s)  BY <2>10, <2>11, <2>13, <2>14 DEF Takes
  <2> QED  BY <2>15 DEF cmds
<1> QED  BY <1>1, <1>2

\* The outputs before a genuine delta that follows: the ones before the change, or,
\* when it is the last one again, the ones after it.
LEMMA BeforeDelta ==
    ASSUME NEW l, DOMAIN l \subseteq Stamps, NEW d \in TrueDeltas(l), NEW r \in Registries,
           Exact(l, r.at, r.proj), Follows(r, d)
    PROVE  /\ d.kind = "add" /\ d.out \in DOMAIN r.proj => r.proj[d.out].mode = d.mode
           /\ d.out \in Outputs /\ d.mode \in Modes /\ d.at \in Stamps /\ Le(r.at, d.at)
<1>0. d \in Deltas /\ Genuine(l, d) /\ r.proj \in Projections /\ ModesOf(r.proj) = l[r.at] /\ r.at \in Stamps
      /\ d.at \in Stamps /\ d.out \in Outputs /\ d.mode \in Modes
  BY DEF TrueDeltas, Exact, Registries, Deltas
<1>1. r.at = <<r.at[1], r.at[2]>> /\ d.at = <<d.at[1], d.at[2]>> /\ r.at[2] \in Nat /\ d.at[2] \in Nat /\ r.at[1] \in Nat
  BY <1>0, StampFacts
<1>2. d.at[1] = r.at[1] /\ (d.at[2] = r.at[2] \/ d.at[2] = r.at[2] + 1)  BY DEF Follows
<1>3. Le(r.at, d.at)  BY <1>1, <1>2 DEF Le
<1>4. ASSUME d.kind = "add", d.out \in DOMAIN r.proj  PROVE r.proj[d.out].mode = d.mode
  <2>0. DOMAIN ModesOf(r.proj) = DOMAIN r.proj /\ ModesOf(r.proj)[d.out] = r.proj[d.out].mode  BY <1>0, <1>4, ModesFacts
  <2>1. CASE d.at[2] = r.at[2]
    <3>1. d.at = r.at  BY <1>1, <1>2, <2>1
    <3>2. l[d.at] = With(l[Pred(d.at)], d.out, d.mode)  BY <1>0, <1>4 DEF Genuine
    <3>3. ModesOf(r.proj)[d.out] = d.mode
      <4> DEFINE f == l[Pred(d.at)]
                 w == With(f, d.out, d.mode)
      <4>1. w[d.out] = d.mode  BY DEF With
      <4>2. ModesOf(r.proj) = w  BY <1>0, <3>1, <3>2
      <4> HIDE DEF w
      <4> QED  BY <4>1, <4>2
    <3> QED  BY <2>0, <3>3
  <2>2. CASE d.at[2] = r.at[2] + 1
    <3>1. d.at[2] - 1 = r.at[2]  BY <1>1, <2>2
    <3>2. Pred(d.at) = r.at  BY <1>1, <1>2, <3>1 DEF Pred
    <3>3. d.out \notin DOMAIN l[Pred(d.at)]  BY <1>0, <1>4 DEF Genuine
    <3> QED  BY <1>0, <1>4, <2>0, <3>2, <3>3
  <2> QED  BY <1>2, <2>1, <2>2
<1> QED  BY <1>0, <1>3, <1>4

\* apply_topology_delta: the command of a delta and a recalculation.
LEMMA DeltaBatch ==
    ASSUME NEW l, DOMAIN l \subseteq Stamps, NEW d \in TrueDeltas(l), NEW r \in Registries, r.at[1] # 0,
           Exact(l, r.at, r.proj), Follows(r, d), d.kind # "reset"
    PROVE  Takes(r, DeltaCommands(d), ApplyDelta(r, d))
<1> DEFINE o == d.out
           e == DeltaEntry(d)
           c == Command(d.kind, d.at, One(o, e))
           z == Recalculate(d.at)
           cmds == <<c, z>>
           s == ApplyDelta(r, d)
           p == r.proj
<1>0. /\ d \in Deltas /\ d.at \in Stamps /\ o \in Outputs /\ d.mode \in Modes /\ p \in Projections /\ r.at \in Stamps
      /\ d.kind \in {"add", "reconfigure", "remove"} /\ Le(r.at, d.at)
      /\ d.kind = "add" /\ o \in DOMAIN p => p[o].mode = d.mode
  BY BeforeDelta DEF TrueDeltas, Deltas, Registries
<1>1. s \in Registries /\ s.at = d.at /\ cmds \in Seq(Commands)
  BY <1>0, DeltaFacts DEF Registries, DeltaCommands
<1>2. d.kind # "remove" => e \in Entries /\ e.mode = d.mode  BY <1>0 DEF DeltaEntry, Entry, Entries
<1>3. c.kind = d.kind /\ c.at = d.at /\ c.outs = One(o, e) /\ DOMAIN c.outs = {o} /\ c.outs[o] = e
  BY DEF Command, One
<1>4. z \in Commands /\ z.at = d.at /\ z.kind = "recalculate"  BY <1>0, CommandFacts DEF Recalculate, Command
<1>5. s.proj = IF d.kind = "remove" THEN Without(p, o) ELSE With(p, o, e)  BY DEF ApplyDelta
<1> HIDE DEF c, z, s
<1>6. Len(cmds) = 2 /\ cmds # <<>> /\ cmds[1] = c /\ cmds[2] = z /\ DOMAIN cmds = 1 .. 2  OBVIOUS
<1>7. c \in Commands
  <2> HIDE DEF cmds
  <2>1. cmds[1] \in Commands  BY <1>1, <1>6, SeqFacts
  <2> QED  BY <1>6, <2>1
<1>8. AllAt(cmds, d.at)
  <2>1. \A i \in 1 .. 2 : i = 1 \/ i = 2  OBVIOUS
  <2> HIDE DEF cmds
  <2>2. \A i \in DOMAIN cmds : cmds[i] = c \/ cmds[i] = z  BY <1>6, <2>1
  <2>3. c.at = d.at /\ c.kind # "reset" /\ z.at = d.at /\ z.kind # "reset"  BY <1>3, <1>4
  <2> QED  BY <2>2, <2>3 DEF AllAt
<1>9. ASSUME NEW v \in Views, NEW w \in Views, Has(r, v), Run(v, cmds, w)  PROVE Reaches(s, v, w)
  <2>0. v.live \in Projections /\ v.core \in Maps  BY DEF Views
  <2>f. /\ DOMAIN v.live = DOMAIN p /\ DOMAIN v.core \subseteq DOMAIN p
        /\ \A x \in DOMAIN p : v.live[x].mode = p[x].mode
        /\ \A x \in DOMAIN v.core : v.core[x] = p[x].mode
    BY <1>0, <1>9, FitsFacts DEF Has
  <2>1. CASE v.at[1] # 0 /\ d.at[1] > v.at[1]
    <3> HIDE DEF cmds
    <3>1. w.gone  BY <1>0, <1>1, <1>6, <1>8, <1>9, <2>1, ForeignRun
    <3> QED  BY <3>1 DEF Reaches
  <2>2. CASE Ready(v, d.at)
    <3> DEFINE u == Effect(v, c)
    <3>1. Ap(v, c) = u  BY <1>0, <1>3, <1>7, <2>2, ReadyStep
    <3>2. Run(u, <<z>>, w) /\ u \in Views
      <4>1. Head(cmds) = c /\ Tail(cmds) = <<z>>  OBVIOUS
      <4> HIDE DEF cmds
      <4>2. Run(Ap(v, c), <<z>>, w)  BY <1>1, <1>6, <1>9, <4>1, RunHead
      <4> QED  BY <1>7, <3>1, <4>2, ApStays
    <3> HIDE DEF u
    <3>3. ASSUME NEW live, NEW core, u = View(d.at, live, core),
                 /\ DOMAIN live = DOMAIN s.proj /\ DOMAIN core \subseteq DOMAIN s.proj
                 /\ \A x \in DOMAIN s.proj : live[x].mode = s.proj[x].mode
                 /\ \A x \in DOMAIN core : core[x] = s.proj[x].mode,
                 Full(v) => DOMAIN core = DOMAIN live
          PROVE  Reaches(s, v, w)
      <4>1. Ready(u, d.at)  BY <1>0, <3>3, ReadyView, Zenon
      <4>2. w = View(d.at, u.live, u.core)  BY <1>0, <3>2, <4>1, RecalculateRun DEF z
      <4>3. u.live = live /\ u.core = core  BY <3>3 DEF View
      <4>4. w.live = live /\ w.core = core /\ w.at = d.at  BY <4>2, <4>3 DEF View
      <4>5. s.proj \in Projections  BY <1>1 DEF Registries
      <4>6. Fits(s.proj, w)  BY <3>3, <4>4, <4>5, FitsFacts
      <4> QED  BY <1>1, <3>3, <4>4, <4>6 DEF Reaches, Full
    <3>4. CASE d.kind = "add"
      <4> DEFINE live == Over(v.live, c.outs)
                 core == Over(ModesOf(c.outs), v.core)
      <4>1. u = View(d.at, live, core)  BY <1>3, <3>4 DEF Effect, u
      <4>2. DOMAIN live = DOMAIN p \cup {o} /\ \A x \in DOMAIN live : live[x] = IF x = o THEN e ELSE v.live[x]
        BY <1>3, <2>f DEF Over
      <4>3. DOMAIN ModesOf(c.outs) = {o} /\ ModesOf(c.outs)[o] = d.mode  BY <1>2, <1>3, <3>4 DEF ModesOf
      <4>4. DOMAIN core = {o} \cup DOMAIN v.core /\ \A x \in DOMAIN core : core[x] = IF x \in DOMAIN v.core THEN v.core[x] ELSE d.mode
        BY <4>3 DEF Over
      <4>5. DOMAIN s.proj = DOMAIN p \cup {o} /\ \A x \in DOMAIN s.proj : s.proj[x] = IF x = o THEN e ELSE p[x]
        BY <1>5, <3>4 DEF With
      <4>6. e.mode = d.mode  BY <1>2, <3>4
      <4>7. Full(v) => DOMAIN core = DOMAIN live  BY <2>f, <4>2, <4>4 DEF Full
      <4>8. \A x \in DOMAIN s.proj : live[x].mode = s.proj[x].mode
        <5> HIDE DEF live, core, e
        <5> QED  BY <2>f, <4>2, <4>5
      <4>9. \A x \in DOMAIN core : core[x] = s.proj[x].mode
        <5> HIDE DEF live, core, e, p, o
        <5>1. SUFFICES ASSUME NEW x \in DOMAIN core  PROVE core[x] = s.proj[x].mode  OBVIOUS
        <5>2. x \in DOMAIN s.proj  BY <2>f, <4>4, <4>5
        <5>3. CASE x = o /\ x \notin DOMAIN v.core  BY <4>4, <4>5, <4>6, <5>2, <5>3
        <5>4. CASE x = o /\ x \in DOMAIN v.core
          <6>1. x \in DOMAIN p /\ core[x] = p[x].mode  BY <2>f, <4>4, <5>4
          <6>2. p[x].mode = d.mode  BY <1>0, <3>4, <5>4, <6>1
          <6> QED  BY <4>5, <4>6, <5>2, <5>4, <6>1, <6>2
        <5>5. CASE x # o
          <6>1. x \in DOMAIN v.core  BY <4>4, <5>5
          <6> QED  BY <2>f, <4>4, <4>5, <5>2, <5>5, <6>1
        <5> QED  BY <5>3, <5>4, <5>5
      <4>10. DOMAIN core \subseteq DOMAIN s.proj /\ DOMAIN live = DOMAIN s.proj  BY <2>f, <4>2, <4>4, <4>5
      <4> HIDE DEF live, core
      <4> QED  BY <3>3, <4>1, <4>7, <4>8, <4>9, <4>10
    <3>5. CASE d.kind = "reconfigure" /\ o \in DOMAIN v.core
      <4> DEFINE live == Over(v.live, c.outs)
                 core == Over(v.core, ModesOf(c.outs))
      <4>1. u = View(d.at, live, core)  BY <1>3, <3>5 DEF Effect, u
      <4>2. DOMAIN live = DOMAIN p \cup {o} /\ \A x \in DOMAIN live : live[x] = IF x = o THEN e ELSE v.live[x]
        BY <1>3, <2>f DEF Over
      <4>3. DOMAIN ModesOf(c.outs) = {o} /\ ModesOf(c.outs)[o] = d.mode  BY <1>2, <1>3, <3>5 DEF ModesOf
      <4>4. DOMAIN core = DOMAIN v.core /\ \A x \in DOMAIN core : core[x] = IF x = o THEN d.mode ELSE v.core[x]
        <5>1. DOMAIN v.core \cup {o} = DOMAIN v.core  BY <3>5
        <5> QED  BY <4>3, <5>1 DEF Over
      <4>5. DOMAIN s.proj = DOMAIN p \cup {o} /\ \A x \in DOMAIN s.proj : s.proj[x] = IF x = o THEN e ELSE p[x]
        BY <1>5, <3>5 DEF With
      <4>6. e.mode = d.mode  BY <1>2, <3>5
      <4>7. Full(v) => DOMAIN core = DOMAIN live
        <5>1. DOMAIN p \cup {o} = DOMAIN p  BY <2>f, <3>5
        <5> QED  BY <2>f, <4>2, <4>4, <5>1 DEF Full
      <4>8. \A x \in DOMAIN s.proj : live[x].mode = s.proj[x].mode
        <5> HIDE DEF live, core, e
        <5> QED  BY <2>f, <4>2, <4>5
      <4>9. \A x \in DOMAIN core : core[x] = s.proj[x].mode
        <5> HIDE DEF live, core, e
        <5> QED  BY <2>f, <4>4, <4>5, <4>6
      <4>10. DOMAIN core \subseteq DOMAIN s.proj /\ DOMAIN live = DOMAIN s.proj  BY <2>f, <4>2, <4>4, <4>5
      <4> HIDE DEF live, core
      <4> QED  BY <3>3, <4>1, <4>7, <4>8, <4>9, <4>10
    <3>6. CASE d.kind = "reconfigure" /\ o \notin DOMAIN v.core
      <4>1. u = Lost(v)  BY <1>3, <3>6 DEF Effect, u
      <4>2. u.gone  BY <4>1 DEF Lost
      <4>3. <<z>> \in Seq(Commands)  BY <1>4
      <4>4. w.gone  BY <3>2, <4>2, <4>3, RunGone
      <4> QED  BY <4>4 DEF Reaches
    <3>7. CASE d.kind = "remove"
      <4> DEFINE live == Less(v.live, DOMAIN c.outs)
                 core == Less(v.core, DOMAIN c.outs)
      <4>1. u = View(d.at, live, core)  BY <1>3, <3>7 DEF Effect, u
      <4>2. DOMAIN live = DOMAIN p \ {o} /\ \A x \in DOMAIN live : live[x] = v.live[x]
        BY <1>3, <2>f DEF Less
      <4>4. DOMAIN core = DOMAIN v.core \ {o} /\ \A x \in DOMAIN core : core[x] = v.core[x]
        BY <1>3 DEF Less
      <4>5. DOMAIN s.proj = DOMAIN p \ {o} /\ \A x \in DOMAIN s.proj : s.proj[x] = p[x]
        BY <1>5, <3>7 DEF Without
      <4>7. Full(v) => DOMAIN core = DOMAIN live  BY <2>f, <4>2, <4>4 DEF Full
      <4>8. \A x \in DOMAIN s.proj : live[x].mode = s.proj[x].mode
        <5> HIDE DEF live, core
        <5> QED  BY <2>f, <4>2, <4>5
      <4>9. \A x \in DOMAIN core : core[x] = s.proj[x].mode
        <5> HIDE DEF live, core
        <5> QED  BY <2>f, <4>4, <4>5
      <4>10. DOMAIN core \subseteq DOMAIN s.proj /\ DOMAIN live = DOMAIN s.proj  BY <2>f, <4>2, <4>4, <4>5
      <4> HIDE DEF live, core
      <4> QED  BY <3>3, <4>1, <4>7, <4>8, <4>9, <4>10
    <3> QED  BY <1>0, <3>4, <3>5, <3>6, <3>7
  <2> QED  BY <1>0, <1>9, <2>1, <2>2, HasReady
<1> HIDE DEF cmds
<1>10. \A i \in DOMAIN cmds : Le(cmds[i].at, d.at)  BY <1>0, <1>1, <1>8, SingleAt
<1>11. Takes(r, cmds, s)  BY <1>0, <1>1, <1>6, <1>9, <1>10 DEF Takes
<1> QED  BY <1>11 DEF cmds, c, z, s, DeltaCommands

\* replay_buffered_deltas: what is replayed takes a client on from the snapshot.
LEMMA ReplayBatch ==
    ASSUME NEW l, DOMAIN l \subseteq Stamps, \A at \in DOMAIN l : at[1] # 0, NEW buf \in Seq(TrueDeltas(l)),
           NEW r \in Registries, NEW s \in Registries, Exact(l, s.at, s.proj), NEW cmds, Takes(r, cmds, s),
           NEW done, done = Replay(s, cmds, buf)
    PROVE  /\ done.reg \in Registries /\ Takes(r, done.cmds, done.reg)
           /\ done.reg.at = s.at \/ \E i \in DOMAIN buf : done.reg.at = buf[i].at
<1> DEFINE A == {acc \in [reg : Registries, cmds : Seq(Commands)] :
                    /\ Exact(l, acc.reg.at, acc.reg.proj) /\ Takes(r, acc.cmds, acc.reg)
                    /\ acc.reg.at = s.at \/ \E i \in DOMAIN buf : acc.reg.at = buf[i].at}
<1>1. buf \in Seq(Deltas)
  <2>1. TrueDeltas(l) \subseteq Deltas  BY DEF TrueDeltas
  <2> QED  BY <2>1, SeqOfPart
<1>2. [reg |-> s, cmds |-> cmds] \in A
  <2>1. cmds \in Seq(Commands)  BY DEF Takes
  <2> QED  BY <2>1
<1>3. ASSUME NEW i \in DOMAIN buf, NEW acc \in A  PROVE ReplayOne(acc, buf[i]) \in A
  <2> DEFINE d == buf[i]
             t == ApplyDelta(acc.reg, d)
             more == DeltaCommands(d)
  <2>1. d \in TrueDeltas(l) /\ d \in Deltas  BY <1>1, SeqFacts
  <2>2. acc.reg \in Registries /\ acc.cmds \in Seq(Commands) /\ Exact(l, acc.reg.at, acc.reg.proj)
        /\ Takes(r, acc.cmds, acc.reg) /\ acc.reg.at[1] # 0
    BY DEF Exact
  <2>3. CASE Follows(acc.reg, d) /\ d.kind # "reset"
    <3>1. ReplayOne(acc, d) = [reg |-> t, cmds |-> acc.cmds \o more]  BY <2>3 DEF ReplayOne
    <3> HIDE DEF d
    <3>2. t \in Registries /\ Exact(l, t.at, t.proj) /\ t.at = d.at  BY <2>1, <2>2, <2>3, FollowsExact, DeltaFacts DEF Registries
    <3>3. Takes(acc.reg, more, t)  BY <2>1, <2>2, <2>3, DeltaBatch
    <3> HIDE DEF t, more
    <3>4. Takes(r, acc.cmds \o more, t)  BY <2>2, <3>2, <3>3, BatchJoins
    <3>5. acc.cmds \o more \in Seq(Commands)  BY <3>4 DEF Takes
    <3>6. \E j \in DOMAIN buf : t.at = buf[j].at  BY <3>2 DEF d
    <3> DEFINE all == acc.cmds \o more
               n == [reg |-> t, cmds |-> all]
    <3>7. n.reg = t /\ n.cmds = all  OBVIOUS
    <3>8. n \in A
      <4>1. n \in [reg : Registries, cmds : Seq(Commands)]  BY <3>2, <3>5
      <4> HIDE DEF n, all
      <4> QED  BY <3>2, <3>4, <3>6, <3>7, <4>1 DEF all
    <3> HIDE DEF A
    <3> QED  BY <3>1, <3>8 DEF d
  <2>4. CASE ~(Follows(acc.reg, d) /\ d.kind # "reset")
    <3>1. ReplayOne(acc, d) = acc  BY <2>4 DEF ReplayOne
    <3> QED  BY <3>1
  <2> QED  BY <2>3, <2>4
<1>4. done \in A
  <2> HIDE DEF A
  <2> QED  BY <1>1, <1>2, <1>3, ReplayStays
<1> QED  BY <1>4

-----------------------------------------------------------------------------
(* Snapshots are later than everything the supervisor has or takes before them, *)
(* and an answer that it still waits for is not older than the registry.        *)

AtOf(x) == CASE x.kind = "event" -> x.delta.at
             [] x.kind = "snapshot" -> x.at
             [] x.kind = "result" /\ x.res.ok -> x.res.at
             [] OTHER -> <<0, 0>>

SnapshotsLast ==
    \A j \in DOMAIN queue : queue[j].kind = "snapshot" =>
        /\ Le(reg.at, queue[j].at)
        /\ \A i \in DOMAIN sup.buf : Le(sup.buf[i].at, queue[j].at)
        /\ \A i \in DOMAIN queue : i < j => Le(AtOf(queue[i]), queue[j].at)
AnswersFresh ==
    sup.st = "SnapshotPending" =>
        /\ \A i \in DOMAIN fetches : ~fetches[i].stale /\ fetches[i].res # None /\ fetches[i].res.ok =>
                                        Le(reg.at, fetches[i].res.at)
        /\ \A j \in DOMAIN queue : queue[j].kind = "result" /\ ~queue[j].stale /\ queue[j].res.ok =>
                                        Le(reg.at, queue[j].res.at)
Ordered == SnapshotsLast /\ AnswersFresh

\* No stamp in sight is later than displayd's.
LEMMA NothingLater ==
    ASSUME Truthful
    PROVE  /\ Stamp(disp) \in Stamps /\ Le(reg.at, Stamp(disp))
           /\ \A i \in DOMAIN sup.buf : Le(sup.buf[i].at, Stamp(disp))
           /\ \A x \in TrueInputs(log) : Le(AtOf(x), Stamp(disp))
<1>1. Stamp(disp) \in DOMAIN log /\ DOMAIN log \subseteq Stamps /\ \A at \in DOMAIN log : at[1] # 0 /\ Le(at, Stamp(disp))
  BY DEF Truthful, History, DispTyped
<1>2. Le(<<0, 0>>, Stamp(disp))  BY <1>1, LeFacts
<1>3. Le(reg.at, Stamp(disp))
  <2>1. reg.at = <<0, 0>> \/ reg.at \in DOMAIN log  BY DEF Truthful, RegTrue, Exact
  <2> QED  BY <1>1, <1>2, <2>1
<1>4. ASSUME NEW i \in DOMAIN sup.buf  PROVE Le(sup.buf[i].at, Stamp(disp))
  <2>1. sup.buf[i] \in TrueDeltas(log)
    <3>1. sup.buf \in Seq(TrueDeltas(log))  BY DEF Truthful, SupTrue
    <3> QED  BY <3>1, SeqFacts
  <2>2. sup.buf[i].at \in DOMAIN log  BY <2>1 DEF TrueDeltas, Genuine
  <2> QED  BY <1>1, <2>2
<1>5. ASSUME NEW x \in TrueInputs(log)  PROVE Le(AtOf(x), Stamp(disp))
  <2>1. CASE x.kind = "event"
    <3>1. x.delta.at \in DOMAIN log  BY <2>1, InputFacts DEF TrueDeltas, Genuine
    <3> QED  BY <1>1, <2>1, <3>1 DEF AtOf
  <2>2. CASE x.kind = "snapshot"
    <3>1. x.at \in DOMAIN log  BY <2>2, InputFacts DEF Exact
    <3> QED  BY <1>1, <2>2, <3>1 DEF AtOf
  <2>3. CASE x.kind = "result" /\ x.res.ok
    <3>1. x.res.at \in DOMAIN log  BY <2>3, InputFacts, ResultFacts DEF Exact
    <3> QED  BY <1>1, <2>3, <3>1 DEF AtOf
  <2>4. CASE x.kind \in {"lost", "overflow"} \/ (x.kind = "result" /\ ~x.res.ok)
    <3>1. AtOf(x) = <<0, 0>>  BY <2>4 DEF AtOf
    <3> QED  BY <1>2, <3>1
  <2> QED  BY <2>1, <2>2, <2>3, <2>4, InputFacts
<1> QED  BY <1>1, <1>3, <1>4, <1>5

\* Something new in the queue.
LEMMA SnapshotsAppend ==
    ASSUME Truthful, SnapshotsLast, UNCHANGED <<reg, sup>>, NEW x \in TrueInputs(log),
           x.kind = "snapshot" => x.at = Stamp(disp),
           queue' = queue \/ queue' = Append(queue, x)
    PROVE  SnapshotsLast'
<1> DEFINE T == TrueInputs(log)
           n == Len(queue)
           at == Stamp(disp)
<1>1. queue \in Seq(T)  BY DEF Truthful, QueueTrue
<1>2. CASE queue' = queue  BY <1>2 DEF SnapshotsLast
<1>3. CASE queue' = Append(queue, x)
  <2>1. n \in Nat /\ DOMAIN queue = 1 .. n /\ DOMAIN queue' = 1 .. n + 1 /\ queue'[n + 1] = x
        /\ \A i \in 1 .. n : queue'[i] = queue[i] /\ queue[i] \in T
    <3> HIDE DEF T
    <3> QED  BY <1>1, <1>3, SeqFacts
  <2>2. Le(reg.at, at) /\ (\A i \in DOMAIN sup.buf : Le(sup.buf[i].at, at)) /\ \A i \in 1 .. n : Le(AtOf(queue[i]), at)
    BY <2>1, NothingLater
  <2> HIDE DEF at, n
  <2>3. SUFFICES ASSUME NEW j \in 1 .. n + 1, queue'[j].kind = "snapshot"
                 PROVE  /\ Le(reg.at, queue'[j].at)
                        /\ \A i \in DOMAIN sup.buf : Le(sup.buf[i].at, queue'[j].at)
                        /\ \A i \in 1 .. n + 1 : i < j => Le(AtOf(queue'[i]), queue'[j].at)
    BY <2>1 DEF SnapshotsLast
  <2>4. CASE j = n + 1
    <3>1. queue'[j].at = at  BY <2>1, <2>3, <2>4 DEF at
    <3>2. ASSUME NEW i \in 1 .. n + 1, i < j  PROVE Le(AtOf(queue'[i]), at)
      <4>1. i \in 1 .. n  BY <2>1, <2>4, <3>2
      <4> QED  BY <2>1, <2>2, <4>1
    <3> QED  BY <2>2, <3>1, <3>2
  <2>5. CASE j # n + 1
    <3>1. j \in 1 .. n /\ queue'[j] = queue[j]  BY <2>1, <2>5
    <3>2. ASSUME NEW i \in 1 .. n + 1, i < j  PROVE Le(AtOf(queue'[i]), queue[j].at)
      <4>1. i \in 1 .. n  BY <2>1, <3>1, <3>2
      <4> QED  BY <2>1, <2>3, <3>1, <3>2, <4>1 DEF SnapshotsLast
    <3> QED  BY <2>1, <2>3, <3>1, <3>2 DEF SnapshotsLast
  <2> QED  BY <2>4, <2>5
<1> QED  BY <1>2, <1>3

\* The supervisor takes the head of the queue.
Moves == queue # <<>> /\ queue' \in {Tail(queue), StaleInputs(Tail(queue))}

\* The queue of the supervisor without its head.
LEMMA MovesFacts ==
    ASSUME Truthful, Moves
    PROVE  \A i \in DOMAIN queue' :
               /\ i + 1 \in DOMAIN queue /\ queue'[i].kind = queue[i + 1].kind /\ AtOf(queue'[i]) = AtOf(queue[i + 1])
               /\ queue'[i].kind = "snapshot" => queue'[i].at = queue[i + 1].at
               /\ queue'[i].kind = "result" => queue'[i].res = queue[i + 1].res
               /\ queue' = Tail(queue) => queue'[i] = queue[i + 1]
               /\ queue' = StaleInputs(Tail(queue)) /\ queue'[i].kind = "result" => queue'[i].stale
<1> DEFINE t == Tail(queue)
           u == StaleInputs(t)
<1>1. queue \in Seq(TrueInputs(log)) /\ queue # <<>>  BY DEF Truthful, QueueTrue, Moves
<1>2. t \in Seq(TrueInputs(log)) /\ \A i \in DOMAIN t : i + 1 \in DOMAIN queue /\ t[i] = queue[i + 1]
  BY <1>1, SeqFacts
<1>4. queue' = t \/ queue' = u  BY DEF Moves
<1> HIDE DEF t
<1>3. DOMAIN u = DOMAIN t /\ \A i \in DOMAIN t : u[i] = IF t[i].kind = "result" THEN [t[i] EXCEPT !.stale = TRUE] ELSE t[i]
  <2> DEFINE l == log
  <2>1. t \in Seq(TrueInputs(l))  BY <1>2
  <2> HIDE DEF l
  <2> QED  BY <2>1, StaleFacts
<1> HIDE DEF u
<1>5. ASSUME NEW i \in DOMAIN t, t[i].kind = "result"
      PROVE  u[i].kind = "result" /\ u[i].res = t[i].res /\ u[i].stale /\ AtOf(u[i]) = AtOf(t[i])
  <2>1. t[i] \in TrueInputs(log)  BY <1>2, SeqFacts
  <2> DEFINE x == t[i]
  <2>a. x \in TrueInputs(log) /\ x.kind = "result"  BY <1>5, <2>1
  <2>b. u[i] = [x EXCEPT !.stale = TRUE]  BY <1>3, <1>5
  <2> HIDE DEF x
  <2>c. [x EXCEPT !.stale = TRUE].kind = "result" /\ [x EXCEPT !.stale = TRUE].res = x.res /\ [x EXCEPT !.stale = TRUE].stale
    BY <2>a, InputFacts
  <2>2. u[i].kind = "result" /\ u[i].res = t[i].res /\ u[i].stale  BY <2>b, <2>c DEF x
  <2> QED  BY <1>5, <2>2 DEF AtOf
<1>6. ASSUME NEW i \in DOMAIN t
      PROVE  /\ u[i].kind = t[i].kind /\ AtOf(u[i]) = AtOf(t[i])
             /\ u[i].kind = "snapshot" => u[i].at = t[i].at
             /\ u[i].kind = "result" => u[i].res = t[i].res /\ u[i].stale
  <2>1. CASE t[i].kind = "result"  BY <1>5, <2>1
  <2>2. CASE t[i].kind # "result"
    <3>1. u[i] = t[i]  BY <1>3, <2>2
    <3> QED  BY <2>2, <3>1
  <2> QED  BY <2>1, <2>2
<1>7. CASE queue' = t
  <2>1. SUFFICES ASSUME NEW i \in DOMAIN t
                 PROVE  /\ i + 1 \in DOMAIN queue /\ t[i] = queue[i + 1]
                        /\ t = u /\ t[i].kind = "result" => t[i].stale
    BY <1>7 DEF t, u
  <2> QED  BY <1>2, <1>6
<1>8. CASE queue' = u
  <2>1. SUFFICES ASSUME NEW i \in DOMAIN t
                 PROVE  /\ i + 1 \in DOMAIN queue /\ u[i].kind = queue[i + 1].kind /\ AtOf(u[i]) = AtOf(queue[i + 1])
                        /\ u[i].kind = "snapshot" => u[i].at = queue[i + 1].at
                        /\ u[i].kind = "result" => u[i].res = queue[i + 1].res
                        /\ u = t => u[i] = queue[i + 1]
                        /\ u[i].kind = "result" => u[i].stale
    BY <1>3, <1>8 DEF t, u
  <2> QED  BY <1>2, <1>6
<1> QED  BY <1>4, <1>7, <1>8

\* The supervisor has taken an input: what follows is not older.
LEMMA SnapshotsTake ==
    ASSUME Truthful, SnapshotsLast, Moves,
           reg'.at \in {reg.at, AtOf(queue[1])} \/ \E i \in DOMAIN sup.buf : reg'.at = sup.buf[i].at,
           \A i \in DOMAIN sup'.buf :
               sup'.buf[i].at = AtOf(queue[1]) \/ \E j \in DOMAIN sup.buf : sup'.buf[i].at = sup.buf[j].at
    PROVE  SnapshotsLast'
<1>1. SUFFICES ASSUME NEW j \in DOMAIN queue', queue'[j].kind = "snapshot"
               PROVE  /\ Le(reg'.at, queue'[j].at)
                      /\ \A i \in DOMAIN sup'.buf : Le(sup'.buf[i].at, queue'[j].at)
                      /\ \A i \in DOMAIN queue' : i < j => Le(AtOf(queue'[i]), queue'[j].at)
  BY DEF SnapshotsLast
<1>2. queue \in Seq(TrueInputs(log)) /\ queue # <<>>  BY DEF Truthful, QueueTrue, Moves
<1>3. DOMAIN queue = 1 .. Len(queue) /\ Len(queue) \in Nat /\ 1 \in DOMAIN queue  BY <1>2, SeqFacts
<1>a. \A i \in DOMAIN queue' : i \in Nat /\ i >= 1
  <2>1. Tail(queue) \in Seq(TrueInputs(log))  BY <1>2, SeqFacts
  <2>2. StaleInputs(Tail(queue)) \in Seq(TrueInputs(log))  BY <2>1, StaleFacts
  <2>3. queue' \in Seq(TrueInputs(log))  BY <2>1, <2>2 DEF Moves
  <2>4. DOMAIN queue' = 1 .. Len(queue') /\ Len(queue') \in Nat  BY <2>3, SeqFacts
  <2> QED  BY <2>4
<1>4. j + 1 \in DOMAIN queue /\ queue[j + 1].kind = "snapshot" /\ queue'[j].at = queue[j + 1].at /\ j \in Nat
  BY <1>1, <1>a, MovesFacts
<1> DEFINE at == queue[j + 1].at
<1>5. 1 < j + 1  BY <1>a
<1>6. Le(reg.at, at) /\ (\A i \in DOMAIN sup.buf : Le(sup.buf[i].at, at)) /\ \A i \in DOMAIN queue : i < j + 1 => Le(AtOf(queue[i]), at)
  BY <1>4 DEF SnapshotsLast
<1>7. Le(AtOf(queue[1]), at)  BY <1>3, <1>5, <1>6
<1>8. ASSUME NEW i \in DOMAIN queue', i < j  PROVE Le(AtOf(queue'[i]), at)
  <2>1. i + 1 \in DOMAIN queue /\ AtOf(queue'[i]) = AtOf(queue[i + 1])  BY MovesFacts
  <2>2. i + 1 < j + 1  BY <1>4, <1>8, <1>a
  <2> QED  BY <1>6, <2>1, <2>2
<1> HIDE DEF at
<1>9. queue'[j].at = at  BY <1>4 DEF at
<1> QED  BY <1>6, <1>7, <1>8, <1>9

\* What is appended is no answer, or one that may be waited for.
LEMMA AnswersAppend ==
    ASSUME Truthful, AnswersFresh, UNCHANGED <<reg, sup>>, NEW x \in TrueInputs(log),
           queue' = queue \/ queue' = Append(queue, x),
           sup.st = "SnapshotPending" /\ x.kind = "result" /\ ~x.stale /\ x.res.ok => Le(reg.at, x.res.at),
           sup.st = "SnapshotPending" =>
               \A i \in DOMAIN fetches' : ~fetches'[i].stale /\ fetches'[i].res # None /\ fetches'[i].res.ok =>
                                              Le(reg.at, fetches'[i].res.at)
    PROVE  AnswersFresh'
<1> DEFINE T == TrueInputs(log)
           n == Len(queue)
<1>1. queue \in Seq(T)  BY DEF Truthful, QueueTrue
<1>2. n \in Nat /\ DOMAIN queue = 1 .. n
      /\ (queue' = Append(queue, x) => /\ DOMAIN queue' = 1 .. n + 1 /\ queue'[n + 1] = x
                                       /\ \A i \in 1 .. n : queue'[i] = queue[i])
  <2> HIDE DEF T
  <2> QED  BY <1>1, SeqFacts
<1> HIDE DEF n
<1>3. SUFFICES ASSUME sup.st = "SnapshotPending", NEW j \in DOMAIN queue',
                      queue'[j].kind = "result", ~queue'[j].stale, queue'[j].res.ok
               PROVE  Le(reg.at, queue'[j].res.at)
  BY DEF AnswersFresh
<1>4. CASE queue' = queue  BY <1>3, <1>4 DEF AnswersFresh
<1>5. CASE queue' = Append(queue, x)
  <2>1. CASE j = n + 1  BY <1>2, <1>3, <1>5, <2>1
  <2>2. CASE j # n + 1
    <3>1. j \in 1 .. n /\ queue'[j] = queue[j]  BY <1>2, <1>5, <2>2
    <3> QED  BY <1>2, <1>3, <3>1 DEF AnswersFresh
  <2> QED  BY <2>1, <2>2
<1> QED  BY <1>4, <1>5

\* The reader keeps the order.
LEMMA ReaderOrdered == ASSUME Truthful, Ordered, Reader  PROVE Ordered'
<1>1. UNCHANGED <<reg, sup, fetches>>
  BY DEF Reader, ReadDelta, MarkOverflow, ReadFails, Reconnect, ReconnectFails, dispVars
<1>2. \E x \in TrueInputs(log) : /\ queue' = queue \/ queue' = Append(queue, x)
                                 /\ x.kind # "result" /\ (x.kind = "snapshot" => x.at = Stamp(disp))
  <2>1. CASE ReadDelta
    <3> DEFINE d == Head(conn.q)
               x == [kind |-> "event", delta |-> d]
    <3>1. d \in TrueDeltas(log)
      <4>1. conn.q # <<>> /\ conn.q \in Seq(TrueDeltas(log))  BY <2>1 DEF ReadDelta, Truthful, ConnTrue
      <4> QED  BY <4>1, SeqFacts
    <3>2. queue' = queue \/ queue' = Append(queue, x)  BY <2>1 DEF ReadDelta, TrySend
    <3> HIDE DEF d
    <3>3. x \in TrueInputs(log) /\ x.kind = "event"  BY <3>1, Simple
    <3> QED  BY <3>2, <3>3
  <2>2. CASE MarkOverflow
    <3> DEFINE x == [kind |-> "overflow"]
    <3>1. queue' = queue \/ queue' = Append(queue, x)  BY <2>2 DEF MarkOverflow, TrySend
    <3>2. x \in TrueInputs(log) /\ x.kind = "overflow"  BY Simple
    <3> QED  BY <3>1, <3>2
  <2>3. CASE ReadFails
    <3> DEFINE x == [kind |-> "lost"]
    <3>1. queue' = queue \/ queue' = Append(queue, x)  BY <2>3 DEF ReadFails, TrySend
    <3>2. x \in TrueInputs(log) /\ x.kind = "lost"  BY Simple
    <3> QED  BY <3>1, <3>2
  <2>4. CASE Reconnect
    <3> DEFINE x == SnapshotInput(disp)
    <3>1. queue' = queue \/ queue' = Append(queue, x)  BY <2>4 DEF Reconnect, TrySend
    <3>2. x \in TrueInputs(log) /\ x.kind = "snapshot" /\ x.at = Stamp(disp)  BY AnswerTrue DEF SnapshotInput
    <3> HIDE DEF x
    <3> QED  BY <3>1, <3>2
  <2>5. CASE ReconnectFails
    <3> DEFINE x == [kind |-> "lost"]
    <3>1. queue' = queue  BY <2>5 DEF ReconnectFails
    <3>2. x \in TrueInputs(log) /\ x.kind = "lost"  BY Simple
    <3> QED  BY <3>1, <3>2
  <2> QED  BY <2>1, <2>2, <2>3, <2>4, <2>5 DEF Reader
<1>3. PICK x \in TrueInputs(log) : /\ queue' = queue \/ queue' = Append(queue, x)
                                   /\ x.kind # "result" /\ (x.kind = "snapshot" => x.at = Stamp(disp))
  BY <1>2
<1>4. SnapshotsLast'  BY <1>1, <1>3, SnapshotsAppend DEF Ordered
<1>5. AnswersFresh'
  <2>1. sup.st = "SnapshotPending" =>
          \A i \in DOMAIN fetches' : ~fetches'[i].stale /\ fetches'[i].res # None /\ fetches'[i].res.ok =>
                                         Le(reg.at, fetches'[i].res.at)
    BY <1>1 DEF Ordered, AnswersFresh
  <2> QED  BY <1>1, <1>3, <2>1, AnswersAppend DEF Ordered
<1> QED  BY <1>4, <1>5 DEF Ordered

\* A query keeps the order.
LEMMA QueryOrdered ==
    ASSUME Truthful, Ordered, NEW i \in DOMAIN fetches, Query(i) \/ QueryFails(i) \/ PostResult(i)
    PROVE  Ordered'
<1>0. fetches \in Seq(TrueFetches(log)) /\ fetches[i] \in TrueFetches(log)
  BY SeqFacts DEF Truthful, FetchesTrue
<1>1. UNCHANGED <<reg, sup, disp>>  BY DEF Query, QueryFails, PostResult, dispVars
<1> DEFINE lost == [kind |-> "lost"]
<1>2. lost \in TrueInputs(log) /\ lost.kind = "lost"  BY Simple
<1>3. ASSUME NEW res, ~res.ok \/ Le(reg.at, res.at), queue' = queue, fetches' = [fetches EXCEPT ![i].res = res]
      PROVE  Ordered'
  <2>1. SnapshotsLast'  BY <1>1, <1>2, <1>3, SnapshotsAppend DEF Ordered
  <2>2. sup.st = "SnapshotPending" =>
          \A j \in DOMAIN fetches' : ~fetches'[j].stale /\ fetches'[j].res # None /\ fetches'[j].res.ok =>
                                         Le(reg.at, fetches'[j].res.at)
    <3>1. SUFFICES ASSUME sup.st = "SnapshotPending", NEW j \in DOMAIN fetches',
                          ~fetches'[j].stale, fetches'[j].res # None, fetches'[j].res.ok
                   PROVE  Le(reg.at, fetches'[j].res.at)
      OBVIOUS
    <3>2. j \in DOMAIN fetches  BY <1>3
    <3>3. CASE j = i
      <4>1. fetches'[j].res = res  BY <1>0, <1>3, <3>2, <3>3 DEF TrueFetches
      <4> QED  BY <1>3, <3>1, <4>1
    <3>4. CASE j # i
      <4>1. fetches'[j] = fetches[j]  BY <1>3, <3>2, <3>4
      <4> QED  BY <3>1, <3>2, <4>1 DEF Ordered, AnswersFresh
    <3> QED  BY <3>3, <3>4
  <2>3. AnswersFresh'  BY <1>1, <1>2, <1>3, <2>2, AnswersAppend DEF Ordered
  <2> QED  BY <2>1, <2>3 DEF Ordered
<1>4. CASE Query(i)
  <2> DEFINE good == [ok |-> TRUE, at |-> Stamp(disp), outs |-> Snapshot(disp)]
  <2>1. queue' = queue
        /\ (fetches' = [fetches EXCEPT ![i].res = Failure] \/ fetches' = [fetches EXCEPT ![i].res = good])
    BY <1>4 DEF Query
  <2>2. ~Failure.ok /\ good.at = Stamp(disp)  BY DEF Failure
  <2>3. Le(reg.at, Stamp(disp))  BY NothingLater
  <2> HIDE DEF good
  <2> QED  BY <1>3, <2>1, <2>2, <2>3
<1>5. CASE QueryFails(i)
  <2>1. queue' = queue /\ fetches' = [fetches EXCEPT ![i].res = Failure]  BY <1>5 DEF QueryFails
  <2>2. ~Failure.ok  BY DEF Failure
  <2> QED  BY <1>3, <2>1, <2>2
<1>6. CASE PostResult(i)
  <2> DEFINE x == [kind |-> "result", res |-> fetches[i].res, stale |-> fetches[i].stale]
  <2>1. fetches[i].res # None /\ fetches' = RemoveAt(fetches, i) /\ (queue' = queue \/ queue' = Append(queue, x))
    BY <1>6 DEF PostResult, TrySend
  <2>2. fetches[i].res \in TrueResults(log) /\ fetches[i].stale \in BOOLEAN  BY <1>0, <2>1 DEF TrueFetches
  <2>3. x \in TrueInputs(log) /\ x.kind = "result" /\ x.res = fetches[i].res /\ x.stale = fetches[i].stale
    <3> DEFINE res == fetches[i].res
               b == fetches[i].stale
    <3> HIDE DEF res, b
    <3>1. [kind |-> "result", res |-> res, stale |-> b] \in TrueInputs(log)  BY <2>2, Simple DEF res, b
    <3> QED  BY <3>1 DEF res, b
  <2> HIDE DEF x
  <2>4. SnapshotsLast'  BY <1>1, <2>1, <2>3, SnapshotsAppend DEF Ordered
  <2>5. sup.st = "SnapshotPending" /\ x.kind = "result" /\ ~x.stale /\ x.res.ok => Le(reg.at, x.res.at)
    BY <2>1, <2>3 DEF Ordered, AnswersFresh
  <2>6. sup.st = "SnapshotPending" =>
          \A j \in DOMAIN fetches' : ~fetches'[j].stale /\ fetches'[j].res # None /\ fetches'[j].res.ok =>
                                         Le(reg.at, fetches'[j].res.at)
    <3>1. \A j \in DOMAIN fetches' : \E m \in DOMAIN fetches : fetches'[j] = fetches[m]  BY <1>0, <2>1, RemoveAtFacts
    <3> QED  BY <3>1 DEF Ordered, AnswersFresh
  <2>7. AnswersFresh'  BY <1>1, <2>1, <2>3, <2>5, <2>6, AnswersAppend DEF Ordered
  <2> QED  BY <2>4, <2>7 DEF Ordered
<1> QED  BY <1>4, <1>5, <1>6

\* The supervisor leaves the registry and the clients alone, or sends a batch that
\* takes a client from the one registry to the other.
Advances ==
    \/ UNCHANGED <<reg, cl>>
    \/ \E cmds \in Seq(Commands) : Broadcast(cmds) /\ (reg.at[1] # 0 => Takes(reg, cmds, reg'))

\* Replay ends at the stamp of the snapshot or of a delta that was kept.
LEMMA ReplayAt ==
    ASSUME NEW buf \in Seq(Deltas), NEW s \in Registries, NEW cmds \in Seq(Commands), NEW done, done = Replay(s, cmds, buf)
    PROVE  done.reg.at = s.at \/ \E i \in DOMAIN buf : done.reg.at = buf[i].at
<1> DEFINE A == {acc \in [reg : Registries, cmds : Seq(Commands)] :
                    acc.reg.at = s.at \/ \E i \in DOMAIN buf : acc.reg.at = buf[i].at}
<1>1. [reg |-> s, cmds |-> cmds] \in A  OBVIOUS
<1>2. ASSUME NEW i \in DOMAIN buf, NEW acc \in A  PROVE ReplayOne(acc, buf[i]) \in A
  <2> DEFINE d == buf[i]
             t == ApplyDelta(acc.reg, d)
             all == acc.cmds \o DeltaCommands(d)
             n == [reg |-> t, cmds |-> all]
  <2>1. CASE Follows(acc.reg, d) /\ d.kind # "reset"
    <3>1. ReplayOne(acc, d) = n  BY <2>1 DEF ReplayOne
    <3>2. d \in Deltas  BY SeqFacts
    <3>3. t \in Registries /\ t.at = d.at /\ DeltaCommands(d) \in Seq(Commands)
      <4> HIDE DEF d
      <4> QED  BY <2>1, <3>2, DeltaFacts DEF Registries
    <3>4. all \in Seq(Commands)  BY <3>3, JoinFacts
    <3> HIDE DEF t, all
    <3>5. n \in [reg : Registries, cmds : Seq(Commands)] /\ n.reg = t  BY <3>3, <3>4
    <3> HIDE DEF n
    <3> QED  BY <3>1, <3>3, <3>5
  <2>2. CASE ~(Follows(acc.reg, d) /\ d.kind # "reset")  BY <2>2 DEF ReplayOne
  <2> QED  BY <2>1, <2>2
<1>3. done \in A
  <2> HIDE DEF A
  <2> QED  BY <1>1, <1>2, ReplayStays
<1> QED  BY <1>3

\* A new query makes every older answer stale.
LEMMA SupersedesAnswers ==
    ASSUME Truthful, Moves, queue' = StaleInputs(Tail(queue)),
           fetches' = Stale(fetches) \/ \E at \in Stamps : fetches' = Append(Stale(fetches), Fetch(at))
    PROVE  AnswersFresh'
<1> DEFINE s == Stale(fetches)
           T == TrueFetches(log)
<1>1. fetches \in Seq(T)  BY DEF Truthful, FetchesTrue
<1>2. s \in Seq(T) /\ \A i \in DOMAIN s : s[i].stale
  <2>1. DOMAIN s = DOMAIN fetches  BY <1>1, StaleFacts
  <2> QED  BY <1>1, <2>1, StaleFacts
<1>3. \A i \in DOMAIN fetches' : fetches'[i].stale \/ fetches'[i].res = None
  <2>1. CASE fetches' = s  BY <1>2, <2>1
  <2>2. CASE \E at \in Stamps : fetches' = Append(s, Fetch(at))
    <3>1. PICK at \in Stamps : fetches' = Append(s, Fetch(at))  BY <2>2
    <3> DEFINE f == Fetch(at)
    <3>2. f \in T /\ f.res = None  BY DEF Fetch, TrueFetches
    <3> HIDE DEF s, f, T
    <3>3. DOMAIN fetches' = 1 .. Len(s) + 1 /\ DOMAIN s = 1 .. Len(s) /\ Len(s) \in Nat /\ fetches'[Len(s) + 1] = f
          /\ \A i \in DOMAIN s : fetches'[i] = s[i]
      BY <1>2, <3>1, <3>2, SeqFacts DEF f
    <3>4. ASSUME NEW i \in DOMAIN fetches'  PROVE fetches'[i].stale \/ fetches'[i].res = None
      <4>1. i \in DOMAIN s \/ i = Len(s) + 1  BY <3>3
      <4> QED  BY <1>2, <3>2, <3>3, <4>1
    <3> QED  BY <3>4
  <2> QED  BY <2>1, <2>2
<1>4. \A j \in DOMAIN queue' : queue'[j].kind = "result" => queue'[j].stale  BY MovesFacts
<1> QED  BY <1>3, <1>4 DEF AnswersFresh

\* Waiting on keeps the answers fresh.
LEMMA KeepsAnswers ==
    ASSUME Truthful, AnswersFresh, Moves, queue' = Tail(queue), UNCHANGED <<reg, fetches>>, sup'.st = sup.st
    PROVE  AnswersFresh'
<1>1. SUFFICES ASSUME sup.st = "SnapshotPending", NEW j \in DOMAIN queue',
                      queue'[j].kind = "result", ~queue'[j].stale, queue'[j].res.ok
               PROVE  Le(reg.at, queue'[j].res.at)
  BY DEF AnswersFresh
<1>2. j + 1 \in DOMAIN queue /\ queue'[j] = queue[j + 1]  BY MovesFacts
<1> QED  BY <1>1, <1>2 DEF AnswersFresh

\* The supervisor keeps the order and moves the registry on by one batch.
LEMMA SuperviseOrdered == ASSUME Truthful, Ordered, Supervise  PROVE Ordered' /\ Advances
<1>0. /\ sup \in [st : {"Streaming", "SnapshotPending", "Failed"}, buf : Seq(TrueDeltas(log))]
      /\ reg \in Registries /\ reg.at \in Stamps /\ reg.proj \in Projections
      /\ DOMAIN log \subseteq Stamps /\ (\A at \in DOMAIN log : at[1] # 0)
      /\ queue \in Seq(TrueInputs(log)) /\ SnapshotsLast /\ AnswersFresh
  BY DEF Truthful, SupTrue, RegTrue, Registries, DispTyped, History, QueueTrue, Ordered
<1>m. ASSUME NEW kind, Take(kind), queue' = Tail(queue) \/ queue' = StaleInputs(Tail(queue))
      PROVE  Moves /\ Head(queue) = queue[1] /\ 1 \in DOMAIN queue /\ Head(queue).kind = kind
  <2>1. queue # <<>> /\ Head(queue).kind = kind  BY <1>m DEF Take
  <2>2. Head(queue) = queue[1] /\ 1 \in DOMAIN queue
    <3> DEFINE T == TrueInputs(log)
    <3>1. queue \in Seq(T)  BY <1>0
    <3> HIDE DEF T
    <3> QED  BY <2>1, <3>1, SeqFacts
  <2> QED  BY <1>m, <2>1, <2>2 DEF Moves
<1>e. \A st : LET s == [st |-> st, buf |-> <<>>] IN s.st = st /\ DOMAIN s.buf = {}  OBVIOUS
<1>3. CASE HandleLost
  <2>1. Take("lost") /\ queue' = StaleInputs(Tail(queue)) /\ sup' = [st |-> "SnapshotPending", buf |-> <<>>]
        /\ fetches' = Stale(fetches) /\ reg' = reg /\ cl' = cl
    BY <1>3 DEF HandleLost
  <2>2. Moves  BY <1>m, <2>1
  <2>3. DOMAIN sup'.buf = {}  BY <2>1
  <2>4. SnapshotsLast'  BY <1>0, <2>1, <2>2, <2>3, SnapshotsTake
  <2>5. AnswersFresh'  BY <2>1, <2>2, SupersedesAnswers
  <2> QED  BY <2>1, <2>4, <2>5 DEF Ordered, Advances
<1>4. CASE HandleSnapshot
  <2> DEFINE s == Head(queue)
             cmds == SnapshotCommands(reg, s.at, s.outs)
             w == [at |-> s.at, proj |-> s.outs]
  <2>1. Take("snapshot") /\ queue' = Tail(queue) /\ fetches' = fetches  BY <1>4 DEF HandleSnapshot
  <2>2. s.at \in Stamps /\ s.outs \in Projections /\ Exact(log, s.at, s.outs)  BY <2>1, TakeFacts, InputFacts
  <2>3. \/ UNCHANGED <<sup, reg, cl>>
        \/ reg' = [at |-> s.at, proj |-> s.outs] /\ sup' = [st |-> "Streaming", buf |-> <<>>] /\ Broadcast(cmds)
    BY <1>4 DEF HandleSnapshot, SnapshotCommands
  <2>4. Moves /\ s = queue[1] /\ 1 \in DOMAIN queue /\ s.kind = "snapshot"  BY <1>m, <2>1
  <2>5. CASE UNCHANGED <<sup, reg, cl>>
    <3>1. SnapshotsLast'  BY <1>0, <2>4, <2>5, SnapshotsTake
    <3>2. AnswersFresh'  BY <1>0, <2>1, <2>4, <2>5, KeepsAnswers
    <3> QED  BY <2>5, <3>1, <3>2 DEF Ordered, Advances
  <2>6. CASE reg' = [at |-> s.at, proj |-> s.outs] /\ sup' = [st |-> "Streaming", buf |-> <<>>] /\ Broadcast(cmds)
    <3>1. AtOf(queue[1]) = s.at  BY <2>4 DEF AtOf
    <3>2. reg'.at = AtOf(queue[1]) /\ DOMAIN sup'.buf = {} /\ sup'.st = "Streaming"  BY <2>6, <3>1
    <3>3. SnapshotsLast'  BY <1>0, <2>4, <3>2, SnapshotsTake
    <3>4. AnswersFresh'  BY <3>2 DEF AnswersFresh
    <3>5. Le(reg.at, s.at)  BY <1>0, <2>4 DEF SnapshotsLast
    <3>6. cmds \in Seq(Commands)  BY <1>0, <2>2, SnapshotCommandFacts
    <3>7. w \in Registries /\ w.at = s.at /\ w.proj = s.outs  BY <2>2 DEF Registries
    <3>8. reg.at[1] # 0 => Takes(reg, cmds, w)
      <4> HIDE DEF w
      <4>1. reg.at[1] # 0 => Takes(reg, SnapshotCommands(reg, w.at, w.proj), w)  BY <1>0, <3>5, <3>7, SnapshotBatch
      <4> QED  BY <3>7, <4>1
    <3> HIDE DEF cmds
    <3> QED  BY <2>6, <3>3, <3>4, <3>6, <3>8 DEF Ordered, Advances
  <2> QED  BY <2>3, <2>5, <2>6
<1>5. CASE HandleOverflow
  <2>1. Take("overflow") /\ queue' = Tail(queue) /\ sup' = [sup EXCEPT !.st = "Failed"] /\ reg' = reg /\ cl' = cl
    BY <1>5 DEF HandleOverflow
  <2>2. Moves  BY <1>m, <2>1
  <2>3. sup'.buf = sup.buf /\ sup'.st = "Failed"  BY <1>0, <2>1
  <2>4. SnapshotsLast'  BY <1>0, <2>1, <2>2, <2>3, SnapshotsTake
  <2>5. AnswersFresh'  BY <2>3 DEF AnswersFresh
  <2> QED  BY <2>1, <2>4, <2>5 DEF Ordered, Advances
<1>6. CASE HandleResult
  <2> DEFINE r == Head(queue)
             fresh == [at |-> r.res.at, proj |-> r.res.outs]
             diff == projection_diff_commands(reg.proj, fresh.proj, fresh.at)
             done == Replay(fresh, diff, sup.buf)
  <2>1. Take("result")  BY <1>6 DEF HandleResult
  <2>2. r \in TrueInputs(log) /\ r.res \in TrueResults(log)  BY <2>1, TakeFacts, InputFacts
  <2>3. \/ queue' = Tail(queue) /\ UNCHANGED <<sup, fetches, reg, cl>>
        \/ sup' = [st |-> "Streaming", buf |-> <<>>] /\ queue' = Tail(queue) /\ UNCHANGED <<fetches, reg, cl>>
        \/ /\ r.res.ok /\ Answers(r) /\ reg' = done.reg /\ Broadcast(done.cmds)
           /\ \/ /\ sup' = [st |-> "SnapshotPending", buf |-> <<>>] /\ queue' = StaleInputs(Tail(queue))
                 /\ fetches' = Append(Stale(fetches), Fetch(reg'.at))
              \/ sup' = [st |-> "Streaming", buf |-> <<>>] /\ queue' = Tail(queue) /\ fetches' = fetches
    BY <1>6 DEF HandleResult
  <2>4. Moves /\ r = queue[1] /\ 1 \in DOMAIN queue /\ r.kind = "result"  BY <1>m, <2>1, <2>3
  <2>5. CASE queue' = Tail(queue) /\ UNCHANGED <<sup, fetches, reg, cl>>
    <3>1. SnapshotsLast'  BY <1>0, <2>4, <2>5, SnapshotsTake
    <3>2. AnswersFresh'  BY <1>0, <2>4, <2>5, KeepsAnswers
    <3> QED  BY <2>5, <3>1, <3>2 DEF Ordered, Advances
  <2>6. CASE sup' = [st |-> "Streaming", buf |-> <<>>] /\ queue' = Tail(queue) /\ UNCHANGED <<fetches, reg, cl>>
    <3>1. DOMAIN sup'.buf = {} /\ sup'.st = "Streaming"  BY <2>6
    <3>2. SnapshotsLast'  BY <1>0, <2>4, <2>6, <3>1, SnapshotsTake
    <3>3. AnswersFresh'  BY <3>1 DEF AnswersFresh
    <3> QED  BY <2>6, <3>2, <3>3 DEF Ordered, Advances
  <2>7. CASE /\ r.res.ok /\ Answers(r) /\ reg' = done.reg /\ Broadcast(done.cmds)
             /\ \/ /\ sup' = [st |-> "SnapshotPending", buf |-> <<>>] /\ queue' = StaleInputs(Tail(queue))
                   /\ fetches' = Append(Stale(fetches), Fetch(reg'.at))
                \/ sup' = [st |-> "Streaming", buf |-> <<>>] /\ queue' = Tail(queue) /\ fetches' = fetches
    <3>1. fresh \in Registries /\ Exact(log, fresh.at, fresh.proj) /\ fresh.at = r.res.at
      BY <2>2, <2>7, ResultFacts DEF Registries
    <3>2. ~r.stale /\ sup.st = "SnapshotPending"  BY <2>7 DEF Answers
    <3>3. Le(reg.at, fresh.at)  BY <1>0, <2>4, <2>7, <3>1, <3>2 DEF AnswersFresh
    <3>4. AtOf(queue[1]) = fresh.at  BY <2>4, <2>7, <3>1 DEF AtOf
    <3>5. sup.buf \in Seq(TrueDeltas(log))  BY <1>0
    <3> HIDE DEF fresh
    <3>6. diff \in Seq(Commands)  BY <1>0, <3>1, DiffFacts DEF Registries
    <3>7. done.reg \in Registries /\ done.cmds \in Seq(Commands)
      BY <1>0, <3>1, <3>5, <3>6, ReplayTrue
    <3>8. done.reg.at = fresh.at \/ \E i \in DOMAIN sup.buf : done.reg.at = sup.buf[i].at
      <4>2. sup.buf \in Seq(Deltas)
        <5>1. TrueDeltas(log) \subseteq Deltas  BY DEF TrueDeltas
        <5> QED  BY <3>5, <5>1, SeqOfPart
      <4> HIDE DEF done, diff
      <4>1. done = Replay(fresh, diff, sup.buf)  BY DEF done
      <4> QED  BY <3>1, <3>6, <4>1, <4>2, ReplayAt
    <3>9. reg.at[1] # 0 => Takes(reg, done.cmds, done.reg)
      <4>1. SUFFICES ASSUME reg.at[1] # 0  PROVE Takes(reg, done.cmds, done.reg)  OBVIOUS
      <4>2. Takes(reg, diff, fresh)  BY <1>0, <3>1, <3>3, <4>1, DiffBatch
      <4> HIDE DEF diff, done
      <4>3. done = Replay(fresh, diff, sup.buf)  BY DEF done
      <4> QED  BY <1>0, <3>1, <3>5, <4>2, <4>3, ReplayBatch
    <3> HIDE DEF done
    <3>10. DOMAIN sup'.buf = {} /\ reg'.at \in Stamps  BY <2>7, <3>7 DEF Registries
    <3>11. reg'.at = AtOf(queue[1]) \/ \E i \in DOMAIN sup.buf : reg'.at = sup.buf[i].at  BY <2>7, <3>4, <3>8
    <3>12. SnapshotsLast'  BY <1>0, <2>4, <3>10, <3>11, SnapshotsTake
    <3>13. AnswersFresh'
      <4>1. CASE /\ queue' = StaleInputs(Tail(queue)) /\ fetches' = Append(Stale(fetches), Fetch(reg'.at))
        BY <2>4, <3>10, <4>1, SupersedesAnswers
      <4>2. CASE sup' = [st |-> "Streaming", buf |-> <<>>]
        <5>1. sup'.st = "Streaming"  BY <4>2
        <5> QED  BY <5>1 DEF AnswersFresh
      <4> QED  BY <2>7, <4>1, <4>2
    <3> QED  BY <2>7, <3>7, <3>9, <3>12, <3>13 DEF Ordered, Advances
  <2> QED  BY <2>3, <2>5, <2>6, <2>7
<1>7. CASE HandleDelta
  <2> DEFINE d == Head(queue).delta
             b == sup.buf
             kept == IF Len(b) < BufferLimit THEN Append(b, d) ELSE <<>>
             T == TrueDeltas(log)
  <2>1. Take("event")  BY <1>7 DEF HandleDelta
  <2>2. d \in T  BY <2>1, TakeFacts, InputFacts
  <2>3. b \in Seq(T)  BY <1>0
  <2>5. \/ sup' = [sup EXCEPT !.buf = kept] /\ queue' = Tail(queue) /\ UNCHANGED <<fetches, reg, cl>>
        \/ (Resync(kept) \/ Resync(b)) /\ queue' = StaleInputs(Tail(queue))
        \/ /\ Follows(reg, d) /\ d.kind # "reset" /\ reg' = ApplyDelta(reg, d) /\ Broadcast(DeltaCommands(d))
           /\ queue' = Tail(queue) /\ UNCHANGED <<sup, fetches>> /\ sup.st = "Streaming"
    BY <1>7 DEF HandleDelta
  <2>4. Moves /\ Head(queue) = queue[1] /\ 1 \in DOMAIN queue /\ Head(queue).kind = "event"  BY <1>m, <2>1, <2>5
  <2>6. AtOf(queue[1]) = d.at  BY <2>4 DEF AtOf
  <2>7. ASSUME NEW x, x = kept \/ x = b
        PROVE  \A i \in DOMAIN x : x[i].at = d.at \/ \E j \in DOMAIN b : x[i].at = b[j].at
    <3> HIDE DEF b, d, T
    <3>1. CASE x = b  BY <3>1
    <3>2. CASE x = <<>>  BY <3>2
    <3>3. CASE x = Append(b, d)
      <4>1. DOMAIN x = 1 .. Len(b) + 1 /\ Len(b) \in Nat /\ DOMAIN b = 1 .. Len(b) /\ x[Len(b) + 1] = d
            /\ \A i \in DOMAIN b : x[i] = b[i]
        BY <2>2, <2>3, <3>3, SeqFacts
      <4>2. ASSUME NEW i \in DOMAIN x  PROVE x[i].at = d.at \/ \E j \in DOMAIN b : x[i].at = b[j].at
        <5>1. i \in DOMAIN b \/ i = Len(b) + 1  BY <4>1
        <5> QED  BY <4>1, <5>1
      <4> QED  BY <4>2
    <3> QED  BY <2>7, <3>1, <3>2, <3>3
  <2> HIDE DEF kept, T
  <2>8. CASE sup' = [sup EXCEPT !.buf = kept] /\ queue' = Tail(queue) /\ UNCHANGED <<fetches, reg, cl>>
    <3>1. sup'.buf = kept /\ sup'.st = sup.st  BY <1>0, <2>8
    <3>2. \A i \in DOMAIN sup'.buf : sup'.buf[i].at = AtOf(queue[1]) \/ \E j \in DOMAIN sup.buf : sup'.buf[i].at = sup.buf[j].at
      BY <2>6, <2>7, <3>1
    <3>3. SnapshotsLast'  BY <1>0, <2>4, <2>8, <3>2, SnapshotsTake
    <3>4. AnswersFresh'  BY <1>0, <2>4, <2>8, <3>1, KeepsAnswers
    <3> QED  BY <2>8, <3>3, <3>4 DEF Ordered, Advances
  <2>9. CASE (Resync(kept) \/ Resync(b)) /\ queue' = StaleInputs(Tail(queue))
    <3>1. UNCHANGED <<reg, cl>> /\ fetches' = Append(Stale(fetches), Fetch(reg.at))  BY <2>9 DEF Resync
    <3>2. sup'.buf = kept \/ sup'.buf = b  BY <2>9 DEF Resync
    <3>3. \A i \in DOMAIN sup'.buf : sup'.buf[i].at = AtOf(queue[1]) \/ \E j \in DOMAIN sup.buf : sup'.buf[i].at = sup.buf[j].at
      BY <2>6, <2>7, <3>2
    <3>4. SnapshotsLast'  BY <1>0, <2>4, <3>1, <3>3, SnapshotsTake
    <3>5. AnswersFresh'  BY <1>0, <2>4, <2>9, <3>1, SupersedesAnswers
    <3> QED  BY <3>1, <3>4, <3>5 DEF Ordered, Advances
  <2>10. CASE /\ Follows(reg, d) /\ d.kind # "reset" /\ reg' = ApplyDelta(reg, d) /\ Broadcast(DeltaCommands(d))
              /\ queue' = Tail(queue) /\ UNCHANGED <<sup, fetches>> /\ sup.st = "Streaming"
    <3>1. d \in TrueDeltas(log) /\ d \in Deltas  BY <2>2 DEF T, TrueDeltas
    <3> HIDE DEF d
    <3>2. Exact(log, reg.at, reg.proj) /\ reg.at[1] # 0
      <4>1. d.at \in DOMAIN log  BY <3>1 DEF TrueDeltas, Genuine
      <4>2. reg.at[1] # 0  BY <1>0, <2>10, <4>1 DEF Follows
      <4> QED  BY <4>2 DEF Truthful, RegTrue
    <3>3. Takes(reg, DeltaCommands(d), ApplyDelta(reg, d))  BY <1>0, <2>10, <3>1, <3>2, DeltaBatch
    <3>4. DeltaCommands(d) \in Seq(Commands)  BY <3>3 DEF Takes
    <3>5. reg'.at = AtOf(queue[1])  BY <2>6, <2>10, <3>1, <1>0, DeltaFacts DEF Registries
    <3>6. SnapshotsLast'  BY <1>0, <2>4, <2>10, <3>5, SnapshotsTake
    <3>7. AnswersFresh'  BY <2>10 DEF AnswersFresh
    <3> QED  BY <2>10, <3>3, <3>4, <3>6, <3>7 DEF Ordered, Advances
  <2> QED  BY <2>5, <2>8, <2>9, <2>10
<1> QED  BY <1>3, <1>4, <1>5, <1>6, <1>7 DEF Supervise

-----------------------------------------------------------------------------
(* The clients follow the registry *)

\* What the commands in the queue of the client k make of it: it has the registry r,
\* or still waits for it, with every output in its core unless a delta overtook the
\* initial outputs.
Alive(k) == k.pc \in {"registered", "running", "applied"}
Settled(r, v, k) ==
    v.gone \/
      /\ Fits(r.proj, v)
      /\ v.at = r.at \/ (k.pc = "registered" /\ k.q = <<>> /\ v.at = <<0, 0>>)
      /\ k.pc # "registered" /\ ~k.overtaken => Full(v)

\* A client that has been listed and is still to be sent its initial outputs.
Waits(r, l, k) ==
    /\ k.init \in Commands /\ k.init.kind = "initial" /\ Exact(l, k.init.at, k.init.outs) /\ Le(k.init.at, r.at)
    /\ k.q = <<>> /\ ~k.resync => k.init.at = r.at /\ k.init.outs = r.proj
    /\ k.at = <<0, 0>> /\ k.core = Empty /\ ~k.overtaken /\ k.unsent = <<>> /\ ~k.bound

Tracks(r, l, k) ==
    /\ r.at[1] # 0 /\ Le(k.at, r.at) /\ \A i \in DOMAIN k.q : Le(k.q[i].at, r.at)
    /\ DOMAIN k.core \subseteq DOMAIN k.live
    /\ k.pc = "registered" => Waits(r, l, k)
    /\ (k.pc = "running" /\ ~k.resync) \/ ~k.bound => k.unsent = <<>>
    /\ k.bound => DOMAIN k.core \subseteq Offered(k)
    /\ ~k.resync => \E w \in Views : Run(ViewOf(k), k.q, w) /\ Settled(r, w, k)

\* The invariant behind ClientInSync, with Truthful and Ordered.
ClientsFollow == \A c \in Clients : Alive(cl[c]) => Tracks(reg, log, cl[c])

\* The view of a client is a view.
LEMMA ViewFacts ==
    ASSUME NEW k \in ClientStates
    PROVE  /\ ViewOf(k) \in Views /\ ViewOf(k).at = k.at /\ ViewOf(k).live = k.live /\ ViewOf(k).core = k.core
           /\ ~ViewOf(k).gone
BY DEF ClientStates, ViewOf, Views

\* A batch for the registry s takes a client that follows r to s.
LEMMA TracksSends ==
    ASSUME NEW k \in ClientStates, Alive(k), NEW r \in Registries, NEW s \in Registries, NEW l, Tracks(r, l, k),
           NEW cmds, Takes(r, cmds, s), NEW t, SendsTo(k, cmds, t)
    PROVE  Tracks(s, l, t)
<1>0. cmds \in Seq(Commands) /\ cmds # <<>> /\ Le(r.at, s.at) /\ \A i \in DOMAIN cmds : Le(cmds[i].at, s.at)
  BY DEF Takes
<1>1. r.at \in Stamps /\ s.at \in Stamps /\ k.at \in Stamps /\ k.q \in Seq(Commands)  BY DEF Registries, ClientStates
<1>2. /\ t \in ClientStates /\ t.pc = k.pc /\ t.at = k.at /\ t.live = k.live /\ t.core = k.core /\ t.init = k.init
      /\ t.bound = k.bound /\ t.unsent = k.unsent /\ t.told = k.told /\ t.overtaken = k.overtaken
      /\ (k.resync => t.resync) /\ (~t.resync => t.q = k.q \o cmds)
      /\ \A i \in DOMAIN t.q : \/ \E j \in DOMAIN k.q : t.q[i] = k.q[j]
                               \/ \E j \in DOMAIN cmds : t.q[i] = cmds[j]
  BY DEF SendsTo, Alive
<1>3. \A i \in DOMAIN k.q : k.q[i].at \in Stamps  BY <1>1, SeqFacts DEF Commands
<1>4. s.at[1] # 0
  <2>1. r.at[1] \in Nat /\ s.at[1] \in Nat /\ r.at[1] # 0  BY <1>1, StampFacts DEF Tracks
  <2> QED  BY <1>0, <2>1 DEF Le
<1>5. Le(t.at, s.at) /\ \A i \in DOMAIN t.q : Le(t.q[i].at, s.at)
  BY <1>0, <1>1, <1>2, <1>3, LeFacts DEF Tracks
<1>6. ASSUME ~t.resync  PROVE t.q # <<>> /\ \E w \in Views : Run(ViewOf(t), t.q, w) /\ Settled(s, w, t)
  <2>1. PICK w \in Views : Run(ViewOf(k), k.q, w) /\ Settled(r, w, k)  BY <1>2, <1>6 DEF Tracks
  <2>2. PICK u \in Views : Run(w, cmds, u)  BY <1>0, RunExists
  <2>3. Run(ViewOf(k), k.q \o cmds, u)  BY <1>0, <1>1, <2>1, <2>2, RunJoins
  <2>4. ViewOf(t) = ViewOf(k)  BY <1>2 DEF ViewOf
  <2>5. u.gone \/ (Fits(s.proj, u) /\ u.at = s.at /\ (Full(w) => Full(u)))
    <3>1. CASE w.gone  BY <1>0, <2>2, <3>1, RunGone
    <3>2. CASE ~w.gone
      <4>1. Has(r, w)  BY <2>1, <3>2 DEF Settled, Has
      <4> QED  BY <2>2, <4>1 DEF Takes, Reaches
    <3> QED  BY <3>1, <3>2
  <2>6. w.gone \/ (k.pc # "registered" /\ ~k.overtaken => Full(w))  BY <2>1 DEF Settled
  <2>7. Settled(s, u, t)
    <3>1. CASE w.gone  BY <1>0, <2>2, <3>1, RunGone DEF Settled
    <3>2. CASE ~w.gone  BY <1>2, <2>5, <2>6, <3>2 DEF Settled
    <3> QED  BY <3>1, <3>2
  <2>8. t.q # <<>>
    <3>1. t.q = k.q \o cmds  BY <1>2, <1>6
    <3>2. k.q \o cmds # <<>>  BY <1>0, <1>1, EmptySeq, ConcatProperties, SeqFacts
    <3> QED  BY <3>1, <3>2
  <2> QED  BY <1>2, <1>6, <2>3, <2>4, <2>7, <2>8
<1>7. ASSUME k.pc = "registered"  PROVE Waits(s, l, t)
  <2>1. Waits(r, l, k)  BY <1>7 DEF Tracks
  <2>3. k.init.at \in Stamps  BY <2>1 DEF Waits, Commands
  <2>4. Le(k.init.at, s.at)  BY <1>0, <1>1, <2>1, <2>3, LeFacts DEF Waits
  <2> QED  BY <1>2, <1>6, <2>1, <2>4 DEF Waits
<1>8. Offered(t) = Offered(k)  BY <1>2 DEF Offered
<1> QED  BY <1>2, <1>4, <1>5, <1>6, <1>7, <1>8 DEF Tracks

\* The initial outputs, as the first command and after others.
LEMMA InitialFirst ==
    ASSUME NEW k \in ClientStates, NEW r \in Registries, k.at = <<0, 0>>, k.core = Empty, Fits(r.proj, ViewOf(k)),
           NEW m \in Commands, m = Command("initial", r.at, r.proj), NEW w, w = Ap(ViewOf(k), m)
    PROVE  w \in Views /\ Fits(r.proj, w) /\ w.at = r.at /\ Full(w)
<1> DEFINE v == ViewOf(k)
           P == r.proj
<1>1. v \in Views /\ v.at = <<0, 0>> /\ v.core = Empty /\ ~v.gone /\ v.live \in Projections
  BY ViewFacts DEF ClientStates
<1>2. r.at \in Stamps /\ P \in Projections /\ m.at = r.at /\ m.kind = "initial" /\ m.outs = P
  BY DEF Registries, Command
<1>3. w \in Views  BY <1>1, ApStays
<1>4. Fits(P, v)  OBVIOUS
<1> HIDE DEF v
<1>5. w = Effect(v, m)
  <2>1. ~Foreign(v, m) /\ ~Old(v, m)
    <3>1. r.at[2] \in Nat /\ v.at[1] = 0 /\ v.at[2] = 0  BY <1>1, <1>2, StampFacts
    <3> QED  BY <1>2, <3>1 DEF Foreign, Old
  <2> QED  BY <1>1, <2>1 DEF Ap, v
<1>6. w = View(r.at, Over(v.live, P), Over(ModesOf(P), Empty))  BY <1>1, <1>2, <1>5 DEF Effect
<1>7. w.at = r.at /\ w.live = Over(v.live, P) /\ w.core = Over(ModesOf(P), Empty)  BY <1>6 DEF View
<1> HIDE DEF P
<1>8. DOMAIN v.live = DOMAIN P  BY <1>1, <1>2, <1>4, FitsFacts
<1>9. DOMAIN ModesOf(P) = DOMAIN P /\ \A o \in DOMAIN P : ModesOf(P)[o] = P[o].mode  BY DEF ModesOf
<1>10. DOMAIN w.live = DOMAIN P /\ \A o \in DOMAIN P : w.live[o] = P[o]  BY <1>7, <1>8 DEF Over
<1>11. DOMAIN w.core = DOMAIN P /\ \A o \in DOMAIN P : w.core[o] = P[o].mode  BY <1>7, <1>9, EmptyFacts DEF Over
<1>12. Fits(P, w)  BY <1>2, <1>3, <1>10, <1>11, FitsFacts
<1> QED  BY <1>3, <1>7, <1>10, <1>11, <1>12 DEF Full, P

\* Initial outputs behind other commands change nothing the client lacks.
LEMMA InitialLater ==
    ASSUME NEW v \in Views, NEW r \in Registries, r.at[1] # 0, v.gone \/ (Fits(r.proj, v) /\ v.at = r.at),
           NEW m \in Commands, m.kind = "initial", Le(m.at, r.at),
           m.at = r.at => ModesOf(m.outs) = ModesOf(r.proj), NEW w, w = Ap(v, m)
    PROVE  w \in Views /\ (w.gone \/ (Fits(r.proj, w) /\ w.at = r.at))
<1> DEFINE P == r.proj
<1>0. w \in Views  BY ApStays
<1>1. CASE v.gone
  BY <1>0, <1>1, ApStays
<1>2. CASE ~v.gone
  <2>1. /\ r.at \in Stamps /\ P \in Projections /\ m.at \in Stamps /\ m.outs \in Projections
        /\ r.at[1] \in Nat /\ r.at[2] \in Nat /\ m.at[1] \in Nat /\ m.at[2] \in Nat /\ m.at = <<m.at[1], m.at[2]>>
        /\ r.at = <<r.at[1], r.at[2]>>
    BY StampFacts DEF Registries, Commands
  <2>2. v.at = r.at /\ Fits(P, v)  BY <1>2
  <2>3. ~Foreign(v, m)  BY <2>1, <2>2 DEF Foreign, Le
  <2>4. CASE Old(v, m)
    <3>1. w = v  BY <1>2, <2>3, <2>4 DEF Ap
    <3> QED  BY <1>0, <2>2, <3>1
  <2>5. CASE ~Old(v, m)
    <3>1. m.at = r.at  BY <2>1, <2>2, <2>5 DEF Old, Le
    <3>2. w = Effect(v, m)  BY <1>2, <2>3, <2>5 DEF Ap
    <3>3. w = View(r.at, Over(v.live, m.outs), Over(ModesOf(m.outs), v.core))  BY <3>1, <3>2 DEF Effect
    <3>4. w.at = r.at /\ w.live = Over(v.live, m.outs) /\ w.core = Over(ModesOf(m.outs), v.core)  BY <3>3 DEF View
    <3> DEFINE M == m.outs
    <3>5. ModesOf(M) = ModesOf(P)  BY <3>1
    <3>6. M \in Projections  BY <2>1
    <3> HIDE DEF P, M
    <3>7. DOMAIN ModesOf(P) = DOMAIN P /\ (\A o \in DOMAIN P : ModesOf(P)[o] = P[o].mode)
          /\ DOMAIN ModesOf(M) = DOMAIN M /\ (\A o \in DOMAIN M : ModesOf(M)[o] = M[o].mode)
      BY DEF ModesOf
    <3>8. DOMAIN M = DOMAIN P /\ \A o \in DOMAIN P : M[o].mode = P[o].mode  BY <3>5, <3>7
    <3>9. DOMAIN v.live = DOMAIN P /\ DOMAIN v.core \subseteq DOMAIN P /\ \A o \in DOMAIN v.core : v.core[o] = P[o].mode
      BY <2>1, <2>2, FitsFacts
    <3>10. DOMAIN w.live = DOMAIN P /\ \A o \in DOMAIN P : w.live[o] = M[o]  BY <3>4, <3>8, <3>9 DEF Over, M
    <3>11. DOMAIN w.core = DOMAIN P /\ \A o \in DOMAIN P : w.core[o] = P[o].mode
      BY <3>4, <3>5, <3>7, <3>9 DEF Over, M
    <3>12. Fits(P, w)  BY <1>0, <2>1, <3>8, <3>10, <3>11, FitsFacts
    <3> QED  BY <1>0, <3>4, <3>12 DEF P
  <2> QED  BY <2>4, <2>5
<1> QED  BY <1>1, <1>2

-----------------------------------------------------------------------------
(* The steps of a client *)

\* A client registers under the registry lock with the projection of that moment.
LEMMA RegisterTracks ==
    ASSUME NEW r \in Registries, r.at[1] # 0, NEW l, Exact(l, r.at, r.proj),
           NEW t, t = [NewClient EXCEPT !.pc = "registered", !.live = r.proj, !.init = Command("initial", r.at, r.proj)]
    PROVE  Tracks(r, l, t)
<1> DEFINE m == Command("initial", r.at, r.proj)
<1>1. r.at \in Stamps /\ r.proj \in Projections  BY DEF Registries
<1>2. m \in Commands  BY <1>1, CommandFacts
<1>3. m.kind = "initial" /\ m.at = r.at /\ m.outs = r.proj  BY DEF Command
<1> HIDE DEF m
<1>4. t \in ClientStates  BY <1>1, <1>2, GoneFacts DEF ClientStates, m
<1>5. /\ t.pc = "registered" /\ t.q = <<>> /\ ~t.resync /\ t.at = <<0, 0>> /\ t.live = r.proj /\ t.core = Empty
      /\ t.init = m /\ ~t.bound /\ t.unsent = <<>> /\ ~t.overtaken
  BY DEF NewClient, m
<1>6. Le(t.at, r.at) /\ Le(m.at, r.at)  BY <1>1, <1>3, <1>5, LeFacts
<1>7. Waits(r, l, t)  BY <1>2, <1>3, <1>5, <1>6 DEF Waits
<1> DEFINE v == ViewOf(t)
<1>8. v \in Views /\ v.at = <<0, 0>> /\ v.live = r.proj /\ v.core = Empty /\ ~v.gone  BY <1>4, <1>5, ViewFacts
<1> HIDE DEF v
<1>9. Fits(r.proj, v)  BY <1>1, <1>8, EmptyFacts, FitsFacts
<1>10. Run(v, <<>>, v)  BY <1>8, RunNone
<1>11. Settled(r, v, t)  BY <1>5, <1>8, <1>9 DEF Settled
<1>12. \E w \in Views : Run(ViewOf(t), t.q, w) /\ Settled(r, w, t)  BY <1>5, <1>8, <1>10, <1>11 DEF v
<1>13. DOMAIN t.core \subseteq DOMAIN t.live /\ \A i \in DOMAIN t.q : Le(t.q[i].at, r.at)  BY <1>5, EmptyFacts
<1> QED  BY <1>5, <1>6, <1>7, <1>12, <1>13 DEF Tracks

\* It is sent its initial outputs, perhaps behind a delta that overtook them.
LEMMA SendInitialTracks ==
    ASSUME NEW k \in ClientStates, k.pc = "registered", NEW r \in Registries, NEW l, Tracks(r, l, k),
           Exact(l, r.at, r.proj),
           NEW t, t = [k EXCEPT !.pc = "running", !.q = Append(@, k.init), !.init = None, !.overtaken = k.q # <<>>]
    PROVE  Tracks(r, l, t)
<1> DEFINE m == k.init
           q == Append(k.q, m)
<1>1. /\ m \in Commands /\ m.kind = "initial" /\ Exact(l, m.at, m.outs) /\ Le(m.at, r.at)
      /\ (k.q = <<>> /\ ~k.resync => m.at = r.at /\ m.outs = r.proj)
      /\ k.at = <<0, 0>> /\ k.core = Empty /\ k.unsent = <<>> /\ ~k.bound
      /\ r.at[1] # 0 /\ Le(k.at, r.at) /\ \A i \in DOMAIN k.q : Le(k.q[i].at, r.at)
  BY DEF Tracks, Waits
<1>2. k.q \in Seq(Commands) /\ k.at \in Stamps /\ k.live \in Projections  BY DEF ClientStates
<1>3. q \in Seq(Commands) /\ (\A i \in DOMAIN q : (i \in DOMAIN k.q /\ q[i] = k.q[i]) \/ q[i] = m) /\ q = k.q \o <<m>>
  <2>1. Len(k.q) \in Nat /\ DOMAIN k.q = 1 .. Len(k.q)  BY <1>2, SeqFacts
  <2>2. q \in Seq(Commands) /\ DOMAIN q = 1 .. Len(k.q) + 1 /\ q[Len(k.q) + 1] = m /\ \A i \in DOMAIN k.q : q[i] = k.q[i]
    BY <1>1, <1>2, SeqFacts
  <2>3. q = k.q \o <<m>>  BY <1>1, <1>2
  <2> HIDE DEF q
  <2> QED  BY <2>1, <2>2, <2>3
<1> HIDE DEF q
<1>4. /\ t.pc = "running" /\ t.q = q /\ t.resync = k.resync /\ t.at = k.at /\ t.live = k.live /\ t.core = k.core
      /\ t.bound = k.bound /\ t.unsent = k.unsent /\ t.overtaken = (k.q # <<>>)
  BY DEF q, ClientStates
<1>5. \A i \in DOMAIN t.q : Le(t.q[i].at, r.at)  BY <1>1, <1>3, <1>4
<1>6. ASSUME ~t.resync  PROVE \E w \in Views : Run(ViewOf(t), t.q, w) /\ Settled(r, w, t)
  <2> DEFINE v == ViewOf(k)
  <2>1. PICK w \in Views : Run(v, k.q, w) /\ Settled(r, w, k)  BY <1>4, <1>6 DEF Tracks
  <2> DEFINE u == Ap(w, m)
  <2>2. ViewOf(t) = v  BY <1>4 DEF ViewOf
  <2>a. <<m>> \in Seq(Commands)  BY <1>1
  <2>3. u \in Views /\ Run(w, <<m>>, u)  BY <1>1, <2>1, ApStays, RunOne
  <2>4. Run(v, q, u)
    <3> DEFINE one == <<m>>
    <3>1. one \in Seq(Commands) /\ q = k.q \o one /\ Run(w, one, u)  BY <1>3, <2>a, <2>3
    <3> HIDE DEF one, v, u
    <3> QED  BY <1>2, <2>1, <3>1, RunJoins
  <2>5. CASE k.q = <<>>
    <3>1. v \in Views /\ w = v  BY <2>1, <2>5, ViewFacts, RunNone
    <3>2. ~w.gone /\ Fits(r.proj, ViewOf(k))  BY <2>1, <3>1, ViewFacts DEF Settled
    <3>3. m = Command("initial", r.at, r.proj)
      <4>1. m.at = r.at /\ m.outs = r.proj /\ m.kind = "initial"  BY <1>1, <1>4, <1>6, <2>5
      <4> QED  BY <1>1, <4>1 DEF Command, Commands
    <3>4. Fits(r.proj, u) /\ u.at = r.at /\ Full(u)
      <4> DEFINE x == m
      <4>1. x \in Commands /\ x = Command("initial", r.at, r.proj) /\ u = Ap(ViewOf(k), x)  BY <1>1, <3>1, <3>3
      <4> HIDE DEF x, u, m, v
      <4> QED  BY <1>1, <3>2, <4>1, InitialFirst
    <3>5. Settled(r, u, t)  BY <1>4, <3>4 DEF Settled
    <3> QED  BY <1>4, <2>2, <2>3, <2>4, <3>5
  <2>6. CASE k.q # <<>>
    <3>1. w.gone \/ (Fits(r.proj, w) /\ w.at = r.at)  BY <2>1, <2>6 DEF Settled
    <3>2. m.at = r.at => ModesOf(m.outs) = ModesOf(r.proj)  BY <1>1 DEF Exact
    <3>3. u.gone \/ (Fits(r.proj, u) /\ u.at = r.at)
      <4> HIDE DEF u, m
      <4>1. u = Ap(w, m)  BY DEF u
      <4> QED  BY <1>1, <3>1, <3>2, <4>1, InitialLater
    <3>4. Settled(r, u, t)  BY <1>4, <2>6, <3>3 DEF Settled
    <3> QED  BY <1>4, <2>2, <2>3, <2>4, <3>4
  <2> QED  BY <2>5, <2>6
<1>7. DOMAIN t.core \subseteq DOMAIN t.live  BY <1>1, <1>4, EmptyFacts
<1> QED  BY <1>1, <1>4, <1>5, <1>6, <1>7 DEF Tracks

\* It applies the next command.
LEMMA TakeCommandTracks ==
    ASSUME NEW k \in ClientStates, k.pc = "running", ~k.resync, k.q # <<>>, NEW r \in Registries, NEW l, Tracks(r, l, k),
           NEW k0, k0 = [k EXCEPT !.q = Tail(@)], NEW x, x = Apply(k0, Head(k.q)), x.pc # "gone",
           NEW t, t = [x EXCEPT !.pc = "applied"]
    PROVE  Tracks(r, l, t)
<1> DEFINE m == Head(k.q)
           v == ViewOf(k)
           u == Ap(v, m)
<1>1. k.q \in Seq(Commands) /\ k.at \in Stamps  BY DEF ClientStates
<1>2. /\ m \in Commands /\ m = k.q[1] /\ 1 \in DOMAIN k.q /\ Tail(k.q) \in Seq(Commands)
      /\ \A i \in DOMAIN Tail(k.q) : i + 1 \in DOMAIN k.q /\ Tail(k.q)[i] = k.q[i + 1]
  BY <1>1, SeqFacts
<1> HIDE DEF m
<1>3. /\ k0 \in ClientStates /\ k0.q = Tail(k.q) /\ k0.pc = "running" /\ ~k0.resync /\ k0.at = k.at /\ k0.live = k.live
      /\ k0.core = k.core /\ k0.bound = k.bound /\ k0.unsent = k.unsent /\ k0.told = k.told /\ k0.overtaken = k.overtaken
  BY <1>2 DEF ClientStates
<1>4. ViewOf(k0) = v /\ Offered(k0) = Offered(k)  BY <1>3 DEF ViewOf, Offered
<1>5. Becomes(k0, u, x)
  <2>1. x = Apply(k0, m)  BY DEF m
  <2>2. Becomes(k0, Ap(ViewOf(k0), m), x)  BY <1>2, <1>3, <2>1, ApplyFacts
  <2> QED  BY <1>4, <2>2
<1>6. ~u.gone /\ Remains(k0, x) /\ ViewOf(x) = u /\ x \in ClientStates  BY <1>5 DEF Becomes, Gone, NewClient
<1>7. v \in Views /\ v.at = k.at /\ v.live = k.live /\ v.core = k.core  BY ViewFacts
<1>8. PICK w \in Views : Run(v, k.q, w) /\ Settled(r, w, k)  BY DEF Tracks
<1> HIDE DEF v
<1>9. Run(u, Tail(k.q), w)  BY <1>1, <1>7, <1>8, RunHead DEF m
<1>10. /\ u.at = v.at \/ u.at = m.at
       /\ DOMAIN v.core \subseteq DOMAIN v.live => DOMAIN u.core \subseteq DOMAIN u.live
  BY <1>2, <1>7, ApStays
<1>11. u.at = x.at /\ u.live = x.live /\ u.core = x.core  BY <1>6 DEF ViewOf
<1> HIDE DEF u
<1>12. /\ t.pc = "applied" /\ t.q = Tail(k.q) /\ ~t.resync /\ t.at = x.at /\ t.live = x.live /\ t.core = x.core
       /\ t.bound = x.bound /\ t.unsent = x.unsent /\ t.told = x.told /\ t.overtaken = x.overtaken
       /\ x.bound = k.bound /\ x.overtaken = k.overtaken
       /\ (~k.bound => x.unsent = k.unsent)
       /\ (k.bound /\ DOMAIN k.core \subseteq Offered(k) => DOMAIN x.core \subseteq Offered(x))
  BY <1>3, <1>4, <1>6 DEF Remains, ClientStates
<1>13. Offered(t) = Offered(x) /\ ViewOf(t) = u  BY <1>6, <1>12 DEF Offered, ViewOf
<1>14. Le(t.at, r.at) /\ \A i \in DOMAIN t.q : Le(t.q[i].at, r.at)
  <2>1. \A i \in DOMAIN k.q : Le(k.q[i].at, r.at)  BY DEF Tracks
  <2>2. Le(k.at, r.at)  BY DEF Tracks
  <2>3. Le(m.at, r.at)  BY <1>2, <2>1
  <2>a. x.at = k.at \/ x.at = m.at  BY <1>7, <1>10, <1>11
  <2>b. t.at = x.at  BY <1>12
  <2>4. Le(t.at, r.at)
    <3> HIDE DEF Le
    <3>1. CASE x.at = k.at  BY <2>2, <2>b, <3>1
    <3>2. CASE x.at = m.at  BY <2>3, <2>b, <3>2
    <3> QED  BY <2>a, <3>1, <3>2
  <2>5. ASSUME NEW i \in DOMAIN t.q  PROVE Le(t.q[i].at, r.at)
    <3>1. i + 1 \in DOMAIN k.q /\ t.q[i] = k.q[i + 1]  BY <1>2, <1>12, <2>5
    <3> QED  BY <2>1, <3>1
  <2> QED  BY <2>4, <2>5
<1>15. Settled(r, w, t)  BY <1>8, <1>12 DEF Settled
<1>16. DOMAIN t.core \subseteq DOMAIN t.live  BY <1>7, <1>10, <1>11, <1>12 DEF Tracks
<1>17. t.bound => DOMAIN t.core \subseteq Offered(t)  BY <1>12, <1>13 DEF Tracks
<1>18. ~t.bound => t.unsent = <<>>  BY <1>12 DEF Tracks
<1>19. r.at[1] # 0  BY DEF Tracks
<1>20. \E y \in Views : Run(ViewOf(t), t.q, y) /\ Settled(r, y, t)  BY <1>8, <1>9, <1>12, <1>13, <1>15
<1> QED  BY <1>12, <1>14, <1>16, <1>17, <1>18, <1>19, <1>20 DEF Tracks

\* It sends its client what has changed.
LEMMA FlushTracks ==
    ASSUME NEW k \in ClientStates, k.pc = "applied", NEW r \in Registries, NEW l, Tracks(r, l, k),
           NEW x, x = IF k.resync THEN k ELSE Delivered(k), NEW t, t = [x EXCEPT !.pc = "running"]
    PROVE  Tracks(r, l, t)
<1>1. /\ x \in ClientStates /\ x.q = k.q /\ x.resync = k.resync /\ x.at = k.at /\ x.live = k.live /\ x.core = k.core
      /\ x.bound = k.bound /\ x.overtaken = k.overtaken /\ Offered(x) = Offered(k)
      /\ (~k.resync => x.unsent = <<>>) /\ (k.unsent = <<>> => x.unsent = <<>>)
  BY DeliveredFacts
<1>2. /\ t.pc = "running" /\ t.q = k.q /\ t.resync = k.resync /\ t.at = k.at /\ t.live = k.live /\ t.core = k.core
      /\ t.bound = k.bound /\ t.overtaken = k.overtaken /\ t.unsent = x.unsent /\ t.told = x.told
  BY <1>1 DEF ClientStates
<1>3. Offered(t) = Offered(k) /\ ViewOf(t) = ViewOf(k)  BY <1>1, <1>2 DEF Offered, ViewOf
<1>4. \A w : Settled(r, w, k) => Settled(r, w, t)  BY <1>2 DEF Settled
<1>5. ~t.bound => t.unsent = <<>>  BY <1>1, <1>2 DEF Tracks
<1>6. ~t.resync => \E w \in Views : Run(ViewOf(t), t.q, w) /\ Settled(r, w, t)  BY <1>2, <1>3, <1>4 DEF Tracks
<1>7. r.at[1] # 0 /\ Le(t.at, r.at) /\ (\A i \in DOMAIN t.q : Le(t.q[i].at, r.at)) /\ DOMAIN t.core \subseteq DOMAIN t.live
  BY <1>2 DEF Tracks
<1>8. t.bound => DOMAIN t.core \subseteq Offered(t)  BY <1>2, <1>3 DEF Tracks
<1> QED  BY <1>1, <1>2, <1>5, <1>6, <1>7, <1>8 DEF Tracks

\* A client that is as the registry says, with nothing left to do.
LEMMA FreshTracks ==
    ASSUME NEW t \in ClientStates, t.pc = "running", t.q = <<>>, NEW r \in Registries, NEW l, r.at[1] # 0,
           Fits(r.proj, ViewOf(t)), t.at = r.at, Full(ViewOf(t)), t.unsent = <<>>,
           t.bound => DOMAIN t.core \subseteq Offered(t)
    PROVE  Tracks(r, l, t)
<1> DEFINE v == ViewOf(t)
<1>1. v \in Views /\ v.at = t.at /\ v.live = t.live /\ v.core = t.core /\ ~v.gone  BY ViewFacts
<1>2. r.at \in Stamps  BY DEF Registries
<1>3. Fits(r.proj, v) /\ Full(v)  OBVIOUS
<1> HIDE DEF v
<1>4. Run(v, <<>>, v)  BY <1>1, RunNone
<1>5. Settled(r, v, t)  BY <1>1, <1>3 DEF Settled
<1>6. \E w \in Views : Run(ViewOf(t), t.q, w) /\ Settled(r, w, t)  BY <1>1, <1>4, <1>5 DEF v
<1>7. Le(t.at, r.at)  BY <1>2, LeFacts
<1>8. DOMAIN t.core \subseteq DOMAIN t.live  BY <1>1, <1>3 DEF Fits
<1> QED  BY <1>6, <1>7, <1>8 DEF Tracks

\* A reset with the registry's stamp, the removal of all outputs and the registry's
\* outputs make any client that is not ahead have the registry.
LEMMA RestartedView ==
    ASSUME NEW v1 \in Views, ~v1.gone, NEW r \in Registries, r.at[1] # 0, Le(v1.at, r.at),
           DOMAIN v1.core \subseteq DOMAIN v1.live,
           NEW v2, v2 = Ap(v1, Command("reset", r.at, Empty)), NEW v3, v3 = Ap(v2, Command("remove", r.at, v2.live)),
           NEW v4, v4 = Ap(v3, Command("add", r.at, r.proj))
    PROVE  /\ ~v2.gone /\ ~v3.gone /\ v3.core = Empty /\ ~v4.gone /\ Fits(r.proj, v4) /\ v4.at = r.at /\ Full(v4)
<1> DEFINE c1 == Command("reset", r.at, Empty)
           c2 == Command("remove", r.at, v2.live)
           c3 == Command("add", r.at, r.proj)
           P == r.proj
<1>0. r.at \in Stamps /\ P \in Projections  BY DEF Registries
<1>a. r.at[1] \in Nat /\ r.at[2] \in Nat /\ v1.at[1] \in Nat /\ v1.at[2] \in Nat  BY <1>0, StampFacts DEF Views
<1>1. v2 = View(r.at, v1.live, v1.core)
  <2>1. c1.kind = "reset" /\ c1.at = r.at  BY DEF Command
  <2> HIDE DEF c1
  <2>2. ~Foreign(v1, c1)  BY <2>1 DEF Foreign
  <2>3. ~Old(v1, c1)  BY <1>a, <2>1 DEF Old, Le
  <2>4. v2 = Effect(v1, c1)  BY <2>2, <2>3 DEF Ap, c1
  <2> QED  BY <2>1, <2>4 DEF Effect
<1>2. ~v2.gone /\ v2.at = r.at /\ v2.live = v1.live /\ v2.core = v1.core  BY <1>1 DEF View
<1>3. v3 = View(r.at, Less(v2.live, DOMAIN v2.live), Less(v2.core, DOMAIN v2.live))
  <2>1. c2.kind = "remove" /\ c2.at = r.at /\ c2.outs = v2.live  BY DEF Command
  <2> HIDE DEF c2
  <2>2. ~Foreign(v2, c2) /\ ~Old(v2, c2)  BY <1>a, <1>2, <2>1 DEF Foreign, Old
  <2>3. v3 = Effect(v2, c2)  BY <1>2, <2>2 DEF Ap, c2
  <2> QED  BY <2>1, <2>3 DEF Effect
<1>4. ~v3.gone /\ v3.at = r.at /\ v3.live = Empty /\ v3.core = Empty
  <2>1. \A f, S : DOMAIN f \subseteq S => Less(f, S) = Empty  BY DEF Less, Empty
  <2>2. Less(v2.live, DOMAIN v2.live) = Empty /\ Less(v2.core, DOMAIN v2.live) = Empty  BY <1>2, <2>1
  <2> QED  BY <1>3, <2>2 DEF View
<1>5. v4 = View(r.at, Over(Empty, P), Over(ModesOf(P), Empty))
  <2>1. c3.kind = "add" /\ c3.at = r.at /\ c3.outs = P  BY DEF Command
  <2> HIDE DEF c3
  <2>2. ~Foreign(v3, c3) /\ ~Old(v3, c3)  BY <1>a, <1>4, <2>1 DEF Foreign, Old
  <2>3. v4 = Effect(v3, c3)  BY <1>4, <2>2 DEF Ap, c3
  <2> QED  BY <1>4, <2>1, <2>3 DEF Effect
<1>6. ~v4.gone /\ v4.at = r.at /\ v4.live = Over(Empty, P) /\ v4.core = Over(ModesOf(P), Empty)  BY <1>5 DEF View
<1> HIDE DEF P
<1>7. DOMAIN ModesOf(P) = DOMAIN P /\ \A o \in DOMAIN P : ModesOf(P)[o] = P[o].mode  BY DEF ModesOf
<1>8. DOMAIN v4.live = DOMAIN P /\ \A o \in DOMAIN P : v4.live[o] = P[o]  BY <1>6, EmptyFacts DEF Over
<1>9. DOMAIN v4.core = DOMAIN P /\ \A o \in DOMAIN P : v4.core[o] = P[o].mode  BY <1>6, <1>7, EmptyFacts DEF Over
<1>10. v4 \in Views
  <2>1. Over(Empty, P) \in Projections  BY <1>0, EmptyFacts, OverStays
  <2>2. ModesOf(P) \in Maps  BY <1>0, ModesFacts
  <2>3. Over(ModesOf(P), Empty) \in Maps  BY <2>2, EmptyFacts, OverStays
  <2>4. \A live \in Projections, core \in Maps : View(r.at, live, core) \in Views  BY <1>0 DEF View, Views
  <2> QED  BY <1>5, <2>1, <2>3, <2>4
<1>11. Fits(P, v4)  BY <1>0, <1>8, <1>9, <1>10, FitsFacts
<1> QED  BY <1>2, <1>4, <1>6, <1>8, <1>9, <1>11 DEF Full, P

\* It reconciles with the registry after its queue was full.
LEMMA ReconcileTracks ==
    ASSUME NEW k \in ClientStates, k.pc = "running", NEW r \in Registries, NEW l, Tracks(r, l, k),
           NEW x, x = Restarted(ClearedOf(k), r), NEW t, t = [Delivered(x) EXCEPT !.overtaken = FALSE]
    PROVE  Tracks(r, l, t)
<1> DEFINE k0 == ClearedOf(k)
<1>1. /\ k0 \in ClientStates /\ k0.q = <<>> /\ ~k0.resync /\ k0.pc = "running" /\ k0.at = k.at /\ k0.live = k.live
      /\ k0.core = k.core /\ k0.bound = k.bound /\ k0.unsent = <<>>
  BY ClearedFacts
<1>2. x = Restarted(k0, r)  OBVIOUS
<1> HIDE DEF k0
<1>3. PICK k1, k2, k3 \in ClientStates :
               /\ Becomes(k0, Ap(ViewOf(k0), Command("reset", r.at, Empty)), k1)
               /\ Becomes(k1, Ap(ViewOf(k1), Command("remove", r.at, k1.live)), k2)
               /\ Becomes(k2, Ap(ViewOf(k2), Command("add", r.at, r.proj)), k3)
               /\ x = k3
  BY <1>1, <1>2, RestartedFacts
<1> DEFINE v1 == ViewOf(k0)
           v2 == Ap(v1, Command("reset", r.at, Empty))
           v3 == Ap(v2, Command("remove", r.at, v2.live))
           v4 == Ap(v3, Command("add", r.at, r.proj))
<1>4. v1 \in Views /\ ~v1.gone /\ v1.at = k.at /\ v1.live = k.live /\ v1.core = k.core  BY <1>1, ViewFacts
<1>5. r.at[1] # 0 /\ Le(k.at, r.at) /\ DOMAIN k.core \subseteq DOMAIN k.live  BY DEF Tracks
<1>6. ~v2.gone /\ ~v3.gone /\ v3.core = Empty /\ ~v4.gone /\ Fits(r.proj, v4) /\ v4.at = r.at /\ Full(v4)
  <2>1. v2 = Ap(v1, Command("reset", r.at, Empty)) /\ v3 = Ap(v2, Command("remove", r.at, v2.live))
        /\ v4 = Ap(v3, Command("add", r.at, r.proj))
    OBVIOUS
  <2> HIDE DEF v1, v2, v3, v4
  <2> QED  BY <1>4, <1>5, <2>1, RestartedView
<1>7. Remains(k0, k1) /\ ViewOf(k1) = v2  BY <1>3, <1>6 DEF Becomes
<1>8. k1.live = v2.live  BY <1>7, ViewFacts
<1>9. Becomes(k1, v3, k2)  BY <1>3, <1>7, <1>8
<1>10. Remains(k1, k2) /\ ViewOf(k2) = v3  BY <1>6, <1>9 DEF Becomes
<1>11. Becomes(k2, v4, k3)  BY <1>3, <1>10
<1>12. Remains(k2, k3) /\ ViewOf(k3) = v4  BY <1>6, <1>11 DEF Becomes
<1> HIDE DEF v1, v2, v3, v4
<1>13. x.pc = "running" /\ x.q = <<>> /\ ~x.resync /\ x.bound = k0.bound
  BY <1>1, <1>3, <1>7, <1>10, <1>12 DEF Remains
<1>14. x.bound => DOMAIN x.core \subseteq Offered(x)
  <2>1. k2.core = Empty  BY <1>6, <1>10, ViewFacts
  <2> QED  BY <1>3, <1>7, <1>10, <1>12, <2>1, EmptyFacts DEF Remains
<1> DEFINE y == Delivered(x)
<1>15. /\ y \in ClientStates /\ y.unsent = <<>> /\ Offered(y) = Offered(x) /\ y.pc = x.pc /\ y.q = x.q
       /\ y.at = x.at /\ y.live = x.live /\ y.core = x.core /\ y.bound = x.bound
  BY <1>3, DeliveredFacts
<1>16. t = [y EXCEPT !.overtaken = FALSE]  OBVIOUS
<1> HIDE DEF y
<1>17. /\ t \in ClientStates /\ t.unsent = <<>> /\ t.told = y.told /\ t.pc = "running" /\ t.q = <<>>
       /\ t.at = x.at /\ t.live = x.live /\ t.core = x.core /\ t.bound = x.bound /\ t.unsent = y.unsent
  BY <1>13, <1>15, <1>16 DEF ClientStates
<1>18. Offered(t) = Offered(x)  BY <1>15, <1>17 DEF Offered
<1>19. ViewOf(t) = v4 /\ t.at = r.at
  <2>1. ViewOf(t) = ViewOf(x)  BY <1>17 DEF ViewOf
  <2>2. ViewOf(x) = v4  BY <1>3, <1>12
  <2> QED  BY <1>3, <1>6, <1>17, <2>1, <2>2, ViewFacts
<1> QED  BY <1>5, <1>6, <1>14, <1>17, <1>18, <1>19, FreshTracks

\* Its client binds the registry.
LEMMA GetRegistryTracks ==
    ASSUME NEW k \in ClientStates, k.pc = "running", ~k.resync, k.q = <<>>, ~k.bound, NEW r \in Registries, NEW l,
           Tracks(r, l, k), NEW t, t = [k EXCEPT !.bound = TRUE, !.told = DOMAIN k.core]
    PROVE  Tracks(r, l, t)
<1>1. DOMAIN k.core \subseteq Outputs  BY MapFacts DEF ClientStates
<1>2. /\ t.pc = "running" /\ t.q = k.q /\ ~t.resync /\ t.at = k.at /\ t.live = k.live /\ t.core = k.core
      /\ t.bound /\ t.overtaken = k.overtaken /\ t.unsent = k.unsent /\ t.told = DOMAIN k.core
  BY DEF ClientStates
<1>3. k.unsent = <<>>  BY DEF Tracks
<1>4. Offered(t) = DOMAIN k.core  BY <1>1, <1>2, <1>3, OfferedEmpty DEF Offered
<1>5. ViewOf(t) = ViewOf(k)  BY <1>2 DEF ViewOf
<1>6. \A w : Settled(r, w, k) => Settled(r, w, t)  BY <1>2 DEF Settled
<1>7. \E w \in Views : Run(ViewOf(t), t.q, w) /\ Settled(r, w, t)  BY <1>2, <1>5, <1>6 DEF Tracks
<1>8. r.at[1] # 0 /\ Le(t.at, r.at) /\ (\A i \in DOMAIN t.q : Le(t.q[i].at, r.at)) /\ DOMAIN t.core \subseteq DOMAIN t.live
  BY <1>2 DEF Tracks
<1> QED  BY <1>2, <1>3, <1>4, <1>7, <1>8 DEF Tracks

\* The steps of a client keep every client in step with the registry.
LEMMA ClientFollows ==
    ASSUME Truthful, ClientsFollow, NEW c \in Clients, Register(c) \/ ClientStep(c) \/ GetRegistry(c) \/ Disconnect(c)
    PROVE  ClientsFollow'
<1> DEFINE k == cl[c]
           t == cl'[c]
<1>0. /\ cl \in [Clients -> ClientStates] /\ k \in ClientStates /\ reg \in Registries
      /\ reg.at[1] # 0 => Exact(log, reg.at, reg.proj)
      /\ Alive(k) => Tracks(reg, log, k)
  BY DEF Truthful, ClientsTyped, RegTrue, ClientsFollow
<1>1. UNCHANGED clientOnly /\ cl' = [cl EXCEPT ![c] = t] /\ \E x : Become(c, x)
  BY <1>0 DEF Register, ClientStep, SendInitial, TakeCommand, Flush, Reconcile, GetRegistry, Disconnect, Become
<1>2. UNCHANGED <<reg, log>>  BY <1>1 DEF clientOnly
<1>a. \A x : Become(c, x) => t = x  BY <1>0 DEF Become
<1> SUFFICES t = Gone \/ Tracks(reg, log, t)
  <2>1. \A x \in Clients : cl'[x] = IF x = c THEN t ELSE cl[x]  BY <1>0, <1>1
  <2>2. ~Alive(Gone)  BY DEF Alive, Gone, NewClient
  <2>3. Alive(t) => Tracks(reg, log, t)  BY <2>2
  <2> HIDE DEF t
  <2>4. \A x \in Clients : Alive(cl'[x]) => Tracks(reg, log, cl'[x])  BY <2>1, <2>3 DEF ClientsFollow
  <2> QED  BY <1>2, <2>4 DEF ClientsFollow
<1> HIDE DEF t, k
<1>3. CASE Register(c)
  <2>1. t = [NewClient EXCEPT !.pc = "registered", !.live = reg.proj, !.init = Command("initial", reg.at, reg.proj)]
        /\ reg.at[1] # 0
    BY <1>3, <1>a DEF Register
  <2> QED  BY <1>0, <2>1, RegisterTracks
<1>4. CASE SendInitial(c)
  <2>1. k.pc = "registered"  BY <1>4 DEF SendInitial, k
  <2>2. Tracks(reg, log, k)  BY <1>0, <2>1 DEF Alive
  <2>3. Exact(log, reg.at, reg.proj)  BY <1>0, <2>2 DEF Tracks
  <2>4. \/ t = Gone
        \/ t = [k EXCEPT !.pc = "running", !.q = Append(@, k.init), !.init = None, !.overtaken = k.q # <<>>]
    BY <1>0, <1>4, <1>a DEF SendInitial, k
  <2> QED  BY <1>0, <2>1, <2>2, <2>3, <2>4, SendInitialTracks
<1>5. CASE TakeCommand(c)
  <2> DEFINE k0 == [k EXCEPT !.q = Tail(@)]
             x == Apply(k0, Head(k.q))
  <2>1. k.q # <<>> /\ k.pc = "running" /\ ~k.resync /\ t = IF x.pc = "gone" THEN x ELSE [x EXCEPT !.pc = "applied"]
    BY <1>5, <1>a DEF TakeCommand, k
  <2>2. Tracks(reg, log, k)  BY <1>0, <2>1 DEF Alive
  <2>3. CASE x.pc = "gone"
    <3> DEFINE m == Head(k.q)
    <3>1. k.q \in Seq(Commands)  BY <1>0 DEF ClientStates
    <3>2. m \in Commands /\ Tail(k.q) \in Seq(Commands)  BY <2>1, <3>1, SeqFacts
    <3>3. k0 \in ClientStates /\ k0.pc = "running"  BY <1>0, <2>1, <3>2 DEF ClientStates
    <3> HIDE DEF k0, m
    <3>4. x = Apply(k0, m)  BY DEF m
    <3> HIDE DEF x
    <3>5. Becomes(k0, Ap(ViewOf(k0), m), x)  BY <3>2, <3>3, <3>4, ApplyFacts
    <3>6. x = Gone  BY <2>3, <3>3, <3>5 DEF Becomes, Remains
    <3> QED  BY <2>1, <2>3, <3>6
  <2>4. CASE x.pc # "gone"
    <3>1. t = [x EXCEPT !.pc = "applied"]  BY <2>1, <2>4
    <3>2. k0 = [k EXCEPT !.q = Tail(@)] /\ x = Apply(k0, Head(k.q))  OBVIOUS
    <3> HIDE DEF k0, x
    <3> QED  BY <1>0, <2>1, <2>2, <2>4, <3>1, <3>2, TakeCommandTracks
  <2> QED  BY <2>3, <2>4
<1>6. CASE Flush(c)
  <2> DEFINE x == IF k.resync THEN k ELSE Delivered(k)
  <2>1. t = [x EXCEPT !.pc = "running"] /\ k.pc = "applied"  BY <1>6, <1>a DEF Flush, k
  <2>2. Tracks(reg, log, k)  BY <1>0, <2>1 DEF Alive
  <2>3. x = IF k.resync THEN k ELSE Delivered(k)  OBVIOUS
  <2> HIDE DEF x
  <2> QED  BY <1>0, <2>1, <2>2, <2>3, FlushTracks
<1>7. CASE Reconcile(c)
  <2> DEFINE x == Restarted(ClearedOf(k), reg)
  <2>1. t = [Delivered(x) EXCEPT !.overtaken = FALSE] /\ k.pc = "running"
    BY <1>7, <1>a DEF Reconcile, ClearedOf, Restarted, k
  <2>2. Tracks(reg, log, k)  BY <1>0, <2>1 DEF Alive
  <2>3. x = Restarted(ClearedOf(k), reg)  OBVIOUS
  <2> HIDE DEF x
  <2> QED  BY <1>0, <2>1, <2>2, <2>3, ReconcileTracks
<1>8. CASE GetRegistry(c)
  <2>1. /\ t = [k EXCEPT !.bound = TRUE, !.told = DOMAIN k.core]
        /\ k.pc = "running" /\ ~k.resync /\ k.q = <<>> /\ ~k.bound
    BY <1>8, <1>a DEF GetRegistry, k
  <2>2. Tracks(reg, log, k)  BY <1>0, <2>1 DEF Alive
  <2> QED  BY <1>0, <2>1, <2>2, GetRegistryTracks
<1>9. CASE Disconnect(c)
  BY <1>9, <1>a DEF Disconnect
<1> QED  BY <1>3, <1>4, <1>5, <1>6, <1>7, <1>8, <1>9 DEF ClientStep

\* So do those of the supervisor, batch by batch.
LEMMA SuperviseFollows ==
    ASSUME Truthful, Truthful', Ordered, ClientsFollow, Supervise
    PROVE  ClientsFollow'
<1>1. Advances  BY SuperviseOrdered
<1>2. UNCHANGED log
  BY DEF Supervise, HandleLost, HandleSnapshot, HandleOverflow, HandleResult, HandleDelta, supOnly
<1>3. CASE UNCHANGED <<reg, cl>>  BY <1>2, <1>3 DEF ClientsFollow
<1>4. ASSUME NEW cmds \in Seq(Commands), Broadcast(cmds), reg.at[1] # 0 => Takes(reg, cmds, reg')
      PROVE  ClientsFollow'
  <2>1. reg \in Registries /\ reg' \in Registries /\ ClientsTyped  BY DEF Truthful, RegTrue
  <2>2. \A c \in Clients : SendsTo(cl[c], cmds, cl'[c])  BY <1>4, <2>1, BroadcastFacts
  <2>3. ASSUME NEW c \in Clients, Alive(cl'[c])  PROVE Tracks(reg', log', cl'[c])
    <3>1. cl[c] \in ClientStates /\ SendsTo(cl[c], cmds, cl'[c])  BY <2>1, <2>2 DEF ClientsTyped
    <3>2. Alive(cl[c])  BY <2>3, <3>1 DEF Alive, SendsTo
    <3>3. Tracks(reg, log, cl[c])  BY <3>2 DEF ClientsFollow
    <3>4. Takes(reg, cmds, reg')  BY <1>4, <3>3 DEF Tracks
    <3> DEFINE k == cl[c]
               t == cl'[c]
               s == reg'
    <3>5. k \in ClientStates /\ Alive(k) /\ Tracks(reg, log, k) /\ SendsTo(k, cmds, t) /\ Takes(reg, cmds, s) /\ s \in Registries
      BY <2>1, <3>1, <3>2, <3>3, <3>4
    <3> HIDE DEF k, t, s
    <3>6. Tracks(s, log, t)  BY <2>1, <3>5, TracksSends
    <3> QED  BY <1>2, <3>6 DEF t, s
  <2> QED  BY <2>3 DEF ClientsFollow
<1> QED  BY <1>1, <1>3, <1>4 DEF Advances

\* The history of displayd only grows.
LEMMA LogGrows ==
    ASSUME Truthful, NEW at, Stamp(disp') = at, NEW f, log' = With(log, at, f),
           \/ disp'.epoch = disp.epoch /\ disp'.seq = disp.seq + 1
           \/ disp'.epoch = disp.epoch + 1 /\ disp'.seq = 0
    PROVE  DOMAIN log \subseteq DOMAIN log' /\ \A a \in DOMAIN log : log'[a] = log[a]
<1>1. disp \in [epoch : 1 .. MaxChanges + 1, seq : 0 .. MaxChanges, outs : Maps]  BY DEF Truthful, DispTyped
<1>2. disp.epoch \in Nat /\ disp.seq \in Nat  BY <1>1, StampFacts
<1>3. ~Le(at, Stamp(disp))  BY <1>2 DEF Le, Stamp
<1>4. at \notin DOMAIN log  BY <1>3 DEF Truthful, History
<1> QED  BY <1>4, HistoryGrows

\* Steps of displayd change nothing the clients follow.
LEMMA DisplayFollows ==
    ASSUME Truthful, ClientsFollow,
           Restart \/ \E kind \in {"add", "reconfigure", "remove", "reset"}, o \in Outputs, m \in Modes : Change(kind, o, m)
    PROVE  ClientsFollow'
<1>0. disp \in [epoch : 1 .. MaxChanges + 1, seq : 0 .. MaxChanges, outs : Maps]  BY DEF Truthful, DispTyped
<1>1. UNCHANGED <<reg, cl>>  BY DEF Restart, Change
<1>2. \E f : log' = With(log, Stamp(disp'), f)  BY DEF Restart, Change, Publish
<1>3. \/ disp'.epoch = disp.epoch /\ disp'.seq = disp.seq + 1
      \/ disp'.epoch = disp.epoch + 1 /\ disp'.seq = 0
  <2>1. CASE Restart  BY <2>1 DEF Restart
  <2>2. ASSUME NEW kind, NEW o, NEW m, Change(kind, o, m)  PROVE disp'.epoch = disp.epoch /\ disp'.seq = disp.seq + 1
    <3> DEFINE outs == CASE kind = "reset" -> Empty [] kind = "remove" -> Without(disp.outs, o)
                         [] OTHER -> With(disp.outs, o, m)
    <3>1. disp' = [epoch |-> disp.epoch, seq |-> disp.seq + 1, outs |-> outs]  BY <1>0, <2>2 DEF Change
    <3> HIDE DEF outs
    <3> QED  BY <3>1
  <2> QED  BY <2>1, <2>2
<1>4. DOMAIN log \subseteq DOMAIN log' /\ \A a \in DOMAIN log : log'[a] = log[a]  BY <1>2, <1>3, LogGrows
<1>5. \A at, outs : Exact(log, at, outs) => Exact(log', at, outs)  BY <1>4 DEF Exact
<1>6. \A k : Waits(reg, log, k) => Waits(reg, log', k)  BY <1>5 DEF Waits
<1>7. \A k : Tracks(reg, log, k) => Tracks(reg, log', k)  BY <1>6 DEF Tracks
<1> QED  BY <1>1, <1>7 DEF ClientsFollow

Follow == Truthful /\ Ordered /\ ClientsFollow

\* Every step keeps the clients in step with the registry.
LEMMA FollowStep == Follow /\ [Next]_vars => Follow'
<1> SUFFICES ASSUME Follow, [Next]_vars  PROVE Follow'  OBVIOUS
<1>0. Truthful /\ Ordered /\ ClientsFollow  BY DEF Follow
<1>1. Truthful'  BY <1>0, TruthfulStep
<1> SUFFICES Ordered' /\ ClientsFollow'  BY <1>1 DEF Follow
<1>2. CASE UNCHANGED vars
  BY <1>0, <1>2 DEF vars, Ordered, SnapshotsLast, AnswersFresh, ClientsFollow
<1>3. CASE Restart \/ \E kind \in {"add", "reconfigure", "remove", "reset"}, o \in Outputs, m \in Modes : Change(kind, o, m)
  <2>1. UNCHANGED <<queue, sup, fetches, reg>>  BY <1>3 DEF Restart, Change
  <2>2. Ordered'  BY <1>0, <2>1 DEF Ordered, SnapshotsLast, AnswersFresh
  <2> QED  BY <1>0, <1>3, <2>2, DisplayFollows
<1>4. CASE Reader
  <2>1. UNCHANGED <<reg, cl, log>>
    BY <1>4 DEF Reader, ReadDelta, MarkOverflow, ReadFails, Reconnect, ReconnectFails
  <2>2. ClientsFollow'  BY <1>0, <2>1 DEF ClientsFollow
  <2> QED  BY <1>0, <1>4, <2>2, ReaderOrdered
<1>5. CASE Supervise
  BY <1>0, <1>1, <1>5, SuperviseOrdered, SuperviseFollows
<1>6. CASE \E i \in DOMAIN fetches : Query(i) \/ QueryFails(i) \/ PostResult(i)
  <2>1. UNCHANGED <<reg, cl, log>>  BY <1>6 DEF Query, QueryFails, PostResult
  <2>2. ClientsFollow'  BY <1>0, <2>1 DEF ClientsFollow
  <2> QED  BY <1>0, <1>6, <2>2, QueryOrdered
<1>7. CASE \E c \in Clients : Register(c) \/ ClientStep(c) \/ GetRegistry(c) \/ Disconnect(c)
  <2>1. UNCHANGED <<queue, sup, fetches, reg>>
    BY <1>7 DEF Register, ClientStep, SendInitial, TakeCommand, Flush, Reconcile, GetRegistry, Disconnect, clientOnly
  <2>2. Ordered'  BY <1>0, <2>1 DEF Ordered, SnapshotsLast, AnswersFresh
  <2> QED  BY <1>0, <1>7, <2>2, ClientFollows
<1> QED  BY <1>2, <1>3, <1>4, <1>5, <1>6, <1>7 DEF Next

\* A client that has handled its commands uses the registry's outputs and has been
\* offered what its core holds, whatever was broadcast while it was being listed, was
\* behind or had its queue full (broadcast_client_command, apply_client_command,
\* reconcile_client_topology); only overtaken initial outputs may be missing.
THEOREM ClientInSyncHolds == Spec => []ClientInSync
<1>1. Follow => ClientInSync
  <2> SUFFICES ASSUME Follow, NEW c \in Clients, cl[c].pc = "running", ~cl[c].resync, cl[c].q = <<>>
               PROVE  /\ ModesOf(cl[c].live) = ModesOf(reg.proj)
                      /\ DOMAIN cl[c].core \subseteq DOMAIN cl[c].live
                      /\ \A o \in DOMAIN cl[c].core : cl[c].core[o] = cl[c].live[o].mode
                      /\ ~cl[c].overtaken => DOMAIN cl[c].core = DOMAIN cl[c].live
                      /\ cl[c].bound => DOMAIN cl[c].core \subseteq cl[c].told
    BY DEF ClientInSync
  <2> DEFINE k == cl[c]
  <2>1. k \in ClientStates /\ Tracks(reg, log, k) /\ k.pc = "running" /\ ~k.resync /\ k.q = <<>>
    BY DEF Follow, Truthful, ClientsTyped, ClientsFollow, Alive
  <2> HIDE DEF k
  <2>2. PICK w \in Views : Run(ViewOf(k), k.q, w) /\ Settled(reg, w, k)  BY <2>1 DEF Tracks
  <2>3. w = ViewOf(k)  BY <2>1, <2>2, ViewFacts, RunNone
  <2>4. Fits(reg.proj, w) /\ (~k.overtaken => Full(w)) /\ w.live = k.live /\ w.core = k.core
    BY <2>1, <2>2, <2>3, ViewFacts DEF Settled
  <2>5. k.bound => DOMAIN k.core \subseteq k.told
    <3>1. k.unsent = <<>> /\ (k.bound => DOMAIN k.core \subseteq Offered(k)) /\ k.told \in SUBSET Outputs
      BY <2>1 DEF Tracks, ClientStates
    <3> QED  BY <3>1, OfferedEmpty DEF Offered
  <2> QED  BY <2>4, <2>5 DEF Fits, Full, k
<1>2. Init => Follow
  <2> SUFFICES ASSUME Init  PROVE Follow  OBVIOUS
  <2>1. Truthful  BY InitTrue
  <2>2. sup.st = "Streaming" /\ sup.buf = <<>> /\ reg.at = <<0, 0>> /\ queue = <<SnapshotInput(disp)>> /\ disp.epoch = 1
        /\ cl = [c \in Clients |-> NewClient]
    BY DEF Init
  <2>3. Ordered
    <3>1. DOMAIN queue = {1} /\ queue[1] = SnapshotInput(disp) /\ DOMAIN sup.buf = {}  BY <2>2
    <3>2. queue[1].at = Stamp(disp) /\ Stamp(disp)[1] = 1  BY <2>2, <3>1 DEF SnapshotInput, Stamp
    <3>3. Le(reg.at, queue[1].at)  BY <2>2, <3>2 DEF Le
    <3> QED  BY <2>2, <3>1, <3>3 DEF Ordered, SnapshotsLast, AnswersFresh
  <2>4. ClientsFollow  BY <2>2 DEF ClientsFollow, Alive, NewClient
  <2> QED  BY <2>1, <2>3, <2>4 DEF Follow
<1>3. Follow /\ [Next]_vars => Follow'  BY FollowStep
<1> QED  BY <1>1, <1>2, <1>3, PTL DEF Spec

-----------------------------------------------------------------------------
(* Registry: the surface registry and the restart of compd that reads it.  A *)
(* selection that is visible is saved, only dead owners of a selection are   *)
(* replaced, and a restarted compd rebuilds its scene from what is alive in  *)
(* the registry: for any clients, any registry to start with and any number  *)
(* of batches, crashes and failed writes.                                    *)

\* A scene as reconcile_scene_with_registry leaves it.
Built(scene, registry) ==
    /\ DOMAIN scene.surfaces \subseteq Active(registry)
    /\ \A s \in DOMAIN scene.surfaces : scene.surfaces[s].buffer = registry.rows[s].buffer
    /\ scene.focus \in Active(registry) \cup {NoSurface}
    /\ \A k \in SelectionSlots :
           scene.selection[k] = reconcile_selection_slot(registry.selection[k], scene.focus, registry)

\* The selection stands still from the moment the IPC thread copies the registry
\* until it publishes what compd made of that copy, and what it has saved by then
\* is what it publishes.
HandoffInv ==
    /\ ipc.step = "accepted" => ipc.copy.selection = global.selection
    /\ compd.step = "handoff" => compd.seen.selection = global.selection
    /\ compd.step \in {"handoff", "commit"} => Built(compd.scene, compd.seen)
    /\ ipc.step = "saved" =>
           /\ ipc.candidate.selection = artifact.selection
           /\ \A k \in SelectionSlots :
                  /\ ipc.candidate.selection[k].owner \in Active(ipc.candidate) \cup {NoSurface}
                  /\ validate_selection_metadata(ipc.candidate.selection[k])
    /\ ipc.step = "saved" /\ compd.step = "handoff" =>
           ipc.candidate.selection = compd.scene.selection

RegistryInv ==
    /\ RegistryTypeOK
    /\ DOMAIN ipc = {"step", "copy", "candidate"} /\ DOMAIN compd = {"step", "scene", "seen"}
    /\ SelectionIsSaved
    /\ HandoffInv

\* A payload and its serial are on record together.
Paired(registry) == \A k \in SelectionSlots : registry.selection[k].payload <=> registry.selection[k].serial
PairedInv ==
    /\ Paired(global) /\ Paired(compd.seen)
    /\ ipc.step = "accepted" => Paired(ipc.copy)
    /\ ipc.step = "saved" => Paired(ipc.candidate)

\* The registry waylandd starts with has them paired.  mock_surface_registry and
\* examples/minimal-scene/surface-registry.json do; load_surface_registry does not
\* look.
LoadedIsPaired == Paired(Loaded)

-----------------------------------------------------------------------------
(* Registries and scenes *)

LEMMA RegistryParts ==
    ASSUME NEW registry, IsRegistry(registry)
    PROVE  /\ registry.generation \in Nat /\ DOMAIN registry.rows \subseteq Surfaces
           /\ \A s \in DOMAIN registry.rows : registry.rows[s] \in Rows
           /\ \A k \in SelectionSlots : registry.selection[k] \in SlotStates
           /\ Active(registry) \subseteq DOMAIN registry.rows /\ Active(registry) \subseteq Surfaces
           /\ NoSurface \notin Active(registry)
BY ConstantsAssumption DEF IsRegistry, IsPartial, Active

LEMMA SceneParts ==
    ASSUME NEW scene, IsScene(scene)
    PROVE  /\ DOMAIN scene.surfaces \subseteq Surfaces
           /\ \A s \in DOMAIN scene.surfaces : scene.surfaces[s] \in Placed
           /\ scene.focus \in Surfaces \cup {NoSurface}
BY DEF IsScene, IsPartial

LEMMA LayoutFacts ==
    ASSUME NEW p \in Placed, NEW r
    PROVE  /\ apply_role_based_layout(p, r) \in Placed
           /\ apply_role_based_layout(p, r).buffer = p.buffer
<1>1. Max({p.z, 30}) \in Nat
    <2>1. p.z \in Nat
        BY DEF Placed
    <2>2. \E x \in {p.z, 30} : \A y \in {p.z, 30} : x >= y
        BY <2>1
    <2>3. Max({p.z, 30}) \in {p.z, 30}
        BY <2>2 DEF Max
    <2> QED BY <2>1, <2>3
<1> QED BY <1>1 DEF apply_role_based_layout, Placed

LEMMA KeptFacts ==
    ASSUME NEW scene, NEW registry, IsScene(scene), IsRegistry(registry)
    PROVE  /\ DOMAIN Kept(scene, registry) \subseteq Active(registry)
           /\ \A s \in DOMAIN Kept(scene, registry) :
                  /\ Kept(scene, registry)[s] \in Placed
                  /\ Kept(scene, registry)[s].buffer = registry.rows[s].buffer
<1>1. DOMAIN Kept(scene, registry) = DOMAIN scene.surfaces \cap Active(registry)
    BY DEF Kept
<1>2. ASSUME NEW s \in DOMAIN scene.surfaces \cap Active(registry)
      PROVE  /\ Kept(scene, registry)[s] \in Placed
             /\ Kept(scene, registry)[s].buffer = registry.rows[s].buffer
    <2>1. scene.surfaces[s] \in Placed /\ registry.rows[s].buffer \in Nat
        BY RegistryParts, SceneParts DEF Rows
    <2> DEFINE b == scene.surfaces[s].pixels /\ scene.surfaces[s].buffer = registry.rows[s].buffer
    <2>2. b \in BOOLEAN
        OBVIOUS
    <2>3. Kept(scene, registry)[s] = [scene.surfaces[s] EXCEPT !.buffer = registry.rows[s].buffer, !.pixels = b]
        BY DEF Kept
    <2> HIDE DEF b
    <2> QED BY <2>1, <2>2, <2>3 DEF Placed
<1> QED BY <1>1, <1>2

\* reconcile_focus gives the focus to something active, or to nobody.
LEMMA FocusFacts ==
    ASSUME NEW scene, NEW kept, NEW registry, NEW f \in reconcile_focus(scene, kept, registry)
    PROVE  f \in Active(registry) \cup {NoSurface}
BY DEF reconcile_focus, fallback_focus_target, Focusable

LEMMA SlotFacts ==
    ASSUME NEW registry, IsRegistry(registry), NEW slot \in SlotStates, NEW f \in Active(registry) \cup {NoSurface}
    PROVE  LET new == reconcile_selection_slot(slot, f, registry)
           IN  /\ new \in SlotStates
               /\ new.owner \in Active(registry) \cup {NoSurface}
               /\ (slot.payload <=> slot.serial) => validate_selection_metadata(new)
               /\ new.owner # slot.owner =>
                      slot.owner \notin Active(registry) /\ ~new.payload /\ ~new.serial
<1> DEFINE new == reconcile_selection_slot(slot, f, registry)
           g == IF f \in Focusable(registry) THEN f ELSE NoSurface
<1>1. Active(registry) \subseteq Surfaces /\ NoSurface \notin Active(registry)
    BY RegistryParts
<1>2. g \in Active(registry) \cup {NoSurface}
    BY DEF Focusable
<1>3. CASE slot.owner \in Active(registry)
    <2>1. new = slot
        BY <1>3 DEF reconcile_selection_slot
    <2> QED BY <1>1, <1>3, <2>1 DEF SlotStates, validate_selection_metadata
<1>4. CASE slot.owner # NoSurface /\ slot.owner \notin Active(registry)
    <2>1. new = [owner |-> g, payload |-> FALSE, serial |-> FALSE]
        BY <1>4 DEF reconcile_selection_slot, NoOwner
    <2> HIDE DEF g
    <2> QED BY <1>1, <1>2, <1>4, <2>1 DEF SlotStates, validate_selection_metadata
<1>5. CASE slot.owner = NoSurface
    <2>1. new = [owner |-> NoSurface, payload |-> FALSE, serial |-> FALSE]
        BY <1>1, <1>5 DEF reconcile_selection_slot, NoOwner
    <2> QED BY <1>1, <1>5, <2>1 DEF SlotStates, validate_selection_metadata
<1> QED BY <1>3, <1>4, <1>5

\* Whatever scene displayd had kept, what compd makes of it is a scene of what the
\* registry has alive.
LEMMA ReconcileBuilds ==
    ASSUME NEW scene, NEW registry, IsScene(scene), IsRegistry(registry),
           NEW out \in reconcile_scene_with_registry(scene, registry)
    PROVE  IsScene(out) /\ Built(out, registry)
<1> DEFINE kept == Kept(scene, registry)
           laid == [s \in DOMAIN kept |-> apply_role_based_layout(kept[s], registry.rows[s].role)]
<1>1. PICK f \in reconcile_focus(scene, kept, registry) :
          out = [surfaces |-> laid, focus |-> f,
                 selection |-> [k \in SelectionSlots |-> reconcile_selection_slot(registry.selection[k], f, registry)]]
    BY DEF reconcile_scene_with_registry
<1>2. f \in Active(registry) \cup {NoSurface}
    BY FocusFacts
<1>3. Active(registry) \subseteq Surfaces
    BY RegistryParts
<1>4. /\ DOMAIN laid = DOMAIN kept /\ DOMAIN kept \subseteq Active(registry)
      /\ \A s \in DOMAIN kept : laid[s] \in Placed /\ laid[s].buffer = registry.rows[s].buffer
    BY KeptFacts, LayoutFacts
<1> HIDE DEF laid, kept
<1>5. \A k \in SelectionSlots : out.selection[k] \in SlotStates
    BY <1>1, <1>2, RegistryParts, SlotFacts
<1>6. out.selection \in [SelectionSlots -> SlotStates]
    BY <1>1, <1>5
<1>7. IsScene(out)
    BY <1>1, <1>2, <1>3, <1>4, <1>6 DEF IsScene, IsPartial
<1>8. Built(out, registry)
    BY <1>1, <1>2, <1>4 DEF Built
<1> QED BY <1>7, <1>8

-----------------------------------------------------------------------------
(* Steps *)

LEMMA InitRegistry == RegistryInit => RegistryInv
<1> SUFFICES ASSUME RegistryInit PROVE RegistryInv
    OBVIOUS
<1>1. RegistryTypeOK
    BY ConstantsAssumption DEF RegistryInit, RegistryTypeOK, Blank, Roles, Idle, Down
<1>2. SelectionIsSaved /\ HandoffInv
    BY DEF RegistryInit, SelectionIsSaved, HandoffInv, Idle, Down
<1> QED BY <1>1, <1>2 DEF RegistryInv, RegistryInit, Idle, Down

\* A scene waylandd forwards shows surfaces of its clients only.
LEMMA CanonicalFacts ==
    ASSUME NEW cores \in [SurfaceClients -> [role : Roles, buffer : 0 .. MaxBatches]], NEW live \in SUBSET SurfaceClients
    PROVE  IsScene(CanonicalScene(cores, live))
<1> DEFINE D == {SurfaceOf[c] : c \in {d \in live : cores[d].buffer # 0}}
           b(s) == cores[CHOOSE d \in live : SurfaceOf[d] = s].buffer
<1>1. ASSUME NEW s \in D PROVE b(s) \in Nat
    <2>1. \E d \in live : SurfaceOf[d] = s
        OBVIOUS
    <2>2. (CHOOSE d \in live : SurfaceOf[d] = s) \in live
        BY <2>1
    <2> QED BY <2>2, ConstantsAssumption
<1>2. D \subseteq Surfaces
    BY DEF Surfaces
<1>3. CanonicalScene(cores, live).surfaces =
          [s \in D |-> [z |-> 10, visible |-> TRUE, buffer |-> b(s), pixels |-> TRUE]]
    BY DEF CanonicalScene
<1>4. NoSelection \in [SelectionSlots -> SlotStates]
    BY DEF NoSelection, NoOwner, SlotStates
<1>5. /\ DOMAIN CanonicalScene(cores, live) = {"surfaces", "focus", "selection"}
      /\ CanonicalScene(cores, live).focus = NoSurface
      /\ CanonicalScene(cores, live).selection = NoSelection
    BY DEF CanonicalScene
<1> HIDE DEF D, b
<1>6. IsPartial(CanonicalScene(cores, live).surfaces, Surfaces, Placed)
    BY <1>1, <1>2, <1>3 DEF IsPartial, Placed
<1> QED BY <1>4, <1>5, <1>6 DEF IsScene

\* Rows change, the selection does not.
LEMMA RowsChange ==
    ASSUME NEW registry, IsRegistry(registry), NEW rows, IsPartial(rows, Surfaces, Rows)
    PROVE  LET new == [registry EXCEPT !.rows = rows, !.generation = @ + 1]
           IN  IsRegistry(new) /\ new.selection = registry.selection
BY DEF IsRegistry

LEMMA ClientKeeps ==
    ASSUME RegistryInv, NEW c \in SurfaceClients, SurfaceStep(c)
    PROVE  RegistryInv' /\ global'.selection = global.selection
           /\ UNCHANGED <<artifact, ipc, compd>>
<1> USE DEF RegistryInv
<1>1. UNCHANGED <<artifact, ipc, compd, crashes, saveFaults>>
    BY DEF SurfaceStep, Connect, Batch, sync_core_to_global_registry, ClientExits
<1>2. IsRegistry(global) /\ IsPartial(global.rows, Surfaces, Rows)
    BY DEF RegistryTypeOK, IsRegistry
<1>3. IsRegistry(global') /\ global'.selection = global.selection
    <2>1. CASE sync_core_to_global_registry(c)
        <3> DEFINE row == [role |-> committed[c].role, active |-> committed[c].buffer # 0, buffer |-> committed[c].buffer]
                   rows == WithRow(global.rows, SurfaceOf[c], row)
        <3>1. row \in Rows
            <4>1. committed[c].role \in Roles /\ committed[c].buffer \in Nat
                BY ConstantsAssumption DEF RegistryTypeOK
            <4>2. (committed[c].buffer # 0) \in BOOLEAN
                OBVIOUS
            <4> QED BY <4>1, <4>2 DEF Rows
        <3> HIDE DEF row
        <3>2. IsPartial(rows, Surfaces, Rows)
            BY <1>2, <3>1 DEF IsPartial, WithRow, Surfaces
        <3>3. global' = [global EXCEPT !.rows = rows, !.generation = @ + 1]
            BY <2>1 DEF sync_core_to_global_registry, row
        <3> HIDE DEF rows
        <3>4. LET new == [global EXCEPT !.rows = rows, !.generation = @ + 1]
              IN  IsRegistry(new) /\ new.selection = global.selection
            BY <1>2, <3>2, RowsChange
        <3> QED BY <3>3, <3>4
    <2>2. CASE ClientExits(c)
        <3> DEFINE rows == WithoutRow(global.rows, {SurfaceOf[c]})
        <3>1. IsPartial(rows, Surfaces, Rows)
            BY <1>2 DEF IsPartial, WithoutRow
        <3>2. global' = global \/ global' = [global EXCEPT !.rows = rows, !.generation = @ + 1]
            BY <2>2 DEF ClientExits
        <3> HIDE DEF rows
        <3>3. LET new == [global EXCEPT !.rows = rows, !.generation = @ + 1]
              IN  IsRegistry(new) /\ new.selection = global.selection
            BY <1>2, <3>1, RowsChange
        <3> QED BY <1>2, <3>2, <3>3
    <2>3. CASE Connect(c) \/ Batch(c)
        BY <1>2, <2>3 DEF Connect, Batch
    <2> QED BY <2>1, <2>2, <2>3 DEF SurfaceStep
<1>4. /\ committed' \in [SurfaceClients -> [role : Roles, buffer : 0 .. MaxBatches]]
      /\ batches' \in 0 .. MaxBatches
    <2>1. CASE Batch(c)
        <3>1. batches' = batches + 1 /\ batches + 1 \in 0 .. MaxBatches /\ 0 \in 0 .. MaxBatches
            BY <2>1, ConstantsAssumption DEF Batch, RegistryTypeOK
        <3>2. PICK r \in {"Toplevel", "Layer"}, b \in {0, batches + 1} :
                  committed' = [committed EXCEPT ![c] = [role |-> r, buffer |-> b]]
            BY <2>1 DEF Batch
        <3>3. [role |-> r, buffer |-> b] \in [role : Roles, buffer : 0 .. MaxBatches]
            BY <3>1 DEF Roles
        <3> QED BY <3>1, <3>2, <3>3 DEF RegistryTypeOK
    <2>2. CASE ~Batch(c)
        BY <2>2 DEF SurfaceStep, Connect, sync_core_to_global_registry, ClientExits, RegistryTypeOK
    <2> QED BY <2>1, <2>2
<1>5. IsScene(shown')
    <2>1. CASE Connect(c) \/ sync_core_to_global_registry(c)
        BY <2>1 DEF Connect, sync_core_to_global_registry, RegistryTypeOK
    <2>2. CASE Batch(c)
        BY <1>4, <2>2, CanonicalFacts DEF Batch, Forward, Live, RegistryTypeOK
    <2>3. CASE ClientExits(c)
        BY <1>4, <2>3, CanonicalFacts DEF ClientExits, Forward, Live, RegistryTypeOK
    <2> QED BY <2>1, <2>2, <2>3 DEF SurfaceStep
<1>6. /\ status' \in [SurfaceClients -> {"new", "live", "gone"}] /\ unsynced' \subseteq SurfaceClients
    BY DEF SurfaceStep, Connect, Batch, sync_core_to_global_registry, ClientExits, RegistryTypeOK
<1>7. RegistryTypeOK'
    BY <1>1, <1>3, <1>4, <1>5, <1>6 DEF RegistryTypeOK
<1>8. SelectionIsSaved' /\ HandoffInv'
    BY <1>1, <1>3 DEF SelectionIsSaved, HandoffInv
<1> QED BY <1>1, <1>3, <1>7, <1>8

LEMMA GetKeeps ==
    ASSUME RegistryInv, GetSurfaceRegistry
    PROVE  RegistryInv'
<1> USE DEF RegistryInv
<1>1. PICK scene \in reconcile_scene_with_registry(compd.scene, ipc.copy) :
          compd' = [step |-> "handoff", scene |-> scene, seen |-> ipc.copy]
    BY DEF GetSurfaceRegistry, reconcile_scene
<1>2. /\ ipc' = Idle /\ ipc.step = "accepted"
      /\ UNCHANGED <<global, artifact, status, committed, batches, unsynced, shown, crashes, saveFaults>>
    BY DEF GetSurfaceRegistry, clientVars
<1>3. IsScene(scene) /\ Built(scene, ipc.copy)
    BY ReconcileBuilds DEF RegistryTypeOK
<1>4. RegistryTypeOK'
    BY <1>1, <1>2, <1>3, ConstantsAssumption DEF RegistryTypeOK, Idle
<1>5. SelectionIsSaved'
    BY <1>2 DEF SelectionIsSaved, Idle
<1>6. HandoffInv'
    BY <1>1, <1>2, <1>3 DEF HandoffInv, Idle
<1> QED BY <1>1, <1>2, <1>4, <1>5, <1>6 DEF Idle

LEMMA ApplyKeeps ==
    ASSUME RegistryInv, ApplySelectionHandoff
    PROVE  RegistryInv'
<1> USE DEF RegistryInv
<1> DEFINE new == [ipc.copy EXCEPT !.selection = compd.scene.selection, !.generation = @ + 1]
<1>1. /\ ipc' = [ipc EXCEPT !.step = "saved", !.candidate = new] /\ ipc.step = "accepted"
      /\ validate_selection_handoff(compd.scene, ipc.copy)
      /\ UNCHANGED <<global, status, committed, batches, unsynced, compd, shown, crashes, saveFaults>>
    BY DEF ApplySelectionHandoff, clientVars
<1>2. /\ IsRegistry(new) /\ new.selection = compd.scene.selection /\ new.rows = ipc.copy.rows
    <2>1. IsRegistry(ipc.copy) /\ compd.scene.selection \in [SelectionSlots -> SlotStates]
        BY DEF RegistryTypeOK, IsScene
    <2> QED BY <2>1 DEF IsRegistry
<1>3. \A k \in SelectionSlots : /\ new.selection[k].owner \in Active(new) \cup {NoSurface}
                       /\ validate_selection_metadata(new.selection[k])
    BY <1>1, <1>2 DEF validate_selection_handoff, Active
<1> HIDE DEF new
<1>4. /\ DOMAIN ipc' = {"step", "copy", "candidate"}
      /\ ipc'.step = "saved" /\ ipc'.copy = ipc.copy /\ ipc'.candidate = new
    BY <1>1
<1>5. artifact' = new
    BY <1>4 DEF ApplySelectionHandoff
<1>6. RegistryTypeOK'
    BY <1>1, <1>2, <1>4, <1>5 DEF RegistryTypeOK
<1>7. SelectionIsSaved'
    BY <1>4 DEF SelectionIsSaved
<1>8. HandoffInv'
    BY <1>1, <1>2, <1>3, <1>4, <1>5 DEF HandoffInv
<1> QED BY <1>1, <1>4, <1>6, <1>7, <1>8

LEMMA PublishKeeps ==
    ASSUME RegistryInv, PublishCandidate
    PROVE  RegistryInv'
<1> USE DEF RegistryInv
<1>1. /\ ipc.step = "saved" /\ global' = ipc.candidate /\ ipc' = Idle
      /\ UNCHANGED <<artifact, status, committed, batches, unsynced, shown, crashes, saveFaults>>
    BY DEF PublishCandidate, clientVars
<1>2. \/ compd.step = "handoff" /\ compd' = [compd EXCEPT !.step = "commit"]
      \/ compd.step # "handoff" /\ compd' = compd
    BY DEF PublishCandidate, HandsOff, apply_selection_handoff
<1>3. /\ DOMAIN compd' = {"step", "scene", "seen"} /\ compd'.scene = compd.scene /\ compd'.seen = compd.seen
      /\ compd'.step = IF compd.step = "handoff" THEN "commit" ELSE compd.step
    BY <1>2
<1>4. RegistryTypeOK'
    BY <1>1, <1>3, ConstantsAssumption DEF RegistryTypeOK, Idle
<1>5. SelectionIsSaved'
    BY <1>1 DEF SelectionIsSaved, HandoffInv
<1>6. HandoffInv'
    BY <1>1, <1>3 DEF HandoffInv, Idle
<1> QED BY <1>1, <1>3, <1>4, <1>5, <1>6 DEF Idle

\* What neither changes a registry nor lets compd get on with its scene.
LEMMA OtherKeeps ==
    ASSUME RegistryInv,
           \/ Accept \/ RefuseHandoff \/ CompdStep \/ CrashCompd \/ SaveFails \/ UNCHANGED registryVars
    PROVE  RegistryInv'
<1> USE DEF RegistryInv
<1>1. CASE Accept
    <2>1. RegistryTypeOK'
        BY <1>1, ConstantsAssumption DEF Accept, RegistryTypeOK, Idle, clientVars
    <2>2. SelectionIsSaved' /\ HandoffInv'
        BY <1>1 DEF Accept, SelectionIsSaved, HandoffInv, Idle, Asks, HandsOff
    <2> QED BY <1>1, <2>1, <2>2 DEF Accept, Idle
<1>2. CASE RefuseHandoff
    <2>1. RegistryTypeOK'
        BY <1>2, ConstantsAssumption DEF RefuseHandoff, apply_selection_handoff, RegistryTypeOK, Idle, Down, clientVars
    <2>2. SelectionIsSaved' /\ HandoffInv'
        BY <1>2 DEF RefuseHandoff, apply_selection_handoff, SelectionIsSaved, HandoffInv, Idle, Down
    <2> QED BY <1>2, <2>1, <2>2 DEF RefuseHandoff, apply_selection_handoff, Idle, Down
<1>3. CASE query_scene_snapshot_from_displayd
    <2>1. RegistryTypeOK'
        BY <1>3, ConstantsAssumption DEF query_scene_snapshot_from_displayd, RegistryTypeOK, Down, clientVars
    <2>2. SelectionIsSaved' /\ HandoffInv'
        BY <1>3 DEF query_scene_snapshot_from_displayd, SelectionIsSaved, HandoffInv, Down
    <2> QED BY <1>3, <2>1, <2>2 DEF query_scene_snapshot_from_displayd, Down
<1>4. CASE CommitRebuilt
    <2>1. RegistryTypeOK'
        BY <1>4, ConstantsAssumption DEF CommitRebuilt, RegistryTypeOK, Down, clientVars
    <2>2. SelectionIsSaved' /\ HandoffInv'
        BY <1>4 DEF CommitRebuilt, SelectionIsSaved, HandoffInv, Down
    <2> QED BY <1>4, <2>1, <2>2 DEF CommitRebuilt, Down
<1>5. CASE CrashCompd
    <2>1. ipc' = Idle \/ ipc' = ipc
        BY <1>5 DEF CrashCompd
    <2>2. RegistryTypeOK'
        BY <1>5, <2>1, ConstantsAssumption DEF CrashCompd, RegistryTypeOK, Down, Idle, clientVars
    <2>3. SelectionIsSaved' /\ HandoffInv'
        BY <1>5 DEF CrashCompd, SelectionIsSaved, HandoffInv, Down, Idle
    <2> QED BY <1>5, <2>1, <2>2, <2>3 DEF CrashCompd, Down, Idle
<1>6. CASE SaveFails
    <2>1. status' \in [SurfaceClients -> {"new", "live", "gone"}]
        BY <1>6 DEF SaveFails, RegistryTypeOK
    <2>2. RegistryTypeOK'
        BY <1>6, <2>1, ConstantsAssumption DEF SaveFails, RegistryTypeOK, Down, Idle
    <2>3. SelectionIsSaved' /\ HandoffInv'
        BY <1>6 DEF SaveFails, SelectionIsSaved, HandoffInv, Down, Idle
    <2> QED BY <1>6, <2>2, <2>3 DEF SaveFails, Down, Idle
<1>7. CASE UNCHANGED registryVars
    BY <1>7 DEF registryVars, RegistryTypeOK, SelectionIsSaved, HandoffInv
<1> QED BY <1>1, <1>2, <1>3, <1>4, <1>5, <1>6, <1>7 DEF CompdStep

LEMMA StepKeepsRegistry == RegistryInv /\ [RegistryNext]_registryVars => RegistryInv'
BY ClientKeeps, GetKeeps, ApplyKeeps, PublishKeeps, OtherKeeps DEF RegistryNext, IpcStep

\* The inductive invariant of registry and compd holds throughout.
THEOREM RegistryInvariant == RegistrySpec => []RegistryInv
BY InitRegistry, StepKeepsRegistry, PTL DEF RegistrySpec

\* A selection other processes can see has been saved (handle_waylandd_ipc saves
\* the candidate before it publishes it).
THEOREM SelectionIsSavedHolds == RegistrySpec => []SelectionIsSaved
<1>1. RegistryInv => SelectionIsSaved
    BY DEF RegistryInv
<1> QED BY <1>1, RegistryInvariant, PTL

-----------------------------------------------------------------------------
(* Selections *)

\* docs/api-boundary.md: only the owner that compd was shown as dead is replaced,
\* nothing it had published goes to its successor, and a selection is published
\* with rows in which its owners are active.
THEOREM OnlyDeadOwnersReplacedHolds == RegistrySpec => OnlyDeadOwnersReplaced
<1> DEFINE P(k) ==
          /\ PublishCandidate /\ compd.step = "handoff"
                 /\ global'.selection[k].owner # global.selection[k].owner =>
                 /\ global.selection[k].owner \notin Active(compd.seen)
                 /\ ~global'.selection[k].payload /\ ~global'.selection[k].serial
          /\ global'.selection # global.selection /\ saveFaults' = saveFaults =>
                 /\ global'.selection[k].owner \in Active(global') \cup {NoSurface}
                 /\ validate_selection_metadata(global'.selection[k])
<1>1. ASSUME RegistryInv, RegistryNext, NEW k \in SelectionSlots PROVE P(k)
    <2> USE <1>1 DEF RegistryInv
    <2>1. CASE PublishCandidate
        <3>1. ipc.step = "saved" /\ global' = ipc.candidate
            BY <2>1 DEF PublishCandidate
        <3>2. /\ global'.selection[k].owner \in Active(global') \cup {NoSurface}
              /\ validate_selection_metadata(global'.selection[k])
            BY <3>1 DEF HandoffInv
        <3>3. ASSUME compd.step = "handoff", global'.selection[k].owner # global.selection[k].owner
              PROVE  /\ global.selection[k].owner \notin Active(compd.seen)
                     /\ ~global'.selection[k].payload /\ ~global'.selection[k].serial
            <4>1. global'.selection = compd.scene.selection /\ global.selection = compd.seen.selection
                BY <3>1, <3>3 DEF HandoffInv
            <4>2. /\ compd.scene.selection[k] =
                         reconcile_selection_slot(compd.seen.selection[k], compd.scene.focus, compd.seen)
                  /\ compd.scene.focus \in Active(compd.seen) \cup {NoSurface}
                BY <3>3 DEF HandoffInv, Built
            <4>3. IsRegistry(compd.seen) /\ compd.seen.selection[k] \in SlotStates
                BY RegistryParts DEF RegistryTypeOK
            <4> QED BY <3>3, <4>1, <4>2, <4>3, SlotFacts
        <3> QED BY <3>2, <3>3
    <2>2. CASE SaveFails
        <3>1. saveFaults' # saveFaults /\ ~PublishCandidate
            BY <2>2 DEF SaveFails, PublishCandidate, RegistryTypeOK
        <3> QED BY <3>1
    <2>3. CASE ~PublishCandidate /\ ~SaveFails
        <3>1. global'.selection = global.selection
            <4>1. ASSUME NEW c \in SurfaceClients, SurfaceStep(c) PROVE global'.selection = global.selection
                BY <4>1, ClientKeeps
            <4>2. CASE Accept \/ GetSurfaceRegistry \/ RefuseHandoff \/ ApplySelectionHandoff
                       \/ CompdStep \/ CrashCompd
                BY <4>2 DEF Accept, GetSurfaceRegistry, RefuseHandoff, ApplySelectionHandoff, CompdStep,
                   query_scene_snapshot_from_displayd, CommitRebuilt, CrashCompd
            <4> QED BY <2>3, <4>1, <4>2 DEF RegistryNext, IpcStep
        <3> QED BY <2>3, <3>1
    <2> QED BY <2>1, <2>2, <2>3
<1>2. ASSUME RegistryInv, [RegistryNext]_registryVars
      PROVE  [\A k \in SelectionSlots : P(k)]_registryVars
    BY <1>1, <1>2
<1>3. [\A k \in SelectionSlots : P(k)]_registryVars =>
          [\A k \in SelectionSlots :
              LET old == global.selection[k]
                  new == global'.selection[k]
              IN /\ PublishCandidate /\ compd.step = "handoff" /\ new.owner # old.owner =>
                       /\ old.owner \notin Active(compd.seen)
                       /\ ~new.payload /\ ~new.serial
                 /\ global'.selection # global.selection /\ saveFaults' = saveFaults =>
                       /\ new.owner \in Active(global') \cup {NoSurface}
                       /\ validate_selection_metadata(new)]_registryVars
    OBVIOUS
<1> HIDE DEF P
<1> QED BY <1>2, <1>3, RegistryInvariant, PTL DEF RegistrySpec, OnlyDeadOwnersReplaced

\* Payload and serial stay paired in what waylandd and compd pass to each other.
LEMMA PairedInit == LoadedIsPaired /\ RegistryInit => PairedInv
BY DEF LoadedIsPaired, PairedInv, RegistryInit, Idle, Down

LEMMA BuiltIsAcceptable ==
    ASSUME NEW scene, NEW registry, IsRegistry(registry), Built(scene, registry), Paired(registry)
    PROVE  validate_selection_handoff(scene, registry)
<1>1. scene.focus \in Active(registry) \cup {NoSurface}
    BY DEF Built
<1>2. ASSUME NEW k \in SelectionSlots
      PROVE  /\ scene.selection[k].owner \in Active(registry) \cup {NoSurface}
             /\ validate_selection_metadata(scene.selection[k])
    BY <1>1, RegistryParts, SlotFacts DEF Built, Paired
<1> QED BY <1>1, <1>2 DEF validate_selection_handoff

LEMMA StepKeepsPaired == LoadedIsPaired /\ RegistryInv /\ PairedInv /\ [RegistryNext]_registryVars => PairedInv'
<1> SUFFICES ASSUME LoadedIsPaired, RegistryInv, PairedInv, [RegistryNext]_registryVars PROVE PairedInv'
    OBVIOUS
<1> USE DEF RegistryInv, PairedInv
<1>1. ASSUME NEW c \in SurfaceClients, SurfaceStep(c) PROVE PairedInv'
    BY <1>1, ClientKeeps DEF Paired
<1>2. CASE Accept
    BY <1>2 DEF Accept, Idle
<1>3. CASE GetSurfaceRegistry
    BY <1>3 DEF GetSurfaceRegistry, reconcile_scene, Idle
<1>4. CASE RefuseHandoff
    BY <1>4 DEF RefuseHandoff, apply_selection_handoff, Idle, Down, LoadedIsPaired
<1>5. CASE ApplySelectionHandoff
    <2> DEFINE new == [ipc.copy EXCEPT !.selection = compd.scene.selection, !.generation = @ + 1]
    <2>1. /\ ipc' = [ipc EXCEPT !.step = "saved", !.candidate = new]
          /\ validate_selection_handoff(compd.scene, ipc.copy) /\ UNCHANGED <<global, compd>>
        BY <1>5 DEF ApplySelectionHandoff
    <2>2. new.selection = compd.scene.selection
        BY DEF RegistryTypeOK, IsRegistry
    <2> HIDE DEF new
    <2>3. ipc'.candidate = new /\ ipc'.step = "saved"
        BY <2>1
    <2>4. Paired(new)
        BY <2>1, <2>2 DEF Paired, validate_selection_handoff, validate_selection_metadata
    <2> QED BY <2>1, <2>3, <2>4
<1>6. CASE PublishCandidate
    <2>1. compd'.seen = compd.seen
        BY <1>6 DEF PublishCandidate, HandsOff, apply_selection_handoff
    <2> QED BY <1>6, <2>1 DEF PublishCandidate, Idle
<1>7. CASE CompdStep
    BY <1>7 DEF CompdStep, query_scene_snapshot_from_displayd, CommitRebuilt, Down, LoadedIsPaired
<1>8. CASE CrashCompd
    BY <1>8 DEF CrashCompd, Down, Idle, LoadedIsPaired
<1>9. CASE SaveFails
    BY <1>9 DEF SaveFails, Down, Idle, LoadedIsPaired
<1>10. CASE UNCHANGED registryVars
    BY <1>10 DEF registryVars
<1> QED BY <1>1, <1>2, <1>3, <1>4, <1>5, <1>6, <1>7, <1>8, <1>9, <1>10 DEF RegistryNext, IpcStep

\* A restarted compd rebuilds its scene from what is alive in the registry, and
\* what it proposes to waylandd is acceptable there, if the registry waylandd
\* started with had payloads and serials paired (reconcile_scene_with_registry).
THEOREM RebuiltFromTheLivingHolds == LoadedIsPaired /\ RegistrySpec => []RebuiltFromTheLiving
<1>1. RegistryInv /\ PairedInv => RebuiltFromTheLiving
    <2> SUFFICES ASSUME RegistryInv, PairedInv PROVE RebuiltFromTheLiving
        OBVIOUS
    <2>1. ProposalIsAcceptable
        BY BuiltIsAcceptable DEF RegistryInv, PairedInv, HandoffInv, RegistryTypeOK, ProposalIsAcceptable
    <2> QED BY <2>1 DEF RegistryInv, HandoffInv, Built, RebuiltFromTheLiving
<1>2. LoadedIsPaired /\ RegistrySpec => []PairedInv
    <2> SUFFICES ASSUME LoadedIsPaired PROVE RegistrySpec => []PairedInv
        OBVIOUS
    <2>1. RegistryInv /\ PairedInv /\ [RegistryNext]_registryVars => PairedInv'
        BY StepKeepsPaired
    <2>2. RegistryInit => PairedInv
        BY PairedInit
    <2> QED BY <2>1, <2>2, RegistryInvariant, PTL DEF RegistrySpec
<1> QED BY <1>1, <1>2, RegistryInvariant, PTL
=============================================================================
