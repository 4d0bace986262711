------------------------------ MODULE WireProofs ------------------------------
(* A client of Wire may send anything in any order, and waylandd's tables agree *)
(* with its registry and with each other; a client that follows the protocol is *)
(* served.  WireInv, below, is the inductive invariant; every request has a      *)
(* lemma that it keeps it.                                                       *)
EXTENDS Wire, FiniteSetTheorems, WellFoundedInduction, TLAPS

-----------------------------------------------------------------------------
(* Total sums over a set by choosing its elements one after the other.  It  *)
(* is a sum: defined on finite sets, whatever the order.                     *)

Pick(s) == CHOOSE x \in s : TRUE

\* g[s] is the sum of the values of f over s, for every part s of S.
IsTotal(g, f, S) ==
    g = [s \in SUBSET S |->
            IF s = {} THEN 0 ELSE f[Pick(s)] + g[s \ {Pick(s)}]]

LEMMA PickIsIn == \A s : s # {} => Pick(s) \in s
BY DEF Pick

LEMMA TotalIsTotal ==
    \A f, K : Total(f, K) = (CHOOSE g : IsTotal(g, f, K))[K]
BY DEF Total, FoldFunctionOnSet, MapThenFoldSet, IsTotal, Pick

\* Induction over the parts of a finite set: of the parts that are bad, if any,
\* one has no bad part of its own.
LEMMA SmallestBad ==
    ASSUME NEW S, IsFiniteSet(S), NEW Bad, Bad \subseteq SUBSET S, Bad # {}
    PROVE  \E T \in Bad : \A U \in SUBSET T : U # T => U \notin Bad
<1>1. IsWellFoundedOn(StrictSubsetOrdering(S), FiniteSubsetsOf(S))
  BY FS_StrictSubsetOrderingWellFounded
<1>2. FiniteSubsetsOf(S) = SUBSET S  BY FS_FiniteSubsetsOfFinite
<1>3. PICK T \in Bad : \A U \in Bad : ~(<<U, T>> \in StrictSubsetOrdering(S))
  BY <1>1, <1>2, WFMin
<1>4. ASSUME NEW U \in SUBSET T, U # T, U \in Bad  PROVE FALSE
  <2>1. <<U, T>> \in (SUBSET S) \X (SUBSET S)  BY <1>4
  <2>2. <<U, T>> \in StrictSubsetOrdering(S)  BY <2>1, <1>4 DEF StrictSubsetOrdering
  <2> QED  BY <1>3, <1>4, <2>2
<1> QED  BY <1>3, <1>4

\* Two sums over the parts of S and of T are the same where both are defined.
LEMMA SumIsUnique ==
    ASSUME NEW f, NEW S, NEW T, IsFiniteSet(S), NEW g, NEW h,
           IsTotal(g, f, S), IsTotal(h, f, T)
    PROVE  \A s \in SUBSET S : s \in SUBSET T => g[s] = h[s]
<1> DEFINE Bad == {s \in SUBSET S : s \in SUBSET T /\ g[s] # h[s]}
<1> SUFFICES ASSUME Bad # {}  PROVE FALSE  OBVIOUS
<1>0. Bad \subseteq SUBSET S  OBVIOUS
<1>1. PICK s \in Bad : \A U \in SUBSET s : U # s => U \notin Bad
  <2> HIDE DEF Bad
  <2> QED  BY <1>0, SmallestBad
<1> HIDE DEF Bad
<1>2. s \in SUBSET S /\ s \in SUBSET T /\ g[s] # h[s]  BY DEF Bad
<1>3. s # {}  BY <1>2 DEF IsTotal
<1> DEFINE r == s \ {Pick(s)}
<1>4. r \in SUBSET s /\ r # s  BY <1>3, PickIsIn
<1>5. g[r] = h[r]  BY <1>1, <1>2, <1>4 DEF Bad
<1>6. g[s] = f[Pick(s)] + g[r] /\ h[s] = f[Pick(s)] + h[r]  BY <1>2, <1>3 DEF IsTotal
<1> QED  BY <1>2, <1>5, <1>6

LEMMA SumExists ==
    ASSUME NEW f, NEW S, IsFiniteSet(S)
    PROVE  \A T \in SUBSET S : \E g : IsTotal(g, f, T)
<1> DEFINE Bad == {T \in SUBSET S : ~\E g : IsTotal(g, f, T)}
<1> SUFFICES ASSUME Bad # {}  PROVE FALSE  OBVIOUS
<1>0. Bad \subseteq SUBSET S  OBVIOUS
<1>1. PICK T \in Bad : \A U \in SUBSET T : U # T => U \notin Bad
  <2> HIDE DEF Bad
  <2> QED  BY <1>0, SmallestBad
<1> DEFINE sum(U) == CHOOSE g : IsTotal(g, f, U)
<1>2. \A U \in SUBSET T : U # T => IsTotal(sum(U), f, U)  BY <1>1
<1> DEFINE value(U) == IF U = {} THEN 0 ELSE f[Pick(U)] + sum(U \ {Pick(U)})[U \ {Pick(U)}]
           whole == [U \in SUBSET T |-> value(U)]
<1>3. ASSUME NEW U \in SUBSET T, U # {}
      PROVE  sum(U \ {Pick(U)})[U \ {Pick(U)}] = whole[U \ {Pick(U)}]
  <2> DEFINE V == U \ {Pick(U)}
             W == V \ {Pick(V)}
  <2>1. V \in SUBSET T /\ V # T  BY <1>3, PickIsIn
  <2>2. IsTotal(sum(V), f, V) /\ IsFiniteSet(V)  BY <2>1, <1>2, FS_Subset
  <2>3. CASE V = {}
    <3>1. sum(V)[V] = 0  BY <2>2, <2>3 DEF IsTotal
    <3> QED  BY <2>1, <2>3, <3>1
  <2>4. CASE V # {}
    <3>1. W \in SUBSET V /\ W # V /\ W \in SUBSET T /\ W # T  BY <2>1, <2>4, PickIsIn
    <3> HIDE DEF W
    <3>2. IsTotal(sum(W), f, W)  BY <3>1, <1>2
    <3> HIDE DEF sum, V
    <3>3. sum(V)[W] = sum(W)[W]  BY <2>2, <3>1, <3>2, SumIsUnique
    <3>4. sum(V)[V] = f[Pick(V)] + sum(V)[W]  BY <2>2, <2>4 DEF IsTotal, W
    <3>5. whole[V] = f[Pick(V)] + sum(W)[W]  BY <2>1, <2>4 DEF W
    <3>6. sum(V)[V] = whole[V]  BY <3>3, <3>4, <3>5
    <3> QED  BY <3>6 DEF V
  <2> QED  BY <2>3, <2>4
<1>4. IsTotal(whole, f, T)
  <2> HIDE DEF sum
  <2>1. \A U \in SUBSET T : value(U) =
            IF U = {} THEN 0 ELSE f[Pick(U)] + whole[U \ {Pick(U)}]  BY <1>3
  <2> HIDE DEF value
  <2> DEFINE right == [U \in SUBSET T |->
                 IF U = {} THEN 0 ELSE f[Pick(U)] + whole[U \ {Pick(U)}]]
  <2>2. whole = right  BY <2>1
  <2> QED  BY <2>2 DEF IsTotal
<1> QED  BY <1>1, <1>4

LEMMA TotalStep ==
    ASSUME NEW f, NEW K, IsFiniteSet(K)
    PROVE  /\ Total(f, {}) = 0
           /\ K # {} => Total(f, K) = f[Pick(K)] + Total(f, K \ {Pick(K)})
<1> DEFINE sum(U) == CHOOSE g : IsTotal(g, f, U)
<1>1. \A U \in SUBSET K : IsFiniteSet(U) /\ IsTotal(sum(U), f, U)
  BY SumExists, FS_Subset
<1>2. \A U : Total(f, U) = sum(U)[U]  BY TotalIsTotal
<1> HIDE DEF sum
<1>3. Total(f, {}) = 0  BY <1>1, <1>2 DEF IsTotal
<1>4. ASSUME K # {}  PROVE Total(f, K) = f[Pick(K)] + Total(f, K \ {Pick(K)})
  <2> DEFINE R == K \ {Pick(K)}
  <2>1. sum(K)[K] = f[Pick(K)] + sum(K)[R]  BY <1>1, <1>4 DEF IsTotal
  <2>2. sum(K)[R] = sum(R)[R]  BY <1>1, SumIsUnique
  <2> QED  BY <1>2, <2>1, <2>2
<1> QED  BY <1>3, <1>4

LEMMA TotalEmpty == \A f : Total(f, {}) = 0
BY TotalStep, FS_EmptySet

LEMMA TotalIsNat ==
    ASSUME NEW f, NEW S, IsFiniteSet(S), \A k \in S : f[k] \in Nat
    PROVE  Total(f, S) \in Nat
<1> DEFINE Bad == {K \in SUBSET S : Total(f, K) \notin Nat}
<1> SUFFICES ASSUME Bad # {}  PROVE FALSE  OBVIOUS
<1>0. Bad \subseteq SUBSET S  OBVIOUS
<1>1. PICK K \in Bad : \A U \in SUBSET K : U # K => U \notin Bad
  <2> HIDE DEF Bad
  <2> QED  BY <1>0, SmallestBad
<1>2. K \in SUBSET S /\ Total(f, K) \notin Nat /\ IsFiniteSet(K)  BY <1>1, FS_Subset
<1>3. K # {}  BY <1>2, TotalEmpty
<1> DEFINE R == K \ {Pick(K)}
<1>4. Pick(K) \in K /\ R \in SUBSET K /\ R # K /\ R \in SUBSET S  BY <1>2, <1>3, PickIsIn
<1>5. Total(f, R) \in Nat  BY <1>1, <1>4
<1>6. Total(f, K) = f[Pick(K)] + Total(f, R)  BY <1>2, <1>3, TotalStep
<1> QED  BY <1>2, <1>4, <1>5, <1>6

\* Only the values summed over count.
LEMMA TotalSame ==
    ASSUME NEW f, NEW g, NEW S, IsFiniteSet(S), \A k \in S : f[k] = g[k]
    PROVE  Total(f, S) = Total(g, S)
<1> DEFINE Bad == {K \in SUBSET S : Total(f, K) # Total(g, K)}
<1> SUFFICES ASSUME Bad # {}  PROVE FALSE  OBVIOUS
<1>0. Bad \subseteq SUBSET S  OBVIOUS
<1>1. PICK K \in Bad : \A U \in SUBSET K : U # K => U \notin Bad
  <2> HIDE DEF Bad
  <2> QED  BY <1>0, SmallestBad
<1>2. K \in SUBSET S /\ Total(f, K) # Total(g, K) /\ IsFiniteSet(K)  BY <1>1, FS_Subset
<1>3. K # {}  BY <1>2, TotalEmpty
<1> DEFINE R == K \ {Pick(K)}
<1>4. Pick(K) \in K /\ R \in SUBSET K /\ R # K /\ R \in SUBSET S  BY <1>2, <1>3, PickIsIn
<1>5. Total(f, R) = Total(g, R)  BY <1>1, <1>4
<1>6. /\ Total(f, K) = f[Pick(K)] + Total(f, R)
      /\ Total(g, K) = g[Pick(K)] + Total(g, R)
  BY <1>2, <1>3, TotalStep
<1> QED  BY <1>2, <1>4, <1>5, <1>6

\* The order in which the fold picks the elements does not matter.
LEMMA TotalRemove ==
    ASSUME NEW f, NEW S, IsFiniteSet(S), \A k \in S : f[k] \in Nat, NEW x \in S
    PROVE  Total(f, S) = f[x] + Total(f, S \ {x})
<1> DEFINE Bad == {K \in SUBSET S : \E k \in K : Total(f, K) # f[k] + Total(f, K \ {k})}
<1> SUFFICES ASSUME Bad # {}  PROVE FALSE  OBVIOUS
<1>0. Bad \subseteq SUBSET S  OBVIOUS
<1>1. PICK K \in Bad : \A U \in SUBSET K : U # K => U \notin Bad
  <2> HIDE DEF Bad
  <2> QED  BY <1>0, SmallestBad
<1>2. PICK k \in K : Total(f, K) # f[k] + Total(f, K \ {k})  BY <1>1
<1>3. \A U \in SUBSET K : IsFiniteSet(U) /\ Total(f, U) \in Nat  BY FS_Subset, TotalIsNat
<1> DEFINE p == Pick(K)
           R == K \ {p}
           Q == K \ {k}
<1>4. p \in K /\ Total(f, K) = f[p] + Total(f, R)  BY <1>3, PickIsIn, TotalStep
<1> HIDE DEF p
<1>5. p # k  BY <1>2, <1>4
<1>6. R \in SUBSET K /\ R # K /\ k \in R /\ Q \in SUBSET K /\ Q # K /\ p \in Q
      /\ R \ {k} = Q \ {p} /\ R \ {k} \in SUBSET K
  BY <1>4, <1>5
<1>7. Total(f, R) = f[k] + Total(f, R \ {k})  BY <1>1, <1>6
<1>8. Total(f, Q) = f[p] + Total(f, Q \ {p})  BY <1>1, <1>6
<1>9. f[k] \in Nat /\ f[p] \in Nat  BY <1>4
<1>10. Total(f, K) \in Nat /\ Total(f, R) \in Nat /\ Total(f, Q) \in Nat /\ Total(f, R \ {k}) \in Nat
  BY <1>3, <1>6
<1> HIDE DEF R, Q
<1>11. Total(f, K) # f[k] + Total(f, Q)  BY <1>2 DEF Q
<1>12. Total(f, R \ {k}) = Total(f, Q \ {p})  BY <1>6
<1> QED  BY <1>4, <1>7, <1>8, <1>9, <1>10, <1>11, <1>12

LEMMA TotalSplit ==
    ASSUME NEW f, NEW S, IsFiniteSet(S), \A k \in S : f[k] \in Nat, NEW V \in SUBSET S
    PROVE  Total(f, S) = Total(f, V) + Total(f, S \ V)
<1> DEFINE Bad == {K \in SUBSET V : Total(f, S) # Total(f, K) + Total(f, S \ K)}
<1> SUFFICES ASSUME Bad # {}  PROVE FALSE  OBVIOUS
<1>0. Bad \subseteq SUBSET S  OBVIOUS
<1>1. PICK K \in Bad : \A U \in SUBSET K : U # K => U \notin Bad
  <2> HIDE DEF Bad
  <2> QED  BY <1>0, SmallestBad
<1>2. \A U \in SUBSET S : IsFiniteSet(U) /\ Total(f, U) \in Nat  BY FS_Subset, TotalIsNat
<1>3. K # {}
  <2>1. SUFFICES ASSUME K = {}  PROVE FALSE  OBVIOUS
  <2>2. S \ K = S  BY <2>1
  <2>4. Total(f, S \ K) = Total(f, S)  BY <2>2
  <2>5. Total(f, K) = 0 /\ Total(f, S) \in Nat
    BY <2>1, <1>2, TotalEmpty
  <2>3. Total(f, S) # Total(f, K) + Total(f, S \ K)  BY <1>1
  <2> QED  BY <2>3, <2>4, <2>5
<1> DEFINE p == Pick(K)
           R == K \ {p}
<1>4. p \in K /\ p \in S /\ R \in SUBSET K /\ R # K  BY <1>3, PickIsIn
<1>5. Total(f, S) = Total(f, R) + Total(f, S \ R)  BY <1>1, <1>4
<1>6. Total(f, K) = f[p] + Total(f, R)  BY <1>2, <1>4, TotalRemove
<1>7. Total(f, S \ R) = f[p] + Total(f, S \ K)
  <2>1. S \ R \in SUBSET S /\ p \in S \ R /\ (S \ R) \ {p} = S \ K  BY <1>1, <1>4
  <2> HIDE DEF R, p
  <2> QED  BY <1>2, <2>1, TotalRemove
<1>8. f[p] \in Nat /\ Total(f, R) \in Nat /\ Total(f, S \ K) \in Nat
  BY <1>1, <1>2, <1>4
<1>9. Total(f, S) # Total(f, K) + Total(f, S \ K)  BY <1>1
<1> QED  BY <1>5, <1>6, <1>7, <1>8, <1>9

-----------------------------------------------------------------------------
(* The invariant *)

(* What the connection loop holds is still an object of its own interface.   *)
Base(k) ==
  IF k = "held_callback" THEN "wl_callback"
  ELSE IF k = "held_feedback" THEN "wp_presentation_feedback" ELSE k

(* Kinds whose objects always have a row.                                     *)
Certain == Exact \cup Lingering

Rows(tab, K) == {r \in tab : r.k \in K}

IsRow(r) == r.k \in Kinds /\ r.id \in Ids /\ r = Row(r.k, r.id, r.of, r.at)

Interfaces == Kinds \ {"entered"}

(* The registry and the rows: a row has its object, unless it outlives it;    *)
(* no id has two rows of one interface; an object of a certain kind has one.  *)
Registered(obj, tab) ==
  /\ obj \in [Ids -> Interfaces \cup {None}]
  /\ \A r \in tab : IsRow(r)
  /\ \A r \in tab : r.k \notin Lingering => obj[r.id] = Base(r.k)
  /\ \A r, q \in tab : r.id = q.id /\ Base(r.k) = Base(q.k) => r = q
  /\ \A i \in Ids : obj[i] \in Certain => \E r \in tab : r.k = obj[i] /\ r.id = i

(* What is selected is a source with a row, dead or alive.                    *)
Selected(tab, selection) ==
  selection # None =>
    selection \in Ids /\ \E r \in tab : r.k = "wl_data_source" /\ r.id = selection

(* T are the rows of the constraints: one for each blocked pair.              *)
Paired(T, pairs) ==
  /\ pairs \subseteq Ids \X Ids
  /\ pairs = {<<r.of, r.at>> : r \in T}
  /\ \A r, q \in T : <<r.of, r.at>> = <<q.of, q.at>> => r = q

(* T are the rows of the inhibitors, counted by surface.                      *)
Counted(T, counts, inhibited) ==
  /\ \A r \in T : r.of \in Ids
  /\ inhibited = (T # {})
  /\ counts = [s \in Ids |-> Cardinality({r \in T : r.of = s})]

(* T are the rows of pools and buffers.  A backing has one pool, which knows  *)
(* its size, and may outlive it in its buffers, which lie inside it; what the *)
(* server pays for stays in budget.                                           *)
PoolRows(T) == {r \in T : r.k = "wl_shm_pool"}
HeldBackings(T) == {r.of : r \in T}

Backed(T, store, fake) ==
  /\ store \in [Ids -> Nat]
  /\ \A r \in T : r.of \in Ids /\ r.at \in Nat
  /\ \A r, q \in PoolRows(T) : r.of = q.of => r = q
  /\ \A r \in T : r.of \in fake => r.at <= store[r.of]
  /\ \A r \in PoolRows(T) : r.of \in fake => r.at = store[r.of]
  /\ Total(store, HeldBackings(T) \cap fake) <= MaxTotal

(* T are the rows of bound outputs: a committed surface covers advertised     *)
(* outputs and is a member of bindings of those.                              *)
Covered(T, obj, over, adv, member) ==
  /\ DOMAIN over = Ids
  /\ member \in [Ids -> SUBSET Ids]
  /\ \A s \in Ids : over[s] # None =>
       /\ obj[s] = "wl_surface"
       /\ over[s] \subseteq adv
       /\ \A o \in member[s] : \E r \in T : r.id = o /\ r.of \in over[s]

ShmKinds == {"wl_shm_pool", "wl_buffer"}
Inhibitor == {"zwp_idle_inhibitor_v1"}

(* What holds of the server's state whatever the client does.                 *)
Good(c) ==
  /\ DOMAIN c = DOMAIN Blank
  /\ Registered(c.obj, c.tab)
  /\ Selected(c.tab, c.selection)
  /\ c.role \in [Ids -> {None, "xdg_surface", "layer_surface"}]
  /\ Paired(Rows(c.tab, Constraints), c.pairs)
  /\ Counted(Rows(c.tab, Inhibitor), c.counts, c.inhibited)
  /\ Backed(Rows(c.tab, ShmKinds), c.store, c.fake)
  /\ Covered(Rows(c.tab, {"wl_output"}), c.obj, c.over, c.adv, c.member)

(* What an orderly client's own list m says of the server's rows.  Of these   *)
(* kinds it knows that the row is there, what it refers to, and its state.    *)
NeedsRow == {"zwlr_layer_surface_v1", "zwp_relative_pointer_v1"} \cup Constraints
OfMatched == NeedsRow \cup
  {"zxdg_output_v1", "xdg_surface", "wl_subsurface", "wp_viewport", "wp_fractional_scale_v1",
   "zxdg_toplevel_decoration_v1", "zwlr_output_configuration_head_v1"}
AtMatched == Constraints \cup {"zwlr_output_configuration_head_v1", "wl_shm_pool"}

(* It knows every object it has, by its interface, and no other.              *)
Named(obj, m) ==
  /\ \A q \in m : IsRow(q) /\ (q.k # "entered" => obj[q.id] = q.k)
  /\ \A i \in Ids : obj[i] # None => \E q \in m : q.id = i /\ q.k = obj[i] /\ q.k # "entered"

(* Its rows say what the server's rows of the same key say.                   *)
Matched(tab, m) ==
  /\ \A q \in m : q.k \in NeedsRow => \E r \in tab : r.k = q.k /\ r.id = q.id
  /\ \A q \in m : \A r \in tab : q.k = r.k /\ q.id = r.id =>
       /\ q.k \in OfMatched => q.of = r.of
       /\ q.k \in AtMatched => q.at = r.at

(* A toplevel's xdg_surface is there and configured.                          *)
Toplevels(tab, m) ==
  \A q \in m : q.k = "xdg_toplevel" =>
    \E r \in tab : r.k = "xdg_surface" /\ r.id = q.of /\ r.at = "configured"

(* The surface it last saw a pointer enter is the one the server has.         *)
Focused(tab, m) ==
  \A q \in m : q.k = "entered" =>
    \E r \in tab : r.k = "wl_pointer" /\ r.id = q.id /\ r.of = q.of

RoleKeepers == {"xdg_surface", "zwlr_layer_surface_v1"}
RoleOf(k) == IF k = "xdg_surface" THEN "xdg_surface" ELSE "layer_surface"

(* T are the rows of role objects: each has its surface to itself and its     *)
(* role is recorded, and no other role is.                                    *)
Roled(T, role) ==
  /\ \A s \in Ids : role[s] # None => \E r \in T : r.of = s
  /\ \A r \in T : r.of \in Ids /\ role[r.of] = RoleOf(r.k)
  /\ \A r, q \in T : r.of = q.of => r = q

Knows(obj, tab, m) ==
  Named(obj, m) /\ Matched(tab, m) /\ Toplevels(tab, m) /\ Focused(tab, m)

Owns(c, m) ==
  Knows(c.obj, c.tab, m) /\ Roled(Rows(c.tab, RoleKeepers), c.role)

(* The invariant: any client leaves the tables in order, and an orderly one,  *)
(* whose list is what the server has, is never refused.                       *)
WireInv ==
  /\ [orderly |-> orderly, globals |-> bound] \in Clients
  /\ gone \in {"no", "request", "release", "input"}
  /\ Good(core)
  /\ orderly => gone \notin {"request", "release"} /\ Owns(core, mine)
  /\ ~orderly => mine = {}

-----------------------------------------------------------------------------
LEMMA TotalPart ==
    ASSUME NEW f, NEW S, IsFiniteSet(S), \A k \in S : f[k] \in Nat, NEW V \in SUBSET S
    PROVE  Total(f, V) \in Nat /\ Total(f, V) <= Total(f, S)
<1>1. IsFiniteSet(V) /\ IsFiniteSet(S \ V)  BY FS_Subset
<1>2. Total(f, V) \in Nat /\ Total(f, S \ V) \in Nat  BY <1>1, TotalIsNat
<1>3. Total(f, S) = Total(f, V) + Total(f, S \ V)  BY TotalSplit
<1> QED  BY <1>2, <1>3

LEMMA TotalChange ==
    ASSUME NEW f, NEW g, NEW S, IsFiniteSet(S), NEW x \in S,
           \A k \in S : f[k] \in Nat /\ g[k] \in Nat,
           \A k \in S \ {x} : g[k] = f[k]
    PROVE  Total(g, S) = Total(f, S) - f[x] + g[x]
<1>1. Total(f, S) = f[x] + Total(f, S \ {x})  BY TotalRemove
<1>2. Total(g, S) = g[x] + Total(g, S \ {x})  BY TotalRemove
<1>3. IsFiniteSet(S \ {x})  BY FS_Subset
<1>4. Total(f, S \ {x}) = Total(g, S \ {x})  BY <1>3, TotalSame
<1>5. Total(f, S \ {x}) \in Nat /\ f[x] \in Nat /\ g[x] \in Nat  BY <1>3, TotalIsNat
<1> QED  BY <1>1, <1>2, <1>4, <1>5

LEMMA BaseIsKind == \A k \in Kinds : Base(k) \in Kinds
BY DEF Base, Kinds, Exact, Cascaded, Lingering, Constraints

LEMMA BaseIsInterface ==
    ASSUME NEW k \in Kinds  PROVE Base(k) # None /\ (Base(k) \in Certain => Base(k) = k)
BY BaseIsKind, NoneAssumption DEF Base, Certain, Exact, Lingering, Constraints

LEMMA RegisterRow ==
    ASSUME NEW obj, NEW tab, Registered(obj, tab), NEW r, IsRow(r), Base(r.k) = r.k,
           r.k # "entered", obj[r.id] = None
    PROVE  Registered([obj EXCEPT ![r.id] = r.k],
                      {q \in tab : ~(q.k = r.k /\ q.id = r.id)} \cup {r})
<1> DEFINE o == [obj EXCEPT ![r.id] = r.k]
           t == {q \in tab : ~(q.k = r.k /\ q.id = r.id)} \cup {r}
<1>0. r.id \in Ids /\ r.k \in Interfaces  BY DEF IsRow, Interfaces
<1>1. o \in [Ids -> Interfaces \cup {None}] /\ o[r.id] = r.k /\ \A i \in Ids \ {r.id} : o[i] = obj[i]
  BY <1>0 DEF Registered
<1>2. \A q \in t : IsRow(q)  BY DEF Registered
<1>3. \A q \in tab : q.id = r.id => q.k \in Lingering
  BY BaseIsInterface DEF Registered, IsRow
<1>4. \A q \in tab : q.id = r.id /\ Base(q.k) = r.k => q.k = r.k
  BY <1>3 DEF Base, Lingering
<1> HIDE DEF o
<1>5. \A q \in t : q.k \notin Lingering => o[q.id] = Base(q.k)
  <2> SUFFICES ASSUME NEW q \in t, q.k \notin Lingering  PROVE o[q.id] = Base(q.k)
    OBVIOUS
  <2>1. CASE q = r  BY <2>1, <1>1
  <2>2. CASE q \in tab
    <3>1. q.id \in Ids \ {r.id} \/ q = r  BY <2>2, <1>3 DEF Registered, IsRow
    <3> QED  BY <2>1, <2>2, <3>1, <1>1 DEF Registered
  <2> QED  BY <2>1, <2>2
<1>6. \A p, q \in t : p.id = q.id /\ Base(p.k) = Base(q.k) => p = q
  BY <1>4 DEF Registered
<1>7. \A i \in Ids : o[i] \in Certain => \E q \in t : q.k = o[i] /\ q.id = i
  <2> SUFFICES ASSUME NEW i \in Ids, o[i] \in Certain  PROVE \E q \in t : q.k = o[i] /\ q.id = i
    OBVIOUS
  <2>1. CASE i = r.id  BY <2>1, <1>1
  <2>2. CASE i # r.id
    <3>1. PICK q \in tab : q.k = obj[i] /\ q.id = i  BY <2>2, <1>1 DEF Registered
    <3>2. q \in t  BY <2>2, <3>1
    <3> QED  BY <2>2, <1>1, <3>1, <3>2
  <2> QED  BY <2>1, <2>2
<1>8. Registered(o, t)  BY <1>1, <1>2, <1>5, <1>6, <1>7 DEF Registered
<1> QED  BY <1>8 DEF o

LEMMA RegisterPlain ==
    ASSUME NEW obj, NEW tab, Registered(obj, tab), NEW id \in Ids, obj[id] = None,
           NEW k \in Interfaces \ Certain
    PROVE  Registered([obj EXCEPT ![id] = k], tab)
<1> DEFINE o == [obj EXCEPT ![id] = k]
<1>1. o \in [Ids -> Interfaces \cup {None}] /\ o[id] = k /\ \A i \in Ids \ {id} : o[i] = obj[i]
  BY DEF Registered
<1>2. \A q \in tab : q.id = id => q.k \in Lingering
  BY BaseIsInterface DEF Registered, IsRow
<1> HIDE DEF o
<1>3. Registered(o, tab)
  <2>1. \A q \in tab : q.k \notin Lingering => o[q.id] = Base(q.k)
    <3> SUFFICES ASSUME NEW q \in tab, q.k \notin Lingering  PROVE o[q.id] = Base(q.k)
      OBVIOUS
    <3>1. q.id \in Ids \ {id}  BY <1>2 DEF Registered, IsRow
    <3> QED  BY <3>1, <1>1 DEF Registered
  <2>2. \A i \in Ids : o[i] \in Certain => obj[i] = o[i]  BY <1>1
  <2> QED  BY <1>1, <2>1, <2>2 DEF Registered
<1> QED  BY <1>3 DEF o

LEMMA Unregister ==
    ASSUME NEW obj, NEW tab, Registered(obj, tab), NEW o, NEW t,
           o \in [Ids -> Interfaces \cup {None}], \A i \in Ids : o[i] = obj[i] \/ o[i] = None,
           t \subseteq tab,
           \A r \in t : r.k \notin Lingering => o[r.id] = obj[r.id],
           \A r \in tab : r.k \in Certain /\ o[r.id] = r.k => r \in t
    PROVE  Registered(o, t)
<1>1. \A i \in Ids : o[i] \in Certain => \E r \in t : r.k = o[i] /\ r.id = i
  <2> SUFFICES ASSUME NEW i \in Ids, o[i] \in Certain  PROVE \E r \in t : r.k = o[i] /\ r.id = i
    OBVIOUS
  <2>1. o[i] = obj[i]  BY NoneAssumption DEF Certain, Kinds
  <2>2. PICK r \in tab : r.k = obj[i] /\ r.id = i  BY <2>1 DEF Registered
  <2> QED  BY <2>1, <2>2
<1> QED  BY <1>1 DEF Registered

LEMMA Reregister ==
    ASSUME NEW obj, NEW tab, Registered(obj, tab), NEW F, NEW t,
           \A q \in t : \E r \in tab : q = F[r],
           \A r \in tab : F[r] \in t,
           \A r \in tab : IsRow(F[r]) /\ F[r].id = r.id /\ Base(F[r].k) = Base(r.k),
           \A r \in tab : r.k \in Certain \/ F[r].k \in Certain => F[r].k = r.k
    PROVE  Registered(obj, t)
<1>1. \A q \in t : IsRow(q)  OBVIOUS
<1>2. \A q \in t : q.k \notin Lingering => obj[q.id] = Base(q.k)
  <2> SUFFICES ASSUME NEW q \in t, q.k \notin Lingering  PROVE obj[q.id] = Base(q.k)
    OBVIOUS
  <2>1. PICK r \in tab : q = F[r]  OBVIOUS
  <2>2. r.k \notin Lingering  BY <2>1 DEF Certain
  <2> QED  BY <2>1, <2>2 DEF Registered
<1>3. \A p, q \in t : p.id = q.id /\ Base(p.k) = Base(q.k) => p = q
  <2> SUFFICES ASSUME NEW p \in t, NEW q \in t, p.id = q.id, Base(p.k) = Base(q.k)  PROVE p = q
    OBVIOUS
  <2>1. PICK r \in tab : p = F[r]  OBVIOUS
  <2>2. PICK s \in tab : q = F[s]  OBVIOUS
  <2>3. r = s  BY <2>1, <2>2 DEF Registered
  <2> QED  BY <2>1, <2>2, <2>3
<1>4. \A i \in Ids : obj[i] \in Certain => \E r \in t : r.k = obj[i] /\ r.id = i
  <2> SUFFICES ASSUME NEW i \in Ids, obj[i] \in Certain  PROVE \E r \in t : r.k = obj[i] /\ r.id = i
    OBVIOUS
  <2>1. PICK r \in tab : r.k = obj[i] /\ r.id = i  BY DEF Registered
  <2> QED  BY <2>1
<1> QED  BY <1>1, <1>2, <1>3, <1>4 DEF Registered

-----------------------------------------------------------------------------
(* Records, one field at a time. *)

Fields == DOMAIN Blank

(* Only the registry and the rows differ. *)
SameTotals(c, d) ==
  /\ DOMAIN d = Fields
  /\ d.role = c.role /\ d.pairs = c.pairs /\ d.selection = c.selection
  /\ d.counts = c.counts /\ d.inhibited = c.inhibited
  /\ d.store = c.store /\ d.fake = c.fake
  /\ d.over = c.over /\ d.member = c.member /\ d.adv = c.adv

LEMMA FieldNames ==
  Fields = {"obj", "tab", "role", "pairs", "counts", "inhibited", "pending", "current", "damage",
            "over", "member", "store", "fake", "adv", "selection", "shown", "input"}
BY DEF Fields, Blank

SetObj(obj, id, k) == [obj EXCEPT ![id] = k]
AddRow(tab, r) == {q \in tab : ~(q.k = r.k /\ q.id = r.id)} \cup {r}
DropRow(tab, k, id) == {q \in tab : ~(q.k = k /\ q.id = id)}

LEMMA SetObjIs ==
  ASSUME NEW obj, DOMAIN obj = Ids, NEW id \in Ids, NEW k
  PROVE  /\ DOMAIN SetObj(obj, id, k) = Ids
         /\ SetObj(obj, id, k)[id] = k
         /\ \A i \in Ids : i # id => SetObj(obj, id, k)[i] = obj[i]
BY DEF SetObj

-----------------------------------------------------------------------------
(* A row of another kind leaves a table's part alone. *)

LEMMA RowsAfterAdd ==
  ASSUME NEW tab, NEW K, NEW r, r.k \notin K
  PROVE  Rows(AddRow(tab, r), K) = Rows(tab, K)
BY DEF Rows, AddRow

LEMMA RowsAfterDrop ==
  ASSUME NEW tab, NEW K, NEW k, NEW id, k \notin K
  PROVE  Rows(DropRow(tab, k, id), K) = Rows(tab, K)
BY DEF Rows, DropRow

LEMMA SelectedAfterAdd ==
  ASSUME NEW tab, NEW x, NEW r, Selected(tab, x)  PROVE Selected(AddRow(tab, r), x)
BY DEF Selected, AddRow

LEMMA SelectedAfterDrop ==
  ASSUME NEW tab, NEW x, NEW k, k # "wl_data_source", NEW id, Selected(tab, x)
  PROVE  Selected(DropRow(tab, k, id), x)
BY DEF Selected, DropRow

LEMMA CoveredMore ==
  ASSUME NEW T, NEW obj, NEW over, NEW adv, NEW member, Covered(T, obj, over, adv, member),
         NEW U, T \subseteq U, NEW o, \A i \in Ids : obj[i] = "wl_surface" => o[i] = "wl_surface"
  PROVE  Covered(U, o, over, adv, member)
BY DEF Covered

-----------------------------------------------------------------------------
(* What the client and the server know of a new object, and of one that goes. *)

LEMMA KnowsNew ==
  ASSUME NEW obj, NEW tab, NEW m, Registered(obj, tab), Knows(obj, tab, m),
         NEW r, IsRow(r), NEW q, IsRow(q), q.id = r.id, q.k = r.k,
         r.k \notin {"entered", "xdg_toplevel"},
         r.k \in OfMatched => q.of = r.of,
         r.k \in AtMatched => q.at = r.at,
         obj[r.id] = None, \A p \in m : p.id # r.id
  PROVE  Knows(SetObj(obj, r.id, r.k), AddRow(tab, r), m \cup {q})
<1> DEFINE o == SetObj(obj, r.id, r.k)
           t == AddRow(tab, r)
           n == m \cup {q}
<1>0. r.id \in Ids /\ r.k \in Kinds /\ DOMAIN obj = Ids  BY DEF IsRow, Registered
<1>1. o[r.id] = r.k /\ \A i \in Ids : i # r.id => o[i] = obj[i]  BY <1>0, SetObjIs
<1>2. /\ \A p \in tab : p.id # r.id => p \in t
      /\ r \in t
      /\ \A p \in t : p = r \/ (p \in tab /\ ~(p.k = r.k /\ p.id = r.id))
  BY DEF AddRow
<1> HIDE DEF o, t
<1>3. Named(o, n)
  <2>1. \A p \in n : IsRow(p) /\ (p.k # "entered" => o[p.id] = p.k)
    BY <1>1 DEF Knows, Named, IsRow
  <2>2. \A i \in Ids : o[i] # None => \E p \in n : p.id = i /\ p.k = o[i] /\ p.k # "entered"
    BY <1>1 DEF Knows, Named
  <2> QED  BY <2>1, <2>2 DEF Named
<1>4. Matched(t, n)
  <2>1. ASSUME NEW p \in n, p.k \in NeedsRow  PROVE \E x \in t : x.k = p.k /\ x.id = p.id
    <3>1. CASE p = q  BY <3>1, <1>2
    <3>2. CASE p \in m
      <4>1. PICK x \in tab : x.k = p.k /\ x.id = p.id  BY <2>1, <3>2 DEF Knows, Matched
      <4> QED  BY <3>2, <4>1, <1>2
    <3> QED  BY <3>1, <3>2
  <2>2. ASSUME NEW p \in n, NEW x \in t, p.k = x.k, p.id = x.id
        PROVE  (p.k \in OfMatched => p.of = x.of) /\ (p.k \in AtMatched => p.at = x.at)
    <3>1. CASE p = q /\ x = r  BY <3>1
    <3>2. CASE p \in m /\ x \in tab  BY <2>2, <3>2 DEF Knows, Matched
    <3> QED  BY <2>2, <1>2, <3>1, <3>2
  <2> QED  BY <2>1, <2>2 DEF Matched
<1>5. Toplevels(t, n)
  <2> SUFFICES ASSUME NEW p \in n, p.k = "xdg_toplevel"
               PROVE  \E x \in t : x.k = "xdg_surface" /\ x.id = p.of /\ x.at = "configured"
    BY DEF Toplevels
  <2>1. PICK x \in tab : x.k = "xdg_surface" /\ x.id = p.of /\ x.at = "configured"
    BY DEF Knows, Toplevels
  <2>2. x.id # r.id
    BY <2>1, NoneAssumption DEF Registered, Base, Lingering, Kinds, Exact
  <2> QED  BY <2>1, <2>2, <1>2
<1>6. Focused(t, n)
  <2> SUFFICES ASSUME NEW p \in n, p.k = "entered"
               PROVE  \E x \in t : x.k = "wl_pointer" /\ x.id = p.id /\ x.of = p.of
    BY DEF Focused
  <2>1. p \in m  OBVIOUS
  <2>2. PICK x \in tab : x.k = "wl_pointer" /\ x.id = p.id /\ x.of = p.of
    BY <2>1 DEF Knows, Focused
  <2> QED  BY <2>1, <2>2, <1>2
<1>7. Knows(o, t, n)  BY <1>3, <1>4, <1>5, <1>6 DEF Knows
<1> QED  BY <1>7 DEF o, t

LEMMA KnowsPlain ==
  ASSUME NEW obj, NEW tab, NEW m, Registered(obj, tab), Knows(obj, tab, m),
         NEW q, IsRow(q), q.k \notin Certain \cup Cascaded \cup {"entered", "xdg_toplevel"} \/ q.k = "xdg_popup",
         obj[q.id] = None, \A p \in m : p.id # q.id
  PROVE  Knows(SetObj(obj, q.id, q.k), tab, m \cup {q})
<1> DEFINE o == SetObj(obj, q.id, q.k)
           n == m \cup {q}
<1>0. q.id \in Ids /\ q.k \in Kinds /\ DOMAIN obj = Ids  BY DEF IsRow, Registered
<1>1. o[q.id] = q.k /\ \A i \in Ids : i # q.id => o[i] = obj[i]  BY <1>0, SetObjIs
<1> HIDE DEF o
<1>2. q.k \notin NeedsRow \cup OfMatched \cup AtMatched
  BY DEF NeedsRow, OfMatched, AtMatched, Certain, Exact, Lingering, Cascaded, Constraints
<1>3. Named(o, n)
  <2>1. \A p \in n : IsRow(p) /\ (p.k # "entered" => o[p.id] = p.k)
    BY <1>1 DEF Knows, Named, IsRow
  <2>2. \A i \in Ids : o[i] # None => \E p \in n : p.id = i /\ p.k = o[i] /\ p.k # "entered"
    BY <1>1 DEF Knows, Named
  <2> QED  BY <2>1, <2>2 DEF Named
<1>4. Matched(tab, n)  BY <1>2 DEF Knows, Matched
<1>5. Toplevels(tab, n) /\ Focused(tab, n)  BY DEF Knows, Toplevels, Focused
<1>6. Knows(o, tab, n)  BY <1>3, <1>4, <1>5 DEF Knows
<1> QED  BY <1>6 DEF o

LEMMA KnowsLess ==
  ASSUME NEW obj, NEW tab, NEW m, Knows(obj, tab, m), NEW o, NEW t, NEW n,
         \A i \in Ids : o[i] = obj[i] \/ o[i] = None,
         t \subseteq tab, n \subseteq m,
         \A q \in n : q.k # "entered" => o[q.id] = obj[q.id],
         \A q \in m : q.k # "entered" /\ o[q.id] # None => q \in n,
         \A r \in tab \ t : \A q \in n :
           /\ ~(q.k \in NeedsRow /\ r.k = q.k /\ r.id = q.id)
           /\ ~(q.k = "xdg_toplevel" /\ r.k = "xdg_surface" /\ r.id = q.of)
           /\ ~(q.k = "entered" /\ r.k = "wl_pointer" /\ r.id = q.id)
  PROVE  Knows(o, t, n)
<1>1. Named(o, n)
  <2>1. \A i \in Ids : o[i] # None => \E q \in n : q.id = i /\ q.k = o[i] /\ q.k # "entered"
    BY DEF Knows, Named
  <2> QED  BY <2>1 DEF Knows, Named
<1>2. Matched(t, n)  BY DEF Knows, Matched
<1>3. Toplevels(t, n)  BY DEF Knows, Toplevels
<1>4. Focused(t, n)  BY DEF Knows, Focused
<1> QED  BY <1>1, <1>2, <1>3, <1>4 DEF Knows

LEMMA RegisteredGone ==
  ASSUME NEW obj, NEW tab, Registered(obj, tab), NEW id \in Ids, NEW k, k = obj[id],
         k \in Kinds, k \notin Lingering \cup {"wl_callback", "wp_presentation_feedback"},
         NEW t, t \subseteq DropRow(tab, k, id),
         \A r \in DropRow(tab, k, id) \ t : r.k \notin Certain
  PROVE  Registered(SetObj(obj, id, None), t)
<1> DEFINE o == SetObj(obj, id, None)
<1>1. /\ DOMAIN o = Ids /\ o[id] = None
      /\ \A i \in Ids : i # id => o[i] = obj[i]
  BY SetObjIs DEF Registered
<1>2. \A r \in tab : r \in DropRow(tab, k, id) \/ (r.k = k /\ r.id = id)
  BY DEF DropRow
<1>3. \A r \in DropRow(tab, k, id) : r \in tab /\ ~(r.k = k /\ r.id = id)
  BY DEF DropRow
<1>4. o \in [Ids -> Interfaces \cup {None}]
  <2>1. \A i \in Ids : o[i] \in Interfaces \cup {None}  BY <1>1 DEF Registered
  <2>2. o = [i \in Ids |-> o[i]]  BY <1>1 DEF o, SetObj
  <2> HIDE DEF o
  <2> QED  BY <2>1, <2>2
<1> HIDE DEF o
<1>5. \A r \in t : r.k \notin Lingering => o[r.id] = obj[r.id]
  <2> SUFFICES ASSUME NEW r \in t, r.k \notin Lingering, r.id = id  PROVE FALSE
    BY <1>1, <1>3 DEF Registered, IsRow
  <2>1. r \in tab /\ r.k # k /\ Base(r.k) = k  BY <1>3 DEF Registered
  <2> QED  BY <2>1 DEF Base
<1>6. \A r \in tab : r.k \in Certain /\ o[r.id] = r.k => r \in t
  <2> SUFFICES ASSUME NEW r \in tab, r.k \in Certain, o[r.id] = r.k, r \notin t  PROVE FALSE
    OBVIOUS
  <2>1. r.k = k /\ r.id = id  BY <1>2
  <2> QED  BY <2>1, <1>1, NoneAssumption
<1>7. \A i \in Ids : o[i] = obj[i] \/ o[i] = None  BY <1>1
<1>8. t \subseteq tab  BY <1>3
<1>9. Registered(o, t)  BY <1>4, <1>5, <1>6, <1>7, <1>8, Unregister
<1> QED  BY <1>9 DEF o

LEMMA KnowsGone ==
  ASSUME NEW obj, NEW tab, Registered(obj, tab), NEW m, Knows(obj, tab, m),
         NEW id \in Ids, NEW k, k = obj[id],
         \A q \in m : q.k = "xdg_toplevel" => q.of # id,
         NEW t, t \subseteq DropRow(tab, k, id),
         \A r \in DropRow(tab, k, id) \ t :
           /\ r.k \notin {"xdg_surface", "wl_pointer"}
           /\ r.k \in NeedsRow => \A q \in m : ~(q.k = r.k /\ q.id = r.id)
  PROVE  Knows(SetObj(obj, id, None), t, {q \in m : q.id # id})
<1> DEFINE o == SetObj(obj, id, None)
           n == {q \in m : q.id # id}
<1>1. /\ o[id] = None
      /\ \A i \in Ids : i # id => o[i] = obj[i]
  BY SetObjIs DEF Registered
<1>2. t \subseteq tab  BY DEF DropRow
<1> HIDE DEF o
<1>3. \A i \in Ids : o[i] = obj[i] \/ o[i] = None  BY <1>1
<1>4. \A q \in m : q.id \in Ids  BY DEF Knows, Named, IsRow
<1>5. /\ n \subseteq m
      /\ \A q \in n : q.k # "entered" => o[q.id] = obj[q.id]
      /\ \A q \in m : q.k # "entered" /\ o[q.id] # None => q \in n
  BY <1>1, <1>4
<1>6. ASSUME NEW r \in tab \ t, NEW q \in n
      PROVE  /\ ~(q.k \in NeedsRow /\ r.k = q.k /\ r.id = q.id)
             /\ ~(q.k = "xdg_toplevel" /\ r.k = "xdg_surface" /\ r.id = q.of)
             /\ ~(q.k = "entered" /\ r.k = "wl_pointer" /\ r.id = q.id)
  <2>1. CASE r.k = k /\ r.id = id  BY <2>1
  <2>2. CASE r \in DropRow(tab, k, id) \ t  BY <2>2
  <2> QED  BY <2>1, <2>2 DEF DropRow
<1> HIDE DEF n
<1>7. Knows(o, t, n)  BY <1>2, <1>3, <1>5, <1>6, KnowsLess
<1> QED  BY <1>7 DEF o, n

-----------------------------------------------------------------------------
(* The state of a new client, and of one that was dropped *)

LEMMA CountNone == ASSUME NEW s  PROVE Cardinality({r \in {} : r.of = s}) = 0
<1>1. {r \in {} : r.of = s} = {}  OBVIOUS
<1> QED  BY <1>1, FS_EmptySet

LEMMA BlankIsGood == Good(Blank) /\ Owns(Blank, {})
<1>1. /\ Blank.obj = [i \in Ids |-> None] /\ Blank.tab = {} /\ Blank.selection = None
      /\ Blank.role = [i \in Ids |-> None] /\ Blank.pairs = {}
      /\ Blank.counts = [i \in Ids |-> 0] /\ Blank.inhibited = FALSE
      /\ Blank.store = [i \in Ids |-> 0] /\ Blank.fake = {}
      /\ Blank.over = [i \in Ids |-> None] /\ Blank.member = [i \in Ids |-> {}]
  BY DEF Blank
<1>2. Registered([i \in Ids |-> None], {})
  BY NoneAssumption DEF Registered, Certain, Kinds
<1>3. \A K : Rows({}, K) = {}  BY DEF Rows
<1>4. Paired({}, {})  BY DEF Paired
<1>5. Counted({}, [i \in Ids |-> 0], FALSE)
  <2>1. [i \in Ids |-> 0] = [s \in Ids |-> Cardinality({r \in {} : r.of = s})]  BY CountNone
  <2> QED  BY <2>1 DEF Counted
<1>6. Backed({}, [i \in Ids |-> 0], {})
  <2>1. HeldBackings({}) \cap {} = {}  OBVIOUS
  <2>2. Total([i \in Ids |-> 0], {}) = 0  BY TotalEmpty
  <2> QED  BY <2>1, <2>2, BudgetAssumption DEF Backed, PoolRows
<1>7. \A adv : Covered({}, [i \in Ids |-> None], [i \in Ids |-> None], adv, [i \in Ids |-> {}])
  BY DEF Covered
<1>8. Knows([i \in Ids |-> None], {}, {})
  BY DEF Knows, Named, Matched, Toplevels, Focused
<1>9. Roled({}, [i \in Ids |-> None])  BY DEF Roled
<1> QED  BY <1>1, <1>2, <1>3, <1>4, <1>5, <1>6, <1>7, <1>8, <1>9 DEF Good, Owns, Selected

LEMMA InitIsGood == Init => WireInv
<1> SUFFICES ASSUME Init  PROVE WireInv  OBVIOUS
<1>1. PICK c \in Clients : orderly = c.orderly /\ bound = c.globals  BY DEF Init
<1>2. [orderly |-> orderly, globals |-> bound] \in Clients
  BY <1>1, ClientAssumption
<1> QED  BY <1>2, BlankIsGood DEF Init, WireInv

LEMMA DroppedIsGood ==
  ASSUME WireInv, NEW why \in {"request", "release", "input"}, orderly => why = "input",
         Dropped(why)
  PROVE  WireInv'
<1>1. core' = Blank /\ mine' = {} /\ gone' = why /\ orderly' = orderly /\ bound' = bound
  BY DEF Dropped
<1>2. Good(core') /\ Owns(core', mine')  BY <1>1, BlankIsGood
<1> QED  BY <1>1, <1>2 DEF WireInv

LEMMA AnswerIsGood ==
  ASSUME WireInv, gone = "no", UNCHANGED <<orderly, bound, gone>>, Good(core'),
         orderly => Owns(core', mine'), ~orderly => mine' = {}
  PROVE  WireInv'
BY DEF WireInv

-----------------------------------------------------------------------------
(* What both kinds of client can rely on *)

LEMMA OffersFresh ==
  ASSUME WireInv, NEW id \in Ids, Offers(id)
  PROVE  Fresh(core, id) /\ (orderly => \A q \in mine : q.id # id)
BY DEF WireInv, Owns, Knows, Named, Offers, Unnamed, Fresh

LEMMA HasIs ==
  ASSUME WireInv, orderly, NEW id, NEW k, Has(k, id), k # "entered"
  PROVE  Is(k, id) /\ id \in Ids
BY DEF WireInv, Owns, Knows, Named, Has, Is, IsRow

LEMMA NamesIs ==
  ASSUME WireInv, NEW id, NEW k, Names(k, id), k # "entered"
  PROVE  Is(k, id)
BY HasIs DEF Names

LEMMA IsKey ==
  ASSUME WireInv, NEW id \in Ids, NEW k \in Certain, Is(k, id)
  PROVE  id \in Keys(core, k)
<1>1. PICK r \in core.tab : r.k = k /\ r.id = id  BY DEF WireInv, Good, Registered, Is
<1> QED  BY <1>1 DEF Keys, RowsOf

LEMMA HasKey ==
  ASSUME WireInv, orderly, NEW id, NEW k \in NeedsRow, Has(k, id)
  PROVE  id \in Keys(core, k)
BY DEF WireInv, Owns, Knows, Matched, Has, Keys, RowsOf

(* A row the server keeps of an object is one the orderly client knows. *)
LEMMA RowIsKnown ==
  ASSUME WireInv, orderly, NEW r \in core.tab, r.k \notin Lingering, Base(r.k) = r.k
  PROVE  \E q \in mine : /\ q.k = r.k /\ q.id = r.id
                         /\ r.k \in OfMatched => q.of = r.of
                         /\ r.k \in AtMatched => q.at = r.at
<1>1. Is(r.k, r.id) /\ r.id \in Ids /\ r.k \in Kinds
  BY DEF WireInv, Good, Registered, IsRow, Is
<1>2. core.obj[r.id] # None  BY <1>1, NoneAssumption DEF Is
<1>3. PICK q \in mine : q.id = r.id /\ q.k = r.k
  BY <1>1, <1>2 DEF WireInv, Owns, Knows, Named, Is
<1> QED  BY <1>3 DEF WireInv, Owns, Knows, Matched

LEMMA Unmatched ==
  ASSUME WireInv, orderly, NEW k \in OfMatched, NEW of, \A q \in mine : q.k = k => q.of # of
  PROVE  \A r \in core.tab : r.k = k => r.of # of
<1> SUFFICES ASSUME NEW r \in core.tab, r.k = k, r.of = of  PROVE FALSE  OBVIOUS
<1>1. r.k \notin Lingering /\ Base(r.k) = r.k
  BY DEF OfMatched, NeedsRow, Constraints, Lingering, Base
<1> QED  BY <1>1, RowIsKnown

-----------------------------------------------------------------------------
(* The steps most requests consist of *)

LEMMA IdleIsGood ==
  ASSUME WireInv, gone = "no", core' = core, mine' = Recorded(mine),
         UNCHANGED <<orderly, bound, gone>>
  PROVE  WireInv'
<1>1. mine' = mine  BY DEF Recorded, WireInv
<1> QED  BY <1>1 DEF WireInv

(* Kinds whose rows only the registry and the client's own list are about. *)
Simple ==
  {"wl_surface", "wl_region", "wl_callback", "wp_presentation_feedback", "wl_output",
   "zxdg_output_v1", "xdg_positioner", "xdg_popup", "wl_subsurface", "wp_viewport",
   "wp_fractional_scale_v1", "zxdg_toplevel_decoration_v1", "wl_pointer", "wl_keyboard",
   "zwp_relative_pointer_v1", "wl_data_source", "wl_data_device", "zwp_text_input_v3",
   "zwp_input_method_v2", "zwp_input_popup_surface_v2", "zwlr_output_configuration_v1",
   "zwlr_output_configuration_head_v1", "zwlr_screencopy_frame_v1",
   "ext_image_copy_capture_session_v1", "ext_image_copy_capture_frame_v1"}

LEMMA SimpleIs ==
  ASSUME NEW k \in Simple
  PROVE  /\ k \in Kinds /\ Base(k) = k /\ k \notin {"entered", "xdg_toplevel"}
         /\ k \notin Constraints \cup Inhibitor \cup ShmKinds \cup RoleKeepers
BY DEF Simple, Base, Kinds, Exact, Cascaded, Lingering, Constraints, Inhibitor, ShmKinds, RoleKeepers

Creatable == Simple \cup Constraints \cup Inhibitor \cup ShmKinds \cup RoleKeepers

LEMMA CreatableIs ==
  ASSUME NEW k \in Creatable
  PROVE  k \in Kinds /\ Base(k) = k /\ k \notin {"entered", "xdg_toplevel"}
BY SimpleIs
   DEF Creatable, Base, Kinds, Exact, Cascaded, Constraints, Inhibitor, ShmKinds, RoleKeepers

LEMMA NewObject ==
  ASSUME WireInv, NEW k \in Creatable, NEW id \in Ids, NEW of, NEW at, NEW mof, NEW mat,
         Offers(id), k \in OfMatched => mof = of, k \in AtMatched => mat = at,
         core'.obj = SetObj(core.obj, id, k),
         core'.tab = AddRow(core.tab, Row(k, id, of, at)),
         core'.selection = core.selection,
         core'.over = core.over, core'.adv = core.adv, core'.member = core.member
  PROVE  /\ Registered(core'.obj, core'.tab)
         /\ Selected(core'.tab, core'.selection)
         /\ Covered(Rows(core'.tab, {"wl_output"}), core'.obj, core'.over, core'.adv, core'.member)
         /\ \A K : k \notin K => Rows(core'.tab, K) = Rows(core.tab, K)
         /\ \A K : k \in K /\ k \notin Lingering =>
              Rows(core'.tab, K) = Rows(core.tab, K) \cup {Row(k, id, of, at)}
         /\ orderly => Knows(core'.obj, core'.tab, mine \cup {Row(k, id, mof, mat)})
<1> DEFINE r == Row(k, id, of, at)
           q == Row(k, id, mof, mat)
<1>1. Good(core)  BY DEF WireInv
<1>3. /\ r.k = k /\ r.id = id /\ q.k = k /\ q.id = id
      /\ r.of = of /\ q.of = mof /\ r.at = at /\ q.at = mat
      /\ IsRow(r) /\ IsRow(q) /\ Base(k) = k /\ k \in Kinds /\ k \notin {"entered", "xdg_toplevel"}
  BY CreatableIs DEF Row, IsRow
<1>2. core'.obj = SetObj(core.obj, r.id, r.k) /\ core'.tab = AddRow(core.tab, r)
  BY <1>3
<1>13. Row(k, id, of, at) = r /\ Row(k, id, mof, mat) = q  OBVIOUS
<1> HIDE DEF r, q
<1>4. core.obj[id] = None /\ (orderly => \A p \in mine : p.id # id)
  BY OffersFresh DEF Fresh
<1>5. Registered(core'.obj, core'.tab)
  <2>1. Registered([core.obj EXCEPT ![r.id] = r.k],
                      {p \in core.tab : ~(p.k = r.k /\ p.id = r.id)} \cup {r})
    BY <1>1, <1>3, <1>4, RegisterRow DEF Good
  <2> QED  BY <1>2, <2>1 DEF SetObj, AddRow
<1>6. \A K : k \notin K => Rows(core'.tab, K) = Rows(core.tab, K)
  BY <1>2, <1>3, RowsAfterAdd
<1>7. Selected(core'.tab, core'.selection)
  BY <1>1, <1>2, SelectedAfterAdd DEF Good
<1>8. \A p \in core.tab : p.id = id => p.k \in Lingering
  BY <1>1, <1>4, BaseIsInterface DEF Good, Registered, IsRow
<1>9. \A K : k \in K /\ k \notin Lingering => Rows(core'.tab, K) = Rows(core.tab, K) \cup {r}
  BY <1>2, <1>3, <1>8 DEF Rows, AddRow
<1>10. Covered(Rows(core'.tab, {"wl_output"}), core'.obj, core'.over, core'.adv, core'.member)
  <2>1. Rows(core.tab, {"wl_output"}) \subseteq Rows(core'.tab, {"wl_output"})
    <3>1. \A p \in core.tab : p.k = "wl_output" => p.id # id
      BY <1>8 DEF Lingering
    <3> QED  BY <1>2, <1>3, <3>1 DEF Rows, AddRow
  <2>2. \A i \in Ids : core.obj[i] = "wl_surface" => core'.obj[i] = "wl_surface"
    BY <1>1, <1>2, <1>3, <1>4, SetObjIs, NoneAssumption DEF Good, Registered, Kinds, Exact
  <2>3. Covered(Rows(core.tab, {"wl_output"}), core.obj, core.over, core.adv, core.member)
    BY <1>1 DEF Good
  <2>4. Covered(Rows(core'.tab, {"wl_output"}), core'.obj, core.over, core.adv, core.member)
    BY <2>1, <2>2, <2>3, CoveredMore
  <2> QED  BY <2>4
<1>11. ASSUME orderly  PROVE Knows(core'.obj, core'.tab, mine \cup {q})
  <2>1. Knows(core.obj, core.tab, mine)  BY <1>11 DEF WireInv, Owns
  <2>2. Knows(SetObj(core.obj, r.id, r.k), AddRow(core.tab, r), mine \cup {q})
    BY <1>1, <1>3, <1>4, <1>11, <2>1, KnowsNew DEF Good
  <2> QED  BY <1>2, <2>2
<1> QED  BY <1>5, <1>6, <1>7, <1>9, <1>10, <1>11, <1>13

LEMMA CreateIsGood ==
  ASSUME WireInv, gone = "no", NEW k \in Simple, NEW id \in Ids, NEW of, NEW at, NEW mof, NEW mat,
         Offers(id),
         k \in OfMatched => mof = of, k \in AtMatched => mat = at,
         core' = [core EXCEPT !.obj[id] = k, !.tab = Put(core, Row(k, id, of, at))],
         mine' = Recorded(mine \cup {Row(k, id, mof, mat)}), UNCHANGED <<orderly, bound, gone>>
  PROVE  WireInv'
<1>1. DOMAIN core = Fields /\ Good(core)  BY DEF WireInv, Good, Fields
<1>2. /\ SameTotals(core, core')
      /\ core'.obj = SetObj(core.obj, id, k)
      /\ core'.tab = AddRow(core.tab, Row(k, id, of, at))
  BY <1>1, FieldNames DEF SameTotals, SetObj, AddRow, Put, Row
<1>3. /\ Registered(core'.obj, core'.tab)
      /\ Selected(core'.tab, core'.selection)
      /\ Covered(Rows(core'.tab, {"wl_output"}), core'.obj, core'.over, core'.adv, core'.member)
      /\ \A K : k \notin K => Rows(core'.tab, K) = Rows(core.tab, K)
      /\ orderly => Knows(core'.obj, core'.tab, mine \cup {Row(k, id, mof, mat)})
  <2>1. k \in Creatable  BY DEF Creatable
  <2>2. /\ core'.selection = core.selection
        /\ core'.over = core.over /\ core'.adv = core.adv /\ core'.member = core.member
    BY <1>2 DEF SameTotals
  <2>3. Registered(core'.obj, core'.tab)  BY <1>2, <2>1, <2>2, NewObject
  <2>4. Selected(core'.tab, core'.selection)  BY <1>2, <2>1, <2>2, NewObject
  <2>5. Covered(Rows(core'.tab, {"wl_output"}), core'.obj, core'.over, core'.adv, core'.member)
    BY <1>2, <2>1, <2>2, NewObject
  <2>6. \A K : k \notin K => Rows(core'.tab, K) = Rows(core.tab, K)
    BY <1>2, <2>1, <2>2, NewObject
  <2>7. orderly => Knows(core'.obj, core'.tab, mine \cup {Row(k, id, mof, mat)})
    BY <1>2, <2>1, <2>2, NewObject
  <2> QED  BY <2>3, <2>4, <2>5, <2>6, <2>7
<1>4. k \notin Constraints \cup Inhibitor \cup ShmKinds \cup RoleKeepers
  BY SimpleIs
<1>5. Good(core')
  <2>1. /\ core'.role = core.role /\ core'.pairs = core.pairs /\ core'.counts = core.counts
        /\ core'.inhibited = core.inhibited /\ core'.store = core.store /\ core'.fake = core.fake
        /\ DOMAIN core' = DOMAIN Blank
    BY <1>2 DEF Fields, SameTotals
  <2> QED  BY <1>1, <1>3, <1>4, <2>1 DEF Good
<1>6. orderly => Owns(core', mine')
  BY <1>2, <1>3, <1>4 DEF Recorded, WireInv, Owns, SameTotals
<1>7. ~orderly => mine' = {}  BY DEF Recorded
<1> QED  BY <1>5, <1>6, <1>7, AnswerIsGood

LEMMA PlainIsGood ==
  ASSUME WireInv, gone = "no", NEW k \in {"wl_registry", "xdg_popup"}, NEW id \in Ids, NEW of,
         Offers(id), core' = [core EXCEPT !.obj[id] = k],
         mine' = Recorded(mine \cup {Row(k, id, of, None)}), UNCHANGED <<orderly, bound, gone>>
  PROVE  WireInv'
<1> DEFINE q == Row(k, id, of, None)
<1>1. DOMAIN core = Fields /\ Good(core)  BY DEF WireInv, Good, Fields
<1>2. SameTotals(core, core') /\ core'.tab = core.tab /\ core'.obj = SetObj(core.obj, id, k)
  BY <1>1, FieldNames DEF SameTotals, SetObj
<1>3. q.k = k /\ q.id = id /\ IsRow(q)
  BY DEF Row, IsRow, Kinds, Cascaded
<1> HIDE DEF q
<1>4. core.obj[id] = None /\ (orderly => \A p \in mine : p.id # id)
  BY OffersFresh DEF Fresh
<1>5. k \in Interfaces \ Certain
  BY DEF Interfaces, Kinds, Certain, Exact, Lingering, Constraints, Cascaded
<1>6. Registered(core'.obj, core'.tab)
  <2>1. Registered([core.obj EXCEPT ![id] = k], core.tab)
    BY <1>1, <1>4, <1>5, RegisterPlain DEF Good
  <2> QED  BY <1>2, <2>1 DEF SetObj, SameTotals
<1>7. Covered(Rows(core'.tab, {"wl_output"}), core'.obj, core'.over, core'.adv, core'.member)
  <2>1. \A i \in Ids : core.obj[i] = "wl_surface" => core'.obj[i] = "wl_surface"
    BY <1>1, <1>2, <1>4, SetObjIs, NoneAssumption DEF Good, Registered, Kinds, Exact
  <2>2. Covered(Rows(core.tab, {"wl_output"}), core.obj, core.over, core.adv, core.member)
    BY <1>1 DEF Good
  <2>3. Rows(core.tab, {"wl_output"}) \subseteq Rows(core'.tab, {"wl_output"})  BY <1>2
  <2>4. Covered(Rows(core'.tab, {"wl_output"}), core'.obj, core.over, core.adv, core.member)
    BY <2>1, <2>2, <2>3, CoveredMore
  <2> QED  BY <1>2, <2>4 DEF SameTotals
<1>8. /\ core'.role = core.role /\ core'.pairs = core.pairs /\ core'.counts = core.counts
      /\ core'.inhibited = core.inhibited /\ core'.store = core.store /\ core'.fake = core.fake
      /\ core'.tab = core.tab /\ core'.selection = core.selection
      /\ DOMAIN core' = DOMAIN Blank
  BY <1>2 DEF Fields, SameTotals
<1>9. Good(core')  BY <1>1, <1>6, <1>7, <1>8 DEF Good
<1>10. ASSUME orderly  PROVE Owns(core', mine')
  <2>1. mine' = mine \cup {q}  BY <1>10 DEF Recorded, q
  <2>2. Knows(core.obj, core.tab, mine) /\ Roled(Rows(core.tab, RoleKeepers), core.role)
    BY <1>10 DEF WireInv, Owns
  <2>3. k \notin Certain \cup Cascaded \cup {"entered", "xdg_toplevel"} \/ k = "xdg_popup"
    BY <1>5 DEF Cascaded, Constraints
  <2>4. Knows(SetObj(core.obj, q.id, q.k), core.tab, mine \cup {q})
    BY <1>1, <1>3, <1>4, <1>10, <2>2, <2>3, KnowsPlain DEF Good
  <2> QED  BY <1>2, <1>3, <1>8, <2>1, <2>2, <2>4 DEF Owns
<1>11. ~orderly => mine' = {}  BY DEF Recorded
<1> QED  BY <1>9, <1>10, <1>11, AnswerIsGood

(* Objects that are destroyed alone. *)
Alone == {"zxdg_output_v1", "xdg_toplevel", "xdg_positioner", "xdg_popup", "wl_subsurface",
  "wp_viewport", "wp_fractional_scale_v1", "zxdg_toplevel_decoration_v1",
  "zwp_relative_pointer_v1", "zwp_text_input_v3", "zwp_input_popup_surface_v2",
  "zwlr_screencopy_frame_v1", "ext_image_copy_capture_session_v1",
  "ext_image_copy_capture_frame_v1"}

Destroyable == Alone \cup Constraints \cup Inhibitor \cup ShmKinds \cup RoleKeepers
  \cup {"wl_pointer", "zwlr_output_configuration_v1"}

LEMMA DestroyableIs ==
  ASSUME NEW k \in Destroyable
  PROVE  /\ k \in Kinds /\ Base(k) = k
         /\ k \notin Lingering \cup {"wl_callback", "wp_presentation_feedback",
                                     "wl_surface", "wl_output", "entered"}
BY DEF Destroyable, Alone, Base, Kinds, Exact, Cascaded, Lingering, Constraints, Inhibitor,
       ShmKinds, RoleKeepers

LEMMA OldObject ==
  ASSUME WireInv, NEW k \in Destroyable, NEW id \in Ids, Is(k, id), orderly => Unreferenced(id),
         core'.obj = SetObj(core.obj, id, None),
         core'.tab \subseteq DropRow(core.tab, k, id),
         \A r \in DropRow(core.tab, k, id) \ core'.tab :
           /\ r.k \notin Certain \cup {"wl_output"}
           /\ orderly /\ r.k \in NeedsRow => \A q \in mine : ~(q.k = r.k /\ q.id = r.id),
         core'.selection = core.selection,
         core'.over = core.over, core'.adv = core.adv, core'.member = core.member
  PROVE  /\ Registered(core'.obj, core'.tab)
         /\ Selected(core'.tab, core'.selection)
         /\ Covered(Rows(core'.tab, {"wl_output"}), core'.obj, core'.over, core'.adv, core'.member)
         /\ orderly => Knows(core'.obj, core'.tab, {q \in mine : q.id # id})
<1>1. Good(core)  BY DEF WireInv
<1>2. core.obj[id] = k  BY DEF Is
<1>3. /\ k \in Kinds
      /\ k \notin Lingering \cup {"wl_callback", "wp_presentation_feedback"}
      /\ k \notin {"wl_surface", "wl_output", "entered", "wl_data_source"}
  BY DestroyableIs DEF Lingering
<1> DEFINE t == core'.tab
<1>4. t \subseteq DropRow(core.tab, k, id) /\ \A r \in DropRow(core.tab, k, id) \ t : r.k \notin Certain
  OBVIOUS
<1>5. Registered(SetObj(core.obj, id, None), t)
  BY <1>1, <1>2, <1>3, <1>4, RegisteredGone DEF Good
<1>6. Selected(t, core'.selection)
  <2>1. \A r \in core.tab : r.k = "wl_data_source" => r \in t
    BY <1>3, <1>4 DEF DropRow, Certain, Lingering
  <2> QED  BY <1>1, <2>1 DEF Good, Selected
<1>7. Covered(Rows(t, {"wl_output"}), core'.obj, core'.over, core'.adv, core'.member)
  <2>1. Rows(core.tab, {"wl_output"}) \subseteq Rows(t, {"wl_output"})
    BY <1>3 DEF Rows, DropRow
  <2>2. \A i \in Ids : core.obj[i] = "wl_surface" => core'.obj[i] = "wl_surface"
    BY <1>1, <1>2, <1>3, SetObjIs DEF Good, Registered
  <2>3. Covered(Rows(core.tab, {"wl_output"}), core.obj, core.over, core.adv, core.member)
    BY <1>1 DEF Good
  <2>4. Covered(Rows(t, {"wl_output"}), core'.obj, core.over, core.adv, core.member)
    BY <2>1, <2>2, <2>3, CoveredMore
  <2> QED  BY <2>4
<1>8. ASSUME orderly  PROVE Knows(SetObj(core.obj, id, None), t, {q \in mine : q.id # id})
  <2>1. Knows(core.obj, core.tab, mine)  BY <1>8 DEF WireInv, Owns
  <2>2. \A q \in mine : q.k = "xdg_toplevel" => q.of # id
    BY <1>8 DEF Unreferenced, Owned
  <2>3. \A r \in DropRow(core.tab, k, id) \ t :
           /\ r.k \notin {"xdg_surface", "wl_pointer"}
           /\ r.k \in NeedsRow => \A q \in mine : ~(q.k = r.k /\ q.id = r.id)
    BY <1>4, <1>8 DEF Certain, Exact
  <2> QED  BY <1>1, <1>2, <1>4, <2>1, <2>2, <2>3, KnowsGone DEF Good
<1> QED  BY <1>5, <1>6, <1>7, <1>8

LEMMA DestroyIsGood ==
  ASSUME WireInv, gone = "no", NEW k \in Alone, NEW id \in Ids, Is(k, id),
         orderly => Unreferenced(id),
         core' = [core EXCEPT !.obj[id] = None, !.tab = Without(core, k, id)],
         mine' = Recorded({r \in mine : r.id # id}), UNCHANGED <<orderly, bound, gone>>
  PROVE  WireInv'
<1>1. DOMAIN core = Fields /\ Good(core)  BY DEF WireInv, Good, Fields
<1>2. /\ SameTotals(core, core')
      /\ core'.obj = SetObj(core.obj, id, None)
      /\ core'.tab = DropRow(core.tab, k, id)
  BY <1>1, FieldNames DEF SameTotals, SetObj, DropRow, Without
<1>3. /\ Registered(core'.obj, core'.tab)
      /\ Selected(core'.tab, core'.selection)
      /\ Covered(Rows(core'.tab, {"wl_output"}), core'.obj, core'.over, core'.adv, core'.member)
      /\ orderly => Knows(core'.obj, core'.tab, {q \in mine : q.id # id})
  BY <1>2, OldObject DEF SameTotals, Destroyable
<1>4. k \notin Constraints \cup Inhibitor \cup ShmKinds \cup RoleKeepers
  BY DEF Alone, Constraints, Inhibitor, ShmKinds, RoleKeepers
<1>5. \A K : k \notin K => Rows(core'.tab, K) = Rows(core.tab, K)
  BY <1>2, RowsAfterDrop
<1>6. Good(core')
  <2>1. /\ core'.role = core.role /\ core'.pairs = core.pairs /\ core'.counts = core.counts
        /\ core'.inhibited = core.inhibited /\ core'.store = core.store /\ core'.fake = core.fake
        /\ DOMAIN core' = DOMAIN Blank
    BY <1>2 DEF Fields, SameTotals
  <2> QED  BY <1>1, <1>3, <1>4, <1>5, <2>1 DEF Good
<1>7. orderly => Owns(core', mine')
  BY <1>2, <1>3, <1>4, <1>5 DEF Recorded, WireInv, Owns, SameTotals
<1>8. ~orderly => mine' = {}  BY DEF Recorded
<1> QED  BY <1>6, <1>7, <1>8, AnswerIsGood

LEMMA CreateKeeps ==
  ASSUME WireInv, gone = "no", NEW k \in Simple, NEW id \in Ids, NEW of, NEW at, NEW ok,
         orderly => ok, Create(k, id, of, at, ok)
  PROVE  WireInv'
<1>1. Offers(id)  BY DEF Create
<1>2. Fresh(core, id)  BY <1>1, OffersFresh
<1>3. CASE Dropped("request") /\ ~ok  BY <1>3, DroppedIsGood
<1>4. CASE /\ core' = [core EXCEPT !.obj[id] = k, !.tab = Put(core, Row(k, id, of, at))]
           /\ mine' = Recorded(mine \cup {Row(k, id, of, at)})
           /\ UNCHANGED <<orderly, bound, gone>>
  BY <1>1, <1>4, CreateIsGood
<1> QED  BY <1>2, <1>3, <1>4 DEF Create, Respond

LEMMA PlainKeeps ==
  ASSUME WireInv, gone = "no", NEW k \in {"wl_registry", "xdg_popup"}, NEW id \in Ids, NEW of,
         NEW ok, orderly => ok, Plain(k, id, of, ok)
  PROVE  WireInv'
<1>1. Offers(id)  BY DEF Plain
<1>2. Fresh(core, id)  BY <1>1, OffersFresh
<1>3. CASE Dropped("request") /\ ~ok  BY <1>3, DroppedIsGood
<1>4. CASE /\ core' = [core EXCEPT !.obj[id] = k]
           /\ mine' = Recorded(mine \cup {Row(k, id, of, None)})
           /\ UNCHANGED <<orderly, bound, gone>>
  BY <1>1, <1>4, PlainIsGood
<1> QED  BY <1>2, <1>3, <1>4 DEF Plain, Respond

LEMMA DestroyKeeps ==
  ASSUME WireInv, gone = "no", NEW k \in Alone, NEW id \in Ids, NEW ok, orderly => ok,
         Destroy(k, id, ok, core)
  PROVE  WireInv'
<1>1. Is(k, id)  BY NamesIs DEF Destroy, Alone
<1>2. orderly => Unreferenced(id)  BY DEF Destroy, Polite
<1>3. CASE Dropped("request") /\ ~ok  BY <1>3, DroppedIsGood
<1>4. CASE /\ core' = [core EXCEPT !.obj[id] = None, !.tab = Without(core, k, id)]
           /\ mine' = Recorded({r \in mine : r.id # id})
           /\ UNCHANGED <<orderly, bound, gone>>
  BY <1>1, <1>2, <1>4, DestroyIsGood
<1> QED  BY <1>1, <1>3, <1>4 DEF Destroy, Respond

LEMMA LenientKeeps ==
  ASSUME WireInv, gone = "no", NEW k \in Alone, NEW id \in Ids, Lenient(k, id)
  PROVE  WireInv'
BY DestroyKeeps DEF Lenient

LEMMA IdleKeeps ==
  ASSUME WireInv, gone = "no", NEW ok, orderly => ok, Respond(ok, core, mine)
  PROVE  WireInv'
<1>1. CASE Dropped("request") /\ ~ok  BY <1>1, DroppedIsGood
<1>2. CASE core' = core /\ mine' = Recorded(mine) /\ UNCHANGED <<orderly, bound, gone>>
  BY <1>2, IdleIsGood
<1> QED  BY <1>1, <1>2 DEF Respond

LEMMA NoteKeeps ==
  ASSUME WireInv, gone = "no", NEW k, k # "entered", NEW id, Note(k, id)
  PROVE  WireInv'
<1>1. Is(k, id)  BY NamesIs DEF Note
<1> QED  BY <1>1, IdleKeeps DEF Note

LEMMA NamesKey ==
  ASSUME WireInv, orderly, NEW k \in Certain \cup NeedsRow, NEW id \in Ids, Names(k, id)
  PROVE  id \in Keys(core, k)
<1>1. Is(k, id)
  BY NamesIs DEF Certain, Exact, Lingering, NeedsRow, Constraints
<1>2. Has(k, id)  BY DEF Names
<1> QED  BY <1>1, <1>2, IsKey, HasKey

LEMMA TouchKeeps ==
  ASSUME WireInv, gone = "no", NEW k \in Certain \cup NeedsRow, NEW id \in Ids, NEW ok,
         orderly => ok, Touch(k, id, ok)
  PROVE  WireInv'
<1>1. Names(k, id) /\ Respond(Is(k, id) /\ ok /\ id \in Keys(core, k), core, mine)
  BY DEF Touch
<1>2. Is(k, id)
  BY <1>1, NamesIs DEF Certain, Exact, Lingering, NeedsRow, Constraints
<1>3. orderly => id \in Keys(core, k)  BY <1>1, NamesKey
<1> QED  BY <1>1, <1>2, <1>3, IdleKeeps

LEMMA MinorIsGood ==
  ASSUME WireInv, gone = "no", SameTotals(core, core'), core'.obj = core.obj, core'.tab = core.tab,
         mine' = Recorded(mine), UNCHANGED <<orderly, bound, gone>>
  PROVE  WireInv'
<1>1. Good(core')  BY DEF WireInv, Good, SameTotals, Fields
<1>2. mine' = mine  BY DEF Recorded, WireInv
<1>3. orderly => Owns(core', mine')  BY <1>2 DEF WireInv, Owns, SameTotals
<1> QED  BY <1>1, <1>2, <1>3, AnswerIsGood DEF WireInv

-----------------------------------------------------------------------------
(* Surfaces *)

LEMMA SyncKeeps == ASSUME WireInv, NEW id \in Ids, Sync(id)  PROVE WireInv'
<1>1. Fresh(core, id)  BY OffersFresh DEF Sync
<1> QED  BY <1>1, IdleKeeps DEF Sync, Request

LEMMA GetRegistryKeeps == ASSUME WireInv, NEW id \in Ids, GetRegistry(id)  PROVE WireInv'
BY PlainKeeps DEF GetRegistry, Request

LEMMA CreateSurfaceKeeps == ASSUME WireInv, NEW id \in Ids, CreateSurface(id)  PROVE WireInv'
<1>1. "wl_surface" \in Simple  BY DEF Simple
<1> QED  BY <1>1, CreateKeeps DEF CreateSurface, Request, Polite

LEMMA CreateRegionKeeps == ASSUME WireInv, NEW id \in Ids, CreateRegion(id)  PROVE WireInv'
<1>1. "wl_region" \in Simple  BY DEF Simple
<1> QED  BY <1>1, CreateKeeps DEF CreateRegion, Request, Polite

LEMMA AttachKeeps == ASSUME WireInv, NEW s \in Ids, NEW b, Attach(s, b)  PROVE WireInv'
<1>1. gone = "no" /\ Is("wl_surface", s)  BY NamesIs DEF Attach, Request
<1>2. orderly /\ b # None => Is("wl_buffer", b) /\ b \in Keys(core, "wl_buffer")
  <2> SUFFICES ASSUME orderly, b # None
               PROVE  Is("wl_buffer", b) /\ b \in Keys(core, "wl_buffer")
    OBVIOUS
  <2>1. Has("wl_buffer", b)  BY DEF Attach, Polite
  <2>2. Is("wl_buffer", b) /\ b \in Ids  BY <2>1, HasIs
  <2>3. "wl_buffer" \in Certain  BY DEF Certain, Exact
  <2> QED  BY <2>2, <2>3, IsKey
<1>3. CASE Dropped("request") /\ ~orderly  BY <1>3, DroppedIsGood
<1>4. CASE /\ core' = [core EXCEPT !.pending[s] = b] /\ mine' = Recorded(mine)
           /\ UNCHANGED <<orderly, bound, gone>>
  <2>1. DOMAIN core = Fields  BY DEF WireInv, Good, Fields
  <2>2. SameTotals(core, core') /\ core'.obj = core.obj /\ core'.tab = core.tab
    BY <1>4, <2>1, FieldNames DEF SameTotals
  <2> QED  BY <1>1, <1>4, <2>2, MinorIsGood
<1> QED  BY <1>1, <1>2, <1>3, <1>4 DEF Attach, Respond

LEMMA DamageKeeps == ASSUME WireInv, NEW s \in Ids, Damage(s)  PROVE WireInv'
<1>1. gone = "no"  BY DEF Damage, Request
<1>2. CASE Dropped("request") /\ ~orderly  BY <1>2, DroppedIsGood
<1>3. CASE /\ core' = [core EXCEPT !.damage[s] = @ + 1] /\ mine' = Recorded(mine)
           /\ UNCHANGED <<orderly, bound, gone>>
  <2>1. DOMAIN core = Fields  BY DEF WireInv, Good, Fields
  <2>2. SameTotals(core, core') /\ core'.obj = core.obj /\ core'.tab = core.tab
    BY <1>3, <2>1, FieldNames DEF SameTotals
  <2> QED  BY <1>1, <1>3, <2>2, MinorIsGood
<1> QED  BY <1>2, <1>3 DEF Damage, Respond, Polite

LEMMA FrameKeeps == ASSUME WireInv, NEW id \in Ids, NEW s, Frame(id, s)  PROVE WireInv'
<1>1. "wl_callback" \in Simple  BY DEF Simple
<1>2. gone = "no" /\ Is("wl_surface", s)  BY NamesIs DEF Frame, Request
<1> QED  BY <1>1, <1>2, CreateKeeps DEF Frame, Polite

LEMMA FeedbackKeeps == ASSUME WireInv, NEW id \in Ids, NEW s, Feedback(id, s)  PROVE WireInv'
<1>1. "wp_presentation_feedback" \in Simple  BY DEF Simple
<1> QED  BY <1>1, CreateKeeps DEF Feedback, Request

LEMMA BindOutputKeeps == ASSUME WireInv, NEW id \in Ids, NEW n, BindOutput(id, n)  PROVE WireInv'
<1>1. "wl_output" \in Simple  BY DEF Simple
<1> QED  BY <1>1, CreateKeeps DEF BindOutput, Request, Polite

LEMMA GetXdgOutputKeeps ==
  ASSUME WireInv, NEW id \in Ids, NEW o, GetXdgOutput(id, o)  PROVE WireInv'
<1>1. "zxdg_output_v1" \in Simple /\ "zxdg_output_v1" \in OfMatched  BY DEF Simple, OfMatched
<1>2. orderly => \A r \in RowsOf(core, "zxdg_output_v1") : r.of # o
  BY <1>1, Unmatched DEF GetXdgOutput, Polite, NoneOn, RowsOf
<1>3. orderly => o \in Keys(core, "wl_output")  BY DEF GetXdgOutput, Polite
<1> QED  BY <1>1, <1>2, <1>3, CreateKeeps DEF GetXdgOutput, Request

LEMMA DestroyXdgOutputKeeps ==
  ASSUME WireInv, NEW x \in Ids, DestroyXdgOutput(x)  PROVE WireInv'
<1>1. "zxdg_output_v1" \in Alone  BY DEF Alone
<1> QED  BY <1>1, LenientKeeps DEF DestroyXdgOutput, Request

-----------------------------------------------------------------------------
(* Shells and extensions *)

LEMMA HasExact ==
  ASSUME WireInv, orderly, NEW k \in Certain, NEW id, Has(k, id)
  PROVE  Is(k, id) /\ id \in Keys(core, k)
<1>1. Is(k, id) /\ id \in Ids  BY HasIs DEF Certain, Exact, Lingering
<1> QED  BY <1>1, IsKey

LEMMA DestroyToplevelKeeps ==
  ASSUME WireInv, NEW t \in Ids, DestroyToplevel(t)
  PROVE  WireInv'
<1>1. "xdg_toplevel" \in Alone  BY DEF Alone
<1> QED  BY <1>1, LenientKeeps DEF DestroyToplevel, Request

LEMMA SetToplevelKeeps ==
  ASSUME WireInv, NEW t, SetToplevel(t)
  PROVE  WireInv'
BY NoteKeeps DEF SetToplevel, Request

LEMMA AckConfigureKeeps ==
  ASSUME WireInv, NEW x \in Ids, NEW ahead, AckConfigure(x, ahead)
  PROVE  WireInv'
<1>1. "xdg_surface" \in Certain \cup NeedsRow  BY DEF Certain, Exact
<1>2. ASSUME orderly
      PROVE  ~ahead /\ \E r \in RowsOf(core, "xdg_surface") : r.id = x /\ r.at = "configured"
  <2>1. ~ahead /\ \E r \in mine : r.k = "xdg_toplevel" /\ r.of = x
    BY <1>2 DEF AckConfigure, Polite
  <2>2. Toplevels(core.tab, mine)  BY <1>2 DEF WireInv, Owns, Knows
  <2> QED  BY <2>1, <2>2 DEF Toplevels, RowsOf
<1> QED  BY <1>1, <1>2, TouchKeeps DEF AckConfigure, Request

LEMMA SetWindowGeometryKeeps ==
  ASSUME WireInv, NEW x \in Ids, NEW positive, SetWindowGeometry(x, positive)
  PROVE  WireInv'
<1>1. "xdg_surface" \in Certain \cup NeedsRow  BY DEF Certain, Exact
<1> QED  BY <1>1, TouchKeeps DEF SetWindowGeometry, Request, Polite

LEMMA CreatePositionerKeeps ==
  ASSUME WireInv, NEW id \in Ids, CreatePositioner(id)
  PROVE  WireInv'
<1>1. "xdg_positioner" \in Simple  BY DEF Simple
<1> QED  BY <1>1, CreateKeeps DEF CreatePositioner, Request

LEMMA SetPositionerKeeps ==
  ASSUME WireInv, NEW p, SetPositioner(p)
  PROVE  WireInv'
BY NoteKeeps DEF SetPositioner, Request

LEMMA DestroyPositionerKeeps ==
  ASSUME WireInv, NEW p \in Ids, DestroyPositioner(p)
  PROVE  WireInv'
<1>1. "xdg_positioner" \in Alone  BY DEF Alone
<1> QED  BY <1>1, LenientKeeps DEF DestroyPositioner, Request

LEMMA GetPopupKeeps ==
  ASSUME WireInv, NEW id \in Ids, NEW x \in Ids, NEW p \in Ids, GetPopup(id, x, p)
  PROVE  WireInv'
<1>1. "xdg_popup" \in Simple /\ "xdg_positioner" \in Certain  BY DEF Simple, Certain, Exact
<1>2. gone = "no" /\ Is("xdg_surface", x)  BY NamesIs DEF GetPopup, Request
<1>3. orderly => p \in Keys(core, "xdg_positioner")
  BY <1>1, HasExact DEF GetPopup, Polite
<1> QED  BY <1>1, <1>2, <1>3, CreateKeeps DEF GetPopup

LEMMA DestroyPopupKeeps ==
  ASSUME WireInv, NEW p \in Ids, DestroyPopup(p)
  PROVE  WireInv'
<1>1. "xdg_popup" \in Alone  BY DEF Alone
<1> QED  BY <1>1, LenientKeeps DEF DestroyPopup, Request

LEMMA SetLayerStateKeeps ==
  ASSUME WireInv, NEW l \in Ids, NEW valid, SetLayerState(l, valid)
  PROVE  WireInv'
<1>1. "zwlr_layer_surface_v1" \in Certain \cup NeedsRow  BY DEF NeedsRow
<1> QED  BY <1>1, TouchKeeps DEF SetLayerState, Request, Polite

LEMMA GetLayerPopupKeeps ==
  ASSUME WireInv, NEW id \in Ids, NEW l \in Ids, NEW p \in Ids, GetLayerPopup(id, l, p)
  PROVE  WireInv'
<1>1. "zwlr_layer_surface_v1" \in NeedsRow /\ "xdg_positioner" \in Certain
  BY DEF NeedsRow, Certain, Exact
<1>2. gone = "no" /\ Is("zwlr_layer_surface_v1", l)  BY NamesIs DEF GetLayerPopup, Request
<1>3. ASSUME orderly  PROVE Refers(id, p) /\ l \in Keys(core, "zwlr_layer_surface_v1")
  <2>1. Is("xdg_positioner", p)  BY <1>1, <1>3, HasExact DEF GetLayerPopup, Polite
  <2>2. Live(core, p)  BY <2>1, NoneAssumption DEF Live, Is, Kinds, Exact
  <2>3. Names("zwlr_layer_surface_v1", l)  BY DEF GetLayerPopup
  <2> QED  BY <1>1, <1>3, <2>2, <2>3, NamesKey DEF Refers
<1> QED  BY <1>2, <1>3, PlainKeeps DEF GetLayerPopup

LEMMA GetSubsurfaceKeeps ==
  ASSUME WireInv, NEW id \in Ids, NEW s \in Ids, NEW parent \in Ids, GetSubsurface(id, s, parent)
  PROVE  WireInv'
<1>1. "wl_subsurface" \in Simple /\ "wl_subsurface" \in OfMatched  BY DEF Simple, OfMatched
<1>2. orderly => s # parent /\ Unclaimed("wl_subsurface", s)
  BY <1>1, Unmatched DEF GetSubsurface, Polite, NoneOn, RoleKinds, Unclaimed, RowsOf
<1> QED  BY <1>1, <1>2, CreateKeeps DEF GetSubsurface, Request

LEMMA SetSubsurfaceKeeps ==
  ASSUME WireInv, NEW b \in Ids, SetSubsurface(b)
  PROVE  WireInv'
<1>1. "wl_subsurface" \in Certain \cup NeedsRow  BY DEF Certain, Exact
<1> QED  BY <1>1, TouchKeeps DEF SetSubsurface, Request

LEMMA DestroySubsurfaceKeeps ==
  ASSUME WireInv, NEW b \in Ids, DestroySubsurface(b)
  PROVE  WireInv'
<1>1. "wl_subsurface" \in Alone  BY DEF Alone
<1> QED  BY <1>1, LenientKeeps DEF DestroySubsurface, Request

LEMMA ExtendKeeps ==
  ASSUME WireInv, gone = "no", NEW k \in Simple \cap OfMatched, NEW id \in Ids, NEW of, NEW target,
         Extend(k, id, of, target)
  PROVE  WireInv'
<1>1. orderly => Unclaimed(k, of)
  BY Unmatched DEF Extend, Polite, NoneOn, Unclaimed, RowsOf
<1> QED  BY <1>1, CreateKeeps DEF Extend

LEMMA GetViewportKeeps ==
  ASSUME WireInv, NEW id \in Ids, NEW of \in Ids, GetViewport(id, of)
  PROVE  WireInv'
<1>1. "wp_viewport" \in Simple \cap OfMatched  BY DEF Simple, OfMatched
<1> QED  BY <1>1, ExtendKeeps DEF GetViewport, Request

LEMMA GetFractionalScaleKeeps ==
  ASSUME WireInv, NEW id \in Ids, NEW of \in Ids, GetFractionalScale(id, of)
  PROVE  WireInv'
<1>1. "wp_fractional_scale_v1" \in Simple \cap OfMatched  BY DEF Simple, OfMatched
<1> QED  BY <1>1, ExtendKeeps DEF GetFractionalScale, Request

LEMMA GetDecorationKeeps ==
  ASSUME WireInv, NEW id \in Ids, NEW of \in Ids, GetDecoration(id, of)
  PROVE  WireInv'
<1>1. "zxdg_toplevel_decoration_v1" \in Simple \cap OfMatched  BY DEF Simple, OfMatched
<1> QED  BY <1>1, ExtendKeeps DEF GetDecoration, Request

LEMMA SetViewportKeeps ==
  ASSUME WireInv, NEW v \in Ids, NEW positive, SetViewport(v, positive)
  PROVE  WireInv'
<1>1. "wp_viewport" \in Certain \cup NeedsRow  BY DEF Certain, Exact
<1> QED  BY <1>1, TouchKeeps DEF SetViewport, Request, Polite

LEMMA DestroyViewportKeeps ==
  ASSUME WireInv, NEW v \in Ids, DestroyViewport(v)
  PROVE  WireInv'
<1>1. "wp_viewport" \in Alone  BY DEF Alone
<1> QED  BY <1>1, LenientKeeps DEF DestroyViewport, Request

LEMMA DestroyFractionalScaleKeeps ==
  ASSUME WireInv, NEW f \in Ids, DestroyFractionalScale(f)
  PROVE  WireInv'
<1>1. "wp_fractional_scale_v1" \in Alone  BY DEF Alone
<1> QED  BY <1>1, LenientKeeps DEF DestroyFractionalScale, Request

LEMMA SetDecorationModeKeeps ==
  ASSUME WireInv, NEW d \in Ids, NEW known, SetDecorationMode(d, known)
  PROVE  WireInv'
<1>1. "zxdg_toplevel_decoration_v1" \in Certain \cup NeedsRow  BY DEF Certain, Exact
<1> QED  BY <1>1, TouchKeeps DEF SetDecorationMode, Request, Polite

LEMMA DestroyDecorationKeeps ==
  ASSUME WireInv, NEW d \in Ids, DestroyDecoration(d)
  PROVE  WireInv'
<1>1. "zxdg_toplevel_decoration_v1" \in Alone  BY DEF Alone
<1> QED  BY <1>1, LenientKeeps DEF DestroyDecoration, Request

-----------------------------------------------------------------------------
(* Seats, data devices, text and capture: the requests of one object *)

LEMMA GetKeyboardKeeps ==
  ASSUME WireInv, NEW id \in Ids, GetKeyboard(id)
  PROVE  WireInv'
<1>1. "wl_keyboard" \in Simple  BY DEF Simple
<1> QED  BY <1>1, CreateKeeps DEF GetKeyboard, Request

LEMMA GetPointerKeeps ==
  ASSUME WireInv, NEW id \in Ids, GetPointer(id)
  PROVE  WireInv'
<1>1. "wl_pointer" \in Simple /\ "wl_pointer" \notin OfMatched \cup AtMatched
  BY DEF Simple, OfMatched, AtMatched, NeedsRow, Constraints
<1>2. PICK f \in (IF Surfaces = {} THEN {None} ELSE Surfaces) :
        /\ Offers(id)
        /\ Respond(Fresh(core, id),
                   [core EXCEPT !.obj[id] = "wl_pointer",
                                !.tab = Put(core, Row("wl_pointer", id, f, None))],
                   mine \cup {Row("wl_pointer", id, None, None)})
  BY DEF GetPointer
<1>3. gone = "no" /\ Fresh(core, id)  BY <1>2, OffersFresh DEF GetPointer, Request
<1>4. /\ core' = [core EXCEPT !.obj[id] = "wl_pointer",
                              !.tab = Put(core, Row("wl_pointer", id, f, None))]
      /\ mine' = Recorded(mine \cup {Row("wl_pointer", id, None, None)})
      /\ UNCHANGED <<orderly, bound, gone>>
  BY <1>2, <1>3 DEF Respond
<1> QED  BY <1>1, <1>2, <1>3, <1>4, CreateIsGood

LEMMA GetRelativePointerKeeps ==
  ASSUME WireInv, NEW id \in Ids, NEW p \in Ids, GetRelativePointer(id, p)
  PROVE  WireInv'
<1>1. "zwp_relative_pointer_v1" \in Simple /\ "wl_pointer" \in Certain
  BY DEF Simple, Certain, Exact
<1>2. ASSUME orderly  PROVE Refers(id, p)
  <2>1. Is("wl_pointer", p)
    BY <1>1, <1>2, HasExact DEF GetRelativePointer, Polite
  <2> QED  BY <2>1, NoneAssumption DEF Refers, Live, Is, Kinds, Exact
<1> QED  BY <1>1, <1>2, CreateKeeps DEF GetRelativePointer, Request

LEMMA DestroyRelativePointerKeeps ==
  ASSUME WireInv, NEW r \in Ids, DestroyRelativePointer(r)
  PROVE  WireInv'
<1>1. "zwp_relative_pointer_v1" \in Alone /\ "zwp_relative_pointer_v1" \in NeedsRow
  BY DEF Alone, NeedsRow
<1>2. orderly => r \in Keys(core, "zwp_relative_pointer_v1")
  BY <1>1, NamesKey DEF DestroyRelativePointer, Strict, Destroy
<1> QED  BY <1>1, <1>2, DestroyKeeps DEF DestroyRelativePointer, Strict, Request

LEMMA SetConstraintKeeps ==
  ASSUME WireInv, NEW k \in Constraints, NEW c \in Ids, SetConstraint(k, c)
  PROVE  WireInv'
<1>1. k \in Certain \cup NeedsRow  BY DEF NeedsRow
<1> QED  BY <1>1, TouchKeeps DEF SetConstraint, Request

LEMMA CreateSourceKeeps ==
  ASSUME WireInv, NEW id \in Ids, CreateSource(id)
  PROVE  WireInv'
<1>1. "wl_data_source" \in Simple  BY DEF Simple
<1> QED  BY <1>1, CreateKeeps DEF CreateSource, Request

LEMMA OfferTypeKeeps ==
  ASSUME WireInv, NEW x, OfferType(x)
  PROVE  WireInv'
BY NoteKeeps DEF OfferType, Request

LEMMA GetDataDeviceKeeps ==
  ASSUME WireInv, NEW id \in Ids, GetDataDevice(id)
  PROVE  WireInv'
<1>1. "wl_data_device" \in Simple  BY DEF Simple
<1> QED  BY <1>1, CreateKeeps DEF GetDataDevice, Request

LEMMA StartDragKeeps ==
  ASSUME WireInv, NEW d \in Ids, NEW x, StartDrag(d, x)
  PROVE  WireInv'
<1>1. "wl_data_device" \in Certain /\ "wl_data_source" \in Certain  BY DEF Certain, Lingering
<1>2. gone = "no" /\ Is("wl_data_device", d) /\ d \in Keys(core, "wl_data_device")
  BY <1>1, NamesIs, IsKey DEF StartDrag, Request
<1>3. orderly /\ x # None => x \in Keys(core, "wl_data_source")
  BY <1>1, HasExact DEF StartDrag, Polite
<1> QED  BY <1>2, <1>3, IdleKeeps DEF StartDrag

LEMMA GetTextInputKeeps ==
  ASSUME WireInv, NEW id \in Ids, GetTextInput(id)
  PROVE  WireInv'
<1>1. "zwp_text_input_v3" \in Simple  BY DEF Simple
<1> QED  BY <1>1, CreateKeeps DEF GetTextInput, Request

LEMMA DestroyTextInputKeeps ==
  ASSUME WireInv, NEW t \in Ids, DestroyTextInput(t)
  PROVE  WireInv'
<1>1. "zwp_text_input_v3" \in Alone  BY DEF Alone
<1> QED  BY <1>1, LenientKeeps DEF DestroyTextInput, Request

LEMMA SetTextStateKeeps ==
  ASSUME WireInv, NEW t, SetTextState(t)
  PROVE  WireInv'
BY NoteKeeps DEF SetTextState, Request

LEMMA CommitTextKeeps ==
  ASSUME WireInv, NEW t \in Ids, CommitText(t)
  PROVE  WireInv'
<1>1. "zwp_text_input_v3" \in Certain \cup NeedsRow  BY DEF Certain, Exact
<1> QED  BY <1>1, TouchKeeps DEF CommitText, Request

LEMMA GetInputMethodKeeps ==
  ASSUME WireInv, NEW id \in Ids, GetInputMethod(id)
  PROVE  WireInv'
<1>1. "zwp_input_method_v2" \in Simple  BY DEF Simple
<1>2. ASSUME orderly  PROVE RowsOf(core, "zwp_input_method_v2") = {}
  <2> SUFFICES ASSUME NEW r \in core.tab, r.k = "zwp_input_method_v2"  PROVE FALSE
    BY DEF RowsOf
  <2>1. r.k \notin Lingering /\ Base(r.k) = r.k  BY DEF Lingering, Base
  <2>2. \E q \in mine : q.k = r.k  BY <1>2, <2>1, RowIsKnown
  <2> QED  BY <1>2, <2>2 DEF GetInputMethod, Polite
<1> QED  BY <1>1, <1>2, CreateKeeps DEF GetInputMethod, Request

LEMMA InputMethodRequestKeeps ==
  ASSUME WireInv, NEW i \in Ids, InputMethodRequest(i)
  PROVE  WireInv'
<1>1. "zwp_input_method_v2" \in Certain \cup NeedsRow  BY DEF Certain, Exact
<1> QED  BY <1>1, TouchKeeps DEF InputMethodRequest, Request

LEMMA GetInputPopupKeeps ==
  ASSUME WireInv, NEW id \in Ids, NEW i, NEW s, GetInputPopup(id, i, s)
  PROVE  WireInv'
<1>1. "zwp_input_popup_surface_v2" \in Simple  BY DEF Simple
<1>2. gone = "no" /\ Is("zwp_input_method_v2", i)  BY NamesIs DEF GetInputPopup, Request
<1> QED  BY <1>1, <1>2, CreateKeeps DEF GetInputPopup

LEMMA DestroyInputPopupKeeps ==
  ASSUME WireInv, NEW p \in Ids, DestroyInputPopup(p)
  PROVE  WireInv'
<1>1. "zwp_input_popup_surface_v2" \in Alone  BY DEF Alone
<1> QED  BY <1>1, LenientKeeps DEF DestroyInputPopup, Request

LEMMA CreateConfigurationKeeps ==
  ASSUME WireInv, NEW id \in Ids, CreateConfiguration(id)
  PROVE  WireInv'
<1>1. "zwlr_output_configuration_v1" \in Simple  BY DEF Simple
<1> QED  BY <1>1, CreateKeeps DEF CreateConfiguration, Request

LEMMA ApplyConfigurationKeeps ==
  ASSUME WireInv, NEW c \in Ids, ApplyConfiguration(c)
  PROVE  WireInv'
<1>1. "zwlr_output_configuration_v1" \in Certain \cup NeedsRow  BY DEF Certain, Exact
<1> QED  BY <1>1, TouchKeeps DEF ApplyConfiguration, Request

LEMMA EnableHeadKeeps ==
  ASSUME WireInv, NEW id \in Ids, NEW c \in Ids, NEW h \in Ids, EnableHead(id, c, h)
  PROVE  WireInv'
<1> DEFINE k == "zwlr_output_configuration_head_v1"
<1>1. /\ k \in Simple /\ "zwlr_output_configuration_v1" \in Certain
      /\ k \in OfMatched /\ k \in AtMatched /\ k \notin Lingering /\ Base(k) = k
  BY DEF Simple, Certain, Exact, OfMatched, AtMatched, Lingering, Base
<1>2. /\ gone = "no"
      /\ Is("zwlr_output_configuration_v1", c) /\ c \in Keys(core, "zwlr_output_configuration_v1")
  BY <1>1, NamesIs, IsKey DEF EnableHead, Request
<1>3. ASSUME orderly  PROVE \A r \in RowsOf(core, k) : ~(r.of = c /\ r.at = h)
  <2> SUFFICES ASSUME NEW r \in core.tab, r.k = k, r.of = c, r.at = h  PROVE FALSE
    BY DEF RowsOf
  <2>1. \E q \in mine : q.k = k /\ q.of = c /\ q.at = h
    BY <1>1, <1>3, RowIsKnown
  <2> QED  BY <1>3, <2>1 DEF EnableHead, Polite
<1> QED  BY <1>1, <1>2, <1>3, CreateKeeps DEF EnableHead

LEMMA CaptureOutputKeeps ==
  ASSUME WireInv, NEW id \in Ids, NEW positive, CaptureOutput(id, positive)
  PROVE  WireInv'
<1>1. "zwlr_screencopy_frame_v1" \in Simple  BY DEF Simple
<1> QED  BY <1>1, CreateKeeps DEF CaptureOutput, Request, Polite

LEMMA CopyFrameKeeps ==
  ASSUME WireInv, NEW f \in Ids, CopyFrame(f)
  PROVE  WireInv'
<1>1. "zwlr_screencopy_frame_v1" \in Certain \cup NeedsRow  BY DEF Certain, Exact
<1> QED  BY <1>1, TouchKeeps DEF CopyFrame, Request

LEMMA DestroyFrameKeeps ==
  ASSUME WireInv, NEW f \in Ids, DestroyFrame(f)
  PROVE  WireInv'
<1>1. "zwlr_screencopy_frame_v1" \in Alone  BY DEF Alone
<1> QED  BY <1>1, LenientKeeps DEF DestroyFrame, Request

LEMMA CreateSessionKeeps ==
  ASSUME WireInv, NEW id \in Ids, CreateSession(id)
  PROVE  WireInv'
<1>1. "ext_image_copy_capture_session_v1" \in Simple  BY DEF Simple
<1> QED  BY <1>1, CreateKeeps DEF CreateSession, Request

LEMMA DestroySessionKeeps ==
  ASSUME WireInv, NEW x \in Ids, DestroySession(x)
  PROVE  WireInv'
<1>1. "ext_image_copy_capture_session_v1" \in Alone  BY DEF Alone
<1> QED  BY <1>1, LenientKeeps DEF DestroySession, Request

LEMMA CreateCaptureFrameKeeps ==
  ASSUME WireInv, NEW id \in Ids, NEW x \in Ids, CreateCaptureFrame(id, x)
  PROVE  WireInv'
<1> DEFINE k == "ext_image_copy_capture_session_v1"
<1>1. "ext_image_copy_capture_frame_v1" \in Simple /\ k \in Certain
  BY DEF Simple, Certain, Exact
<1>2. gone = "no" /\ Is(k, x) /\ x \in Keys(core, k)
  BY <1>1, NamesIs, IsKey DEF CreateCaptureFrame, Request
<1> QED  BY <1>1, <1>2, CreateKeeps DEF CreateCaptureFrame

LEMMA CopyCaptureFrameKeeps ==
  ASSUME WireInv, NEW f \in Ids, CopyCaptureFrame(f)
  PROVE  WireInv'
<1>1. "ext_image_copy_capture_frame_v1" \in Certain \cup NeedsRow  BY DEF Certain, Exact
<1> QED  BY <1>1, TouchKeeps DEF CopyCaptureFrame, Request

LEMMA DestroyCaptureFrameKeeps ==
  ASSUME WireInv, NEW f \in Ids, DestroyCaptureFrame(f)
  PROVE  WireInv'
<1>1. "ext_image_copy_capture_frame_v1" \in Alone  BY DEF Alone
<1> QED  BY <1>1, LenientKeeps DEF DestroyCaptureFrame, Request

-----------------------------------------------------------------------------
(* Roles *)

LEMMA RowOfIs ==
  ASSUME WireInv, NEW k, NEW id, id \in Keys(core, k)
  PROVE  /\ RowOf(k, id) \in core.tab /\ RowOf(k, id).k = k /\ RowOf(k, id).id = id
         /\ \A r \in core.tab : r.k = k /\ r.id = id => r = RowOf(k, id)
<1>1. \E r \in RowsOf(core, k) : r.id = id  BY DEF Keys
<1>2. RowOf(k, id) \in RowsOf(core, k) /\ RowOf(k, id).id = id  BY <1>1 DEF RowOf
<1> QED  BY <1>2 DEF RowsOf, WireInv, Good, Registered

LEMMA RoleOfIs == \A k : RoleOf(k) \in {"xdg_surface", "layer_surface"} /\ RoleOf(k) # None
BY NoneAssumption DEF RoleOf, Kinds, Exact

LEMMA NoRole ==
  ASSUME WireInv, orderly, NEW s \in Ids, NoneOn(RoleKinds, s)
  PROVE  /\ core.role[s] = None
         /\ Unclaimed("xdg_surface", s) /\ Unclaimed("zwlr_layer_surface_v1", s)
<1>1. \A k \in RoleKeepers : k \in OfMatched /\ k \in RoleKinds
  BY DEF RoleKeepers, OfMatched, NeedsRow, RoleKinds
<1>2. \A k \in RoleKeepers : \A r \in core.tab : r.k = k => r.of # s
  BY <1>1, Unmatched DEF NoneOn
<1>3. Roled(Rows(core.tab, RoleKeepers), core.role)  BY DEF WireInv, Owns
<1>4. core.role[s] = None  BY <1>2, <1>3 DEF Roled, Rows
<1> QED  BY <1>2, <1>4 DEF Unclaimed, RowsOf, RoleKeepers

LEMMA RoleGiven ==
  ASSUME WireInv, gone = "no", NEW k \in RoleKeepers, NEW id \in Ids, NEW s \in Ids, Offers(id),
         core.role[s] = None, NEW v, v = RoleOf(k),
         core' = [core EXCEPT !.obj[id] = k, !.role[s] = v,
                              !.tab = Put(core, Row(k, id, s, None))],
         mine' = Recorded(mine \cup {Row(k, id, s, None)}), UNCHANGED <<orderly, bound, gone>>
  PROVE  WireInv'
<1>1. DOMAIN core = Fields /\ Good(core)  BY DEF WireInv, Good, Fields
<1>2. /\ core'.obj = SetObj(core.obj, id, k)
      /\ core'.tab = AddRow(core.tab, Row(k, id, s, None))
      /\ core'.role = [core.role EXCEPT ![s] = v]
      /\ DOMAIN core' = Fields
      /\ core'.pairs = core.pairs /\ core'.counts = core.counts /\ core'.inhibited = core.inhibited
      /\ core'.store = core.store /\ core'.fake = core.fake
  BY <1>1, FieldNames DEF SetObj, AddRow, Put, Row
<1>3. core'.selection = core.selection /\ core'.over = core.over /\ core'.adv = core.adv
      /\ core'.member = core.member
  BY <1>1, FieldNames
<1>4. k \in Creatable  BY DEF Creatable
<1>5. /\ Registered(core'.obj, core'.tab)
      /\ Selected(core'.tab, core'.selection)
      /\ Covered(Rows(core'.tab, {"wl_output"}), core'.obj, core'.over, core'.adv, core'.member)
      /\ \A K : k \notin K => Rows(core'.tab, K) = Rows(core.tab, K)
      /\ \A K : k \in K /\ k \notin Lingering =>
           Rows(core'.tab, K) = Rows(core.tab, K) \cup {Row(k, id, s, None)}
      /\ orderly => Knows(core'.obj, core'.tab, mine \cup {Row(k, id, s, None)})
  BY <1>2, <1>3, <1>4, NewObject
<1>6. k \notin Constraints \cup Inhibitor \cup ShmKinds \cup Lingering
  BY DEF RoleKeepers, Constraints, Inhibitor, ShmKinds, Lingering
<1>7. core'.role \in [Ids -> {None, "xdg_surface", "layer_surface"}]
  BY <1>1, <1>2, RoleOfIs DEF Good
<1>8. Good(core')  BY <1>1, <1>2, <1>5, <1>6, <1>7 DEF Good, Fields
<1>9. ASSUME orderly  PROVE Owns(core', mine')
  <2>1. Roled(Rows(core.tab, RoleKeepers), core.role)  BY <1>9 DEF WireInv, Owns
  <2>2. Rows(core'.tab, RoleKeepers) = Rows(core.tab, RoleKeepers) \cup {Row(k, id, s, None)}
    BY <1>5, <1>6
  <2> DEFINE T == Rows(core.tab, RoleKeepers)
             r == Row(k, id, s, None)
  <2>3. r.of = s /\ r.k = k  BY DEF Row
  <2> HIDE DEF T, r
  <2>4. core'.role[s] = v /\ \A x \in Ids : x # s => core'.role[x] = core.role[x]
    BY <1>1, <1>2 DEF Good
  <2>5. \A q \in T : q.of # s  BY <2>1, RoleOfIs DEF Roled, T
  <2>6. Roled(T \cup {r}, core'.role)  BY <2>1, <2>3, <2>4, <2>5 DEF Roled, T
  <2> QED  BY <1>5, <1>9, <2>2, <2>6 DEF Owns, Recorded, T, r
<1>10. ~orderly => mine' = {}  BY DEF Recorded
<1> QED  BY <1>8, <1>9, <1>10, AnswerIsGood

LEMMA GetXdgSurfaceKeeps ==
  ASSUME WireInv, NEW id \in Ids, NEW s \in Ids, GetXdgSurface(id, s)  PROVE WireInv'
<1>1. gone = "no" /\ Offers(id) /\ Fresh(core, id)  BY OffersFresh DEF GetXdgSurface, Request
<1>2. ASSUME orderly
      PROVE  Unclaimed("xdg_surface", s) /\ Refers(id, s) /\ core.role[s] = None
  <2>1. Has("wl_surface", s) /\ NoneOn(RoleKinds, s)  BY <1>2 DEF GetXdgSurface, Polite
  <2>2. Is("wl_surface", s)  BY <1>2, <2>1, HasIs
  <2> QED  BY <1>2, <2>1, <2>2, NoRole, NoneAssumption DEF Refers, Live, Is, Kinds, Exact
<1>3. CASE Dropped("request") /\ ~orderly  BY <1>3, DroppedIsGood
<1>4. CASE /\ core.role[s] = None
           /\ core' = [core EXCEPT !.obj[id] = "xdg_surface", !.role[s] = "xdg_surface",
                          !.tab = Put(core, Row("xdg_surface", id, s, None))]
           /\ mine' = Recorded(mine \cup {Row("xdg_surface", id, s, None)})
           /\ UNCHANGED <<orderly, bound, gone>>
  <2>1. "xdg_surface" \in RoleKeepers /\ "xdg_surface" = RoleOf("xdg_surface")
    BY DEF RoleKeepers, RoleOf
  <2> QED  BY <1>1, <1>4, <2>1, RoleGiven
<1> QED  BY <1>1, <1>2, <1>3, <1>4 DEF GetXdgSurface, Respond

LEMMA GetLayerSurfaceKeeps ==
  ASSUME WireInv, NEW id \in Ids, NEW s \in Ids, GetLayerSurface(id, s)  PROVE WireInv'
<1>1. gone = "no" /\ Offers(id) /\ Fresh(core, id)  BY OffersFresh DEF GetLayerSurface, Request
<1>2. ASSUME orderly
      PROVE  Unclaimed("zwlr_layer_surface_v1", s) /\ Refers(id, s) /\ core.role[s] = None
  <2>1. Has("wl_surface", s) /\ NoneOn(RoleKinds, s)  BY <1>2 DEF GetLayerSurface, Polite
  <2>2. Is("wl_surface", s)  BY <1>2, <2>1, HasIs
  <2> QED  BY <1>2, <2>1, <2>2, NoRole, NoneAssumption DEF Refers, Live, Is, Kinds, Exact
<1>3. CASE Dropped("request") /\ ~orderly  BY <1>3, DroppedIsGood
<1>4. CASE /\ core.role[s] = None
           /\ core' = [core EXCEPT !.obj[id] = "zwlr_layer_surface_v1", !.role[s] = "layer_surface",
                          !.tab = Put(core, Row("zwlr_layer_surface_v1", id, s, None))]
           /\ mine' = Recorded(mine \cup {Row("zwlr_layer_surface_v1", id, s, None)})
           /\ UNCHANGED <<orderly, bound, gone>>
  <2>1. "zwlr_layer_surface_v1" \in RoleKeepers
        /\ "layer_surface" = RoleOf("zwlr_layer_surface_v1")
    BY DEF RoleKeepers, RoleOf
  <2> QED  BY <1>1, <1>4, <2>1, RoleGiven
<1> QED  BY <1>1, <1>2, <1>3, <1>4 DEF GetLayerSurface, Respond

LEMMA RoleTaken ==
  ASSUME WireInv, gone = "no", NEW k \in RoleKeepers, NEW id \in Ids, Is(k, id),
         id \in Keys(core, k), orderly => Unreferenced(id),
         core' = [Released(k, id) EXCEPT !.obj[id] = None, !.tab = Without(Released(k, id), k, id)],
         mine' = Recorded({r \in mine : r.id # id}), UNCHANGED <<orderly, bound, gone>>
  PROVE  WireInv'
<1> DEFINE row == RowOf(k, id)
           x == row.of
           c == Released(k, id)
<1>1. DOMAIN core = Fields /\ Good(core)  BY DEF WireInv, Good, Fields
<1>2. /\ row \in core.tab /\ row.k = k /\ row.id = id
      /\ \A r \in core.tab : r.k = k /\ r.id = id => r = row
  BY RowOfIs
<1>3. c = [core EXCEPT !.role[x] = None]  BY DEF Released
<1> HIDE DEF row, x
<1>4. /\ c.tab = core.tab /\ c.obj = core.obj /\ c.role = [core.role EXCEPT ![x] = None]
      /\ DOMAIN c = Fields
      /\ c.pairs = core.pairs /\ c.counts = core.counts /\ c.inhibited = core.inhibited
      /\ c.store = core.store /\ c.fake = core.fake
      /\ c.selection = core.selection /\ c.over = core.over /\ c.adv = core.adv
      /\ c.member = core.member
  BY <1>1, <1>3, FieldNames
<1>5. core' = [c EXCEPT !.obj[id] = None, !.tab = Without(c, k, id)]  OBVIOUS
<1> HIDE DEF c
<1>6. /\ core'.obj = SetObj(core.obj, id, None)
      /\ core'.tab = DropRow(core.tab, k, id)
      /\ core'.role = [core.role EXCEPT ![x] = None]
      /\ DOMAIN core' = Fields
      /\ core'.pairs = core.pairs /\ core'.counts = core.counts /\ core'.inhibited = core.inhibited
      /\ core'.store = core.store /\ core'.fake = core.fake
  <2>1. core'.obj = [c.obj EXCEPT ![id] = None] /\ core'.tab = Without(c, k, id)
    BY <1>4, <1>5, FieldNames
  <2>2. DOMAIN c = {"obj", "tab", "role", "pairs", "counts", "inhibited", "pending", "current",
                    "damage", "over", "member", "store", "fake", "adv", "selection", "shown", "input"}
    BY <1>4, FieldNames
  <2>3. DOMAIN core' = Fields  BY <1>4, <1>5
  <2>4. core'.role = c.role /\ core'.pairs = c.pairs  BY <1>5, <2>2
  <2>5. core'.counts = c.counts /\ core'.inhibited = c.inhibited  BY <1>5, <2>2
  <2>6. core'.store = c.store /\ core'.fake = c.fake  BY <1>5, <2>2
  <2>7. Without(c, k, id) = DropRow(core.tab, k, id)  BY <1>4 DEF DropRow, Without
  <2> QED  BY <1>4, <2>1, <2>3, <2>4, <2>5, <2>6, <2>7 DEF SetObj
<1>7. core'.selection = core.selection /\ core'.over = core.over /\ core'.adv = core.adv
      /\ core'.member = core.member
  <2>1. DOMAIN c = {"obj", "tab", "role", "pairs", "counts", "inhibited", "pending", "current",
                    "damage", "over", "member", "store", "fake", "adv", "selection", "shown", "input"}
    BY <1>4, FieldNames
  <2>2. core'.selection = c.selection /\ core'.over = c.over  BY <1>5, <2>1
  <2>3. core'.adv = c.adv /\ core'.member = c.member  BY <1>5, <2>1
  <2> QED  BY <1>4, <2>2, <2>3
<1>8. k \in Destroyable  BY DEF Destroyable
<1>9. core'.tab \subseteq DropRow(core.tab, k, id) /\ DropRow(core.tab, k, id) \ core'.tab = {}
  BY <1>6
<1>10. /\ Registered(core'.obj, core'.tab)
       /\ Selected(core'.tab, core'.selection)
       /\ Covered(Rows(core'.tab, {"wl_output"}), core'.obj, core'.over, core'.adv, core'.member)
       /\ orderly => Knows(core'.obj, core'.tab, {q \in mine : q.id # id})
  BY <1>6, <1>7, <1>8, <1>9, OldObject
<1>11. k \notin Constraints \cup Inhibitor \cup ShmKinds
  BY DEF RoleKeepers, Constraints, Inhibitor, ShmKinds
<1>12. \A K : k \notin K => Rows(core'.tab, K) = Rows(core.tab, K)
  BY <1>6, RowsAfterDrop
<1>13. core'.role \in [Ids -> {None, "xdg_surface", "layer_surface"}]
  BY <1>1, <1>6 DEF Good
<1>14. Good(core')  BY <1>1, <1>6, <1>10, <1>11, <1>12, <1>13 DEF Good, Fields
<1>15. ASSUME orderly  PROVE Owns(core', mine')
  <2> DEFINE T == Rows(core.tab, RoleKeepers)
             U == Rows(core'.tab, RoleKeepers)
  <2>1. Roled(T, core.role)  BY <1>15 DEF WireInv, Owns
  <2>2. U = T \ {row} /\ row \in T  BY <1>2, <1>6 DEF Rows, DropRow
  <2> HIDE DEF T, U
  <2>3. x \in Ids /\ \A q \in U : q.of # x  BY <2>1, <2>2 DEF Roled, x
  <2>4. core'.role[x] = None /\ \A y \in Ids : y # x => core'.role[y] = core.role[y]
    BY <1>1, <1>6, <2>3 DEF Good
  <2>5. Roled(U, core'.role)
    <3>1. \A y \in Ids : core'.role[y] # None => \E r \in U : r.of = y
      <4> SUFFICES ASSUME NEW y \in Ids, core'.role[y] # None  PROVE \E r \in U : r.of = y
        OBVIOUS
      <4>1. y # x /\ core.role[y] # None  BY <2>4
      <4>2. PICK r \in T : r.of = y  BY <2>1, <4>1 DEF Roled
      <4> QED  BY <2>2, <4>1, <4>2 DEF x
    <3>2. \A r \in U : r.of \in Ids /\ core'.role[r.of] = RoleOf(r.k)
      BY <2>1, <2>2, <2>3, <2>4 DEF Roled
    <3>3. \A r, q \in U : r.of = q.of => r = q  BY <2>1, <2>2 DEF Roled
    <3> QED  BY <3>1, <3>2, <3>3 DEF Roled
  <2> QED  BY <1>10, <1>15, <2>5 DEF Owns, Recorded, U
<1>16. ~orderly => mine' = {}  BY DEF Recorded
<1> QED  BY <1>14, <1>15, <1>16, AnswerIsGood

LEMMA DestroyXdgSurfaceKeeps ==
  ASSUME WireInv, NEW x \in Ids, DestroyXdgSurface(x)  PROVE WireInv'
<1>1. gone = "no" /\ Destroy("xdg_surface", x, TRUE, Released("xdg_surface", x))
  BY DEF DestroyXdgSurface, Request
<1>2. Is("xdg_surface", x) /\ (orderly => Unreferenced(x))
  BY <1>1, NamesIs DEF Destroy, Polite
<1>3. x \in Keys(core, "xdg_surface")  BY <1>2, IsKey DEF Certain, Exact
<1>4. "xdg_surface" \in RoleKeepers  BY DEF RoleKeepers
<1>5. /\ core' = [Released("xdg_surface", x) EXCEPT !.obj[x] = None,
                    !.tab = Without(Released("xdg_surface", x), "xdg_surface", x)]
      /\ mine' = Recorded({r \in mine : r.id # x}) /\ UNCHANGED <<orderly, bound, gone>>
  BY <1>1, <1>2 DEF Destroy, Respond
<1> QED  BY <1>1, <1>2, <1>3, <1>4, <1>5, RoleTaken

LEMMA DestroyLayerSurfaceKeeps ==
  ASSUME WireInv, NEW l \in Ids, DestroyLayerSurface(l)  PROVE WireInv'
<1> DEFINE k == "zwlr_layer_surface_v1"
<1>1. gone = "no" /\ Destroy(k, l, l \in Keys(core, k), Released(k, l))
  BY DEF DestroyLayerSurface, Request
<1>2. Names(k, l) /\ Is(k, l) /\ (orderly => Unreferenced(l))
  BY <1>1, NamesIs DEF Destroy, Polite
<1>3. orderly => l \in Keys(core, k)  BY <1>2, NamesKey DEF NeedsRow
<1>4. k \in RoleKeepers  BY DEF RoleKeepers
<1>5. CASE Dropped("request") /\ ~orderly  BY <1>5, DroppedIsGood
<1>6. CASE /\ l \in Keys(core, k)
           /\ core' = [Released(k, l) EXCEPT !.obj[l] = None,
                         !.tab = Without(Released(k, l), k, l)]
           /\ mine' = Recorded({r \in mine : r.id # l}) /\ UNCHANGED <<orderly, bound, gone>>
  BY <1>1, <1>2, <1>4, <1>6, RoleTaken
<1> QED  BY <1>1, <1>2, <1>3, <1>5, <1>6 DEF Destroy, Respond

-----------------------------------------------------------------------------
(* A row that is replaced under the key it has *)

LEMMA ReplaceRow ==
  ASSUME NEW obj, NEW tab, Registered(obj, tab), NEW r \in tab, NEW q, IsRow(q),
         q.k = r.k, q.id = r.id
  PROVE  Registered(obj, AddRow(tab, q)) /\ AddRow(tab, q) = (tab \ {r}) \cup {q}
<1>1. \A p \in tab : p.k = q.k /\ p.id = q.id => p = r  BY DEF Registered
<1>2. AddRow(tab, q) = (tab \ {r}) \cup {q}  BY <1>1 DEF AddRow
<1> DEFINE t == (tab \ {r}) \cup {q}
<1>3. \A p \in t : p = q \/ (p \in tab /\ p # r)  OBVIOUS
<1>4. \A p \in tab : p = r \/ p \in t  OBVIOUS
<1>5. q \in t  OBVIOUS
<1> HIDE DEF t
<1>6. \A p \in t : IsRow(p)  BY <1>3 DEF Registered
<1>7. \A p \in t : p.k \notin Lingering => obj[p.id] = Base(p.k)  BY <1>3 DEF Registered
<1>8. \A p, u \in t : p.id = u.id /\ Base(p.k) = Base(u.k) => p = u
  BY <1>3 DEF Registered
<1>9. \A i \in Ids : obj[i] \in Certain => \E p \in t : p.k = obj[i] /\ p.id = i
  <2> SUFFICES ASSUME NEW i \in Ids, obj[i] \in Certain  PROVE \E p \in t : p.k = obj[i] /\ p.id = i
    OBVIOUS
  <2>1. PICK p \in tab : p.k = obj[i] /\ p.id = i  BY DEF Registered
  <2> QED  BY <1>4, <1>5, <2>1
<1>10. Registered(obj, t)  BY <1>6, <1>7, <1>8, <1>9 DEF Registered
<1> QED  BY <1>2, <1>10 DEF t

LEMMA KnowsReplaced ==
  ASSUME NEW obj, NEW tab, NEW m, Knows(obj, tab, m), Registered(obj, tab), NEW r \in tab, NEW q,
         IsRow(q), q.k = r.k, q.id = r.id,
         q.k \in OfMatched \cup {"wl_pointer"} => q.of = r.of, q.k \in AtMatched => q.at = r.at,
         q.k = "xdg_surface" => q.at = r.at \/ q.at = "configured"
  PROVE  Knows(obj, AddRow(tab, q), m)
<1> DEFINE t == AddRow(tab, q)
<1>1. t = (tab \ {r}) \cup {q}  BY ReplaceRow
<1>2. \A p \in t : p = q \/ (p \in tab /\ p # r)  BY <1>1
<1>3. \A p \in tab : p = r \/ p \in t  BY <1>1
<1>4. q \in t  BY <1>1
<1> HIDE DEF t
<1>5. Matched(t, m)
  <2>1. ASSUME NEW p \in m, p.k \in NeedsRow  PROVE \E x \in t : x.k = p.k /\ x.id = p.id
    <3>1. PICK x \in tab : x.k = p.k /\ x.id = p.id  BY <2>1 DEF Knows, Matched
    <3> QED  BY <3>1, <1>3, <1>4
  <2>2. ASSUME NEW p \in m, NEW x \in t, p.k = x.k, p.id = x.id
        PROVE  (p.k \in OfMatched => p.of = x.of) /\ (p.k \in AtMatched => p.at = x.at)
    <3>1. CASE x = q  BY <2>2, <3>1 DEF Knows, Matched
    <3>2. CASE x \in tab  BY <2>2, <3>2 DEF Knows, Matched
    <3> QED  BY <1>2, <3>1, <3>2
  <2> QED  BY <2>1, <2>2 DEF Matched
<1>6. Toplevels(t, m)
  <2> SUFFICES ASSUME NEW p \in m, p.k = "xdg_toplevel"
               PROVE  \E x \in t : x.k = "xdg_surface" /\ x.id = p.of /\ x.at = "configured"
    BY DEF Toplevels
  <2>1. PICK x \in tab : x.k = "xdg_surface" /\ x.id = p.of /\ x.at = "configured"
    BY DEF Knows, Toplevels
  <2> QED  BY <2>1, <1>3, <1>4
<1>7. Focused(t, m)
  <2> SUFFICES ASSUME NEW p \in m, p.k = "entered"
               PROVE  \E x \in t : x.k = "wl_pointer" /\ x.id = p.id /\ x.of = p.of
    BY DEF Focused
  <2>1. PICK x \in tab : x.k = "wl_pointer" /\ x.id = p.id /\ x.of = p.of
    BY DEF Knows, Focused
  <2> QED  BY <2>1, <1>3, <1>4
<1>8. Named(obj, m)  BY DEF Knows
<1>9. Knows(obj, t, m)  BY <1>5, <1>6, <1>7, <1>8 DEF Knows
<1> QED  BY <1>9 DEF t

(* A new state of one row: its reference stays and so does the registry. *)
LEMMA ChangeAt ==
  ASSUME NEW tab, NEW r \in tab, IsRow(r), NEW a,
         \A p \in tab : p.k = r.k /\ p.id = r.id => p = r
  PROVE  /\ {IF p.k = r.k /\ p.id = r.id THEN [p EXCEPT !.at = a] ELSE p : p \in tab}
              = AddRow(tab, Row(r.k, r.id, r.of, a))
         /\ IsRow(Row(r.k, r.id, r.of, a))
<1>1. [r EXCEPT !.at = a] = Row(r.k, r.id, r.of, a)
  <2>1. r = [k |-> r.k, id |-> r.id, of |-> r.of, at |-> r.at]  BY DEF IsRow, Row
  <2> QED  BY <2>1 DEF Row
<1> DEFINE n == Row(r.k, r.id, r.of, a)
<1>2. n.k = r.k /\ n.id = r.id  BY DEF Row
<1>3. IsRow(n)  BY DEF IsRow, Row
<1> HIDE DEF n
<1>4. {IF p.k = r.k /\ p.id = r.id THEN [p EXCEPT !.at = a] ELSE p : p \in tab}
        = {IF p.k = r.k /\ p.id = r.id THEN n ELSE p : p \in tab}
  BY <1>1 DEF n
<1>5. {IF p.k = r.k /\ p.id = r.id THEN n ELSE p : p \in tab} = AddRow(tab, n)
  BY <1>2 DEF AddRow
<1> QED  BY <1>3, <1>4, <1>5 DEF n

LEMMA RowFields ==
  ASSUME NEW k, NEW id, NEW of, NEW at
  PROVE  /\ Row(k, id, of, at).k = k /\ Row(k, id, of, at).id = id
         /\ Row(k, id, of, at).of = of /\ Row(k, id, of, at).at = at
BY DEF Row

-----------------------------------------------------------------------------
LEMMA GetToplevelKeeps ==
  ASSUME WireInv, NEW id \in Ids, NEW x \in Ids, GetToplevel(id, x)  PROVE WireInv'
<1>1. DOMAIN core = Fields /\ Good(core)  BY DEF WireInv, Good, Fields
<1>2. gone = "no" /\ Offers(id) /\ Is("xdg_surface", x)
  BY NamesIs DEF GetToplevel, Request
<1>3. core.obj[id] = None /\ (orderly => \A p \in mine : p.id # id)
  BY <1>2, OffersFresh DEF Fresh
<1>4. /\ core' = [core EXCEPT !.obj[id] = "xdg_toplevel", !.tab = Configured(x)]
      /\ mine' = Recorded(mine \cup {Row("xdg_toplevel", id, x, None)})
      /\ UNCHANGED <<orderly, bound, gone>>
  BY <1>2, <1>3 DEF GetToplevel, Respond, Fresh
<1> DEFINE k == "xdg_surface"
           row == RowOf(k, x)
           new == Row(k, x, row.of, "configured")
           q == Row("xdg_toplevel", id, x, None)
<1>5. /\ row \in core.tab /\ row.k = k /\ row.id = x
      /\ \A r \in core.tab : r.k = k /\ r.id = x => r = row
  <2>1. x \in Keys(core, k)  BY <1>2, IsKey DEF Certain, Exact
  <2> QED  BY <2>1, RowOfIs
<1> HIDE DEF row
<1>6. IsRow(row)  BY <1>1, <1>5 DEF Good, Registered
<1>7. Configured(x) = AddRow(core.tab, new) /\ IsRow(new)
  <2>1. /\ {IF r.k = "xdg_surface" /\ r.id = x THEN [r EXCEPT !.at = "configured"] ELSE r
              : r \in core.tab} = AddRow(core.tab, new)
        /\ IsRow(new)
    <3>1. \A p \in core.tab : p.k = row.k /\ p.id = row.id => p = row  BY <1>5
    <3>2. /\ {IF p.k = row.k /\ p.id = row.id THEN [p EXCEPT !.at = "configured"] ELSE p
                : p \in core.tab} = AddRow(core.tab, Row(row.k, row.id, row.of, "configured"))
          /\ IsRow(Row(row.k, row.id, row.of, "configured"))
      BY <1>5, <1>6, <3>1, ChangeAt
    <3>3. Row(row.k, row.id, row.of, "configured") = new  BY <1>5
    <3>4. row.k = "xdg_surface" /\ row.id = x  BY <1>5
    <3> HIDE DEF new
    <3> QED  BY <3>2, <3>3, <3>4
  <2> HIDE DEF new
  <2> QED  BY <2>1 DEF Configured
<1>8. new.k = k /\ new.id = x /\ new.of = row.of /\ new.at = "configured"
  BY RowFields
<1>9. q.k = "xdg_toplevel" /\ q.id = id /\ q.of = x /\ IsRow(q)
  BY DEF Row, IsRow, Kinds
<1>10. mine' = Recorded(mine \cup {q})  BY <1>4
<1> HIDE DEF new, q
<1>11. /\ SameTotals(core, core')
       /\ core'.obj = SetObj(core.obj, id, "xdg_toplevel")
       /\ core'.tab = AddRow(core.tab, new)
  BY <1>1, <1>4, <1>7, FieldNames DEF SameTotals, SetObj
<1>12. "xdg_toplevel" \in Interfaces \ Certain
  BY DEF Interfaces, Kinds, Certain, Exact, Lingering
<1>13. Registered(SetObj(core.obj, id, "xdg_toplevel"), core.tab)
  BY <1>1, <1>3, <1>12, RegisterPlain DEF Good, SetObj
<1>14. /\ Registered(core'.obj, core'.tab)
       /\ core'.tab = (core.tab \ {row}) \cup {new}
  BY <1>5, <1>7, <1>8, <1>11, <1>13, ReplaceRow
<1>15. \A K : k \notin K => Rows(core'.tab, K) = Rows(core.tab, K)
  BY <1>8, <1>11, RowsAfterAdd
<1>16. Selected(core'.tab, core'.selection)
  BY <1>1, <1>11, SelectedAfterAdd DEF Good, SameTotals
<1>17. Covered(Rows(core'.tab, {"wl_output"}), core'.obj, core'.over, core'.adv, core'.member)
  <2>1. Rows(core.tab, {"wl_output"}) \subseteq Rows(core'.tab, {"wl_output"})  BY <1>15
  <2>2. \A i \in Ids : core.obj[i] = "wl_surface" => core'.obj[i] = "wl_surface"
    BY <1>1, <1>11, <1>3, SetObjIs, NoneAssumption DEF Good, Registered, Kinds, Exact
  <2>3. Covered(Rows(core.tab, {"wl_output"}), core.obj, core.over, core.adv, core.member)
    BY <1>1 DEF Good
  <2>4. Covered(Rows(core'.tab, {"wl_output"}), core'.obj, core.over, core.adv, core.member)
    BY <2>1, <2>2, <2>3, CoveredMore
  <2> QED  BY <1>11, <2>4 DEF SameTotals
<1>18. k \notin Constraints \cup Inhibitor \cup ShmKinds
  BY DEF Constraints, Inhibitor, ShmKinds
<1>19. Good(core')
  BY <1>1, <1>11, <1>14, <1>15, <1>16, <1>17, <1>18 DEF Good, SameTotals, Fields
<1>20. ASSUME orderly  PROVE Owns(core', mine')
  <2>1. Knows(core.obj, core.tab, mine) /\ Roled(Rows(core.tab, RoleKeepers), core.role)
    BY <1>20 DEF WireInv, Owns
  <2>2. Knows(core.obj, AddRow(core.tab, new), mine)
    <3>1. k \notin AtMatched  BY DEF AtMatched, Constraints
    <3> QED  BY <1>1, <1>5, <1>7, <1>8, <2>1, <3>1, KnowsReplaced DEF Good
  <2>3. Named(core'.obj, mine \cup {q})
    <3>1. core'.obj[id] = "xdg_toplevel" /\ \A i \in Ids : i # id => core'.obj[i] = core.obj[i]
      BY <1>1, <1>11, SetObjIs DEF Good, Registered
    <3>2. Named(core.obj, mine)  BY <2>1 DEF Knows
    <3>3. \A p \in mine \cup {q} : IsRow(p) /\ (p.k # "entered" => core'.obj[p.id] = p.k)
      BY <1>3, <1>9, <1>20, <3>1, <3>2 DEF Named, IsRow
    <3>4. \A i \in Ids : core'.obj[i] # None =>
             \E p \in mine \cup {q} : p.id = i /\ p.k = core'.obj[i] /\ p.k # "entered"
      BY <1>9, <3>1, <3>2 DEF Named
    <3> QED  BY <3>3, <3>4 DEF Named
  <2>4. Matched(core'.tab, mine \cup {q})
    <3>1. q.k \notin NeedsRow \cup OfMatched \cup AtMatched
      BY <1>9 DEF NeedsRow, OfMatched, AtMatched, Constraints
    <3> QED  BY <1>11, <2>2, <3>1 DEF Knows, Matched
  <2>5. Toplevels(core'.tab, mine \cup {q})
    BY <1>8, <1>9, <1>11, <1>14, <2>2 DEF Knows, Toplevels
  <2>6. Focused(core'.tab, mine \cup {q})
    BY <1>9, <1>11, <2>2 DEF Knows, Focused
  <2>7. Roled(Rows(core'.tab, RoleKeepers), core'.role)
    <3>1. Rows(core'.tab, RoleKeepers) = (Rows(core.tab, RoleKeepers) \ {row}) \cup {new}
      BY <1>5, <1>8, <1>14 DEF Rows, RoleKeepers
    <3>2. row \in Rows(core.tab, RoleKeepers)  BY <1>5 DEF Rows, RoleKeepers
    <3> DEFINE T == Rows(core.tab, RoleKeepers)
               U == Rows(core'.tab, RoleKeepers)
    <3>3. U = (T \ {row}) \cup {new} /\ row \in T /\ Roled(T, core.role)  BY <2>1, <3>1, <3>2
    <3>4. core'.role = core.role  BY <1>11 DEF SameTotals
    <3> HIDE DEF T, U
    <3>5. Roled(U, core.role)
      <4>1. \A s \in Ids : core.role[s] # None => \E r \in U : r.of = s
        BY <1>8, <3>3 DEF Roled
      <4>2. \A r \in U : r.of \in Ids /\ core.role[r.of] = RoleOf(r.k)
        BY <1>5, <1>8, <3>3 DEF Roled
      <4>3. \A r, p \in U : r.of = p.of => r = p
        BY <1>5, <1>8, <3>3 DEF Roled
      <4> QED  BY <4>1, <4>2, <4>3 DEF Roled
    <3> QED  BY <3>4, <3>5 DEF U
  <2> QED  BY <1>10, <1>20, <2>3, <2>4, <2>5, <2>6, <2>7 DEF Owns, Knows, Recorded
<1>21. ~orderly => mine' = {}  BY <1>4 DEF Recorded
<1> QED  BY <1>2, <1>4, <1>19, <1>20, <1>21, AnswerIsGood

LEMMA EnableTextInputKeeps ==
  ASSUME WireInv, NEW t \in Ids, NEW mode, EnableTextInput(t, mode)  PROVE WireInv'
<1> DEFINE k == "zwp_text_input_v3"
           new == Row(k, t, None, mode)
<1>1. DOMAIN core = Fields /\ Good(core)  BY DEF WireInv, Good, Fields
<1>2. gone = "no" /\ Is(k, t)  BY NamesIs DEF EnableTextInput, Request
<1>3. t \in Keys(core, k)  BY <1>2, IsKey DEF Certain, Exact
<1>4. core' = [core EXCEPT !.tab = Put(core, new)] /\ mine' = Recorded(mine)
      /\ UNCHANGED <<orderly, bound, gone>>
  BY <1>2, <1>3 DEF EnableTextInput, Respond
<1>5. PICK row \in core.tab : row.k = k /\ row.id = t  BY <1>3 DEF Keys, RowsOf
<1>6. new.k = k /\ new.id = t /\ IsRow(new)
  BY DEF Row, IsRow, Kinds, Exact
<1> HIDE DEF new
<1>7. SameTotals(core, core') /\ core'.obj = core.obj /\ core'.tab = AddRow(core.tab, new)
  BY <1>1, <1>4, FieldNames DEF SameTotals, AddRow, Put
<1>8. Registered(core'.obj, core'.tab)
  BY <1>1, <1>5, <1>6, <1>7, ReplaceRow DEF Good
<1>9. k \notin Constraints \cup Inhibitor \cup ShmKinds \cup RoleKeepers \cup OfMatched \cup AtMatched
               \cup {"wl_output"}
  BY DEF Constraints, Inhibitor, ShmKinds, RoleKeepers, OfMatched, AtMatched, NeedsRow
<1>10. \A K : k \notin K => Rows(core'.tab, K) = Rows(core.tab, K)
  BY <1>6, <1>7, RowsAfterAdd
<1>11. Selected(core'.tab, core'.selection)
  BY <1>1, <1>7, SelectedAfterAdd DEF Good, SameTotals
<1>12. Good(core')
  BY <1>1, <1>7, <1>8, <1>9, <1>10, <1>11 DEF Good, SameTotals, Fields
<1>13. mine' = mine  BY <1>4 DEF Recorded, WireInv
<1>14. ASSUME orderly  PROVE Owns(core', mine')
  <2>1. Knows(core.obj, core.tab, mine) /\ Roled(Rows(core.tab, RoleKeepers), core.role)
    BY <1>14 DEF WireInv, Owns
  <2>2. Knows(core.obj, AddRow(core.tab, new), mine)
    BY <1>1, <1>5, <1>6, <1>9, <2>1, KnowsReplaced DEF Good
  <2> QED  BY <1>7, <1>9, <1>10, <1>13, <2>1, <2>2 DEF Owns, SameTotals
<1> QED  BY <1>2, <1>4, <1>12, <1>13, <1>14, AnswerIsGood DEF WireInv

-----------------------------------------------------------------------------
(* Data sources and devices keep their rows when their objects go. *)

LEMMA LingeringGone ==
  ASSUME WireInv, NEW k \in Lingering, NEW id \in Ids, Is(k, id)
  PROVE  /\ Registered(SetObj(core.obj, id, None), core.tab)
         /\ Covered(Rows(core.tab, {"wl_output"}), SetObj(core.obj, id, None),
                    core.over, core.adv, core.member)
         /\ orderly => Knows(SetObj(core.obj, id, None), core.tab, {q \in mine : q.id # id})
<1> DEFINE o == SetObj(core.obj, id, None)
           n == {q \in mine : q.id # id}
<1>1. Good(core) /\ core.obj[id] = k /\ k \notin {"wl_surface", "entered"}
  BY DEF WireInv, Is, Lingering
<1>2. /\ DOMAIN o = Ids /\ o[id] = None
      /\ \A i \in Ids : i # id => o[i] = core.obj[i]
  BY <1>1, SetObjIs DEF Good, Registered
<1>3. o = [i \in Ids |-> o[i]]  BY <1>2 DEF o, SetObj
<1> HIDE DEF o
<1>4. o \in [Ids -> Interfaces \cup {None}]
  BY <1>1, <1>2, <1>3 DEF Good, Registered
<1>5. \A r \in core.tab : r.k \notin Lingering => o[r.id] = core.obj[r.id]
  <2> SUFFICES ASSUME NEW r \in core.tab, r.k \notin Lingering, r.id = id  PROVE FALSE
    BY <1>1, <1>2 DEF Good, Registered, IsRow
  <2>1. Base(r.k) = k  BY <1>1 DEF Good, Registered
  <2> QED  BY <2>1 DEF Base, Lingering
<1>6. \A i \in Ids : o[i] = core.obj[i] \/ o[i] = None  BY <1>2
<1>7. core.tab \subseteq core.tab /\ core.tab \ core.tab = {}  OBVIOUS
<1>8. Registered(core.obj, core.tab)  BY <1>1 DEF Good
<1>9. Registered(o, core.tab)
  BY <1>4, <1>5, <1>6, <1>7, <1>8, Unregister
<1>10. Covered(Rows(core.tab, {"wl_output"}), o, core.over, core.adv, core.member)
  <2>1. \A i \in Ids : core.obj[i] = "wl_surface" => o[i] = "wl_surface"
    BY <1>1, <1>2
  <2> QED  BY <1>1, <2>1 DEF Good, Covered
<1>11. ASSUME orderly  PROVE Knows(o, core.tab, n)
  <2>1. Knows(core.obj, core.tab, mine)  BY <1>11 DEF WireInv, Owns
  <2>2. n \subseteq mine /\ \A q \in mine : q.id \in Ids
    BY <2>1 DEF Knows, Named, IsRow
  <2>3. \A q \in n : q.k # "entered" => o[q.id] = core.obj[q.id]  BY <1>2, <2>2
  <2>4. \A q \in mine : q.k # "entered" /\ o[q.id] # None => q \in n  BY <1>2, <2>2
  <2> HIDE DEF n
  <2> QED  BY <1>6, <1>7, <2>1, <2>2, <2>3, <2>4, KnowsLess
<1> QED  BY <1>9, <1>10, <1>11 DEF o, n

LEMMA ReleaseDataDeviceKeeps ==
  ASSUME WireInv, NEW d \in Ids, ReleaseDataDevice(d)  PROVE WireInv'
<1> DEFINE k == "wl_data_device"
<1>1. DOMAIN core = Fields /\ Good(core)  BY DEF WireInv, Good, Fields
<1>2. gone = "no" /\ Is(k, d) /\ k \in Lingering
  BY NamesIs DEF ReleaseDataDevice, Request, Lingering
<1>3. core' = [core EXCEPT !.obj[d] = None] /\ mine' = Recorded({r \in mine : r.id # d})
      /\ UNCHANGED <<orderly, bound, gone>>
  BY <1>2 DEF ReleaseDataDevice, Respond
<1>4. SameTotals(core, core') /\ core'.obj = SetObj(core.obj, d, None) /\ core'.tab = core.tab
  BY <1>1, <1>3, FieldNames DEF SameTotals, SetObj
<1>5. /\ Registered(SetObj(core.obj, d, None), core.tab)
      /\ Covered(Rows(core.tab, {"wl_output"}), SetObj(core.obj, d, None),
                 core.over, core.adv, core.member)
      /\ orderly => Knows(SetObj(core.obj, d, None), core.tab, {q \in mine : q.id # d})
  BY <1>2, LingeringGone
<1>6. Good(core')  BY <1>1, <1>4, <1>5 DEF Good, SameTotals, Fields
<1>7. orderly => Owns(core', mine')
  BY <1>3, <1>4, <1>5 DEF WireInv, Owns, SameTotals, Recorded
<1>8. ~orderly => mine' = {}  BY <1>3 DEF Recorded
<1> QED  BY <1>2, <1>3, <1>6, <1>7, <1>8, AnswerIsGood

LEMMA DestroySourceKeeps ==
  ASSUME WireInv, NEW x \in Ids, DestroySource(x)  PROVE WireInv'
<1> DEFINE k == "wl_data_source"
           row == RowOf(k, x)
           new == Row(k, x, row.of, "destroyed")
           n == {q \in mine : q.id # x}
<1>1. DOMAIN core = Fields /\ Good(core)  BY DEF WireInv, Good, Fields
<1>2. gone = "no" /\ Is(k, x) /\ k \in Lingering /\ x \in Keys(core, k)
  BY NamesIs, IsKey DEF DestroySource, Request, Lingering, Certain
<1>3. /\ core' = [core EXCEPT !.obj[x] = None,
                !.tab = {IF r.k = "wl_data_source" /\ r.id = x
                         THEN [r EXCEPT !.at = "destroyed"] ELSE r : r \in @}]
      /\ mine' = Recorded(n)
      /\ UNCHANGED <<orderly, bound, gone>>
  BY <1>2 DEF DestroySource, Respond
<1>4. /\ row \in core.tab /\ row.k = k /\ row.id = x
      /\ \A r \in core.tab : r.k = k /\ r.id = x => r = row
  BY <1>2, RowOfIs
<1> HIDE DEF row
<1>5. IsRow(row)  BY <1>1, <1>4 DEF Good, Registered
<1>6. /\ {IF r.k = "wl_data_source" /\ r.id = x THEN [r EXCEPT !.at = "destroyed"] ELSE r
            : r \in core.tab} = AddRow(core.tab, new)
      /\ IsRow(new)
  BY <1>4, <1>5, ChangeAt
<1>7. new.k = k /\ new.id = x /\ new.of = row.of  BY RowFields
<1> HIDE DEF new, n
<1>8. SameTotals(core, core') /\ core'.obj = SetObj(core.obj, x, None)
      /\ core'.tab = AddRow(core.tab, new)
  BY <1>1, <1>3, <1>6, FieldNames DEF SameTotals, SetObj
<1>9. /\ Registered(SetObj(core.obj, x, None), core.tab)
      /\ Covered(Rows(core.tab, {"wl_output"}), SetObj(core.obj, x, None),
                 core.over, core.adv, core.member)
      /\ orderly => Knows(SetObj(core.obj, x, None), core.tab, n)
  BY <1>2, LingeringGone DEF n
<1>10. Registered(core'.obj, core'.tab)
  BY <1>4, <1>6, <1>7, <1>8, <1>9, ReplaceRow
<1>11. k \notin Constraints \cup Inhibitor \cup ShmKinds \cup RoleKeepers \cup OfMatched \cup AtMatched
               \cup {"wl_output", "wl_pointer", "xdg_surface"}
  BY DEF Constraints, Inhibitor, ShmKinds, RoleKeepers, OfMatched, AtMatched, NeedsRow
<1>12. \A K : k \notin K => Rows(core'.tab, K) = Rows(core.tab, K)
  BY <1>7, <1>8, RowsAfterAdd
<1>13. Selected(core'.tab, core'.selection)
  BY <1>1, <1>8, SelectedAfterAdd DEF Good, SameTotals
<1>14. Good(core')
  BY <1>1, <1>8, <1>9, <1>10, <1>11, <1>12, <1>13 DEF Good, SameTotals, Fields
<1>15. ASSUME orderly  PROVE Owns(core', mine')
  <2>1. Knows(SetObj(core.obj, x, None), AddRow(core.tab, new), n)
    BY <1>4, <1>6, <1>7, <1>9, <1>11, <1>15, KnowsReplaced
  <2>2. Roled(Rows(core.tab, RoleKeepers), core.role)  BY <1>15 DEF WireInv, Owns
  <2> QED  BY <1>3, <1>8, <1>11, <1>12, <1>15, <2>1, <2>2 DEF Owns, SameTotals, Recorded
<1>16. ~orderly => mine' = {}  BY <1>3 DEF Recorded
<1> QED  BY <1>2, <1>3, <1>14, <1>15, <1>16, AnswerIsGood

LEMMA SetSelectionKeeps ==
  ASSUME WireInv, NEW d \in Ids, NEW x \in Ids \cup {None}, SetSelection(d, x)  PROVE WireInv'
<1>1. DOMAIN core = Fields /\ Good(core)  BY DEF WireInv, Good, Fields
<1>2. "wl_data_device" \in Certain /\ "wl_data_source" \in Certain  BY DEF Certain, Lingering
<1>3. gone = "no" /\ Is("wl_data_device", d) /\ d \in Keys(core, "wl_data_device")
  BY <1>2, NamesIs, IsKey DEF SetSelection, Request
<1>4. orderly /\ x # None => x \in Keys(core, "wl_data_source")
  BY <1>2, HasExact DEF SetSelection, Polite
<1>5. CASE Dropped("request") /\ ~orderly  BY <1>5, DroppedIsGood
<1>6. CASE /\ x # None => x \in Keys(core, "wl_data_source")
           /\ core' = [core EXCEPT !.selection = x] /\ mine' = Recorded(mine)
           /\ UNCHANGED <<orderly, bound, gone>>
  <2>1. /\ core'.obj = core.obj /\ core'.tab = core.tab /\ core'.selection = x
        /\ DOMAIN core' = Fields /\ core'.role = core.role
        /\ core'.pairs = core.pairs /\ core'.counts = core.counts /\ core'.inhibited = core.inhibited
        /\ core'.store = core.store /\ core'.fake = core.fake
        /\ core'.over = core.over /\ core'.adv = core.adv /\ core'.member = core.member
    BY <1>1, <1>6, FieldNames
  <2>2. Selected(core'.tab, core'.selection)
    BY <1>6, <2>1 DEF Selected, Keys, RowsOf
  <2>3. Good(core')  BY <1>1, <2>1, <2>2 DEF Good, Fields
  <2>4. mine' = mine  BY <1>6 DEF Recorded, WireInv
  <2>5. orderly => Owns(core', mine')  BY <2>1, <2>4 DEF WireInv, Owns
  <2> QED  BY <1>3, <1>6, <2>3, <2>4, <2>5, AnswerIsGood DEF WireInv
<1> QED  BY <1>3, <1>4, <1>5, <1>6 DEF SetSelection, Respond

-----------------------------------------------------------------------------
(* Pointer constraints *)

LEMMA PairedMore ==
  ASSUME NEW T, NEW pairs, Paired(T, pairs), NEW r, NEW s \in Ids, NEW p \in Ids,
         r.of = s, r.at = p, <<s, p>> \notin pairs
  PROVE  Paired(T \cup {r}, pairs \cup {<<s, p>>})
<1>1. \A q \in T : <<q.of, q.at>> \in pairs  BY DEF Paired
<1>2. pairs \cup {<<s, p>>} = {<<q.of, q.at>> : q \in T \cup {r}}  BY DEF Paired
<1>3. \A q, u \in T \cup {r} : <<q.of, q.at>> = <<u.of, u.at>> => q = u
  BY <1>1 DEF Paired
<1> QED  BY <1>2, <1>3 DEF Paired

LEMMA PairedLess ==
  ASSUME NEW T, NEW pairs, Paired(T, pairs), NEW U \in SUBSET T
  PROVE  Paired(U, pairs \ {<<r.of, r.at>> : r \in T \ U})
<1> DEFINE lost == {<<r.of, r.at>> : r \in T \ U}
<1>1. \A r \in U : <<r.of, r.at>> \in pairs /\ <<r.of, r.at>> \notin lost
  BY DEF Paired
<1>2. \A x \in pairs \ lost : \E r \in U : x = <<r.of, r.at>>
  BY DEF Paired
<1> HIDE DEF lost
<1>3. pairs \ lost = {<<r.of, r.at>> : r \in U}  BY <1>1, <1>2
<1>4. Paired(U, pairs \ lost)  BY <1>3 DEF Paired
<1> QED  BY <1>4 DEF lost

LEMMA ConstraintIs ==
  ASSUME NEW k \in Constraints
  PROVE  /\ k \in Creatable /\ k \in Destroyable /\ k \in NeedsRow /\ k \in OfMatched /\ k \in AtMatched
         /\ k \notin Inhibitor \cup ShmKinds \cup RoleKeepers \cup Lingering
         /\ Base(k) = k /\ k \notin Certain \cup {"wl_output", "entered"}
BY DEF Constraints, Creatable, Destroyable, NeedsRow, OfMatched, AtMatched, Inhibitor, ShmKinds,
       RoleKeepers, Lingering, Base, Certain, Exact

LEMMA ConstrainKeeps ==
  ASSUME WireInv, NEW k \in Constraints, NEW id \in Ids, NEW s \in Ids, NEW p \in Ids,
         Constrain(k, id, s, p)
  PROVE  WireInv'
<1> DEFINE r == Row(k, id, s, p)
<1>1. DOMAIN core = Fields /\ Good(core)  BY DEF WireInv, Good, Fields
<1>2. gone = "no" /\ Offers(id) /\ Fresh(core, id)
  BY OffersFresh DEF Constrain, Request
<1>3. ASSUME orderly
      PROVE  /\ Refers(id, s) /\ Refers(id, p)
             /\ \A x \in RowsOf(core, "wl_pointer") : x.id = p => x.of = s
             /\ <<s, p>> \notin core.pairs
  <2>1. /\ Has("wl_surface", s)
        /\ \A x \in mine : x.k \in Constraints => ~(x.of = s /\ x.at = p)
    BY <1>3 DEF Constrain, Polite
  <2>2. PICK e \in mine : e.k = "entered" /\ e.id = p /\ e.of = s
    BY <1>3 DEF Constrain, Polite
  <2>3. PICK x \in core.tab : x.k = "wl_pointer" /\ x.id = p /\ x.of = s
    BY <1>3, <2>2 DEF WireInv, Owns, Knows, Focused
  <2>4. Is("wl_surface", s)  BY <1>3, <2>1, HasIs
  <2>5. Is("wl_pointer", p)
    BY <1>1, <2>3 DEF Good, Registered, Is, Lingering, Base
  <2>6. Refers(id, s) /\ Refers(id, p)
    BY <2>4, <2>5, NoneAssumption DEF Refers, Live, Is, Kinds, Exact
  <2>7. \A y \in RowsOf(core, "wl_pointer") : y.id = p => y.of = s
    BY <1>1, <2>3 DEF Good, Registered, RowsOf
  <2>8. <<s, p>> \notin core.pairs
    <3> SUFFICES ASSUME <<s, p>> \in core.pairs  PROVE FALSE  OBVIOUS
    <3>1. PICK y \in Rows(core.tab, Constraints) : <<s, p>> = <<y.of, y.at>>
      BY <1>1 DEF Good, Paired
    <3>2. y \in core.tab /\ y.k \in Constraints /\ y.of = s /\ y.at = p  BY <3>1 DEF Rows
    <3>3. \E q \in mine : q.k = y.k /\ q.of = y.of /\ q.at = y.at
      BY <1>3, <3>2, ConstraintIs, RowIsKnown
    <3> QED  BY <2>1, <3>2, <3>3
  <2> QED  BY <2>6, <2>7, <2>8
<1>4. CASE Dropped("request") /\ ~orderly  BY <1>4, DroppedIsGood
<1>5. CASE /\ <<s, p>> \notin core.pairs
           /\ core' = [core EXCEPT !.obj[id] = k, !.tab = Put(core, r),
                          !.pairs = @ \cup {<<s, p>>}]
           /\ mine' = Recorded(mine \cup {r}) /\ UNCHANGED <<orderly, bound, gone>>
  <2>1. r.k = k /\ r.id = id /\ r.of = s /\ r.at = p  BY RowFields
  <2>2. /\ core'.obj = SetObj(core.obj, id, k)
        /\ core'.tab = AddRow(core.tab, r)
        /\ core'.pairs = core.pairs \cup {<<s, p>>}
        /\ DOMAIN core' = Fields
    BY <1>1, <1>5, <2>1, FieldNames DEF SetObj, AddRow, Put
  <2>3. /\ core'.role = core.role /\ core'.counts = core.counts /\ core'.inhibited = core.inhibited
        /\ core'.store = core.store /\ core'.fake = core.fake
        /\ core'.selection = core.selection /\ core'.over = core.over /\ core'.adv = core.adv
        /\ core'.member = core.member
    BY <1>1, <1>5, FieldNames
  <2>4. /\ k \in Creatable /\ k \notin Inhibitor \cup ShmKinds \cup RoleKeepers \cup Lingering
    BY ConstraintIs
  <2>5. /\ Registered(core'.obj, core'.tab)
        /\ Selected(core'.tab, core'.selection)
        /\ Covered(Rows(core'.tab, {"wl_output"}), core'.obj, core'.over, core'.adv, core'.member)
        /\ \A K : k \notin K => Rows(core'.tab, K) = Rows(core.tab, K)
        /\ \A K : k \in K /\ k \notin Lingering => Rows(core'.tab, K) = Rows(core.tab, K) \cup {r}
        /\ orderly => Knows(core'.obj, core'.tab, mine \cup {r})
    BY <1>2, <2>2, <2>3, <2>4, NewObject
  <2> HIDE DEF r
  <2>6. Paired(Rows(core'.tab, Constraints), core'.pairs)
    <3>1. Paired(Rows(core.tab, Constraints), core.pairs)  BY <1>1 DEF Good
    <3>2. Rows(core'.tab, Constraints) = Rows(core.tab, Constraints) \cup {r}  BY <2>4, <2>5
    <3> QED  BY <1>5, <2>1, <2>2, <3>1, <3>2, PairedMore
  <2>7. Good(core')  BY <1>1, <2>2, <2>3, <2>4, <2>5, <2>6 DEF Good, Fields
  <2>8. orderly => Owns(core', mine')
    BY <1>5, <2>3, <2>4, <2>5 DEF WireInv, Owns, Recorded
  <2>9. ~orderly => mine' = {}  BY <1>5 DEF Recorded
  <2> QED  BY <1>2, <1>5, <2>7, <2>8, <2>9, AnswerIsGood
<1> QED  BY <1>2, <1>3, <1>4, <1>5 DEF Constrain, Respond

LEMMA DestroyConstraintKeeps ==
  ASSUME WireInv, NEW k \in Constraints, NEW c \in Ids, DestroyConstraint(k, c)
  PROVE  WireInv'
<1> DEFINE row == RowOf(k, c)
           pair == <<row.of, row.at>>
           d == [core EXCEPT !.pairs = @ \ {pair}]
<1>1. DOMAIN core = Fields /\ Good(core)  BY DEF WireInv, Good, Fields
<1>2. /\ gone = "no"
      /\ Destroy(k, c, c \in Keys(core, k), IF c \in Keys(core, k) THEN d ELSE core)
  BY DEF DestroyConstraint, Request
<1>3. Names(k, c) /\ Is(k, c) /\ (orderly => Unreferenced(c))
  BY <1>2, NamesIs, ConstraintIs DEF Destroy, Polite
<1>4. orderly => c \in Keys(core, k)  BY <1>3, NamesKey, ConstraintIs
<1>5. CASE Dropped("request") /\ ~orderly  BY <1>5, DroppedIsGood
<1>6. CASE /\ c \in Keys(core, k)
           /\ core' = [d EXCEPT !.obj[c] = None, !.tab = Without(d, k, c)]
           /\ mine' = Recorded({r \in mine : r.id # c}) /\ UNCHANGED <<orderly, bound, gone>>
  <2>1. /\ row \in core.tab /\ row.k = k /\ row.id = c
        /\ \A r \in core.tab : r.k = k /\ r.id = c => r = row
    BY <1>6, RowOfIs
  <2> HIDE DEF row
  <2>2. /\ d.tab = core.tab /\ d.obj = core.obj /\ d.pairs = core.pairs \ {pair} /\ DOMAIN d = Fields
        /\ d.role = core.role /\ d.counts = core.counts /\ d.inhibited = core.inhibited
        /\ d.store = core.store /\ d.fake = core.fake
        /\ d.selection = core.selection /\ d.over = core.over /\ d.adv = core.adv
        /\ d.member = core.member
    BY <1>1, FieldNames
  <2> HIDE DEF d
  <2>3. /\ core'.obj = SetObj(core.obj, c, None) /\ core'.tab = DropRow(core.tab, k, c)
    <3>1. core'.obj = [d.obj EXCEPT ![c] = None] /\ core'.tab = Without(d, k, c)
      BY <1>6, <2>2, FieldNames
    <3> QED  BY <2>2, <3>1 DEF SetObj, DropRow, Without
  <2>4. /\ core'.pairs = core.pairs \ {pair} /\ DOMAIN core' = Fields
        /\ core'.role = core.role /\ core'.counts = core.counts /\ core'.inhibited = core.inhibited
        /\ core'.store = core.store /\ core'.fake = core.fake
    BY <1>6, <2>2, FieldNames
  <2>5. /\ core'.selection = core.selection /\ core'.over = core.over /\ core'.adv = core.adv
        /\ core'.member = core.member
    BY <1>6, <2>2, FieldNames
  <2>6. k \in Destroyable /\ k \notin Inhibitor \cup ShmKinds \cup RoleKeepers  BY ConstraintIs
  <2>7. core'.tab \subseteq DropRow(core.tab, k, c) /\ DropRow(core.tab, k, c) \ core'.tab = {}
    BY <2>3
  <2>8. /\ Registered(core'.obj, core'.tab)
        /\ Selected(core'.tab, core'.selection)
        /\ Covered(Rows(core'.tab, {"wl_output"}), core'.obj, core'.over, core'.adv, core'.member)
        /\ orderly => Knows(core'.obj, core'.tab, {q \in mine : q.id # c})
    BY <1>3, <2>3, <2>5, <2>6, <2>7, OldObject
  <2>9. \A K : k \notin K => Rows(core'.tab, K) = Rows(core.tab, K)
    BY <2>3, RowsAfterDrop
  <2>10. Paired(Rows(core'.tab, Constraints), core'.pairs)
    <3> DEFINE T == Rows(core.tab, Constraints)
               U == Rows(core'.tab, Constraints)
    <3>1. Paired(T, core.pairs)  BY <1>1 DEF Good
    <3>2. U \in SUBSET T /\ T \ U = {row}  BY <2>1, <2>3 DEF Rows, DropRow
    <3> HIDE DEF T, U
    <3>3. Paired(U, core.pairs \ {<<r.of, r.at>> : r \in T \ U})  BY <3>1, <3>2, PairedLess
    <3>4. {<<r.of, r.at>> : r \in T \ U} = {pair}  BY <3>2
    <3> QED  BY <2>4, <3>3, <3>4 DEF U
  <2>11. Good(core')  BY <1>1, <2>4, <2>6, <2>8, <2>9, <2>10 DEF Good, Fields
  <2>12. orderly => Owns(core', mine')
    BY <1>6, <2>4, <2>6, <2>8, <2>9 DEF WireInv, Owns, Recorded
  <2>13. ~orderly => mine' = {}  BY <1>6 DEF Recorded
  <2> QED  BY <1>2, <1>6, <2>11, <2>12, <2>13, AnswerIsGood
<1> QED  BY <1>2, <1>3, <1>4, <1>5, <1>6 DEF Destroy, Respond

LEMMA ReleasePointerKeeps ==
  ASSUME WireInv, NEW p \in Ids, ReleasePointer(p)  PROVE WireInv'
<1> DEFINE k == "wl_pointer"
           lost == {r \in core.tab : \/ r.k = "zwp_relative_pointer_v1" /\ r.of = p
                                     \/ r.k \in Constraints /\ r.at = p}
           lostPairs == {<<r.of, r.at>> : r \in {q \in lost : q.k \in Constraints}}
           d == [core EXCEPT !.tab = @ \ lost, !.pairs = @ \ lostPairs]
<1>1. DOMAIN core = Fields /\ Good(core)  BY DEF WireInv, Good, Fields
<1>2. gone = "no" /\ Destroy(k, p, p \in Keys(core, k), d)
  BY DEF ReleasePointer, Request
<1>3. Is(k, p) /\ (orderly => Unreferenced(p))
  BY <1>2, NamesIs DEF Destroy, Polite
<1>4. p \in Keys(core, k)  BY <1>3, IsKey DEF Certain, Exact
<1>5. /\ core' = [d EXCEPT !.obj[p] = None, !.tab = Without(d, k, p)]
      /\ mine' = Recorded({r \in mine : r.id # p}) /\ UNCHANGED <<orderly, bound, gone>>
  BY <1>2, <1>3, <1>4 DEF Destroy, Respond
<1>6. \A r \in lost : r \in core.tab
        /\ ((r.k = "zwp_relative_pointer_v1" /\ r.of = p) \/ (r.k \in Constraints /\ r.at = p))
  OBVIOUS
<1> HIDE DEF lostPairs
<1>7. /\ d.tab = core.tab \ lost /\ d.obj = core.obj /\ d.pairs = core.pairs \ lostPairs
      /\ DOMAIN d = Fields
      /\ d.role = core.role /\ d.counts = core.counts /\ d.inhibited = core.inhibited
      /\ d.store = core.store /\ d.fake = core.fake
      /\ d.selection = core.selection /\ d.over = core.over /\ d.adv = core.adv
      /\ d.member = core.member
  <2> HIDE DEF lost
  <2> QED  BY <1>1, FieldNames
<1> HIDE DEF d
<1>8. /\ core'.obj = SetObj(core.obj, p, None) /\ core'.tab = DropRow(core.tab, k, p) \ lost
  <2> HIDE DEF lost
  <2>1. core'.obj = [d.obj EXCEPT ![p] = None] /\ core'.tab = Without(d, k, p)
    BY <1>5, <1>7, FieldNames
  <2> QED  BY <1>7, <2>1 DEF SetObj, DropRow, Without
<1>9. /\ core'.pairs = core.pairs \ lostPairs /\ DOMAIN core' = Fields
      /\ core'.role = core.role /\ core'.counts = core.counts /\ core'.inhibited = core.inhibited
      /\ core'.store = core.store /\ core'.fake = core.fake
  BY <1>5, <1>7, FieldNames
<1>10. /\ core'.selection = core.selection /\ core'.over = core.over /\ core'.adv = core.adv
       /\ core'.member = core.member
  BY <1>5, <1>7, FieldNames
<1>11. k \in Destroyable /\ k \notin Inhibitor \cup ShmKinds \cup RoleKeepers \cup Constraints
  BY DEF Destroyable, Inhibitor, ShmKinds, RoleKeepers, Constraints
<1>12. \A r \in lost : r.k \in NeedsRow /\ r.k \notin Certain \cup {"wl_output"} \cup Inhibitor \cup ShmKinds
                         \cup RoleKeepers /\ r.k \notin Lingering /\ Base(r.k) = r.k
  BY <1>6, ConstraintIs DEF NeedsRow, Certain, Exact, Lingering, Inhibitor, ShmKinds, RoleKeepers, Base
<1>13. ASSUME orderly  PROVE \A r \in lost : \A q \in mine : ~(q.k = r.k /\ q.id = r.id)
  <2> SUFFICES ASSUME NEW r \in lost, NEW q \in mine, q.k = r.k, q.id = r.id  PROVE FALSE
    OBVIOUS
  <2>1. \A x \in mine : x.k \in Owned \/ (x.of # p /\ x.at # p)
    BY <1>3, <1>13 DEF Unreferenced
  <2>2. r \in core.tab /\ r.k \in NeedsRow  BY <1>6, <1>12
  <2>3. Matched(core.tab, mine)  BY <1>13 DEF WireInv, Owns, Knows
  <2>4. q.of = r.of /\ (r.k \in Constraints => q.at = r.at)
    BY <2>2, <2>3, ConstraintIs DEF Matched, OfMatched
  <2>5. r.k \notin Owned  BY <2>2 DEF NeedsRow, Owned, Constraints
  <2> QED  BY <1>6, <2>1, <2>4, <2>5
<1>14. /\ core'.tab \subseteq DropRow(core.tab, k, p)
       /\ \A r \in DropRow(core.tab, k, p) \ core'.tab : r \in lost
  BY <1>8
<1> HIDE DEF lost
<1>15. \A r \in DropRow(core.tab, k, p) \ core'.tab :
           /\ r.k \notin Certain \cup {"wl_output"}
           /\ orderly /\ r.k \in NeedsRow => \A q \in mine : ~(q.k = r.k /\ q.id = r.id)
  BY <1>12, <1>13, <1>14
<1>16. /\ Registered(core'.obj, core'.tab)
       /\ Selected(core'.tab, core'.selection)
       /\ Covered(Rows(core'.tab, {"wl_output"}), core'.obj, core'.over, core'.adv, core'.member)
       /\ orderly => Knows(core'.obj, core'.tab, {q \in mine : q.id # p})
  BY <1>3, <1>8, <1>10, <1>11, <1>14, <1>15, OldObject
<1>17. /\ Rows(core'.tab, Inhibitor) = Rows(core.tab, Inhibitor)
       /\ Rows(core'.tab, ShmKinds) = Rows(core.tab, ShmKinds)
       /\ Rows(core'.tab, RoleKeepers) = Rows(core.tab, RoleKeepers)
  BY <1>8, <1>11, <1>12 DEF Rows, DropRow
<1>18. Paired(Rows(core'.tab, Constraints), core'.pairs)
  <2> DEFINE T == Rows(core.tab, Constraints)
             U == Rows(core'.tab, Constraints)
  <2>1. Paired(T, core.pairs)  BY <1>1 DEF Good
  <2>2. U \in SUBSET T /\ T \ U = {q \in lost : q.k \in Constraints}
    BY <1>6, <1>8, <1>11 DEF Rows, DropRow, lost
  <2> HIDE DEF T, U
  <2>3. Paired(U, core.pairs \ {<<r.of, r.at>> : r \in T \ U})  BY <2>1, <2>2, PairedLess
  <2>4. {<<r.of, r.at>> : r \in T \ U} = lostPairs  BY <2>2 DEF lostPairs
  <2> QED  BY <1>9, <2>3, <2>4 DEF U
<1>19. Good(core')  BY <1>1, <1>9, <1>16, <1>17, <1>18 DEF Good, Fields
<1>20. orderly => Owns(core', mine')
  BY <1>5, <1>9, <1>16, <1>17 DEF WireInv, Owns, Recorded
<1>21. ~orderly => mine' = {}  BY <1>5 DEF Recorded
<1> QED  BY <1>2, <1>5, <1>19, <1>20, <1>21, AnswerIsGood

LEMMA DestroyConfigurationKeeps ==
  ASSUME WireInv, NEW c \in Ids, DestroyConfiguration(c)  PROVE WireInv'
<1> DEFINE k == "zwlr_output_configuration_v1"
           h == "zwlr_output_configuration_head_v1"
           rest == {r \in core.tab : ~(r.k = h /\ r.of = c)}
           d == [core EXCEPT !.tab = rest]
<1>1. DOMAIN core = Fields /\ Good(core)  BY DEF WireInv, Good, Fields
<1>2. gone = "no" /\ Destroy(k, c, TRUE, d)
  BY DEF DestroyConfiguration, Request
<1>3. Is(k, c) /\ (orderly => Unreferenced(c))
  BY <1>2, NamesIs DEF Destroy, Polite
<1>4. /\ core' = [d EXCEPT !.obj[c] = None, !.tab = Without(d, k, c)]
      /\ mine' = Recorded({r \in mine : r.id # c}) /\ UNCHANGED <<orderly, bound, gone>>
  BY <1>2, <1>3 DEF Destroy, Respond
<1> HIDE DEF rest
<1>5. d.tab = rest /\ d.obj = core.obj /\ SameTotals(core, d)
  BY <1>1, FieldNames DEF SameTotals
<1> HIDE DEF d
<1>6. core'.obj = SetObj(core.obj, c, None) /\ core'.tab = {r \in rest : ~(r.k = k /\ r.id = c)}
      /\ SameTotals(core, core')
  <2>1. core'.obj = [d.obj EXCEPT ![c] = None] /\ core'.tab = Without(d, k, c)
        /\ SameTotals(d, core')
    BY <1>4, <1>5, FieldNames DEF SameTotals
  <2> QED  BY <1>5, <2>1 DEF SetObj, Without, SameTotals
<1>7. k \in Destroyable /\ k \notin Inhibitor \cup ShmKinds \cup RoleKeepers \cup Constraints
      /\ h \notin Inhibitor \cup ShmKinds \cup RoleKeepers \cup Constraints
      /\ h \notin Certain \cup {"wl_output"} \cup NeedsRow
  BY DEF Destroyable, Inhibitor, ShmKinds, RoleKeepers, Constraints, Certain, Exact, Lingering, NeedsRow
<1>8. /\ core'.tab \subseteq DropRow(core.tab, k, c)
      /\ \A r \in DropRow(core.tab, k, c) \ core'.tab : r.k = h
  BY <1>6 DEF DropRow, rest
<1>9. \A r \in DropRow(core.tab, k, c) \ core'.tab :
           /\ r.k \notin Certain \cup {"wl_output"}
           /\ orderly /\ r.k \in NeedsRow => \A q \in mine : ~(q.k = r.k /\ q.id = r.id)
  BY <1>7, <1>8
<1>10. /\ core'.selection = core.selection /\ core'.over = core.over /\ core'.adv = core.adv
       /\ core'.member = core.member
  BY <1>6 DEF SameTotals
<1>11. /\ Registered(core'.obj, core'.tab)
       /\ Selected(core'.tab, core'.selection)
       /\ Covered(Rows(core'.tab, {"wl_output"}), core'.obj, core'.over, core'.adv, core'.member)
       /\ orderly => Knows(core'.obj, core'.tab, {q \in mine : q.id # c})
  BY <1>3, <1>6, <1>7, <1>8, <1>9, <1>10, OldObject
<1>12. \A K : k \notin K /\ h \notin K => Rows(core'.tab, K) = Rows(core.tab, K)
  BY <1>6 DEF Rows, rest
<1>13. Good(core')  BY <1>1, <1>6, <1>7, <1>11, <1>12 DEF Good, SameTotals, Fields
<1>14. orderly => Owns(core', mine')
  BY <1>4, <1>6, <1>7, <1>11, <1>12 DEF WireInv, Owns, SameTotals, Recorded
<1>15. ~orderly => mine' = {}  BY <1>4 DEF Recorded
<1> QED  BY <1>2, <1>4, <1>13, <1>14, <1>15, AnswerIsGood

-----------------------------------------------------------------------------
(* Idle inhibitors *)

LEMMA OneKindFinite ==
  ASSUME NEW obj, NEW tab, Registered(obj, tab), NEW k
  PROVE  /\ IsFiniteSet({r \in tab : r.k = k})
         /\ Cardinality({r \in tab : r.k = k}) <= Cardinality(Ids)
<1> DEFINE U == {r \in tab : r.k = k}
           f == [r \in U |-> r.id]
<1>1. f \in [U -> Ids]  BY DEF Registered, IsRow
<1>2. \A r, q \in U : f[r] = f[q] => r = q  BY DEF Registered
<1>3. f \in Injection(U, Ids)  BY <1>1, <1>2 DEF Injection, IsInjective
<1> HIDE DEF U, f
<1>4. IsFiniteSet(U) /\ Cardinality(U) <= Cardinality(Ids)
  BY <1>3, FS_Injection, IdAssumption
<1> QED  BY <1>4 DEF U

LEMMA CountedMore ==
  ASSUME NEW T, IsFiniteSet(T), NEW counts, NEW inhibited, Counted(T, counts, inhibited),
         NEW r, r \notin T, NEW s \in Ids, r.of = s
  PROVE  Counted(T \cup {r}, [counts EXCEPT ![s] = @ + 1], TRUE)
<1> DEFINE on(x) == {q \in T : q.of = x}
           after(x) == {q \in T \cup {r} : q.of = x}
<1>1. \A x \in Ids : IsFiniteSet(on(x))  BY FS_Subset
<1>2. \A x \in Ids : after(x) = IF x = s THEN on(s) \cup {r} ELSE on(x)  OBVIOUS
<1>3. r \notin on(s)  OBVIOUS
<1>4. counts = [x \in Ids |-> Cardinality(on(x))]  BY DEF Counted
<1> HIDE DEF on, after
<1>5. Cardinality(on(s) \cup {r}) = Cardinality(on(s)) + 1  BY <1>1, <1>3, FS_AddElement
<1>6. [counts EXCEPT ![s] = @ + 1] = [x \in Ids |-> Cardinality(after(x))]
  BY <1>2, <1>4, <1>5
<1> QED  BY <1>6 DEF Counted, after

LEMMA CountedLess ==
  ASSUME NEW T, IsFiniteSet(T), NEW counts, NEW inhibited, Counted(T, counts, inhibited),
         NEW r \in T, NEW s, r.of = s
  PROVE  Counted(T \ {r}, [counts EXCEPT ![s] = IF @ = 0 THEN 0 ELSE @ - 1], T \ {r} # {})
<1> DEFINE on(x) == {q \in T : q.of = x}
           after(x) == {q \in T \ {r} : q.of = x}
<1>1. \A x \in Ids : IsFiniteSet(on(x))  BY FS_Subset
<1>2. \A x \in Ids : after(x) = IF x = s THEN on(s) \ {r} ELSE on(x)  OBVIOUS
<1>3. r \in on(s) /\ s \in Ids  BY DEF Counted
<1>4. counts = [x \in Ids |-> Cardinality(on(x))]  BY DEF Counted
<1> HIDE DEF on, after
<1>5. Cardinality(on(s) \ {r}) = Cardinality(on(s)) - 1  BY <1>1, <1>3, FS_RemoveElement
<1>6. Cardinality(on(s)) # 0  BY <1>1, <1>3, FS_EmptySet
<1>7. [counts EXCEPT ![s] = IF @ = 0 THEN 0 ELSE @ - 1] = [x \in Ids |-> Cardinality(after(x))]
  BY <1>2, <1>4, <1>5, <1>6
<1> QED  BY <1>7 DEF Counted, after

LEMMA CreateInhibitorKeeps ==
  ASSUME WireInv, NEW id \in Ids, NEW s \in Ids, CreateInhibitor(id, s)  PROVE WireInv'
<1> DEFINE k == "zwp_idle_inhibitor_v1"
           r == Row(k, id, s, None)
<1>1. DOMAIN core = Fields /\ Good(core)  BY DEF WireInv, Good, Fields
<1>2. gone = "no" /\ Offers(id) /\ Fresh(core, id)
  BY OffersFresh DEF CreateInhibitor, Request
<1>3. ASSUME orderly  PROVE Refers(id, s)
  <2>1. Is("wl_surface", s)  BY <1>3, HasIs DEF CreateInhibitor, Polite
  <2> QED  BY <2>1, NoneAssumption DEF Refers, Live, Is, Kinds, Exact
<1>4. CASE Dropped("request") /\ ~orderly  BY <1>4, DroppedIsGood
<1>5. CASE /\ core' = [core EXCEPT !.obj[id] = k, !.tab = Put(core, r),
                          !.counts[s] = @ + 1, !.inhibited = TRUE]
           /\ mine' = Recorded(mine \cup {r}) /\ UNCHANGED <<orderly, bound, gone>>
  <2>1. r.k = k /\ r.id = id /\ r.of = s /\ r.at = None  BY RowFields
  <2>2. /\ core'.obj = SetObj(core.obj, id, k)
        /\ core'.tab = AddRow(core.tab, r)
        /\ core'.counts = [core.counts EXCEPT ![s] = @ + 1] /\ core'.inhibited = TRUE
        /\ DOMAIN core' = Fields
    BY <1>1, <1>5, <2>1, FieldNames DEF SetObj, AddRow, Put
  <2>3. /\ core'.role = core.role /\ core'.pairs = core.pairs
        /\ core'.store = core.store /\ core'.fake = core.fake
        /\ core'.selection = core.selection /\ core'.over = core.over /\ core'.adv = core.adv
        /\ core'.member = core.member
    BY <1>1, <1>5, FieldNames
  <2>4. /\ k \in Creatable /\ Inhibitor = {k}
        /\ k \notin Constraints \cup ShmKinds \cup RoleKeepers \cup Lingering
        /\ k \notin OfMatched /\ k \notin AtMatched
    BY DEF Creatable, Inhibitor, Constraints, ShmKinds, RoleKeepers,
       Lingering, OfMatched, AtMatched, NeedsRow
  <2>5. /\ Registered(core'.obj, core'.tab)
        /\ Selected(core'.tab, core'.selection)
        /\ Covered(Rows(core'.tab, {"wl_output"}), core'.obj, core'.over, core'.adv, core'.member)
        /\ \A K : k \notin K => Rows(core'.tab, K) = Rows(core.tab, K)
        /\ \A K : k \in K /\ k \notin Lingering => Rows(core'.tab, K) = Rows(core.tab, K) \cup {r}
        /\ orderly => Knows(core'.obj, core'.tab, mine \cup {r})
    BY <1>2, <2>2, <2>3, <2>4, NewObject
  <2> HIDE DEF r
  <2>6. Counted(Rows(core'.tab, Inhibitor), core'.counts, core'.inhibited)
    <3> DEFINE T == Rows(core.tab, Inhibitor)
    <3>1. Counted(T, core.counts, core.inhibited)  BY <1>1 DEF Good
    <3>2. Rows(core'.tab, Inhibitor) = T \cup {r}  BY <2>4, <2>5
    <3>3. IsFiniteSet(T)
      <4>1. T = {q \in core.tab : q.k = k}  BY <2>4 DEF Rows
      <4>2. Registered(core.obj, core.tab)  BY <1>1 DEF Good
      <4>3. IsFiniteSet({q \in core.tab : q.k = k})  BY <4>2, OneKindFinite, Zenon
      <4> QED  BY <4>1, <4>3
    <3>4. r \notin T
      <4> SUFFICES ASSUME r \in T  PROVE FALSE  OBVIOUS
      <4>1. r \in core.tab /\ core.obj[r.id] = Base(r.k) /\ r.k \in Kinds
        BY <1>1, <2>1, <2>4 DEF Good, Registered, IsRow, Rows
      <4> QED  BY <1>2, <2>1, <4>1, BaseIsInterface DEF Fresh
    <3> HIDE DEF T
    <3>5. Counted(T \cup {r}, [core.counts EXCEPT ![s] = @ + 1], TRUE)
      BY <2>1, <3>1, <3>3, <3>4, CountedMore
    <3> QED  BY <2>2, <3>2, <3>5
  <2>7. Good(core')  BY <1>1, <2>2, <2>3, <2>4, <2>5, <2>6 DEF Good, Fields
  <2>8. orderly => Owns(core', mine')
    BY <1>5, <2>3, <2>4, <2>5 DEF WireInv, Owns, Recorded
  <2>9. ~orderly => mine' = {}  BY <1>5 DEF Recorded
  <2> QED  BY <1>2, <1>5, <2>7, <2>8, <2>9, AnswerIsGood
<1> QED  BY <1>2, <1>3, <1>4, <1>5 DEF CreateInhibitor, Respond

LEMMA DestroyInhibitorKeeps ==
  ASSUME WireInv, NEW i \in Ids, DestroyInhibitor(i)  PROVE WireInv'
<1> DEFINE k == "zwp_idle_inhibitor_v1"
           row == RowOf(k, i)
           s == row.of
           d == Uninhibited(i)
           T == Rows(core.tab, Inhibitor)
<1>1. DOMAIN core = Fields /\ Good(core)  BY DEF WireInv, Good, Fields
<1>2. /\ gone = "no"
      /\ Destroy(k, i, i \in Keys(core, k), IF i \in Keys(core, k) THEN d ELSE core)
  BY DEF DestroyInhibitor, Request
<1>3. Is(k, i) /\ (orderly => Unreferenced(i))
  BY <1>2, NamesIs DEF Destroy, Polite
<1>4. i \in Keys(core, k)  BY <1>3, IsKey DEF Certain, Exact
<1>5. /\ core' = [d EXCEPT !.obj[i] = None, !.tab = Without(d, k, i)]
      /\ mine' = Recorded({r \in mine : r.id # i}) /\ UNCHANGED <<orderly, bound, gone>>
  BY <1>2, <1>3, <1>4 DEF Destroy, Respond
<1>6. /\ row \in core.tab /\ row.k = k /\ row.id = i
      /\ \A r \in core.tab : r.k = k /\ r.id = i => r = row
  BY <1>4, RowOfIs
<1>7. k \in Destroyable /\ Inhibitor = {k} /\ k \notin Constraints \cup ShmKinds \cup RoleKeepers
  BY DEF Destroyable, Inhibitor, Constraints, ShmKinds, RoleKeepers
<1>8. (\E r \in RowsOf(core, k) : r.id # i) <=> (T \ {row} # {})
  BY <1>6, <1>7 DEF RowsOf, Rows
<1>9. d = [core EXCEPT !.counts[s] = IF @ = 0 THEN 0 ELSE @ - 1,
                       !.inhibited = (T \ {row} # {})]
  BY <1>8 DEF Uninhibited
<1> HIDE DEF row, d, T
<1>10. /\ d.tab = core.tab /\ d.obj = core.obj /\ DOMAIN d = Fields
       /\ d.counts = [core.counts EXCEPT ![s] = IF @ = 0 THEN 0 ELSE @ - 1]
       /\ d.inhibited = (T \ {row} # {})
       /\ d.role = core.role /\ d.pairs = core.pairs
       /\ d.store = core.store /\ d.fake = core.fake
       /\ d.selection = core.selection /\ d.over = core.over /\ d.adv = core.adv
       /\ d.member = core.member
  BY <1>1, <1>9, FieldNames
<1> HIDE DEF s
<1>11. core'.obj = SetObj(core.obj, i, None) /\ core'.tab = DropRow(core.tab, k, i)
  <2>1. core'.obj = [d.obj EXCEPT ![i] = None] /\ core'.tab = Without(d, k, i)
    BY <1>5, <1>10, FieldNames
  <2> QED  BY <1>10, <2>1 DEF SetObj, DropRow, Without
<1>12. /\ core'.counts = d.counts /\ core'.inhibited = d.inhibited /\ DOMAIN core' = Fields
       /\ core'.role = core.role /\ core'.pairs = core.pairs
       /\ core'.store = core.store /\ core'.fake = core.fake
  BY <1>5, <1>10, FieldNames
<1>13. /\ core'.selection = core.selection /\ core'.over = core.over /\ core'.adv = core.adv
       /\ core'.member = core.member
  BY <1>5, <1>10, FieldNames
<1>14. core'.tab \subseteq DropRow(core.tab, k, i) /\ DropRow(core.tab, k, i) \ core'.tab = {}
  BY <1>11
<1>15. /\ Registered(core'.obj, core'.tab)
       /\ Selected(core'.tab, core'.selection)
       /\ Covered(Rows(core'.tab, {"wl_output"}), core'.obj, core'.over, core'.adv, core'.member)
       /\ orderly => Knows(core'.obj, core'.tab, {q \in mine : q.id # i})
  BY <1>3, <1>7, <1>11, <1>13, <1>14, OldObject
<1>16. \A K : k \notin K => Rows(core'.tab, K) = Rows(core.tab, K)
  BY <1>11, RowsAfterDrop
<1>17. Counted(Rows(core'.tab, Inhibitor), core'.counts, core'.inhibited)
  <2>1. Counted(T, core.counts, core.inhibited)  BY <1>1 DEF Good, T
  <2>2. Rows(core'.tab, Inhibitor) = T \ {row} /\ row \in T
    BY <1>6, <1>7, <1>11 DEF Rows, DropRow, T
  <2>3. IsFiniteSet(T)
    <3>1. T = {q \in core.tab : q.k = k}  BY <1>7 DEF Rows, T
    <3> QED  BY <1>1, <3>1, OneKindFinite DEF Good
  <2>4. row.of = s  BY DEF s
  <2>5. Counted(T \ {row}, [core.counts EXCEPT ![s] = IF @ = 0 THEN 0 ELSE @ - 1], T \ {row} # {})
    BY <2>1, <2>2, <2>3, <2>4, CountedLess, SMTT(30)
  <2> QED  BY <1>10, <1>12, <2>2, <2>5
<1>18. Good(core')  BY <1>1, <1>7, <1>12, <1>15, <1>16, <1>17 DEF Good, Fields
<1>19. orderly => Owns(core', mine')
  BY <1>5, <1>7, <1>12, <1>15, <1>16 DEF WireInv, Owns, Recorded
<1>20. ~orderly => mine' = {}  BY <1>5 DEF Recorded
<1> QED  BY <1>2, <1>5, <1>18, <1>19, <1>20, AnswerIsGood

-----------------------------------------------------------------------------
(* Routed input and the releases of the connection loop *)

LEMMA RecordedMine == ASSUME WireInv  PROVE Recorded(mine) = mine
BY DEF Recorded, WireInv

LEMMA RouteInputKeeps == ASSUME WireInv, NEW s, RouteInput(s)  PROVE WireInv'
<1>1. DOMAIN core = Fields  BY DEF WireInv, Good, Fields
<1>2. SameTotals(core, core') /\ core'.obj = core.obj /\ core'.tab = core.tab
  BY <1>1, FieldNames DEF RouteInput, SameTotals
<1>3. gone = "no" /\ mine' = Recorded(mine) /\ UNCHANGED <<orderly, bound, gone>>
  BY RecordedMine DEF RouteInput
<1> QED  BY <1>2, <1>3, MinorIsGood

LEMMA DeliverInputKeeps ==
  ASSUME WireInv, NEW s \in Ids, NEW dev \in {"wl_pointer", "wl_keyboard"}, DeliverInput(s, dev)
  PROVE  WireInv'
<1> DEFINE moved == {r \in RowsOf(core, dev) : r.of # s}
           told == {r.id : r \in {q \in moved : q.k = "wl_pointer"}}
           F == [r \in core.tab |-> IF r \in moved THEN [r EXCEPT !.of = s] ELSE r]
           kept == {r \in mine : ~(r.k = "entered" /\ r.id \in told)}
           new == {Row("entered", p, s, None) : p \in told}
           t == {F[r] : r \in core.tab}
<1>1. DOMAIN core = Fields /\ Good(core)  BY DEF WireInv, Good, Fields
<1>2. gone = "no"  BY DEF DeliverInput
<1>3. CASE Dropped("input")  BY <1>3, DroppedIsGood
<1>4. CASE /\ core' = [core EXCEPT !.input = @ \ {s},
                          !.tab = (@ \ moved) \cup {[r EXCEPT !.of = s] : r \in moved}]
           /\ mine' = Recorded(kept \cup new)
           /\ UNCHANGED <<orderly, bound, gone>>
  <2>1. \A r \in moved : r \in core.tab /\ r.k = dev  BY DEF RowsOf
  <2>2. (core.tab \ moved) \cup {[r EXCEPT !.of = s] : r \in moved} = t
    BY <2>1
  <2> HIDE DEF t
  <2>3. SameTotals(core, core') /\ core'.obj = core.obj /\ core'.tab = t
    BY <1>1, <1>4, <2>2, FieldNames DEF SameTotals
  <2>4. \A r \in core.tab : IsRow(r)  BY <1>1 DEF Good, Registered
  <2>5. \A r \in moved : [r EXCEPT !.of = s] = Row(r.k, r.id, s, r.at)
    <3> SUFFICES ASSUME NEW r \in moved  PROVE [r EXCEPT !.of = s] = Row(r.k, r.id, s, r.at)
      OBVIOUS
    <3>1. r = [k |-> r.k, id |-> r.id, of |-> r.of, at |-> r.at]  BY <2>1, <2>4 DEF IsRow, Row
    <3> QED  BY <3>1 DEF Row
  <2>6. \A r \in core.tab : F[r].k = r.k /\ F[r].id = r.id /\ IsRow(F[r])
    BY <2>4, <2>5, RowFields DEF IsRow
  <2>7. \A r \in moved : F[r].of = s  BY <2>1, <2>5, RowFields
  <2>8. \A r \in core.tab : r \notin moved => F[r] = r  OBVIOUS
  <2>9. \A p \in t : \E r \in core.tab : p = F[r]  BY DEF t
  <2>10. \A r \in core.tab : F[r] \in t  BY DEF t
  <2>11. dev \in Certain /\ dev \notin Constraints \cup Inhibitor \cup ShmKinds \cup RoleKeepers
           \cup {"wl_output", "wl_data_source", "xdg_surface"} \cup NeedsRow \cup OfMatched \cup AtMatched
    BY DEF Certain, Exact, Constraints, Inhibitor, ShmKinds, RoleKeepers, NeedsRow, OfMatched, AtMatched
  <2>12. Registered(core.obj, t)
    <3>1. Registered(core.obj, core.tab)  BY <1>1 DEF Good
    <3> HIDE DEF F
    <3>2. \A r \in core.tab : IsRow(F[r]) /\ F[r].id = r.id /\ Base(F[r].k) = Base(r.k)
      BY <2>6
    <3>3. \A r \in core.tab : r.k \in Certain \/ F[r].k \in Certain => F[r].k = r.k
      BY <2>6
    <3> QED  BY <2>9, <2>10, <3>1, <3>2, <3>3, Reregister
  <2>13. /\ \A p \in core.tab : p.k # dev => p \in t
         /\ \A p \in t : p.k # dev => p \in core.tab
    <3>1. \A p \in core.tab : p.k # dev => p \notin moved  BY <2>1
    <3> HIDE DEF F, moved
    <3> QED  BY <2>1, <2>6, <2>8, <2>9, <2>10, <3>1
  <2>14. \A K : dev \notin K => Rows(t, K) = Rows(core.tab, K)
    BY <2>13 DEF Rows
  <2> HIDE DEF F, moved
  <2>15. Selected(t, core.selection)  BY <1>1, <2>11, <2>13 DEF Good, Selected
  <2>16. Good(core')
    BY <1>1, <2>3, <2>11, <2>12, <2>14, <2>15 DEF Good, SameTotals, Fields
  <2>17. ASSUME orderly  PROVE Owns(core', mine')
    <3>1. Knows(core.obj, core.tab, mine) /\ Roled(Rows(core.tab, RoleKeepers), core.role)
      BY <2>17 DEF WireInv, Owns
    <3>2. mine' = kept \cup new  BY <1>4, <2>17 DEF Recorded
    <3>3. \A p \in told : p \in Ids
      BY <2>1, <2>4 DEF IsRow
    <3>4. \A q \in new : q.k = "entered" /\ q.id \in told /\ q.of = s /\ IsRow(q)
      BY <3>3 DEF IsRow, Row, Kinds
    <3>5. /\ \A q \in kept : q \in mine /\ (q.k = "entered" => q.id \notin told)
          /\ \A q \in mine : q.k # "entered" => q \in kept
      OBVIOUS
    <3>6. \A p \in told : \E r \in moved : r.id = p /\ r.k = "wl_pointer"  OBVIOUS
    <3>7. \A r \in moved : r.k = "wl_pointer" => r.id \in told  OBVIOUS
    <3> HIDE DEF kept, new, told
    <3>8. Named(core.obj, mine')
      BY <3>1, <3>2, <3>4, <3>5 DEF Knows, Named
    <3>9. Matched(t, mine')
      <4>1. "entered" \notin NeedsRow \cup OfMatched \cup AtMatched
        BY DEF NeedsRow, OfMatched, AtMatched, Constraints
      <4>2. \A q \in mine' : q \in mine \/ q.k = "entered"  BY <3>2, <3>4, <3>5
      <4>3. Matched(core.tab, mine)  BY <3>1 DEF Knows
      <4>4. ASSUME NEW q \in mine', q.k \in NeedsRow  PROVE \E r \in t : r.k = q.k /\ r.id = q.id
        <5>1. q \in mine  BY <4>1, <4>2, <4>4
        <5>2. PICK r \in core.tab : r.k = q.k /\ r.id = q.id  BY <4>3, <4>4, <5>1 DEF Matched
        <5> QED  BY <2>11, <2>13, <4>4, <5>2
      <4>5. ASSUME NEW q \in mine', NEW r \in t, q.k = r.k, q.id = r.id
            PROVE  (q.k \in OfMatched => q.of = r.of) /\ (q.k \in AtMatched => q.at = r.at)
        <5>1. CASE q.k = "entered" \/ r.k = dev  BY <2>11, <4>1, <4>5, <5>1
        <5>2. CASE q.k # "entered" /\ r.k # dev
          BY <2>13, <4>2, <4>3, <4>5, <5>2 DEF Matched
        <5> QED  BY <5>1, <5>2
      <4> QED  BY <4>4, <4>5 DEF Matched
    <3>10. Toplevels(t, mine')
      BY <2>11, <2>13, <3>1, <3>2, <3>4, <3>5 DEF Knows, Toplevels
    <3>11. Focused(t, mine')
      <4> SUFFICES ASSUME NEW q \in mine', q.k = "entered"
                   PROVE  \E r \in t : r.k = "wl_pointer" /\ r.id = q.id /\ r.of = q.of
        BY DEF Focused
      <4>1. CASE q \in new
        <5>1. PICK r \in moved : r.id = q.id /\ r.k = "wl_pointer"  BY <3>4, <3>6, <4>1
        <5>2. r \in core.tab  BY <2>1
        <5>3. F[r] \in t /\ F[r].k = "wl_pointer" /\ F[r].id = q.id /\ F[r].of = q.of
          BY <2>6, <2>7, <2>10, <3>4, <4>1, <5>1, <5>2
        <5> QED  BY <5>3
      <4>2. CASE q \in kept
        <5>1. PICK r \in core.tab : r.k = "wl_pointer" /\ r.id = q.id /\ r.of = q.of
          BY <3>1, <3>5, <4>2 DEF Knows, Focused
        <5>2. r \notin moved  BY <3>5, <3>7, <4>2, <5>1
        <5> QED  BY <2>8, <2>10, <5>1, <5>2
      <4> QED  BY <3>2, <4>1, <4>2
    <3> QED  BY <2>3, <2>11, <2>14, <3>1, <3>8, <3>9, <3>10, <3>11 DEF Owns, Knows, SameTotals
  <2>18. ~orderly => mine' = {}  BY <1>4 DEF Recorded
  <2> QED  BY <1>2, <1>4, <2>16, <2>17, <2>18, AnswerIsGood
<1> QED  BY <1>3, <1>4 DEF DeliverInput

LEMMA PresentKeeps ==
  ASSUME WireInv, NEW r \in core.tab, Present(r)  PROVE WireInv'
<1> DEFINE o == SetObj(core.obj, r.id, None)
           t == core.tab \ {r}
           n == {q \in mine : q.id # r.id}
<1>1. DOMAIN core = Fields /\ Good(core)  BY DEF WireInv, Good, Fields
<1>2. gone = "no" /\ r.k \in {"held_callback", "held_feedback"}  BY DEF Present
<1>3. /\ r.id \in Ids /\ core.obj[r.id] = Base(r.k)
      /\ Base(r.k) \in {"wl_callback", "wp_presentation_feedback"}
  BY <1>1, <1>2 DEF Good, Registered, IsRow, Base, Lingering
<1>4. Live(core, r.id)  BY <1>3, NoneAssumption DEF Live, Kinds, Cascaded
<1>5. /\ core' = [core EXCEPT !.obj[r.id] = None, !.tab = @ \ {r}]
      /\ mine' = n /\ UNCHANGED <<orderly, bound, gone>>
  BY <1>4 DEF Present
<1>6. SameTotals(core, core') /\ core'.obj = o /\ core'.tab = t
  BY <1>1, <1>5, FieldNames DEF SameTotals, SetObj
<1>7. /\ DOMAIN o = Ids /\ o[r.id] = None
      /\ \A i \in Ids : i # r.id => o[i] = core.obj[i]
  BY <1>1, <1>3, SetObjIs DEF Good, Registered
<1>8. o = [i \in Ids |-> o[i]]  BY <1>7 DEF o, SetObj
<1> HIDE DEF o
<1>9. o \in [Ids -> Interfaces \cup {None}]  BY <1>1, <1>7, <1>8 DEF Good, Registered
<1>10. \A i \in Ids : o[i] = core.obj[i] \/ o[i] = None  BY <1>7
<1>11. \A p \in t : p.k \notin Lingering => o[p.id] = core.obj[p.id]
  <2> SUFFICES ASSUME NEW p \in t, p.k \notin Lingering, p.id = r.id  PROVE FALSE
    BY <1>1, <1>7 DEF Good, Registered, IsRow
  <2>1. Base(p.k) = Base(r.k)  BY <1>1, <1>3 DEF Good, Registered
  <2> QED  BY <1>1, <2>1 DEF Good, Registered
<1>12. r.k \notin Certain \cup Constraints \cup Inhibitor \cup ShmKinds \cup RoleKeepers
         \cup {"wl_output", "wl_data_source", "xdg_surface", "wl_pointer"} \cup NeedsRow
  BY <1>2 DEF Certain, Exact, Lingering, Constraints, Inhibitor, ShmKinds, RoleKeepers, NeedsRow
<1>13. \A p \in core.tab : p.k \in Certain /\ o[p.id] = p.k => p \in t  BY <1>12
<1>14. t \subseteq core.tab /\ core.tab \ t = {r}  OBVIOUS
<1> HIDE DEF t
<1>15. Registered(o, t)
  BY <1>1, <1>9, <1>10, <1>11, <1>13, <1>14, Unregister DEF Good
<1>16. \A K : r.k \notin K => Rows(t, K) = Rows(core.tab, K)
  BY <1>14 DEF Rows
<1>17. Selected(t, core.selection)
  BY <1>1, <1>12, <1>14 DEF Good, Selected
<1>18. Covered(Rows(t, {"wl_output"}), o, core.over, core.adv, core.member)
  <2>1. \A i \in Ids : core.obj[i] = "wl_surface" => o[i] = "wl_surface"
    BY <1>3, <1>7
  <2>2. Rows(core.tab, {"wl_output"}) \subseteq Rows(t, {"wl_output"})  BY <1>12, <1>16
  <2>3. Covered(Rows(core.tab, {"wl_output"}), core.obj, core.over, core.adv, core.member)
    BY <1>1 DEF Good
  <2> QED  BY <2>1, <2>2, <2>3, CoveredMore
<1>19. Good(core')
  BY <1>1, <1>6, <1>12, <1>15, <1>16, <1>17, <1>18 DEF Good, SameTotals, Fields
<1>20. ASSUME orderly  PROVE Owns(core', mine')
  <2>1. Knows(core.obj, core.tab, mine) /\ Roled(Rows(core.tab, RoleKeepers), core.role)
    BY <1>20 DEF WireInv, Owns
  <2>2. n \subseteq mine /\ \A q \in mine : q.id \in Ids
    BY <2>1 DEF Knows, Named, IsRow
  <2>3. \A q \in n : q.k # "entered" => o[q.id] = core.obj[q.id]  BY <1>7, <2>2
  <2>4. \A q \in mine : q.k # "entered" /\ o[q.id] # None => q \in n  BY <1>7, <2>2
  <2>5. \A p \in core.tab \ t : \A q \in n :
           /\ ~(q.k \in NeedsRow /\ p.k = q.k /\ p.id = q.id)
           /\ ~(q.k = "xdg_toplevel" /\ p.k = "xdg_surface" /\ p.id = q.of)
           /\ ~(q.k = "entered" /\ p.k = "wl_pointer" /\ p.id = q.id)
    BY <1>12, <1>14
  <2> HIDE DEF n
  <2>6. Knows(o, t, n)
    BY <1>10, <1>14, <2>1, <2>2, <2>3, <2>4, <2>5, KnowsLess
  <2> QED  BY <1>5, <1>6, <1>12, <1>16, <2>1, <2>6 DEF Owns, SameTotals
<1>21. ~orderly => mine' = {}  BY <1>5 DEF WireInv
<1> QED  BY <1>2, <1>5, <1>19, <1>20, <1>21, AnswerIsGood

-----------------------------------------------------------------------------
(* wl_surface.destroy and wl_surface.commit *)

LEMMA DestroySurfaceKeeps ==
  ASSUME WireInv, NEW s \in Ids, DestroySurface(s)  PROVE WireInv'
<1> DEFINE lost == {r \in core.tab : r.k \in ClearedWithSurface /\ r.of = s}
           freed == {r.id : r \in {q \in lost : q.k \in FreedWithSurface}}
           pairs == {<<r.of, r.at>> : r \in {q \in lost : q.k \in Constraints}}
           t == {r \in core.tab \ lost : r.id # s \/ r.k # "wl_surface"}
           rest == [core EXCEPT !.tab = t]
           o == Free(core, freed \cup {s})
           n == {r \in mine : r.id \notin freed \cup {s} /\ ~(r.k = "entered" /\ r.of = s)}
           role == [core.role EXCEPT ![s] = None]
           counts == [core.counts EXCEPT ![s] = 0]
           over == [core.over EXCEPT ![s] = None]
           k == "zwp_idle_inhibitor_v1"
<1>1. DOMAIN core = Fields /\ Good(core)  BY DEF WireInv, Good, Fields
<1>2. gone = "no" /\ Is("wl_surface", s) /\ (orderly => Unreferenced(s))
  BY NamesIs DEF DestroySurface, Request, Polite
<1>3. \A i \in freed : \E r \in core.tab : r \in lost /\ r.k \in FreedWithSurface /\ r.id = i
  OBVIOUS
<1>4. \A r \in lost : r.k \in FreedWithSurface => r.id \in freed  OBVIOUS
<1>5. \A r \in core.tab : r.k \in FreedWithSurface =>
         /\ r.id \in Ids /\ core.obj[r.id] = Base(r.k) /\ Base(r.k) # None
         /\ Base(r.k) \in {"wl_callback", k, "wp_presentation_feedback"}
  BY <1>1, BaseIsInterface DEF Good, Registered, IsRow, FreedWithSurface, Base, Lingering
<1>6. \A i \in freed : /\ Live(core, i)
                       /\ core.obj[i] \in {"wl_callback", k, "wp_presentation_feedback"}
  BY <1>3, <1>5 DEF Live
<1>7. freed = {r.id : r \in {q \in core.tab : q.k \in FreedWithSurface /\ q.of = s}}
  BY DEF ClearedWithSurface, FreedWithSurface
<1> HIDE DEF freed
<1>8. core' = AfterSurface(s) /\ mine' = Recorded(n) /\ UNCHANGED <<orderly, bound, gone>>
  BY <1>2, <1>6, <1>7 DEF DestroySurface, Respond
<1>9. AfterSurface(s) =
        [rest EXCEPT !.obj = o, !.pairs = @ \ pairs, !.counts[s] = 0,
                     !.inhibited = RowsOf(rest, k) # {}, !.role[s] = None,
                     !.pending[s] = None, !.current[s] = None, !.damage[s] = 0, !.over[s] = None]
  BY DEF AfterSurface, freed
<1> HIDE DEF o, t, pairs, n
<1>10. /\ rest.tab = t /\ DOMAIN rest = Fields /\ rest.role = core.role /\ rest.pairs = core.pairs
       /\ rest.counts = core.counts /\ rest.store = core.store /\ rest.fake = core.fake
       /\ rest.over = core.over /\ rest.member = core.member /\ rest.adv = core.adv
       /\ rest.selection = core.selection
  BY <1>1, FieldNames
<1> HIDE DEF rest
<1>11. /\ core'.obj = o /\ core'.tab = t /\ core'.pairs = core.pairs \ pairs
       /\ core'.counts = counts /\ core'.inhibited = (RowsOf(rest, k) # {}) /\ core'.role = role
       /\ core'.over = over /\ DOMAIN core' = Fields
  <2>1. core' = [rest EXCEPT !.obj = o, !.pairs = @ \ pairs, !.counts[s] = 0,
                     !.inhibited = RowsOf(rest, k) # {}, !.role[s] = None,
                     !.pending[s] = None, !.current[s] = None, !.damage[s] = 0, !.over[s] = None]
    BY <1>8, <1>9
  <2>2. core'.obj = o /\ core'.tab = rest.tab /\ DOMAIN core' = DOMAIN rest
    BY <1>10, <2>1, FieldNames
  <2>3. core'.pairs = rest.pairs \ pairs /\ core'.inhibited = (RowsOf(rest, k) # {})
    BY <1>10, <2>1, FieldNames
  <2>4. core'.counts = [rest.counts EXCEPT ![s] = 0] /\ core'.role = [rest.role EXCEPT ![s] = None]
    BY <1>10, <2>1, FieldNames
  <2>5. core'.over = [rest.over EXCEPT ![s] = None]
    BY <1>10, <2>1, FieldNames
  <2> QED  BY <1>10, <2>2, <2>3, <2>4, <2>5
<1>12. /\ core'.store = core.store /\ core'.fake = core.fake /\ core'.member = core.member
       /\ core'.adv = core.adv /\ core'.selection = core.selection
  BY <1>8, <1>9, <1>10, FieldNames
<1>13. /\ \A r \in lost : r \in core.tab /\ r.of = s /\ r.k \in ClearedWithSurface
       /\ \A r \in core.tab : r.of = s /\ r.k \in ClearedWithSurface => r \in lost
  OBVIOUS
<1>14. /\ t \subseteq core.tab
       /\ \A r \in core.tab \ t : r \in lost \/ (r.k = "wl_surface" /\ r.id = s)
       /\ \A r \in t : r \notin lost /\ ~(r.k = "wl_surface" /\ r.id = s)
  BY DEF t
<1> HIDE DEF lost
<1>15. /\ \A i \in Ids : i \in freed \cup {s} => o[i] = None
       /\ \A i \in Ids : i \notin freed \cup {s} => o[i] = core.obj[i]
       /\ DOMAIN o = Ids /\ o = [i \in Ids |-> o[i]]
  BY DEF o, Free
<1>16. Registered(o, t)
  <2>1. o \in [Ids -> Interfaces \cup {None}]  BY <1>1, <1>15 DEF Good, Registered
  <2>2. \A i \in Ids : o[i] = core.obj[i] \/ o[i] = None  BY <1>15
  <2>3. \A r \in t : r.k \notin Lingering => o[r.id] = core.obj[r.id]
    <3> SUFFICES ASSUME NEW r \in t, r.k \notin Lingering, r.id \in freed \cup {s}  PROVE FALSE
      BY <1>1, <1>14, <1>15 DEF Good, Registered, IsRow
    <3>1. r \in core.tab /\ core.obj[r.id] = Base(r.k)  BY <1>1, <1>14 DEF Good, Registered
    <3>2. CASE r.id = s
      <4>1. Base(r.k) = "wl_surface"  BY <1>2, <3>1, <3>2 DEF Is
      <4> QED  BY <1>14, <3>2, <4>1 DEF Base
    <3>3. CASE r.id \in freed
      <4>1. PICK q \in core.tab : q \in lost /\ q.k \in FreedWithSurface /\ q.id = r.id
        BY <1>3, <3>3
      <4>2. Base(q.k) = Base(r.k)  BY <1>5, <3>1, <4>1
      <4>3. q = r  BY <1>1, <3>1, <4>1, <4>2 DEF Good, Registered
      <4> QED  BY <1>14, <4>1, <4>3
    <3> QED  BY <3>2, <3>3
  <2>4. \A r \in core.tab : r.k \in Certain /\ o[r.id] = r.k => r \in t
    <3> SUFFICES ASSUME NEW r \in core.tab, r.k \in Certain, o[r.id] = r.k, r \notin t  PROVE FALSE
      OBVIOUS
    <3>1. o[r.id] # None  BY NoneAssumption DEF Certain, Kinds
    <3>2. r.id \in Ids  BY <1>1 DEF Good, Registered, IsRow
    <3>3. r \in lost  BY <1>14, <1>15, <3>1, <3>2
    <3>4. r.k \in FreedWithSurface
      BY <1>13, <3>3 DEF Certain, Exact, Lingering, ClearedWithSurface, Constraints, FreedWithSurface
    <3> QED  BY <1>4, <1>15, <3>1, <3>2, <3>3, <3>4
  <2> QED  BY <1>1, <1>14, <2>1, <2>2, <2>3, <2>4, Unregister DEF Good
<1>17. /\ \A K : "wl_surface" \notin K /\ K \cap ClearedWithSurface = {} => Rows(t, K) = Rows(core.tab, K)
  BY <1>13, <1>14 DEF Rows
<1>18. /\ Rows(t, ShmKinds) = Rows(core.tab, ShmKinds)
       /\ Rows(t, {"wl_output"}) = Rows(core.tab, {"wl_output"})
       /\ Rows(t, {"wl_data_source"}) = Rows(core.tab, {"wl_data_source"})
  <2>1. /\ "wl_surface" \notin ShmKinds \cup {"wl_output", "wl_data_source"}
        /\ ShmKinds \cap ClearedWithSurface = {}
        /\ {"wl_output"} \cap ClearedWithSurface = {}
        /\ {"wl_data_source"} \cap ClearedWithSurface = {}
    BY DEF ShmKinds, ClearedWithSurface, Constraints
  <2> QED  BY <1>17, <2>1
<1>19. Selected(t, core.selection)
  <2>1. \A r \in core.tab : r.k = "wl_data_source" => r \in t
    BY <1>18 DEF Rows
  <2> QED  BY <1>1, <2>1 DEF Good, Selected
<1>20. role \in [Ids -> {None, "xdg_surface", "layer_surface"}]  BY <1>1 DEF Good
<1>21. Paired(Rows(t, Constraints), core.pairs \ pairs)
  <2> DEFINE T == Rows(core.tab, Constraints)
             U == Rows(t, Constraints)
  <2>1. Paired(T, core.pairs)  BY <1>1 DEF Good
  <2>2. U \in SUBSET T /\ T \ U = {q \in lost : q.k \in Constraints}
    <3>1. "wl_surface" \notin Constraints  BY DEF Constraints
    <3> QED  BY <1>13, <1>14, <3>1 DEF Rows
  <2> HIDE DEF T, U
  <2>3. Paired(U, core.pairs \ {<<r.of, r.at>> : r \in T \ U})  BY <2>1, <2>2, PairedLess
  <2>4. {<<r.of, r.at>> : r \in T \ U} = pairs  BY <2>2 DEF pairs
  <2> QED  BY <2>3, <2>4 DEF U
<1>22. Counted(Rows(t, Inhibitor), counts, RowsOf(rest, k) # {})
  <2> DEFINE T == Rows(core.tab, Inhibitor)
             U == Rows(t, Inhibitor)
  <2>1. Counted(T, core.counts, core.inhibited)  BY <1>1 DEF Good
  <2>2. U = {r \in T : r.of # s}
    <3>1. "wl_surface" \notin Inhibitor /\ Inhibitor \subseteq ClearedWithSurface
      BY DEF Inhibitor, ClearedWithSurface
    <3> QED  BY <1>13, <1>14, <3>1 DEF Rows
  <2>3. (RowsOf(rest, k) # {}) = (U # {})
    BY <1>10 DEF RowsOf, Rows, Inhibitor
  <2> HIDE DEF T, U
  <2>4. \A x \in Ids : {r \in U : r.of = x} = IF x = s THEN {} ELSE {r \in T : r.of = x}
    BY <2>2
  <2>5. counts = [x \in Ids |-> Cardinality({r \in U : r.of = x})]
    <3>1. core.counts = [x \in Ids |-> Cardinality({r \in T : r.of = x})]  BY <2>1 DEF Counted
    <3>2. Cardinality({}) = 0  BY FS_EmptySet
    <3> QED  BY <2>4, <3>1, <3>2
  <2>6. \A r \in U : r.of \in Ids  BY <2>1, <2>2 DEF Counted
  <2>7. Counted(U, counts, RowsOf(rest, k) # {})
    BY <2>3, <2>5, <2>6 DEF Counted
  <2> QED  BY <2>7 DEF U
<1>23. Covered(Rows(t, {"wl_output"}), o, over, core.adv, core.member)
  <2>1. Covered(Rows(core.tab, {"wl_output"}), core.obj, core.over, core.adv, core.member)
    BY <1>1 DEF Good
  <2>2. /\ DOMAIN over = Ids /\ over[s] = None
        /\ \A x \in Ids : x # s => over[x] = core.over[x]
    BY <2>1 DEF Covered
  <2> HIDE DEF over
  <2>3. \A x \in Ids : x # s /\ core.obj[x] = "wl_surface" => o[x] = "wl_surface"
    BY <1>6, <1>15
  <2> QED  BY <1>18, <2>1, <2>2, <2>3 DEF Covered
<1>24. Good(core')
  <2> HIDE DEF role, counts, over
  <2> QED  BY <1>1, <1>11, <1>12, <1>16, <1>18, <1>19, <1>20, <1>21, <1>22, <1>23 DEF Good, Fields
<1>25. ASSUME orderly  PROVE Owns(core', mine')
  <2>1. Knows(core.obj, core.tab, mine) /\ Roled(Rows(core.tab, RoleKeepers), core.role)
    BY <1>25 DEF WireInv, Owns
  <2>2. \A q \in mine : q.k \in Owned \/ q.of # s  BY <1>2, <1>25 DEF Unreferenced
  <2>3. /\ n \subseteq mine
        /\ \A q \in n : q.id \notin freed \cup {s}
        /\ \A q \in mine : q.id \notin freed \cup {s} /\ q.k # "entered" => q \in n
    BY DEF n
  <2>4. \A q \in mine : q.id \in Ids  BY <2>1 DEF Knows, Named, IsRow
  <2>5. \A i \in Ids : o[i] = core.obj[i] \/ o[i] = None  BY <1>15
  <2>6. \A q \in n : q.k # "entered" => o[q.id] = core.obj[q.id]  BY <1>15, <2>3, <2>4
  <2>7. \A q \in mine : q.k # "entered" /\ o[q.id] # None => q \in n  BY <1>15, <2>3, <2>4
  <2>8. ASSUME NEW r \in core.tab \ t, NEW q \in n
        PROVE  /\ ~(q.k \in NeedsRow /\ r.k = q.k /\ r.id = q.id)
               /\ ~(q.k = "xdg_toplevel" /\ r.k = "xdg_surface" /\ r.id = q.of)
               /\ ~(q.k = "entered" /\ r.k = "wl_pointer" /\ r.id = q.id)
    <3>1. r.k \in ClearedWithSurface \cup {"wl_surface"}  BY <1>13, <1>14
    <3>2. r.k # "xdg_surface" /\ r.k # "wl_pointer"
      BY <3>1 DEF ClearedWithSurface, Constraints
    <3>3. ASSUME q.k \in NeedsRow, r.k = q.k, r.id = q.id  PROVE FALSE
      <4>1. r \in lost  BY <1>14, <3>3 DEF NeedsRow, Constraints
      <4>2. q.of = r.of  BY <2>1, <2>3, <3>3 DEF Knows, Matched, OfMatched
      <4>3. q.k \notin Owned  BY <3>3 DEF NeedsRow, Constraints, Owned
      <4> QED  BY <1>13, <2>2, <2>3, <4>1, <4>2, <4>3
    <3> QED  BY <3>2, <3>3
  <2>9. Knows(o, t, n)
    BY <1>14, <2>1, <2>3, <2>5, <2>6, <2>7, <2>8, KnowsLess
  <2>10. \A r \in core.tab : r.k \in RoleKeepers => r.of # s
    <3> SUFFICES ASSUME NEW r \in core.tab, r.k \in RoleKeepers, r.of = s  PROVE FALSE
      OBVIOUS
    <3>1. r.k \notin Lingering /\ Base(r.k) = r.k /\ r.k \in OfMatched /\ r.k \notin Owned
      BY DEF RoleKeepers, Lingering, Base, OfMatched, NeedsRow, Owned
    <3>2. \E q \in mine : q.k = r.k /\ q.of = s  BY <1>25, <3>1, RowIsKnown
    <3> QED  BY <2>2, <3>1, <3>2
  <2>11. Rows(t, RoleKeepers) = Rows(core.tab, RoleKeepers)
    <3>1. "wl_surface" \notin RoleKeepers  BY DEF RoleKeepers
    <3> QED  BY <1>13, <1>14, <2>10, <3>1 DEF Rows
  <2>12. Roled(Rows(core.tab, RoleKeepers), role)
    <3>1. \A r \in Rows(core.tab, RoleKeepers) : r.of # s  BY <2>10 DEF Rows
    <3>2. role[s] = None /\ \A x \in Ids : x # s => role[x] = core.role[x]
      BY <1>1 DEF Good
    <3> HIDE DEF role
    <3> QED  BY <2>1, <3>1, <3>2 DEF Roled
  <2>13. mine' = n  BY <1>8, <1>25 DEF Recorded
  <2> QED  BY <1>11, <2>9, <2>11, <2>12, <2>13 DEF Owns
<1>26. ~orderly => mine' = {}  BY <1>8 DEF Recorded
<1> QED  BY <1>2, <1>8, <1>24, <1>25, <1>26, AnswerIsGood

(* Rows of other kinds do not matter for what an orderly client knows. *)
RowsKnown == NeedsRow \cup OfMatched \cup AtMatched \cup {"xdg_surface", "wl_pointer"}

LEMMA KnowsSameRows ==
  ASSUME NEW obj, NEW tab, NEW m, Knows(obj, tab, m), NEW t,
         \A r \in tab : r.k \in RowsKnown => r \in t,
         \A r \in t : r.k \in RowsKnown => r \in tab
  PROVE  Knows(obj, t, m)
<1>1. Matched(t, m)
  <2>1. ASSUME NEW q \in m, q.k \in NeedsRow  PROVE \E r \in t : r.k = q.k /\ r.id = q.id
    <3>1. PICK r \in tab : r.k = q.k /\ r.id = q.id  BY <2>1 DEF Knows, Matched
    <3>2. r \in t  BY <2>1, <3>1 DEF RowsKnown
    <3> QED  BY <3>1, <3>2
  <2>2. ASSUME NEW q \in m, NEW r \in t, q.k = r.k, q.id = r.id
        PROVE  (q.k \in OfMatched => q.of = r.of) /\ (q.k \in AtMatched => q.at = r.at)
    <3>1. q.k \in OfMatched \cup AtMatched => r \in tab  BY <2>2 DEF RowsKnown
    <3> QED  BY <2>2, <3>1 DEF Knows, Matched
  <2> QED  BY <2>1, <2>2 DEF Matched
<1>2. Toplevels(t, m)
  <2> SUFFICES ASSUME NEW q \in m, q.k = "xdg_toplevel"
               PROVE  \E r \in t : r.k = "xdg_surface" /\ r.id = q.of /\ r.at = "configured"
    BY DEF Toplevels
  <2>1. PICK r \in tab : r.k = "xdg_surface" /\ r.id = q.of /\ r.at = "configured"
    BY DEF Knows, Toplevels
  <2>2. r \in t  BY <2>1 DEF RowsKnown
  <2> QED  BY <2>1, <2>2
<1>3. Focused(t, m)
  <2> SUFFICES ASSUME NEW q \in m, q.k = "entered"
               PROVE  \E r \in t : r.k = "wl_pointer" /\ r.id = q.id /\ r.of = q.of
    BY DEF Focused
  <2>1. PICK r \in tab : r.k = "wl_pointer" /\ r.id = q.id /\ r.of = q.of
    BY DEF Knows, Focused
  <2>2. r \in t  BY <2>1 DEF RowsKnown
  <2> QED  BY <2>1, <2>2
<1> QED  BY <1>1, <1>2, <1>3 DEF Knows

Waiting == {"wl_callback", "wp_presentation_feedback"}
Holding == {"held_callback", "held_feedback"}

LEMMA HeldIs ==
  ASSUME NEW r, IsRow(r), r.k \in Waiting
  PROVE  IsRow(Held(r)) /\ Held(r).id = r.id /\ Base(Held(r).k) = Base(r.k) /\ Held(r).k \in Holding
<1>1. r = [k |-> r.k, id |-> r.id, of |-> r.of, at |-> r.at]  BY DEF IsRow, Row
<1>2. \A j : [r EXCEPT !.k = j] = Row(j, r.id, r.of, r.at)  BY <1>1 DEF Row
<1>3. CASE r.k = "wl_callback"
  <2>1. Held(r) = Row("held_callback", r.id, r.of, r.at)  BY <1>2, <1>3 DEF Held
  <2> QED  BY <1>3, <2>1, RowFields DEF IsRow, Base, Holding, Kinds
<1>4. CASE r.k = "wp_presentation_feedback"
  <2>1. Held(r) = Row("held_feedback", r.id, r.of, r.at)  BY <1>2, <1>4 DEF Held
  <2> QED  BY <1>4, <2>1, RowFields DEF IsRow, Base, Holding, Kinds
<1> QED  BY <1>3, <1>4 DEF Waiting

LEMMA CommitKeeps ==
  ASSUME WireInv, NEW s \in Ids, NEW seen \in SUBSET core.adv, Commit(s, seen)  PROVE WireInv'
<1> DEFINE taken == {r \in core.tab : r.k \in Owned /\ r.of = s}
           lost == {r \in taken : r.k = "wp_presentation_feedback" /\ seen = {}}
           lostIds == {r.id : r \in lost}
           placed == [core EXCEPT !.over[s] = seen]
           shown == {x \in Surfaces : (IF x = s THEN core.pending[s] ELSE core.current[x])
                                       \in Keys(core, "wl_buffer")}
           o == Free(core, lostIds)
           held == {Held(r) : r \in taken \ lost}
           t == (core.tab \ taken) \cup held
           u == core.tab \ lost
           n == {r \in mine : r.id \notin {i \in Ids : core.obj[i] # None /\ o[i] = None}}
           F == [r \in u |-> IF r \in taken THEN Held(r) ELSE r]
           over == [core.over EXCEPT ![s] = seen]
           in == {r.id : r \in {q \in RowsOf(placed, "wl_output") : q.of \in placed.over[s]}}
           member == [core.member EXCEPT ![s] = in]
<1>1. DOMAIN core = Fields /\ Good(core)  BY DEF WireInv, Good, Fields
<1>2. gone = "no" /\ Is("wl_surface", s)  BY NamesIs DEF Commit, Request
<1>3. core' = Committed(s, seen) /\ UNCHANGED <<orderly, bound, gone>>
      /\ mine' = Recorded({r \in mine : r.id \notin
                    {i \in Ids : core.obj[i] # None /\ Committed(s, seen).obj[i] = None}})
  BY <1>2 DEF Commit, Respond
<1>4. Committed(s, seen) =
        [placed EXCEPT !.obj = o, !.tab = (@ \ taken) \cup held, !.current[s] = core.pending[s],
           !.damage[s] = 0, !.member[s] = in, !.shown = shown]
  BY DEF Committed, Inside
<1>5. /\ DOMAIN placed = Fields /\ placed.over = over /\ placed.tab = core.tab
      /\ placed.member = core.member /\ placed.adv = core.adv /\ placed.role = core.role
      /\ placed.pairs = core.pairs /\ placed.selection = core.selection
      /\ placed.counts = core.counts /\ placed.inhibited = core.inhibited
      /\ placed.store = core.store /\ placed.fake = core.fake
  BY <1>1, FieldNames
<1>6. placed.over[s] = seen /\ RowsOf(placed, "wl_output") = RowsOf(core, "wl_output")
  BY <1>1, <1>5 DEF RowsOf, Good, Covered
<1>7. \A i \in in : i \in Ids /\ \E r \in Rows(core.tab, {"wl_output"}) : r.id = i /\ r.of \in seen
  BY <1>1, <1>6 DEF RowsOf, Rows, Good, Registered, IsRow
<1> HIDE DEF placed, in, o, held, shown
<1>8. /\ core'.obj = o /\ core'.tab = t /\ core'.over = over /\ core'.member = member
      /\ DOMAIN core' = Fields
  <2>1. core' = [placed EXCEPT !.obj = o, !.tab = (@ \ taken) \cup held,
           !.current[s] = core.pending[s], !.damage[s] = 0, !.member[s] = in, !.shown = shown]
    BY <1>3, <1>4
  <2>2. core'.obj = o /\ core'.over = placed.over /\ DOMAIN core' = DOMAIN placed
    BY <1>5, <2>1, FieldNames
  <2>3. core'.tab = (placed.tab \ taken) \cup held
    BY <1>5, <2>1, FieldNames
  <2>4. core'.member = [placed.member EXCEPT ![s] = in]
    BY <1>5, <2>1, FieldNames
  <2> QED  BY <1>5, <2>2, <2>3, <2>4
<1>9. /\ core'.adv = core.adv /\ core'.role = core.role /\ core'.pairs = core.pairs
      /\ core'.selection = core.selection /\ core'.counts = core.counts
      /\ core'.inhibited = core.inhibited /\ core'.store = core.store /\ core'.fake = core.fake
  BY <1>3, <1>4, <1>5, FieldNames
<1>10. mine' = Recorded(n)
  <2>1. Committed(s, seen).obj = o  BY <1>3, <1>8
  <2> QED  BY <1>3, <2>1
<1>11. /\ \A r \in taken : r \in core.tab /\ r.k \in Owned
       /\ \A r \in lost : r \in taken /\ r.k = "wp_presentation_feedback"
       /\ \A r \in core.tab : r \in u \/ r \in lost
       /\ u \subseteq core.tab /\ \A r \in u : r \notin lost
  OBVIOUS
<1>12. \A r \in core.tab : /\ IsRow(r) /\ r.id \in Ids /\ r.k # "entered"
                           /\ r.k \notin Lingering => core.obj[r.id] = Base(r.k)
  BY <1>1, NoneAssumption DEF Good, Registered, IsRow, Base, Lingering, Interfaces, Kinds
<1>13. \A r \in taken : r.k \in Waiting  BY <1>11, <1>12 DEF Owned, Waiting
<1>14. /\ \A i \in lostIds : \E r \in lost : r.id = i
       /\ \A r \in lost : r.id \in lostIds
  OBVIOUS
<1>15. \A q \in t : \E r \in u : q = F[r]
  <2> SUFFICES ASSUME NEW q \in t  PROVE \E r \in u : q = F[r]  OBVIOUS
  <2>1. CASE q \in core.tab \ taken  BY <2>1
  <2>2. CASE q \in held
    <3>1. PICK r \in taken \ lost : q = Held(r)  BY <2>2 DEF held
    <3>2. r \in u /\ F[r] = q  BY <1>11, <3>1
    <3> QED  BY <3>2
  <2> QED  BY <2>1, <2>2
<1>16. \A r \in u : F[r] \in t
  <2> SUFFICES ASSUME NEW r \in u  PROVE F[r] \in t  OBVIOUS
  <2>1. CASE r \in taken
    <3>1. F[r] = Held(r) /\ r \in taken \ lost  BY <2>1
    <3> QED  BY <3>1 DEF held
  <2>2. CASE r \notin taken  BY <2>2
  <2> QED  BY <2>1, <2>2
<1>17. \A r \in u : r \in taken => F[r] = Held(r)  OBVIOUS
<1>18. \A r \in u : r \notin taken => F[r] = r  OBVIOUS
<1> HIDE DEF F, t, u, lost, taken, lostIds
<1>19. \A i \in lostIds : i \in Ids /\ core.obj[i] = "wp_presentation_feedback"
  BY <1>11, <1>12, <1>14 DEF Base, Lingering
<1>20. /\ \A i \in Ids : i \in lostIds => o[i] = None
       /\ \A i \in Ids : i \notin lostIds => o[i] = core.obj[i]
       /\ DOMAIN o = Ids /\ o = [i \in Ids |-> o[i]]
  BY DEF o, Free
<1>21. \A i \in Ids : o[i] = core.obj[i] \/ o[i] = None  BY <1>20
<1>22. Registered(o, u)
  <2>1. o \in [Ids -> Interfaces \cup {None}]  BY <1>1, <1>20 DEF Good, Registered
  <2>2. \A r \in u : r.k \notin Lingering => o[r.id] = core.obj[r.id]
    <3> SUFFICES ASSUME NEW r \in u, r.k \notin Lingering, r.id \in lostIds  PROVE FALSE
      BY <1>11, <1>12, <1>20
    <3>1. PICK q \in lost : q.id = r.id  BY <1>14
    <3>2. Base(q.k) = Base(r.k)
      BY <1>11, <1>12, <3>1 DEF Lingering
    <3>3. q = r  BY <1>1, <1>11, <3>1, <3>2 DEF Good, Registered
    <3> QED  BY <1>11, <3>3
  <2>3. \A r \in core.tab : r.k \in Certain /\ o[r.id] = r.k => r \in u
    BY <1>11 DEF Certain, Exact, Lingering
  <2> QED  BY <1>1, <1>11, <1>21, <2>1, <2>2, <2>3, Unregister DEF Good
<1>23. \A r \in u : IsRow(F[r]) /\ F[r].id = r.id /\ Base(F[r].k) = Base(r.k)
  BY <1>11, <1>12, <1>13, <1>17, <1>18, HeldIs
<1>24. \A r \in u : r \in taken => F[r].k \in Holding /\ r.k \in Waiting
  BY <1>11, <1>12, <1>13, <1>17, HeldIs
<1>25. Registered(o, t)
  <2>1. \A r \in u : r.k \in Certain \/ F[r].k \in Certain => F[r].k = r.k
    <3>1. Certain \cap (Holding \cup Waiting) = {}
      BY DEF Certain, Exact, Lingering, Holding, Waiting
    <3> QED  BY <1>18, <1>24, <3>1
  <2> QED  BY <1>15, <1>16, <1>22, <1>23, <2>1, Reregister
<1>26. /\ \A r \in core.tab : r.k \notin Waiting => r \in u /\ r \in t
       /\ \A r \in t : r.k \notin Holding => r \in u
       /\ \A r \in t : r.k \notin Holding => r \in core.tab
  <2>1. \A r \in core.tab : r.k \notin Waiting => r \in u /\ r \notin taken
    BY <1>11, <1>13
  <2>2. \A r \in t : r.k \notin Holding => r \in u  BY <1>15, <1>18, <1>24
  <2> QED  BY <1>11, <1>16, <1>18, <2>1, <2>2
<1>27. \A K : K \cap (Waiting \cup Holding) = {} => Rows(t, K) = Rows(core.tab, K)
  BY <1>26 DEF Rows
<1>28. /\ Rows(t, Constraints) = Rows(core.tab, Constraints)
       /\ Rows(t, Inhibitor) = Rows(core.tab, Inhibitor)
       /\ Rows(t, ShmKinds) = Rows(core.tab, ShmKinds)
       /\ Rows(t, RoleKeepers) = Rows(core.tab, RoleKeepers)
       /\ Rows(t, {"wl_output"}) = Rows(core.tab, {"wl_output"})
  <2>1. /\ Constraints \cap (Waiting \cup Holding) = {}
        /\ Inhibitor \cap (Waiting \cup Holding) = {}
        /\ ShmKinds \cap (Waiting \cup Holding) = {}
        /\ RoleKeepers \cap (Waiting \cup Holding) = {}
        /\ {"wl_output"} \cap (Waiting \cup Holding) = {}
    BY DEF Constraints, Inhibitor, ShmKinds, RoleKeepers, Waiting, Holding
  <2> QED  BY <1>27, <2>1
<1>29. Selected(t, core.selection)
  BY <1>1, <1>26 DEF Good, Selected, Waiting
<1>30. Covered(Rows(t, {"wl_output"}), o, over, core.adv, member)
  <2>1. Covered(Rows(core.tab, {"wl_output"}), core.obj, core.over, core.adv, core.member)
    BY <1>1 DEF Good
  <2>2. /\ DOMAIN over = Ids /\ over[s] = seen
        /\ \A x \in Ids : x # s => over[x] = core.over[x]
        /\ member \in [Ids -> SUBSET Ids] /\ member[s] = in
        /\ \A x \in Ids : x # s => member[x] = core.member[x]
    BY <1>7, <2>1 DEF Covered
  <2> HIDE DEF over, member
  <2>3. \A x \in Ids : core.obj[x] = "wl_surface" => o[x] = "wl_surface"
    BY <1>19, <1>20
  <2>4. core.obj[s] = "wl_surface"  BY <1>2 DEF Is
  <2>5. ASSUME NEW x \in Ids, over[x] # None
        PROVE  /\ o[x] = "wl_surface" /\ over[x] \subseteq core.adv
               /\ \A y \in member[x] : \E r \in Rows(t, {"wl_output"}) : r.id = y /\ r.of \in over[x]
    <3>1. CASE x = s  BY <1>7, <1>28, <2>2, <2>3, <2>4, <3>1
    <3>2. CASE x # s  BY <1>28, <2>1, <2>2, <2>3, <2>5, <3>2 DEF Covered
    <3> QED  BY <3>1, <3>2
  <2> QED  BY <2>2, <2>5 DEF Covered
<1> HIDE DEF over, member
<1>31. Good(core')
  BY <1>1, <1>8, <1>9, <1>25, <1>28, <1>29, <1>30 DEF Good, Fields
<1>32. ASSUME orderly  PROVE Owns(core', mine')
  <2>1. Knows(core.obj, core.tab, mine) /\ Roled(Rows(core.tab, RoleKeepers), core.role)
    BY <1>32 DEF WireInv, Owns
  <2>2. \A q \in mine : q.id \in Ids  BY <2>1 DEF Knows, Named, IsRow
  <2>3. n \subseteq mine  OBVIOUS
  <2>4. \A q \in n : q.k # "entered" => o[q.id] = core.obj[q.id]  BY <1>21, <2>2
  <2>5. \A q \in mine : q.k # "entered" /\ o[q.id] # None => q \in n  OBVIOUS
  <2>6. ASSUME NEW r \in core.tab \ u, NEW q \in n
        PROVE  /\ ~(q.k \in NeedsRow /\ r.k = q.k /\ r.id = q.id)
               /\ ~(q.k = "xdg_toplevel" /\ r.k = "xdg_surface" /\ r.id = q.of)
               /\ ~(q.k = "entered" /\ r.k = "wl_pointer" /\ r.id = q.id)
    <3>1. r.k = "wp_presentation_feedback"  BY <1>11
    <3> QED  BY <3>1 DEF NeedsRow, Constraints
  <2>7. mine' = n  BY <1>10, <1>32 DEF Recorded
  <2> HIDE DEF n
  <2>8. Knows(o, u, n)
    BY <1>11, <1>21, <2>1, <2>3, <2>4, <2>5, <2>6, KnowsLess
  <2>9. Knows(o, t, n)
    <3>1. RowsKnown \cap (Waiting \cup Holding) = {}
      BY DEF RowsKnown, NeedsRow, OfMatched, AtMatched, Constraints, Waiting, Holding
    <3>2. \A r \in u : r.k \in RowsKnown => r \in t  BY <1>11, <1>26, <3>1
    <3>3. \A r \in t : r.k \in RowsKnown => r \in u  BY <1>26, <3>1
    <3> QED  BY <2>8, <3>2, <3>3, KnowsSameRows
  <2> QED  BY <1>8, <1>9, <1>28, <2>1, <2>7, <2>9 DEF Owns
<1>33. ~orderly => mine' = {}  BY <1>10 DEF Recorded
<1> QED  BY <1>2, <1>3, <1>31, <1>32, <1>33, AnswerIsGood

-----------------------------------------------------------------------------
(* Shared memory *)

LEMMA BackingsAre ==
  ASSUME NEW c  PROVE Backings(c) = HeldBackings(Rows(c.tab, ShmKinds))
BY DEF Backings, HeldBackings, RowsOf, Rows, ShmKinds

LEMMA BackedFinite ==
  ASSUME NEW T, NEW store, NEW fake, Backed(T, store, fake)
  PROVE  /\ HeldBackings(T) \subseteq Ids /\ IsFiniteSet(HeldBackings(T) \cap fake)
         /\ \A b \in HeldBackings(T) : store[b] \in Nat
         /\ Total(store, HeldBackings(T) \cap fake) \in Nat
<1>1. HeldBackings(T) \subseteq Ids  BY DEF HeldBackings, Backed
<1>2. IsFiniteSet(HeldBackings(T) \cap fake)  BY <1>1, IdAssumption, FS_Subset
<1>3. \A b \in HeldBackings(T) : store[b] \in Nat  BY <1>1 DEF Backed
<1> DEFINE S == HeldBackings(T) \cap fake
<1>4. \A b \in S : store[b] \in Nat  BY <1>3
<1> HIDE DEF S
<1>5. IsFiniteSet(S)  BY <1>2 DEF S
<1>6. Total(store, S) \in Nat  BY <1>4, <1>5, TotalIsNat
<1> QED  BY <1>1, <1>2, <1>3, <1>6 DEF S

(* A pool of a backing that nobody holds yet. *)
LEMMA BackedPool ==
  ASSUME NEW T, NEW store, NEW fake, Backed(T, store, fake),
         NEW b \in Ids, b \notin HeldBackings(T), NEW r, r.k = "wl_shm_pool", r.of = b,
         NEW size \in Nat, r.at = size, NEW length \in Nat, NEW ours \in BOOLEAN,
         ours => Total(store, HeldBackings(T) \cap fake) + size <= MaxTotal
  PROVE  Backed(T \cup {r}, [store EXCEPT ![b] = IF ours THEN size ELSE length],
                IF ours THEN fake \cup {b} ELSE fake \ {b})
<1> DEFINE st == [store EXCEPT ![b] = IF ours THEN size ELSE length]
           fk == IF ours THEN fake \cup {b} ELSE fake \ {b}
           S == HeldBackings(T) \cap fake
           U == T \cup {r}
<1>1. /\ st \in [Ids -> Nat] /\ st[b] = (IF ours THEN size ELSE length)
      /\ \A x \in Ids : x # b => st[x] = store[x]
  BY DEF Backed
<1>2. \A q \in T : q.of \in Ids /\ q.of # b /\ (q.of \in fk <=> q.of \in fake)
  BY DEF Backed, HeldBackings
<1>3. b \in fk <=> ours  OBVIOUS
<1>4. HeldBackings(U) = HeldBackings(T) \cup {b}  BY DEF HeldBackings
<1>5. /\ IsFiniteSet(S) /\ S \subseteq Ids /\ b \notin S
      /\ Total(store, S) \in Nat /\ Total(store, S) <= MaxTotal
  BY BackedFinite DEF Backed
<1>6. HeldBackings(U) \cap fk = IF ours THEN S \cup {b} ELSE S  BY <1>4
<1>7. \A x \in S : store[x] = st[x]  BY <1>1, <1>5
<1>8. ours => Total(store, S) + size <= MaxTotal  OBVIOUS
<1> HIDE DEF st, S, fk
<1>9. Total(store, S) = Total(st, S)  BY <1>5, <1>7, TotalSame
<1>10. Total(st, HeldBackings(U) \cap fk) <= MaxTotal
  <2>1. CASE ours
    <3> DEFINE V == S \cup {b}
    <3>1. IsFiniteSet(V) /\ b \in V /\ V \ {b} = S /\ V \subseteq Ids  BY <1>5, FS_AddElement
    <3>2. \A x \in V : st[x] \in Nat  BY <1>1, <3>1
    <3> HIDE DEF V
    <3>3. Total(st, V) = st[b] + Total(st, V \ {b})  BY <3>1, <3>2, TotalRemove
    <3>4. Total(st, V) = size + Total(store, S)  BY <1>1, <1>9, <2>1, <3>1, <3>3
    <3>5. size + Total(store, S) <= MaxTotal  BY <1>5, <1>8, <2>1
    <3> QED  BY <1>6, <2>1, <3>4, <3>5 DEF V
  <2>2. CASE ~ours  BY <1>5, <1>6, <1>9, <2>2
  <2> QED  BY <2>1, <2>2
<1>11. \A q \in U : q = r \/ q \in T  OBVIOUS
<1>12. \A q, p \in PoolRows(U) : q.of = p.of => q = p
  BY <1>2, <1>11 DEF Backed, PoolRows
<1>13. \A q \in U : q.of \in Ids /\ q.at \in Nat  BY <1>11 DEF Backed
<1>14. \A q \in U : q.of \in fk => q.at <= st[q.of]
  <2> SUFFICES ASSUME NEW q \in U, q.of \in fk  PROVE q.at <= st[q.of]  OBVIOUS
  <2>1. CASE q = r  BY <1>1, <1>3, <2>1
  <2>2. CASE q \in T  BY <1>1, <1>2, <2>2 DEF Backed
  <2> QED  BY <1>11, <2>1, <2>2
<1>15. \A q \in PoolRows(U) : q.of \in fk => q.at = st[q.of]
  <2> SUFFICES ASSUME NEW q \in PoolRows(U), q.of \in fk  PROVE q.at = st[q.of]  OBVIOUS
  <2>1. CASE q = r  BY <1>1, <1>3, <2>1
  <2>2. CASE q \in T  BY <1>1, <1>2, <2>2 DEF Backed, PoolRows
  <2> QED  BY <1>11, <2>1, <2>2 DEF PoolRows
<1>16. Backed(U, st, fk)  BY <1>1, <1>10, <1>12, <1>13, <1>14, <1>15 DEF Backed
<1> QED  BY <1>16 DEF st, fk

(* A buffer cut from a pool. *)
LEMMA BackedBuffer ==
  ASSUME NEW T, NEW store, NEW fake, Backed(T, store, fake),
         NEW pool \in PoolRows(T), NEW r, r.k = "wl_buffer", r.of = pool.of,
         r.at \in Nat, r.at <= pool.at
  PROVE  Backed(T \cup {r}, store, fake)
<1> DEFINE U == T \cup {r}
<1>1. pool \in T  BY DEF PoolRows
<1>2. HeldBackings(U) = HeldBackings(T)  BY <1>1 DEF HeldBackings
<1>3. PoolRows(U) = PoolRows(T)  BY DEF PoolRows
<1>4. \A q \in U : q.of \in Ids /\ q.at \in Nat /\ (q.of \in fake => q.at <= store[q.of])
  BY <1>1 DEF Backed
<1> QED  BY <1>2, <1>3, <1>4 DEF Backed

(* The last holder of a backing frees it. *)
LEMMA BackedLess ==
  ASSUME NEW T, NEW store, NEW fake, Backed(T, store, fake), NEW U \in SUBSET T
  PROVE  Backed(U, [b \in Ids |-> IF b \in HeldBackings(U) THEN store[b] ELSE 0],
                fake \cap HeldBackings(U))
<1> DEFINE st == [b \in Ids |-> IF b \in HeldBackings(U) THEN store[b] ELSE 0]
           fk == fake \cap HeldBackings(U)
           S == HeldBackings(T) \cap fake
<1>1. HeldBackings(U) \subseteq HeldBackings(T) /\ HeldBackings(T) \subseteq Ids
  BY BackedFinite DEF HeldBackings
<1>2. /\ IsFiniteSet(S) /\ \A x \in S : store[x] \in Nat
      /\ Total(store, S) \in Nat /\ Total(store, S) <= MaxTotal
  BY BackedFinite DEF Backed
<1>3. fk \in SUBSET S /\ HeldBackings(U) \cap fk = fk  BY <1>1
<1>4. st \in [Ids -> Nat] /\ \A b \in HeldBackings(U) : st[b] = store[b]
  BY <1>1 DEF Backed
<1>5. \A x \in fk : store[x] = st[x]  BY <1>4
<1>6. \A q \in U : q.of \in HeldBackings(U)  BY DEF HeldBackings
<1>7. \A x \in fk : x \in fake  OBVIOUS
<1> HIDE DEF st, fk, S
<1>8. IsFiniteSet(fk)  BY <1>2, <1>3, FS_Subset
<1>9. Total(store, fk) = Total(st, fk)  BY <1>5, <1>8, TotalSame
<1>10. Total(store, fk) \in Nat /\ Total(store, fk) <= Total(store, S)
  BY <1>2, <1>3, TotalPart
<1>11. Total(st, HeldBackings(U) \cap fk) <= MaxTotal
  BY <1>2, <1>3, <1>9, <1>10, BudgetAssumption
<1>12. \A q \in U : q.of \in Ids /\ q.at \in Nat /\ (q.of \in fk => q.at <= st[q.of])
  BY <1>4, <1>6, <1>7 DEF Backed
<1>13. \A q \in PoolRows(U) : q.of \in fk => q.at = st[q.of]
  BY <1>4, <1>6, <1>7 DEF Backed, PoolRows
<1>14. \A q, p \in PoolRows(U) : q.of = p.of => q = p  BY DEF Backed, PoolRows
<1>15. Backed(U, st, fk)  BY <1>4, <1>11, <1>12, <1>13, <1>14 DEF Backed
<1> QED  BY <1>15 DEF st, fk

(* A pool that grows; server memory grows with it. *)
LEMMA BackedGrown ==
  ASSUME NEW T, NEW store, NEW fake, Backed(T, store, fake),
         NEW r \in PoolRows(T), NEW new, new.k = "wl_shm_pool", new.of = r.of,
         NEW size \in Nat, new.at = size, size > r.at,
         r.of \in fake => Total(store, HeldBackings(T) \cap fake) - r.at + size <= MaxTotal
  PROVE  Backed((T \ {r}) \cup {new}, [store EXCEPT ![r.of] = IF r.of \in fake THEN size ELSE @], fake)
<1> DEFINE b == r.of
           st == [store EXCEPT ![b] = IF b \in fake THEN size ELSE @]
           S == HeldBackings(T) \cap fake
           U == (T \ {r}) \cup {new}
<1>1. r \in T /\ b \in Ids /\ r.at \in Nat /\ b \in HeldBackings(T) /\ (b \in fake => r.at = store[b])
  BY DEF PoolRows, Backed, HeldBackings
<1>2. /\ st \in [Ids -> Nat] /\ (b \in fake => st[b] = size)
      /\ \A x \in Ids : x # b \/ b \notin fake => st[x] = store[x]
  BY <1>1 DEF Backed
<1>3. HeldBackings(U) = HeldBackings(T)  BY <1>1 DEF HeldBackings
<1>4. /\ IsFiniteSet(S) /\ S \subseteq Ids /\ (b \in S <=> b \in fake)
      /\ Total(store, S) \in Nat /\ Total(store, S) <= MaxTotal
  BY <1>1, BackedFinite DEF Backed
<1>5. b \in fake => Total(store, S) - r.at + size <= MaxTotal  OBVIOUS
<1>6. \A x \in S : store[x] \in Nat /\ st[x] \in Nat  BY <1>2, <1>4 DEF Backed
<1>7. r.of = b  OBVIOUS
<1>8. \A q \in U : q = new \/ (q \in T /\ q # r)  OBVIOUS
<1>9. HeldBackings(U) \cap fake = S  BY <1>3
<1> HIDE DEF b, st, S, U
<1>10. Total(st, S) <= MaxTotal
  <2>1. CASE b \in fake
    <3>1. \A x \in S \ {b} : st[x] = store[x]  BY <1>2, <1>4
    <3>2. b \in S  BY <1>4, <2>1
    <3>3. Total(st, S) = Total(store, S) - store[b] + st[b]
      BY <1>4, <1>6, <3>1, <3>2, TotalChange
    <3> QED  BY <1>1, <1>2, <1>5, <2>1, <3>3
  <2>2. CASE b \notin fake
    <3>1. \A x \in S : store[x] = st[x]  BY <1>2, <1>4, <2>2
    <3>2. Total(store, S) = Total(st, S)  BY <1>4, <3>1, TotalSame
    <3> QED  BY <1>4, <3>2
  <2> QED  BY <2>1, <2>2
<1>11. ASSUME NEW q \in U
       PROVE  q.of \in Ids /\ q.at \in Nat /\ (q.of \in fake => q.at <= st[q.of])
  <2>1. CASE q = new  BY <1>1, <1>2, <1>7, <2>1
  <2>2. CASE q \in T
    <3>1. q.of \in Ids /\ q.at \in Nat /\ store[q.of] \in Nat /\ (q.of \in fake => q.at <= store[q.of])
      BY <2>2 DEF Backed
    <3>2. CASE q.of = b /\ b \in fake  BY <1>1, <1>2, <3>1, <3>2
    <3>3. CASE q.of # b \/ b \notin fake  BY <1>2, <3>1, <3>3
    <3> QED  BY <3>2, <3>3
  <2> QED  BY <1>8, <2>1, <2>2
<1>12. \A q \in PoolRows(U) : q = new \/ (q \in PoolRows(T) /\ q.of # b)
  BY <1>7, <1>8 DEF PoolRows, Backed
<1>13. \A q \in PoolRows(U) : q.of \in fake => q.at = st[q.of]
  <2> SUFFICES ASSUME NEW q \in PoolRows(U), q.of \in fake  PROVE q.at = st[q.of]  OBVIOUS
  <2>1. CASE q = new  BY <1>2, <1>7, <2>1
  <2>2. CASE q \in PoolRows(T) /\ q.of # b
    <3>1. q.of \in Ids  BY <2>2 DEF PoolRows, Backed
    <3> QED  BY <1>2, <2>2, <3>1 DEF Backed
  <2> QED  BY <1>12, <2>1, <2>2
<1>14. \A q, p \in PoolRows(U) : q.of = p.of => q = p
  BY <1>7, <1>12 DEF Backed
<1>15. Backed(U, st, fake)  BY <1>2, <1>9, <1>10, <1>11, <1>13, <1>14 DEF Backed
<1> QED  BY <1>15 DEF U, st, b

LEMMA ShmIs ==
  ASSUME NEW k \in ShmKinds
  PROVE  /\ k \in Creatable /\ k \in Destroyable /\ k \in Certain /\ k \in Exact /\ Base(k) = k
         /\ k \notin Constraints \cup Inhibitor \cup RoleKeepers \cup Lingering
         /\ k \notin OfMatched \cup NeedsRow \cup {"entered", "wl_output"}
BY DEF ShmKinds, Creatable, Destroyable, Certain, Exact, Base, Constraints, Inhibitor, RoleKeepers,
       Lingering, OfMatched, NeedsRow

(* A new pool or buffer, with the memory it takes. *)
LEMMA ShmCreated ==
  ASSUME WireInv, gone = "no", NEW k \in ShmKinds, NEW id \in Ids, NEW b, NEW at, Offers(id),
         DOMAIN core' = Fields,
         core'.obj = SetObj(core.obj, id, k),
         core'.tab = AddRow(core.tab, Row(k, id, b, at)),
         core'.role = core.role, core'.pairs = core.pairs, core'.selection = core.selection,
         core'.counts = core.counts, core'.inhibited = core.inhibited,
         core'.over = core.over, core'.adv = core.adv, core'.member = core.member,
         Backed(Rows(core.tab, ShmKinds) \cup {Row(k, id, b, at)}, core'.store, core'.fake),
         mine' = Recorded(mine \cup {Row(k, id, None, at)}), UNCHANGED <<orderly, bound, gone>>
  PROVE  WireInv'
<1>1. Good(core)  BY DEF WireInv
<1>2. /\ k \in Creatable /\ k \in ShmKinds /\ k \notin OfMatched
      /\ k \notin Constraints \cup Inhibitor \cup RoleKeepers \cup Lingering
  BY ShmIs
<1>3. /\ Registered(core'.obj, core'.tab)
      /\ Selected(core'.tab, core'.selection)
      /\ Covered(Rows(core'.tab, {"wl_output"}), core'.obj, core'.over, core'.adv, core'.member)
      /\ \A K : k \notin K => Rows(core'.tab, K) = Rows(core.tab, K)
      /\ \A K : k \in K /\ k \notin Lingering =>
           Rows(core'.tab, K) = Rows(core.tab, K) \cup {Row(k, id, b, at)}
      /\ orderly => Knows(core'.obj, core'.tab, mine \cup {Row(k, id, None, at)})
  BY <1>2, NewObject
<1>4. Backed(Rows(core'.tab, ShmKinds), core'.store, core'.fake)  BY <1>2, <1>3
<1>5. Good(core')  BY <1>1, <1>2, <1>3, <1>4 DEF Good, Fields
<1>6. orderly => Owns(core', mine')
  BY <1>2, <1>3 DEF WireInv, Owns, Recorded
<1>7. ~orderly => mine' = {}  BY DEF Recorded
<1> QED  BY <1>5, <1>6, <1>7, AnswerIsGood

LEMMA NoRowYet ==
  ASSUME WireInv, NEW id \in Ids, Fresh(core, id), NEW k \in Exact, Base(k) = k
  PROVE  id \notin Keys(core, k)
<1> SUFFICES ASSUME NEW r \in core.tab, r.k = k, r.id = id  PROVE FALSE
  BY DEF Keys, RowsOf
<1>1. r.k \notin Lingering  BY DEF Exact, Lingering, Constraints
<1>2. core.obj[id] = Base(k) /\ r.k \in Kinds
  BY <1>1 DEF WireInv, Good, Registered, IsRow
<1> QED  BY <1>2, BaseIsInterface DEF Fresh

LEMMA CreatePoolKeeps ==
  ASSUME WireInv, NEW id \in Ids, NEW b \in Ids, NEW size \in Nat, NEW ours \in BOOLEAN,
         NEW length \in Nat, CreatePool(id, b, size, ours, length)
  PROVE  WireInv'
<1> DEFINE k == "wl_shm_pool"
           T == Rows(core.tab, ShmKinds)
           r == Row(k, id, b, size)
           st == [core.store EXCEPT ![b] = IF ours THEN size ELSE length]
           fk == IF ours THEN core.fake \cup {b} ELSE core.fake \ {b}
<1>1. DOMAIN core = Fields /\ Good(core)  BY DEF WireInv, Good, Fields
<1>2. gone = "no" /\ Offers(id) /\ Fresh(core, id) /\ b \notin Backings(core)
  BY OffersFresh DEF CreatePool, Request
<1>3. k \in ShmKinds  BY DEF ShmKinds
<1>4. id \notin Keys(core, k)  BY <1>2, <1>3, ShmIs, NoRowYet
<1>5. orderly => ~ours /\ size > 0  BY DEF CreatePool, Polite
<1>6. CASE Dropped("request") /\ ~orderly  BY <1>6, DroppedIsGood
<1>7. CASE /\ ours => FakeBytes(core) + size <= MaxTotal
           /\ core' = [core EXCEPT !.obj[id] = "wl_shm_pool", !.tab = Put(core, r),
                          !.store[b] = IF ours THEN size ELSE length,
                          !.fake = IF ours THEN @ \cup {b} ELSE @ \ {b}]
           /\ mine' = Recorded(mine \cup {Row(k, id, None, size)})
           /\ UNCHANGED <<orderly, bound, gone>>
  <2>1. r.k = k /\ r.id = id /\ r.of = b /\ r.at = size  BY RowFields
  <2>2. Row(k, id, b, size) = r  OBVIOUS
  <2> HIDE DEF r
  <2>3. /\ core'.obj = SetObj(core.obj, id, k) /\ core'.tab = AddRow(core.tab, r)
        /\ DOMAIN core' = Fields
    BY <1>1, <1>7, <2>1, FieldNames DEF SetObj, AddRow, Put
  <2>4. core'.store = st /\ core'.fake = fk  BY <1>1, <1>7, FieldNames
  <2>5. /\ core'.role = core.role /\ core'.pairs = core.pairs /\ core'.selection = core.selection
        /\ core'.counts = core.counts /\ core'.inhibited = core.inhibited
        /\ core'.over = core.over /\ core'.adv = core.adv /\ core'.member = core.member
    BY <1>1, <1>7, FieldNames
  <2>6. Backed(T, core.store, core.fake)  BY <1>1 DEF Good
  <2>7. b \notin HeldBackings(T) /\ FakeBytes(core) = Total(core.store, HeldBackings(T) \cap core.fake)
    BY <1>2, BackingsAre DEF FakeBytes
  <2> HIDE DEF T, k
  <2>8. r.k = "wl_shm_pool"  BY <2>1 DEF k
  <2>9. ours => Total(core.store, HeldBackings(T) \cap core.fake) + size <= MaxTotal
    BY <1>7, <2>7
  <2>10. Backed(T \cup {r}, st, fk)
    BY <2>1, <2>6, <2>7, <2>8, <2>9, BackedPool
  <2> HIDE DEF st, fk
  <2>11. Backed(Rows(core.tab, ShmKinds) \cup {r}, core'.store, core'.fake)
    BY <2>4, <2>10 DEF T
  <2> QED  BY <1>2, <1>3, <1>7, <2>2, <2>3, <2>5, <2>11, ShmCreated
<1> QED  BY <1>2, <1>4, <1>5, <1>6, <1>7 DEF CreatePool, Respond

LEMMA PoolRowIs == \A p : PoolRow(p) = RowOf("wl_shm_pool", p)
BY DEF PoolRow, RowOf

LEMMA CreateBufferKeeps ==
  ASSUME WireInv, NEW id \in Ids, NEW p \in Ids, NEW end \in Nat, CreateBuffer(id, p, end)
  PROVE  WireInv'
<1> DEFINE k == "wl_buffer"
           pool == PoolRow(p)
           T == Rows(core.tab, ShmKinds)
           r == Row(k, id, pool.of, end)
<1>1. DOMAIN core = Fields /\ Good(core)  BY DEF WireInv, Good, Fields
<1>2. gone = "no" /\ Offers(id) /\ Fresh(core, id) /\ Is("wl_shm_pool", p)
  BY OffersFresh, NamesIs DEF CreateBuffer, Request
<1>3. k \in ShmKinds /\ "wl_shm_pool" \in ShmKinds  BY DEF ShmKinds
<1>4. id \notin Keys(core, k) /\ p \in Keys(core, "wl_shm_pool")
  BY <1>2, <1>3, ShmIs, NoRowYet, IsKey
<1>5. /\ pool \in core.tab /\ pool.k = "wl_shm_pool" /\ pool.id = p
      /\ \A q \in core.tab : q.k = "wl_shm_pool" /\ q.id = p => q = pool
  BY <1>4, RowOfIs, PoolRowIs
<1> HIDE DEF pool
<1>6. ASSUME orderly  PROVE end <= pool.at
  <2>1. PICK q \in mine : q.id = p /\ end <= q.at  BY <1>6 DEF CreateBuffer, Polite
  <2>2. Knows(core.obj, core.tab, mine)  BY <1>6 DEF WireInv, Owns
  <2>3. q.k # "entered"
    <3> SUFFICES ASSUME q.k = "entered"  PROVE FALSE  OBVIOUS
    <3>1. PICK x \in core.tab : x.k = "wl_pointer" /\ x.id = p
      BY <2>1, <2>2 DEF Knows, Focused
    <3>2. core.obj[p] = "wl_pointer"
      BY <1>1, <3>1 DEF Good, Registered, Base, Lingering
    <3> QED  BY <1>2, <3>2 DEF Is
  <2>4. q.k = "wl_shm_pool"  BY <1>2, <2>1, <2>2, <2>3 DEF Knows, Named, Is
  <2>5. q.at = pool.at  BY <1>5, <2>1, <2>2, <2>4 DEF Knows, Matched, AtMatched
  <2> QED  BY <2>1, <2>5
<1>7. CASE Dropped("request") /\ ~orderly  BY <1>7, DroppedIsGood
<1>8. CASE /\ end <= pool.at
           /\ core' = [core EXCEPT !.obj[id] = "wl_buffer", !.tab = Put(core, r)]
           /\ mine' = Recorded(mine \cup {Row(k, id, None, end)})
           /\ UNCHANGED <<orderly, bound, gone>>
  <2>1. r.k = k /\ r.id = id /\ r.of = pool.of /\ r.at = end  BY RowFields
  <2>2. Row(k, id, pool.of, end) = r  OBVIOUS
  <2> HIDE DEF r
  <2>3. /\ core'.obj = SetObj(core.obj, id, k) /\ core'.tab = AddRow(core.tab, r)
        /\ DOMAIN core' = Fields
    BY <1>1, <1>8, <2>1, FieldNames DEF SetObj, AddRow, Put
  <2>4. core'.store = core.store /\ core'.fake = core.fake  BY <1>1, <1>8, FieldNames
  <2>5. /\ core'.role = core.role /\ core'.pairs = core.pairs /\ core'.selection = core.selection
        /\ core'.counts = core.counts /\ core'.inhibited = core.inhibited
        /\ core'.over = core.over /\ core'.adv = core.adv /\ core'.member = core.member
    BY <1>1, <1>8, FieldNames
  <2>6. Backed(T, core.store, core.fake) /\ pool \in PoolRows(T)
    BY <1>1, <1>3, <1>5 DEF Good, PoolRows, Rows
  <2> HIDE DEF T, k
  <2>7. r.k = "wl_buffer" /\ r.at \in Nat /\ r.at <= pool.at  BY <1>8, <2>1 DEF k
  <2>8. Backed(T \cup {r}, core.store, core.fake)  BY <2>1, <2>6, <2>7, BackedBuffer
  <2>9. Backed(Rows(core.tab, ShmKinds) \cup {r}, core'.store, core'.fake)
    BY <2>4, <2>8 DEF T
  <2> QED  BY <1>2, <1>3, <1>8, <2>2, <2>3, <2>5, <2>9, ShmCreated
<1>9. CreateBuffer(id, p, end)  OBVIOUS
<1>10. \/ Dropped("request") /\ ~(end <= pool.at)
       \/ /\ end <= pool.at
          /\ core' = [core EXCEPT !.obj[id] = "wl_buffer", !.tab = Put(core, r)]
          /\ mine' = Recorded(mine \cup {Row(k, id, None, end)})
          /\ UNCHANGED <<orderly, bound, gone>>
  BY <1>2, <1>4, <1>9 DEF CreateBuffer, Respond, pool
<1> QED  BY <1>6, <1>7, <1>8, <1>10

LEMMA DropShmKeeps ==
  ASSUME WireInv, NEW k \in ShmKinds, NEW id \in Ids, DropShm(k, id)  PROVE WireInv'
<1> DEFINE T == Rows(core.tab, ShmKinds)
           U == Rows(DropRow(core.tab, k, id), ShmKinds)
           left == Backings([core EXCEPT !.tab = Without(core, k, id)])
           st == [b \in Ids |-> IF b \in left THEN core.store[b] ELSE 0]
           d == Collected(core, k, id)
<1>1. DOMAIN core = Fields /\ Good(core)  BY DEF WireInv, Good, Fields
<1>2. gone = "no" /\ Destroy(k, id, id \in Keys(core, k), d)
  BY DEF DropShm, Request
<1>3. Is(k, id) /\ (orderly => Unreferenced(id))
  BY <1>2, NamesIs, ShmIs DEF Destroy, Polite
<1>4. id \in Keys(core, k)  BY <1>3, IsKey, ShmIs
<1>5. /\ core' = [d EXCEPT !.obj[id] = None, !.tab = Without(d, k, id)]
      /\ mine' = Recorded({r \in mine : r.id # id}) /\ UNCHANGED <<orderly, bound, gone>>
  BY <1>2, <1>3, <1>4 DEF Destroy, Respond
<1>6. left = HeldBackings(U)
  <2>1. [core EXCEPT !.tab = Without(core, k, id)].tab = DropRow(core.tab, k, id)
    BY <1>1, FieldNames DEF Without, DropRow
  <2> QED  BY <2>1, BackingsAre
<1>7. d = [core EXCEPT !.store = st, !.fake = @ \cap left]
  BY <1>1, FieldNames DEF Collected
<1> HIDE DEF d, left, st
<1>8. /\ d.tab = core.tab /\ d.obj = core.obj /\ d.store = st /\ d.fake = core.fake \cap left
      /\ DOMAIN d = Fields /\ d.role = core.role /\ d.pairs = core.pairs
      /\ d.counts = core.counts /\ d.inhibited = core.inhibited
      /\ d.selection = core.selection /\ d.over = core.over /\ d.adv = core.adv
      /\ d.member = core.member
  BY <1>1, <1>7, FieldNames
<1>9. core'.obj = SetObj(core.obj, id, None) /\ core'.tab = DropRow(core.tab, k, id)
  <2>1. core'.obj = [d.obj EXCEPT ![id] = None] /\ core'.tab = Without(d, k, id)
    BY <1>5, <1>8, FieldNames
  <2> QED  BY <1>8, <2>1 DEF SetObj, DropRow, Without
<1>10. /\ core'.store = st /\ core'.fake = core.fake \cap left
       /\ DOMAIN core' = Fields /\ core'.role = core.role /\ core'.pairs = core.pairs
       /\ core'.counts = core.counts /\ core'.inhibited = core.inhibited
  BY <1>5, <1>8, FieldNames
<1>11. /\ core'.selection = core.selection /\ core'.over = core.over /\ core'.adv = core.adv
       /\ core'.member = core.member
  BY <1>5, <1>8, FieldNames
<1>12. core'.tab \subseteq DropRow(core.tab, k, id) /\ DropRow(core.tab, k, id) \ core'.tab = {}
  BY <1>9
<1>13. k \in Destroyable /\ k \notin Constraints \cup Inhibitor \cup RoleKeepers  BY ShmIs
<1>14. /\ Registered(core'.obj, core'.tab)
       /\ Selected(core'.tab, core'.selection)
       /\ Covered(Rows(core'.tab, {"wl_output"}), core'.obj, core'.over, core'.adv, core'.member)
       /\ orderly => Knows(core'.obj, core'.tab, {q \in mine : q.id # id})
  BY <1>3, <1>9, <1>11, <1>12, <1>13, OldObject
<1>15. \A K : k \notin K => Rows(core'.tab, K) = Rows(core.tab, K)
  BY <1>9, RowsAfterDrop
<1>16. Backed(Rows(core'.tab, ShmKinds), core'.store, core'.fake)
  <2>1. Backed(T, core.store, core.fake)  BY <1>1 DEF Good
  <2>2. U \in SUBSET T  BY DEF Rows, DropRow
  <2>3. Rows(core'.tab, ShmKinds) = U  BY <1>9
  <2> HIDE DEF T, U
  <2>4. Backed(U, [b \in Ids |-> IF b \in HeldBackings(U) THEN core.store[b] ELSE 0],
               core.fake \cap HeldBackings(U))
    BY <2>1, <2>2, BackedLess
  <2> QED  BY <1>6, <1>10, <2>3, <2>4 DEF st
<1>17. Good(core')  BY <1>1, <1>10, <1>13, <1>14, <1>15, <1>16 DEF Good, Fields
<1>18. orderly => Owns(core', mine')
  BY <1>5, <1>10, <1>13, <1>14, <1>15 DEF WireInv, Owns, Recorded
<1>19. ~orderly => mine' = {}  BY <1>5 DEF Recorded
<1> QED  BY <1>2, <1>5, <1>17, <1>18, <1>19, AnswerIsGood

LEMMA ResizePoolKeeps ==
  ASSUME WireInv, NEW p \in Ids, NEW size \in Nat, ResizePool(p, size)  PROVE WireInv'
<1> DEFINE k == "wl_shm_pool"
           r == PoolRow(p)
           b == r.of
           new == Row(k, p, b, size)
           T == Rows(core.tab, ShmKinds)
           st == [core.store EXCEPT ![b] = IF b \in core.fake THEN size ELSE @]
           n == {IF q.k = k /\ q.id = p THEN [q EXCEPT !.at = size] ELSE q : q \in mine}
<1>1. DOMAIN core = Fields /\ Good(core)  BY DEF WireInv, Good, Fields
<1>2. gone = "no" /\ Is(k, p)  BY NamesIs DEF ResizePool, Request
<1>3. p \in Keys(core, k)  BY <1>2, IsKey DEF Certain, Exact
<1>4. /\ r \in core.tab /\ r.k = k /\ r.id = p
      /\ \A q \in core.tab : q.k = k /\ q.id = p => q = r
  BY <1>3, RowOfIs, PoolRowIs
<1>5. IsRow(r)  BY <1>1, <1>4 DEF Good, Registered
<1>6. new = [r EXCEPT !.at = size]
  <2>1. r = [k |-> k, id |-> p, of |-> b, at |-> r.at]  BY <1>4, <1>5 DEF IsRow, Row
  <2> HIDE DEF r
  <2> QED  BY <2>1 DEF Row
<1>7. new.k = k /\ new.id = p /\ new.of = b /\ new.at = size  BY RowFields
<1>8. IsRow(new)  BY <1>4, <1>5, <1>7 DEF IsRow
<1>9. \/ Dropped("request") /\ ~orderly
      \/ /\ size > r.at
         /\ b \in core.fake => FakeBytes(core) - r.at + size <= MaxTotal
         /\ core' = [core EXCEPT !.tab = Put(core, new),
                        !.store[b] = IF b \in core.fake THEN size ELSE @]
         /\ mine' = Recorded(n)
         /\ UNCHANGED <<orderly, bound, gone>>
  BY <1>2, <1>3, <1>6 DEF ResizePool, Respond, Polite
<1>10. CASE Dropped("request") /\ ~orderly  BY <1>10, DroppedIsGood
<1>11. CASE /\ size > r.at
            /\ b \in core.fake => FakeBytes(core) - r.at + size <= MaxTotal
            /\ core' = [core EXCEPT !.tab = Put(core, new),
                          !.store[b] = IF b \in core.fake THEN size ELSE @]
            /\ mine' = Recorded(n)
            /\ UNCHANGED <<orderly, bound, gone>>
  <2> HIDE DEF r, new, n
  <2>1. /\ core'.tab = AddRow(core.tab, new) /\ core'.store = st /\ DOMAIN core' = Fields
    BY <1>1, <1>7, <1>11, FieldNames DEF AddRow, Put
  <2>2. /\ core'.obj = core.obj /\ core'.role = core.role /\ core'.pairs = core.pairs
        /\ core'.selection = core.selection /\ core'.fake = core.fake
        /\ core'.counts = core.counts /\ core'.inhibited = core.inhibited
        /\ core'.over = core.over /\ core'.adv = core.adv /\ core'.member = core.member
    BY <1>1, <1>11, FieldNames
  <2>3. Registered(core.obj, core'.tab) /\ core'.tab = (core.tab \ {r}) \cup {new}
    BY <1>1, <1>4, <1>7, <1>8, <2>1, ReplaceRow DEF Good
  <2>4. k \in ShmKinds /\ k \notin Constraints \cup Inhibitor \cup RoleKeepers \cup {"wl_output"}
    BY DEF ShmKinds, Constraints, Inhibitor, RoleKeepers
  <2>5. \A K : k \notin K => Rows(core'.tab, K) = Rows(core.tab, K)
    BY <1>7, <2>1, RowsAfterAdd
  <2>6. Selected(core'.tab, core'.selection)
    BY <1>1, <2>1, <2>2, SelectedAfterAdd DEF Good
  <2>7. Backed(Rows(core'.tab, ShmKinds), core'.store, core'.fake)
    <3>1. Backed(T, core.store, core.fake) /\ r \in PoolRows(T)
      BY <1>1, <1>4, <2>4 DEF Good, PoolRows, Rows
    <3>2. Rows(core'.tab, ShmKinds) = (T \ {r}) \cup {new}
      BY <1>4, <1>7, <2>3, <2>4 DEF Rows
    <3>3. FakeBytes(core) = Total(core.store, HeldBackings(T) \cap core.fake)
      BY BackingsAre DEF FakeBytes
    <3> HIDE DEF T
    <3>4. Backed((T \ {r}) \cup {new}, [core.store EXCEPT ![r.of] = IF r.of \in core.fake THEN size ELSE @],
                 core.fake)
      BY <1>7, <1>11, <3>1, <3>3, BackedGrown
    <3> QED  BY <2>1, <2>2, <3>2, <3>4
  <2> HIDE DEF st, b
  <2>8. Good(core')
    BY <1>1, <2>1, <2>2, <2>3, <2>4, <2>5, <2>6, <2>7 DEF Good, Fields
  <2>9. ASSUME orderly  PROVE Owns(core', mine')
    <3>1. Knows(core.obj, core.tab, mine) /\ Roled(Rows(core.tab, RoleKeepers), core.role)
      BY <2>9 DEF WireInv, Owns
    <3>2. mine' = n  BY <1>11, <2>9 DEF Recorded
    <3>3. /\ \A q \in core'.tab : q = new \/ (q \in core.tab /\ q # r)
          /\ \A q \in core.tab : q = r \/ q \in core'.tab
      BY <2>3
    <3>4. ASSUME NEW q \in mine
          PROVE  [q EXCEPT !.at = size] = Row(q.k, q.id, q.of, size)
      <4>1. q = [k |-> q.k, id |-> q.id, of |-> q.of, at |-> q.at]
        BY <3>1 DEF Knows, Named, IsRow, Row
      <4> QED  BY <4>1 DEF Row
    <3>5. \A x \in n : \E q \in mine :
             x = IF q.k = k /\ q.id = p THEN Row(q.k, q.id, q.of, size) ELSE q
      BY <3>4 DEF n
    <3>6. \A q \in mine : (IF q.k = k /\ q.id = p THEN Row(q.k, q.id, q.of, size) ELSE q) \in n
      BY <3>4 DEF n
    <3>7. ASSUME NEW x \in n
          PROVE  \E q \in mine : /\ x.k = q.k /\ x.id = q.id /\ x.of = q.of /\ IsRow(x)
                                 /\ IF q.k = k /\ q.id = p THEN x.at = size ELSE x = q
      <4>1. PICK q \in mine : x = IF q.k = k /\ q.id = p THEN Row(q.k, q.id, q.of, size) ELSE q
        BY <3>5
      <4>2. IsRow(q)  BY <3>1 DEF Knows, Named
      <4>3. CASE q.k = k /\ q.id = p
        <5>1. x = Row(q.k, q.id, q.of, size)  BY <4>1, <4>3
        <5> QED  BY <4>2, <4>3, <5>1, RowFields DEF IsRow
      <4>4. CASE ~(q.k = k /\ q.id = p)  BY <4>1, <4>2, <4>4
      <4> QED  BY <4>3, <4>4
    <3>8. ASSUME NEW q \in mine  PROVE \E x \in n : x.k = q.k /\ x.id = q.id
      BY <3>6, RowFields
    <3>9. Named(core.obj, n)
      <4>1. \A x \in n : IsRow(x) /\ (x.k # "entered" => core.obj[x.id] = x.k)
        BY <3>1, <3>7 DEF Knows, Named
      <4>2. \A i \in Ids : core.obj[i] # None =>
               \E x \in n : x.id = i /\ x.k = core.obj[i] /\ x.k # "entered"
        BY <3>1, <3>8 DEF Knows, Named
      <4> QED  BY <4>1, <4>2 DEF Named
    <3>10. Matched(core'.tab, n)
      <4>1. k \notin NeedsRow \cup OfMatched
        BY DEF NeedsRow, OfMatched, Constraints
      <4>2. Matched(core.tab, mine)  BY <3>1 DEF Knows
      <4>3. ASSUME NEW x \in n, x.k \in NeedsRow
            PROVE  \E y \in core'.tab : y.k = x.k /\ y.id = x.id
        <5>1. PICK q \in mine : x.k = q.k /\ x.id = q.id  BY <3>7
        <5>2. PICK y \in core.tab : y.k = q.k /\ y.id = q.id  BY <4>2, <4>3, <5>1 DEF Matched
        <5>3. y # r  BY <1>4, <4>1, <4>3, <5>1, <5>2
        <5> QED  BY <3>3, <5>1, <5>2, <5>3
      <4>4. ASSUME NEW x \in n, NEW y \in core'.tab, x.k = y.k, x.id = y.id
            PROVE  (x.k \in OfMatched => x.of = y.of) /\ (x.k \in AtMatched => x.at = y.at)
        <5>1. PICK q \in mine : /\ x.k = q.k /\ x.id = q.id /\ x.of = q.of
                                /\ IF q.k = k /\ q.id = p THEN x.at = size ELSE x = q
          BY <3>7
        <5>2. CASE q.k = k /\ q.id = p
          <6>1. y = new  BY <1>4, <3>3, <4>4, <5>1, <5>2
          <6> QED  BY <1>7, <4>1, <5>1, <5>2, <6>1
        <5>3. CASE ~(q.k = k /\ q.id = p)
          <6>1. y \in core.tab  BY <1>7, <3>3, <4>4, <5>1, <5>3
          <6> QED  BY <4>2, <4>4, <5>1, <5>3, <6>1 DEF Matched
        <5> QED  BY <5>2, <5>3
      <4> QED  BY <4>3, <4>4 DEF Matched
    <3>11. Toplevels(core'.tab, n)
      <4> SUFFICES ASSUME NEW x \in n, x.k = "xdg_toplevel"
                   PROVE  \E y \in core'.tab : y.k = "xdg_surface" /\ y.id = x.of /\ y.at = "configured"
        BY DEF Toplevels
      <4>1. PICK q \in mine : x.k = q.k /\ x.of = q.of  BY <3>7
      <4>2. PICK y \in core.tab : y.k = "xdg_surface" /\ y.id = q.of /\ y.at = "configured"
        BY <3>1, <4>1 DEF Knows, Toplevels
      <4>3. y # r  BY <1>4, <4>2
      <4> QED  BY <3>3, <4>1, <4>2, <4>3
    <3>12. Focused(core'.tab, n)
      <4> SUFFICES ASSUME NEW x \in n, x.k = "entered"
                   PROVE  \E y \in core'.tab : y.k = "wl_pointer" /\ y.id = x.id /\ y.of = x.of
        BY DEF Focused
      <4>1. PICK q \in mine : x.k = q.k /\ x.id = q.id /\ x.of = q.of  BY <3>7
      <4>2. PICK y \in core.tab : y.k = "wl_pointer" /\ y.id = q.id /\ y.of = q.of
        BY <3>1, <4>1 DEF Knows, Focused
      <4>3. y # r  BY <1>4, <4>2
      <4> QED  BY <3>3, <4>1, <4>2, <4>3
    <3> QED  BY <2>2, <2>4, <2>5, <3>1, <3>2, <3>9, <3>10, <3>11, <3>12 DEF Owns, Knows
  <2>10. ~orderly => mine' = {}  BY <1>11 DEF Recorded
  <2> QED  BY <1>2, <1>11, <2>8, <2>9, <2>10, AnswerIsGood
<1> QED  BY <1>9, <1>10, <1>11

-----------------------------------------------------------------------------
(* Outputs *)

(* Outputs come, go and move: only the rows of their bindings, the membership *)
(* and what the surfaces cover change.                                        *)
LEMMA OutputsIsGood ==
  ASSUME WireInv, gone = "no", UNCHANGED <<orderly, bound, mine, gone>>,
         DOMAIN core' = Fields, core'.obj = core.obj,
         core'.tab \subseteq core.tab, \A r \in core.tab \ core'.tab : r.k = "wl_output",
         core'.role = core.role, core'.pairs = core.pairs, core'.selection = core.selection,
         core'.counts = core.counts, core'.inhibited = core.inhibited,
         core'.store = core.store, core'.fake = core.fake,
         Covered(Rows(core'.tab, {"wl_output"}), core.obj, core'.over, core'.adv, core'.member)
  PROVE  WireInv'
<1>1. Good(core)  BY DEF WireInv
<1>2. "wl_output" \notin Certain \cup Constraints \cup Inhibitor \cup ShmKinds \cup RoleKeepers \cup RowsKnown
                  \cup {"wl_data_source"}
  BY DEF Certain, Exact, Lingering, Constraints, Inhibitor, ShmKinds, RoleKeepers, RowsKnown,
         NeedsRow, OfMatched, AtMatched
<1>3. \A K : "wl_output" \notin K => Rows(core'.tab, K) = Rows(core.tab, K)  BY DEF Rows
<1>4. Registered(core.obj, core'.tab)
  BY <1>1, <1>2 DEF Good, Registered
<1>5. Selected(core'.tab, core'.selection)  BY <1>1, <1>2 DEF Good, Selected
<1>6. Good(core')  BY <1>1, <1>2, <1>3, <1>4, <1>5 DEF Good, Fields
<1>7. ASSUME orderly  PROVE Owns(core', mine')
  <2>1. Knows(core.obj, core.tab, mine) /\ Roled(Rows(core.tab, RoleKeepers), core.role)
    BY <1>7 DEF WireInv, Owns
  <2>2. /\ \A r \in core.tab : r.k \in RowsKnown => r \in core'.tab
        /\ \A r \in core'.tab : r.k \in RowsKnown => r \in core.tab
    BY <1>2
  <2>3. Knows(core.obj, core'.tab, mine)  BY <2>1, <2>2, KnowsSameRows
  <2> QED  BY <1>2, <1>3, <2>1, <2>3 DEF Owns
<1>8. ~orderly => mine' = {}  BY DEF WireInv
<1> QED  BY <1>6, <1>7, <1>8, AnswerIsGood

LEMMA AddOutputKeeps ==
  ASSUME WireInv, NEW n, NEW on, AddOutput(n, on)  PROVE WireInv'
<1> DEFINE over == Placed(core, n, on)
           adv == core.adv \cup {n}
           T == Rows(core.tab, {"wl_output"})
<1>1. DOMAIN core = Fields /\ Good(core)  BY DEF WireInv, Good, Fields
<1>2. /\ gone = "no" /\ UNCHANGED <<orderly, bound, mine, gone>>
      /\ core' = [core EXCEPT !.adv = @ \cup {n}, !.over = over]
  BY DEF AddOutput
<1> HIDE DEF over
<1>3. /\ DOMAIN core' = Fields /\ core'.obj = core.obj /\ core'.tab = core.tab
      /\ core'.over = over /\ core'.adv = adv /\ core'.member = core.member
  BY <1>1, <1>2, FieldNames
<1>4. /\ core'.role = core.role /\ core'.pairs = core.pairs /\ core'.selection = core.selection
      /\ core'.counts = core.counts /\ core'.inhibited = core.inhibited
      /\ core'.store = core.store /\ core'.fake = core.fake
  BY <1>1, <1>2, FieldNames
<1>5. Covered(T, core.obj, over, adv, core.member)
  <2>1. Covered(T, core.obj, core.over, core.adv, core.member)  BY <1>1 DEF Good
  <2> HIDE DEF T
  <2>2. DOMAIN over = Ids /\ \A s \in Ids : over[s] =
           IF core.over[s] = None THEN None
           ELSE IF s \in on THEN core.over[s] \cup {n} ELSE core.over[s] \ {n}
    BY DEF over, Placed
  <2>3. \A s \in Ids : core.over[s] # None => n \notin core.over[s]
    BY <2>1 DEF Covered, AddOutput
  <2>4. ASSUME NEW s \in Ids, over[s] # None
        PROVE  /\ core.obj[s] = "wl_surface" /\ over[s] \subseteq adv
               /\ \A o \in core.member[s] : \E r \in T : r.id = o /\ r.of \in over[s]
    <3>1. core.over[s] # None  BY <2>2, <2>4
    <3>2. core.over[s] \subseteq over[s] /\ over[s] \subseteq core.over[s] \cup {n}
      BY <2>2, <2>3, <3>1
    <3> QED  BY <2>1, <3>1, <3>2 DEF Covered
  <2> QED  BY <2>1, <2>2, <2>4 DEF Covered
<1> QED  BY <1>2, <1>3, <1>4, <1>5, OutputsIsGood

(* What is remembered of a surface is where it is. *)
LEMMA Remembered ==
  ASSUME NEW c, DOMAIN c = Fields, c.obj = core.obj, DOMAIN c.over = Ids,
         \A r \in c.tab : r.id \in Ids,
         NEW member, DOMAIN member = Ids, c.member = member, \A s \in Ids : member[s] \subseteq Ids,
         \A s \in Ids : c.over[s] # None => core.obj[s] = "wl_surface" /\ c.over[s] \subseteq c.adv
  PROVE  Covered(Rows(c.tab, {"wl_output"}), core.obj, c.over, c.adv, Remember(c).member)
<1> DEFINE m == [s \in Ids |-> IF c.obj[s] = "wl_surface" /\ c.over[s] # None
                               THEN Inside(c, s)
                               ELSE IF c.obj[s] = "wl_surface" THEN {} ELSE member[s]]
<1>1. Remember(c).member = m  BY FieldNames DEF Remember
<1>2. \A s \in Ids : \A i \in Inside(c, s) :
         i \in Ids /\ \E r \in Rows(c.tab, {"wl_output"}) : r.id = i /\ r.of \in c.over[s]
  BY DEF Inside, RowsOf, Rows
<1>3. m \in [Ids -> SUBSET Ids]  BY <1>2
<1>4. \A s \in Ids : c.over[s] # None => m[s] = Inside(c, s)  OBVIOUS
<1> HIDE DEF m
<1> QED  BY <1>1, <1>2, <1>3, <1>4 DEF Covered

(* Remembering changes nothing else. *)
SameButMember(c, d) ==
  /\ DOMAIN d = Fields
  /\ d.obj = c.obj /\ d.tab = c.tab /\ d.role = c.role /\ d.pairs = c.pairs
  /\ d.selection = c.selection /\ d.counts = c.counts /\ d.inhibited = c.inhibited
  /\ d.store = c.store /\ d.fake = c.fake /\ d.over = c.over /\ d.adv = c.adv

LEMMA RememberedOnly ==
  ASSUME NEW c, DOMAIN c = Fields  PROVE SameButMember(c, Remember(c))
BY FieldNames DEF Remember, SameButMember

LEMMA RemoveOutputKeeps ==
  ASSUME WireInv, NEW n, RemoveOutput(n)  PROVE WireInv'
<1> DEFINE over == Placed(core, n, {})
           adv == core.adv \ {n}
           tab == {r \in core.tab : ~(r.k = "wl_output" /\ r.of = n)}
           c == [core EXCEPT !.adv = adv, !.over = over, !.tab = tab]
<1>1. DOMAIN core = Fields /\ Good(core)  BY DEF WireInv, Good, Fields
<1>2. gone = "no" /\ UNCHANGED <<orderly, bound, mine, gone>> /\ core' = Remember(c)
  BY DEF RemoveOutput
<1>3. DOMAIN over = Ids /\ \A s \in Ids : over[s] =
         IF core.over[s] = None THEN None ELSE core.over[s] \ {n}
  BY DEF Placed
<1>4. tab \subseteq core.tab /\ \A r \in core.tab \ tab : r.k = "wl_output"  OBVIOUS
<1> HIDE DEF over, adv, tab
<1>5. /\ DOMAIN c = Fields /\ c.obj = core.obj /\ c.tab = tab /\ c.over = over /\ c.adv = adv
      /\ c.member = core.member /\ c.role = core.role /\ c.pairs = core.pairs
  BY <1>1, FieldNames
<1>6. /\ c.selection = core.selection /\ c.counts = core.counts /\ c.inhibited = core.inhibited
      /\ c.store = core.store /\ c.fake = core.fake
  BY <1>1, FieldNames
<1>7. Covered(Rows(core.tab, {"wl_output"}), core.obj, core.over, core.adv, core.member)
  BY <1>1 DEF Good
<1>8. ASSUME NEW s \in Ids, over[s] # None
      PROVE  core.obj[s] = "wl_surface" /\ over[s] \subseteq adv
  <2>1. core.over[s] # None /\ over[s] = core.over[s] \ {n}  BY <1>3, <1>8
  <2> QED  BY <1>7, <2>1 DEF Covered, adv
<1>9. \A r \in tab : r.id \in Ids  BY <1>1, <1>4 DEF Good, Registered, IsRow
<1>10. DOMAIN core.member = Ids /\ \A s \in Ids : core.member[s] \subseteq Ids
  BY <1>7 DEF Covered
<1> HIDE DEF c
<1>11. Covered(Rows(tab, {"wl_output"}), core.obj, over, adv, core'.member)
  <2>1. Covered(Rows(c.tab, {"wl_output"}), core.obj, c.over, c.adv, Remember(c).member)
    BY <1>3, <1>5, <1>8, <1>9, <1>10, Remembered
  <2> QED  BY <1>2, <1>5, <2>1
<1>12. SameButMember(c, core')  BY <1>2, <1>5, RememberedOnly
<1> QED  BY <1>2, <1>4, <1>5, <1>6, <1>11, <1>12, OutputsIsGood DEF SameButMember

LEMMA ReconfigureOutputKeeps ==
  ASSUME WireInv, NEW n, NEW on, ReconfigureOutput(n, on)  PROVE WireInv'
<1> DEFINE over == Placed(core, n, on)
           c == [core EXCEPT !.over = over]
<1>1. DOMAIN core = Fields /\ Good(core)  BY DEF WireInv, Good, Fields
<1>2. /\ gone = "no" /\ UNCHANGED <<orderly, bound, mine, gone>> /\ core' = Remember(c)
      /\ n \in core.adv
  BY DEF ReconfigureOutput
<1>3. DOMAIN over = Ids /\ \A s \in Ids : over[s] =
         IF core.over[s] = None THEN None
         ELSE IF s \in on THEN core.over[s] \cup {n} ELSE core.over[s] \ {n}
  BY DEF Placed
<1> HIDE DEF over
<1>4. /\ DOMAIN c = Fields /\ c.obj = core.obj /\ c.tab = core.tab /\ c.over = over
      /\ c.adv = core.adv /\ c.member = core.member /\ c.role = core.role /\ c.pairs = core.pairs
  BY <1>1, FieldNames
<1>5. /\ c.selection = core.selection /\ c.counts = core.counts /\ c.inhibited = core.inhibited
      /\ c.store = core.store /\ c.fake = core.fake
  BY <1>1, FieldNames
<1>6. Covered(Rows(core.tab, {"wl_output"}), core.obj, core.over, core.adv, core.member)
  BY <1>1 DEF Good
<1>7. ASSUME NEW s \in Ids, over[s] # None
      PROVE  core.obj[s] = "wl_surface" /\ over[s] \subseteq core.adv
  <2>1. core.over[s] # None /\ over[s] \subseteq core.over[s] \cup {n}  BY <1>3, <1>7
  <2> QED  BY <1>2, <1>6, <2>1 DEF Covered
<1>8. \A r \in core.tab : r.id \in Ids  BY <1>1 DEF Good, Registered, IsRow
<1>9. DOMAIN core.member = Ids /\ \A s \in Ids : core.member[s] \subseteq Ids
  BY <1>6 DEF Covered
<1> HIDE DEF c
<1>10. Covered(Rows(core.tab, {"wl_output"}), core.obj, over, core.adv, core'.member)
  <2>1. Covered(Rows(c.tab, {"wl_output"}), core.obj, c.over, c.adv, Remember(c).member)
    BY <1>3, <1>4, <1>7, <1>8, <1>9, Remembered
  <2> QED  BY <1>2, <1>4, <2>1
<1>11. SameButMember(c, core')  BY <1>2, <1>4, RememberedOnly
<1> QED  BY <1>2, <1>4, <1>5, <1>10, <1>11, OutputsIsGood DEF SameButMember

LEMMA SurfaceRequestsKeep == ASSUME WireInv, SurfaceRequests  PROVE WireInv'
<1>1. PICK id \in Ids :
         \/ Sync(id) \/ GetRegistry(id) \/ CreateSurface(id) \/ CreateRegion(id)
         \/ DestroySurface(id) \/ Damage(id)
         \/ \E s \in Ids : Frame(id, s) \/ Feedback(id, s)
         \/ \E b \in Ids \cup {None} : Attach(id, b)
         \/ \E seen \in SUBSET core.adv : Commit(id, seen)
  BY DEF SurfaceRequests
<1>2. CASE Sync(id) \/ GetRegistry(id) \/ CreateSurface(id) \/ CreateRegion(id)
  BY <1>2, SyncKeeps, GetRegistryKeeps, CreateSurfaceKeeps, CreateRegionKeeps
<1>3. CASE DestroySurface(id) \/ Damage(id)  BY <1>3, DestroySurfaceKeeps, DamageKeeps
<1>4. CASE \E s \in Ids : Frame(id, s) \/ Feedback(id, s)  BY <1>4, FrameKeeps, FeedbackKeeps
<1>5. CASE \E b \in Ids \cup {None} : Attach(id, b)  BY <1>5, AttachKeeps
<1>6. CASE \E seen \in SUBSET core.adv : Commit(id, seen)  BY <1>6, CommitKeeps
<1> QED  BY <1>1, <1>2, <1>3, <1>4, <1>5, <1>6

LEMMA ShmRequestsKeep == ASSUME WireInv, ShmRequests  PROVE WireInv'
<1>1. PICK id \in Ids :
         \/ \E b \in Ids, size \in 0 .. MaxPool + 1 : CreatePool(id, b, size, TRUE, size)
         \/ \E b \in Ids, size, length \in 1 .. MaxPool : CreatePool(id, b, size, FALSE, length)
         \/ \E p \in Ids, end \in 1 .. MaxPool + 1 : CreateBuffer(id, p, end)
         \/ DestroyPool(id) \/ DestroyBuffer(id)
         \/ \E size \in 1 .. MaxPool + 1 : ResizePool(id, size)
  BY DEF ShmRequests
<1>2. \A size : size \in 0 .. MaxPool + 1 \/ size \in 1 .. MaxPool \/ size \in 1 .. MaxPool + 1
         => size \in Nat
  BY BudgetAssumption
<1>3. CASE \E b \in Ids, size \in 0 .. MaxPool + 1 : CreatePool(id, b, size, TRUE, size)
  BY <1>2, <1>3, CreatePoolKeeps
<1>4. CASE \E b \in Ids, size, length \in 1 .. MaxPool : CreatePool(id, b, size, FALSE, length)
  BY <1>2, <1>4, CreatePoolKeeps
<1>5. CASE \E p \in Ids, end \in 1 .. MaxPool + 1 : CreateBuffer(id, p, end)
  BY <1>2, <1>5, CreateBufferKeeps
<1>6. CASE DestroyPool(id) \/ DestroyBuffer(id)
  BY <1>6, DropShmKeeps DEF DestroyPool, DestroyBuffer, ShmKinds
<1>7. CASE \E size \in 1 .. MaxPool + 1 : ResizePool(id, size)
  BY <1>2, <1>7, ResizePoolKeeps
<1> QED  BY <1>1, <1>3, <1>4, <1>5, <1>6, <1>7

LEMMA OutputStepsKeep == ASSUME WireInv, OutputSteps  PROVE WireInv'
<1>1. CASE \E n \in Outputs : RemoveOutput(n)  BY <1>1, RemoveOutputKeeps
<1>2. CASE \E n \in Outputs, on \in SUBSET Ids : AddOutput(n, on) \/ ReconfigureOutput(n, on)
  BY <1>2, AddOutputKeeps, ReconfigureOutputKeeps
<1>3. CASE \E id \in Ids, n \in Outputs : BindOutput(id, n)  BY <1>3, BindOutputKeeps
<1>4. CASE \E id, o \in Ids : GetXdgOutput(id, o)  BY <1>4, GetXdgOutputKeeps
<1>5. CASE \E x \in Ids : DestroyXdgOutput(x)  BY <1>5, DestroyXdgOutputKeeps
<1> QED  BY <1>1, <1>2, <1>3, <1>4, <1>5 DEF OutputSteps

LEMMA ShellRequestsKeep == ASSUME WireInv, ShellRequests  PROVE WireInv'
<1>1. PICK id \in Ids :
         \/ DestroyXdgSurface(id) \/ DestroyToplevel(id) \/ CreatePositioner(id)
         \/ SetToplevel(id) \/ SetPositioner(id)
         \/ DestroyPositioner(id) \/ DestroyPopup(id) \/ DestroyLayerSurface(id)
         \/ SetSubsurface(id) \/ DestroySubsurface(id)
         \/ DestroyViewport(id) \/ DestroyFractionalScale(id) \/ DestroyDecoration(id)
         \/ \E of \in Ids :
              \/ GetXdgSurface(id, of) \/ GetToplevel(id, of) \/ GetLayerSurface(id, of)
              \/ GetViewport(id, of) \/ GetFractionalScale(id, of) \/ GetDecoration(id, of)
              \/ \E p \in Ids : GetPopup(id, of, p) \/ GetLayerPopup(id, of, p)
                                  \/ GetSubsurface(id, of, p)
         \/ \E valid \in BOOLEAN :
              \/ AckConfigure(id, ~valid) \/ SetWindowGeometry(id, valid)
              \/ SetLayerState(id, valid) \/ SetViewport(id, valid) \/ SetDecorationMode(id, valid)
  BY DEF ShellRequests
<1>2. CASE DestroyXdgSurface(id) \/ DestroyToplevel(id) \/ CreatePositioner(id) \/ SetToplevel(id)
             \/ SetPositioner(id)
  BY <1>2, DestroyXdgSurfaceKeeps, DestroyToplevelKeeps, CreatePositionerKeeps, SetToplevelKeeps,
     SetPositionerKeeps
<1>3. CASE DestroyPositioner(id) \/ DestroyPopup(id) \/ DestroyLayerSurface(id)
             \/ SetSubsurface(id) \/ DestroySubsurface(id)
  BY <1>3, DestroyPositionerKeeps, DestroyPopupKeeps, DestroyLayerSurfaceKeeps, SetSubsurfaceKeeps,
     DestroySubsurfaceKeeps
<1>4. CASE DestroyViewport(id) \/ DestroyFractionalScale(id) \/ DestroyDecoration(id)
  BY <1>4, DestroyViewportKeeps, DestroyFractionalScaleKeeps, DestroyDecorationKeeps
<1>5. ASSUME NEW of \in Ids,
             \/ GetXdgSurface(id, of) \/ GetToplevel(id, of) \/ GetLayerSurface(id, of)
             \/ GetViewport(id, of) \/ GetFractionalScale(id, of) \/ GetDecoration(id, of)
             \/ \E p \in Ids : GetPopup(id, of, p) \/ GetLayerPopup(id, of, p)
                                 \/ GetSubsurface(id, of, p)
      PROVE  WireInv'
  <2>1. CASE GetXdgSurface(id, of) \/ GetToplevel(id, of) \/ GetLayerSurface(id, of)
    BY <2>1, GetXdgSurfaceKeeps, GetToplevelKeeps, GetLayerSurfaceKeeps
  <2>2. CASE GetViewport(id, of) \/ GetFractionalScale(id, of) \/ GetDecoration(id, of)
    BY <2>2, GetViewportKeeps, GetFractionalScaleKeeps, GetDecorationKeeps
  <2>3. CASE \E p \in Ids : GetPopup(id, of, p) \/ GetLayerPopup(id, of, p)
                              \/ GetSubsurface(id, of, p)
    BY <2>3, GetPopupKeeps, GetLayerPopupKeeps, GetSubsurfaceKeeps
  <2> QED  BY <1>5, <2>1, <2>2, <2>3
<1>6. CASE \E valid \in BOOLEAN :
             \/ AckConfigure(id, ~valid) \/ SetWindowGeometry(id, valid)
             \/ SetLayerState(id, valid) \/ SetViewport(id, valid) \/ SetDecorationMode(id, valid)
  BY <1>6, AckConfigureKeeps, SetWindowGeometryKeeps, SetLayerStateKeeps, SetViewportKeeps,
     SetDecorationModeKeeps
<1> QED  BY <1>1, <1>2, <1>3, <1>4, <1>5, <1>6

LEMMA SeatRequestsKeep == ASSUME WireInv, SeatRequests  PROVE WireInv'
<1>1. PICK id \in Ids :
         \/ GetPointer(id) \/ GetKeyboard(id) \/ ReleasePointer(id)
         \/ DestroyRelativePointer(id) \/ DestroyInhibitor(id)
         \/ \E of \in Ids : GetRelativePointer(id, of) \/ CreateInhibitor(id, of)
         \/ \E k \in Constraints :
              \/ SetConstraint(k, id) \/ DestroyConstraint(k, id)
              \/ \E s, p \in Ids : Constrain(k, id, s, p)
  BY DEF SeatRequests
<1>2. CASE GetPointer(id) \/ GetKeyboard(id) \/ ReleasePointer(id)
  BY <1>2, GetPointerKeeps, GetKeyboardKeeps, ReleasePointerKeeps
<1>3. CASE DestroyRelativePointer(id) \/ DestroyInhibitor(id)
  BY <1>3, DestroyRelativePointerKeeps, DestroyInhibitorKeeps
<1>4. CASE \E of \in Ids : GetRelativePointer(id, of) \/ CreateInhibitor(id, of)
  BY <1>4, GetRelativePointerKeeps, CreateInhibitorKeeps
<1>5. CASE \E k \in Constraints : SetConstraint(k, id) \/ DestroyConstraint(k, id)
  BY <1>5, SetConstraintKeeps, DestroyConstraintKeeps
<1>6. CASE \E k \in Constraints, s, p \in Ids : Constrain(k, id, s, p)
  BY <1>6, ConstrainKeeps
<1> QED  BY <1>1, <1>2, <1>3, <1>4, <1>5, <1>6

LEMMA DataRequestsKeep == ASSUME WireInv, DataRequests  PROVE WireInv'
<1>1. PICK id \in Ids :
         \/ CreateSource(id) \/ OfferType(id) \/ DestroySource(id) \/ GetDataDevice(id)
         \/ ReleaseDataDevice(id)
         \/ \E x \in Ids \cup {None} : SetSelection(id, x) \/ StartDrag(id, x)
  BY DEF DataRequests
<1>2. CASE CreateSource(id) \/ OfferType(id) \/ DestroySource(id)
  BY <1>2, CreateSourceKeeps, OfferTypeKeeps, DestroySourceKeeps
<1>3. CASE GetDataDevice(id) \/ ReleaseDataDevice(id)
  BY <1>3, GetDataDeviceKeeps, ReleaseDataDeviceKeeps
<1>4. CASE \E x \in Ids \cup {None} : SetSelection(id, x) \/ StartDrag(id, x)
  BY <1>4, SetSelectionKeeps, StartDragKeeps
<1> QED  BY <1>1, <1>2, <1>3, <1>4

LEMMA TextRequestsKeep == ASSUME WireInv, TextRequests  PROVE WireInv'
<1>1. PICK id \in Ids :
         \/ GetTextInput(id) \/ SetTextState(id) \/ CommitText(id) \/ DestroyTextInput(id)
         \/ \E mode \in {"enabled", "disabled"} : EnableTextInput(id, mode)
         \/ GetInputMethod(id) \/ InputMethodRequest(id) \/ DestroyInputPopup(id)
         \/ \E i, s \in Ids : GetInputPopup(id, i, s)
  BY DEF TextRequests
<1>2. CASE GetTextInput(id) \/ SetTextState(id) \/ CommitText(id) \/ DestroyTextInput(id)
  BY <1>2, GetTextInputKeeps, SetTextStateKeeps, CommitTextKeeps, DestroyTextInputKeeps
<1>3. CASE \E mode \in {"enabled", "disabled"} : EnableTextInput(id, mode)
  BY <1>3, EnableTextInputKeeps
<1>4. CASE GetInputMethod(id) \/ InputMethodRequest(id) \/ DestroyInputPopup(id)
  BY <1>4, GetInputMethodKeeps, InputMethodRequestKeeps, DestroyInputPopupKeeps
<1>5. CASE \E i, s \in Ids : GetInputPopup(id, i, s)  BY <1>5, GetInputPopupKeeps
<1> QED  BY <1>1, <1>2, <1>3, <1>4, <1>5

LEMMA CaptureRequestsKeep == ASSUME WireInv, CaptureRequests  PROVE WireInv'
<1>1. PICK id \in Ids :
         \/ CreateConfiguration(id) \/ ApplyConfiguration(id) \/ DestroyConfiguration(id)
         \/ \E c, h \in Ids : EnableHead(id, c, h)
         \/ \E positive \in BOOLEAN : CaptureOutput(id, positive)
         \/ CopyFrame(id) \/ DestroyFrame(id)
         \/ CreateSession(id) \/ DestroySession(id)
         \/ CopyCaptureFrame(id) \/ DestroyCaptureFrame(id)
         \/ \E x \in Ids : CreateCaptureFrame(id, x)
  BY DEF CaptureRequests
<1>2. CASE CreateConfiguration(id) \/ ApplyConfiguration(id) \/ DestroyConfiguration(id)
  BY <1>2, CreateConfigurationKeeps, ApplyConfigurationKeeps, DestroyConfigurationKeeps
<1>3. CASE \E c, h \in Ids : EnableHead(id, c, h)  BY <1>3, EnableHeadKeeps
<1>4. CASE \E positive \in BOOLEAN : CaptureOutput(id, positive)  BY <1>4, CaptureOutputKeeps
<1>5. CASE CopyFrame(id) \/ DestroyFrame(id) \/ CreateSession(id) \/ DestroySession(id)
  BY <1>5, CopyFrameKeeps, DestroyFrameKeeps, CreateSessionKeeps, DestroySessionKeeps
<1>6. CASE CopyCaptureFrame(id) \/ DestroyCaptureFrame(id)
  BY <1>6, CopyCaptureFrameKeeps, DestroyCaptureFrameKeeps
<1>7. CASE \E x \in Ids : CreateCaptureFrame(id, x)  BY <1>7, CreateCaptureFrameKeeps
<1> QED  BY <1>1, <1>2, <1>3, <1>4, <1>5, <1>6, <1>7

LEMMA LoopStepsKeep == ASSUME WireInv, LoopSteps  PROVE WireInv'
<1>1. CASE \E r \in core.tab : Present(r)  BY <1>1, PresentKeeps
<1>2. CASE \E s \in Ids : RouteInput(s)  BY <1>2, RouteInputKeeps
<1>3. CASE \E s \in Ids, dev \in {"wl_pointer", "wl_keyboard"} : DeliverInput(s, dev)
  BY <1>3, DeliverInputKeeps
<1> QED  BY <1>1, <1>2, <1>3 DEF LoopSteps

(* The invariant holds of every reachable state. *)
THEOREM WireInvHolds == Spec => []WireInv
<1>1. ASSUME Init  PROVE WireInv
  <2>1. PICK c \in Clients : orderly = c.orderly /\ bound = c.globals  BY <1>1 DEF Init
  <2>2. [orderly |-> orderly, globals |-> bound] = c
    BY <2>1, ClientAssumption
  <2>3. core = Blank /\ mine = {} /\ gone = "no"  BY <1>1 DEF Init
  <2> QED  BY <2>2, <2>3, BlankIsGood DEF WireInv
<1>2. ASSUME WireInv, [Next]_vars  PROVE WireInv'
  <2>1. CASE SurfaceRequests \/ ShmRequests \/ OutputSteps \/ ShellRequests
    BY <1>2, <2>1, SurfaceRequestsKeep, ShmRequestsKeep, OutputStepsKeep, ShellRequestsKeep
  <2>2. CASE SeatRequests \/ DataRequests \/ TextRequests \/ CaptureRequests
    BY <1>2, <2>2, SeatRequestsKeep, DataRequestsKeep, TextRequestsKeep, CaptureRequestsKeep
  <2>3. CASE LoopSteps  BY <1>2, <2>3, LoopStepsKeep
  <2>4. CASE BadRequest  BY <1>2, <2>4, DroppedIsGood DEF BadRequest
  <2>5. CASE UNCHANGED vars  BY <1>2, <2>5 DEF vars, WireInv
  <2> QED  BY <1>2, <2>1, <2>2, <2>3, <2>4, <2>5 DEF Next
<1> QED  BY <1>1, <1>2, PTL DEF Spec

LEMMA RowsOfKind ==
  ASSUME NEW k  PROVE RowsOf(core, k) = Rows(core.tab, {k})
BY DEF RowsOf, Rows

LEMMA ExactBase ==
  ASSUME NEW k \in Exact \cup Cascaded
  PROVE  k \notin Lingering /\ Base(k) = k /\ (k \in Exact => k \in Certain)
BY DEF Exact, Cascaded, Constraints, Lingering, Base, Certain

LEMMA InvMirrored == ASSUME WireInv  PROVE Mirrored
<1>1. Registered(core.obj, core.tab) /\ Selected(core.tab, core.selection)  BY DEF WireInv, Good
<1>2. ASSUME NEW k \in Exact  PROVE Keys(core, k) = {i \in Ids : core.obj[i] = k}
  <2>1. \A i \in Keys(core, k) : i \in Ids /\ core.obj[i] = k
    BY <1>1, ExactBase DEF Registered, Keys, RowsOf, IsRow
  <2>2. \A i \in Ids : core.obj[i] = k => i \in Keys(core, k)
    BY <1>1, ExactBase DEF Registered, Keys, RowsOf
  <2> QED  BY <2>1, <2>2
<1>3. ASSUME NEW k \in Cascaded, NEW i \in Keys(core, k)  PROVE core.obj[i] = k
  BY <1>1, ExactBase DEF Registered, Keys, RowsOf
<1>4. \A r, q \in core.tab : r.k = q.k /\ r.id = q.id => r = q  BY <1>1 DEF Registered
<1>5. core.selection # None => core.selection \in Keys(core, "wl_data_source")
  BY <1>1 DEF Selected, Keys, RowsOf
<1> QED  BY <1>2, <1>3, <1>4, <1>5 DEF Mirrored

LEMMA InvHeldIsOwed == ASSUME WireInv  PROVE HeldIsOwed
<1>1. \A r \in core.tab : r.k \notin Lingering => core.obj[r.id] = Base(r.k)
  BY DEF WireInv, Good, Registered
<1> QED  BY <1>1 DEF HeldIsOwed, Lingering, Base

LEMMA InvPairsAgree == ASSUME WireInv  PROVE PairsAgree
BY DEF WireInv, Good, Paired, Rows, PairsAgree

LEMMA InvInhibitAgrees == ASSUME WireInv  PROVE InhibitAgrees
<1>1. Counted(RowsOf(core, "zwp_idle_inhibitor_v1"), core.counts, core.inhibited)
  BY RowsOfKind DEF WireInv, Good, Inhibitor
<1> HIDE DEF RowsOf
<1> QED  BY <1>1 DEF Counted, InhibitAgrees

LEMMA InvBufferInside == ASSUME WireInv  PROVE BufferInside
<1>1. Backed(Rows(core.tab, ShmKinds), core.store, core.fake)  BY DEF WireInv, Good
<1>2. FakeBytes(core) <= MaxTotal  BY <1>1, BackingsAre DEF Backed, FakeBytes
<1>3. \A r \in RowsOf(core, "wl_buffer") : r \in Rows(core.tab, ShmKinds)
  BY DEF RowsOf, Rows, ShmKinds
<1> QED  BY <1>1, <1>2, <1>3 DEF Backed, BufferInside

LEMMA InvEnteredIsOffered == ASSUME WireInv  PROVE EnteredIsOffered
<1>1. Covered(Rows(core.tab, {"wl_output"}), core.obj, core.over, core.adv, core.member)
  BY DEF WireInv, Good
<1> SUFFICES ASSUME NEW s \in Surfaces, NEW o \in core.member[s], core.over[s] # None
             PROVE  \E r \in RowsOf(core, "wl_output") : r.id = o /\ r.of \in core.adv \cap core.over[s]
  BY DEF EnteredIsOffered
<1>2. s \in Ids  BY DEF Surfaces
<1>3. core.over[s] \subseteq core.adv  BY <1>1, <1>2 DEF Covered
<1>4. PICK r \in Rows(core.tab, {"wl_output"}) : r.id = o /\ r.of \in core.over[s]
  BY <1>1, <1>2 DEF Covered
<1> QED  BY <1>3, <1>4, RowsOfKind

LEMMA InvTypeOK == ASSUME WireInv  PROVE TypeOK
<1>1. Good(core)  BY DEF WireInv
<1>2. core.obj \in [Ids -> Kinds \cup {None}]  BY <1>1 DEF Good, Registered, Interfaces
<1>3. \A r \in core.tab : r.k \in Kinds /\ r.id \in Ids  BY <1>1 DEF Good, Registered, IsRow
<1>4. \A r \in mine : r.k \in Kinds /\ r.id \in Ids
  <2>1. CASE orderly  BY <2>1 DEF WireInv, Owns, Knows, Named, IsRow
  <2>2. CASE ~orderly  BY <2>2 DEF WireInv
  <2> QED  BY <2>1, <2>2
<1>5. core.pairs \subseteq Ids \X Ids  BY <1>1 DEF Good, Paired
<1>6. core.counts \in [Ids -> 0 .. Cardinality(Ids)]
  <2> DEFINE T == {r \in core.tab : r.k = "zwp_idle_inhibitor_v1"}
  <2>1. T = Rows(core.tab, Inhibitor)  BY DEF Rows, Inhibitor
  <2>2. IsFiniteSet(T) /\ Cardinality(T) <= Cardinality(Ids)
    BY <1>1, OneKindFinite DEF Good
  <2> HIDE DEF T
  <2>3. core.counts = [s \in Ids |-> Cardinality({r \in T : r.of = s})]
    BY <1>1, <2>1 DEF Good, Counted
  <2>4. ASSUME NEW s \in Ids  PROVE Cardinality({r \in T : r.of = s}) \in 0 .. Cardinality(Ids)
    <3> DEFINE U == {r \in T : r.of = s}
    <3>1. U \in SUBSET T  OBVIOUS
    <3> HIDE DEF U
    <3>2. IsFiniteSet(U) /\ Cardinality(U) <= Cardinality(T)  BY <2>2, <3>1, FS_Subset
    <3>3. Cardinality(U) \in Nat /\ Cardinality(T) \in Nat /\ Cardinality(Ids) \in Nat
      BY <2>2, <3>2, IdAssumption, FS_CardinalityType
    <3>4. Cardinality(U) \in 0 .. Cardinality(Ids)  BY <2>2, <3>2, <3>3
    <3> QED  BY <3>4 DEF U
  <2> QED  BY <2>3, <2>4
<1>7. core.member \in [Ids -> SUBSET Ids]  BY <1>1 DEF Good, Covered
<1>8. core.selection \in Ids \cup {None}  BY <1>1 DEF Good, Selected
<1>9. core.role \in [Ids -> {None, "xdg_surface", "layer_surface"}]  BY <1>1 DEF Good
<1>10. [orderly |-> orderly, globals |-> bound] \in Clients /\ gone \in {"no", "request", "release", "input"}
  BY DEF WireInv
<1> QED  BY <1>2, <1>3, <1>4, <1>5, <1>6, <1>7, <1>8, <1>9, <1>10 DEF TypeOK

LEMMA InvRolesAgree == ASSUME WireInv  PROVE RolesAgree
<1> SUFFICES ASSUME orderly, NEW s \in Ids
             PROVE  /\ (core.role[s] = "xdg_surface") <=> ~Unclaimed("xdg_surface", s)
                    /\ (core.role[s] = "layer_surface") <=> ~Unclaimed("zwlr_layer_surface_v1", s)
  BY DEF RolesAgree, Surfaces
<1> DEFINE T == Rows(core.tab, RoleKeepers)
<1>1. Roled(T, core.role)  BY DEF WireInv, Owns
<1>2. "xdg_surface" # None /\ "layer_surface" # None
  BY NoneAssumption DEF Kinds, Exact
<1>3. \A r \in T : r.k = "xdg_surface" \/ r.k = "zwlr_layer_surface_v1"  BY DEF Rows, RoleKeepers
<1>4. \A r \in core.tab : r.k = "xdg_surface" \/ r.k = "zwlr_layer_surface_v1" => r \in T
  BY DEF Rows, RoleKeepers
<1>5. \A r \in T : r \in core.tab  BY DEF Rows
<1>6. \A r \in T : r.of = s => core.role[s] = RoleOf(r.k)  BY <1>1 DEF Roled
<1>7. core.role[s] # None => \E r \in T : r.of = s  BY <1>1 DEF Roled
<1> HIDE DEF T
<1>8. \A k : ~Unclaimed(k, s) <=> \E r \in core.tab : r.k = k /\ r.of = s
  BY DEF Unclaimed, RowsOf
<1>9. (core.role[s] = "xdg_surface") <=> \E r \in core.tab : r.k = "xdg_surface" /\ r.of = s
  BY <1>2, <1>3, <1>4, <1>5, <1>6, <1>7 DEF RoleOf
<1>10. (core.role[s] = "layer_surface") <=>
          \E r \in core.tab : r.k = "zwlr_layer_surface_v1" /\ r.of = s
  BY <1>2, <1>3, <1>4, <1>5, <1>6, <1>7 DEF RoleOf
<1> QED  BY <1>8, <1>9, <1>10

(* What the managers keep beside the registry agrees with it and with itself, *)
(* whatever the client sends, in whatever order it destroys and uses ids      *)
(* again, and whatever outputs come and go.                                   *)
THEOREM TablesAgreeHolds == Spec => []TablesAgree
<1>1. WireInv => TablesAgree
  BY InvTypeOK, InvMirrored, InvHeldIsOwed, InvPairsAgree, InvInhibitAgrees, InvBufferInside,
     InvEnteredIsOffered DEF TablesAgree
<1> QED  BY <1>1, WireInvHolds, PTL

(* The role of an orderly client's surface is that of its one role object.    *)
THEOREM RolesAgreeHolds == Spec => []RolesAgree
<1>1. WireInv => RolesAgree  BY InvRolesAgree
<1> QED  BY <1>1, WireInvHolds, PTL

(* An orderly client is disconnected neither for a request nor by a release.  *)
THEOREM OrderlyIsServedHolds == Spec => []OrderlyIsServed
<1>1. WireInv => OrderlyIsServed  BY DEF WireInv, OrderlyIsServed
<1> QED  BY <1>1, WireInvHolds, PTL
=============================================================================
