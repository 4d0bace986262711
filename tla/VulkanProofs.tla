--------------------------- MODULE VulkanProofs ---------------------------
(***************************************************************************)
(* What the backend holds for the GPU and what it tells the tasks: memory  *)
(* the GPU works on is held, the budget counts exactly what is held, a     *)
(* batch has one verdict and a submission a key of its own, for any tasks, *)
(* batches and limits.                                                     *)
(***************************************************************************)
EXTENDS Vulkan, FiniteSetTheorems, WellFoundedInduction, SequenceTheorems, TLAPS

-----------------------------------------------------------------------------
(* SizeOf sums over a set by choosing its elements one after the other.  It  *)
(* is a sum: defined on finite sets, whatever the order.                     *)

Pick(s) == CHOOSE x \in s : TRUE

\* g[s] is the sum of the sizes of f over s, for every part s of S.
IsSum(g, f, S) ==
    g = [s \in SUBSET S |->
            IF s = {} THEN 0 ELSE f[Pick(s)].size + g[s \ {Pick(s)}]]

LEMMA PickIsIn == \A s : s # {} => Pick(s) \in s
BY DEF Pick

LEMMA SizeOfIsSum ==
    \A f, K : SizeOf(f, K) = (CHOOSE g : IsSum(g, f, K))[K]
BY DEF SizeOf, MapThenSumSet, MapThenFoldSet, IsSum, Pick

\* Induction over the parts of a finite set: of the parts that are bad, if any,
\* one has no bad part of its own.
LEMMA SmallestBad ==
    ASSUME NEW S, IsFiniteSet(S), NEW Bad, Bad \subseteq SUBSET S, Bad # {}
    PROVE  \E T \in Bad : \A U \in SUBSET T : U # T => U \notin Bad
<1>1. IsWellFoundedOn(StrictSubsetOrdering(S), FiniteSubsetsOf(S))
  BY FS_StrictSubsetOrderingWellFounded
<1>2. FiniteSubsetsOf(S) = SUBSET S  BY FS_FiniteSubsetsOfFinite
<1>3. PICK T \in Bad : \A U \in Bad : ~(<<U, T>> \in StrictSubsetOrdering(S))
  BY <1>1, <1>2, WFMin
<1>4. ASSUME NEW U \in SUBSET T, U # T, U \in Bad  PROVE FALSE
  <2>1. <<U, T>> \in (SUBSET S) \X (SUBSET S)  BY <1>4
  <2>2. <<U, T>> \in StrictSubsetOrdering(S)  BY <2>1, <1>4 DEF StrictSubsetOrdering
  <2> QED  BY <1>3, <1>4, <2>2
<1> QED  BY <1>3, <1>4

\* Two sums over the parts of S and of T are the same where both are defined.
LEMMA SumIsUnique ==
    ASSUME NEW f, NEW S, NEW T, IsFiniteSet(S), NEW g, NEW h,
           IsSum(g, f, S), IsSum(h, f, T)
    PROVE  \A s \in SUBSET S : s \in SUBSET T => g[s] = h[s]
<1> DEFINE Bad == {s \in SUBSET S : s \in SUBSET T /\ g[s] # h[s]}
<1> SUFFICES ASSUME Bad # {}  PROVE FALSE  OBVIOUS
<1>0. Bad \subseteq SUBSET S  OBVIOUS
<1>1. PICK s \in Bad : \A U \in SUBSET s : U # s => U \notin Bad
  <2> HIDE DEF Bad
  <2> QED  BY <1>0, SmallestBad
<1> HIDE DEF Bad
<1>2. s \in SUBSET S /\ s \in SUBSET T /\ g[s] # h[s]  BY DEF Bad
<1>3. s # {}  BY <1>2 DEF IsSum
<1> DEFINE r == s \ {Pick(s)}
<1>4. r \in SUBSET s /\ r # s  BY <1>3, PickIsIn
<1>5. g[r] = h[r]  BY <1>1, <1>2, <1>4 DEF Bad
<1>6. g[s] = f[Pick(s)].size + g[r] /\ h[s] = f[Pick(s)].size + h[r]  BY <1>2, <1>3 DEF IsSum
<1> QED  BY <1>2, <1>5, <1>6

LEMMA SumExists ==
    ASSUME NEW f, NEW S, IsFiniteSet(S)
    PROVE  \A T \in SUBSET S : \E g : IsSum(g, f, T)
<1> DEFINE Bad == {T \in SUBSET S : ~\E g : IsSum(g, f, T)}
<1> SUFFICES ASSUME Bad # {}  PROVE FALSE  OBVIOUS
<1>0. Bad \subseteq SUBSET S  OBVIOUS
<1>1. PICK T \in Bad : \A U \in SUBSET T : U # T => U \notin Bad
  <2> HIDE DEF Bad
  <2> QED  BY <1>0, SmallestBad
<1> DEFINE sum(U) == CHOOSE g : IsSum(g, f, U)
<1>2. \A U \in SUBSET T : U # T => IsSum(sum(U), f, U)  BY <1>1
<1> DEFINE value(U) == IF U = {} THEN 0 ELSE f[Pick(U)].size + sum(U \ {Pick(U)})[U \ {Pick(U)}]
           whole == [U \in SUBSET T |-> value(U)]
<1>3. ASSUME NEW U \in SUBSET T, U # {}
      PROVE  sum(U \ {Pick(U)})[U \ {Pick(U)}] = whole[U \ {Pick(U)}]
  <2> DEFINE V == U \ {Pick(U)}
             W == V \ {Pick(V)}
  <2>1. V \in SUBSET T /\ V # T  BY <1>3, PickIsIn
  <2>2. IsSum(sum(V), f, V) /\ IsFiniteSet(V)  BY <2>1, <1>2, FS_Subset
  <2>3. CASE V = {}
    <3>1. sum(V)[V] = 0  BY <2>2, <2>3 DEF IsSum
    <3> QED  BY <2>1, <2>3, <3>1
  <2>4. CASE V # {}
    <3>1. W \in SUBSET V /\ W # V /\ W \in SUBSET T /\ W # T  BY <2>1, <2>4, PickIsIn
    <3> HIDE DEF W
    <3>2. IsSum(sum(W), f, W)  BY <3>1, <1>2
    <3> HIDE DEF sum, V
    <3>3. sum(V)[W] = sum(W)[W]  BY <2>2, <3>1, <3>2, SumIsUnique
    <3>4. sum(V)[V] = f[Pick(V)].size + sum(V)[W]  BY <2>2, <2>4 DEF IsSum, W
    <3>5. whole[V] = f[Pick(V)].size + sum(W)[W]  BY <2>1, <2>4 DEF W
    <3>6. sum(V)[V] = whole[V]  BY <3>3, <3>4, <3>5
    <3> QED  BY <3>6 DEF V
  <2> QED  BY <2>3, <2>4
<1>4. IsSum(whole, f, T)
  <2> HIDE DEF sum
  <2>1. \A U \in SUBSET T : value(U) =
            IF U = {} THEN 0 ELSE f[Pick(U)].size + whole[U \ {Pick(U)}]  BY <1>3
  <2> HIDE DEF value
  <2> DEFINE right == [U \in SUBSET T |->
                 IF U = {} THEN 0 ELSE f[Pick(U)].size + whole[U \ {Pick(U)}]]
  <2>2. whole = right  BY <2>1
  <2> QED  BY <2>2 DEF IsSum
<1> QED  BY <1>1, <1>4

LEMMA SizeOfStep ==
    ASSUME NEW f, NEW K, IsFiniteSet(K)
    PROVE  /\ SizeOf(f, {}) = 0
           /\ K # {} => SizeOf(f, K) = f[Pick(K)].size + SizeOf(f, K \ {Pick(K)})
<1> DEFINE sum(U) == CHOOSE g : IsSum(g, f, U)
<1>1. \A U \in SUBSET K : IsFiniteSet(U) /\ IsSum(sum(U), f, U)
  BY SumExists, FS_Subset
<1>2. \A U : SizeOf(f, U) = sum(U)[U]  BY SizeOfIsSum
<1> HIDE DEF sum
<1>3. SizeOf(f, {}) = 0  BY <1>1, <1>2 DEF IsSum
<1>4. ASSUME K # {}  PROVE SizeOf(f, K) = f[Pick(K)].size + SizeOf(f, K \ {Pick(K)})
  <2> DEFINE R == K \ {Pick(K)}
  <2>1. sum(K)[K] = f[Pick(K)].size + sum(K)[R]  BY <1>1, <1>4 DEF IsSum
  <2>2. sum(K)[R] = sum(R)[R]  BY <1>1, SumIsUnique
  <2> QED  BY <1>2, <2>1, <2>2
<1> QED  BY <1>3, <1>4

LEMMA SizeOfEmpty == \A f : SizeOf(f, {}) = 0
BY SizeOfStep, FS_EmptySet

LEMMA SizeOfIsNat ==
    ASSUME NEW f, NEW S, IsFiniteSet(S), \A k \in S : f[k].size \in Nat
    PROVE  SizeOf(f, S) \in Nat
<1> DEFINE Bad == {K \in SUBSET S : SizeOf(f, K) \notin Nat}
<1> SUFFICES ASSUME Bad # {}  PROVE FALSE  OBVIOUS
<1>0. Bad \subseteq SUBSET S  OBVIOUS
<1>1. PICK K \in Bad : \A U \in SUBSET K : U # K => U \notin Bad
  <2> HIDE DEF Bad
  <2> QED  BY <1>0, SmallestBad
<1>2. K \in SUBSET S /\ SizeOf(f, K) \notin Nat /\ IsFiniteSet(K)  BY <1>1, FS_Subset
<1>3. K # {}  BY <1>2, SizeOfEmpty
<1> DEFINE R == K \ {Pick(K)}
<1>4. Pick(K) \in K /\ R \in SUBSET K /\ R # K /\ R \in SUBSET S  BY <1>2, <1>3, PickIsIn
<1>5. SizeOf(f, R) \in Nat  BY <1>1, <1>4
<1>6. SizeOf(f, K) = f[Pick(K)].size + SizeOf(f, R)  BY <1>2, <1>3, SizeOfStep
<1> QED  BY <1>2, <1>4, <1>5, <1>6

\* Only the sizes of the records summed over count.
LEMMA SizeOfSame ==
    ASSUME NEW f, NEW g, NEW S, IsFiniteSet(S), \A k \in S : f[k].size = g[k].size
    PROVE  SizeOf(f, S) = SizeOf(g, S)
<1> DEFINE Bad == {K \in SUBSET S : SizeOf(f, K) # SizeOf(g, K)}
<1> SUFFICES ASSUME Bad # {}  PROVE FALSE  OBVIOUS
<1>0. Bad \subseteq SUBSET S  OBVIOUS
<1>1. PICK K \in Bad : \A U \in SUBSET K : U # K => U \notin Bad
  <2> HIDE DEF Bad
  <2> QED  BY <1>0, SmallestBad
<1>2. K \in SUBSET S /\ SizeOf(f, K) # SizeOf(g, K) /\ IsFiniteSet(K)  BY <1>1, FS_Subset
<1>3. K # {}  BY <1>2, SizeOfEmpty
<1> DEFINE R == K \ {Pick(K)}
<1>4. Pick(K) \in K /\ R \in SUBSET K /\ R # K /\ R \in SUBSET S  BY <1>2, <1>3, PickIsIn
<1>5. SizeOf(f, R) = SizeOf(g, R)  BY <1>1, <1>4
<1>6. /\ SizeOf(f, K) = f[Pick(K)].size + SizeOf(f, R)
      /\ SizeOf(g, K) = g[Pick(K)].size + SizeOf(g, R)
  BY <1>2, <1>3, SizeOfStep
<1> QED  BY <1>2, <1>4, <1>5, <1>6

\* The order in which the fold picks the submissions does not matter.
LEMMA SizeOfRemove ==
    ASSUME NEW f, NEW S, IsFiniteSet(S), \A k \in S : f[k].size \in Nat, NEW x \in S
    PROVE  SizeOf(f, S) = f[x].size + SizeOf(f, S \ {x})
<1> DEFINE Bad == {K \in SUBSET S : \E k \in K : SizeOf(f, K) # f[k].size + SizeOf(f, K \ {k})}
<1> SUFFICES ASSUME Bad # {}  PROVE FALSE  OBVIOUS
<1>0. Bad \subseteq SUBSET S  OBVIOUS
<1>1. PICK K \in Bad : \A U \in SUBSET K : U # K => U \notin Bad
  <2> HIDE DEF Bad
  <2> QED  BY <1>0, SmallestBad
<1>2. PICK k \in K : SizeOf(f, K) # f[k].size + SizeOf(f, K \ {k})  BY <1>1
<1>3. \A U \in SUBSET K : IsFiniteSet(U) /\ SizeOf(f, U) \in Nat  BY FS_Subset, SizeOfIsNat
<1> DEFINE p == Pick(K)
           R == K \ {p}
           Q == K \ {k}
<1>4. p \in K /\ SizeOf(f, K) = f[p].size + SizeOf(f, R)  BY <1>3, PickIsIn, SizeOfStep
<1> HIDE DEF p
<1>5. p # k  BY <1>2, <1>4
<1>6. R \in SUBSET K /\ R # K /\ k \in R /\ Q \in SUBSET K /\ Q # K /\ p \in Q
      /\ R \ {k} = Q \ {p} /\ R \ {k} \in SUBSET K
  BY <1>4, <1>5
<1>7. SizeOf(f, R) = f[k].size + SizeOf(f, R \ {k})  BY <1>1, <1>6
<1>8. SizeOf(f, Q) = f[p].size + SizeOf(f, Q \ {p})  BY <1>1, <1>6
<1>9. f[k].size \in Nat /\ f[p].size \in Nat  BY <1>4
<1>10. SizeOf(f, K) \in Nat /\ SizeOf(f, R) \in Nat /\ SizeOf(f, Q) \in Nat /\ SizeOf(f, R \ {k}) \in Nat
  BY <1>3, <1>6
<1> HIDE DEF R, Q
<1>11. SizeOf(f, K) # f[k].size + SizeOf(f, Q)  BY <1>2 DEF Q
<1>12. SizeOf(f, R \ {k}) = SizeOf(f, Q \ {p})  BY <1>6
<1> QED  BY <1>4, <1>7, <1>8, <1>9, <1>10, <1>11, <1>12

LEMMA SizeOfSplit ==
    ASSUME NEW f, NEW S, IsFiniteSet(S), \A k \in S : f[k].size \in Nat, NEW V \in SUBSET S
    PROVE  SizeOf(f, S) = SizeOf(f, V) + SizeOf(f, S \ V)
<1> DEFINE Bad == {K \in SUBSET V : SizeOf(f, S) # SizeOf(f, K) + SizeOf(f, S \ K)}
<1> SUFFICES ASSUME Bad # {}  PROVE FALSE  OBVIOUS
<1>0. Bad \subseteq SUBSET S  OBVIOUS
<1>1. PICK K \in Bad : \A U \in SUBSET K : U # K => U \notin Bad
  <2> HIDE DEF Bad
  <2> QED  BY <1>0, SmallestBad
<1>2. \A U \in SUBSET S : IsFiniteSet(U) /\ SizeOf(f, U) \in Nat  BY FS_Subset, SizeOfIsNat
<1>3. K # {}
  <2>1. SUFFICES ASSUME K = {}  PROVE FALSE  OBVIOUS
  <2>2. S \ K = S  BY <2>1
  <2>4. SizeOf(f, S \ K) = SizeOf(f, S)  BY <2>2
  <2>5. SizeOf(f, K) = 0 /\ SizeOf(f, S) \in Nat
    BY <2>1, <1>2, SizeOfEmpty
  <2>3. SizeOf(f, S) # SizeOf(f, K) + SizeOf(f, S \ K)  BY <1>1
  <2> QED  BY <2>3, <2>4, <2>5
<1> DEFINE p == Pick(K)
           R == K \ {p}
<1>4. p \in K /\ p \in S /\ R \in SUBSET K /\ R # K  BY <1>3, PickIsIn
<1>5. SizeOf(f, S) = SizeOf(f, R) + SizeOf(f, S \ R)  BY <1>1, <1>4
<1>6. SizeOf(f, K) = f[p].size + SizeOf(f, R)  BY <1>2, <1>4, SizeOfRemove
<1>7. SizeOf(f, S \ R) = f[p].size + SizeOf(f, S \ K)
  <2>1. S \ R \in SUBSET S /\ p \in S \ R /\ (S \ R) \ {p} = S \ K  BY <1>1, <1>4
  <2> HIDE DEF R, p
  <2> QED  BY <1>2, <2>1, SizeOfRemove
<1>8. f[p].size \in Nat /\ SizeOf(f, R) \in Nat /\ SizeOf(f, S \ K) \in Nat
  BY <1>1, <1>2, <1>4
<1>9. SizeOf(f, S) # SizeOf(f, K) + SizeOf(f, S \ K)  BY <1>1
<1> QED  BY <1>5, <1>6, <1>7, <1>8, <1>9

-----------------------------------------------------------------------------
(* The inductive invariant *)

Reasons == {"Timeout", "DriverUnavailable"}
Tables(S) == UNION {[K -> S] : K \in SUBSET Keys}

IsBackend(b) ==
    b \in [enabled : BOOLEAN, device : BOOLEAN, exhausted : BOOLEAN,
           state : {"Uninitialized", "Ready", "Disabled", "Faulted", "Dropped"},
           next : 1 .. MaxId, generation : 1 .. MaxGeneration,
           submissions : Tables(Stored), quarantined : Tables(Quarantined),
           results : Tables(Reasons), order : Seq(Keys),
           bytes : Nat, secrets : SUBSET Keys]

Records(b) == [k \in Held(b) |-> Record(b, k)]

\* The budget counts what is held, and is kept.
Accounted(b) ==
    /\ DOMAIN b.submissions \cap DOMAIN b.quarantined = {}
    /\ b.bytes = SizeOf(Records(b), Held(b))
    /\ b.bytes =< MaxAllocation
    /\ Cardinality(Held(b)) =< MaxPending

Filed(b) ==
    /\ ToSet(b.order) = DOMAIN b.results
    /\ IsInjective(b.order)
    /\ Len(b.order) =< MaxTerminal

\* What every critical section leaves true of the backend: besides the budget
\* and the history, no submission that is pending has a terminal result, and one
\* is seen completed only after the GPU is done with it.
Sound(b) ==
    /\ IsBackend(b) /\ Accounted(b) /\ Filed(b)
    /\ b.secrets \subseteq Held(b)
    /\ DOMAIN b.submissions \cap DOMAIN b.results = {}
    /\ \A k \in DOMAIN b.submissions : b.submissions[k].completed => gpu[k] = "done"
    /\ ~b.device => Held(b) = {}

\* What is left after the drop.
Gone(b) == /\ IsBackend(b) /\ Filed(b)
           /\ Held(b) = {} /\ DOMAIN b.results = {}

\* The keys handed out so far: those before the counters, all of them in the end.
Used(b, k) ==
    \/ b.exhausted
    \/ k[1] < b.generation
    \/ k[1] = b.generation /\ k[2] < b.next

\* The device has seen the keys that tables and handles name, and only keys that
\* were handed out.
KeysInv ==
    /\ \A k \in Keys : gpu[k] # "none" => Used(backend, k)
    /\ \A k \in Held(backend) \cup DOMAIN backend.results : gpu[k] # "none"
    /\ \A c \in Callers : handle[c] # None => gpu[handle[c]] # "none"

\* A verdict is final: once a task was told one, the submission is no longer
\* pending, and once one was told that the GPU did the work there is no terminal
\* result left to contradict it.
VerdictInv ==
    /\ OneVerdict
    /\ \A c \in Callers :
           /\ answer[c] \in Reasons \cup {"Vulkan"} =>
                  handle[c] \notin DOMAIN backend.submissions
           /\ answer[c] = "Vulkan" => handle[c] \notin DOMAIN backend.results
           /\ pc[c] = "completed" /\ handle[c] \in DOMAIN backend.submissions =>
                  backend.submissions[handle[c]].completed

VulkanInv ==
    /\ gpu \in [Keys -> {"none", "running", "done"}] /\ lost \in BOOLEAN
    /\ pc \in [Callers -> {"idle", "waiting", "completed", "terminal"}]
    /\ handle \in [Callers -> Keys \cup {None}]
    /\ answer \in [Callers -> Reasons \cup {None, "Vulkan", "SubmissionRejected"}]
    /\ IF Alive THEN Sound(backend)
       ELSE Gone(backend) /\ \A c \in Callers : pc[c] = "idle"
    /\ RunningIsHeld
    /\ KeysInv
    /\ VerdictInv

-----------------------------------------------------------------------------
(* Tables *)

LEMMA TableDef ==
    \A S, f : f \in Tables(S) <=> /\ DOMAIN f \subseteq Keys
                                  /\ f = [k \in DOMAIN f |-> f[k]]
                                  /\ \A k \in DOMAIN f : f[k] \in S
BY DEF Tables

LEMMA TableWithout ==
    ASSUME NEW S, NEW f \in Tables(S), NEW K
    PROVE  /\ Without(f, K) \in Tables(S)
           /\ DOMAIN Without(f, K) = DOMAIN f \ K
           /\ \A k \in DOMAIN f \ K : Without(f, K)[k] = f[k]
BY TableDef DEF Without, Restrict

LEMMA TableWith ==
    ASSUME NEW S, NEW f \in Tables(S), NEW k \in Keys, NEW v \in S
    PROVE  /\ With(f, k, v) \in Tables(S)
           /\ DOMAIN With(f, k, v) = DOMAIN f \cup {k}
           /\ \A x \in DOMAIN f \cup {k} : With(f, k, v)[x] = IF x = k THEN v ELSE f[x]
BY TableDef DEF With

LEMMA KeysAreFinite ==
    /\ IsFiniteSet(Keys)
    /\ \A K \in SUBSET Keys : IsFiniteSet(K) /\ Cardinality(K) \in Nat
    /\ None \notin Keys
<1>1. IsFiniteSet(1 .. MaxGeneration) /\ IsFiniteSet(1 .. MaxId)
  BY FS_Interval, VulkanAssumption
<1>2. IsFiniteSet(Keys)  BY <1>1, FS_Product DEF Keys
<1>3. \A K \in SUBSET Keys : IsFiniteSet(K) /\ Cardinality(K) \in Nat
  BY <1>2, FS_Subset, FS_CardinalityType
<1> QED  BY <1>2, <1>3, VulkanAssumption DEF Keys

LEMMA BackendParts ==
    ASSUME NEW b, IsBackend(b)
    PROVE  /\ b.submissions \in Tables(Stored) /\ DOMAIN b.submissions \subseteq Keys
           /\ b.quarantined \in Tables(Quarantined) /\ DOMAIN b.quarantined \subseteq Keys
           /\ b.results \in Tables(Reasons) /\ DOMAIN b.results \subseteq Keys
           /\ \A k \in DOMAIN b.submissions : b.submissions[k] \in Stored
           /\ \A k \in DOMAIN b.quarantined : b.quarantined[k] \in Quarantined
           /\ \A k \in DOMAIN b.results : b.results[k] \in Reasons
           /\ b.order \in Seq(Keys) /\ b.bytes \in Nat /\ b.secrets \in SUBSET Keys
           /\ Held(b) \in SUBSET Keys /\ IsFiniteSet(Held(b))
           /\ \A k \in Held(b) : Record(b, k).size \in Nat /\ Record(b, k).zeroize \in BOOLEAN
<1>1. b.submissions \in Tables(Stored) /\ b.quarantined \in Tables(Quarantined)
      /\ b.results \in Tables(Reasons)
      /\ b.order \in Seq(Keys) /\ b.bytes \in Nat /\ b.secrets \in SUBSET Keys
  BY DEF IsBackend
<1>2. /\ DOMAIN b.submissions \subseteq Keys /\ DOMAIN b.quarantined \subseteq Keys
      /\ DOMAIN b.results \subseteq Keys
      /\ \A k \in DOMAIN b.submissions : b.submissions[k] \in Stored
      /\ \A k \in DOMAIN b.quarantined : b.quarantined[k] \in Quarantined
      /\ \A k \in DOMAIN b.results : b.results[k] \in Reasons
  BY <1>1, TableDef
<1>3. Held(b) \in SUBSET Keys /\ IsFiniteSet(Held(b))
  BY <1>2, KeysAreFinite DEF Held
<1>4. \A k \in Held(b) : Record(b, k).size \in Nat /\ Record(b, k).zeroize \in BOOLEAN
  BY <1>2 DEF Held, Record, Stored, Quarantined
<1> QED  BY <1>1, <1>2, <1>3, <1>4

-----------------------------------------------------------------------------
(* The budget *)

\* A backend that holds less than before, and has given back exactly that.
LEMMA GivenBack ==
    ASSUME NEW b, NEW n, IsBackend(b), IsBackend(n), Accounted(b),
           DOMAIN n.submissions \cap DOMAIN n.quarantined = {},
           Held(n) \subseteq Held(b),
           \A k \in Held(n) : Record(n, k).size = Record(b, k).size,
           n.bytes = SaturatingSub(b.bytes, SizeOf(Records(b), Held(b) \ Held(n)))
    PROVE  Accounted(n)
<1> DEFINE f == Records(b)
           B == Held(b)
           N == Held(n)
<1>1. IsFiniteSet(B) /\ N \in SUBSET B /\ IsFiniteSet(N) /\ IsFiniteSet(B \ N)
      /\ \A k \in B : f[k].size \in Nat
  BY BackendParts, FS_Subset DEF Records
<1>2. SizeOf(f, B) = SizeOf(f, N) + SizeOf(f, B \ N)
  <2> HIDE DEF f, B, N
  <2> QED  BY <1>1, SizeOfSplit
<1>3. SizeOf(f, N) \in Nat /\ SizeOf(f, B \ N) \in Nat
  <2> HIDE DEF f, B, N
  <2> QED  BY <1>1, SizeOfIsNat
<1>4. SizeOf(f, N) = SizeOf(Records(n), N)
  <2>1. \A k \in N : f[k].size = Records(n)[k].size  BY DEF Records
  <2> HIDE DEF f, B, N
  <2> QED  BY <1>1, <2>1, SizeOfSame
<1>5. b.bytes = SizeOf(f, B) /\ b.bytes =< MaxAllocation /\ b.bytes \in Nat
  BY BackendParts DEF Accounted
<1>6. n.bytes = SizeOf(Records(n), N) /\ n.bytes =< MaxAllocation
  <2> n.bytes = SaturatingSub(b.bytes, SizeOf(f, B \ N))  OBVIOUS
  <2> HIDE DEF f, B, N
  <2> QED  BY <1>2, <1>3, <1>4, <1>5, VulkanAssumption DEF SaturatingSub
<1>7. Cardinality(N) =< MaxPending
  <2>1. Cardinality(N) =< Cardinality(B)  BY <1>1, FS_Subset
  <2>2. Cardinality(N) \in Nat /\ Cardinality(B) \in Nat  BY <1>1, FS_CardinalityType
  <2>3. Cardinality(B) =< MaxPending  BY DEF Accounted
  <2> HIDE DEF B, N
  <2> QED  BY <2>1, <2>2, <2>3, VulkanAssumption
<1> QED  BY <1>6, <1>7 DEF Accounted

LEMMA NothingGivenBack ==
    ASSUME NEW b, NEW n, IsBackend(b), IsBackend(n), Accounted(b),
           DOMAIN n.submissions \cap DOMAIN n.quarantined = {},
           Held(n) = Held(b), n.bytes = b.bytes,
           \A k \in Held(n) : Record(n, k).size = Record(b, k).size
    PROVE  Accounted(n)
<1>1. Held(b) \ Held(n) = {}  OBVIOUS
<1>2. SizeOf(Records(b), Held(b) \ Held(n)) = 0  BY <1>1, SizeOfEmpty
<1>3. n.bytes = SaturatingSub(b.bytes, SizeOf(Records(b), Held(b) \ Held(n)))
  BY <1>2, BackendParts DEF SaturatingSub
<1> QED  BY <1>3, GivenBack

-----------------------------------------------------------------------------
(* The helpers that run under the lock *)

\* How a backend may change while nothing is submitted: what is no longer held is
\* done, a result is recorded only of a submission that was pending, and a key
\* that was handed out stays so.
Follows(b, n) ==
    /\ DOMAIN n.submissions \subseteq DOMAIN b.submissions
    /\ \A k \in DOMAIN n.submissions :
           b.submissions[k].completed => n.submissions[k].completed
    /\ DOMAIN n.results \subseteq
           DOMAIN b.results \cup (DOMAIN b.submissions \ DOMAIN n.submissions)
    /\ Held(n) \subseteq Held(b)
    /\ \A k \in Held(b) \ Held(n) : gpu[k] = "done"
    /\ \A k \in Keys : Used(b, k) => Used(n, k)
    /\ b.state # "Dropped" => n.state # "Dropped"

LEMMA FollowsReflexive == \A b : Follows(b, b)
BY DEF Follows

LEMMA FollowsTransitive ==
    ASSUME NEW b, NEW n, NEW m, Follows(b, n), Follows(n, m)
    PROVE  Follows(b, m)
<1>1. /\ DOMAIN m.submissions \subseteq DOMAIN b.submissions
      /\ Held(m) \subseteq Held(b)
      /\ \A k \in Held(b) \ Held(m) : gpu[k] = "done"
  BY DEF Follows
<1>2. \A k \in DOMAIN m.submissions :
          b.submissions[k].completed => m.submissions[k].completed
  BY DEF Follows
<1>3. DOMAIN m.results \subseteq
          DOMAIN b.results \cup (DOMAIN b.submissions \ DOMAIN m.submissions)
  BY DEF Follows
<1> QED  BY <1>1, <1>2, <1>3 DEF Follows

LEMMA FaultedIsSound ==
    ASSUME NEW b, Sound(b)
    PROVE  /\ Sound(mark_faulted(b)) /\ Follows(b, mark_faulted(b))
           /\ DOMAIN mark_faulted(b).submissions = DOMAIN b.submissions
<1> DEFINE n == mark_faulted(b)
<1>1. IsBackend(n) /\ n.state = "Faulted"
  BY DEF Sound, IsBackend, mark_faulted
<1>2. /\ n.submissions = b.submissions /\ n.quarantined = b.quarantined
      /\ n.results = b.results /\ n.order = b.order /\ n.bytes = b.bytes
      /\ n.secrets = b.secrets /\ n.device = b.device /\ n.next = b.next
      /\ n.generation = b.generation /\ n.exhausted = b.exhausted
  BY DEF Sound, IsBackend, mark_faulted
<1> HIDE DEF n
<1>3. Held(n) = Held(b) /\ \A k : Record(n, k) = Record(b, k)
  BY <1>2 DEF Held, Record
<1>4. Records(n) = Records(b)  BY <1>3 DEF Records
<1>5. Accounted(n)  BY <1>2, <1>3, <1>4 DEF Sound, Accounted
<1>6. Sound(n)  BY <1>1, <1>2, <1>3, <1>5 DEF Sound, Filed
<1>7. Follows(b, n)  BY <1>1, <1>2, <1>3 DEF Follows, Used
<1> QED  BY <1>2, <1>6, <1>7 DEF n

\* A submission that is no longer waited for goes to the quarantine.
Moved(b, k) ==
    [b EXCEPT !.submissions = Without(@, {k}),
              !.quarantined = With(@, k, Kept(b.submissions[k]))]

LEMMA MovedIsSound ==
    ASSUME NEW b, Sound(b), NEW k \in DOMAIN b.submissions
    PROVE  /\ Sound(Moved(b, k)) /\ Follows(b, Moved(b, k))
           /\ DOMAIN Moved(b, k).submissions = DOMAIN b.submissions \ {k}
           /\ Moved(b, k).results = b.results /\ Moved(b, k).order = b.order
<1> DEFINE n == Moved(b, k)
<1>0. b.submissions \in Tables(Stored) /\ b.quarantined \in Tables(Quarantined)
  BY BackendParts DEF Sound
<1>1. IsBackend(b) /\ k \in Keys /\ b.submissions[k] \in Stored
  BY BackendParts DEF Sound
<1>2. Kept(b.submissions[k]) \in Quarantined /\ Kept(b.submissions[k]).size = b.submissions[k].size
  BY <1>1 DEF Kept, Stored, Quarantined
<1>3. /\ n.submissions = Without(b.submissions, {k})
      /\ n.quarantined = With(b.quarantined, k, Kept(b.submissions[k]))
      /\ n.results = b.results /\ n.order = b.order /\ n.bytes = b.bytes
      /\ n.secrets = b.secrets /\ n.device = b.device /\ n.next = b.next
      /\ n.generation = b.generation /\ n.exhausted = b.exhausted /\ n.state = b.state
  BY <1>1 DEF IsBackend, Moved
<1> HIDE DEF n
<1>4. /\ n.submissions \in Tables(Stored)
      /\ DOMAIN n.submissions = DOMAIN b.submissions \ {k}
      /\ \A x \in DOMAIN b.submissions \ {k} : n.submissions[x] = b.submissions[x]
  <2> DEFINE f == b.submissions
             K == {k}
  <2>1. f \in Tables(Stored) /\ n.submissions = Without(f, K)  BY <1>0, <1>3
  <2> HIDE DEF f, K
  <2>2. /\ Without(f, K) \in Tables(Stored)
        /\ DOMAIN Without(f, K) = DOMAIN f \ K
        /\ \A x \in DOMAIN f \ K : Without(f, K)[x] = f[x]
    BY <2>1, TableWithout
  <2> QED  BY <2>1, <2>2 DEF f, K
<1>5. /\ n.quarantined \in Tables(Quarantined)
      /\ DOMAIN n.quarantined = DOMAIN b.quarantined \cup {k}
      /\ \A x \in DOMAIN b.quarantined \cup {k} :
             n.quarantined[x] = IF x = k THEN Kept(b.submissions[k]) ELSE b.quarantined[x]
  <2> DEFINE v == Kept(b.submissions[k])
             q == b.quarantined
  <2>1. v \in Quarantined /\ k \in Keys /\ q \in Tables(Quarantined)
        /\ n.quarantined = With(q, k, v)
    BY <1>0, <1>1, <1>2, <1>3
  <2> HIDE DEF v, q
  <2>2. /\ n.quarantined \in Tables(Quarantined)
        /\ DOMAIN n.quarantined = DOMAIN q \cup {k}
        /\ \A x \in DOMAIN q \cup {k} : n.quarantined[x] = IF x = k THEN v ELSE q[x]
    BY <2>1, TableWith
  <2> QED  BY <2>2 DEF v, q
<1>6. IsBackend(n)  BY <1>1, <1>3, <1>4, <1>5 DEF IsBackend, Moved, n
<1>7. DOMAIN b.submissions \cap DOMAIN b.quarantined = {}  BY DEF Sound, Accounted
<1>8. Held(n) = Held(b)  BY <1>4, <1>5 DEF Held
<1>9. \A x \in Held(n) : Record(n, x).size = Record(b, x).size
  BY <1>2, <1>4, <1>5, <1>7, <1>8 DEF Held, Record
<1>10. DOMAIN n.submissions \cap DOMAIN n.quarantined = {}  BY <1>4, <1>5, <1>7
<1>11. Accounted(n)
  <2>1. Accounted(b) /\ n.bytes = b.bytes  BY <1>3 DEF Sound
  <2> QED  BY <1>1, <1>6, <1>8, <1>9, <1>10, <2>1, NothingGivenBack
<1>12. Sound(n)  BY <1>3, <1>4, <1>6, <1>8, <1>11 DEF Sound, Filed
<1>13. Follows(b, n)  BY <1>3, <1>4, <1>8 DEF Follows, Used
<1> QED  BY <1>3, <1>4, <1>12, <1>13 DEF n

\* A submission whose memory is given back.
Freed(b, k) ==
    [b EXCEPT !.submissions = Without(@, {k}),
              !.bytes = SaturatingSub(@, b.submissions[k].size),
              !.secrets = @ \ {k}]

LEMMA FreedIsSound ==
    ASSUME NEW b, Sound(b), NEW k \in DOMAIN b.submissions, gpu[k] = "done"
    PROVE  /\ Sound(Freed(b, k)) /\ Follows(b, Freed(b, k))
           /\ DOMAIN Freed(b, k).submissions = DOMAIN b.submissions \ {k}
           /\ Freed(b, k).results = b.results
<1> DEFINE n == Freed(b, k)
<1>0. b.submissions \in Tables(Stored) /\ b.quarantined \in Tables(Quarantined)
  BY BackendParts DEF Sound
<1>1. IsBackend(b) /\ k \in Keys /\ b.submissions[k] \in Stored
  BY BackendParts DEF Sound
<1>2. b.submissions[k].size \in Nat /\ b.bytes \in Nat
      /\ SaturatingSub(b.bytes, b.submissions[k].size) \in Nat
  BY <1>1, BackendParts DEF Stored, SaturatingSub
<1>3. /\ n.submissions = Without(b.submissions, {k})
      /\ n.bytes = SaturatingSub(b.bytes, b.submissions[k].size)
      /\ n.secrets = b.secrets \ {k}
      /\ n.quarantined = b.quarantined
      /\ n.results = b.results /\ n.order = b.order /\ n.device = b.device /\ n.next = b.next
      /\ n.generation = b.generation /\ n.exhausted = b.exhausted /\ n.state = b.state
  BY <1>1 DEF IsBackend, Freed
<1> HIDE DEF n
<1>4. /\ n.submissions \in Tables(Stored)
      /\ DOMAIN n.submissions = DOMAIN b.submissions \ {k}
      /\ \A x \in DOMAIN b.submissions \ {k} : n.submissions[x] = b.submissions[x]
  <2> DEFINE f == b.submissions
             K == {k}
  <2>1. f \in Tables(Stored) /\ n.submissions = Without(f, K)  BY <1>0, <1>3
  <2> HIDE DEF f, K
  <2>2. /\ Without(f, K) \in Tables(Stored)
        /\ DOMAIN Without(f, K) = DOMAIN f \ K
        /\ \A x \in DOMAIN f \ K : Without(f, K)[x] = f[x]
    BY <2>1, TableWithout
  <2> QED  BY <2>1, <2>2 DEF f, K
<1>5. IsBackend(n)  BY <1>1, <1>2, <1>3, <1>4, BackendParts DEF IsBackend, Freed, n
<1>6. DOMAIN b.submissions \cap DOMAIN b.quarantined = {}  BY DEF Sound, Accounted
<1>7. Held(n) = Held(b) \ {k} /\ k \in Held(b)  BY <1>3, <1>4, <1>6 DEF Held
<1>8. \A x \in Held(n) : Record(n, x) = Record(b, x)
  BY <1>3, <1>4, <1>6, <1>7 DEF Held, Record
<1>9. SizeOf(Records(b), Held(b) \ Held(n)) = b.submissions[k].size
  <2>1. Held(b) \ Held(n) = {k}  BY <1>7
  <2>2. {k} \ {k} = {}  OBVIOUS
  <2>3. Records(b)[k] = b.submissions[k]  BY <1>7 DEF Records, Record
  <2>4. IsFiniteSet({k}) /\ \A x \in {k} : Records(b)[x].size \in Nat
    BY <1>2, <2>3, FS_Singleton
  <2>5. SizeOf(Records(b), {k}) = Records(b)[k].size + SizeOf(Records(b), {k} \ {k})
    BY <2>4, SizeOfRemove
  <2>6. SizeOf(Records(b), {k} \ {k}) = 0  BY <2>2, SizeOfEmpty
  <2>7. SizeOf(Records(b), Held(b) \ Held(n)) = SizeOf(Records(b), {k})  BY <2>1
  <2> QED  BY <1>2, <2>3, <2>5, <2>6, <2>7
<1>10. Accounted(n)
  <2>1. DOMAIN n.submissions \cap DOMAIN n.quarantined = {}  BY <1>3, <1>4, <1>6
  <2>2. Held(n) \subseteq Held(b)  BY <1>7
  <2>3. \A x \in Held(n) : Record(n, x).size = Record(b, x).size  BY <1>8
  <2>4. n.bytes = SaturatingSub(b.bytes, SizeOf(Records(b), Held(b) \ Held(n)))
    BY <1>3, <1>9
  <2> QED  BY <1>1, <1>5, <2>1, <2>2, <2>3, <2>4, GivenBack DEF Sound
<1>11. Sound(n)  BY <1>3, <1>4, <1>5, <1>7, <1>10 DEF Sound, Filed
<1>12. Follows(b, n)  BY <1>3, <1>4, <1>7 DEF Follows, Used
<1> QED  BY <1>3, <1>4, <1>11, <1>12 DEF n

-----------------------------------------------------------------------------
(* The history of terminal results *)

LEMMA FirstRemoved ==
    ASSUME NEW s \in Seq(Keys), IsInjective(s), NEW k
    PROVE  /\ RemoveFirst(s, k) \in Seq(Keys)
           /\ IsInjective(RemoveFirst(s, k))
           /\ ToSet(RemoveFirst(s, k)) = ToSet(s) \ {k}
           /\ Len(RemoveFirst(s, k)) =< Len(s)
<1>1. CASE ~\E i \in 1 .. Len(s) : s[i] = k
  <2>1. RemoveFirst(s, k) = s  BY <1>1 DEF RemoveFirst
  <2>2. k \notin ToSet(s)  BY <1>1 DEF ToSet
  <2> QED  BY <2>1, <2>2
<1>2. CASE \E i \in 1 .. Len(s) : s[i] = k
  <2>1. PICK i \in 1 .. Len(s) : s[i] = k  BY <1>2
  <2>2. {j \in 1 .. Len(s) : s[j] = k} = {i}  BY <2>1 DEF IsInjective
  <2>3. SelectInSeq(s, LAMBDA v : v = k) = i
    <3>1. Min({i}) = i  BY <2>1 DEF Min
    <3> QED  BY <2>2, <3>1 DEF SelectInSeq
  <2> DEFINE front == SubSeq(s, 1, i - 1)
             back == SubSeq(s, i + 1, Len(s))
             t == front \o back
  <2>4. RemoveFirst(s, k) = t  BY <1>2, <2>3 DEF RemoveFirst, RemoveAt
  <2>5. /\ front \in Seq(Keys) /\ Len(front) = i - 1
        /\ \A j \in 1 .. i - 1 : front[j] = s[j]
        /\ back \in Seq(Keys) /\ Len(back) = Len(s) - i
        /\ \A j \in 1 .. Len(s) - i : back[j] = s[i + j]
    BY <2>1
  <2> HIDE DEF front, back
  <2>6. t \in Seq(Keys) /\ Len(t) = Len(s) - 1
    <3>1. t \in Seq(Keys) /\ Len(t) = Len(front) + Len(back)
      BY <2>5, ConcatProperties
    <3> HIDE DEF t
    <3> QED  BY <2>1, <2>5, <3>1
  <2>7. ASSUME NEW j \in 1 .. Len(s) - 1
        PROVE  t[j] = IF j < i THEN s[j] ELSE s[j + 1]
    <3>1. t[j] = IF j =< i - 1 THEN front[j] ELSE back[j - (i - 1)]
      <4>1. j \in 1 .. Len(front) + Len(back)  BY <2>1, <2>5
      <4>2. t[j] = IF j =< Len(front) THEN front[j] ELSE back[j - Len(front)]
        BY <2>5, <4>1, ConcatProperties
      <4> QED  BY <2>5, <4>2
    <3> HIDE DEF t
    <3>2. CASE j < i
      BY <2>1, <2>5, <3>1, <3>2
    <3>3. CASE j >= i
      <4>1. j - (i - 1) \in 1 .. Len(s) - i /\ i + (j - (i - 1)) = j + 1
        BY <2>1, <3>3
      <4>2. back[j - (i - 1)] = s[j + 1]  BY <2>5, <4>1
      <4> QED  BY <2>1, <3>1, <3>3, <4>2
    <3> QED  BY <2>1, <3>2, <3>3
  <2> HIDE DEF t
  <2>8. IsInjective(t)
    <3> SUFFICES ASSUME NEW a \in 1 .. Len(t), NEW b \in 1 .. Len(t), t[a] = t[b]
                 PROVE  a = b
      BY <2>6 DEF IsInjective
    <3> DEFINE at(j) == IF j < i THEN j ELSE j + 1
    <3>1. /\ at(a) \in 1 .. Len(s) /\ t[a] = s[at(a)]
          /\ at(b) \in 1 .. Len(s) /\ t[b] = s[at(b)]
      BY <2>1, <2>6, <2>7
    <3>2. at(a) = at(b)
      <4>1. \A x, y \in 1 .. Len(s) : s[x] = s[y] => x = y  BY DEF IsInjective
      <4>2. s[at(a)] = s[at(b)]  BY <3>1
      <4> HIDE DEF at
      <4> QED  BY <3>1, <4>1, <4>2
    <3> QED  BY <3>2, <2>1, <2>6
  <2>9. ToSet(t) = ToSet(s) \ {k}
    <3>1. ASSUME NEW a \in 1 .. Len(t)  PROVE t[a] \in ToSet(s) \ {k}
      <4> DEFINE at == IF a < i THEN a ELSE a + 1
      <4>1. at \in 1 .. Len(s) /\ t[a] = s[at] /\ at # i
        BY <2>1, <2>6, <2>7
      <4> HIDE DEF at
      <4>2. s[at] # k  BY <2>1, <4>1 DEF IsInjective
      <4> QED  BY <4>1, <4>2 DEF ToSet
    <3>2. ASSUME NEW a \in 1 .. Len(s), s[a] # k  PROVE s[a] \in ToSet(t)
      <4>1. CASE a < i  BY <4>1, <2>1, <2>6, <2>7 DEF ToSet
      <4>2. CASE a > i
        <5>1. a - 1 \in 1 .. Len(t) /\ t[a - 1] = s[a]  BY <4>2, <2>1, <2>6, <2>7
        <5> QED  BY <5>1, <2>6 DEF ToSet
      <4> QED  BY <3>2, <4>1, <4>2, <2>1
    <3> QED  BY <3>1, <3>2, <2>6 DEF ToSet
  <2> QED  BY <2>4, <2>6, <2>8, <2>9
<1> QED  BY <1>1, <1>2

LEMMA TakenIsSound ==
    ASSUME NEW b, Sound(b), NEW k
    PROVE  /\ Sound(take_terminal_result(b, k))
           /\ Follows(b, take_terminal_result(b, k))
           /\ DOMAIN take_terminal_result(b, k).submissions = DOMAIN b.submissions
           /\ k \notin DOMAIN take_terminal_result(b, k).results
<1> DEFINE n == take_terminal_result(b, k)
<1>1. /\ IsBackend(b) /\ Filed(b) /\ b.results \in Tables(Reasons) /\ b.order \in Seq(Keys)
  BY BackendParts DEF Sound
<1>2. /\ n.submissions = b.submissions /\ n.quarantined = b.quarantined
      /\ n.results = Without(b.results, {k}) /\ n.order = RemoveFirst(b.order, k)
      /\ n.bytes = b.bytes /\ n.secrets = b.secrets /\ n.device = b.device /\ n.next = b.next
      /\ n.generation = b.generation /\ n.exhausted = b.exhausted /\ n.state = b.state
  BY <1>1 DEF IsBackend, take_terminal_result
<1> HIDE DEF n
<1>3. n.results \in Tables(Reasons) /\ DOMAIN n.results = DOMAIN b.results \ {k}
  <2> DEFINE f == b.results
             K == {k}
  <2>1. f \in Tables(Reasons) /\ n.results = Without(f, K)  BY <1>1, <1>2
  <2> HIDE DEF f, K
  <2>2. Without(f, K) \in Tables(Reasons) /\ DOMAIN Without(f, K) = DOMAIN f \ K
    BY <2>1, TableWithout
  <2> QED  BY <2>1, <2>2 DEF f, K
<1>4. /\ n.order \in Seq(Keys) /\ IsInjective(n.order)
      /\ ToSet(n.order) = ToSet(b.order) \ {k} /\ Len(n.order) =< Len(b.order)
  BY <1>1, <1>2, FirstRemoved DEF Filed
<1>5. Filed(n)
  <2>1. Len(n.order) \in Nat /\ Len(b.order) \in Nat  BY <1>1, <1>4
  <2> QED  BY <1>1, <1>3, <1>4, <2>1, VulkanAssumption DEF Filed
<1>6. IsBackend(n)  BY <1>1, <1>2, <1>3, <1>4 DEF IsBackend, take_terminal_result, n
<1>7. Held(n) = Held(b) /\ \A x : Record(n, x) = Record(b, x)
  BY <1>2 DEF Held, Record
<1>8. Records(n) = Records(b)  BY <1>7 DEF Records
<1>9. Accounted(n)  BY <1>2, <1>7, <1>8 DEF Sound, Accounted
<1>10. Sound(n)  BY <1>2, <1>3, <1>5, <1>6, <1>7, <1>9 DEF Sound
<1>11. Follows(b, n)  BY <1>2, <1>3, <1>7 DEF Follows, Used
<1> QED  BY <1>2, <1>3, <1>10, <1>11 DEF n

LEMMA TerminalizedIsSound ==
    ASSUME NEW b, Sound(b), NEW k \in DOMAIN b.submissions, NEW reason \in Reasons
    PROVE  /\ Sound(terminalize_submission(b, k, reason))
           /\ Follows(b, terminalize_submission(b, k, reason))
<1> DEFINE m == Moved(b, k)
           n == insert_terminal_result(m, k, reason)
           full == Len(m.order) >= MaxTerminal
           evicted == IF full THEN {Head(m.order)} ELSE {}
           rest == IF full THEN Tail(m.order) ELSE m.order
<1>1. terminalize_submission(b, k, reason) = n  BY DEF terminalize_submission, Moved
<1>2. /\ Sound(m) /\ Follows(b, m) /\ k \notin DOMAIN m.submissions
      /\ m.results = b.results /\ DOMAIN m.submissions = DOMAIN b.submissions \ {k}
  BY MovedIsSound
<1> HIDE DEF m
<1>3. /\ IsBackend(m) /\ Filed(m) /\ m.results \in Tables(Reasons) /\ m.order \in Seq(Keys)
      /\ DOMAIN m.results \subseteq Keys
  BY <1>2, BackendParts DEF Sound
<1>4. k \notin DOMAIN m.results /\ k \in Keys
  BY <1>2, BackendParts DEF Sound
<1>5. /\ n.submissions = m.submissions /\ n.quarantined = m.quarantined
      /\ n.results = With(Without(m.results, evicted), k, reason)
      /\ n.order = Append(rest, k)
      /\ n.bytes = m.bytes /\ n.secrets = m.secrets /\ n.device = m.device /\ n.next = m.next
      /\ n.generation = m.generation /\ n.exhausted = m.exhausted /\ n.state = m.state
  BY <1>3, <1>4 DEF IsBackend, insert_terminal_result
<1>6. n = [m EXCEPT !.results = n.results, !.order = n.order]
  BY <1>3, <1>4 DEF IsBackend, insert_terminal_result
<1> HIDE DEF n
<1>7. /\ rest \in Seq(Keys) /\ IsInjective(rest) /\ Len(rest) + 1 =< MaxTerminal
      /\ ToSet(rest) = DOMAIN m.results \ evicted
  <2>1. CASE ~full
    <3>1. rest = m.order /\ evicted = {}  BY <2>1
    <3>2. Len(m.order) \in Nat /\ MaxTerminal \in Nat  BY <1>3, VulkanAssumption
    <3>3. Len(m.order) + 1 =< MaxTerminal  BY <2>1, <3>2
    <3> HIDE DEF rest, evicted
    <3> QED  BY <1>3, <3>1, <3>3 DEF Filed
  <2>2. CASE full
    <3> DEFINE s == m.order
    <3>1. s \in Seq(Keys) /\ IsInjective(s) /\ ToSet(s) = DOMAIN m.results
          /\ Len(s) = MaxTerminal /\ MaxTerminal \in Nat \ {0}
      BY <1>3, <2>2, VulkanAssumption DEF Filed
    <3>2. evicted = {Head(s)} /\ rest = Tail(s)  BY <2>2
    <3> HIDE DEF s, evicted, rest
    <3>3. s # << >>  BY <3>1
    <3>4. /\ Tail(s) \in Seq(Keys) /\ Len(Tail(s)) = Len(s) - 1 /\ Head(s) = s[1]
          /\ \A i \in 1 .. Len(Tail(s)) : Tail(s)[i] = s[i + 1]
      BY <3>1, <3>3, HeadTailProperties
    <3>5. DOMAIN s = 1 .. Len(s) /\ DOMAIN Tail(s) = 1 .. Len(s) - 1 /\ Len(s) \in Nat
      BY <3>1, <3>4
    <3>6. \A x, y \in 1 .. Len(s) : s[x] = s[y] => x = y
      BY <3>1, <3>5 DEF IsInjective
    <3>7. IsInjective(Tail(s))
      <4> SUFFICES ASSUME NEW x \in 1 .. Len(s) - 1, NEW y \in 1 .. Len(s) - 1,
                          Tail(s)[x] = Tail(s)[y]
                   PROVE  x = y
        BY <3>5 DEF IsInjective
      <4>1. x + 1 \in 1 .. Len(s) /\ y + 1 \in 1 .. Len(s) /\ s[x + 1] = s[y + 1]
        BY <3>4, <3>5
      <4>2. x + 1 = y + 1  BY <3>6, <4>1
      <4> QED  BY <4>2
    <3>8. ToSet(Tail(s)) = ToSet(s) \ {s[1]}
      <4>1. ASSUME NEW x \in 1 .. Len(s) - 1  PROVE Tail(s)[x] \in ToSet(s) \ {s[1]}
        <5>1. x + 1 \in 1 .. Len(s) /\ 1 \in 1 .. Len(s) /\ x + 1 # 1
              /\ Tail(s)[x] = s[x + 1]
          BY <3>1, <3>4, <3>5
        <5>2. s[x + 1] # s[1]  BY <3>6, <5>1
        <5> QED  BY <5>1, <5>2, <3>5 DEF ToSet
      <4>2. ASSUME NEW x \in 1 .. Len(s), s[x] # s[1]  PROVE s[x] \in ToSet(Tail(s))
        <5>1. x - 1 \in 1 .. Len(s) - 1 /\ (x - 1) + 1 = x  BY <4>2, <3>5
        <5>2. Tail(s)[x - 1] = s[x]  BY <3>4, <3>5, <5>1
        <5> QED  BY <5>1, <5>2, <3>5 DEF ToSet
      <4> QED  BY <4>1, <4>2, <3>5 DEF ToSet
    <3>9. Len(Tail(s)) + 1 =< MaxTerminal  BY <3>1, <3>4
    <3> QED  BY <3>1, <3>2, <3>4, <3>7, <3>8, <3>9
  <2> QED  BY <2>1, <2>2
<1>8. /\ n.results \in Tables(Reasons)
      /\ DOMAIN n.results = (DOMAIN m.results \ evicted) \cup {k}
  <2> DEFINE f == m.results
  <2> HIDE DEF f, evicted
  <2>1. f \in Tables(Reasons)  BY <1>3 DEF f
  <2>2. Without(f, evicted) \in Tables(Reasons) /\ DOMAIN Without(f, evicted) = DOMAIN f \ evicted
    BY <2>1, TableWithout
  <2> DEFINE g == Without(f, evicted)
  <2> HIDE DEF g
  <2>3. g \in Tables(Reasons)  BY <2>2 DEF g
  <2>4. With(g, k, reason) \in Tables(Reasons) /\ DOMAIN With(g, k, reason) = DOMAIN g \cup {k}
    BY <1>4, <2>3, TableWith
  <2> QED  BY <1>5, <2>2, <2>4 DEF f, g
<1> HIDE DEF rest, evicted, full
<1>9. /\ n.order \in Seq(Keys) /\ Len(n.order) = Len(rest) + 1
      /\ \A i \in 1 .. Len(rest) : n.order[i] = rest[i]
      /\ n.order[Len(rest) + 1] = k
  BY <1>4, <1>5, <1>7, AppendProperties
<1>10. Filed(n)
  <2>1. /\ DOMAIN n.order = 1 .. Len(rest) + 1 /\ DOMAIN rest = 1 .. Len(rest)
        /\ Len(rest) \in Nat
    BY <1>7, <1>9
  <2>2. k \notin ToSet(rest)  BY <1>4, <1>7
  <2>3. \A i \in 1 .. Len(rest) : rest[i] # k  BY <2>1, <2>2 DEF ToSet
  <2>4. IsInjective(n.order)
    <3>1. \A x, y \in 1 .. Len(rest) : rest[x] = rest[y] => x = y
      BY <1>7, <2>1 DEF IsInjective
    <3> QED  BY <1>9, <2>1, <2>3, <3>1 DEF IsInjective
  <2>5. ToSet(n.order) = ToSet(rest) \cup {k}
    <3> DEFINE o == n.order
               last == Len(rest) + 1
    <3>3. /\ last \in 1 .. last
          /\ \A i \in 1 .. last : i = last \/ i \in 1 .. Len(rest)
          /\ \A i \in 1 .. Len(rest) : i \in 1 .. last
      BY <2>1
    <3>4. o[last] = k  BY <1>9
    <3>6. DOMAIN o = 1 .. last  BY <2>1
    <3>5. \A i \in 1 .. Len(rest) : o[i] = rest[i]  BY <1>9
    <3> HIDE DEF o, last
    <3>1. /\ DOMAIN o = 1 .. last /\ last \in 1 .. last /\ o[last] = k
          /\ \A i \in 1 .. last : i = last \/ i \in 1 .. Len(rest)
          /\ \A i \in 1 .. Len(rest) : i \in 1 .. last /\ o[i] = rest[i]
      BY <3>3, <3>4, <3>5, <3>6
    <3>2. ToSet(o) = ToSet(rest) \cup {k}
      BY <2>1, <3>1 DEF ToSet
    <3> QED  BY <3>2 DEF o
  <2>6. ToSet(n.order) = DOMAIN n.results  BY <1>7, <1>8, <2>5
  <2> QED  BY <1>7, <1>9, <2>4, <2>6 DEF Filed
<1>11. IsBackend(n)  BY <1>3, <1>6, <1>8, <1>9 DEF IsBackend
<1>12. Held(n) = Held(m) /\ \A x : Record(n, x) = Record(m, x)
  BY <1>5 DEF Held, Record
<1>13. Records(n) = Records(m)  BY <1>12 DEF Records
<1>14. Accounted(n)  BY <1>2, <1>5, <1>12, <1>13 DEF Sound, Accounted
<1>15. DOMAIN n.submissions \cap DOMAIN n.results = {}
  BY <1>2, <1>5, <1>8 DEF Sound
<1>16. Sound(n)  BY <1>2, <1>5, <1>10, <1>11, <1>12, <1>14, <1>15 DEF Sound
<1>17. Follows(b, n)
  <2>1. DOMAIN n.results \subseteq DOMAIN b.results \cup (DOMAIN b.submissions \ DOMAIN n.submissions)
    BY <1>2, <1>5, <1>8
  <2> QED  BY <1>2, <1>5, <1>12, <2>1 DEF Follows, Used
<1> QED  BY <1>1, <1>16, <1>17 DEF n

-----------------------------------------------------------------------------
(* Marks on a pending submission, and the quarantine *)

\* A submission is marked as completed or overdue; nothing else changes.
LEMMA MarkedIsSound ==
    ASSUME NEW b, Sound(b), NEW k \in DOMAIN b.submissions,
           NEW s \in Stored, s.size = b.submissions[k].size,
           b.submissions[k].completed => s.completed,
           s.completed => gpu[k] = "done",
           NEW n, n = [b EXCEPT !.submissions = [@ EXCEPT ![k] = s]]
    PROVE  /\ Sound(n) /\ Follows(b, n)
           /\ DOMAIN n.submissions = DOMAIN b.submissions /\ n.submissions[k] = s
<1>1. IsBackend(b)  BY DEF Sound
<1>2. /\ n.submissions = [b.submissions EXCEPT ![k] = s] /\ n.quarantined = b.quarantined
      /\ n.results = b.results /\ n.order = b.order
      /\ n.bytes = b.bytes /\ n.secrets = b.secrets /\ n.device = b.device /\ n.next = b.next
      /\ n.generation = b.generation /\ n.exhausted = b.exhausted /\ n.state = b.state
  BY <1>1 DEF IsBackend
<1>3. /\ n.submissions \in Tables(Stored) /\ DOMAIN n.submissions = DOMAIN b.submissions
      /\ \A x \in DOMAIN b.submissions :
             n.submissions[x] = IF x = k THEN s ELSE b.submissions[x]
  <2> DEFINE f == b.submissions
             g == n.submissions
  <2>1. f \in Tables(Stored)  BY <1>1, BackendParts
  <2>2. g = [f EXCEPT ![k] = s] /\ k \in DOMAIN f  BY <1>2
  <2> HIDE DEF f, g
  <2>3. DOMAIN f \subseteq Keys /\ \A x \in DOMAIN f : f[x] \in Stored  BY <2>1, TableDef
  <2>4. g = [x \in DOMAIN f |-> IF x = k THEN s ELSE f[x]]  BY <2>2
  <2>5. DOMAIN g = DOMAIN f /\ g = [x \in DOMAIN g |-> g[x]]
        /\ \A x \in DOMAIN f : g[x] = IF x = k THEN s ELSE f[x]
    BY <2>4
  <2>6. g \in Tables(Stored)  BY <2>3, <2>5, TableDef
  <2> QED  BY <2>5, <2>6 DEF f, g
<1>4. IsBackend(n)  BY <1>1, <1>3 DEF IsBackend
<1>5. Held(n) = Held(b)  BY <1>2, <1>3 DEF Held
<1>6. \A x \in Held(n) : Record(n, x).size = Record(b, x).size
  BY <1>2, <1>3 DEF Record
<1>7. DOMAIN n.submissions \cap DOMAIN n.quarantined = {}
  BY <1>2, <1>3 DEF Sound, Accounted
<1>8. Accounted(n)
  <2>1. Accounted(b) /\ n.bytes = b.bytes  BY <1>2 DEF Sound
  <2> QED  BY <1>1, <1>4, <1>5, <1>6, <1>7, <2>1, NothingGivenBack
<1>9. Sound(n)  BY <1>2, <1>3, <1>4, <1>5, <1>8 DEF Sound, Filed
<1>10. Follows(b, n)  BY <1>2, <1>3, <1>5 DEF Follows, Used
<1> QED  BY <1>3, <1>9, <1>10

LEMMA ReapedIsSound ==
    ASSUME NEW b, Sound(b), NEW seen, NEW unmapped,
           \A k \in Held(b) : seen[k] = "signaled" => gpu[k] = "done"
    PROVE  /\ Sound(reap_quarantined(b, seen, unmapped))
           /\ Follows(b, reap_quarantined(b, seen, unmapped))
           /\ reap_quarantined(b, seen, unmapped).submissions = b.submissions
           /\ reap_quarantined(b, seen, unmapped).results = b.results
<1> DEFINE over == {k \in DOMAIN b.quarantined : seen[k] = "signaled"}
           kept == {k \in over : b.quarantined[k].zeroize /\ k \in unmapped}
           out == over \ kept
           error == \E k \in DOMAIN b.quarantined : seen[k] = "error"
           n == [b EXCEPT !.state = IF error \/ kept # {} THEN "Faulted" ELSE @,
                          !.quarantined = Without(@, out),
                          !.bytes = SaturatingSub(@, SizeOf(b.quarantined, out)),
                          !.secrets = @ \ out]
<1>1. CASE ~b.device
  <2>1. reap_quarantined(b, seen, unmapped) = b  BY <1>1 DEF reap_quarantined
  <2> QED  BY <2>1, FollowsReflexive
<1>2. CASE b.device
  <2>1. reap_quarantined(b, seen, unmapped) = n  BY <1>2 DEF reap_quarantined
  <2>2. out \subseteq DOMAIN b.quarantined /\ \A k \in out : seen[k] = "signaled"
    OBVIOUS
  <2>3. /\ IsBackend(b) /\ Accounted(b)
        /\ DOMAIN b.submissions \cap DOMAIN b.quarantined = {}
        /\ Held(b) = DOMAIN b.submissions \cup DOMAIN b.quarantined
    BY DEF Sound, Accounted, Held
  <2>4. out \subseteq Held(b) /\ \A k \in out : gpu[k] = "done"
    BY <2>2, <2>3
  <2> HIDE DEF out, kept, over, error
  <2>5. /\ n.submissions = b.submissions /\ n.quarantined = Without(b.quarantined, out)
        /\ n.results = b.results /\ n.order = b.order
        /\ n.bytes = SaturatingSub(b.bytes, SizeOf(b.quarantined, out))
        /\ n.secrets = b.secrets \ out /\ n.device = b.device /\ n.next = b.next
        /\ n.generation = b.generation /\ n.exhausted = b.exhausted
        /\ n.state \in {b.state, "Faulted"}
    BY <2>3 DEF IsBackend
  <2>6. n = [b EXCEPT !.state = n.state, !.quarantined = n.quarantined,
                      !.bytes = n.bytes, !.secrets = n.secrets]
    BY <2>3 DEF IsBackend
  <2> HIDE DEF n
  <2>7. /\ n.quarantined \in Tables(Quarantined)
        /\ DOMAIN n.quarantined = DOMAIN b.quarantined \ out
        /\ \A x \in DOMAIN b.quarantined \ out : n.quarantined[x] = b.quarantined[x]
    <3> DEFINE f == b.quarantined
    <3>1. f \in Tables(Quarantined)  BY <2>3, BackendParts
    <3> HIDE DEF f
    <3>2. /\ Without(f, out) \in Tables(Quarantined)
          /\ DOMAIN Without(f, out) = DOMAIN f \ out
          /\ \A x \in DOMAIN f \ out : Without(f, out)[x] = f[x]
      BY <3>1, TableWithout
    <3> QED  BY <2>5, <3>2 DEF f
  <2>8. Held(n) = Held(b) \ out /\ Held(b) \ Held(n) = out
    BY <2>2, <2>3, <2>4, <2>5, <2>7 DEF Held
  <2>9. \A x \in Held(n) : Record(n, x) = Record(b, x)
    BY <2>3, <2>5, <2>7, <2>8 DEF Record
  <2>10. SizeOf(b.quarantined, out) = SizeOf(Records(b), out)
    <3>1. \A x \in out : b.quarantined[x].size = Records(b)[x].size
      BY <2>2, <2>3, <2>4 DEF Records, Record
    <3>2. IsFiniteSet(out)  BY <2>3, <2>4, BackendParts, FS_Subset
    <3> QED  BY <3>1, <3>2, SizeOfSame
  <2>11. SizeOf(Records(b), out) \in Nat
    <3>1. \A x \in out : Records(b)[x].size \in Nat
      BY <2>3, <2>4, BackendParts DEF Records
    <3>2. IsFiniteSet(out)  BY <2>3, <2>4, BackendParts, FS_Subset
    <3> QED  BY <3>1, <3>2, SizeOfIsNat
  <2>12. n.bytes \in Nat /\ n.state \in {"Uninitialized", "Ready", "Disabled", "Faulted", "Dropped"}
    BY <2>3, <2>5, <2>10, <2>11 DEF IsBackend, SaturatingSub
  <2>13. IsBackend(n)
    <3>1. n.secrets \in SUBSET Keys  BY <2>3, <2>5 DEF IsBackend
    <3> QED  BY <2>3, <2>6, <2>7, <2>12, <3>1 DEF IsBackend
  <2>14. Accounted(n)
    <3>1. DOMAIN n.submissions \cap DOMAIN n.quarantined = {}  BY <2>3, <2>5, <2>7
    <3>2. Held(n) \subseteq Held(b)  BY <2>8
    <3>3. n.bytes = SaturatingSub(b.bytes, SizeOf(Records(b), Held(b) \ Held(n)))
      BY <2>5, <2>8, <2>10
    <3> QED  BY <2>3, <2>9, <2>13, <3>1, <3>2, <3>3, GivenBack
  <2>15. Sound(n)  BY <2>5, <2>8, <2>13, <2>14 DEF Sound, Filed
  <2>16. Follows(b, n)  BY <2>4, <2>5, <2>8 DEF Follows, Used
  <2> QED  BY <2>1, <2>5, <2>15, <2>16 DEF n
<1> QED  BY <1>1, <1>2

-----------------------------------------------------------------------------
(* Keys *)

LEMMA AllocatedIsSound ==
    ASSUME NEW b, Sound(b)
    PROVE  /\ Sound(allocate_handle(b)) /\ Follows(b, allocate_handle(b))
           /\ allocate_handle(b).submissions = b.submissions
           /\ allocate_handle(b).quarantined = b.quarantined
           /\ allocate_handle(b).results = b.results
           /\ allocate_handle(b).device = b.device
           /\ allocate_handle(b).state = b.state
<1> DEFINE n == allocate_handle(b)
<1>1. IsBackend(b) /\ {MaxId, MaxGeneration} \subseteq Nat \ {0}
  BY VulkanAssumption DEF Sound
<1>2. b.next \in 1 .. MaxId /\ b.generation \in 1 .. MaxGeneration
  BY <1>1 DEF IsBackend
<1>3. /\ n.submissions = b.submissions /\ n.quarantined = b.quarantined
      /\ n.results = b.results /\ n.order = b.order
      /\ n.bytes = b.bytes /\ n.secrets = b.secrets /\ n.device = b.device
      /\ n.state = b.state
  BY <1>1 DEF IsBackend, allocate_handle
<1>4. IsBackend(n)
  <2>1. CASE b.exhausted
    BY <1>1, <2>1 DEF allocate_handle
  <2>2. CASE ~b.exhausted /\ b.next < MaxId
    <3>1. n = [b EXCEPT !.next = @ + 1]  BY <2>2 DEF allocate_handle
    <3>2. b.next + 1 \in 1 .. MaxId  BY <1>1, <1>2, <2>2
    <3> HIDE DEF n
    <3> QED  BY <1>1, <3>1, <3>2 DEF IsBackend
  <2>3. CASE ~b.exhausted /\ ~(b.next < MaxId) /\ b.generation < MaxGeneration
    <3>1. n = [b EXCEPT !.next = 1, !.generation = @ + 1]  BY <2>3 DEF allocate_handle
    <3>2. 1 \in 1 .. MaxId /\ b.generation + 1 \in 1 .. MaxGeneration
      BY <1>1, <1>2, <2>3
    <3> HIDE DEF n
    <3> QED  BY <1>1, <3>1, <3>2 DEF IsBackend
  <2>4. CASE ~b.exhausted /\ ~(b.next < MaxId) /\ ~(b.generation < MaxGeneration)
    <3>1. n = [b EXCEPT !.exhausted = TRUE]  BY <2>4 DEF allocate_handle
    <3> HIDE DEF n
    <3> QED  BY <1>1, <3>1 DEF IsBackend
  <2> QED  BY <2>1, <2>2, <2>3, <2>4
<1>5. \A k \in Keys : Used(b, k) => Used(n, k)
  <2> SUFFICES ASSUME NEW k \in Keys, Used(b, k)  PROVE Used(n, k)  OBVIOUS
  <2>1. k[1] \in 1 .. MaxGeneration /\ k[2] \in 1 .. MaxId  BY DEF Keys
  <2>2. CASE b.exhausted
    BY <2>2 DEF allocate_handle, Used
  <2>3. CASE ~b.exhausted /\ b.next < MaxId
    <3>1. n.next = b.next + 1 /\ n.generation = b.generation
      BY <1>1, <2>3 DEF allocate_handle, IsBackend
    <3> HIDE DEF n
    <3> QED  BY <1>2, <2>1, <2>3, <3>1 DEF Used
  <2>4. CASE ~b.exhausted /\ ~(b.next < MaxId) /\ b.generation < MaxGeneration
    <3>1. n.next = 1 /\ n.generation = b.generation + 1
      BY <1>1, <2>4 DEF allocate_handle, IsBackend
    <3> HIDE DEF n
    <3> QED  BY <1>2, <2>1, <2>4, <3>1 DEF Used
  <2>5. CASE ~b.exhausted /\ ~(b.next < MaxId) /\ ~(b.generation < MaxGeneration)
    <3>1. n.exhausted  BY <1>1, <2>5 DEF allocate_handle, IsBackend
    <3> QED  BY <3>1 DEF Used
  <2> QED  BY <2>2, <2>3, <2>4, <2>5
<1> HIDE DEF n
<1>6. Held(n) = Held(b) /\ \A k : Record(n, k) = Record(b, k)
  BY <1>3 DEF Held, Record
<1>7. Records(n) = Records(b)  BY <1>6 DEF Records
<1>8. Accounted(n)  BY <1>3, <1>6, <1>7 DEF Sound, Accounted
<1>9. Sound(n)  BY <1>3, <1>4, <1>6, <1>8 DEF Sound, Filed
<1>10. Follows(b, n)  BY <1>3, <1>5, <1>6 DEF Follows
<1> QED  BY <1>3, <1>9, <1>10 DEF n

\* The counters name a key that was not handed out yet, and hand it out.
LEMMA FreshIsNew ==
    ASSUME NEW b, IsBackend(b), ~b.exhausted
    PROVE  /\ Fresh(b) \in Keys
           /\ ~Used(b, Fresh(b))
           /\ Used(allocate_handle(b), Fresh(b))
<1> DEFINE n == allocate_handle(b)
<1>1. {MaxId, MaxGeneration} \subseteq Nat \ {0}  BY VulkanAssumption
<1>2. b.next \in 1 .. MaxId /\ b.generation \in 1 .. MaxGeneration  BY DEF IsBackend
<1>3. Fresh(b) \in Keys /\ Fresh(b)[1] = b.generation /\ Fresh(b)[2] = b.next
  BY <1>2 DEF Fresh, Keys
<1>4. ~Used(b, Fresh(b))  BY <1>1, <1>2, <1>3 DEF Used
<1>5. Used(n, Fresh(b))
  <2>1. CASE b.next < MaxId
    <3>1. n.next = b.next + 1 /\ n.generation = b.generation
      BY <2>1 DEF allocate_handle, IsBackend
    <3> HIDE DEF n
    <3> QED  BY <1>1, <1>2, <1>3, <3>1 DEF Used
  <2>2. CASE ~(b.next < MaxId) /\ b.generation < MaxGeneration
    <3>1. n.next = 1 /\ n.generation = b.generation + 1
      BY <2>2 DEF allocate_handle, IsBackend
    <3> HIDE DEF n
    <3> QED  BY <1>1, <1>2, <1>3, <3>1 DEF Used
  <2>3. CASE ~(b.next < MaxId) /\ ~(b.generation < MaxGeneration)
    <3>1. n.exhausted  BY <2>3 DEF allocate_handle, IsBackend
    <3> QED  BY <3>1 DEF Used
  <2> QED  BY <2>1, <2>2, <2>3
<1> QED  BY <1>3, <1>4, <1>5

\* The backend with one more submission.
Added(b, k, batch) ==
    [b EXCEPT !.submissions = With(@, k, into_stored(batch)),
              !.bytes = @ + batch.payload,
              !.secrets = IF batch.zeroize THEN @ \cup {k} ELSE @]

LEMMA AddedIsSound ==
    ASSUME NEW b, Sound(b), NEW k \in Keys, k \notin Held(b), NEW batch \in Batches,
           b.bytes + batch.payload =< MaxAllocation,
           active_gpu_resource_count(b) < MaxPending,
           NEW n, n = Added(b, k, batch)
    PROVE  /\ IsBackend(n) /\ Accounted(n)
           /\ DOMAIN n.submissions = DOMAIN b.submissions \cup {k}
           /\ \A x \in DOMAIN b.submissions : n.submissions[x] = b.submissions[x]
           /\ ~n.submissions[k].completed
           /\ Held(n) = Held(b) \cup {k}
           /\ n.secrets \subseteq b.secrets \cup {k}
           /\ n.results = b.results /\ n.order = b.order /\ n.device = b.device
           /\ n.state = b.state /\ n.next = b.next /\ n.generation = b.generation
           /\ n.exhausted = b.exhausted
<1> DEFINE s == into_stored(batch)
<1>1. /\ IsBackend(b) /\ Accounted(b) /\ b.submissions \in Tables(Stored)
      /\ k \notin DOMAIN b.submissions /\ k \notin DOMAIN b.quarantined
      /\ b.bytes \in Nat /\ IsFiniteSet(Held(b))
  BY BackendParts DEF Sound, Held
<1>2. batch.payload \in Nat /\ batch.zeroize \in BOOLEAN
  BY VulkanAssumption
<1>3. s \in Stored /\ s.size = batch.payload /\ ~s.completed
  BY <1>2 DEF into_stored, Stored
<1>4. /\ n.submissions = With(b.submissions, k, s) /\ n.quarantined = b.quarantined
      /\ n.bytes = b.bytes + batch.payload
      /\ n.secrets = (IF batch.zeroize THEN b.secrets \cup {k} ELSE b.secrets)
      /\ n.results = b.results /\ n.order = b.order /\ n.device = b.device
      /\ n.state = b.state /\ n.next = b.next /\ n.generation = b.generation
      /\ n.exhausted = b.exhausted
  BY <1>1 DEF IsBackend, Added
<1>5. n = [b EXCEPT !.submissions = n.submissions, !.bytes = n.bytes, !.secrets = n.secrets]
  BY <1>1 DEF IsBackend, Added
<1> HIDE DEF s
<1>6. /\ n.submissions \in Tables(Stored)
      /\ DOMAIN n.submissions = DOMAIN b.submissions \cup {k}
      /\ \A x \in DOMAIN b.submissions \cup {k} :
             n.submissions[x] = IF x = k THEN s ELSE b.submissions[x]
  <2> DEFINE f == b.submissions
  <2>1. f \in Tables(Stored)  BY <1>1
  <2> HIDE DEF f
  <2>2. /\ With(f, k, s) \in Tables(Stored) /\ DOMAIN With(f, k, s) = DOMAIN f \cup {k}
        /\ \A x \in DOMAIN f \cup {k} : With(f, k, s)[x] = IF x = k THEN s ELSE f[x]
    BY <1>3, <2>1, TableWith
  <2> QED  BY <1>4, <2>2 DEF f
<1>7. n.bytes \in Nat /\ n.secrets \in SUBSET Keys
  BY <1>1, <1>2, <1>4 DEF IsBackend
<1>8. IsBackend(n)  BY <1>1, <1>5, <1>6, <1>7 DEF IsBackend
<1>9. Held(n) = Held(b) \cup {k}  BY <1>4, <1>6 DEF Held
<1>10. DOMAIN n.submissions \cap DOMAIN n.quarantined = {}
  BY <1>1, <1>4, <1>6 DEF Accounted
<1>11. n.bytes = SizeOf(Records(n), Held(n))
  <2>1. Records(n)[k] = s  BY <1>6, <1>9 DEF Records, Record
  <2>2. \A x \in Held(b) : Records(n)[x].size = Records(b)[x].size
    BY <1>1, <1>4, <1>6, <1>9 DEF Records, Record
  <2>3. IsFiniteSet(Held(n)) /\ \A x \in Held(n) : Records(n)[x].size \in Nat
    BY <1>8, BackendParts DEF Records
  <2>4. k \in Held(n) /\ Held(n) \ {k} = Held(b)  BY <1>9
  <2>5. SizeOf(Records(n), Held(n)) = Records(n)[k].size + SizeOf(Records(n), Held(n) \ {k})
    BY <2>3, <2>4, SizeOfRemove
  <2>6. SizeOf(Records(n), Held(b)) = SizeOf(Records(b), Held(b))
    BY <1>1, <2>2, SizeOfSame
  <2>7. SizeOf(Records(n), Held(n) \ {k}) = b.bytes
    <3>1. SizeOf(Records(n), Held(n) \ {k}) = SizeOf(Records(n), Held(b))  BY <2>4
    <3> QED  BY <1>1, <2>6, <3>1 DEF Accounted
  <2> QED  BY <1>1, <1>2, <1>3, <1>4, <2>1, <2>5, <2>7
<1>12. Cardinality(Held(n)) =< MaxPending
  <2>1. IsFiniteSet(DOMAIN b.submissions) /\ IsFiniteSet(DOMAIN b.quarantined)
    BY <1>1, BackendParts, KeysAreFinite
  <2>2. DOMAIN b.submissions \cap DOMAIN b.quarantined = {}  BY <1>1 DEF Accounted
  <2>3. Cardinality(Held(b)) = active_gpu_resource_count(b)
    <3>1. Cardinality(Held(b)) = Cardinality(DOMAIN b.submissions) + Cardinality(DOMAIN b.quarantined)
              - Cardinality(DOMAIN b.submissions \cap DOMAIN b.quarantined)
      BY <2>1, FS_Union DEF Held
    <3>2. Cardinality(DOMAIN b.submissions \cap DOMAIN b.quarantined) = 0
      BY <2>2, FS_EmptySet
    <3>3. Cardinality(DOMAIN b.submissions) \in Nat /\ Cardinality(DOMAIN b.quarantined) \in Nat
      BY <2>1, FS_CardinalityType
    <3> QED  BY <3>1, <3>2, <3>3 DEF active_gpu_resource_count
  <2>4. Cardinality(Held(b) \cup {k}) = Cardinality(Held(b)) + 1 /\ Cardinality(Held(b)) \in Nat
    BY <1>1, FS_AddElement, FS_CardinalityType
  <2>5. Cardinality(Held(n)) = Cardinality(Held(b)) + 1  BY <1>9, <2>4
  <2> QED  BY <2>3, <2>4, <2>5, VulkanAssumption
<1>13. Accounted(n)  BY <1>4, <1>10, <1>11, <1>12 DEF Accounted
<1>14. /\ n.submissions[k] = s
       /\ \A x \in DOMAIN b.submissions : n.submissions[x] = b.submissions[x]
  BY <1>1, <1>6
<1>15. n.secrets \subseteq b.secrets \cup {k}  BY <1>4
<1> QED  BY <1>3, <1>4, <1>6, <1>8, <1>9, <1>13, <1>14, <1>15

-----------------------------------------------------------------------------
(* Steps *)

LEMMA SignaledIsDone ==
    ASSUME NEW seen \in Observations, NEW k \in Held(backend), seen[k] = "signaled"
    PROVE  gpu[k] = "done"
BY DEF Observations, FenceStatus

\* What the invariant says of a backend that is alive.
LEMMA AliveParts ==
    ASSUME VulkanInv, Alive
    PROVE  /\ Sound(backend) /\ RunningIsHeld /\ KeysInv /\ VerdictInv
           /\ None \notin Keys
           /\ \A c \in Callers : handle[c] \in Keys \cup {None}
BY KeysAreFinite DEF VulkanInv

LEMMA StepKeepsMemory ==
    ASSUME VulkanInv, Alive, Sound(backend'), Follows(backend, backend'),
           gpu' = gpu, lost => lost',
           \A c \in Callers : handle'[c] # None => \E d \in Callers : handle'[c] = handle[d]
    PROVE  Alive' /\ Sound(backend)' /\ RunningIsHeld' /\ KeysInv'
<1> USE AliveParts
<1>1. Alive'  BY DEF Alive, Follows
<1>2. Sound(backend)'  BY DEF Sound, Filed, Accounted, IsBackend
<1>3. RunningIsHeld'  BY DEF RunningIsHeld, Follows
<1>4. KeysInv'
  <2>1. \A k \in Keys : gpu[k] # "none" => Used(backend', k)  BY DEF KeysInv, Follows
  <2>2. \A k \in Held(backend') \cup DOMAIN backend'.results : gpu[k] # "none"
    <3>1. DOMAIN backend'.results \subseteq DOMAIN backend.results \cup Held(backend)
      BY DEF Follows, Held
    <3>2. Held(backend') \subseteq Held(backend)  BY DEF Follows
    <3> QED  BY <3>1, <3>2 DEF KeysInv
  <2>3. \A c \in Callers : handle'[c] # None => gpu[handle'[c]] # "none"
    BY DEF KeysInv
  <2> QED  BY <2>1, <2>2, <2>3 DEF KeysInv
<1> QED  BY <1>1, <1>2, <1>3, <1>4

\* A task that was told nothing new, or gave its handle up, or waits anew.
LEMMA StepKeepsVerdicts ==
    ASSUME VulkanInv, Alive, Follows(backend, backend'),
           \A c \in Callers :
               \/ handle'[c] = handle[c] /\ answer'[c] = answer[c]
               \/ answer'[c] \in {None, "SubmissionRejected"},
           \A c \in Callers :
               pc'[c] = "completed" /\ handle'[c] \in DOMAIN backend'.submissions =>
                   backend'.submissions[handle'[c]].completed
    PROVE  VerdictInv'
<1> USE AliveParts
<1>1. None \notin Reasons \cup {"Vulkan"} /\ "SubmissionRejected" \notin Reasons \cup {"Vulkan"}
  BY VulkanAssumption DEF Reasons
<1>2. ASSUME NEW c \in Callers, answer'[c] \in Reasons \cup {"Vulkan"}
      PROVE  /\ handle'[c] = handle[c] /\ answer'[c] = answer[c]
             /\ handle'[c] \notin DOMAIN backend'.submissions
             /\ answer'[c] = "Vulkan" => handle'[c] \notin DOMAIN backend'.results
  <2>1. handle'[c] = handle[c] /\ answer'[c] = answer[c]  BY <1>1, <1>2
  <2>2. handle[c] \notin DOMAIN backend.submissions  BY <1>2, <2>1 DEF VerdictInv
  <2>3. answer[c] = "Vulkan" => handle[c] \notin DOMAIN backend.results  BY DEF VerdictInv
  <2> QED  BY <2>1, <2>2, <2>3 DEF Follows
<1>3. OneVerdict'
  <2> SUFFICES ASSUME NEW c \in Callers, NEW d \in Callers,
                      c # d, handle'[c] = handle'[d], handle'[c] # None, answer'[c] = "Vulkan"
               PROVE  answer'[d] \in {None, "SubmissionRejected"}
    BY DEF OneVerdict
  <2>1. handle'[c] = handle[c] /\ answer[c] = "Vulkan"  BY <1>2
  <2>2. CASE handle'[d] = handle[d] /\ answer'[d] = answer[d]
    BY <2>1, <2>2 DEF VerdictInv, OneVerdict
  <2> QED  BY <2>2
<1> QED  BY <1>2, <1>3 DEF VerdictInv

\* What the tasks are in stays what it is when an action moves one of them.

LEMMA EmptyTable == <<>> \in Seq(Keys) /\ \A S : <<>> \in Tables(S)
<1>1. \A S : <<>> \in [{} -> S]  OBVIOUS
<1>2. \A S : <<>> \in Tables(S)  BY <1>1 DEF Tables
<1> QED  BY <1>2

LEMMA InitHolds == Init => VulkanInv
<1> SUFFICES ASSUME Init  PROVE VulkanInv  OBVIOUS
<1>1. /\ backend.state = "Uninitialized" /\ backend.submissions = <<>>
      /\ backend.quarantined = <<>> /\ backend.results = <<>> /\ backend.order = <<>>
      /\ backend.bytes = 0 /\ backend.secrets = {}
  BY DEF Init
<1>3. 1 \in 1 .. MaxId /\ 1 \in 1 .. MaxGeneration
  BY VulkanAssumption
<1>4. IsBackend(backend)
  <2>2. PICK e \in BOOLEAN :
            backend = [enabled |-> e, state |-> "Uninitialized", device |-> FALSE,
                       next |-> 1, generation |-> 1, exhausted |-> FALSE,
                       submissions |-> <<>>, quarantined |-> <<>>,
                       results |-> <<>>, order |-> <<>>, bytes |-> 0, secrets |-> {}]
    BY DEF Init
  <2> DEFINE none == <<>>
             nothing == {}
  <2>3. /\ none \in Tables(Stored) /\ none \in Tables(Quarantined)
        /\ none \in Tables(Reasons) /\ none \in Seq(Keys) /\ nothing \in SUBSET Keys
    BY EmptyTable
  <2> HIDE DEF none, nothing
  <2>4. [enabled |-> e, state |-> "Uninitialized", device |-> FALSE,
         next |-> 1, generation |-> 1, exhausted |-> FALSE,
         submissions |-> none, quarantined |-> none,
         results |-> none, order |-> none, bytes |-> 0, secrets |-> nothing]
        \in [enabled : BOOLEAN, device : BOOLEAN, exhausted : BOOLEAN,
             state : {"Uninitialized", "Ready", "Disabled", "Faulted", "Dropped"},
             next : 1 .. MaxId, generation : 1 .. MaxGeneration,
             submissions : Tables(Stored), quarantined : Tables(Quarantined),
             results : Tables(Reasons), order : Seq(Keys),
             bytes : Nat, secrets : SUBSET Keys]
    BY <1>3, <2>3
  <2> QED  BY <2>2, <2>4 DEF IsBackend, none, nothing
<1>5. Held(backend) = {}  BY <1>1 DEF Held
<1>6. Accounted(backend)
  <2>1. SizeOf(Records(backend), Held(backend)) = 0  BY <1>5, SizeOfEmpty
  <2>2. Cardinality(Held(backend)) = 0  BY <1>5, FS_EmptySet
  <2> QED  BY <1>1, <2>1, <2>2, VulkanAssumption DEF Accounted
<1>7. Filed(backend)  BY <1>1, VulkanAssumption DEF Filed, ToSet, IsInjective
<1>8. Sound(backend)  BY <1>1, <1>4, <1>5, <1>6, <1>7 DEF Sound
<1>9. Alive  BY <1>1 DEF Alive
<1>10. RunningIsHeld /\ KeysInv  BY <1>1, <1>5 DEF Init, RunningIsHeld, KeysInv
<1>11. VerdictInv
  BY <1>1, VulkanAssumption DEF Init, VerdictInv, OneVerdict, Reasons
<1> QED  BY <1>8, <1>9, <1>10, <1>11 DEF VulkanInv, Init

-----------------------------------------------------------------------------
(* The actions *)

\* Only submit_batch makes a submission pending.
AddsNothing == DOMAIN backend'.submissions \subseteq DOMAIN backend.submissions

LEMMA initializeHolds == VulkanInv /\ initialize => VulkanInv' /\ AddsNothing
<1> SUFFICES ASSUME VulkanInv, initialize  PROVE VulkanInv' /\ AddsNothing  OBVIOUS
<1>1. Alive  BY DEF initialize, Alive
<1>2. /\ UNCHANGED <<gpu, lost, pc, handle, answer>>
      /\ \/ backend' = commit(backend) \/ backend' = mark_faulted(backend)
         \/ backend' = [backend EXCEPT !.state = "Disabled"]
  BY DEF initialize, try_init, device, tasks
<1>3. Sound(backend)  BY <1>1, AliveParts
<1>4. /\ IsBackend(backend') /\ backend'.state # "Dropped"
      /\ backend'.submissions = backend.submissions /\ backend'.quarantined = backend.quarantined
      /\ backend'.results = backend.results /\ backend'.order = backend.order
      /\ backend'.bytes = backend.bytes /\ backend'.secrets = backend.secrets
      /\ backend'.next = backend.next /\ backend'.generation = backend.generation
      /\ backend'.exhausted = backend.exhausted
      /\ backend'.device = backend.device \/ backend'.device = TRUE
  BY <1>2, <1>3 DEF Sound, IsBackend, commit, mark_faulted
<1>5. Held(backend') = Held(backend) /\ \A k : Record(backend', k) = Record(backend, k)
  BY <1>4 DEF Held, Record
<1>6. Records(backend') = Records(backend)  BY <1>5 DEF Records
<1>7. Accounted(backend')  BY <1>3, <1>4, <1>5, <1>6 DEF Sound, Accounted
<1>8. Sound(backend')  BY <1>3, <1>4, <1>5, <1>7 DEF Sound, Filed
<1>9. Follows(backend, backend')  BY <1>4, <1>5 DEF Follows, Used
<1>10. Alive' /\ Sound(backend)' /\ RunningIsHeld' /\ KeysInv'
  BY <1>1, <1>2, <1>8, <1>9, StepKeepsMemory
<1>11. VerdictInv'
  BY <1>1, <1>2, <1>4, <1>9, AliveParts, StepKeepsVerdicts DEF VerdictInv
<1> QED  BY <1>2, <1>4, <1>10, <1>11 DEF VulkanInv, AddsNothing

LEMMA metricsHolds == VulkanInv /\ metrics => VulkanInv' /\ AddsNothing
<1> SUFFICES ASSUME VulkanInv, metrics  PROVE VulkanInv' /\ AddsNothing  OBVIOUS
<1>1. Alive /\ UNCHANGED <<gpu, lost, pc, handle, answer>>
  BY DEF metrics, device, tasks
<1>2. PICK seen \in Observations, unmapped \in Unmappable :
          backend' = reap_quarantined(backend, seen, unmapped)
  BY DEF metrics
<1>3. Sound(backend) /\ \A k \in Held(backend) : seen[k] = "signaled" => gpu[k] = "done"
  BY <1>1, AliveParts, SignaledIsDone
<1>4. /\ Sound(backend') /\ Follows(backend, backend')
      /\ backend'.submissions = backend.submissions
  BY <1>2, <1>3, ReapedIsSound
<1>5. Alive' /\ Sound(backend)' /\ RunningIsHeld' /\ KeysInv'
  BY <1>1, <1>4, StepKeepsMemory
<1>6. VerdictInv'
  BY <1>1, <1>4, AliveParts, StepKeepsVerdicts DEF VerdictInv
<1> QED  BY <1>1, <1>4, <1>5, <1>6 DEF VulkanInv, AddsNothing

LEMMA DropHolds == VulkanInv /\ Drop => VulkanInv' /\ AddsNothing
<1> SUFFICES ASSUME VulkanInv, Drop  PROVE VulkanInv' /\ AddsNothing  OBVIOUS
<1>1. /\ Alive /\ UNCHANGED <<gpu, lost, pc, handle, answer>>
      /\ \A c \in Callers : pc[c] = "idle"
      /\ backend.device => lost \/ \A k \in Keys : gpu[k] # "running"
  BY DEF Drop, device, tasks
<1>2. Sound(backend) /\ IsBackend(backend) /\ RunningIsHeld /\ KeysInv /\ VerdictInv
  BY <1>1, AliveParts DEF Sound
<1>3. /\ backend'.state = "Dropped" /\ backend'.submissions = <<>>
      /\ backend'.quarantined = <<>> /\ backend'.results = <<>> /\ backend'.order = <<>>
      /\ backend'.next = backend.next /\ backend'.generation = backend.generation
      /\ backend'.exhausted = backend.exhausted
  BY <1>2 DEF Drop, IsBackend
<1>4. IsBackend(backend')
  <2> DEFINE none == <<>>
  <2>2. /\ none \in Tables(Stored) /\ none \in Tables(Quarantined)
        /\ none \in Tables(Reasons) /\ none \in Seq(Keys)
    BY EmptyTable
  <2>3. backend' = [backend EXCEPT !.state = "Dropped", !.submissions = none,
                        !.quarantined = none, !.results = none, !.order = none]
    BY DEF Drop
  <2> HIDE DEF none
  <2> QED  BY <1>2, <2>2, <2>3 DEF IsBackend
<1>5. Held(backend') = {} /\ DOMAIN backend'.results = {} /\ DOMAIN backend'.submissions = {}
  BY <1>3 DEF Held
<1>6. Filed(backend')  BY <1>3, VulkanAssumption DEF Filed, ToSet, IsInjective
<1>7. ~Alive' /\ Gone(backend)'
  <2>1. Gone(backend')  BY <1>4, <1>5, <1>6 DEF Gone
  <2> QED  BY <1>3, <2>1 DEF Alive, Gone, IsBackend, Filed, Held
<1>8. RunningIsHeld'
  BY <1>1, <1>2 DEF RunningIsHeld, Sound
<1>9. KeysInv'  BY <1>1, <1>2, <1>3, <1>5 DEF KeysInv, Used
<1>10. VerdictInv'  BY <1>1, <1>2, <1>5 DEF VerdictInv, OneVerdict
<1> QED  BY <1>1, <1>5, <1>7, <1>8, <1>9, <1>10 DEF VulkanInv, AddsNothing

LEMMA LoseHolds == VulkanInv /\ Lose => VulkanInv' /\ AddsNothing
<1> SUFFICES ASSUME VulkanInv, Lose  PROVE VulkanInv' /\ AddsNothing  OBVIOUS
<1>1. lost' /\ UNCHANGED <<backend, gpu, pc, handle, answer>>  BY DEF Lose, tasks
<1>2. RunningIsHeld'  BY <1>1 DEF RunningIsHeld
<1>3. KeysInv' /\ VerdictInv'  BY <1>1 DEF VulkanInv, KeysInv, VerdictInv, OneVerdict
<1>4. /\ Alive' <=> Alive
      /\ Sound(backend) => Sound(backend)'
      /\ Gone(backend) => Gone(backend)'
  BY <1>1 DEF Alive, Sound, Gone, IsBackend, Accounted, Filed, Held
<1> QED  BY <1>1, <1>2, <1>3, <1>4 DEF VulkanInv, AddsNothing

LEMMA SignalHolds ==
    ASSUME VulkanInv, NEW k \in Keys, Signal(k)  PROVE VulkanInv' /\ AddsNothing
<1>1. /\ gpu[k] = "running" /\ gpu' = [gpu EXCEPT ![k] = "done"]
      /\ UNCHANGED <<backend, lost, pc, handle, answer>>
  BY DEF Signal, tasks
<1>2. gpu' \in [Keys -> {"none", "running", "done"}]
      /\ \A x \in Keys : gpu'[x] = IF x = k THEN "done" ELSE gpu[x]
  BY <1>1 DEF VulkanInv
<1>3. RunningIsHeld'  BY <1>1, <1>2 DEF VulkanInv, RunningIsHeld
<1>4. Sound(backend) \/ Gone(backend)  BY DEF VulkanInv
<1>5. IsBackend(backend) /\ Held(backend) \subseteq Keys /\ DOMAIN backend.results \subseteq Keys
      /\ DOMAIN backend.submissions \subseteq Keys
  BY <1>4, BackendParts DEF Sound, Gone
<1>6. KeysInv'
  <2>1. \A x \in Keys : gpu'[x] # "none" <=> gpu[x] # "none"  BY <1>1, <1>2
  <2>2. \A c \in Callers : handle[c] # None => handle[c] \in Keys  BY DEF VulkanInv
  <2> QED  BY <1>1, <1>5, <2>1, <2>2 DEF VulkanInv, KeysInv
<1>7. VerdictInv'  BY <1>1 DEF VulkanInv, VerdictInv, OneVerdict
<1>8. Gone(backend) => Gone(backend)'  BY <1>1 DEF Gone, IsBackend, Filed, Held
<1>9. Sound(backend) => Sound(backend)'
  <2>1. ASSUME Sound(backend)  PROVE Sound(backend)'
    <3>1. \A x \in DOMAIN backend.submissions :
              backend.submissions[x].completed => gpu'[x] = "done"
      BY <1>2, <1>5, <2>1 DEF Sound
    <3> QED  BY <1>1, <2>1, <3>1 DEF Sound, IsBackend, Accounted, Filed, Held
  <2> QED  BY <2>1
<1> QED  BY <1>1, <1>2, <1>3, <1>6, <1>7, <1>8, <1>9 DEF VulkanInv, Alive, AddsNothing

LEMMA ExpireHolds ==
    ASSUME VulkanInv, NEW k \in Keys, Expire(k)  PROVE VulkanInv' /\ AddsNothing
<1>1. /\ k \in DOMAIN backend.submissions /\ ~backend.submissions[k].completed
      /\ backend' = [backend EXCEPT !.submissions[k].due = TRUE]
      /\ UNCHANGED <<gpu, lost, pc, handle, answer>>
  BY DEF Expire, device, tasks
<1>2. Alive  BY <1>1 DEF VulkanInv, Gone, Held
<1>3. Sound(backend) /\ VerdictInv  BY <1>2, AliveParts
<1> DEFINE s == [backend.submissions[k] EXCEPT !.due = TRUE]
<1>4. /\ s \in Stored /\ s.size = backend.submissions[k].size /\ ~s.completed
  <2>1. backend.submissions[k] \in Stored  BY <1>1, <1>3, BackendParts DEF Sound
  <2> QED  BY <1>1, <2>1 DEF Stored
<1>5. backend' = [backend EXCEPT !.submissions = [@ EXCEPT ![k] = s]]  BY <1>1
<1> HIDE DEF s
<1>6. /\ Sound(backend') /\ Follows(backend, backend')
      /\ DOMAIN backend'.submissions = DOMAIN backend.submissions
  <2> DEFINE n == backend'
  <2>1. n = [backend EXCEPT !.submissions = [@ EXCEPT ![k] = s]]  BY <1>5
  <2>2. (backend.submissions[k].completed => s.completed) /\ (s.completed => gpu[k] = "done")
    BY <1>1, <1>4
  <2> HIDE DEF n
  <2>3. /\ Sound(n) /\ Follows(backend, n)
        /\ DOMAIN n.submissions = DOMAIN backend.submissions
    BY <1>1, <1>3, <1>4, <2>1, <2>2, MarkedIsSound
  <2> QED  BY <2>3 DEF n
<1>7. Alive' /\ Sound(backend)' /\ RunningIsHeld' /\ KeysInv'
  BY <1>1, <1>2, <1>6, StepKeepsMemory
<1>8. VerdictInv'
  <2>1. ASSUME NEW c \in Callers, pc'[c] = "completed", handle'[c] \in DOMAIN backend'.submissions
        PROVE  backend'.submissions[handle'[c]].completed
    BY <1>1, <1>3, <1>6, <2>1 DEF VerdictInv, Follows
  <2> QED  BY <1>1, <1>2, <1>6, <2>1, StepKeepsVerdicts
<1> QED  BY <1>1, <1>6, <1>7, <1>8 DEF VulkanInv, AddsNothing

LEMMA ReleaseIs ==
    ASSUME NEW b, IsBackend(b), NEW k \in DOMAIN b.submissions, NEW unmapped
    PROVE  release_gpu_submission([b EXCEPT !.submissions = Without(@, {k})],
                                  k, b.submissions[k], unmapped)
               \in {mark_faulted(Moved(b, k)), Freed(b, k)}
<1> DEFINE removed == [b EXCEPT !.submissions = Without(@, {k})]
           s == b.submissions[k]
<1>1. [removed EXCEPT !.quarantined = With(@, k, Kept(s))] = Moved(b, k)
  BY DEF IsBackend, Moved
<1>2. [removed EXCEPT !.bytes = SaturatingSub(@, s.size), !.secrets = @ \ {k}] = Freed(b, k)
  BY DEF IsBackend, Freed
<1> HIDE DEF removed, s
<1>3. release_gpu_submission(removed, k, s, unmapped)
          \in {mark_faulted(Moved(b, k)), Freed(b, k)}
  BY <1>1, <1>2 DEF release_gpu_submission
<1> QED  BY <1>3 DEF removed, s

LEMMA PolledIsSound ==
    ASSUME NEW b, Sound(b), NEW k, NEW status,
           status = "signaled" /\ k \in DOMAIN b.submissions => gpu[k] = "done",
           NEW p, p = poll_completion(b, k, status)
    PROVE  /\ Sound(p[1]) /\ Follows(b, p[1])
           /\ p[2] \in {"waiting", "completed", "terminal"}
           /\ p[2] = "completed" /\ k \in DOMAIN p[1].submissions =>
                  p[1].submissions[k].completed
<1> DEFINE Gave(reason) == mark_faulted(terminalize_submission(b, k, reason))
<1>1. CASE k \in DOMAIN b.results \/ k \notin DOMAIN b.submissions
  <2>1. p = <<b, "terminal">>  BY <1>1 DEF poll_completion
  <2>2. p[1] = b /\ p[2] = "terminal"  BY <2>1
  <2> QED  BY <2>2, FollowsReflexive
<1> SUFFICES ASSUME k \notin DOMAIN b.results, k \in DOMAIN b.submissions
             PROVE  /\ Sound(p[1]) /\ Follows(b, p[1])
                    /\ p[2] \in {"waiting", "completed", "terminal"}
                    /\ p[2] = "completed" /\ k \in DOMAIN p[1].submissions =>
                           p[1].submissions[k].completed
  BY <1>1
<1>2. CASE b.submissions[k].completed
  <2>1. p = <<b, "completed">>  BY <1>2 DEF poll_completion
  <2>2. p[1] = b /\ p[2] = "completed"  BY <2>1
  <2> QED  BY <1>2, <2>2, FollowsReflexive
<1>3. ASSUME NEW reason \in Reasons, p = <<Gave(reason), "terminal">>
      PROVE  Sound(p[1]) /\ Follows(b, p[1]) /\ p[2] = "terminal"
  <2> DEFINE m == terminalize_submission(b, k, reason)
  <2>1. Sound(m) /\ Follows(b, m)  BY TerminalizedIsSound
  <2>2. p[1] = mark_faulted(m) /\ p[2] = "terminal"  BY <1>3
  <2> HIDE DEF m
  <2>3. Sound(mark_faulted(m)) /\ Follows(m, mark_faulted(m))  BY <2>1, FaultedIsSound
  <2>4. Follows(b, mark_faulted(m))  BY <2>1, <2>3, FollowsTransitive
  <2> QED  BY <2>2, <2>3, <2>4
<1>4. CASE ~b.submissions[k].completed /\ status = "error"
  <2>1. p = <<Gave("DriverUnavailable"), "terminal">>  BY <1>4 DEF poll_completion
  <2>2. "DriverUnavailable" \in Reasons  BY DEF Reasons
  <2> HIDE DEF Gave
  <2>3. Sound(p[1]) /\ Follows(b, p[1]) /\ p[2] = "terminal"  BY <1>3, <2>1, <2>2
  <2> QED  BY <2>3
<1>5. CASE ~b.submissions[k].completed /\ status = "signaled"
  <2> DEFINE s == [b.submissions[k] EXCEPT !.completed = TRUE]
             n == [b EXCEPT !.submissions[k].completed = TRUE]
  <2>1. p = <<n, "completed">>  BY <1>5 DEF poll_completion
  <2>2. p[1] = n /\ p[2] = "completed"  BY <2>1
  <2>3. n = [b EXCEPT !.submissions = [@ EXCEPT ![k] = s]]  OBVIOUS
  <2>4. s \in Stored /\ s.size = b.submissions[k].size /\ s.completed
    <3>1. b.submissions[k] \in Stored  BY BackendParts DEF Sound
    <3> QED  BY <3>1 DEF Stored
  <2>5. gpu[k] = "done"  BY <1>5
  <2> HIDE DEF s, n
  <2>6. Sound(n) /\ Follows(b, n) /\ n.submissions[k] = s
    BY <2>3, <2>4, <2>5, MarkedIsSound
  <2> QED  BY <2>2, <2>4, <2>6
<1>6. CASE ~b.submissions[k].completed /\ status \notin {"error", "signaled"}
  <2>1. CASE b.submissions[k].due
    <3>1. p = <<Gave("Timeout"), "terminal">>  BY <1>6, <2>1 DEF poll_completion
    <3>2. "Timeout" \in Reasons  BY DEF Reasons
    <3> HIDE DEF Gave
    <3>3. Sound(p[1]) /\ Follows(b, p[1]) /\ p[2] = "terminal"  BY <1>3, <3>1, <3>2
    <3> QED  BY <3>3
  <2>2. CASE ~b.submissions[k].due
    <3>1. p = <<b, "waiting">>  BY <1>6, <2>2 DEF poll_completion
    <3>2. p[1] = b /\ p[2] = "waiting"  BY <3>1
    <3> QED  BY <3>2, FollowsReflexive
  <2> QED  BY <2>1, <2>2
<1> QED  BY <1>2, <1>4, <1>5, <1>6

\* A task that waits, or has been told, uses a backend that is alive.
LEMMA BusyIsAlive ==
    ASSUME VulkanInv, NEW c \in Callers, pc[c] # "idle"
    PROVE  Alive
BY DEF VulkanInv

LEMMA PollHolds ==
    ASSUME VulkanInv, NEW c \in Callers, Poll(c)  PROVE VulkanInv' /\ AddsNothing
<1> DEFINE k == handle[c]
<1>1. /\ Alive /\ pc[c] = "waiting" /\ UNCHANGED <<gpu, lost, handle, answer>>
  BY BusyIsAlive DEF Poll, device
<1>2. PICK seen \in Observations, unmapped \in Unmappable :
          LET b == reap_quarantined(backend, seen, unmapped)
              polled == poll_completion(b, k, IF k \in Held(backend) THEN seen[k] ELSE "error")
          IN  backend' = polled[1] /\ pc' = [pc EXCEPT ![c] = polled[2]]
  BY DEF Poll
<1> DEFINE b == reap_quarantined(backend, seen, unmapped)
           status == IF k \in Held(backend) THEN seen[k] ELSE "error"
           p == poll_completion(b, k, status)
<1>3. backend' = p[1] /\ pc' = [pc EXCEPT ![c] = p[2]]  BY <1>2
<1>4. /\ Sound(backend) /\ VerdictInv
      /\ \A x \in Held(backend) : seen[x] = "signaled" => gpu[x] = "done"
  BY <1>1, AliveParts, SignaledIsDone
<1>5. Sound(b) /\ Follows(backend, b) /\ b.submissions = backend.submissions
  BY <1>4, ReapedIsSound
<1>6. status = "signaled" => gpu[k] = "done"  BY <1>4
<1> HIDE DEF b, status
<1>7. /\ Sound(p[1]) /\ Follows(b, p[1])
      /\ p[2] \in {"waiting", "completed", "terminal"}
      /\ p[2] = "completed" /\ k \in DOMAIN p[1].submissions => p[1].submissions[k].completed
  <2> DEFINE q == poll_completion(b, k, status)
  <2>1. q = poll_completion(b, k, status)  OBVIOUS
  <2> HIDE DEF q
  <2>2. /\ Sound(q[1]) /\ Follows(b, q[1])
        /\ q[2] \in {"waiting", "completed", "terminal"}
        /\ q[2] = "completed" /\ k \in DOMAIN q[1].submissions => q[1].submissions[k].completed
    BY <1>5, <1>6, <2>1, PolledIsSound
  <2> QED  BY <2>2 DEF q
<1> HIDE DEF p
<1>8. Sound(backend') /\ Follows(backend, backend')
  BY <1>3, <1>5, <1>7, FollowsTransitive
<1>9. Alive' /\ Sound(backend)' /\ RunningIsHeld' /\ KeysInv'
  BY <1>1, <1>8, StepKeepsMemory
<1>10. VerdictInv'
  <2>1. ASSUME NEW d \in Callers, pc'[d] = "completed", handle'[d] \in DOMAIN backend'.submissions
        PROVE  backend'.submissions[handle'[d]].completed
    <3>1. CASE d = c
      <4>1. p[2] = "completed"  BY <1>3, <2>1, <3>1 DEF VulkanInv
      <4> QED  BY <1>1, <1>3, <1>7, <2>1, <3>1, <4>1
    <3>2. CASE d # c
      <4>1. pc[d] = "completed" /\ handle[d] \in DOMAIN backend'.submissions
        BY <1>1, <1>3, <2>1, <3>2 DEF VulkanInv
      <4> QED  BY <1>1, <1>4, <1>8, <4>1 DEF VerdictInv, Follows
    <3> QED  BY <3>1, <3>2
  <2> QED  BY <1>1, <1>8, <2>1, StepKeepsVerdicts
<1>11. pc' \in [Callers -> {"idle", "waiting", "completed", "terminal"}]
  BY <1>3, <1>7 DEF VulkanInv
<1> QED  BY <1>1, <1>8, <1>9, <1>10, <1>11 DEF VulkanInv, Follows, AddsNothing

LEMMA ShareHolds ==
    ASSUME VulkanInv, NEW c \in Callers, NEW d \in Callers \ {c}, Share(c, d)
    PROVE  VulkanInv' /\ AddsNothing
<1>1. /\ Alive /\ handle[c] # None /\ UNCHANGED <<backend, gpu, lost>>
      /\ handle' = [handle EXCEPT ![d] = handle[c]]
      /\ pc' = [pc EXCEPT ![d] = "waiting"] /\ answer' = [answer EXCEPT ![d] = None]
  BY DEF Share, Waits, device
<1>2. Sound(backend) /\ VerdictInv /\ handle[c] \in Keys  BY <1>1, AliveParts
<1>3. Sound(backend') /\ Follows(backend, backend')  BY <1>1, <1>2, FollowsReflexive
<1>4. \A e \in Callers : handle'[e] = IF e = d THEN handle[c] ELSE handle[e]
  BY <1>1 DEF VulkanInv
<1>5. Alive' /\ Sound(backend)' /\ RunningIsHeld' /\ KeysInv'
  BY <1>1, <1>3, <1>4, StepKeepsMemory
<1>6. VerdictInv'
  <2>1. \A e \in Callers :
            \/ handle'[e] = handle[e] /\ answer'[e] = answer[e]
            \/ answer'[e] \in {None, "SubmissionRejected"}
    BY <1>1, <1>4 DEF VulkanInv
  <2>2. \A e \in Callers :
            pc'[e] = "completed" /\ handle'[e] \in DOMAIN backend'.submissions =>
                backend'.submissions[handle'[e]].completed
    BY <1>1, <1>2, <1>4 DEF VerdictInv, VulkanInv
  <2> QED  BY <1>1, <1>3, <2>1, <2>2, StepKeepsVerdicts
<1>7. /\ pc' \in [Callers -> {"idle", "waiting", "completed", "terminal"}]
      /\ handle' \in [Callers -> Keys \cup {None}]
      /\ answer' \in [Callers -> Reasons \cup {None, "Vulkan", "SubmissionRejected"}]
  BY <1>1, <1>2 DEF VulkanInv
<1> QED  BY <1>1, <1>5, <1>6, <1>7 DEF VulkanInv, AddsNothing

LEMMA FinishHolds ==
    ASSUME VulkanInv, NEW c \in Callers, Finish(c)  PROVE VulkanInv' /\ AddsNothing
<1> DEFINE k == handle[c]
<1>1. /\ Alive /\ pc[c] \in {"completed", "terminal"} /\ UNCHANGED <<gpu, lost, handle>>
      /\ Recorded(c) \/ Missed(c) \/ Completed(c)
  <2>1. pc[c] \in {"completed", "terminal"}  BY DEF Finish
  <2>2. Alive  BY <2>1, BusyIsAlive
  <2> QED  BY <2>1, <2>2 DEF Finish, Recorded, Missed, Completed, Answer, device
<1>2. /\ Sound(backend) /\ VerdictInv /\ KeysInv /\ None \notin Keys
      /\ handle[c] \in Keys \cup {None}
  BY <1>1, AliveParts
<1>3. IsBackend(backend) /\ DOMAIN backend.submissions \subseteq Keys
      /\ DOMAIN backend.results \subseteq Keys
      /\ DOMAIN backend.submissions \cap DOMAIN backend.results = {}
  BY <1>2, BackendParts DEF Sound
\* Any task but c is told what it was told before, and c is idle.
<1>4. ASSUME NEW result \in Reasons \cup {"Vulkan", "SubmissionRejected"}, Answer(c, result)
      PROVE  /\ pc' \in [Callers -> {"idle", "waiting", "completed", "terminal"}]
             /\ answer' \in [Callers -> Reasons \cup {None, "Vulkan", "SubmissionRejected"}]
             /\ pc'[c] = "idle" /\ answer'[c] = result
             /\ \A d \in Callers \ {c} : pc'[d] = pc[d] /\ answer'[d] = answer[d]
  BY <1>4 DEF VulkanInv, Answer
<1>5. ASSUME Follows(backend, backend'),
             \A d \in Callers \ {c} : pc'[d] = pc[d] /\ answer'[d] = answer[d],
             pc'[c] = "idle"
      PROVE  \A d \in Callers :
                 pc'[d] = "completed" /\ handle'[d] \in DOMAIN backend'.submissions =>
                     backend'.submissions[handle'[d]].completed
  BY <1>1, <1>2, <1>5 DEF VerdictInv, Follows
<1>6. CASE Recorded(c)
  <2>1. /\ k \in DOMAIN backend.results /\ backend' = take_terminal_result(backend, k)
        /\ Answer(c, backend.results[k])
    BY <1>6 DEF Recorded
  <2>2. backend.results[k] \in Reasons  BY <1>3, <2>1, BackendParts
  <2>3. /\ Sound(backend') /\ Follows(backend, backend')
        /\ DOMAIN backend'.submissions = DOMAIN backend.submissions
        /\ k \notin DOMAIN backend'.results
    BY <1>2, <2>1, TakenIsSound
  <2>4. Alive' /\ Sound(backend)' /\ RunningIsHeld' /\ KeysInv'
    BY <1>1, <2>3, StepKeepsMemory
  <2>5. /\ pc' \in [Callers -> {"idle", "waiting", "completed", "terminal"}]
        /\ answer' \in [Callers -> Reasons \cup {None, "Vulkan", "SubmissionRejected"}]
        /\ pc'[c] = "idle" /\ answer'[c] = backend.results[k]
        /\ \A d \in Callers \ {c} : pc'[d] = pc[d] /\ answer'[d] = answer[d]
    BY <1>4, <2>1, <2>2
  <2>6. k \in Keys /\ k \notin DOMAIN backend.submissions  BY <1>3, <2>1
  <2>7. answer'[c] # "Vulkan"  BY <2>2, <2>5 DEF Reasons
  <2>8. \A d \in Callers : handle[d] = k => answer[d] # "Vulkan"
    BY <1>2, <2>1 DEF VerdictInv
  <2>9. ASSUME NEW d \in Callers
        PROVE  /\ answer'[d] \in Reasons \cup {"Vulkan"} => handle'[d] \notin DOMAIN backend'.submissions
               /\ answer'[d] = "Vulkan" => handle'[d] \notin DOMAIN backend'.results
    <3>1. CASE d = c  BY <1>1, <2>3, <2>6, <2>7, <3>1
    <3>2. CASE d # c
      <4>1. answer'[d] = answer[d] /\ handle'[d] = handle[d]  BY <1>1, <2>5, <3>2
      <4>2. DOMAIN backend'.results \subseteq DOMAIN backend.results
        BY <2>3 DEF Follows
      <4> QED  BY <1>2, <2>3, <4>1, <4>2 DEF VerdictInv
    <3> QED  BY <3>1, <3>2
  <2>10. OneVerdict'
    <3> SUFFICES ASSUME NEW d \in Callers, NEW e \in Callers,
                        d # e, handle'[d] = handle'[e], handle'[d] # None, answer'[d] = "Vulkan"
                 PROVE  answer'[e] \in {None, "SubmissionRejected"}
      BY DEF OneVerdict
    <3>1. d # c /\ answer[d] = "Vulkan"  BY <2>5, <2>7
    <3>2. e # c  BY <1>1, <2>8, <3>1
    <3> QED  BY <1>1, <1>2, <2>5, <3>1, <3>2 DEF VerdictInv, OneVerdict
  <2>11. VerdictInv'
    <3>1. \A d \in Callers :
              pc'[d] = "completed" /\ handle'[d] \in DOMAIN backend'.submissions =>
                  backend'.submissions[handle'[d]].completed
      BY <1>5, <2>3, <2>5
    <3> QED  BY <2>9, <2>10, <3>1 DEF VerdictInv
  <2> QED  BY <1>1, <2>3, <2>4, <2>5, <2>11 DEF VulkanInv, AddsNothing
<1>7. CASE Missed(c)
  <2>1. Answer(c, "SubmissionRejected") /\ UNCHANGED backend  BY <1>7 DEF Missed
  <2>2. Sound(backend') /\ Follows(backend, backend')
    BY <1>2, <2>1, FollowsReflexive
  <2>3. Alive' /\ Sound(backend)' /\ RunningIsHeld' /\ KeysInv'
    BY <1>1, <2>2, StepKeepsMemory
  <2>4. /\ pc' \in [Callers -> {"idle", "waiting", "completed", "terminal"}]
        /\ answer' \in [Callers -> Reasons \cup {None, "Vulkan", "SubmissionRejected"}]
        /\ pc'[c] = "idle" /\ answer'[c] = "SubmissionRejected"
        /\ \A d \in Callers \ {c} : pc'[d] = pc[d] /\ answer'[d] = answer[d]
    BY <1>4, <2>1
  <2>5. VerdictInv'
    <3>1. \A d \in Callers :
              pc'[d] = "completed" /\ handle'[d] \in DOMAIN backend'.submissions =>
                  backend'.submissions[handle'[d]].completed
      BY <1>5, <2>2, <2>4
    <3>2. \A d \in Callers : \/ handle'[d] = handle[d] /\ answer'[d] = answer[d]
                             \/ answer'[d] \in {None, "SubmissionRejected"}
      BY <1>1, <2>4
    <3> QED  BY <1>1, <2>2, <3>1, <3>2, StepKeepsVerdicts
  <2> QED  BY <1>1, <2>1, <2>3, <2>4, <2>5 DEF VulkanInv, AddsNothing
<1>8. CASE Completed(c)
  <2>1. PICK unmapped \in Unmappable :
            backend' = release_gpu_submission(
                           [backend EXCEPT !.submissions = Without(@, {k})],
                           k, backend.submissions[k], unmapped)
    BY <1>8 DEF Completed
  <2>2. k \in DOMAIN backend.submissions /\ pc[c] = "completed" /\ Answer(c, "Vulkan")
    BY <1>8 DEF Completed
  <2>3. k \in Keys /\ k \notin DOMAIN backend.results /\ gpu[k] = "done"
    BY <1>2, <1>3, <2>2 DEF VerdictInv, Sound
  <2>4. backend' \in {mark_faulted(Moved(backend, k)), Freed(backend, k)}
    <3> HIDE DEF k
    <3> QED  BY <1>3, <2>1, <2>2, ReleaseIs
  <2>5. /\ Sound(backend') /\ Follows(backend, backend')
        /\ k \notin DOMAIN backend'.submissions
    <3> DEFINE m == Moved(backend, k)
               n == Freed(backend, k)
               x == mark_faulted(m)
    <3>1. /\ Sound(m) /\ Follows(backend, m)
          /\ DOMAIN m.submissions = DOMAIN backend.submissions \ {k}
      BY <1>2, <2>2, MovedIsSound
    <3>2. /\ Sound(n) /\ Follows(backend, n)
          /\ DOMAIN n.submissions = DOMAIN backend.submissions \ {k}
      BY <1>2, <2>2, <2>3, FreedIsSound
    <3> HIDE DEF m, n
    <3>3. /\ Sound(x) /\ Follows(m, x) /\ DOMAIN x.submissions = DOMAIN m.submissions
      BY <3>1, FaultedIsSound
    <3> HIDE DEF x
    <3>4. Follows(backend, x)  BY <3>1, <3>3, FollowsTransitive
    <3>5. backend' = x \/ backend' = n  BY <2>4 DEF m, n, x
    <3> QED  BY <3>1, <3>2, <3>3, <3>4, <3>5
  <2>6. k \notin DOMAIN backend'.results
    <3>1. DOMAIN backend'.results = DOMAIN backend.results
      <4>1. Moved(backend, k).results = backend.results /\ Freed(backend, k).results = backend.results
        BY <1>2, <2>2, <2>3, MovedIsSound, FreedIsSound
      <4>2. IsBackend(Moved(backend, k))
        BY <1>2, <2>2, MovedIsSound DEF Sound
      <4>3. mark_faulted(Moved(backend, k)).results = Moved(backend, k).results
        <5> DEFINE m == Moved(backend, k)
        <5>1. IsBackend(m)  BY <4>2
        <5> HIDE DEF m
        <5>2. mark_faulted(m).results = m.results  BY <5>1 DEF IsBackend, mark_faulted
        <5> QED  BY <5>2 DEF m
      <4> QED  BY <2>4, <4>1, <4>3
    <3> QED  BY <2>3, <3>1
  <2>7. Alive' /\ Sound(backend)' /\ RunningIsHeld' /\ KeysInv'
    BY <1>1, <2>5, StepKeepsMemory
  <2>8. /\ pc' \in [Callers -> {"idle", "waiting", "completed", "terminal"}]
        /\ answer' \in [Callers -> Reasons \cup {None, "Vulkan", "SubmissionRejected"}]
        /\ pc'[c] = "idle" /\ answer'[c] = "Vulkan"
        /\ \A d \in Callers \ {c} : pc'[d] = pc[d] /\ answer'[d] = answer[d]
    BY <1>4, <2>2
  \* Nobody else was told a verdict on a submission that is still pending.
  <2>9. \A d \in Callers : handle[d] = k => answer[d] \in {None, "SubmissionRejected"}
    BY <1>2, <2>2 DEF VerdictInv, VulkanInv
  <2>10. ASSUME NEW d \in Callers
         PROVE  /\ answer'[d] \in Reasons \cup {"Vulkan"} => handle'[d] \notin DOMAIN backend'.submissions
                /\ answer'[d] = "Vulkan" => handle'[d] \notin DOMAIN backend'.results
    <3>1. CASE d = c  BY <1>1, <2>5, <2>6, <3>1
    <3>2. CASE d # c
      <4>1. answer'[d] = answer[d] /\ handle'[d] = handle[d]  BY <1>1, <2>8, <3>2
      <4> QED  BY <1>2, <2>5, <4>1 DEF VerdictInv, Follows
    <3> QED  BY <3>1, <3>2
  <2>11. OneVerdict'
    <3> SUFFICES ASSUME NEW d \in Callers, NEW e \in Callers,
                        d # e, handle'[d] = handle'[e], handle'[d] # None, answer'[d] = "Vulkan"
                 PROVE  answer'[e] \in {None, "SubmissionRejected"}
      BY DEF OneVerdict
    <3>1. CASE d = c  BY <1>1, <2>8, <2>9, <3>1
    <3>2. CASE d # c
      <4>1. answer[d] = "Vulkan" /\ handle'[d] = handle[d]  BY <1>1, <2>8, <3>2
      <4>2. handle[d] # k  BY <2>9, <4>1, VulkanAssumption
      <4>3. e # c  BY <1>1, <4>1, <4>2
      <4> QED  BY <1>1, <1>2, <2>8, <4>1, <4>3 DEF VerdictInv, OneVerdict
    <3> QED  BY <3>1, <3>2
  <2>12. VerdictInv'
    <3>1. \A d \in Callers :
              pc'[d] = "completed" /\ handle'[d] \in DOMAIN backend'.submissions =>
                  backend'.submissions[handle'[d]].completed
      BY <1>5, <2>5, <2>8
    <3> QED  BY <2>10, <2>11, <3>1 DEF VerdictInv
  <2> QED  BY <1>1, <2>5, <2>7, <2>8, <2>12 DEF VulkanInv, Follows, AddsNothing
<1> QED  BY <1>1, <1>6, <1>7, <1>8

\* Retiring gives a submission's memory back or leaves it in quarantine, and takes
\* the terminal result away.
LEMMA RetireHolds ==
    ASSUME VulkanInv, NEW c \in Callers, retire_submission(c)  PROVE VulkanInv' /\ AddsNothing
<1> DEFINE k == handle[c]
<1>1. /\ Alive /\ pc[c] = "waiting" /\ UNCHANGED <<gpu, lost, handle, answer>>
      /\ pc' = [pc EXCEPT ![c] = "idle"]
  BY BusyIsAlive DEF retire_submission, device
<1>2. PICK seen \in Observations, unmapped \in Unmappable :
         LET b == reap_quarantined(backend, seen, unmapped)
             s == b.submissions[k]
             removed == [b EXCEPT !.submissions = Without(@, {k})]
             kept == [removed EXCEPT !.quarantined = With(@, k, Kept(s))]
         IN  backend' = take_terminal_result(
               IF k \notin DOMAIN b.submissions THEN b
               ELSE IF seen[k] = "signaled" THEN release_gpu_submission(removed, k, s, unmapped)
               ELSE IF seen[k] = "error" THEN mark_faulted(kept) ELSE kept, k)
  BY DEF retire_submission
<1> DEFINE b == reap_quarantined(backend, seen, unmapped)
           removed == [b EXCEPT !.submissions = Without(@, {k})]
           kept == [removed EXCEPT !.quarantined = With(@, k, Kept(b.submissions[k]))]
           x == IF k \notin DOMAIN b.submissions THEN b
                ELSE IF seen[k] = "signaled"
                     THEN release_gpu_submission(removed, k, b.submissions[k], unmapped)
                ELSE IF seen[k] = "error" THEN mark_faulted(kept) ELSE kept
<1>3. backend' = take_terminal_result(x, k)  BY <1>2
<1>4. /\ Sound(backend) /\ VerdictInv
      /\ \A y \in Held(backend) : seen[y] = "signaled" => gpu[y] = "done"
  BY <1>1, AliveParts, SignaledIsDone
<1>5. Sound(b) /\ Follows(backend, b) /\ b.submissions = backend.submissions
  BY <1>4, ReapedIsSound
<1> HIDE DEF b, k
<1>6. Sound(x) /\ Follows(b, x)
  <2>1. CASE k \notin DOMAIN b.submissions
    BY <1>5, <2>1, FollowsReflexive
  <2>2. CASE k \in DOMAIN b.submissions
    <3> DEFINE m == Moved(b, k)
               n == Freed(b, k)
               y == mark_faulted(m)
    <3>1. IsBackend(b)  BY <1>5 DEF Sound
    <3>2. kept = m  BY <3>1 DEF IsBackend, Moved
    <3>3. Sound(m) /\ Follows(b, m)  BY <1>5, <2>2, MovedIsSound
    <3> HIDE DEF m
    <3>4. Sound(y) /\ Follows(m, y)  BY <3>3, FaultedIsSound
    <3> HIDE DEF y
    <3>5. Follows(b, y)  BY <3>3, <3>4, FollowsTransitive
    <3>6. CASE seen[k] = "signaled"
      <4>1. gpu[k] = "done"  BY <1>4, <1>5, <2>2, <3>6 DEF Held
      <4>2. Sound(n) /\ Follows(b, n)  BY <1>5, <2>2, <4>1, FreedIsSound
      <4>3. x = release_gpu_submission(removed, k, b.submissions[k], unmapped)
        BY <2>2, <3>6
      <4>4. release_gpu_submission(removed, k, b.submissions[k], unmapped)
                \in {mark_faulted(Moved(b, k)), Freed(b, k)}
        BY <2>2, <3>1, ReleaseIs
      <4>5. x = y \/ x = n  BY <4>3, <4>4 DEF y, m
      <4> HIDE DEF x, n
      <4> QED  BY <3>4, <3>5, <4>2, <4>5
    <3>7. CASE seen[k] # "signaled"
      <4>1. x = mark_faulted(kept) \/ x = kept  BY <2>2, <3>7
      <4> HIDE DEF x
      <4>2. x = y \/ x = m  BY <3>2, <4>1 DEF y
      <4> QED  BY <3>3, <3>4, <3>5, <4>2
    <3> QED  BY <3>6, <3>7
  <2> QED  BY <2>1, <2>2
<1> HIDE DEF x
<1>8. Sound(backend') /\ Follows(x, backend')
  BY <1>3, <1>6, TakenIsSound
<1>9. Follows(backend, backend')
  BY <1>5, <1>6, <1>8, FollowsTransitive
<1>10. Alive' /\ Sound(backend)' /\ RunningIsHeld' /\ KeysInv'
  BY <1>1, <1>8, <1>9, StepKeepsMemory
<1>11. VerdictInv'
  <2>1. ASSUME NEW d \in Callers, pc'[d] = "completed", handle'[d] \in DOMAIN backend'.submissions
        PROVE  backend'.submissions[handle'[d]].completed
    <3>1. pc[d] = "completed" /\ handle[d] \in DOMAIN backend'.submissions
      BY <1>1, <2>1 DEF VulkanInv
    <3> QED  BY <1>1, <1>4, <1>9, <3>1 DEF VerdictInv, Follows
  <2> QED  BY <1>1, <1>9, <2>1, StepKeepsVerdicts
<1>12. pc' \in [Callers -> {"idle", "waiting", "completed", "terminal"}]
  BY <1>1 DEF VulkanInv
<1> QED  BY <1>1, <1>9, <1>10, <1>11, <1>12 DEF VulkanInv, Follows, AddsNothing

\* Either the batch falls back to the CPU, or it is pending under a key that no
\* table, handle or fence has known.
LEMMA SubmitIs ==
    ASSUME VulkanInv, NEW c \in Callers, NEW batch \in Batches, submit_batch(c, batch)
    PROVE  \/ /\ Sound(backend') /\ Follows(backend, backend')
              /\ gpu' = gpu /\ lost' \in {lost, TRUE} /\ Falls(c)
           \/ \E n, k :
                 /\ Sound(n) /\ Follows(backend, n) /\ n.state # "Dropped" /\ n.device
                 /\ k \in Keys /\ ~Used(backend, k) /\ Used(n, k)
                 /\ n.bytes + batch.payload =< MaxAllocation
                 /\ active_gpu_resource_count(n) < MaxPending
                 /\ backend' = Added(n, k, batch)
                 /\ gpu' = [gpu EXCEPT ![k] = "running"] /\ lost' = lost /\ Waits(c, k)
<1>1. Alive /\ pc[c] = "idle"  BY DEF submit_batch
<1>2. PICK seen \in Observations, unmapped \in Unmappable :
         LET b == reap_quarantined(backend, seen, unmapped)
         IN  IF Admitted(b, batch) /\ ~b.exhausted
             THEN try_submit(c, allocate_handle(b), Fresh(b), batch)
             ELSE backend' = allocate_handle(b) /\ Falls(c) /\ UNCHANGED device
  BY DEF submit_batch
<1> DEFINE b == reap_quarantined(backend, seen, unmapped)
           n == allocate_handle(b)
           k == Fresh(b)
<1>3. IF Admitted(b, batch) /\ ~b.exhausted
      THEN try_submit(c, n, k, batch)
      ELSE backend' = n /\ Falls(c) /\ UNCHANGED device
  BY <1>2
<1>4. /\ Sound(backend) /\ \A y \in Held(backend) : seen[y] = "signaled" => gpu[y] = "done"
  BY <1>1, AliveParts, SignaledIsDone
<1>5. Sound(b) /\ Follows(backend, b)  BY <1>4, ReapedIsSound
<1> HIDE DEF b
<1>6. /\ Sound(n) /\ Follows(b, n) /\ n.submissions = b.submissions
      /\ n.quarantined = b.quarantined /\ n.device = b.device /\ n.state = b.state
  BY <1>5, AllocatedIsSound
<1>7. ~b.exhausted => k \in Keys /\ ~Used(b, k) /\ Used(n, k)
  BY <1>5, FreshIsNew DEF Sound
<1> HIDE DEF n, k
<1>8. Follows(backend, n)  BY <1>5, <1>6, FollowsTransitive
<1>9. CASE ~(Admitted(b, batch) /\ ~b.exhausted)
  BY <1>3, <1>6, <1>8, <1>9 DEF device
<1>10. CASE Admitted(b, batch) /\ ~b.exhausted
  <2>1. try_submit(c, n, k, batch)  BY <1>3, <1>10
  <2>2. CASE PendingDropped(n) /\ Falls(c)
    BY <1>6, <1>8, <2>2 DEF PendingDropped, device
  <2>3. CASE /\ backend' = mark_faulted(n) /\ lost' = TRUE /\ UNCHANGED gpu /\ Falls(c)
    <3> DEFINE m == mark_faulted(n)
    <3>1. Sound(m) /\ Follows(n, m)  BY <1>6, FaultedIsSound
    <3> HIDE DEF m
    <3>2. Follows(backend, m)  BY <1>8, <3>1, FollowsTransitive
    <3>3. backend' = m  BY <2>3 DEF m
    <3> QED  BY <2>3, <3>1, <3>2, <3>3
  <2>4. CASE /\ n.bytes + batch.payload =< MaxAllocation
             /\ backend' = Added(n, k, batch)
             /\ gpu' = [gpu EXCEPT ![k] = "running"] /\ UNCHANGED lost /\ Waits(c, k)
    <3>1. k \in Keys /\ ~Used(b, k) /\ Used(n, k)  BY <1>7, <1>10
    <3>2. ~Used(backend, k)  BY <1>5, <3>1 DEF Follows
    <3>3. /\ n.state # "Dropped" /\ n.device /\ active_gpu_resource_count(n) < MaxPending
      BY <1>6, <1>10 DEF Admitted, active_gpu_resource_count
    <3> QED  BY <1>6, <1>8, <2>4, <3>1, <3>2, <3>3
  <2> QED  BY <2>1, <2>2, <2>3, <2>4 DEF try_submit, Added
<1> QED  BY <1>9, <1>10

LEMMA SubmitHolds ==
    ASSUME VulkanInv, NEW c \in Callers, NEW batch \in Batches, submit_batch(c, batch)
    PROVE  VulkanInv'
<1>1. Alive /\ pc[c] = "idle"  BY DEF submit_batch
<1>2. /\ Sound(backend) /\ RunningIsHeld /\ KeysInv /\ VerdictInv /\ None \notin Keys
      /\ \A d \in Callers : handle[d] \in Keys \cup {None}
  BY <1>1, AliveParts
<1>3. CASE /\ Sound(backend') /\ Follows(backend, backend')
           /\ gpu' = gpu /\ lost' \in {lost, TRUE} /\ Falls(c)
  <2>1. /\ pc' = pc /\ handle' = [handle EXCEPT ![c] = None]
        /\ answer' = [answer EXCEPT ![c] = None]
    BY <1>3 DEF Falls
  <2>2. \A d \in Callers : handle'[d] # None => \E e \in Callers : handle'[d] = handle[e]
    BY <2>1 DEF VulkanInv
  <2>9. lost => lost'  BY <1>3
  <2>3. Alive' /\ Sound(backend)' /\ RunningIsHeld' /\ KeysInv'
    BY <1>1, <2>9, <1>3, <2>2, StepKeepsMemory
  <2>4. VerdictInv'
    <3>1. \A d \in Callers : \/ handle'[d] = handle[d] /\ answer'[d] = answer[d]
                             \/ answer'[d] \in {None, "SubmissionRejected"}
      BY <2>1 DEF VulkanInv
    <3>2. ASSUME NEW d \in Callers, pc'[d] = "completed",
                 handle'[d] \in DOMAIN backend'.submissions
          PROVE  backend'.submissions[handle'[d]].completed
      <4>1. d # c  BY <1>1, <2>1, <3>2
      <4>2. handle'[d] = handle[d] /\ pc[d] = "completed"  BY <2>1, <3>2, <4>1 DEF VulkanInv
      <4> QED  BY <1>2, <1>3, <3>2, <4>2 DEF VerdictInv, Follows
    <3> QED  BY <1>1, <1>3, <3>1, <3>2, StepKeepsVerdicts
  <2>5. /\ handle' \in [Callers -> Keys \cup {None}]
        /\ answer' \in [Callers -> Reasons \cup {None, "Vulkan", "SubmissionRejected"}]
        /\ lost' \in BOOLEAN
    BY <1>3, <2>1 DEF VulkanInv
  <2> QED  BY <1>3, <2>1, <2>3, <2>4, <2>5 DEF VulkanInv
<1>4. ASSUME NEW n, NEW k \in Keys,
             Sound(n), Follows(backend, n), n.state # "Dropped", n.device,
             ~Used(backend, k), Used(n, k),
             n.bytes + batch.payload =< MaxAllocation,
             active_gpu_resource_count(n) < MaxPending,
             backend' = Added(n, k, batch),
             gpu' = [gpu EXCEPT ![k] = "running"], lost' = lost, Waits(c, k)
      PROVE  VulkanInv'
  <2>1. /\ gpu[k] = "none"
        /\ k \notin Held(backend) /\ k \notin DOMAIN backend.results
        /\ \A d \in Callers : handle[d] # k
    BY <1>2, <1>4 DEF KeysInv
  <2>2. /\ Held(n) \subseteq Held(backend)
        /\ DOMAIN n.submissions \subseteq DOMAIN backend.submissions
        /\ DOMAIN n.results \subseteq DOMAIN backend.results \cup DOMAIN backend.submissions
        /\ \A x \in Held(backend) \ Held(n) : gpu[x] = "done"
        /\ \A x \in Keys : Used(backend, x) => Used(n, x)
        /\ \A x \in DOMAIN n.submissions :
               backend.submissions[x].completed => n.submissions[x].completed
    BY <1>4 DEF Follows
  <2>3. k \notin Held(n) /\ k \notin DOMAIN n.results /\ k \notin DOMAIN n.submissions
    BY <2>1, <2>2 DEF Held
  <2>4. /\ IsBackend(backend') /\ Accounted(backend')
        /\ DOMAIN backend'.submissions = DOMAIN n.submissions \cup {k}
        /\ \A x \in DOMAIN n.submissions : backend'.submissions[x] = n.submissions[x]
        /\ ~backend'.submissions[k].completed
        /\ Held(backend') = Held(n) \cup {k}
        /\ backend'.secrets \subseteq n.secrets \cup {k}
        /\ backend'.results = n.results /\ backend'.order = n.order
        /\ backend'.device = n.device /\ backend'.state = n.state
        /\ backend'.next = n.next /\ backend'.generation = n.generation
        /\ backend'.exhausted = n.exhausted
    <3> DEFINE m == Added(n, k, batch)
    <3>1. /\ m = Added(n, k, batch) /\ Sound(n) /\ k \in Keys /\ k \notin Held(n)
          /\ batch \in Batches /\ n.bytes + batch.payload =< MaxAllocation
          /\ active_gpu_resource_count(n) < MaxPending
      BY <1>4, <2>3
    <3> HIDE DEF m
    <3>2. /\ IsBackend(m) /\ Accounted(m)
          /\ DOMAIN m.submissions = DOMAIN n.submissions \cup {k}
          /\ \A x \in DOMAIN n.submissions : m.submissions[x] = n.submissions[x]
          /\ ~m.submissions[k].completed
          /\ Held(m) = Held(n) \cup {k}
          /\ m.secrets \subseteq n.secrets \cup {k}
          /\ m.results = n.results /\ m.order = n.order
          /\ m.device = n.device /\ m.state = n.state
          /\ m.next = n.next /\ m.generation = n.generation
          /\ m.exhausted = n.exhausted
      BY ONLY <3>1, AddedIsSound
    <3>3. backend' = m  BY <1>4, <3>1
    <3> QED  BY <3>2, <3>3
  <2>5. /\ gpu' \in [Keys -> {"none", "running", "done"}]
        /\ \A x \in Keys : gpu'[x] = IF x = k THEN "running" ELSE gpu[x]
    BY <1>4 DEF VulkanInv
  <2>6. /\ handle' = [handle EXCEPT ![c] = k] /\ pc' = [pc EXCEPT ![c] = "waiting"]
        /\ answer' = [answer EXCEPT ![c] = None]
    BY <1>4 DEF Waits
  <2>7. /\ DOMAIN n.submissions \subseteq Keys /\ DOMAIN n.results \subseteq Keys
        /\ Held(n) \subseteq Keys
    BY <1>4, BackendParts DEF Sound
  <2>8. Sound(backend)'
    <3>1. Filed(backend')  BY <1>4, <2>4 DEF Sound, Filed
    <3>2. backend'.secrets \subseteq Held(backend')  BY <1>4, <2>4 DEF Sound
    <3>3. DOMAIN backend'.submissions \cap DOMAIN backend'.results = {}
      BY <1>4, <2>3, <2>4 DEF Sound
    <3>4. \A x \in DOMAIN backend'.submissions :
              backend'.submissions[x].completed => gpu'[x] = "done"
      BY <1>4, <2>3, <2>4, <2>5, <2>7 DEF Sound
    <3>5. backend'.device  BY <1>4, <2>4
    <3> QED  BY <2>4, <3>1, <3>2, <3>3, <3>4, <3>5
             DEF Sound, IsBackend, Accounted, Filed, Held
  <2>9. RunningIsHeld'
    <3> SUFFICES ASSUME ~lost', NEW x \in Keys, gpu'[x] = "running"
                 PROVE  x \in Held(backend')
      BY DEF RunningIsHeld
    <3>1. CASE x = k  BY <2>4, <3>1
    <3>2. CASE x # k
      <4>1. gpu[x] = "running" /\ ~lost  BY <1>4, <2>5, <3>2
      <4>2. x \in Held(backend)  BY <1>2, <4>1 DEF RunningIsHeld
      <4> QED  BY <2>2, <2>4, <4>1, <4>2
    <3> QED  BY <3>1, <3>2
  <2>10. \A d \in Callers : handle'[d] = IF d = c THEN k ELSE handle[d]
    BY <2>6 DEF VulkanInv
  <2>11. KeysInv'
    <3>1. \A x \in Keys : Used(n, x) => Used(backend', x)  BY <2>4 DEF Used
    <3>2. \A x \in Keys : gpu'[x] # "none" => Used(backend', x)
      BY <1>2, <1>4, <2>2, <2>5, <3>1 DEF KeysInv
    <3>3. \A x \in Held(backend') \cup DOMAIN backend'.results : gpu'[x] # "none"
      BY <1>2, <2>2, <2>4, <2>5, <2>7 DEF KeysInv, Held
    <3>4. \A d \in Callers : handle'[d] # None => gpu'[handle'[d]] # "none"
      BY <1>2, <2>5, <2>10 DEF KeysInv
    <3> QED  BY <3>2, <3>3, <3>4 DEF KeysInv
  <2>12. VerdictInv'
    <3>1. /\ \A d \in Callers : answer'[d] = IF d = c THEN None ELSE answer[d]
          /\ \A d \in Callers : pc'[d] = IF d = c THEN "waiting" ELSE pc[d]
      BY <2>6 DEF VulkanInv
    <3>2. None \notin Reasons \cup {"Vulkan"}  BY VulkanAssumption DEF Reasons
    <3>3. OneVerdict'
      BY <1>2, <2>1, <2>10, <3>1, <3>2 DEF VerdictInv, OneVerdict
    <3>4. ASSUME NEW d \in Callers
          PROVE  /\ answer'[d] \in Reasons \cup {"Vulkan"} =>
                        handle'[d] \notin DOMAIN backend'.submissions
                 /\ answer'[d] = "Vulkan" => handle'[d] \notin DOMAIN backend'.results
                 /\ pc'[d] = "completed" /\ handle'[d] \in DOMAIN backend'.submissions =>
                        backend'.submissions[handle'[d]].completed
      <4>1. CASE d = c  BY <3>1, <3>2, <4>1
      <4>2. CASE d # c
        <5>1. answer'[d] = answer[d] /\ handle'[d] = handle[d] /\ pc'[d] = pc[d] /\ handle[d] # k
          BY <2>1, <2>10, <3>1, <4>2
        <5>2. /\ answer[d] \in Reasons \cup {"Vulkan"} =>
                     handle[d] \notin DOMAIN backend.submissions
              /\ answer[d] = "Vulkan" => handle[d] \notin DOMAIN backend.results
              /\ pc[d] = "completed" /\ handle[d] \in DOMAIN backend.submissions =>
                     backend.submissions[handle[d]].completed
          BY <1>2 DEF VerdictInv
        <5> QED  BY <2>2, <2>4, <5>1, <5>2
      <4> QED  BY <4>1, <4>2
    <3> QED  BY <3>3, <3>4 DEF VerdictInv
  <2>13. /\ pc' \in [Callers -> {"idle", "waiting", "completed", "terminal"}]
         /\ handle' \in [Callers -> Keys \cup {None}]
         /\ answer' \in [Callers -> Reasons \cup {None, "Vulkan", "SubmissionRejected"}]
         /\ lost' \in BOOLEAN
    BY <1>4, <2>6 DEF VulkanInv
  <2>14. Alive'  BY <1>4, <2>4 DEF Alive
  <2> QED  BY <2>5, <2>8, <2>9, <2>11, <2>12, <2>13, <2>14 DEF VulkanInv
<1> QED  BY <1>3, <1>4, SubmitIs

-----------------------------------------------------------------------------
(* The theorems *)

LEMMA StepHolds == VulkanInv /\ [Next]_vars => VulkanInv'
<1> SUFFICES ASSUME VulkanInv, [Next]_vars  PROVE VulkanInv'  OBVIOUS
<1>1. CASE Next
  <2>1. CASE initialize \/ metrics \/ Drop \/ Lose
    BY <2>1, initializeHolds, metricsHolds, DropHolds, LoseHolds
  <2>2. CASE \E c \in Callers, batch \in Batches : submit_batch(c, batch)
    BY <2>2, SubmitHolds
  <2>3. CASE \E c \in Callers : \E d \in Callers \ {c} : Share(c, d)
    BY <2>3, ShareHolds
  <2>4. CASE \E c \in Callers : Poll(c)  BY <2>4, PollHolds
  <2>5. CASE \E c \in Callers : Finish(c)  BY <2>5, FinishHolds
  <2>6. CASE \E c \in Callers : retire_submission(c)  BY <2>6, RetireHolds
  <2>7. CASE \E k \in Keys : Signal(k) \/ Expire(k)  BY <2>7, SignalHolds, ExpireHolds
  <2> QED  BY <1>1, <2>1, <2>2, <2>3, <2>4, <2>5, <2>6, <2>7 DEF Next
<1>2. CASE UNCHANGED vars
  <2>1. UNCHANGED <<backend, gpu, lost, pc, handle, answer>>
    BY <1>2 DEF vars, device, tasks
  <2>2. /\ Alive' <=> Alive
        /\ Sound(backend) => Sound(backend)'
        /\ Gone(backend) => Gone(backend)'
    BY <2>1 DEF Alive, Sound, Gone, IsBackend, Accounted, Filed, Held
  <2>3. KeysInv' /\ VerdictInv' /\ RunningIsHeld'
    BY <2>1 DEF VulkanInv, KeysInv, VerdictInv, OneVerdict, RunningIsHeld
  <2> QED  BY <2>1, <2>2, <2>3 DEF VulkanInv
<1> QED  BY <1>1, <1>2

\* The inductive invariant holds in every state, whatever the limits, the number
\* of tasks and the batches.
THEOREM VulkanInvariant == Spec => []VulkanInv
BY InitHolds, StepHolds, PTL DEF Spec

\* The tables of the backend are sound at every moment: nothing the GPU works on
\* is freed, the budget counts exactly what is held and is kept, a payload that is
\* to be cleared is held until it is, and the history of results is in order.
THEOREM MemoryIsHeldHolds == Spec => []MemoryIsHeld
<1>1. VulkanInv => MemoryIsHeld
  <2> SUFFICES ASSUME VulkanInv  PROVE MemoryIsHeld  OBVIOUS
  <2>1. IsBackend(backend) /\ Filed(backend)  BY DEF VulkanInv, Sound, Gone
  <2>2. RunningIsHeld  BY DEF VulkanInv
  <2>3. HistoryIsOrdered  BY <2>1 DEF Filed, HistoryIsOrdered
  <2>4. Alive => Sound(backend)  BY DEF VulkanInv
  <2>5. BudgetIsExact
    BY <2>4 DEF Sound, Accounted, Records, BudgetIsExact
  <2>6. SecretsAreHeld  BY <2>4 DEF Sound, SecretsAreHeld
  <2>7. TypeOK
    <3>1. /\ DOMAIN backend.submissions \subseteq Keys
          /\ DOMAIN backend.quarantined \subseteq Keys
          /\ DOMAIN backend.results \subseteq Keys /\ backend.secrets \in SUBSET Keys
          /\ \A k \in DOMAIN backend.submissions : backend.submissions[k] \in Stored
          /\ \A k \in DOMAIN backend.quarantined : backend.quarantined[k] \in Quarantined
          /\ backend.bytes \in Nat
      BY <2>1, BackendParts
    <3>2. Range(backend.submissions) \subseteq Stored
          /\ Range(backend.quarantined) \subseteq Quarantined
      BY <3>1 DEF Range
    <3>3. /\ backend.state \in {"Uninitialized", "Ready", "Disabled", "Faulted", "Dropped"}
          /\ backend.enabled \in BOOLEAN /\ backend.device \in BOOLEAN
          /\ backend.exhausted \in BOOLEAN
          /\ backend.next \in 1 .. MaxId /\ backend.generation \in 1 .. MaxGeneration
      BY <2>1 DEF IsBackend
    <3>4. /\ gpu \in [Keys -> {"none", "running", "done"}] /\ lost \in BOOLEAN
          /\ pc \in [Callers -> {"idle", "waiting", "completed", "terminal"}]
          /\ handle \in [Callers -> Keys \cup {None}]
          /\ answer \in [Callers -> {None, "Vulkan", "Timeout", "DriverUnavailable",
                                    "SubmissionRejected"}]
      <4>1. Reasons \cup {None, "Vulkan", "SubmissionRejected"}
                = {None, "Vulkan", "Timeout", "DriverUnavailable", "SubmissionRejected"}
        BY DEF Reasons
      <4> QED  BY <4>1 DEF VulkanInv
    <3> QED  BY <3>1, <3>2, <3>3, <3>4 DEF TypeOK
  <2> QED  BY <2>2, <2>3, <2>5, <2>6, <2>7 DEF MemoryIsHeld
<1> QED  BY <1>1, VulkanInvariant, PTL

\* However polls, answers, timeouts and cancellations of the tasks that share a
\* handle interleave, at most one of them is told that the GPU did the work, and
\* then nobody is told that it failed.
THEOREM OneVerdictHolds == Spec => []OneVerdict
<1>1. VulkanInv => OneVerdict  BY DEF VulkanInv, VerdictInv
<1> QED  BY <1>1, VulkanInvariant, PTL

\* submit_batch never gives out a key that a table, a fence or a handle still
\* knows, also after the counters of allocate_handle have wrapped.
THEOREM KeysAreNewHolds == Spec => KeysAreNew
<1> DEFINE AllNew ==
             \A k \in DOMAIN backend'.submissions \ DOMAIN backend.submissions :
                /\ gpu[k] = "none" /\ k \notin DOMAIN backend.quarantined \cup DOMAIN backend.results
                /\ \A c \in Callers : handle[c] # k
<1>1. VulkanInv /\ [Next]_vars => AllNew
  <2> SUFFICES ASSUME VulkanInv, [Next]_vars  PROVE AllNew  OBVIOUS
  <2>1. CASE UNCHANGED vars  BY <2>1 DEF vars
  <2>2. CASE initialize \/ metrics \/ Drop \/ Lose
    BY <2>2, initializeHolds, metricsHolds, DropHolds, LoseHolds DEF AddsNothing
  <2>3. CASE \E c \in Callers : \E d \in Callers \ {c} : Share(c, d)
    BY <2>3, ShareHolds DEF AddsNothing
  <2>4. CASE \E c \in Callers : Poll(c) \/ Finish(c) \/ retire_submission(c)
    BY <2>4, PollHolds, FinishHolds, RetireHolds DEF AddsNothing
  <2>5. CASE \E k \in Keys : Signal(k) \/ Expire(k)
    BY <2>5, SignalHolds, ExpireHolds DEF AddsNothing
  <2>6. ASSUME NEW c \in Callers, NEW batch \in Batches, submit_batch(c, batch)
        PROVE  AllNew
    <3>1. Alive  BY <2>6 DEF submit_batch
    <3>2. /\ KeysInv /\ None \notin Keys  BY <3>1, AliveParts
    <3>3. CASE Follows(backend, backend')  BY <3>3 DEF Follows
    <3>4. ASSUME NEW n, NEW k \in Keys, Sound(n), Follows(backend, n),
                 ~Used(backend, k), backend' = Added(n, k, batch)
          PROVE  AllNew
      <4>1. /\ gpu[k] = "none" /\ k \notin DOMAIN backend.quarantined \cup DOMAIN backend.results
            /\ \A d \in Callers : handle[d] # k
        BY <3>2, <3>4 DEF KeysInv, Held
      <4>2. DOMAIN n.submissions \subseteq DOMAIN backend.submissions
        BY <3>4 DEF Follows
      <4>3. IsBackend(n)  BY <3>4 DEF Sound
      <4>4. backend'.submissions = With(n.submissions, k, into_stored(batch))
        BY <3>4, <4>3 DEF IsBackend, Added
      <4>5. DOMAIN backend'.submissions = DOMAIN n.submissions \cup {k}
        BY <4>4 DEF With
      <4> QED  BY <4>1, <4>2, <4>5
    <3> HIDE DEF AllNew
    <3> QED  BY <2>6, <3>3, <3>4, SubmitIs
  <2> HIDE DEF AllNew
  <2> QED  BY <2>1, <2>2, <2>3, <2>4, <2>5, <2>6 DEF Next
<1>2. KeysAreNew <=> [][AllNew]_vars  BY DEF KeysAreNew
<1> QED  BY <1>1, <1>2, VulkanInvariant, PTL DEF Spec
=============================================================================
