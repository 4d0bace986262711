--------------------------- MODULE DisplayProofs ---------------------------
(***************************************************************************)
(* What displayd has answered survives it, an output called Ready shows    *)
(* the accepted scene, feedback is earned and obligations are backed, for  *)
(* any scenes, outputs, budgets and number of crashes, failures and output *)
(* events.                                                                 *)
(***************************************************************************)
EXTENDS Display, FiniteSetTheorems, WellFoundedInduction, TLAPS

\* What commit ids, snapshot and memory have to do with each other: memory and
\* snapshot agree between requests, and the next id is above all ids in use.
CommitsInOrder ==
    /\ disk = None \/ disk.commit \in Nat
    /\ last = disk
    /\ nextCommit = IdAfter(disk)
    /\ DOMAIN told \subseteq Nat
    /\ AnsweredIsDurable

\* displayd starts without a snapshot and has answered nothing.
LEMMA InitInOrder == Init => CommitsInOrder
BY DEF Init, CommitsInOrder, AnsweredIsDurable, IdAfter

\* The actions that neither answer nor record.
LEMMA OthersKeepOrder ==
    ASSUME CommitsInOrder, UNCHANGED <<last, nextCommit, disk, told>>
    PROVE  CommitsInOrder'
BY DEF CommitsInOrder, AnsweredIsDurable, IdAfter

\* record_commit writes the next id, which no answer has used.
LEMMA NewIdIsUnused ==
    ASSUME CommitsInOrder
    PROVE  nextCommit \in Nat /\ \A c \in DOMAIN told : c < nextCommit
BY DEF CommitsInOrder, AnsweredIsDurable, IdAfter

\* The record of a new scene is a snapshot whose id follows.
LEMMA NewRecord ==
    ASSUME CommitsInOrder, NEW s \in Scenes
    PROVE  LET new == [scene |-> s, commit |-> nextCommit]
           IN  new # None /\ IdAfter(new) = nextCommit + 1
<1>1. [scene |-> s, commit |-> nextCommit] \in [scene : Scenes, commit : Nat]
    BY NewIdIsUnused
<1> QED BY <1>1, DisplayAssumption DEF DisplayAssumption, IdAfter

\* A scene that is recorded and answered.
LEMMA CommitKeepsOrder ==
    ASSUME CommitsInOrder, NEW s \in Scenes, record_commit(s), Answer(nextCommit, s)
    PROVE  CommitsInOrder'
<1> DEFINE new == [scene |-> s, commit |-> nextCommit]
<1>1. disk' = new /\ last' = new /\ nextCommit' = nextCommit + 1
    BY DEF record_commit
<1>2. nextCommit \in Nat /\ \A c \in DOMAIN told : c < nextCommit
    BY NewIdIsUnused
<1>3. new # None /\ IdAfter(new) = nextCommit + 1
    BY NewRecord
<1>4. DOMAIN told \subseteq Nat
    BY DEF CommitsInOrder
<1>5. nextCommit \notin DOMAIN told
    BY <1>2
<1>6. told' = [c \in DOMAIN told \cup {nextCommit} |->
                 IF c = nextCommit THEN s ELSE told[c]]
    BY <1>5 DEF Answer, With
<1>7. \A c \in DOMAIN told' : c <= nextCommit /\ (c = nextCommit => told'[c] = s)
    BY <1>2, <1>4, <1>6
<1>8. AnsweredIsDurable'
    BY <1>1, <1>3, <1>7 DEF AnsweredIsDurable
<1>9. DOMAIN told' \subseteq Nat
    BY <1>2, <1>4, <1>6
<1>10. nextCommit' = IdAfter(disk)'
    BY <1>1, <1>3 DEF IdAfter
<1> QED BY <1>1, <1>2, <1>8, <1>9, <1>10 DEF CommitsInOrder

\* The answer about a scene that is recorded already.
LEMMA RepeatKeepsOrder ==
    ASSUME CommitsInOrder, NEW s \in Scenes, Accepted(s), Answer(last.commit, s),
           UNCHANGED <<last, nextCommit, disk>>
    PROVE  CommitsInOrder'
<1>1. disk # None /\ disk.scene = s /\ last = disk /\ disk.commit \in Nat
    BY DEF Accepted, same_scene_identity, CommitsInOrder
<1>2. CASE disk.commit \in DOMAIN told
    BY <1>1, <1>2, OthersKeepOrder DEF Answer
<1>3. CASE disk.commit \notin DOMAIN told
    <2>1. told' = [c \in DOMAIN told \cup {disk.commit} |->
                     IF c = disk.commit THEN s ELSE told[c]]
        BY <1>1, <1>3 DEF Answer, With
    <2>2. \A c \in DOMAIN told' : c <= disk.commit /\ (c = disk.commit => told'[c] = s)
        BY <1>1, <2>1 DEF CommitsInOrder, AnsweredIsDurable
    <2>3. AnsweredIsDurable'
        BY <1>1, <2>2 DEF AnsweredIsDurable
    <2> QED BY <1>1, <2>1, <2>3 DEF CommitsInOrder, IdAfter
<1> QED BY <1>2, <1>3

\* displayd dies after the rename: the id is used up, though nobody was told.
LEMMA DiesRecordingKeepsOrder ==
    ASSUME CommitsInOrder, NEW r \in Requests, DiesRecording(r)
    PROVE  CommitsInOrder'
<1> DEFINE new == [scene |-> r.scene, commit |-> nextCommit]
<1>0. r.scene \in Scenes
    BY DEF Requests
<1>1. disk' = new /\ last' = new /\ nextCommit' = IdAfter(new) /\ told' = told
    BY DEF DiesRecording, Load
<1>2. nextCommit \in Nat /\ \A c \in DOMAIN told : c < nextCommit
    BY NewIdIsUnused
<1>3. new # None /\ IdAfter(new) = nextCommit + 1
    BY <1>0, NewRecord
<1>4. DOMAIN told \subseteq Nat
    BY DEF CommitsInOrder
<1>5. AnsweredIsDurable'
    BY <1>1, <1>2, <1>3, <1>4 DEF AnsweredIsDurable
<1>6. nextCommit' = IdAfter(disk)'
    BY <1>1 DEF IdAfter
<1> QED BY <1>1, <1>2, <1>4, <1>5, <1>6 DEF CommitsInOrder

\* load gives memory what the snapshot says.
LEMMA RestartKeepsOrder ==
    ASSUME CommitsInOrder, Restart
    PROVE  CommitsInOrder'
BY DEF Restart, Load, CommitsInOrder, AnsweredIsDurable, IdAfter

\* Every request, event, tick and restart keeps ids and snapshot in order.
LEMMA NextKeepsOrder ==
    ASSUME CommitsInOrder, [Next]_vars
    PROVE  CommitsInOrder'
<1>1. ASSUME NEW r \in Requests, NEW via \in {"commit", "reconcile"}, Commit(r, via)
      PROVE  CommitsInOrder'
    BY <1>1, CommitKeepsOrder DEF Commit, Requests
<1>2. ASSUME NEW r \in Requests, NEW via \in {"commit", "reconcile"}, Replay(r, via)
      PROVE  CommitsInOrder'
    BY <1>2, RepeatKeepsOrder DEF Replay, Replayed, Requests
<1>3. ASSUME NEW r \in Requests, NEW via \in {"commit", "reconcile"}, Repeat(r, via)
      PROVE  CommitsInOrder'
    BY <1>3, RepeatKeepsOrder DEF Repeat, Requests, sceneVars
<1>4. ASSUME NEW r \in Requests, Exhausted(r) \/ RecordFails(r)
      PROVE  CommitsInOrder'
    BY <1>4, OthersKeepOrder DEF Exhausted, RecordFails, sceneVars
<1>5. ASSUME NEW r \in Requests, DiesRecording(r)
      PROVE  CommitsInOrder'
    BY <1>5, DiesRecordingKeepsOrder
<1>6. CASE Restart
    BY <1>6, RestartKeepsOrder
<1>7. ASSUME NEW epoch \in {"old", "same", "new"}, BeginReconciliation(epoch)
      PROVE  CommitsInOrder'
    BY <1>7, OthersKeepOrder DEF BeginReconciliation, sceneVars, history
<1>8. ASSUME NEW o \in Outputs, Connected(o) \/ Disabled(o)
      PROVE  CommitsInOrder'
    BY <1>8, OthersKeepOrder DEF Connected, Disabled, sceneVars, history
<1>9. ASSUME NEW S \in SUBSET DOMAIN outputs, Disconnected(S)
      PROVE  CommitsInOrder'
    BY <1>9, OthersKeepOrder DEF Disconnected, sceneVars, history
<1>10. ASSUME NEW o \in Outputs, Advance(o) \/ Submit(o) \/ SubmitFails(o)
      PROVE  CommitsInOrder'
    BY <1>10, OthersKeepOrder DEF Advance, Submit, SubmitFails, sceneVars, history
<1>11. ASSUME NEW o \in Outputs, NEW ok \in BOOLEAN,
              SubmitAndComplete(o, ok) \/ CompletePresentation(o, ok)
      PROVE  CommitsInOrder'
    BY <1>11, OthersKeepOrder DEF SubmitAndComplete, CompletePresentation, sceneVars
<1>12. CASE UNCHANGED vars
    BY <1>12, OthersKeepOrder DEF vars, sceneVars, history
<1> QED
    BY <1>1, <1>2, <1>3, <1>4, <1>5, <1>6, <1>7, <1>8, <1>9, <1>10, <1>11, <1>12 DEF Next

\* A commit id that displayd has answered with stands for one scene for ever: the
\* snapshot holds that scene, or one with a greater id, through failed writes and
\* crashes between the rename and the answer.
THEOREM AnsweredIsDurableHolds == Spec => []AnsweredIsDurable
<1>1. CommitsInOrder => AnsweredIsDurable
    BY DEF CommitsInOrder
<1> QED BY <1>1, InitInOrder, NextKeepsOrder, PTL DEF Spec

-----------------------------------------------------------------------------
(* Feedback.  A frame settles obligations in the order of their ids, and each *)
(* insertion may evict the oldest entry: a fold, whose result is bounded.     *)

\* insert_bounded_feedback evicts the least id, a fold takes the greatest one last.
LEMMA LeastAndGreatest ==
    ASSUME NEW S \in SUBSET Commits, S # {}
    PROVE  Min(S) \in S /\ Max(S) \in S
<1>0. MaxCommits \in Nat  BY DisplayAssumption
<1>1. \A T \in SUBSET Nat : T # {} => \E x \in T : \A y \in T : x <= y
    <2> SUFFICES ASSUME NEW T \in SUBSET Nat, T # {}
                 PROVE  \E x \in T : \A y \in T : x <= y
        OBVIOUS
    <2>1. PICK x \in T : \A y \in T : ~(<<y, x>> \in OpToRel(<, Nat))
        BY NatLessThanWellFounded, WFMin
    <2>2. \A y \in T : ~(y < x)
        BY <2>1 DEF OpToRel
    <2> QED BY <2>2
<1>2. \E x \in S : \A y \in S : x <= y
    BY <1>0, <1>1 DEF Commits
<1>3. \E x \in S : \A y \in S : x >= y
    <2> DEFINE T == {MaxCommits - x : x \in S}
    <2>5. \A x \in S : x \in Nat /\ MaxCommits - x \in Nat
        BY <1>0 DEF Commits
    <2>1. T \in SUBSET Nat /\ T # {}
        BY <2>5
    <2>2. PICK m \in T : \A y \in T : m <= y
        BY <1>1, <2>1
    <2>3. PICK x \in S : m = MaxCommits - x
        OBVIOUS
    <2>4. \A y \in S : MaxCommits - x <= MaxCommits - y
        BY <2>2, <2>3
    <2> QED BY <1>0, <2>4 DEF Commits
<1> QED BY <1>2, <1>3 DEF Min, Max

LEMMA CommitsAreFinite == \A S \in SUBSET Commits : IsFiniteSet(S) /\ Cardinality(S) \in Nat
<1>1. IsFiniteSet(Commits)
    BY FS_Interval, DisplayAssumption DEF Commits
<1> QED BY <1>1, FS_Subset, FS_CardinalityType

LEMMA InsertIsBounded ==
    ASSUME NEW F \in SUBSET Commits, Cardinality(F) <= MaxFeedbacks, NEW c \in Commits
    PROVE  /\ Insert(F, c) \subseteq F \cup {c}
           /\ Cardinality(Insert(F, c)) <= MaxFeedbacks
<1>1. IsFiniteSet(F) /\ Cardinality(F) \in Nat /\ MaxFeedbacks \in Nat \ {0}
    BY CommitsAreFinite, DisplayAssumption
<1>2. CASE Cardinality(F) >= MaxFeedbacks
    <2> DEFINE G == F \ {Min(F)}
    <2>1. F # {}
        BY <1>1, <1>2, FS_EmptySet
    <2>2. Min(F) \in F
        BY <2>1, LeastAndGreatest
    <2>3. IsFiniteSet(G) /\ Cardinality(G) = Cardinality(F) - 1
        BY <1>1, <2>2, FS_RemoveElement
    <2> HIDE DEF G
    <2>4. Cardinality(G \cup {c}) = Cardinality(G) \/ Cardinality(G \cup {c}) = Cardinality(G) + 1
        BY <2>3, FS_AddElement
    <2>5. Insert(F, c) = G \cup {c}
        BY <1>2 DEF Insert, G
    <2>6. Cardinality(Insert(F, c)) <= MaxFeedbacks
        BY <1>1, <2>3, <2>4, <2>5
    <2> QED BY <2>5, <2>6 DEF G
<1>3. CASE ~(Cardinality(F) >= MaxFeedbacks)
    <2>1. Insert(F, c) = F \cup {c}
        BY <1>3 DEF Insert
    <2>2. Cardinality(F \cup {c}) <= Cardinality(F) + 1
        BY <1>1, FS_AddElement
    <2>3. Cardinality(F \cup {c}) \in Nat
        BY <1>1, FS_AddElement, FS_CardinalityType
    <2> QED BY <1>1, <1>3, <2>1, <2>2, <2>3
<1> QED BY <1>2, <1>3

\* Induction over the parts of a finite set: of the parts that are bad, if any,
\* one has no bad part of its own.
LEMMA SmallestBad ==
    ASSUME NEW S, IsFiniteSet(S), NEW Bad, Bad \subseteq SUBSET S, Bad # {}
    PROVE  \E T \in Bad : \A U \in SUBSET T : U # T => U \notin Bad
<1>1. IsWellFoundedOn(StrictSubsetOrdering(S), FiniteSubsetsOf(S))
    BY FS_StrictSubsetOrderingWellFounded
<1>2. FiniteSubsetsOf(S) = SUBSET S
    BY FS_FiniteSubsetsOfFinite
<1>3. PICK T \in Bad : \A U \in Bad : ~(<<U, T>> \in StrictSubsetOrdering(S))
    BY <1>1, <1>2, WFMin
<1>4. ASSUME NEW U \in SUBSET T, U # T, U \in Bad  PROVE FALSE
    <2>1. <<U, T>> \in (SUBSET S) \X (SUBSET S)
        BY <1>4
    <2>2. <<U, T>> \in StrictSubsetOrdering(S)
        BY <2>1, <1>4 DEF StrictSubsetOrdering
    <2> QED BY <1>3, <1>4, <2>2
<1> QED BY <1>3, <1>4

\* g[s] is F after the ids of s have been inserted, for every part s of S.
Inserts(g, F, S) ==
    g = [s \in SUBSET S |-> IF s = {} THEN F ELSE Insert(g[s \ {Max(s)}], Max(s))]

\* Two such functions agree where both are defined.
LEMMA InsertsAgree ==
    ASSUME NEW F, NEW S \in SUBSET Commits, NEW T \in SUBSET Commits, NEW g, NEW h,
           Inserts(g, F, S), Inserts(h, F, T)
    PROVE  \A s \in SUBSET S : s \in SUBSET T => g[s] = h[s]
<1> DEFINE Bad == {s \in SUBSET S : s \in SUBSET T /\ g[s] # h[s]}
<1> SUFFICES ASSUME Bad # {}  PROVE FALSE
    OBVIOUS
<1>1. Bad \subseteq SUBSET S /\ IsFiniteSet(S)
    BY CommitsAreFinite
<1>2. PICK s \in Bad : \A U \in SUBSET s : U # s => U \notin Bad
    <2> HIDE DEF Bad
    <2> QED BY <1>1, SmallestBad
<1>3. s \in SUBSET S /\ s \in SUBSET T /\ g[s] # h[s]
    BY <1>2
<1>4. s # {}
    BY <1>3 DEF Inserts
<1> DEFINE m == Max(s)
           r == s \ {m}
<1>5. m \in s
    BY <1>3, <1>4, LeastAndGreatest
<1> HIDE DEF m
<1>6. r \in SUBSET s /\ r # s
    BY <1>5
<1>7. g[r] = h[r]
    BY <1>2, <1>3, <1>6
<1>8. g[s] = Insert(g[r], m) /\ h[s] = Insert(h[r], m)
    BY <1>3, <1>4 DEF Inserts, m
<1> QED BY <1>3, <1>7, <1>8

LEMMA InsertsExists ==
    ASSUME NEW F, NEW S \in SUBSET Commits
    PROVE  \A T \in SUBSET S : \E g : Inserts(g, F, T)
<1> DEFINE Bad == {T \in SUBSET S : ~\E g : Inserts(g, F, T)}
<1> SUFFICES ASSUME Bad # {}  PROVE FALSE
    OBVIOUS
<1>0. Bad \subseteq SUBSET S /\ IsFiniteSet(S)
    BY CommitsAreFinite
<1>1. PICK T \in Bad : \A U \in SUBSET T : U # T => U \notin Bad
    <2> HIDE DEF Bad
    <2> QED BY <1>0, SmallestBad
<1> DEFINE fold(U) == CHOOSE g : Inserts(g, F, U)
           rest(U) == U \ {Max(U)}
<1>2. \A U \in SUBSET T : U # T => Inserts(fold(U), F, U)
    BY <1>1
<1>3. \A U \in SUBSET T : U # {} => rest(U) \in SUBSET U /\ rest(U) # U
    BY <1>1, LeastAndGreatest
<1> DEFINE value(U) == IF U = {} THEN F ELSE Insert(fold(rest(U))[rest(U)], Max(U))
           whole == [U \in SUBSET T |-> value(U)]
<1>4. ASSUME NEW U \in SUBSET T, U # {}
      PROVE  fold(rest(U))[rest(U)] = whole[rest(U)]
    <2> DEFINE V == rest(U)
               W == rest(V)
    <2>1. V \in SUBSET T /\ V # T
        BY <1>3, <1>4
    <2>2. Inserts(fold(V), F, V) /\ V \in SUBSET Commits
        BY <2>1, <1>2
    <2> HIDE DEF V
    <2>3. CASE V = {}
        <3>1. fold(V)[V] = F
            BY <2>2, <2>3 DEF Inserts
        <3> QED BY <2>1, <2>3, <3>1 DEF V
    <2>4. CASE V # {}
        <3>1. W \in SUBSET V /\ W # V /\ W \in SUBSET T /\ W # T
            BY <1>3, <2>1, <2>4
        <3>2. Inserts(fold(W), F, W) /\ W \in SUBSET Commits
            BY <1>2, <2>2, <3>1
        <3>3. fold(V)[V] = Insert(fold(V)[W], Max(V))
            BY <2>2, <2>4 DEF Inserts
        <3>4. whole[V] = Insert(fold(W)[W], Max(V))
            BY <2>1, <2>4
        <3> HIDE DEF W, fold, whole
        <3>5. fold(V)[W] = fold(W)[W]
            BY <2>2, <3>1, <3>2, InsertsAgree
        <3> QED BY <3>3, <3>4, <3>5 DEF V
    <2> QED BY <2>3, <2>4
<1>5. Inserts(whole, F, T)
    <2> HIDE DEF fold, rest
    <2>1. \A U \in SUBSET T :
              value(U) = IF U = {} THEN F ELSE Insert(whole[rest(U)], Max(U))
        BY <1>4
    <2> HIDE DEF value
    <2> DEFINE right == [U \in SUBSET T |->
                   IF U = {} THEN F ELSE Insert(whole[U \ {Max(U)}], Max(U))]
    <2>2. whole = right
        BY <2>1 DEF rest
    <2> QED BY <2>2 DEF Inserts
<1> QED BY <1>1, <1>5

\* note_presented_obligations gives feedback for what the frame settled and stays
\* within the budget.
LEMMA FeedbackIsBounded ==
    ASSUME NEW F \in SUBSET Commits, Cardinality(F) <= MaxFeedbacks, NEW S \in SUBSET Commits
    PROVE  LET G == MapThenFoldSet(LAMBDA c, H : Insert(H, c), F, LAMBDA c : c, Max, S)
           IN  G \subseteq F \cup S /\ Cardinality(G) <= MaxFeedbacks
<1> DEFINE g == CHOOSE h : Inserts(h, F, S)
<1>1. MapThenFoldSet(LAMBDA c, H : Insert(H, c), F, LAMBDA c : c, Max, S) = g[S]
    BY DEF MapThenFoldSet, Inserts
<1>2. Inserts(g, F, S)
    BY InsertsExists
<1> HIDE DEF g
<1> DEFINE Good(s) == g[s] \subseteq F \cup s /\ Cardinality(g[s]) <= MaxFeedbacks
           Bad == {s \in SUBSET S : ~Good(s)}
<1>3. ASSUME Bad # {}  PROVE FALSE
    <2>1. Bad \subseteq SUBSET S /\ IsFiniteSet(S)
        BY CommitsAreFinite
    <2>2. PICK s \in Bad : \A U \in SUBSET s : U # s => U \notin Bad
        <3> HIDE DEF Bad
        <3> QED BY <1>3, <2>1, SmallestBad
    <2>3. s \in SUBSET S /\ s \in SUBSET Commits /\ ~Good(s)
        BY <2>2
    <2>4. s # {}
        <3>1. g[{}] = F
            BY <1>2 DEF Inserts
        <3> QED BY <2>3, <3>1
    <2> DEFINE m == Max(s)
               r == s \ {m}
    <2>5. m \in s
        BY <2>3, <2>4, LeastAndGreatest
    <2>6. g[s] = Insert(g[r], m)
        BY <1>2, <2>3, <2>4 DEF Inserts
    <2> HIDE DEF m
    <2>7. Good(r)
        BY <2>2, <2>3, <2>5
    <2>8. Insert(g[r], m) \subseteq g[r] \cup {m} /\ Cardinality(Insert(g[r], m)) <= MaxFeedbacks
        <3> DEFINE G == g[r]
        <3>1. G \in SUBSET Commits /\ Cardinality(G) <= MaxFeedbacks /\ m \in Commits
            BY <2>3, <2>5, <2>7
        <3> HIDE DEF G
        <3>2. Insert(G, m) \subseteq G \cup {m} /\ Cardinality(Insert(G, m)) <= MaxFeedbacks
            BY <3>1, InsertIsBounded
        <3> QED BY <3>2 DEF G
    <2> QED BY <2>3, <2>5, <2>6, <2>7, <2>8
<1>4. Good(S)
    BY <1>3
<1> QED BY <1>1, <1>4

-----------------------------------------------------------------------------
(* Versions, scenes and outputs *)

LEMMA VersionFacts ==
    \A v \in Versions : /\ v \in Nat \X Nat /\ v[1] \in Nat /\ v[2] \in Nat
                        /\ v = <<v[1], v[2]>>
                        /\ v[1] = 0 <=> v[2] = 0
                        /\ v = Unversioned <=> v[2] = 0
<1>1. \A s \in Scenes : s.ver \in Nat \X Nat /\ (s.ver[1] = 0 <=> s.ver[2] = 0)
    BY DisplayAssumption
<1> QED BY <1>1 DEF Versions, Unversioned

\* Versions are ordered by epoch, then by generation.
LEMMA VersionOrder ==
    \A u, v, w \in Versions :
        /\ Older(u, v) \/ u = v \/ Older(v, u)
        /\ ~Older(u, u)
        /\ Older(u, v) => ~Older(v, u)
        /\ ~Older(v, u) /\ ~Older(w, v) => ~Older(w, u)
        /\ ~Older(v, u) /\ Older(v, w) => Older(u, w)
        /\ ~Older(u, Unversioned)
BY VersionFacts DEF Older, Unversioned

LEMMA SceneFacts ==
    /\ \A s \in Scenes : /\ s.ver \in Versions /\ s.pic \in Pictures /\ s.target \in Outputs
                         /\ s.damage \subseteq Regions
    /\ \A o \in Outputs : /\ Cells[o] \subseteq Regions /\ Cells[o] # {}
                          /\ None \notin [Cells[o] -> Pictures]
    /\ Unversioned \in Versions /\ None \notin Recorded
    /\ 0 \in Commits /\ MaxCommits \in Nat /\ 0 \in Pictures
    /\ \A c \in Commits : c \in Nat
<1>1. \A s \in Scenes : /\ s.ver \in Versions /\ s.pic \in Pictures /\ s.target \in Outputs
                        /\ s.damage \subseteq Regions
    BY DisplayAssumption DEF Versions
<1>2. None \notin Recorded
    BY DisplayAssumption DEF Recorded, Commits
<1> QED BY <1>1, <1>2, DisplayAssumption DEF Regions, Versions, Commits

LEMMA ContentIsPicture ==
    ASSUME NEW p \in Pictures, NEW c \in Regions
    PROVE  Content(p)[c] \in Pictures /\ Content(p)[c] = IF c \in Covers[p] THEN p ELSE 0
BY SceneFacts DEF Content

\* The last scene's commit id.
IdOf(lst) == IF lst = None THEN 0 ELSE lst.commit

\* Pixels px show the scene lst in the regions R.
Shows(px, R, lst) == \A c \in R : px[c] = Content(lst.scene.pic)[c]

FramesOf(o) ==
    [ver : Versions, commit : Commits, scene : Commits, damage : SUBSET Cells[o],
     pixels : [Cells[o] -> Pictures]]
RuntimesOf(o) ==
    [disabled : BOOLEAN, fb : [Cells[o] -> Pictures] \cup {None}, published : BOOLEAN,
     pend : SUBSET Cells[o], pver : Versions, pcommit : Commits,
     retry : [ver : Versions, commit : Commits] \cup {None},
     flight : FramesOf(o) \cup {None}]

\* Frame f of output o, whose runtime is rt, while lst is the last scene and fl the
\* floor.  It was drawn from lst or an older scene.  When it is not older than the
\* pending damage, nothing was queued since: it shows lst, and what it did not
\* draw was shown before.  ver: only versioned scenes were answered; exact: that,
\* or the backend completes at once.
FrameInv(o, rt, f, lst, fl, ver, exact) ==
    /\ ~rt.disabled /\ lst # None
    /\ f.commit <= f.scene /\ f.scene <= lst.commit /\ ~Older(fl, f.ver)
    /\ f.scene < lst.commit /\ lst.scene.ver # Unversioned => Older(f.ver, lst.scene.ver)
    /\ rt.fb = None => f.damage = Cells[o]
    /\ ver => /\ f.damage # {} /\ f.damage \subseteq rt.pend
              /\ ~Older(f.ver, rt.pver) => f.commit = lst.commit
    /\ exact => /\ Shows(f.pixels, Cells[o] \ rt.pend, lst)
                /\ ~Older(f.ver, rt.pver) =>
                       /\ Shows(f.pixels, Cells[o], lst)
                       /\ rt.fb # None => Shows(rt.fb, Cells[o] \ f.damage, lst)

\* An output that shows a frame shows the last scene wherever no damage is pending;
\* one without a frame has to be drawn as a whole; damage is pending for the last
\* scene.
RuntimeInv(o, rt, lst, fl, ver, exact) ==
    /\ rt \in RuntimesOf(o)
    /\ rt.pcommit <= IdOf(lst)
    /\ rt.published => rt.fb # None
    /\ rt.fb # None => lst # None
    /\ rt.fb = None => rt.pend \in {{}, Cells[o]}
    /\ rt.disabled => rt.pend = {}
    /\ ver /\ rt.pend # {} => rt.pver = fl /\ rt.pcommit = IdOf(lst)
    /\ exact /\ ~rt.disabled /\ rt.fb # None => Shows(rt.fb, Cells[o] \ rt.pend, lst)
    /\ rt.flight # None => FrameInv(o, rt, rt.flight, lst, fl, ver, exact)

\* Whether output o gets damaged by scene s after lst, as Damage says.
Damaged(o, rt, lst, s) ==
    rt.pend \cup
        (IF lst = None /\ s.pic = 0 THEN {}
         ELSE IF lst = None \/ rt.fb = None THEN Cells[o]
         ELSE Cells[o] \cap (Exposed(lst.scene.pic, s.pic) \cup (s.damage \cap Covers[s.pic])))

\* A step that leaves what an output shows and has to draw alone, or disables it.
Calms(rt, rt2) ==
    /\ rt2.fb = rt.fb /\ rt2.published = rt.published /\ rt2.pver = rt.pver
    /\ rt2.pcommit = rt.pcommit /\ rt2.flight \in {rt.flight, None}
    /\ \/ rt2.disabled = rt.disabled /\ rt2.pend = rt.pend
       \/ rt2.disabled /\ rt2.pend = {} /\ rt2.flight = None

LEMMA CalmIsSafe ==
    ASSUME NEW o, NEW rt, NEW rt2 \in RuntimesOf(o), NEW lst, NEW fl,
           NEW ver, NEW exact, NEW ver2, NEW exact2, ver2 => ver, exact2 => exact,
           RuntimeInv(o, rt, lst, fl, ver, exact), Calms(rt, rt2)
    PROVE  RuntimeInv(o, rt2, lst, fl, ver2, exact2)
<1>1. CASE rt2.disabled = rt.disabled /\ rt2.pend = rt.pend
    <2>1. rt2.flight # None => FrameInv(o, rt2, rt2.flight, lst, fl, ver2, exact2)
        BY <1>1 DEF Calms, RuntimeInv, FrameInv
    <2> QED BY <1>1, <2>1 DEF Calms, RuntimeInv
<1>2. CASE rt2.disabled /\ rt2.pend = {} /\ rt2.flight = None
    BY <1>2 DEF Calms, RuntimeInv
<1> QED BY <1>1, <1>2 DEF Calms

\* An output that is new and, unless it has nothing to draw, is drawn as a whole.
LEMMA FreshIsSafe ==
    ASSUME NEW o, NEW rt \in RuntimesOf(o), NEW lst, NEW fl, NEW ver, NEW exact,
           rt.fb = None, ~rt.published, ~rt.disabled, rt.flight = None,
           rt.pend \in {{}, Cells[o]}, rt.pcommit <= IdOf(lst),
           rt.pend # {} => rt.pver = fl /\ rt.pcommit = IdOf(lst)
    PROVE  RuntimeInv(o, rt, lst, fl, ver, exact)
BY DEF RuntimeInv

\* A frame composed from the last scene over what the output shows.
LEMMA FrameIsExact ==
    ASSUME NEW o \in Outputs, NEW rt, NEW lst \in Recorded, NEW fl, NEW ver, NEW exact,
           RuntimeInv(o, rt, lst, fl, ver, exact),
           ~rt.disabled, rt.pend # {}, ~Older(fl, lst.scene.ver),
           NEW f,
           f = [ver |-> lst.scene.ver, commit |-> rt.pcommit, scene |-> lst.commit,
                damage |-> rt.pend,
                pixels |-> [c \in Cells[o] |->
                              IF c \in rt.pend THEN Content(lst.scene.pic)[c]
                              ELSE IF rt.fb = None THEN 0 ELSE rt.fb[c]]]
    PROVE  f \in FramesOf(o) /\ FrameInv(o, rt, f, lst, fl, ver, exact)
<1>1. rt \in RuntimesOf(o) /\ lst # None /\ lst.scene \in Scenes /\ lst.commit \in Commits
      /\ IdOf(lst) = lst.commit
    BY SceneFacts DEF RuntimeInv, Recorded, IdOf
<1>2. /\ f.ver = lst.scene.ver /\ f.commit = rt.pcommit /\ f.scene = lst.commit
      /\ f.damage = rt.pend
      /\ \A c \in Cells[o] : f.pixels[c] = IF c \in rt.pend THEN Content(lst.scene.pic)[c]
                                           ELSE IF rt.fb = None THEN 0 ELSE rt.fb[c]
    OBVIOUS
<1>3. f.pixels \in [Cells[o] -> Pictures]
    <2>1. \A c \in Cells[o] : Content(lst.scene.pic)[c] \in Pictures
        BY <1>1, SceneFacts, ContentIsPicture
    <2>2. \A c \in Cells[o] : rt.fb # None => rt.fb[c] \in Pictures
        BY <1>1 DEF RuntimesOf
    <2>3. \A c \in Cells[o] : f.pixels[c] \in Pictures
        BY <1>2, <2>1, <2>2, SceneFacts
    <2> QED BY <2>3
<1>4. f \in FramesOf(o)
    <2>1. rt.pcommit \in Commits /\ rt.pend \in SUBSET Cells[o] /\ lst.scene.ver \in Versions
        BY <1>1, SceneFacts DEF RuntimesOf
    <2> DEFINE px == f.pixels
    <2>2. f = [ver |-> lst.scene.ver, commit |-> rt.pcommit, scene |-> lst.commit,
               damage |-> rt.pend, pixels |-> px]
        OBVIOUS
    <2>3. px \in [Cells[o] -> Pictures]
        BY <1>3
    <2> HIDE DEF px
    <2> QED BY <1>1, <2>1, <2>2, <2>3 DEF FramesOf
<1>5. rt.fb = None => rt.pend = Cells[o]
    BY DEF RuntimeInv
<1>6. exact => Shows(f.pixels, Cells[o], lst)
    BY <1>2, <1>5 DEF RuntimeInv, Shows
<1>7. exact /\ rt.fb # None => Shows(rt.fb, Cells[o] \ f.damage, lst)
    BY <1>2 DEF RuntimeInv
<1>8. ver => f.commit = lst.commit
    BY <1>1, <1>2 DEF RuntimeInv
<1>9. Shows(f.pixels, Cells[o], lst) => Shows(f.pixels, Cells[o] \ rt.pend, lst)
    BY DEF Shows
<1>10. f.commit <= f.scene /\ f.scene <= lst.commit /\ ~(f.scene < lst.commit)
    BY <1>1, <1>2, SceneFacts DEF RuntimeInv
<1> QED BY <1>1, <1>2, <1>4, <1>5, <1>6, <1>7, <1>8, <1>9, <1>10 DEF FrameInv

\* A scene that covers the same pictures as before where it damages nothing.
LEMMA UndamagedIsSame ==
    ASSUME NEW p \in Pictures, NEW q \in Pictures, NEW c \in Regions, c \notin Exposed(p, q)
    PROVE  Content(p)[c] = Content(q)[c]
BY ContentIsPicture DEF Exposed

\* The runtime once scene s, which gets commit id k, has been queued after lst.
Queued(o, rt, lst, s, k) ==
    LET D == Damaged(o, rt, lst, s)
    IN  IF ~rt.disabled /\ D # {} THEN [rt EXCEPT !.pend = D, !.pver = s.ver, !.pcommit = k]
        ELSE rt

\* Scene lst2 takes the place of lst as the last one: it is newer than the floor, or
\* lst again.
Succeeds(lst, fl, ver, exact, lst2, fl2, ver2, exact2) ==
    /\ (ver2 => ver) /\ (exact2 => exact)
    /\ IdOf(lst) <= lst2.commit /\ ~Older(fl2, fl) /\ (ver2 => lst2.scene.ver = fl2)
    /\ \/ lst2 = lst /\ fl2 = fl
       \/ lst2.scene.ver # Unversioned => Older(fl, lst2.scene.ver)
    /\ lst2.scene.ver = Unversioned /\ lst2 # lst => ~ver2

LEMMA QueueIsSafe ==
    ASSUME NEW o \in Outputs, NEW rt, NEW lst \in Recorded \cup {None}, NEW fl \in Versions,
           NEW ver, NEW exact, RuntimeInv(o, rt, lst, fl, ver, exact),
           NEW lst2 \in Recorded, NEW fl2 \in Versions, NEW ver2, NEW exact2,
           Succeeds(lst, fl, ver, exact, lst2, fl2, ver2, exact2),
           rt.flight # None /\ exact2 => ver2
    PROVE  RuntimeInv(o, Queued(o, rt, lst, lst2.scene, lst2.commit), lst2, fl2, ver2, exact2)
<1> DEFINE s == lst2.scene
           D == Damaged(o, rt, lst, s)
           rt2 == Queued(o, rt, lst, s, lst2.commit)
<1>0. /\ s \in Scenes /\ lst2.scene = s
      /\ (ver2 => ver) /\ (exact2 => exact)
      /\ IdOf(lst) <= lst2.commit /\ ~Older(fl2, fl) /\ (ver2 => s.ver = fl2)
      /\ \/ lst2 = lst /\ fl2 = fl
         \/ s.ver # Unversioned => Older(fl, s.ver)
      /\ s.ver = Unversioned /\ lst2 # lst => ~ver2
      /\ rt2 = IF ~rt.disabled /\ D # {}
               THEN [rt EXCEPT !.pend = D, !.pver = s.ver, !.pcommit = lst2.commit]
               ELSE rt
      /\ D = Damaged(o, rt, lst, s)
    BY DEF Succeeds, Recorded, Queued
<1> HIDE DEF s, D, rt2
<1> USE <1>0
<1> SUFFICES RuntimeInv(o, rt2, lst2, fl2, ver2, exact2)
    BY DEF rt2, s
<1> DEFINE f == rt.flight
<1>1. /\ rt \in RuntimesOf(o) /\ s.ver \in Versions /\ s.pic \in Pictures
      /\ lst2 # None /\ IdOf(lst2) = lst2.commit /\ lst2.commit \in Commits
      /\ Cells[o] \subseteq Regions /\ IdOf(lst) \in Commits
    BY SceneFacts DEF RuntimeInv, Recorded, IdOf
<1>2. rt.pend \subseteq Cells[o] /\ rt.pend \subseteq D /\ D \subseteq Cells[o]
    BY <1>1 DEF Damaged, RuntimesOf
<1>3. rt.fb = None => D \in {{}, Cells[o]}
    BY <1>2 DEF RuntimeInv, Damaged
<1>4. ASSUME exact, ~rt.disabled, rt.fb # None
      PROVE  Shows(rt.fb, Cells[o] \ D, lst2)
    <2>1. lst # None /\ lst \in Recorded /\ lst.scene.pic \in Pictures
        BY <1>4, SceneFacts DEF RuntimeInv, Recorded
    <2>2. Shows(rt.fb, Cells[o] \ rt.pend, lst)
        BY <1>4 DEF RuntimeInv
    <2>3. D = rt.pend \cup (Cells[o] \cap (Exposed(lst.scene.pic, s.pic)
                                           \cup (s.damage \cap Covers[s.pic])))
        BY <1>4, <2>1 DEF Damaged
    <2>4. \A c \in Cells[o] \ D : Content(lst.scene.pic)[c] = Content(s.pic)[c]
        BY <1>1, <2>1, <2>3, UndamagedIsSame
    <2> QED BY <1>2, <2>2, <2>4 DEF Shows
\* Frames in flight: drawn for lst or before, on pixels that D covers or leaves.
<1>5. ASSUME f # None
      PROVE  /\ FrameInv(o, rt, f, lst, fl, ver, exact) /\ f \in FramesOf(o)
             /\ lst # None /\ lst \in Recorded /\ lst.scene.ver \in Versions
             /\ f.ver \in Versions /\ lst.commit = IdOf(lst)
             /\ f.commit \in Nat /\ f.scene \in Nat /\ lst.commit \in Nat /\ lst2.commit \in Nat
    <2>1. FrameInv(o, rt, f, lst, fl, ver, exact) /\ f \in FramesOf(o)
        BY <1>1, <1>5 DEF RuntimeInv, RuntimesOf
    <2>2. lst \in Recorded
        BY <2>1 DEF FrameInv
    <2> QED BY <1>1, <2>1, <2>2, SceneFacts DEF FrameInv, FramesOf, Recorded, IdOf
<1>6. ASSUME f # None
      PROVE  /\ ~rt.disabled /\ f.commit <= f.scene /\ f.scene <= lst2.commit
             /\ ~Older(fl2, f.ver)
             /\ f.scene < lst2.commit /\ s.ver # Unversioned => Older(f.ver, s.ver)
             /\ rt.fb = None => f.damage = Cells[o]
    <2>1. /\ ~rt.disabled /\ f.commit <= f.scene /\ f.scene <= lst.commit /\ ~Older(fl, f.ver)
          /\ f.scene < lst.commit /\ lst.scene.ver # Unversioned => Older(f.ver, lst.scene.ver)
          /\ rt.fb = None => f.damage = Cells[o]
        BY <1>5, <1>6 DEF FrameInv
    <2>2. ~Older(fl2, f.ver)
        BY <1>5, <1>6, <2>1, VersionOrder
    <2>3. f.scene <= lst2.commit
        BY <1>5, <1>6, <2>1
    <2>4. s.ver # Unversioned /\ Older(fl, s.ver) => Older(f.ver, s.ver)
        BY <1>1, <1>5, <1>6, <2>1, VersionOrder
    <2> QED BY <2>1, <2>2, <2>3, <2>4
\* Under ver2 a new scene is newer than every frame in flight.
<1>7. ASSUME f # None, ver2
      PROVE  /\ D # {} /\ f.damage # {} /\ f.damage \subseteq D
             /\ ~Older(f.ver, s.ver) => lst2 = lst /\ fl2 = fl /\ ~Older(f.ver, rt.pver)
    <2>1. /\ f.damage # {} /\ f.damage \subseteq rt.pend /\ ~Older(fl, f.ver)
        BY <1>5, <1>7 DEF FrameInv
    <2>2. rt.pver = fl
        BY <1>7, <2>1 DEF RuntimeInv
    <2>3. lst2 # lst => s.ver # Unversioned /\ Older(fl, s.ver)
        BY <1>7
    <2>4. lst2 # lst => Older(f.ver, s.ver)
        BY <1>1, <1>5, <1>7, <2>1, <2>3, VersionOrder
    <2>5. lst2 = lst /\ fl2 # fl /\ s.ver # Unversioned => Older(fl, s.ver)
        OBVIOUS
    <2>6. lst2 = lst /\ fl2 # fl => Older(f.ver, s.ver)
        BY <1>1, <1>5, <1>7, <2>1, <2>5, VersionOrder
    <2> QED BY <1>2, <1>7, <2>1, <2>2, <2>4, <2>6
<1>8. ASSUME f # None, exact2
      PROVE  /\ Shows(f.pixels, Cells[o] \ D, lst2)
             /\ ~Older(f.ver, s.ver) =>
                    /\ Shows(f.pixels, Cells[o], lst2)
                    /\ rt.fb # None => Shows(rt.fb, Cells[o] \ f.damage, lst2)
    <2>1. ver2 /\ exact
        BY <1>8
    <2>2. Shows(f.pixels, Cells[o] \ rt.pend, lst)
        BY <1>5, <1>8, <2>1 DEF FrameInv
    <2>3. Shows(f.pixels, Cells[o] \ D, lst2)
        <3>1. CASE rt.fb = None
            <4>1. D = Cells[o]
                BY <1>3, <1>7, <1>8, <2>1, <3>1
            <4> QED BY <4>1 DEF Shows
        <3>2. CASE rt.fb # None
            <4>1. lst.scene.pic \in Pictures
                BY <1>5, <1>8, SceneFacts DEF Recorded
            <4>2. D = rt.pend \cup (Cells[o] \cap (Exposed(lst.scene.pic, s.pic)
                                                   \cup (s.damage \cap Covers[s.pic])))
                BY <1>5, <1>8, <3>2 DEF Damaged
            <4>3. \A c \in Cells[o] \ D : Content(lst.scene.pic)[c] = Content(s.pic)[c]
                BY <1>1, <4>1, <4>2, UndamagedIsSame
            <4> QED BY <1>2, <2>2, <4>3 DEF Shows
        <3> QED BY <3>1, <3>2
    <2>4. ~Older(f.ver, s.ver) =>
              /\ Shows(f.pixels, Cells[o], lst2)
              /\ rt.fb # None => Shows(rt.fb, Cells[o] \ f.damage, lst2)
        BY <1>5, <1>7, <1>8, <2>1 DEF FrameInv
    <2> QED BY <2>3, <2>4
<1>9. CASE ~rt.disabled /\ D # {}
    <2>1. rt2 = [rt EXCEPT !.pend = D, !.pver = s.ver, !.pcommit = lst2.commit]
        BY <1>9
    <2>2. /\ rt2 \in RuntimesOf(o) /\ rt2.pend = D /\ rt2.pver = s.ver
          /\ rt2.pcommit = lst2.commit /\ rt2.fb = rt.fb /\ rt2.flight = f
          /\ rt2.disabled = rt.disabled /\ rt2.published = rt.published
        BY <1>1, <1>2, <2>1 DEF RuntimesOf
    <2>3. f # None => FrameInv(o, rt2, f, lst2, fl2, ver2, exact2)
        <3>1. ASSUME f # None  PROVE FrameInv(o, rt2, f, lst2, fl2, ver2, exact2)
            <4>1. ver2 /\ ~Older(f.ver, s.ver) => f.commit = lst2.commit
                BY <1>5, <1>7, <3>1 DEF FrameInv
            <4> HIDE DEF f
            <4> QED BY <1>1, <1>6, <1>7, <1>8, <2>2, <3>1, <4>1 DEF FrameInv
        <3> QED BY <3>1
    <2>4. lst2.commit <= IdOf(lst2)
        BY <1>1, SceneFacts
    <2>5. exact2 /\ rt2.fb # None => Shows(rt2.fb, Cells[o] \ rt2.pend, lst2)
        BY <1>4, <1>9, <2>2
    <2> HIDE DEF f
    <2>6. rt2.published => rt2.fb # None
        BY <2>2 DEF RuntimeInv
    <2> QED BY <1>1, <1>3, <1>9, <2>2, <2>3, <2>4, <2>5, <2>6 DEF RuntimeInv
<1>10. CASE rt.disabled \/ D = {}
    <2>1. rt2 = rt /\ rt.pend = {}
        BY <1>2, <1>10 DEF RuntimeInv
    <2>2. ASSUME f # None  PROVE FrameInv(o, rt, f, lst2, fl2, ver2, exact2)
        <3>1. D = {} /\ ~ver2 /\ ~exact2
            BY <1>6, <1>7, <1>10, <2>2
        <3> QED BY <1>1, <1>6, <2>2, <3>1 DEF FrameInv
    <2>3. exact2 /\ ~rt.disabled /\ rt.fb # None => Shows(rt.fb, Cells[o] \ rt.pend, lst2)
        BY <1>4, <1>10, <2>1
    <2>4. rt.pcommit <= IdOf(lst2)
        <3>1. rt.pcommit \in Nat /\ IdOf(lst) \in Nat /\ lst2.commit \in Nat
            BY <1>1, SceneFacts DEF RuntimesOf
        <3>2. rt.pcommit <= IdOf(lst)
            BY DEF RuntimeInv
        <3> QED BY <1>1, <3>1, <3>2
    <2> QED BY <1>1, <2>1, <2>2, <2>3, <2>4 DEF RuntimeInv
<1> QED BY <1>9, <1>10

\* A frame that was presented.
LEMMA PresentedIsSafe ==
    ASSUME NEW o \in Outputs, NEW rt, NEW f \in FramesOf(o), NEW lst, NEW fl, NEW ver,
           NEW exact, RuntimeInv(o, rt, lst, fl, ver, exact),
           FrameInv(o, rt, f, lst, fl, ver, exact), IdOf(lst) \in Nat
    PROVE  RuntimeInv(o, Presented(rt, f), lst, fl, ver, exact)
<1> DEFINE n == Presented(rt, f)
<1>1. rt \in RuntimesOf(o) /\ f.pixels \in [Cells[o] -> Pictures] /\ f.pixels # None
      /\ lst # None /\ ~rt.disabled /\ 0 \in Commits /\ rt.pend \subseteq Cells[o]
    BY SceneFacts DEF RuntimeInv, FrameInv, FramesOf, RuntimesOf
<1> DEFINE px == f.pixels
<1>2. CASE Older(f.ver, rt.pver)
    <2>1. n = [rt EXCEPT !.fb = px, !.published = TRUE, !.flight = None]
        BY <1>2 DEF Presented
    <2>2. px \in [Cells[o] -> Pictures]
        BY <1>1
    <2> HIDE DEF n, px
    <2>3. /\ n \in RuntimesOf(o) /\ n.fb = px /\ n.published /\ n.flight = None
          /\ n.pend = rt.pend /\ n.pver = rt.pver /\ n.pcommit = rt.pcommit
          /\ n.disabled = rt.disabled
        BY <1>1, <2>1, <2>2 DEF RuntimesOf
    <2>4. exact => Shows(n.fb, Cells[o] \ n.pend, lst)
        BY <2>3 DEF FrameInv, px
    <2> QED BY <1>1, <2>3, <2>4 DEF RuntimeInv, px, n
<1>3. CASE ~Older(f.ver, rt.pver)
    <2>1. n = [rt EXCEPT !.fb = px, !.published = TRUE, !.flight = None,
                         !.pend = {}, !.pcommit = 0, !.retry = None]
        BY <1>1, <1>3 DEF Presented, RuntimesOf
    <2>2. px \in [Cells[o] -> Pictures]
        BY <1>1
    <2> HIDE DEF n, px
    <2>3. /\ n \in RuntimesOf(o) /\ n.fb = px /\ n.published /\ n.flight = None
          /\ n.pend = {} /\ n.pver = rt.pver /\ n.pcommit = 0 /\ n.disabled = rt.disabled
        BY <1>1, <2>1, <2>2 DEF RuntimesOf
    <2>4. exact => Shows(n.fb, Cells[o] \ n.pend, lst)
        BY <1>3, <2>3 DEF FrameInv, Shows, px
    <2>5. n.pcommit <= IdOf(lst)
        BY <2>3
    <2> QED BY <1>1, <2>3, <2>4, <2>5 DEF RuntimeInv, px, n
<1> QED BY <1>2, <1>3

\* A frame that failed has to be drawn again, unless something newer is pending.
LEMMA FailedIsSafe ==
    ASSUME NEW o \in Outputs, NEW rt, NEW f \in FramesOf(o), NEW lst \in Recorded,
           NEW fl \in Versions, NEW ver, NEW exact, RuntimeInv(o, rt, lst, fl, ver, exact),
           FrameInv(o, rt, f, lst, fl, ver, exact)
    PROVE  /\ RuntimeInv(o, Failed(rt, f), lst, fl, ver, exact)
           /\ ver => Failed(rt, f).pend # {}
<1> DEFINE n == Failed(rt, f)
           again == [ver |-> f.ver, commit |-> f.commit]
<1>1. /\ rt \in RuntimesOf(o) /\ lst # None /\ ~rt.disabled /\ rt.pend \subseteq Cells[o]
      /\ f.ver \in Versions /\ f.commit \in Commits /\ f.scene \in Commits
      /\ f.damage \in SUBSET Cells[o] /\ lst.commit \in Commits /\ rt.pver \in Versions
      /\ IdOf(lst) = lst.commit
    BY SceneFacts DEF RuntimeInv, FrameInv, FramesOf, RuntimesOf, Recorded, IdOf
<1>2. again \in [ver : Versions, commit : Commits]
    BY <1>1
<1>3. CASE Older(f.ver, rt.pver)
    <2>1. n = [rt EXCEPT !.flight = None, !.retry = again]
        BY <1>3 DEF Failed
    <2> HIDE DEF n, again
    <2>2. /\ n \in RuntimesOf(o) /\ n.fb = rt.fb /\ n.published = rt.published
          /\ n.flight = None /\ n.pend = rt.pend /\ n.pver = rt.pver
          /\ n.pcommit = rt.pcommit /\ n.disabled = rt.disabled
        BY <1>1, <1>2, <2>1 DEF RuntimesOf
    <2>3. ver => n.pend # {}
        BY <2>2 DEF FrameInv
    <2> QED BY <2>2, <2>3 DEF RuntimeInv, n
<1>4. CASE ~Older(f.ver, rt.pver)
    <2>1. n = [rt EXCEPT !.flight = None, !.retry = again, !.pend = f.damage,
                         !.pver = f.ver, !.pcommit = f.commit]
        BY <1>1, <1>4 DEF Failed, RuntimesOf
    <2> HIDE DEF n, again
    <2>2. /\ n \in RuntimesOf(o) /\ n.fb = rt.fb /\ n.published = rt.published
          /\ n.flight = None /\ n.pend = f.damage /\ n.pver = f.ver
          /\ n.pcommit = f.commit /\ n.disabled = rt.disabled
        BY <1>1, <1>2, <2>1 DEF RuntimesOf
    <2>3. ver => n.pend # {} /\ n.pver = fl /\ n.pcommit = IdOf(lst)
        <3>1. ASSUME ver  PROVE f.damage # {} /\ f.ver = fl /\ f.commit = IdOf(lst)
            <4>1. f.damage # {} /\ f.damage \subseteq rt.pend /\ ~Older(fl, f.ver)
                  /\ f.commit = lst.commit
                BY <1>4, <3>1 DEF FrameInv
            <4>2. rt.pver = fl
                BY <3>1, <4>1 DEF RuntimeInv
            <4> QED BY <1>1, <1>4, <4>1, <4>2, VersionOrder
        <3> QED BY <2>2, <3>1
    <2>4. n.pcommit <= IdOf(lst)
        <3>1. f.commit \in Nat /\ f.scene \in Nat /\ lst.commit \in Nat
            BY <1>1, SceneFacts
        <3>2. f.commit <= f.scene /\ f.scene <= lst.commit
            BY DEF FrameInv
        <3> QED BY <1>1, <2>2, <3>1, <3>2
    <2>5. exact /\ n.fb # None => Shows(n.fb, Cells[o] \ n.pend, lst)
        BY <1>4, <2>2 DEF FrameInv
    <2>6. n.fb = None => n.pend = Cells[o]
        BY <2>2 DEF FrameInv
    <2>7. n.published => n.fb # None
        BY <2>2 DEF RuntimeInv
    <2> QED BY <1>1, <2>2, <2>3, <2>4, <2>5, <2>6, <2>7 DEF RuntimeInv, n
<1> QED BY <1>3, <1>4

-----------------------------------------------------------------------------
(* The invariant of displayd's scenes, outputs, obligations and feedback. *)

Typed ==
    /\ immediate \in BOOLEAN /\ recon \in {"Recovering", "Awaiting", "Ready"}
    /\ last \in Recorded \cup {None} /\ floor \in Versions
    /\ nextCommit \in 1 .. MaxCommits + 1
    /\ store \in {Handle(s) : s \in Scenes} \cup {None}
    /\ mishaps \in 0 .. MaxMishaps
    /\ DOMAIN told \subseteq Commits /\ \A c \in DOMAIN told : told[c] \in Scenes
    /\ shown \in [Outputs -> Commits] /\ astray \subseteq Commits
    /\ last # None /\ last.scene.ver # Unversioned => last.scene.ver = floor

OutputsInv ==
    /\ DOMAIN outputs \subseteq Outputs
    /\ \A o \in DOMAIN outputs :
           /\ RuntimeInv(o, outputs[o], last, floor, OnlyVersioned, immediate \/ OnlyVersioned)
           /\ immediate => outputs[o].flight = None

\* Obligations are about scenes that were answered; none is newer than the floor, and
\* a versioned one that is newer than a frame in flight has a newer version too.
ObligationsInv ==
    /\ DOMAIN obligations \subseteq Commits
    /\ Cardinality(DOMAIN obligations) <= MaxObligations
    /\ \A c \in DOMAIN obligations :
           LET ob == obligations[c]
           IN  /\ ob \in [ver : Versions, out : Outputs]
               /\ c <= IdOf(last) /\ ~Older(floor, ob.ver)
               /\ c \in DOMAIN told /\ told[c].ver = ob.ver
               /\ \A o \in DOMAIN outputs :
                      LET f == outputs[o].flight
                      IN  f # None /\ f.scene < c /\ ob.ver # Unversioned =>
                              Older(f.ver, ob.ver)

BackedInv ==
    OnlyVersioned =>
        \A c \in DOMAIN obligations \ astray :
            LET ob == obligations[c]
            IN  ob.out \in Active /\ ob.ver[1] = floor[1] => outputs[ob.out].pend # {}

FeedbackInv ==
    feedbacks \subseteq Commits /\ Cardinality(feedbacks) <= MaxFeedbacks /\ FeedbackIsEarned

DisplayInv ==
    /\ CommitsInOrder /\ Typed /\ OutputsInv /\ ObligationsInv /\ BackedInv /\ FeedbackInv

\* An answer is never taken back.
ToldGrows == \A c \in DOMAIN told : c \in DOMAIN told' /\ told'[c] = told[c]

LEMMA VersionedBefore == ToldGrows /\ OnlyVersioned' => OnlyVersioned
BY DEF ToldGrows, OnlyVersioned

LEMMA LastFacts ==
    ASSUME Typed
    PROVE  /\ IdOf(last) \in Commits /\ IdOf(last) \in Nat
           /\ last # None => /\ last \in Recorded /\ last.scene \in Scenes
                             /\ last.commit \in Commits /\ IdOf(last) = last.commit
                             /\ ~Older(floor, last.scene.ver)
<1>1. last # None => last \in Recorded /\ last.scene \in Scenes /\ last.commit \in Commits
    BY DEF Typed, Recorded
<1>2. last # None => ~Older(floor, last.scene.ver)
    BY <1>1, SceneFacts, VersionOrder DEF Typed
<1> QED BY <1>1, <1>2, SceneFacts DEF IdOf

LEMMA InitDisplay == Init => DisplayInv
<1> SUFFICES ASSUME Init  PROVE DisplayInv
    OBVIOUS
<1>1. CommitsInOrder
    BY InitInOrder
<1>2. Typed
    BY SceneFacts, DisplayAssumption DEF Init, Typed
<1>3. \A o \in Outputs : Fresh \in RuntimesOf(o)
    BY SceneFacts DEF Fresh, RuntimesOf
<1>4. OutputsInv
    <2>1. DOMAIN outputs \subseteq Outputs /\ last = None /\ floor = Unversioned
          /\ \A o \in DOMAIN outputs : outputs[o] = Fresh
        BY DisplayAssumption DEF Init
    <2>2. Fresh.fb = None /\ ~Fresh.published /\ ~Fresh.disabled /\ Fresh.flight = None
          /\ Fresh.pend = {} /\ Fresh.pcommit = 0
        BY DEF Fresh
    <2>3. 0 <= IdOf(last)
        BY <2>1 DEF IdOf
    <2>4. \A o \in Outputs :
              RuntimeInv(o, Fresh, last, floor, OnlyVersioned, immediate \/ OnlyVersioned)
        BY <1>3, <2>2, <2>3, FreshIsSafe
    <2> QED BY <2>1, <2>2, <2>4 DEF OutputsInv
<1>5. ObligationsInv
    BY FS_EmptySet, DisplayAssumption DEF Init, ObligationsInv
<1>6. BackedInv
    BY DEF Init, BackedInv
<1>7. FeedbackInv
    BY FS_EmptySet, DisplayAssumption DEF Init, FeedbackInv, FeedbackIsEarned
<1> QED BY <1>1, <1>2, <1>4, <1>5, <1>6, <1>7 DEF DisplayInv

-----------------------------------------------------------------------------
(* Steps that draw and queue nothing *)

\* The steps under which outputs keep what they show and have to draw, or go away.
Calm ==
    /\ UNCHANGED <<immediate, last, floor, shown>>
    /\ ToldGrows
    /\ DOMAIN outputs' \subseteq DOMAIN outputs
    /\ \A o \in DOMAIN outputs' :
           outputs'[o] \in RuntimesOf(o) /\ Calms(outputs[o], outputs'[o])

\* Obligations stay, but a failed request may have moved some.
Moves ==
    /\ DOMAIN obligations' = DOMAIN obligations
    /\ astray \subseteq astray'
    /\ \A c \in DOMAIN obligations :
           /\ obligations'[c] \in [ver : Versions, out : Outputs]
           /\ obligations'[c].ver = obligations[c].ver
           /\ obligations'[c].out # obligations[c].out => c \in astray'

LEMMA CalmKeepsOutputs ==
    ASSUME DisplayInv, Calm
    PROVE  OutputsInv'
<1>1. OnlyVersioned' => OnlyVersioned
    BY VersionedBefore DEF Calm
<1>2. DOMAIN outputs' \subseteq Outputs
    BY DEF Calm, DisplayInv, OutputsInv
<1>3. ASSUME NEW o \in DOMAIN outputs'
      PROVE  /\ RuntimeInv(o, outputs[o]', last', floor', OnlyVersioned',
                           immediate' \/ OnlyVersioned')
             /\ immediate' => outputs[o]'.flight = None
    <2>1. /\ o \in DOMAIN outputs /\ last' = last /\ floor' = floor /\ immediate' = immediate
          /\ outputs'[o] \in RuntimesOf(o) /\ Calms(outputs[o], outputs'[o])
        BY <1>3 DEF Calm
    <2>2. /\ RuntimeInv(o, outputs[o], last, floor, OnlyVersioned, immediate \/ OnlyVersioned)
          /\ immediate => outputs[o].flight = None
        BY <2>1 DEF DisplayInv, OutputsInv
    <2> DEFINE rt == outputs[o]
               rt2 == outputs'[o]
               v == OnlyVersioned
               v2 == OnlyVersioned'
               x == immediate \/ v
               x2 == immediate \/ v2
    <2>3. /\ RuntimeInv(o, rt, last, floor, v, x) /\ rt2 \in RuntimesOf(o) /\ Calms(rt, rt2)
          /\ (v2 => v) /\ (x2 => x)
        BY <1>1, <2>1, <2>2
    <2> HIDE DEF rt, rt2, v, v2, x, x2
    <2>4. RuntimeInv(o, rt2, last, floor, v2, x2)
        BY <2>3, CalmIsSafe
    <2>5. immediate => rt2.flight = None
        BY <2>1, <2>2 DEF Calms, rt, rt2
    <2> QED BY <2>1, <2>4, <2>5 DEF rt2, v2, x2
<1> QED BY <1>2, <1>3 DEF OutputsInv

LEMMA CalmKeepsObligations ==
    ASSUME DisplayInv, Calm, Moves
    PROVE  ObligationsInv' /\ BackedInv'
<1>1. OnlyVersioned' => OnlyVersioned
    BY VersionedBefore DEF Calm
<1>2. \A o \in DOMAIN outputs' :
          /\ o \in DOMAIN outputs /\ outputs'[o].flight \in {outputs[o].flight, None}
          /\ ~outputs'[o].disabled =>
                 ~outputs[o].disabled /\ outputs'[o].pend = outputs[o].pend
    BY DEF Calm, Calms
<1>3. last' = last /\ floor' = floor
    BY DEF Calm
<1>4. ObligationsInv'
    <2>1. ASSUME NEW c \in DOMAIN obligations'
          PROVE  LET ob == obligations'[c]
                 IN  /\ ob \in [ver : Versions, out : Outputs]
                     /\ c <= IdOf(last) /\ ~Older(floor, ob.ver)
                     /\ c \in DOMAIN told' /\ told'[c].ver = ob.ver
                     /\ \A o \in DOMAIN outputs' :
                            LET f == outputs'[o].flight
                            IN  f # None /\ f.scene < c /\ ob.ver # Unversioned =>
                                    Older(f.ver, ob.ver)
        <3>1. c \in DOMAIN obligations /\ obligations'[c].ver = obligations[c].ver
              /\ obligations'[c] \in [ver : Versions, out : Outputs]
            BY <2>1 DEF Moves
        <3>2. c \in DOMAIN told' /\ told'[c].ver = obligations[c].ver
            BY <3>1 DEF Calm, ToldGrows, DisplayInv, ObligationsInv
        <3>3. c <= IdOf(last) /\ ~Older(floor, obligations[c].ver)
            BY <3>1 DEF DisplayInv, ObligationsInv
        <3>4. \A o \in DOMAIN outputs :
                  LET f == outputs[o].flight
                  IN  f # None /\ f.scene < c /\ obligations[c].ver # Unversioned =>
                          Older(f.ver, obligations[c].ver)
            BY <3>1 DEF DisplayInv, ObligationsInv
        <3> QED BY <1>2, <3>1, <3>2, <3>3, <3>4
    <2>2. DOMAIN obligations' \subseteq Commits
          /\ Cardinality(DOMAIN obligations') <= MaxObligations
        BY DEF Moves, DisplayInv, ObligationsInv
    <2> QED BY <1>3, <2>1, <2>2 DEF ObligationsInv
<1>5. BackedInv'
    <2> SUFFICES ASSUME OnlyVersioned', NEW c \in DOMAIN obligations' \ astray',
                        obligations'[c].out \in Active', obligations'[c].ver[1] = floor'[1]
                 PROVE  outputs'[obligations'[c].out].pend # {}
        BY DEF BackedInv
    <2>1. c \in DOMAIN obligations \ astray /\ obligations'[c].out = obligations[c].out
          /\ obligations'[c].ver = obligations[c].ver
        BY DEF Moves
    <2> DEFINE out == obligations[c].out
    <2>2. out \in Active /\ outputs'[out].pend = outputs[out].pend
        BY <1>2, <2>1 DEF Active
    <2> QED BY <1>1, <1>3, <2>1, <2>2 DEF DisplayInv, BackedInv
<1> QED BY <1>4, <1>5

LEMMA CalmKeepsFeedback ==
    ASSUME DisplayInv, Calm, feedbacks' \subseteq feedbacks
    PROVE  FeedbackInv'
<1>1. IsFiniteSet(feedbacks) /\ feedbacks \subseteq Commits
    BY CommitsAreFinite DEF DisplayInv, FeedbackInv
<1>2. Cardinality(feedbacks') <= Cardinality(feedbacks)
    BY <1>1, FS_Subset
<1>3. Cardinality(feedbacks') \in Nat /\ Cardinality(feedbacks) \in Nat /\ MaxFeedbacks \in Nat
    BY <1>1, CommitsAreFinite, DisplayAssumption
<1> QED BY <1>1, <1>2, <1>3 DEF DisplayInv, FeedbackInv, FeedbackIsEarned, Calm

LEMMA CalmStep ==
    ASSUME DisplayInv, CommitsInOrder', Typed', Calm, Moves, feedbacks' \subseteq feedbacks
    PROVE  DisplayInv'
BY CalmKeepsOutputs, CalmKeepsObligations, CalmKeepsFeedback DEF DisplayInv

LEMMA RuntimeFacts ==
    ASSUME DisplayInv, NEW o \in DOMAIN outputs
    PROVE  /\ o \in Outputs /\ outputs[o] \in RuntimesOf(o)
           /\ RuntimeInv(o, outputs[o], last, floor, OnlyVersioned, immediate \/ OnlyVersioned)
           /\ immediate => outputs[o].flight = None
BY DEF DisplayInv, OutputsInv, RuntimeInv

LEMMA ReboundFacts ==
    ASSUME DisplayInv, NEW ver, NEW o \in Outputs
    PROVE  LET R == Rebound(ver, o)
           IN  /\ DOMAIN R = DOMAIN obligations
               /\ \A c \in DOMAIN obligations :
                      /\ R[c] \in [ver : Versions, out : Outputs]
                      /\ R[c].ver = obligations[c].ver
                      /\ R[c].out \in {obligations[c].out, o}
<1>1. \A c \in DOMAIN obligations : obligations[c] \in [ver : Versions, out : Outputs]
    BY DEF DisplayInv, ObligationsInv
<1>2. \A c \in DOMAIN obligations :
          /\ [obligations[c] EXCEPT !.out = o] \in [ver : Versions, out : Outputs]
          /\ [obligations[c] EXCEPT !.out = o].ver = obligations[c].ver
          /\ [obligations[c] EXCEPT !.out = o].out = o
    BY <1>1
<1>3. \A c \in DOMAIN obligations :
          Rebound(ver, o)[c] \in {obligations[c], [obligations[c] EXCEPT !.out = o]}
    BY DEF Rebound
<1> QED BY <1>1, <1>2, <1>3 DEF Rebound

LEMMA ReboundForFacts ==
    ASSUME DisplayInv, NEW s \in Scenes
    PROVE  LET R == ReboundFor(s)
           IN  /\ DOMAIN R = DOMAIN obligations
               /\ \A c \in DOMAIN obligations :
                      /\ R[c] \in [ver : Versions, out : Outputs]
                      /\ R[c].ver = obligations[c].ver
                      /\ R[c].out # obligations[c].out =>
                             R[c].out = s.target /\ required_outputs_for_scene(s) # {}
<1>1. s.target \in Outputs
    BY SceneFacts
<1>2. CASE required_outputs_for_scene(s) = {}
    BY <1>2 DEF ReboundFor, DisplayInv, ObligationsInv
<1>3. CASE required_outputs_for_scene(s) # {}
    <2>1. ReboundFor(s) = Rebound(s.ver, s.target)
        BY <1>3 DEF ReboundFor
    <2> QED BY <1>1, <1>3, <2>1, ReboundFacts
<1> QED BY <1>2, <1>3

\* A failed request moves obligations and marks those it moves.
LEMMA StrayMoves ==
    ASSUME DisplayInv, NEW r \in Requests, Stray(r)
    PROVE  Moves /\ astray' \subseteq Commits
<1>1. r.scene \in Scenes
    BY DEF Requests
<1>2. obligations' = ReboundFor(r.scene)
      /\ astray' = astray \cup
             {c \in DOMAIN obligations : obligations'[c].out # obligations[c].out}
    BY DEF Stray
<1>3. Moves
    BY <1>1, <1>2, ReboundForFacts DEF Moves
<1> QED BY <1>2, <1>3 DEF DisplayInv, Typed, ObligationsInv

LEMMA SameOutputsAreCalm ==
    ASSUME DisplayInv, UNCHANGED <<immediate, last, floor, shown, outputs>>, ToldGrows
    PROVE  Calm
<1>1. \A o \in DOMAIN outputs : outputs[o] \in RuntimesOf(o)
    BY RuntimeFacts
<1> QED BY <1>1 DEF Calm, Calms

LEMMA SameMoves ==
    ASSUME DisplayInv, UNCHANGED <<obligations, astray>>
    PROVE  Moves
BY DEF Moves, DisplayInv, ObligationsInv

\* Exhausted, RecordFails.
LEMMA FailedRequestStep ==
    ASSUME DisplayInv, CommitsInOrder', NEW r \in Requests, Exhausted(r) \/ RecordFails(r)
    PROVE  DisplayInv'
<1>1. /\ UNCHANGED <<immediate, recon, last, floor, nextCommit, disk, store, outputs,
                     feedbacks, told, shown>>
      /\ Stray(r)
    BY DEF Exhausted, RecordFails, sceneVars
<1>2. mishaps' \in 0 .. MaxMishaps
    BY DisplayAssumption DEF Exhausted, RecordFails, Mishap, DisplayInv, Typed
<1>3. Moves /\ astray' \subseteq Commits
    BY <1>1, StrayMoves
<1>4. Typed'
    BY <1>1, <1>2, <1>3 DEF DisplayInv, Typed
<1>5. Calm
    BY <1>1, SameOutputsAreCalm DEF ToldGrows
<1> QED BY <1>1, <1>3, <1>4, <1>5, CalmStep

\* The answer about a scene that is recorded.
LEMMA AnswerFacts ==
    ASSUME DisplayInv, NEW s \in Scenes, NEW k \in Commits, Answer(k, s)
    PROVE  /\ ToldGrows
           /\ DOMAIN told' = DOMAIN told \cup {k} /\ DOMAIN told' \subseteq Commits
           /\ \A c \in DOMAIN told' : told'[c] \in Scenes
           /\ told'[k] = IF k \in DOMAIN told THEN told[k] ELSE s
<1>1. CASE k \in DOMAIN told
    BY <1>1 DEF Answer, ToldGrows, DisplayInv, Typed
<1>2. CASE k \notin DOMAIN told
    BY <1>2 DEF Answer, With, ToldGrows, DisplayInv, Typed
<1> QED BY <1>1, <1>2

LEMMA RepeatStep ==
    ASSUME DisplayInv, CommitsInOrder', NEW r \in Requests,
           NEW via \in {"commit", "reconcile"}, Repeat(r, via)
    PROVE  DisplayInv'
<1>1. /\ UNCHANGED <<immediate, last, floor, nextCommit, disk, store, outputs, obligations,
                     feedbacks, mishaps, shown, astray>>
      /\ recon' \in {recon, "Awaiting"} /\ Answer(last.commit, r.scene)
    BY DEF Repeat, Recovery, sceneVars
<1>2. r.scene \in Scenes /\ last # None
    BY DEF Requests, Repeat, Accepted, same_scene_identity
<1>3. last.commit \in Commits
    BY <1>2, LastFacts DEF DisplayInv
<1>4. /\ ToldGrows /\ DOMAIN told' \subseteq Commits
      /\ \A c \in DOMAIN told' : told'[c] \in Scenes
    BY <1>1, <1>2, <1>3, AnswerFacts
<1>5. Typed'
    BY <1>1, <1>4 DEF DisplayInv, Typed
<1>6. Calm
    BY <1>1, <1>4, SameOutputsAreCalm
<1>7. Moves
    BY <1>1, SameMoves
<1> QED BY <1>1, <1>5, <1>6, <1>7, CalmStep

\* Output events and ticks that touch outputs only.
LEMMA OutputStep ==
    ASSUME DisplayInv, CommitsInOrder',
           UNCHANGED <<immediate, last, floor, nextCommit, disk, store, obligations, history>>,
           recon' \in {recon, "Recovering"}, feedbacks' \subseteq feedbacks,
           Mishap \/ UNCHANGED mishaps,
           DOMAIN outputs' \subseteq DOMAIN outputs,
           \A o \in DOMAIN outputs' :
               outputs'[o] \in RuntimesOf(o) /\ Calms(outputs[o], outputs'[o])
    PROVE  DisplayInv'
<1>1. told' = told /\ shown' = shown /\ astray' = astray
    BY DEF history
<1>2. mishaps' \in 0 .. MaxMishaps
    BY DisplayAssumption DEF Mishap, DisplayInv, Typed
<1>3. Typed'
    BY <1>1, <1>2 DEF DisplayInv, Typed
<1>4. Calm
    BY <1>1 DEF Calm, ToldGrows
<1>5. Moves
    BY <1>1, SameMoves
<1> QED BY <1>3, <1>4, <1>5, CalmStep

LEMMA BeginReconciliationStep ==
    ASSUME DisplayInv, CommitsInOrder', NEW epoch \in {"old", "same", "new"},
           BeginReconciliation(epoch)
    PROVE  DisplayInv'
<1> DEFINE retire(rt) == [rt EXCEPT !.flight = None, !.retry = None]
<1>1. \A o \in DOMAIN outputs :
          retire(outputs[o]) \in RuntimesOf(o) /\ Calms(outputs[o], retire(outputs[o]))
    <2> SUFFICES ASSUME NEW o \in DOMAIN outputs
                 PROVE  retire(outputs[o]) \in RuntimesOf(o)
                        /\ Calms(outputs[o], retire(outputs[o]))
        OBVIOUS
    <2>1. outputs[o] \in RuntimesOf(o)
        BY RuntimeFacts
    <2> QED BY <2>1 DEF RuntimesOf, Calms
<1>2. \A o \in DOMAIN outputs' : o \in DOMAIN outputs /\ outputs'[o] = retire(outputs[o])
    <2>1. DOMAIN outputs \subseteq Outputs
        BY DEF DisplayInv, OutputsInv
    <2> QED BY <2>1 DEF BeginReconciliation, Without
<1>3. \A o \in DOMAIN outputs' :
          outputs'[o] \in RuntimesOf(o) /\ Calms(outputs[o], outputs'[o])
    BY <1>1, <1>2
<1>4. DOMAIN outputs' \subseteq DOMAIN outputs
    BY <1>2
<1> QED BY <1>3, <1>4, OutputStep DEF BeginReconciliation, sceneVars

LEMMA DisabledStep ==
    ASSUME DisplayInv, CommitsInOrder', NEW o \in Outputs, Disabled(o)
    PROVE  DisplayInv'
<1> DEFINE rt == outputs[o]
           rt2 == [rt EXCEPT !.flight = None, !.pend = {}, !.retry = None, !.disabled = TRUE]
<1>1. o \in DOMAIN outputs /\ rt \in RuntimesOf(o)
      /\ \A p \in DOMAIN outputs : outputs[p] \in RuntimesOf(p)
    BY RuntimeFacts DEF Disabled
<1>2. outputs' = [outputs EXCEPT ![o] = rt2]
    BY DEF Disabled
<1>3. rt2 \in RuntimesOf(o) /\ Calms(rt, rt2)
    BY <1>1 DEF RuntimesOf, Calms
<1>4. \A p \in DOMAIN outputs' :
          outputs'[p] \in RuntimesOf(p) /\ Calms(outputs[p], outputs'[p])
    BY <1>1, <1>2, <1>3 DEF Calms
<1>5. DOMAIN outputs' \subseteq DOMAIN outputs
    BY <1>2
<1> QED BY <1>4, <1>5, OutputStep DEF Disabled, sceneVars

LEMMA DisconnectedStep ==
    ASSUME DisplayInv, CommitsInOrder', NEW S \in SUBSET DOMAIN outputs, Disconnected(S)
    PROVE  DisplayInv'
<1>1. \A p \in DOMAIN outputs' : p \in DOMAIN outputs /\ outputs'[p] = outputs[p]
    BY DEF Disconnected, Without
<1>2. \A p \in DOMAIN outputs' :
          outputs'[p] \in RuntimesOf(p) /\ Calms(outputs[p], outputs'[p])
    BY <1>1, RuntimeFacts DEF Calms
<1>3. DOMAIN outputs' \subseteq DOMAIN outputs
    BY <1>1
<1> QED BY <1>2, <1>3, OutputStep DEF Disconnected, sceneVars

LEMMA TickedIsCalm ==
    ASSUME NEW o, NEW rt \in RuntimesOf(o)
    PROVE  /\ Ticked(rt) \in RuntimesOf(o) /\ Calms(rt, Ticked(rt))
           /\ Ticked(rt).pend = rt.pend /\ Ticked(rt).disabled = rt.disabled
           /\ Ticked(rt).flight = rt.flight
BY DEF Ticked, RuntimesOf, Calms

LEMMA AdvanceStep ==
    ASSUME DisplayInv, CommitsInOrder', NEW o \in Outputs, Advance(o)
    PROVE  DisplayInv'
<1>1. o \in DOMAIN outputs /\ \A p \in DOMAIN outputs : outputs[p] \in RuntimesOf(p)
    BY RuntimeFacts DEF Advance
<1> DEFINE rt == outputs[o]
<1>2. Ticked(rt) \in RuntimesOf(o) /\ Calms(rt, Ticked(rt))
    <2> HIDE DEF rt
    <2>1. rt \in RuntimesOf(o)
        BY <1>1 DEF rt
    <2> QED BY <2>1, TickedIsCalm
<1>3. outputs' = [outputs EXCEPT ![o] = Ticked(rt)]
    BY DEF Advance
<1>4. \A p \in DOMAIN outputs' :
          outputs'[p] \in RuntimesOf(p) /\ Calms(outputs[p], outputs'[p])
    BY <1>1, <1>2, <1>3 DEF Calms
<1>5. DOMAIN outputs' \subseteq DOMAIN outputs
    BY <1>3
<1> QED BY <1>4, <1>5, OutputStep DEF Advance, sceneVars

LEMMA SubmitFailsStep ==
    ASSUME DisplayInv, CommitsInOrder', NEW o \in Outputs, SubmitFails(o)
    PROVE  DisplayInv'
<1>1. /\ o \in DOMAIN outputs /\ outputs[o] \in RuntimesOf(o)
      /\ \A p \in DOMAIN outputs : outputs[p] \in RuntimesOf(p)
    BY RuntimeFacts DEF SubmitFails, CanSubmit, Active
<1>2. last.scene.ver \in Versions
    BY LastFacts, SceneFacts DEF SubmitFails, CanSubmit, DisplayInv
<1> DEFINE rt == outputs[o]
           again == [ver |-> last.scene.ver, commit |-> outputs[o].pcommit]
           rt2 == [rt EXCEPT !.retry = again]
<1>3. outputs' = [outputs EXCEPT ![o] = rt2]
    BY DEF SubmitFails
<1>4. again \in [ver : Versions, commit : Commits]
    BY <1>1, <1>2 DEF RuntimesOf
<1>5. rt2 \in RuntimesOf(o) /\ Calms(rt, rt2)
    <2> HIDE DEF again
    <2> QED BY <1>1, <1>4 DEF RuntimesOf, Calms
<1>6. \A p \in DOMAIN outputs' :
          outputs'[p] \in RuntimesOf(p) /\ Calms(outputs[p], outputs'[p])
    BY <1>1, <1>3, <1>5 DEF Calms
<1>7. DOMAIN outputs' \subseteq DOMAIN outputs
    BY <1>3
<1> QED BY <1>6, <1>7, OutputStep DEF SubmitFails, sceneVars

-----------------------------------------------------------------------------
(* Starting again *)

\* load, from a snapshot that is there or not.
LEMMA LoadStep ==
    ASSUME DisplayInv, CommitsInOrder', NEW saved \in Recorded \cup {None}, Load(saved),
           Mishap, UNCHANGED <<immediate, told>>
    PROVE  DisplayInv'
<1>1. IdOf(saved) \in Nat
    BY SceneFacts DEF IdOf, Recorded
<1>2. Typed'
    <2>1. saved # None => saved.scene \in Scenes /\ saved.commit \in Commits
        BY DEF Recorded
    <2>2. IdAfter(saved) \in 1 .. MaxCommits + 1
        BY <2>1, SceneFacts DEF IdAfter, Commits
    <2>3. floor' \in Versions /\ shown' \in [Outputs -> Commits]
        BY <2>1, SceneFacts DEF Load
    <2>4. mishaps' \in 0 .. MaxMishaps
        BY DisplayAssumption DEF Mishap, DisplayInv, Typed
    <2> QED BY <2>2, <2>3, <2>4 DEF Load, DisplayInv, Typed
<1>3. OutputsInv'
    <2>1. \A o \in Outputs : Fresh \in RuntimesOf(o)
        BY SceneFacts DEF Fresh, RuntimesOf
    <2>2. Fresh.fb = None /\ ~Fresh.published /\ ~Fresh.disabled /\ Fresh.flight = None
          /\ Fresh.pend = {} /\ Fresh.pcommit = 0
        BY DEF Fresh
    <2>3. 0 <= IdOf(last')
        BY <1>1 DEF Load
    <2>4. \A o \in Outputs :
              RuntimeInv(o, Fresh, last', floor', OnlyVersioned', immediate' \/ OnlyVersioned')
        BY <2>1, <2>2, <2>3, FreshIsSafe
    <2>5. DOMAIN outputs' \subseteq Outputs /\ \A o \in DOMAIN outputs' : outputs'[o] = Fresh
        BY DisplayAssumption DEF Load
    <2> QED BY <2>2, <2>4, <2>5 DEF OutputsInv
<1>4. DOMAIN obligations' = {}
    BY DEF Load
<1>5. ObligationsInv' /\ BackedInv'
    BY <1>4, FS_EmptySet, DisplayAssumption DEF ObligationsInv, BackedInv
<1>6. FeedbackInv'
    BY FS_EmptySet, DisplayAssumption DEF Load, FeedbackInv, FeedbackIsEarned
<1> QED BY <1>2, <1>3, <1>5, <1>6 DEF DisplayInv

LEMMA DiesRecordingStep ==
    ASSUME DisplayInv, CommitsInOrder', NEW r \in Requests, DiesRecording(r)
    PROVE  DisplayInv'
<1> DEFINE new == [scene |-> r.scene, commit |-> nextCommit]
<1>1. nextCommit \in Commits /\ r.scene \in Scenes
    BY SceneFacts DEF DiesRecording, DisplayInv, Typed, Commits, Requests
<1>2. new \in Recorded
    BY <1>1 DEF Recorded
<1> HIDE DEF new
<1>3. Load(new)
    BY DEF DiesRecording, new
<1> QED BY <1>2, <1>3, LoadStep DEF DiesRecording

LEMMA RestartStep ==
    ASSUME DisplayInv, CommitsInOrder', Restart
    PROVE  DisplayInv'
<1>1. disk \in Recorded \cup {None}
    BY DEF DisplayInv, CommitsInOrder, Typed
<1> QED BY <1>1, LoadStep DEF Restart

-----------------------------------------------------------------------------
(* An output that appears *)

LEMMA ConnectedStep ==
    ASSUME DisplayInv, CommitsInOrder', NEW o \in Outputs, Connected(o)
    PROVE  DisplayInv'
<1> DEFINE v == OnlyVersioned
           x == immediate \/ v
           rt == [Fresh EXCEPT !.pend = Cells[o], !.pver = floor,
                               !.pcommit = IF last = None THEN 0 ELSE last.commit]
<1>1. /\ UNCHANGED <<immediate, recon, last, floor, nextCommit, disk, store, feedbacks,
                     told, shown, astray>>
      /\ outputs' = With(outputs, o, rt)
      /\ obligations' \in {obligations, Rebound(floor, o)}
    BY DEF Connected, sceneVars, history
<1>2. Typed'
    <2>1. mishaps' \in 0 .. MaxMishaps
        BY DisplayAssumption DEF Connected, Mishap, DisplayInv, Typed
    <2> QED BY <1>1, <2>1 DEF DisplayInv, Typed
<1>3. /\ rt.pend = Cells[o] /\ rt.pver = floor /\ rt.pcommit = IdOf(last)
      /\ rt.fb = None /\ ~rt.published /\ ~rt.disabled /\ rt.flight = None
    BY DEF Fresh, IdOf
<1>4. rt \in RuntimesOf(o)
    <2>1. floor \in Versions /\ IdOf(last) \in Commits
        BY LastFacts DEF DisplayInv, Typed
    <2> QED BY <2>1, SceneFacts DEF Fresh, RuntimesOf, IdOf
<1> HIDE DEF rt
<1>5. RuntimeInv(o, rt, last, floor, v, x)
    <2>1. rt.pcommit <= IdOf(last)
        BY <1>3, LastFacts DEF DisplayInv
    <2> HIDE DEF v, x
    <2> QED BY <1>3, <1>4, <2>1, FreshIsSafe
<1>6. /\ DOMAIN outputs' = DOMAIN outputs \cup {o} /\ outputs'[o] = rt
      /\ \A p \in DOMAIN outputs : p # o => outputs'[p] = outputs[p]
    BY <1>1 DEF With
<1>7. OutputsInv'
    <2>1. DOMAIN outputs' \subseteq Outputs
        BY <1>6 DEF DisplayInv, OutputsInv
    <2>2. ASSUME NEW p \in DOMAIN outputs'
          PROVE  RuntimeInv(p, outputs'[p], last, floor, v, x)
                 /\ (immediate => outputs'[p].flight = None)
        <3>1. CASE p = o
            BY <1>3, <1>5, <1>6, <3>1
        <3>2. CASE p # o
            BY <1>6, <3>2, RuntimeFacts
        <3> QED BY <3>1, <3>2
    <2>3. OnlyVersioned' = OnlyVersioned
        BY <1>1 DEF OnlyVersioned
    <2> QED BY <1>1, <2>1, <2>2, <2>3 DEF OutputsInv
<1>8. /\ DOMAIN obligations' = DOMAIN obligations
      /\ \A c \in DOMAIN obligations :
             /\ obligations'[c] \in [ver : Versions, out : Outputs]
             /\ obligations'[c].ver = obligations[c].ver
             /\ obligations'[c].out \in {obligations[c].out, o}
    <2>1. CASE obligations' = obligations
        BY <2>1 DEF DisplayInv, ObligationsInv
    <2>2. CASE obligations' = Rebound(floor, o)
        BY <2>2, ReboundFacts
    <2> QED BY <1>1, <2>1, <2>2
<1>9. ObligationsInv'
    <2>1. ASSUME NEW c \in DOMAIN obligations'
          PROVE  LET ob == obligations'[c]
                 IN  /\ ob \in [ver : Versions, out : Outputs]
                     /\ c <= IdOf(last) /\ ~Older(floor, ob.ver)
                     /\ c \in DOMAIN told /\ told[c].ver = ob.ver
                     /\ \A p \in DOMAIN outputs' :
                            LET f == outputs'[p].flight
                            IN  f # None /\ f.scene < c /\ ob.ver # Unversioned =>
                                    Older(f.ver, ob.ver)
        BY <1>3, <1>6, <1>8 DEF DisplayInv, ObligationsInv
    <2>2. DOMAIN obligations' \subseteq Commits
          /\ Cardinality(DOMAIN obligations') <= MaxObligations
        BY <1>8 DEF DisplayInv, ObligationsInv
    <2> QED BY <1>1, <2>1, <2>2 DEF ObligationsInv
<1>10. BackedInv'
    <2> SUFFICES ASSUME OnlyVersioned', NEW c \in DOMAIN obligations' \ astray',
                        obligations'[c].out \in Active', obligations'[c].ver[1] = floor'[1]
                 PROVE  outputs'[obligations'[c].out].pend # {}
        BY DEF BackedInv
    <2>1. CASE obligations'[c].out = o
        BY <1>3, <1>6, <2>1, SceneFacts
    <2>2. CASE obligations'[c].out # o
        <3> DEFINE out == obligations[c].out
        <3>1. /\ c \in DOMAIN obligations \ astray /\ obligations'[c].out = out
              /\ obligations[c].ver[1] = floor[1]
            BY <1>1, <1>8, <2>2
        <3>2. out \in Active /\ outputs'[out] = outputs[out]
            BY <1>6, <2>2, <3>1 DEF Active
        <3>3. OnlyVersioned
            BY <1>1 DEF OnlyVersioned
        <3> QED BY <3>1, <3>2, <3>3 DEF DisplayInv, BackedInv
    <2> QED BY <2>1, <2>2
<1>11. FeedbackInv'
    BY <1>1 DEF DisplayInv, FeedbackInv, FeedbackIsEarned
<1> QED BY <1>2, <1>7, <1>9, <1>10, <1>11 DEF DisplayInv

-----------------------------------------------------------------------------
(* A frame that is submitted *)

LEMMA FrameFacts ==
    ASSUME DisplayInv, NEW o \in Outputs, CanSubmit(o)
    PROVE  /\ o \in DOMAIN outputs /\ ~outputs[o].disabled /\ outputs[o].pend # {}
           /\ last # None
           /\ Frame(o) \in FramesOf(o) /\ Frame(o).ver = last.scene.ver
           /\ Frame(o).scene = IdOf(last)
           /\ FrameInv(o, outputs[o], Frame(o), last, floor, OnlyVersioned,
                       immediate \/ OnlyVersioned)
<1>1. /\ o \in DOMAIN outputs /\ ~outputs[o].disabled /\ outputs[o].pend # {} /\ last # None
    BY DEF CanSubmit, Active
<1>2. last \in Recorded /\ IdOf(last) = last.commit /\ ~Older(floor, last.scene.ver)
    BY <1>1, LastFacts DEF DisplayInv
<1> DEFINE rt == outputs[o]
           f == Frame(o)
           v == OnlyVersioned
           x == immediate \/ v
<1>3. RuntimeInv(o, rt, last, floor, v, x)
    BY <1>1, RuntimeFacts
<1>4. f = [ver |-> last.scene.ver, commit |-> rt.pcommit, scene |-> last.commit,
           damage |-> rt.pend,
           pixels |-> [c \in Cells[o] |->
                         IF c \in rt.pend THEN Content(last.scene.pic)[c]
                         ELSE IF rt.fb = None THEN 0 ELSE rt.fb[c]]]
    BY DEF Frame
<1>5. f.ver = last.scene.ver /\ f.scene = last.commit
    BY DEF Frame
<1>6. ~rt.disabled /\ rt.pend # {}
    BY <1>1
<1> HIDE DEF rt, f, v, x
<1>7. f \in FramesOf(o) /\ FrameInv(o, rt, f, last, floor, v, x)
    BY <1>2, <1>3, <1>4, <1>6, FrameIsExact
<1> QED BY <1>1, <1>2, <1>5, <1>7 DEF f, rt, v, x

LEMMA SubmitStep ==
    ASSUME DisplayInv, CommitsInOrder', NEW o \in Outputs, Submit(o)
    PROVE  DisplayInv'
<1> DEFINE v == OnlyVersioned
           x == immediate \/ v
           f == Frame(o)
           rt == outputs[o]
           rt2 == [Ticked(rt) EXCEPT !.flight = f]
<1>1. /\ UNCHANGED <<immediate, recon, last, floor, nextCommit, disk, store, obligations,
                     feedbacks, mishaps, told, shown, astray>>
      /\ outputs' = [outputs EXCEPT ![o] = rt2] /\ ~immediate
    BY DEF Submit, sceneVars, history
<1>2. /\ o \in DOMAIN outputs /\ f \in FramesOf(o) /\ f.scene = IdOf(last)
      /\ FrameInv(o, rt, f, last, floor, v, x)
    BY FrameFacts DEF Submit
<1>3. rt \in RuntimesOf(o) /\ RuntimeInv(o, rt, last, floor, v, x)
    BY <1>2, RuntimeFacts
<1> HIDE DEF rt, f, v, x
<1>4. Ticked(rt) \in RuntimesOf(o) /\ Calms(rt, Ticked(rt))
      /\ Ticked(rt).pend = rt.pend /\ Ticked(rt).disabled = rt.disabled
    BY <1>3, TickedIsCalm
<1>5. RuntimeInv(o, Ticked(rt), last, floor, v, x)
    BY <1>3, <1>4, CalmIsSafe
<1>6. /\ rt2 \in RuntimesOf(o) /\ rt2.flight = f /\ rt2.disabled = rt.disabled
      /\ rt2.pend = rt.pend
      /\ rt2.fb = Ticked(rt).fb /\ rt2.published = Ticked(rt).published
      /\ rt2.pver = Ticked(rt).pver /\ rt2.pcommit = Ticked(rt).pcommit
    BY <1>2, <1>4 DEF RuntimesOf
<1>7. rt2.fb = rt.fb /\ rt2.pver = rt.pver
    BY <1>4, <1>6 DEF Calms
<1> HIDE DEF rt2
<1>8. FrameInv(o, rt2, f, last, floor, v, x)
    BY <1>2, <1>6, <1>7 DEF FrameInv
<1>9. RuntimeInv(o, rt2, last, floor, v, x)
    BY <1>4, <1>5, <1>6, <1>8 DEF RuntimeInv
<1>10. Typed'
    BY <1>1 DEF DisplayInv, Typed
<1>11. DOMAIN outputs' = DOMAIN outputs /\ outputs'[o] = rt2
       /\ \A p \in DOMAIN outputs : p # o => outputs'[p] = outputs[p]
    BY <1>1, <1>2
<1>12. OutputsInv'
    <2>1. \A p \in DOMAIN outputs' : RuntimeInv(p, outputs'[p], last, floor, v, x)
        BY <1>9, <1>11, RuntimeFacts DEF v, x
    <2>2. OnlyVersioned' = OnlyVersioned
        BY <1>1 DEF OnlyVersioned
    <2>3. DOMAIN outputs' \subseteq Outputs
        BY <1>11 DEF DisplayInv, OutputsInv
    <2> QED BY <1>1, <2>1, <2>2, <2>3 DEF OutputsInv, v, x
<1>13. ObligationsInv'
    <2>1. ASSUME NEW c \in DOMAIN obligations, NEW p \in DOMAIN outputs',
                 outputs'[p].flight # None, outputs'[p].flight.scene < c,
                 obligations[c].ver # Unversioned
          PROVE  Older(outputs'[p].flight.ver, obligations[c].ver)
        <3>1. CASE p = o
            <4>1. c <= IdOf(last) /\ c \in Nat /\ IdOf(last) \in Nat
                BY SceneFacts, LastFacts DEF DisplayInv, ObligationsInv
            <4> QED BY <1>2, <1>6, <1>11, <2>1, <3>1, <4>1
        <3>2. CASE p # o
            BY <1>11, <2>1, <3>2 DEF DisplayInv, ObligationsInv
        <3> QED BY <3>1, <3>2
    <2>2. \A c \in DOMAIN obligations :
              /\ obligations[c] \in [ver : Versions, out : Outputs]
              /\ c <= IdOf(last) /\ ~Older(floor, obligations[c].ver)
              /\ c \in DOMAIN told /\ told[c].ver = obligations[c].ver
        BY DEF DisplayInv, ObligationsInv
    <2>3. DOMAIN obligations \subseteq Commits
          /\ Cardinality(DOMAIN obligations) <= MaxObligations
        BY DEF DisplayInv, ObligationsInv
    <2> QED BY <1>1, <2>1, <2>2, <2>3 DEF ObligationsInv
<1>14. BackedInv'
    <2>1. \A p \in DOMAIN outputs : outputs'[p].pend = outputs[p].pend
                                    /\ outputs'[p].disabled = outputs[p].disabled
        BY <1>6, <1>11 DEF rt
    <2>2. Active' = Active
        BY <1>11, <2>1 DEF Active
    <2>3. Active \subseteq DOMAIN outputs /\ OnlyVersioned' = OnlyVersioned
        BY <1>1 DEF Active, OnlyVersioned
    <2> QED BY <1>1, <2>1, <2>2, <2>3 DEF DisplayInv, BackedInv
<1>15. FeedbackInv'
    BY <1>1 DEF DisplayInv, FeedbackInv, FeedbackIsEarned
<1> QED BY <1>10, <1>12, <1>13, <1>14, <1>15 DEF DisplayInv

-----------------------------------------------------------------------------
(* A scene that is queued: Commit and Replay *)

\* What both have in common: scene s becomes or stays the last one, under id k, and
\* is newer than the floor unless it is the last scene again.
Follows(s, k) ==
    /\ last' \in Recorded /\ last'.scene = s /\ last'.commit = k
    /\ IdOf(last) <= k
    /\ floor' \in Versions /\ ~Older(floor', floor)
    /\ s.ver # Unversioned => s.ver = floor'
    /\ \/ last' = last /\ floor' = floor
       \/ s.ver # Unversioned => Older(floor, s.ver)
    /\ told'[k] = s /\ k \in DOMAIN told' /\ ToldGrows
    /\ UNCHANGED <<immediate, shown, astray>>

LEMMA FollowsFacts ==
    ASSUME DisplayInv, NEW s \in Scenes, NEW k \in Commits, Follows(s, k)
    PROVE  /\ OnlyVersioned' => OnlyVersioned /\ s.ver # Unversioned
           /\ IdOf(last)' = k /\ s.ver \in Versions /\ floor \in Versions
           /\ ~Older(floor', s.ver)
<1>1. OnlyVersioned' => OnlyVersioned /\ s.ver # Unversioned
    BY VersionedBefore DEF Follows, OnlyVersioned
<1>2. IdOf(last)' = k
    BY SceneFacts DEF Follows, IdOf
<1>3. s.ver \in Versions /\ floor \in Versions
    BY SceneFacts DEF DisplayInv, Typed
<1>4. ~Older(floor', s.ver)
    BY <1>3, SceneFacts, VersionOrder DEF Follows
<1> QED BY <1>1, <1>2, <1>3, <1>4

LEMMA QueueKeepsOutputs ==
    ASSUME DisplayInv, NEW r \in Requests, NEW k \in Commits, Queue(r, k),
           Follows(r.scene, k)
    PROVE  /\ OutputsInv'
           /\ DOMAIN outputs' = DOMAIN outputs /\ Active' = Active
           /\ \A o \in DOMAIN outputs :
                  /\ outputs'[o].flight = outputs[o].flight
                  /\ o \in Active => outputs'[o].pend = Damage(o, r.scene)
<1> DEFINE s == r.scene
           v == OnlyVersioned
           v2 == OnlyVersioned'
           x == immediate \/ v
           x2 == immediate \/ v2
<1>0. s \in Scenes
    BY DEF Requests
<1>1. /\ (v2 => v) /\ (x2 => x) /\ (v2 => s.ver = floor') /\ IdOf(last') = k
      /\ floor \in Versions /\ floor' \in Versions
      /\ (s.ver = Unversioned => ~v2)
    BY <1>0, FollowsFacts DEF Follows
<1>2. /\ last \in Recorded \cup {None} /\ last' \in Recorded /\ last'.scene = s
      /\ last'.commit = k /\ IdOf(last) <= last'.commit /\ ~Older(floor', floor)
      /\ \/ last' = last /\ floor' = floor
         \/ s.ver # Unversioned => Older(floor, s.ver)
      /\ immediate' = immediate
    BY DEF Follows, DisplayInv, Typed
<1> DEFINE queued(o) == IF o \in Active /\ Damage(o, s) # {}
                        THEN [outputs[o] EXCEPT !.pend = Damage(o, s), !.pver = s.ver,
                                                !.pcommit = k]
                        ELSE outputs[o]
<1>3. outputs' = [o \in DOMAIN outputs |-> queued(o)]
    BY DEF Queue
<1>4. ASSUME NEW o \in DOMAIN outputs
      PROVE  /\ RuntimeInv(o, queued(o), last', floor', v2, x2)
             /\ queued(o).flight = outputs[o].flight
             /\ queued(o).disabled = outputs[o].disabled
             /\ o \in Active => queued(o).pend = Damage(o, s)
    <2> DEFINE rt == outputs[o]
               D == Damage(o, s)
               l2 == last'
               f2 == floor'
               rt2 == Queued(o, rt, last, l2.scene, l2.commit)
    <2>1. /\ o \in Outputs /\ rt \in RuntimesOf(o) /\ RuntimeInv(o, rt, last, floor, v, x)
          /\ immediate => rt.flight = None
        BY RuntimeFacts
    <2>2. /\ rt2 = queued(o)
          /\ rt2 = IF ~rt.disabled /\ D # {}
                   THEN [rt EXCEPT !.pend = D, !.pver = s.ver, !.pcommit = k]
                   ELSE rt
        BY <1>2 DEF Damage, Damaged, Queued, Active
    <2>3. rt.pend \subseteq D
        BY DEF Damage
    <2>4. /\ rt2.flight = rt.flight /\ rt2.disabled = rt.disabled
          /\ ~rt.disabled => rt2.pend = D
        <3> HIDE DEF D, rt2, rt
        <3>1. CASE ~rt.disabled /\ D # {}
            BY <2>1, <2>2, <3>1 DEF RuntimesOf
        <3>2. CASE ~(~rt.disabled /\ D # {})
            BY <2>2, <2>3, <3>2
        <3> QED BY <3>1, <3>2
    <2>5. Succeeds(last, floor, v, x, l2, f2, v2, x2) /\ (rt.flight # None /\ x2 => v2)
        BY <1>1, <1>2, <2>1 DEF Succeeds
    <2>6. /\ last \in Recorded \cup {None} /\ floor \in Versions
          /\ l2 \in Recorded /\ f2 \in Versions
        BY <1>1, <1>2
    <2>7. RuntimeInv(o, rt2, l2, f2, v2, x2)
        <3> HIDE DEF rt, l2, f2, v, v2, x, x2
        <3> QED BY <2>1, <2>5, <2>6, QueueIsSafe
    <2>8. RuntimeInv(o, queued(o), last', floor', v2, x2)
        <3> HIDE DEF queued, rt2
        <3> QED BY <2>2, <2>7
    <2> QED BY <2>2, <2>4, <2>8 DEF Active
<1> HIDE DEF queued
<1>5. DOMAIN outputs' = DOMAIN outputs /\ \A o \in DOMAIN outputs : outputs'[o] = queued(o)
    BY <1>3
<1>6. Active' = Active
    BY <1>4, <1>5 DEF Active
<1>7. OutputsInv'
    <2>1. DOMAIN outputs' \subseteq Outputs
        BY <1>5 DEF DisplayInv, OutputsInv
    <2>2. \A o \in DOMAIN outputs' :
              /\ RuntimeInv(o, outputs'[o], last', floor', v2, x2)
              /\ immediate => outputs'[o].flight = None
        BY <1>4, <1>5, RuntimeFacts
    <2> QED BY <1>2, <2>1, <2>2 DEF OutputsInv
<1> QED BY <1>4, <1>5, <1>6, <1>7

\* The obligations after the request, unless it owes none.
LEMMA QueuedObligations ==
    ASSUME DisplayInv, NEW r \in Requests, NEW k \in Commits, Queue(r, k)
    PROVE  /\ DOMAIN obligations' \in {DOMAIN obligations, DOMAIN obligations \cup {k}}
           /\ required_outputs_for_scene(r.scene) = {} => obligations' = obligations
           /\ \A c \in DOMAIN obligations' :
                  \/ /\ c = k /\ obligations'[c] = [ver |-> r.scene.ver, out |-> r.scene.target]
                     /\ required_outputs_for_scene(r.scene) # {}
                  \/ /\ c \in DOMAIN obligations
                     /\ obligations'[c] \in [ver : Versions, out : Outputs]
                     /\ obligations'[c].ver = obligations[c].ver
                     /\ obligations'[c].out # obligations[c].out =>
                            /\ obligations'[c].out = r.scene.target
                            /\ required_outputs_for_scene(r.scene) # {}
<1> DEFINE s == r.scene
           new == [ver |-> s.ver, out |-> s.target]
           R == ReboundFor(s)
<1>0. s \in Scenes
    BY DEF Requests
<1>1. /\ DOMAIN R = DOMAIN obligations
      /\ \A c \in DOMAIN obligations :
             /\ R[c] \in [ver : Versions, out : Outputs]
             /\ R[c].ver = obligations[c].ver
             /\ R[c].out # obligations[c].out =>
                    R[c].out = s.target /\ required_outputs_for_scene(s) # {}
    BY <1>0, ReboundForFacts
<1>2. CASE required_outputs_for_scene(s) = {}
    <2>1. obligations' = obligations
        BY <1>2 DEF Queue
    <2> QED BY <1>2, <2>1 DEF DisplayInv, ObligationsInv
<1>3. CASE required_outputs_for_scene(s) # {}
    <2>1. obligations' = With(R, k, new)
        BY <1>3 DEF Queue
    <2> HIDE DEF R, new
    <2>2. DOMAIN obligations' = DOMAIN obligations \cup {k}
          /\ \A c \in DOMAIN obligations' : obligations'[c] = IF c = k THEN new ELSE R[c]
        BY <1>1, <2>1 DEF With
    <2> QED BY <1>1, <1>3, <2>2 DEF new
<1> QED BY <1>2, <1>3

LEMMA QueueKeepsObligations ==
    ASSUME DisplayInv, NEW r \in Requests, NEW k \in Commits, Queue(r, k),
           Follows(r.scene, k), ~OverBudget(r.scene)
    PROVE  ObligationsInv'
<1> DEFINE s == r.scene
<1>0. s \in Scenes /\ s.target \in Outputs
    BY SceneFacts DEF Requests
<1>1. /\ DOMAIN obligations' \in {DOMAIN obligations, DOMAIN obligations \cup {k}}
      /\ required_outputs_for_scene(s) = {} => obligations' = obligations
      /\ \A c \in DOMAIN obligations' :
             \/ c = k /\ obligations'[c] = [ver |-> s.ver, out |-> s.target]
             \/ /\ c \in DOMAIN obligations
                /\ obligations'[c] \in [ver : Versions, out : Outputs]
                /\ obligations'[c].ver = obligations[c].ver
    BY QueuedObligations
<1>2. /\ IdOf(last)' = k /\ s.ver \in Versions /\ floor \in Versions /\ ~Older(floor', s.ver)
      /\ floor' \in Versions /\ ~Older(floor', floor) /\ IdOf(last) <= k
      /\ told'[k] = s /\ k \in DOMAIN told' /\ ToldGrows
      /\ \/ last' = last
         \/ s.ver # Unversioned => Older(floor, s.ver)
      /\ last'.scene = s /\ last'.commit = k
    BY <1>0, FollowsFacts DEF Follows
<1>3. DOMAIN outputs' = DOMAIN outputs
      /\ \A o \in DOMAIN outputs : outputs'[o].flight = outputs[o].flight
    BY QueueKeepsOutputs
<1>4. IdOf(last) \in Nat /\ k \in Nat
    BY LastFacts, SceneFacts DEF DisplayInv
<1>5. DOMAIN obligations' \subseteq Commits
    BY <1>1 DEF DisplayInv, ObligationsInv
<1>6. Cardinality(DOMAIN obligations') <= MaxObligations
    <2>1. Cardinality(DOMAIN obligations) <= MaxObligations
          /\ DOMAIN obligations \subseteq Commits
        BY DEF DisplayInv, ObligationsInv
    <2>2. CASE required_outputs_for_scene(s) = {}
        BY <1>1, <2>1, <2>2
    <2>3. CASE required_outputs_for_scene(s) # {}
        <3>1. IsFiniteSet(DOMAIN obligations) /\ Cardinality(DOMAIN obligations) \in Nat
            BY <2>1, CommitsAreFinite
        <3>2. ~(Cardinality(DOMAIN obligations) >= MaxObligations)
            BY <2>3 DEF OverBudget
        <3>3. Cardinality(DOMAIN obligations \cup {k})
                  \in {Cardinality(DOMAIN obligations), Cardinality(DOMAIN obligations) + 1}
            BY <3>1, FS_AddElement
        <3>4. MaxObligations \in Nat
            BY DisplayAssumption
        <3> QED BY <1>1, <3>1, <3>2, <3>3, <3>4
    <2> QED BY <2>2, <2>3
<1>7. ASSUME NEW c \in DOMAIN obligations'
      PROVE  LET ob == obligations'[c]
             IN  /\ ob \in [ver : Versions, out : Outputs]
                 /\ c <= IdOf(last)' /\ ~Older(floor', ob.ver)
                 /\ c \in DOMAIN told' /\ told'[c].ver = ob.ver
                 /\ \A o \in DOMAIN outputs' :
                        LET f == outputs'[o].flight
                        IN  f # None /\ f.scene < c /\ ob.ver # Unversioned =>
                                Older(f.ver, ob.ver)
    <2>1. CASE c = k /\ obligations'[c] = [ver |-> s.ver, out |-> s.target]
        <3>1. ASSUME NEW o \in DOMAIN outputs, outputs[o].flight # None,
                     outputs[o].flight.scene < k, s.ver # Unversioned
              PROVE  Older(outputs[o].flight.ver, s.ver)
            <4> DEFINE f == outputs[o].flight
            <4>1. FrameInv(o, outputs[o], f, last, floor, OnlyVersioned,
                           immediate \/ OnlyVersioned)
                BY <3>1, RuntimeFacts DEF RuntimeInv
            <4>2. f.ver \in Versions
                BY <3>1, RuntimeFacts DEF RuntimesOf, FramesOf
            <4>3. ~Older(floor, f.ver)
                  /\ (f.scene < last.commit /\ last.scene.ver # Unversioned =>
                          Older(f.ver, last.scene.ver))
                BY <4>1 DEF FrameInv
            <4> HIDE DEF f
            <4>4. CASE last' = last
                BY <1>2, <3>1, <4>3, <4>4 DEF f
            <4>5. CASE Older(floor, s.ver)
                BY <1>2, <4>2, <4>3, <4>5, VersionOrder DEF f
            <4> QED BY <1>2, <3>1, <4>4, <4>5
        <3>2. [ver |-> s.ver, out |-> s.target] \in [ver : Versions, out : Outputs]
            BY <1>0, <1>2
        <3> QED BY <1>2, <1>3, <1>4, <2>1, <3>1, <3>2
    <2>2. CASE /\ c \in DOMAIN obligations
               /\ obligations'[c] \in [ver : Versions, out : Outputs]
               /\ obligations'[c].ver = obligations[c].ver
        <3>1. /\ c <= IdOf(last) /\ ~Older(floor, obligations[c].ver)
              /\ c \in DOMAIN told /\ told[c].ver = obligations[c].ver
              /\ \A o \in DOMAIN outputs :
                     LET f == outputs[o].flight
                     IN  f # None /\ f.scene < c /\ obligations[c].ver # Unversioned =>
                             Older(f.ver, obligations[c].ver)
              /\ obligations[c].ver \in Versions /\ c \in Nat
            BY <2>2, SceneFacts DEF DisplayInv, ObligationsInv
        <3>2. ~Older(floor', obligations[c].ver)
            BY <1>2, <3>1, VersionOrder
        <3>3. c <= k
            BY <1>2, <1>4, <3>1
        <3>4. c \in DOMAIN told' /\ told'[c].ver = obligations[c].ver
            BY <1>2, <3>1 DEF ToldGrows
        <3> QED BY <1>2, <1>3, <2>2, <3>1, <3>2, <3>3, <3>4
    <2> QED BY <1>1, <2>1, <2>2
<1> QED BY <1>5, <1>6, <1>7 DEF ObligationsInv

\* Damage is pending for every obligation of the epoch, whose floor moved forward.
LEMMA QueueKeepsBacked ==
    ASSUME DisplayInv, NEW r \in Requests, NEW k \in Commits, Queue(r, k),
           Follows(r.scene, k)
    PROVE  BackedInv'
<1> DEFINE s == r.scene
<1>0. s \in Scenes
    BY DEF Requests
<1> SUFFICES ASSUME OnlyVersioned', NEW c \in DOMAIN obligations' \ astray',
                    obligations'[c].out \in Active', obligations'[c].ver[1] = floor'[1]
             PROVE  outputs'[obligations'[c].out].pend # {}
    BY DEF BackedInv
<1> DEFINE out == obligations'[c].out
<1>1. out \in Active /\ Active \subseteq DOMAIN outputs /\ outputs'[out].pend = Damage(out, s)
    BY QueueKeepsOutputs DEF Active
<1>2. CASE out = s.target /\ required_outputs_for_scene(s) # {}
    <2>1. Damage(s.target, s) # {}
        BY <1>1, <1>2 DEF required_outputs_for_scene
    <2> QED BY <1>1, <1>2, <2>1
<1>3. CASE /\ c \in DOMAIN obligations /\ out = obligations[c].out
           /\ obligations'[c].ver = obligations[c].ver
    <2> DEFINE w == obligations[c].ver
    <2>1. w \in Versions /\ ~Older(floor, w)
        BY <1>3 DEF DisplayInv, ObligationsInv
    <2>2. floor \in Versions /\ floor' \in Versions /\ ~Older(floor', floor)
          /\ astray' = astray /\ OnlyVersioned
        BY <1>0, FollowsFacts DEF Follows
    <2>3. w[1] = floor[1]
        BY <1>3, <2>1, <2>2, VersionFacts DEF Older
    <2>4. outputs[out].pend # {}
        BY <1>1, <1>3, <2>2, <2>3 DEF DisplayInv, BackedInv
    <2> QED BY <1>1, <2>4 DEF Damage
<1>4. CASE /\ c = k /\ obligations'[c] = [ver |-> s.ver, out |-> s.target]
           /\ required_outputs_for_scene(s) # {}
    BY <1>2, <1>4
<1>5. CASE /\ c \in DOMAIN obligations /\ obligations'[c].ver = obligations[c].ver
           /\ out # obligations[c].out =>
                  out = s.target /\ required_outputs_for_scene(s) # {}
    BY <1>2, <1>3, <1>5
<1> QED BY <1>4, <1>5, QueuedObligations

LEMMA QueueStep ==
    ASSUME DisplayInv, CommitsInOrder', Typed', NEW r \in Requests, NEW k \in Commits,
           Queue(r, k), Follows(r.scene, k), ~OverBudget(r.scene)
    PROVE  DisplayInv'
<1>1. /\ feedbacks' \subseteq feedbacks /\ feedbacks \subseteq Commits
      /\ Cardinality(feedbacks) <= MaxFeedbacks /\ MaxFeedbacks \in Nat
      /\ FeedbackIsEarned /\ shown' = shown
    BY DisplayAssumption DEF Queue, Follows, DisplayInv, FeedbackInv
<1>2. Cardinality(feedbacks') <= Cardinality(feedbacks)
    BY <1>1, CommitsAreFinite, FS_Subset
<1>3. Cardinality(feedbacks') \in Nat /\ Cardinality(feedbacks) \in Nat
    BY <1>1, CommitsAreFinite
<1>4. FeedbackInv'
    BY <1>1, <1>2, <1>3 DEF FeedbackInv, FeedbackIsEarned
<1> QED BY <1>4, QueueKeepsOutputs, QueueKeepsObligations, QueueKeepsBacked DEF DisplayInv

LEMMA QueueTypes ==
    ASSUME DisplayInv, NEW r \in Requests, NEW k \in Commits, Queue(r, k)
    PROVE  store' \in {Handle(s) : s \in Scenes} \cup {None}
<1>1. r.scene \in Scenes
    BY DEF Requests
<1>2. store' \in {Handle(r.scene), None}
    BY DEF Queue
<1> QED BY <1>1, <1>2

LEMMA CommitStep ==
    ASSUME DisplayInv, CommitsInOrder', NEW r \in Requests,
           NEW via \in {"commit", "reconcile"}, Commit(r, via)
    PROVE  DisplayInv'
<1> DEFINE s == r.scene
           k == nextCommit
<1>1. /\ s \in Scenes /\ s.ver \in Versions /\ floor \in Versions
      /\ k \in Commits /\ k \in Nat
    BY SceneFacts DEF Requests, Commit, DisplayInv, Typed, Commits
<1>2. /\ last' = [scene |-> s, commit |-> k] /\ nextCommit' = k + 1
      /\ floor' = IF s.ver[2] # 0 THEN s.ver ELSE floor
      /\ Queue(r, k) /\ Answer(k, s) /\ recon' \in {recon, "Awaiting"}
      /\ UNCHANGED <<immediate, mishaps, shown, astray>> /\ ~OverBudget(s)
    BY DEF Commit, record_commit, Recovery
<1>3. last' \in Recorded /\ last'.scene = s /\ last'.commit = k
    BY <1>1, <1>2 DEF Recorded
<1>4. IdOf(last) <= k
    <2>1. last = disk /\ k = IdAfter(disk) /\ (disk = None \/ disk.commit \in Nat)
        BY DEF DisplayInv, CommitsInOrder
    <2> QED BY <2>1 DEF IdAfter, IdOf
<1>5. s.ver[2] # 0 <=> s.ver # Unversioned
    BY <1>1, VersionFacts
<1>6. s.ver # Unversioned => Older(floor, s.ver)
    <2>1. s.ver # Unversioned => ~Older(s.ver, floor)
        BY DEF Commit, Refused, scene_version_is_stale
    <2>2. s.ver # Unversioned => s.ver[1] # 0
        BY <1>1, <1>5, VersionFacts
    <2>3. s.ver # Unversioned => s.ver # floor
        BY <2>2 DEF Commit, Refused, Conflicts, Accepted, scene_version_is_equal
    <2> QED BY <1>1, <2>1, <2>3, VersionOrder
<1>7. floor' \in Versions /\ ~Older(floor', floor) /\ (s.ver # Unversioned => s.ver = floor')
    BY <1>1, <1>2, <1>5, <1>6, VersionOrder
<1>8. /\ ToldGrows /\ DOMAIN told' \subseteq Commits /\ \A c \in DOMAIN told' : told'[c] \in Scenes
      /\ k \in DOMAIN told' /\ told'[k] = s
    <2>1. k \notin DOMAIN told
        BY <1>1, NewIdIsUnused DEF DisplayInv
    <2> QED BY <1>1, <1>2, <2>1, AnswerFacts
<1>9. Follows(s, k)
    BY <1>2, <1>3, <1>4, <1>6, <1>7, <1>8 DEF Follows
<1>10. nextCommit' \in 1 .. MaxCommits + 1
    BY <1>1, <1>2, SceneFacts DEF Commits
<1>11. Typed'
    BY <1>1, <1>2, <1>3, <1>7, <1>8, <1>10, QueueTypes DEF DisplayInv, Typed
<1> HIDE DEF s, k
<1> QED BY <1>1, <1>2, <1>9, <1>11, QueueStep DEF s

LEMMA ReplayStep ==
    ASSUME DisplayInv, CommitsInOrder', NEW r \in Requests,
           NEW via \in {"commit", "reconcile"}, Replay(r, via)
    PROVE  DisplayInv'
<1> DEFINE s == r.scene
           k == last.commit
<1>1. /\ Queue(r, k) /\ Answer(k, s) /\ recon' \in {recon, "Awaiting"} /\ ~OverBudget(s)
      /\ UNCHANGED <<immediate, last, floor, nextCommit, disk, mishaps, shown, astray>>
      /\ last # None /\ last.scene = s /\ s.ver = floor
    BY DEF Replay, Recovery, Replayed, Accepted, scene_version_is_equal, same_scene_identity
<1>2. /\ s \in Scenes /\ last \in Recorded /\ k \in Commits /\ k \in Nat /\ IdOf(last) = k
      /\ floor \in Versions
    BY <1>1, LastFacts DEF Requests, DisplayInv, Typed
<1>3. /\ ToldGrows /\ DOMAIN told' \subseteq Commits /\ \A c \in DOMAIN told' : told'[c] \in Scenes
      /\ k \in DOMAIN told' /\ told'[k] = s
    <2>1. k \in DOMAIN told => told[k] = s
        BY <1>1 DEF DisplayInv, CommitsInOrder, AnsweredIsDurable
    <2> QED BY <1>1, <1>2, <2>1, AnswerFacts
<1>4. Follows(s, k)
    BY <1>1, <1>2, <1>3, VersionOrder DEF Follows
<1>5. Typed'
    BY <1>1, <1>2, <1>3, QueueTypes DEF DisplayInv, Typed
<1> HIDE DEF s, k
<1> QED BY <1>1, <1>2, <1>4, <1>5, QueueStep DEF s

-----------------------------------------------------------------------------
(* A frame that was presented, or failed *)

\* Frame f of output o, whose runtime is rt, as a submission or a completion has it.
Completes(o, rt, f) ==
    /\ o \in DOMAIN outputs /\ f \in FramesOf(o)
    /\ RuntimeInv(o, rt, last, floor, OnlyVersioned, immediate \/ OnlyVersioned)
    /\ FrameInv(o, rt, f, last, floor, OnlyVersioned, immediate \/ OnlyVersioned)
    /\ \A c \in DOMAIN obligations : f.scene < c /\ obligations[c].ver # Unversioned =>
           Older(f.ver, obligations[c].ver)

After(rt, f, ok) == IF ok THEN Presented(rt, f) ELSE Failed(rt, f)

LEMMA AfterFacts ==
    ASSUME DisplayInv, NEW o, NEW rt, NEW f, NEW ok \in BOOLEAN, Completes(o, rt, f)
    PROVE  /\ RuntimeInv(o, After(rt, f, ok), last, floor, OnlyVersioned,
                         immediate \/ OnlyVersioned)
           /\ After(rt, f, ok).flight = None
           /\ OnlyVersioned /\ (~ok \/ Older(f.ver, rt.pver)) => After(rt, f, ok).pend # {}
<1> DEFINE v == OnlyVersioned
           x == immediate \/ v
<1>1. /\ o \in Outputs /\ f \in FramesOf(o) /\ last \in Recorded /\ floor \in Versions
      /\ RuntimeInv(o, rt, last, floor, v, x) /\ FrameInv(o, rt, f, last, floor, v, x)
      /\ IdOf(last) \in Nat /\ rt \in RuntimesOf(o)
    BY LastFacts DEF Completes, FrameInv, RuntimeInv, DisplayInv, Typed, OutputsInv
<1> HIDE DEF v, x
<1>2. RuntimeInv(o, Presented(rt, f), last, floor, v, x)
    BY <1>1, PresentedIsSafe
<1>3. RuntimeInv(o, Failed(rt, f), last, floor, v, x) /\ (v => Failed(rt, f).pend # {})
    BY <1>1, FailedIsSafe
<1>4. Presented(rt, f).flight = None /\ Failed(rt, f).flight = None
    BY <1>1 DEF Presented, Failed, RuntimesOf
<1>5. v /\ Older(f.ver, rt.pver) => Presented(rt, f).pend # {}
    <2>1. Older(f.ver, rt.pver) => Presented(rt, f).pend = rt.pend
        BY <1>1 DEF Presented, RuntimesOf
    <2>2. v => f.damage # {} /\ f.damage \subseteq rt.pend
        BY <1>1 DEF FrameInv
    <2> QED BY <2>1, <2>2
<1> QED BY <1>2, <1>3, <1>4, <1>5 DEF After, v, x

\* What a frame settles is not newer than the scene it was drawn from.
LEMMA SettledIsShown ==
    ASSUME DisplayInv, NEW o, NEW rt, NEW f, Completes(o, rt, f),
           NEW c \in DOMAIN obligations, Settles(f, o, c)
    PROVE  c <= f.scene
<1>1. f.ver \in Versions /\ f.scene \in Nat /\ f.commit <= f.scene /\ c \in Nat
      /\ obligations[c].ver \in Versions
    BY SceneFacts DEF Completes, FramesOf, FrameInv, DisplayInv, ObligationsInv
<1> DEFINE w == obligations[c].ver
<1>2. CASE f.ver[2] = 0
    BY <1>1, <1>2 DEF Settles
<1>3. CASE f.ver[2] # 0
    <2>1. w[1] = f.ver[1] /\ w[2] <= f.ver[2]
        BY <1>3 DEF Settles
    <2>2. w # Unversioned /\ ~Older(f.ver, w)
        BY <1>1, <1>3, <2>1, VersionFacts DEF Older, Unversioned
    <2>3. ~(f.scene < c)
        BY <2>2 DEF Completes
    <2> QED BY <1>1, <2>3
<1> QED BY <1>2, <1>3

\* A presented frame that leaves no damage settles what the epoch still owed there.
LEMMA UndamagedIsSettled ==
    ASSUME DisplayInv, NEW o, NEW rt, NEW f, Completes(o, rt, f), OnlyVersioned,
           ~Older(f.ver, rt.pver), NEW c \in DOMAIN obligations,
           obligations[c].out = o, obligations[c].ver[1] = floor[1]
    PROVE  Settles(f, o, c)
<1> DEFINE w == obligations[c].ver
<1>1. /\ f.ver \in Versions /\ floor \in Versions /\ w \in Versions
      /\ ~Older(floor, f.ver) /\ ~Older(floor, w) /\ w # Unversioned
    BY DEF Completes, FramesOf, FrameInv, DisplayInv, Typed, ObligationsInv, OnlyVersioned
<1>2. rt.pver = floor
    <2>1. f.damage # {} /\ f.damage \subseteq rt.pend
        BY DEF Completes, FrameInv
    <2> QED BY <2>1 DEF Completes, RuntimeInv
<1>3. f.ver = floor
    BY <1>1, <1>2, VersionOrder
<1>4. w[2] <= f.ver[2] /\ f.ver[2] # 0
    BY <1>1, <1>3, VersionFacts DEF Older, Unversioned
<1> QED BY <1>3, <1>4 DEF Settles

LEMMA CompleteStep ==
    ASSUME DisplayInv, CommitsInOrder', NEW o, NEW rt, NEW f, NEW ok \in BOOLEAN,
           Completes(o, rt, f), Complete(o, rt, f, ok),
           UNCHANGED <<immediate, sceneVars, told, astray>>
    PROVE  DisplayInv'
<1> DEFINE n == After(rt, f, ok)
           done == {c \in DOMAIN obligations : Settles(f, o, c)}
<1>1. /\ UNCHANGED <<immediate, last, floor, nextCommit, disk, store, told, astray>>
      /\ outputs' = [outputs EXCEPT ![o] = n] /\ recon' \in {recon, "Ready"}
      /\ shown' = IF ok THEN [shown EXCEPT ![o] = Max({@, f.scene})] ELSE shown
      /\ mishaps' = mishaps \/ Mishap
    BY DEF Complete, After, sceneVars
<1>2. /\ o \in DOMAIN outputs /\ o \in Outputs /\ f.scene \in Commits
    BY DEF Completes, FramesOf, DisplayInv, OutputsInv
<1>3. /\ RuntimeInv(o, n, last, floor, OnlyVersioned, immediate \/ OnlyVersioned)
      /\ n.flight = None
      /\ OnlyVersioned /\ (~ok \/ Older(f.ver, rt.pver)) => n.pend # {}
    BY AfterFacts
<1> HIDE DEF n
<1>4. /\ DOMAIN outputs' = DOMAIN outputs /\ outputs'[o] = n
      /\ \A p \in DOMAIN outputs : p # o => outputs'[p] = outputs[p]
    BY <1>1, <1>2
<1>5. /\ shown' \in [Outputs -> Commits]
      /\ \A p \in Outputs : shown'[p] >= shown[p]
      /\ ok => shown'[o] >= f.scene
    <2>1. shown \in [Outputs -> Commits]
        BY DEF DisplayInv, Typed
    <2> DEFINE pair == {shown[o], f.scene}
               m == Max(pair)
    <2>2. shown[o] \in Commits /\ \A c \in Commits : c \in Nat
        BY <1>2, <2>1, SceneFacts
    <2>3. m \in Commits /\ m >= shown[o] /\ m >= f.scene
        <3>1. \E y \in pair : \A z \in pair : y >= z
            <4>1. CASE shown[o] >= f.scene
                BY <1>2, <2>2, <4>1
            <4>2. CASE f.scene >= shown[o]
                BY <1>2, <2>2, <4>2
            <4> QED BY <1>2, <2>2, <4>1, <4>2
        <3>2. m \in pair /\ \A z \in pair : m >= z
            BY <3>1 DEF Max
        <3> HIDE DEF m
        <3> QED BY <1>2, <2>2, <3>2
    <2> HIDE DEF m
    <2>4. ok => shown' = [shown EXCEPT ![o] = m]
        BY <1>1 DEF m
    <2>5. \A p \in Outputs : shown[p] \in Nat
        BY <2>1, <2>2, SceneFacts
    <2>6. CASE ok
        <3>1. /\ shown' \in [Outputs -> Commits] /\ shown'[o] = m
              /\ \A p \in Outputs : p # o => shown'[p] = shown[p]
            BY <1>2, <2>1, <2>3, <2>4, <2>6
        <3> QED BY <2>3, <2>5, <3>1
    <2>7. CASE ~ok
        <3>1. shown' = shown
            BY <1>1, <2>7
        <3> QED BY <2>1, <2>5, <2>7, <3>1
    <2> QED BY <2>6, <2>7
<1>6. Typed'
    <2>1. mishaps' \in 0 .. MaxMishaps
        BY <1>1, DisplayAssumption DEF Mishap, DisplayInv, Typed
    <2> QED BY <1>1, <1>5, <2>1 DEF DisplayInv, Typed
<1>7. OutputsInv'
    <2>1. \A p \in DOMAIN outputs' :
              /\ RuntimeInv(p, outputs'[p], last, floor, OnlyVersioned,
                            immediate \/ OnlyVersioned)
              /\ immediate => outputs'[p].flight = None
        BY <1>3, <1>4, RuntimeFacts
    <2>2. OnlyVersioned' = OnlyVersioned
        BY <1>1 DEF OnlyVersioned
    <2>3. DOMAIN outputs' \subseteq Outputs
        BY <1>4 DEF DisplayInv, OutputsInv
    <2> QED BY <1>1, <2>1, <2>2, <2>3 DEF OutputsInv
<1>8. /\ DOMAIN obligations' = IF ok THEN DOMAIN obligations \ done ELSE DOMAIN obligations
      /\ \A c \in DOMAIN obligations' : obligations'[c] = obligations[c]
    <2>1. CASE ok
        BY <2>1 DEF Complete, note_presented_obligations, Without
    <2>2. CASE ~ok
        BY <2>2 DEF Complete
    <2> QED BY <2>1, <2>2
<1>9. DOMAIN obligations \subseteq Commits /\ done \subseteq Commits
    BY DEF DisplayInv, ObligationsInv
<1>10. ObligationsInv'
    <2>1. Cardinality(DOMAIN obligations') <= MaxObligations
        <3>1. Cardinality(DOMAIN obligations) <= MaxObligations
            BY DEF DisplayInv, ObligationsInv
        <3>2. DOMAIN obligations' \subseteq DOMAIN obligations
            BY <1>8
        <3>3. /\ Cardinality(DOMAIN obligations') <= Cardinality(DOMAIN obligations)
              /\ Cardinality(DOMAIN obligations') \in Nat
              /\ Cardinality(DOMAIN obligations) \in Nat /\ MaxObligations \in Nat
            BY <1>9, <3>2, CommitsAreFinite, FS_Subset, DisplayAssumption
        <3> QED BY <3>1, <3>3
    <2>2. ASSUME NEW c \in DOMAIN obligations'
          PROVE  LET ob == obligations'[c]
                 IN  /\ ob \in [ver : Versions, out : Outputs]
                     /\ c <= IdOf(last) /\ ~Older(floor, ob.ver)
                     /\ c \in DOMAIN told /\ told[c].ver = ob.ver
                     /\ \A p \in DOMAIN outputs' :
                            LET g == outputs'[p].flight
                            IN  g # None /\ g.scene < c /\ ob.ver # Unversioned =>
                                    Older(g.ver, ob.ver)
        BY <1>3, <1>4, <1>8 DEF DisplayInv, ObligationsInv
    <2>3. DOMAIN obligations' \subseteq Commits
        BY <1>8, <1>9
    <2> QED BY <1>1, <2>1, <2>2, <2>3 DEF ObligationsInv
<1>11. BackedInv'
    <2> SUFFICES ASSUME OnlyVersioned', NEW c \in DOMAIN obligations' \ astray',
                        obligations'[c].out \in Active', obligations'[c].ver[1] = floor'[1]
                 PROVE  outputs'[obligations'[c].out].pend # {}
        BY DEF BackedInv
    <2> DEFINE out == obligations[c].out
    <2>1. /\ c \in DOMAIN obligations \ astray /\ obligations'[c].out = out
          /\ obligations[c].ver[1] = floor[1] /\ OnlyVersioned /\ (ok => c \notin done)
        BY <1>1, <1>8 DEF OnlyVersioned
    <2>2. CASE out # o
        <3>1. out \in Active /\ outputs'[out] = outputs[out]
            BY <1>4, <2>1, <2>2 DEF Active
        <3> QED BY <2>1, <3>1 DEF DisplayInv, BackedInv
    <2>3. CASE out = o
        <3>1. ok => Older(f.ver, rt.pver)
            <4>1. ok => ~Settles(f, o, c)
                BY <2>1
            <4> QED BY <2>1, <2>3, <4>1, UndamagedIsSettled
        <3> QED BY <1>3, <1>4, <2>1, <2>3, <3>1
    <2> QED BY <2>2, <2>3
<1>12. FeedbackInv'
    <2> DEFINE after == MapThenFoldSet(LAMBDA c, F : Insert(F, c), feedbacks, LAMBDA c : c,
                                       Max, done)
    <2>1. feedbacks \subseteq Commits /\ Cardinality(feedbacks) <= MaxFeedbacks
        BY DEF DisplayInv, FeedbackInv
    <2>2. after \subseteq feedbacks \cup done /\ Cardinality(after) <= MaxFeedbacks
        BY <1>9, <2>1, FeedbackIsBounded
    <2>3. feedbacks' = IF ok THEN after ELSE feedbacks
        BY DEF Complete, note_presented_obligations
    <2> HIDE DEF after, done
    <2>4. feedbacks' \subseteq Commits /\ Cardinality(feedbacks') <= MaxFeedbacks
        BY <1>9, <2>1, <2>2, <2>3
    <2>5. ASSUME NEW c \in feedbacks'  PROVE \E p \in Outputs : shown'[p] >= c
        <3>0. \A p \in Outputs : shown[p] \in Nat /\ shown'[p] \in Nat
            BY <1>5, SceneFacts DEF DisplayInv, Typed
        <3>1. CASE c \in feedbacks
            <4>1. PICK p \in Outputs : shown[p] >= c
                BY <3>1 DEF DisplayInv, FeedbackInv, FeedbackIsEarned
            <4> QED BY <1>5, <2>1, <3>0, <3>1, <4>1, SceneFacts
        <3>2. CASE ok /\ c \in done
            <4>1. c <= f.scene
                BY <3>2, SettledIsShown DEF done
            <4> QED BY <1>2, <1>5, <1>9, <3>0, <3>2, <4>1, SceneFacts
        <3> QED BY <2>2, <2>3, <2>5, <3>1, <3>2
    <2> QED BY <2>4, <2>5 DEF FeedbackInv, FeedbackIsEarned
<1> QED BY <1>6, <1>7, <1>10, <1>11, <1>12 DEF DisplayInv

LEMMA CompletionStep ==
    ASSUME DisplayInv, CommitsInOrder', NEW o \in Outputs, NEW ok \in BOOLEAN,
           SubmitAndComplete(o, ok) \/ CompletePresentation(o, ok)
    PROVE  DisplayInv'
<1> DEFINE v == OnlyVersioned
           x == immediate \/ v
           rt == outputs[o]
<1>1. CASE SubmitAndComplete(o, ok)
    <2> DEFINE f == Frame(o)
    <2>1. /\ o \in DOMAIN outputs /\ f \in FramesOf(o) /\ f.scene = IdOf(last)
          /\ FrameInv(o, rt, f, last, floor, v, x)
        BY <1>1, FrameFacts DEF SubmitAndComplete
    <2>2. rt \in RuntimesOf(o) /\ RuntimeInv(o, rt, last, floor, v, x)
        BY <2>1, RuntimeFacts
    <2> HIDE DEF rt, f, v, x
    <2>3. /\ Ticked(rt) \in RuntimesOf(o) /\ Calms(rt, Ticked(rt))
          /\ Ticked(rt).pend = rt.pend /\ Ticked(rt).disabled = rt.disabled
        BY <2>2, TickedIsCalm
    <2>4. RuntimeInv(o, Ticked(rt), last, floor, v, x)
        BY <2>2, <2>3, CalmIsSafe
    <2>5. FrameInv(o, Ticked(rt), f, last, floor, v, x)
        <3>1. Ticked(rt).fb = rt.fb /\ Ticked(rt).pver = rt.pver
            BY <2>3 DEF Calms
        <3> QED BY <2>1, <2>3, <3>1 DEF FrameInv
    <2>6. \A c \in DOMAIN obligations : ~(f.scene < c)
        <3>1. \A c \in DOMAIN obligations : c <= IdOf(last) /\ c \in Nat
            BY SceneFacts DEF DisplayInv, ObligationsInv
        <3>2. IdOf(last) \in Nat
            BY LastFacts DEF DisplayInv
        <3> QED BY <2>1, <3>1, <3>2
    <2>7. Completes(o, Ticked(rt), f)
        BY <2>1, <2>4, <2>5, <2>6 DEF Completes, v, x
    <2>8. Complete(o, Ticked(rt), f, ok) /\ UNCHANGED <<immediate, sceneVars, told, astray>>
        BY <1>1 DEF SubmitAndComplete, rt, f
    <2> QED BY <2>7, <2>8, CompleteStep
<1>2. CASE CompletePresentation(o, ok)
    <2> DEFINE f == rt.flight
    <2>1. o \in DOMAIN outputs /\ f # None
        BY <1>2 DEF CompletePresentation
    <2>2. rt \in RuntimesOf(o) /\ RuntimeInv(o, rt, last, floor, v, x)
        BY <2>1, RuntimeFacts
    <2>3. FrameInv(o, rt, f, last, floor, v, x) /\ f \in FramesOf(o)
        BY <2>1, <2>2 DEF RuntimeInv, RuntimesOf
    <2>4. \A c \in DOMAIN obligations : f.scene < c /\ obligations[c].ver # Unversioned =>
              Older(f.ver, obligations[c].ver)
        BY <2>1 DEF DisplayInv, ObligationsInv
    <2> HIDE DEF f, rt, v, x
    <2>5. Completes(o, rt, f)
        BY <2>1, <2>2, <2>3, <2>4 DEF Completes, v, x
    <2>6. Complete(o, rt, f, ok) /\ UNCHANGED <<immediate, sceneVars, told, astray>>
        BY <1>2 DEF CompletePresentation, rt, f
    <2> QED BY <2>5, <2>6, CompleteStep
<1> QED BY <1>1, <1>2

-----------------------------------------------------------------------------
(* The invariant holds, and what follows from it *)

\* Every request, event, tick, completion and restart keeps the invariant.
LEMMA NextKeepsDisplay ==
    ASSUME DisplayInv, [Next]_vars
    PROVE  DisplayInv'
<1>0. CommitsInOrder'
    BY NextKeepsOrder DEF DisplayInv
<1>1. ASSUME NEW r \in Requests, NEW via \in {"commit", "reconcile"},
             Commit(r, via) \/ Replay(r, via) \/ Repeat(r, via)
      PROVE  DisplayInv'
    BY <1>0, <1>1, CommitStep, ReplayStep, RepeatStep
<1>2. ASSUME NEW r \in Requests, Exhausted(r) \/ RecordFails(r) \/ DiesRecording(r)
      PROVE  DisplayInv'
    BY <1>0, <1>2, FailedRequestStep, DiesRecordingStep
<1>3. CASE Restart
    BY <1>0, <1>3, RestartStep
<1>4. ASSUME NEW epoch \in {"old", "same", "new"}, BeginReconciliation(epoch)
      PROVE  DisplayInv'
    BY <1>0, <1>4, BeginReconciliationStep
<1>5. ASSUME NEW o \in Outputs, Connected(o) \/ Disabled(o)
      PROVE  DisplayInv'
    BY <1>0, <1>5, ConnectedStep, DisabledStep
<1>6. ASSUME NEW S \in SUBSET DOMAIN outputs, Disconnected(S)
      PROVE  DisplayInv'
    BY <1>0, <1>6, DisconnectedStep
<1>7. ASSUME NEW o \in Outputs, Advance(o) \/ Submit(o) \/ SubmitFails(o)
      PROVE  DisplayInv'
    BY <1>0, <1>7, AdvanceStep, SubmitStep, SubmitFailsStep
<1>8. ASSUME NEW o \in Outputs, NEW ok \in BOOLEAN,
             SubmitAndComplete(o, ok) \/ CompletePresentation(o, ok)
      PROVE  DisplayInv'
    BY <1>0, <1>8, CompletionStep
<1>9. CASE UNCHANGED vars
    <2>1. UNCHANGED <<immediate, recon, last, floor, nextCommit, disk, store, outputs,
                      obligations, feedbacks, mishaps, told, shown, astray>>
        BY <1>9 DEF vars, sceneVars, history
    <2>2. Calm /\ Moves
        BY <2>1, SameOutputsAreCalm, SameMoves DEF ToldGrows
    <2>3. Typed'
        BY <2>1 DEF DisplayInv, Typed
    <2> QED BY <1>0, <2>1, <2>2, <2>3, CalmStep
<1> QED BY <1>1, <1>2, <1>3, <1>4, <1>5, <1>6, <1>7, <1>8, <1>9 DEF Next

\* displayd's scenes, outputs, obligations and feedback fit together after any
\* requests, output events, ticks, completions, failures and restarts.
THEOREM DisplayInvariant == Spec => []DisplayInv
BY InitDisplay, NextKeepsDisplay, PTL DEF Spec

\* An output that readiness_from_state calls Ready shows the last accepted scene in
\* every region: its frame is right wherever no damage is pending, and none is.
THEOREM ReadyIsCurrentHolds == Spec => []ReadyIsCurrent
<1>1. ASSUME DisplayInv  PROVE ReadyIsCurrent
    <2> SUFFICES ASSUME immediate \/ OnlyVersioned, NEW o \in DOMAIN outputs, OutputReady(o)
                 PROVE  outputs[o].fb = [c \in Cells[o] |-> Content(last.scene.pic)[c]]
        BY DEF ReadyIsCurrent
    <2> DEFINE rt == outputs[o]
    <2>1. /\ rt \in RuntimesOf(o)
          /\ RuntimeInv(o, rt, last, floor, OnlyVersioned, immediate \/ OnlyVersioned)
        BY <1>1, RuntimeFacts
    <2>2. ~rt.disabled /\ rt.published /\ rt.pend = {}
        BY DEF OutputReady
    <2>3. rt.fb # None /\ Shows(rt.fb, Cells[o] \ rt.pend, last)
        BY <2>1, <2>2 DEF RuntimeInv
    <2>4. rt.fb \in [Cells[o] -> Pictures]
        BY <2>1, <2>3 DEF RuntimesOf
    <2>5. \A c \in Cells[o] : rt.fb[c] = Content(last.scene.pic)[c]
        BY <2>2, <2>3 DEF Shows
    <2> HIDE DEF rt
    <2>6. rt.fb = [c \in Cells[o] |-> Content(last.scene.pic)[c]]
        BY <2>4, <2>5
    <2> QED BY <2>6 DEF rt
<1> QED BY <1>1, DisplayInvariant, PTL

\* get_presentation_feedback answers FramePresented for a commit only when an output
\* has shown the scene of that commit or of a later one.
THEOREM FeedbackIsEarnedHolds == Spec => []FeedbackIsEarned
<1>1. DisplayInv => FeedbackIsEarned
    BY DEF DisplayInv, FeedbackInv
<1> QED BY <1>1, DisplayInvariant, PTL

\* What one output has and shows, whatever its size, is an output's runtime.
LEMMA RuntimeTypes ==
    ASSUME NEW o \in Outputs
    PROVE  RuntimesOf(o) \subseteq Runtimes
<1>1. [Cells[o] -> Pictures] \subseteq UNION {[Cells[p] -> Pictures] : p \in Outputs}
    OBVIOUS
<1>2. Cells[o] \subseteq Regions
    BY SceneFacts
<1>3. FramesOf(o) \subseteq Frames
    BY <1>1, <1>2 DEF FramesOf, Frames
<1> DEFINE Fb == UNION {[Cells[p] -> Pictures] : p \in Outputs}
           FbOf == [Cells[o] -> Pictures]
<1>4. FbOf \subseteq Fb
    BY <1>1
<1> HIDE DEF Fb, FbOf
<1>5. RuntimesOf(o) \subseteq
          [disabled : BOOLEAN, fb : Fb \cup {None}, published : BOOLEAN,
           pend : SUBSET Regions, pver : Versions, pcommit : Commits,
           retry : [ver : Versions, commit : Commits] \cup {None},
           flight : Frames \cup {None}]
    <2> SUFFICES ASSUME NEW rt \in RuntimesOf(o)
                 PROVE  rt \in [disabled : BOOLEAN, fb : Fb \cup {None}, published : BOOLEAN,
                                pend : SUBSET Regions, pver : Versions, pcommit : Commits,
                                retry : [ver : Versions, commit : Commits] \cup {None},
                                flight : Frames \cup {None}]
        OBVIOUS
    <2>1. rt \in [disabled : BOOLEAN, fb : FbOf \cup {None}, published : BOOLEAN,
                  pend : SUBSET Cells[o], pver : Versions, pcommit : Commits,
                  retry : [ver : Versions, commit : Commits] \cup {None},
                  flight : FramesOf(o) \cup {None}]
        BY DEF RuntimesOf, FbOf
    <2> QED BY <1>2, <1>3, <1>4, <2>1
<1> QED BY <1>5 DEF Runtimes, Fb

\* An obligation of the current scene epoch whose output is there has damage pending
\* there for the last scene, and obligations and feedback stay within their budgets.
THEOREM ObligationIsBackedHolds == Spec => []ObligationIsBacked
<1>1. ASSUME DisplayInv  PROVE ObligationIsBacked
    <2>1. \A o \in DOMAIN outputs : outputs[o] \in Runtimes
        BY <1>1, RuntimeFacts, RuntimeTypes
    <2>2. TypeOK
        BY <1>1, <2>1 DEF DisplayInv, CommitsInOrder, Typed, OutputsInv, ObligationsInv,
                          FeedbackInv, TypeOK
    <2>3. ASSUME OnlyVersioned, NEW c \in DOMAIN obligations \ astray,
                 obligations[c].out \in Active, obligations[c].ver[1] = floor[1]
          PROVE  /\ outputs[obligations[c].out].pend # {}
                 /\ c <= outputs[obligations[c].out].pcommit
        <3> DEFINE out == obligations[c].out
        <3>1. outputs[out].pend # {} /\ c <= IdOf(last)
            BY <1>1, <2>3 DEF DisplayInv, BackedInv, ObligationsInv
        <3>2. out \in DOMAIN outputs
            BY <2>3 DEF Active
        <3>3. outputs[out].pcommit = IdOf(last)
            BY <1>1, <2>3, <3>1, <3>2, RuntimeFacts DEF RuntimeInv
        <3> QED BY <3>1, <3>3
    <2> QED BY <2>2, <2>3 DEF ObligationIsBacked
<1> QED BY <1>1, DisplayInvariant, PTL
=============================================================================
