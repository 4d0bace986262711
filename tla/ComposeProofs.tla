--------------------------- MODULE ComposeProofs ---------------------------
(***************************************************************************)
(* Proofs about module Compose, for scenes, outputs, buffers and damage of *)
(* any size: the framebuffers show the scene that displayd has, but for    *)
(* what is owed or was never reported (effective_damage_rects,             *)
(* compose_damage_rects), what a client reports arrives                    *)
(* (production_scene_surfaces_for_generation), and a capture is what is    *)
(* shown (publish_atomic).  The middle of the module follows one place c   *)
(* of the screen through the folds that compose it.                        *)
(***************************************************************************)
EXTENDS Compose, FiniteSetTheorems, WellFoundedInduction, TLAPS

-----------------------------------------------------------------------------
(* Rectangles *)

LEMMA CellsAre ==
    ASSUME NEW r \in Rects, NEW c
    PROVE  c \in Cells(r) <=> /\ c \in Int \X Int
                              /\ r.x0 <= c[1] /\ c[1] < r.x1 /\ r.y0 <= c[2] /\ c[2] < r.y1
<1>1. r.x0 \in Int /\ r.x1 \in Int /\ r.y0 \in Int /\ r.y1 \in Int  BY DEF Rects
<1>2. ASSUME c \in Cells(r)
      PROVE  c \in Int \X Int /\ r.x0 <= c[1] /\ c[1] < r.x1 /\ r.y0 <= c[2] /\ c[2] < r.y1
  <2>1. c[1] \in r.x0 .. (r.x1 - 1) /\ c[2] \in r.y0 .. (r.y1 - 1) /\ c = <<c[1], c[2]>>  BY <1>2 DEF Cells
  <2>2. QED  BY <1>1, <2>1
<1>3. ASSUME c \in Int \X Int, r.x0 <= c[1], c[1] < r.x1, r.y0 <= c[2], c[2] < r.y1
      PROVE  c \in Cells(r)
  <2>1. c[1] \in r.x0 .. (r.x1 - 1) /\ c[2] \in r.y0 .. (r.y1 - 1) /\ c = <<c[1], c[2]>>  BY <1>1, <1>3
  <2>2. QED  BY <2>1 DEF Cells
<1>4. QED  BY <1>2, <1>3

LEMMA RectIs ==
    ASSUME NEW x0 \in Int, NEW y0 \in Int, NEW x1 \in Int, NEW y1 \in Int
    PROVE  /\ Rect(x0, y0, x1, y1) \in Rects
           /\ Rect(x0, y0, x1, y1).x0 = x0 /\ Rect(x0, y0, x1, y1).y0 = y0
           /\ Rect(x0, y0, x1, y1).x1 = x1 /\ Rect(x0, y0, x1, y1).y1 = y1
BY DEF Rect, Rects

\* A rectangle that has cells.
Proper(r) == r \in Rects /\ r.x0 < r.x1 /\ r.y0 < r.y1

LEMMA FromOriginFacts ==
    ASSUME NEW x \in Int, NEW y \in Int, NEW w \in Int, NEW h \in Int
    PROVE  /\ IsFiniteSet(from_origin_size(x, y, w, h))
           /\ \A r \in from_origin_size(x, y, w, h) : Proper(r) /\ r = Rect(x, y, x + w, y + h)
           /\ (w > 0 /\ h > 0 /\ x + w <= MaxCoord /\ y + h <= MaxCoord)
                  => from_origin_size(x, y, w, h) = {Rect(x, y, x + w, y + h)}
           /\ from_origin_size(x, y, w, h) # {}
                  => w > 0 /\ h > 0 /\ x + w <= MaxCoord /\ y + h <= MaxCoord
<1> DEFINE r == Rect(x, y, x + w, y + h)
<1>1. r \in Rects /\ r.x0 = x /\ r.y0 = y /\ r.x1 = x + w /\ r.y1 = y + h  BY RectIs
<1>2. from_origin_size(x, y, w, h) = {t \in {r} : w > 0 /\ h > 0 /\ t.x1 <= MaxCoord /\ t.y1 <= MaxCoord}
  BY DEF from_origin_size
<1>3. IsFiniteSet({r})  BY FS_Singleton
<1> HIDE DEF r
<1>4. from_origin_size(x, y, w, h) \subseteq {r}  BY <1>2
<1>5. IsFiniteSet(from_origin_size(x, y, w, h))  BY <1>3, <1>4, FS_Subset
<1>6. QED  BY <1>1, <1>2, <1>5 DEF Proper, r

LEMMA IntersectFacts ==
    ASSUME NEW R \in SUBSET Rects, NEW S \in SUBSET Rects
    PROVE  /\ \A t \in intersect(R, S) :
                  Proper(t) /\ \E r \in R, s \in S : Cells(t) = Cells(r) \cap Cells(s)
                                 /\ t = Rect(Hi(r.x0, s.x0), Hi(r.y0, s.y0), Lo(r.x1, s.x1), Lo(r.y1, s.y1))
           /\ Covered(intersect(R, S)) = Covered(R) \cap Covered(S)
           /\ intersect(R, S) \in SUBSET Rects
<1> DEFINE T(r, s) == Rect(Hi(r.x0, s.x0), Hi(r.y0, s.y0), Lo(r.x1, s.x1), Lo(r.y1, s.y1))
<1>1. ASSUME NEW r \in Rects, NEW s \in Rects
      PROVE  T(r, s) \in Rects /\ Cells(T(r, s)) = Cells(r) \cap Cells(s)
  <2>1. r.x0 \in Int /\ r.x1 \in Int /\ r.y0 \in Int /\ r.y1 \in Int  BY DEF Rects
  <2>2. s.x0 \in Int /\ s.x1 \in Int /\ s.y0 \in Int /\ s.y1 \in Int  BY DEF Rects
  <2>3. /\ T(r, s) \in Rects
        /\ T(r, s).x0 = Hi(r.x0, s.x0) /\ T(r, s).y0 = Hi(r.y0, s.y0)
        /\ T(r, s).x1 = Lo(r.x1, s.x1) /\ T(r, s).y1 = Lo(r.y1, s.y1)
    <3>1. /\ Hi(r.x0, s.x0) \in Int /\ Hi(r.y0, s.y0) \in Int
          /\ Lo(r.x1, s.x1) \in Int /\ Lo(r.y1, s.y1) \in Int
      BY <2>1, <2>2 DEF Hi, Lo
    <3>2. QED  BY <3>1, RectIs
  <2> HIDE DEF T
  <2>4. ASSUME NEW c  PROVE c \in Cells(T(r, s)) <=> c \in Cells(r) /\ c \in Cells(s)
    <3>1. c \in Cells(r) <=> c \in Int \X Int /\ r.x0 <= c[1] /\ c[1] < r.x1 /\ r.y0 <= c[2] /\ c[2] < r.y1
      BY CellsAre
    <3>2. c \in Cells(s) <=> c \in Int \X Int /\ s.x0 <= c[1] /\ c[1] < s.x1 /\ s.y0 <= c[2] /\ c[2] < s.y1
      BY CellsAre
    <3>3. c \in Cells(T(r, s)) <=> /\ c \in Int \X Int
                                  /\ T(r, s).x0 <= c[1] /\ c[1] < T(r, s).x1
                                  /\ T(r, s).y0 <= c[2] /\ c[2] < T(r, s).y1
      BY <2>3, CellsAre
    <3>4. QED  BY <2>1, <2>2, <2>3, <3>1, <3>2, <3>3 DEF Hi, Lo
  <2>5. QED  BY <2>3, <2>4
<1>2. intersect(R, S) = {t \in {T(r, s) : r \in R, s \in S} : t.x1 > t.x0 /\ t.y1 > t.y0}
  BY DEF intersect
<1> HIDE DEF T
<1>3. ASSUME NEW t \in intersect(R, S)
      PROVE  Proper(t) /\ \E r \in R, s \in S : Cells(t) = Cells(r) \cap Cells(s) /\ t = T(r, s)
  <2>1. PICK r \in R, s \in S : t = T(r, s)  BY <1>2
  <2>2. t \in Rects /\ Cells(t) = Cells(r) \cap Cells(s)  BY <1>1, <2>1
  <2>3. t.x1 > t.x0 /\ t.y1 > t.y0  BY <1>2
  <2>4. t.x0 \in Int /\ t.x1 \in Int /\ t.y0 \in Int /\ t.y1 \in Int  BY <2>2 DEF Rects
  <2>5. QED  BY <2>1, <2>2, <2>3, <2>4 DEF Proper
<1>4. ASSUME NEW c, c \in Covered(R), c \in Covered(S)  PROVE c \in Covered(intersect(R, S))
  <2>1. PICK r \in R, s \in S : c \in Cells(r) /\ c \in Cells(s)  BY <1>4 DEF Covered
  <2>2. T(r, s) \in Rects /\ c \in Cells(T(r, s))  BY <1>1, <2>1
  <2>3. /\ T(r, s).x0 <= c[1] /\ c[1] < T(r, s).x1 /\ T(r, s).y0 <= c[2] /\ c[2] < T(r, s).y1
        /\ c \in Int \X Int
    BY <2>2, CellsAre
  <2>4. /\ T(r, s).x0 \in Int /\ T(r, s).x1 \in Int /\ T(r, s).y0 \in Int /\ T(r, s).y1 \in Int
        /\ c[1] \in Int /\ c[2] \in Int
    BY <2>2, <2>3 DEF Rects
  <2>5. T(r, s) \in intersect(R, S)  BY <1>2, <2>3, <2>4
  <2>6. QED  BY <2>2, <2>5 DEF Covered
<1>5. ASSUME NEW c \in Covered(intersect(R, S))  PROVE c \in Covered(R) /\ c \in Covered(S)
  <2>1. PICK t \in intersect(R, S) : c \in Cells(t)  BY DEF Covered
  <2>2. PICK r \in R, s \in S : Cells(t) = Cells(r) \cap Cells(s)  BY <1>3
  <2>3. QED  BY <2>1, <2>2 DEF Covered
<1>6. Covered(intersect(R, S)) = Covered(R) \cap Covered(S)  BY <1>4, <1>5
<1>7. QED  BY <1>3, <1>6 DEF T, Proper

LEMMA IntersectIsFinite ==
    ASSUME NEW R, NEW S, IsFiniteSet(R), IsFiniteSet(S)
    PROVE  IsFiniteSet(intersect(R, S))
<1> DEFINE f == [p \in R \X S |-> Rect(Hi(p[1].x0, p[2].x0), Hi(p[1].y0, p[2].y0),
                                       Lo(p[1].x1, p[2].x1), Lo(p[1].y1, p[2].y1))]
           I == {f[p] : p \in R \X S}
<1>1. IsFiniteSet(R \X S)  BY FS_Product
<1>2. IsFiniteSet(I)
  <2>1. f \in Surjection(R \X S, I)  BY DEF Surjection
  <2> HIDE DEF f, I
  <2>2. QED  BY <1>1, <2>1, FS_Surjection
<1>3. intersect(R, S) \subseteq I
  <2>1. ASSUME NEW r \in R, NEW s \in S
        PROVE  Rect(Hi(r.x0, s.x0), Hi(r.y0, s.y0), Lo(r.x1, s.x1), Lo(r.y1, s.y1)) \in I
    <3>1. <<r, s>> \in R \X S  OBVIOUS
    <3>2. f[<<r, s>>] = Rect(Hi(r.x0, s.x0), Hi(r.y0, s.y0), Lo(r.x1, s.x1), Lo(r.y1, s.y1))  BY <3>1
    <3>3. QED  BY <3>1, <3>2
  <2> HIDE DEF I
  <2>2. QED  BY <2>1 DEF intersect
<1> HIDE DEF I
<1>4. QED  BY <1>2, <1>3, FS_Subset

LEMMA CoveredFacts ==
    /\ Covered({}) = {}
    /\ \A r : Covered({r}) = Cells(r)
    /\ \A R, S : Covered(R \cup S) = Covered(R) \cup Covered(S)
BY DEF Covered

\* Damage within an area.
IsDamage(R, area) ==
    IsFiniteSet(R) /\ \A r \in R : Proper(r) /\ Cells(r) \subseteq Cells(area)

LEMMA Limits == MaxDamageRects \in Nat /\ MaxDamageRects >= 1 /\ MaxCoord \in Nat
BY ComposeAssumption

LEMMA BoundedFacts ==
    ASSUME NEW area, Proper(area), NEW R, IsDamage(R, area)
    PROVE  /\ IsDamage(Bounded(R, area), area) /\ Cardinality(Bounded(R, area)) <= MaxDamageRects
           /\ Covered(R) \subseteq Covered(Bounded(R, area))
<1>1. IsFiniteSet({area}) /\ Cardinality({area}) = 1  BY FS_Singleton
<1>2. Cardinality(R) \in Nat  BY FS_CardinalityType DEF IsDamage
<1>3. CASE Cardinality(R) > MaxDamageRects
  <2>1. Bounded(R, area) = {area}  BY <1>3 DEF Bounded
  <2>2. Covered(R) \subseteq Cells(area)  BY DEF Covered, IsDamage
  <2>3. IsDamage({area}, area)  BY <1>1 DEF IsDamage
  <2>4. Cardinality({area}) <= MaxDamageRects  BY <1>1, Limits
  <2>5. Covered({area}) = Cells(area)  BY CoveredFacts
  <2>6. QED  BY <2>1, <2>2, <2>3, <2>4, <2>5
<1>4. CASE ~(Cardinality(R) > MaxDamageRects)
  <2>1. Bounded(R, area) = R  BY <1>4 DEF Bounded
  <2>2. Cardinality(R) <= MaxDamageRects  BY <1>2, <1>4, Limits
  <2>3. QED  BY <2>1, <2>2
<1>5. QED  BY <1>3, <1>4

LEMMA UnionIsDamage ==
    ASSUME NEW R, NEW S, NEW area, IsDamage(R, area), IsDamage(S, area)
    PROVE  IsDamage(R \cup S, area)
BY FS_Union DEF IsDamage

LEMMA BoundsFacts ==
    ASSUME NEW g \in Geometries
    PROVE  /\ g.x \in Int /\ g.y \in Int /\ g.w \in Nat \ {0} /\ g.h \in Nat \ {0} /\ g.pitch \in Nat
           /\ g.pitch >= g.w /\ framebuffer_words(g) \in Nat
           /\ Proper(bounds(g)) /\ IsDamage({bounds(g)}, bounds(g)) /\ Cardinality({bounds(g)}) = 1
           /\ bounds(g).x0 = g.x /\ bounds(g).y0 = g.y
           /\ bounds(g).x1 = g.x + g.w /\ bounds(g).y1 = g.y + g.h
<1>1. /\ g.x \in Int /\ g.y \in Int /\ g.w \in Nat /\ g.h \in Nat /\ g.pitch \in Nat
      /\ g.w > 0 /\ g.h > 0 /\ g.pitch >= g.w
  BY ComposeAssumption
<1>2. framebuffer_words(g) \in Nat  BY <1>1 DEF framebuffer_words
<1>3. /\ bounds(g) \in Rects /\ bounds(g).x0 = g.x /\ bounds(g).y0 = g.y
      /\ bounds(g).x1 = g.x + g.w /\ bounds(g).y1 = g.y + g.h
  <2>1. g.x + g.w \in Int /\ g.y + g.h \in Int  BY <1>1
  <2>2. bounds(g) = Rect(g.x, g.y, g.x + g.w, g.y + g.h)  BY DEF bounds
  <2>3. QED  BY <1>1, <2>1, <2>2 DEF Rect, Rects
<1>4. Proper(bounds(g))  BY <1>1, <1>3 DEF Proper
<1>5. IsFiniteSet({bounds(g)}) /\ Cardinality({bounds(g)}) = 1  BY FS_Singleton
<1>6. IsDamage({bounds(g)}, bounds(g))  BY <1>4, <1>5 DEF IsDamage
<1>7. QED  BY <1>1, <1>2, <1>3, <1>4, <1>5, <1>6

-----------------------------------------------------------------------------
(* Folds over finite sets and sequences *)

\* Induction over the parts of a finite set: of the parts that are bad, if any,
\* one has no bad part of its own.
LEMMA SmallestBad ==
    ASSUME NEW S, IsFiniteSet(S), NEW Bad, Bad \subseteq SUBSET S, Bad # {}
    PROVE  \E T \in Bad : \A U \in SUBSET T : U # T => U \notin Bad
<1>1. IsWellFoundedOn(StrictSubsetOrdering(S), FiniteSubsetsOf(S))
  BY FS_StrictSubsetOrderingWellFounded
<1>2. FiniteSubsetsOf(S) = SUBSET S  BY FS_FiniteSubsetsOfFinite
<1>3. PICK T \in Bad : \A U \in Bad : ~(<<U, T>> \in StrictSubsetOrdering(S))
  BY <1>1, <1>2, WFMin
<1>4. ASSUME NEW U \in SUBSET T, U # T, U \in Bad  PROVE FALSE
  <2>1. <<U, T>> \in (SUBSET S) \X (SUBSET S)  BY <1>4
  <2>2. <<U, T>> \in StrictSubsetOrdering(S)  BY <2>1, <1>4 DEF StrictSubsetOrdering
  <2> QED  BY <1>3, <1>4, <2>2
<1> QED  BY <1>3, <1>4

\* Every set of numbers has a least one.
LEMMA LeastOf ==
    ASSUME NEW T \in SUBSET Nat, T # {}
    PROVE  \E x \in T : \A y \in T : x <= y
<1>1. PICK x \in T : \A y \in T : ~(<<y, x>> \in OpToRel(<, Nat))
  BY NatLessThanWellFounded, WFMin
<1>2. \A y \in T : ~(y < x)  BY <1>1 DEF OpToRel
<1> QED  BY <1>2

\* Induction over places 0 to n.
LEMMA EveryPlace ==
    ASSUME NEW n \in Nat, NEW B \in SUBSET (0 .. n), 0 \in B,
           \A i \in 1 .. n : i - 1 \in B => i \in B
    PROVE  \A i \in 0 .. n : i \in B
<1> DEFINE Bad == {x \in 0 .. n : x \notin B}
<1> SUFFICES ASSUME Bad # {}  PROVE FALSE  OBVIOUS
<1>1. PICK x \in Bad : \A y \in Bad : x <= y
  <2>1. Bad \in SUBSET Nat  OBVIOUS
  <2> HIDE DEF Bad
  <2> QED  BY <2>1, LeastOf
<1>2. x \in 0 .. n /\ x \notin B  BY <1>1
<1>3. x \in 1 .. n /\ x - 1 \in 0 .. n /\ ~(x <= x - 1)  BY <1>2
<1>4. x - 1 \in B  BY <1>1, <1>3
<1> QED  BY <1>2, <1>3, <1>4

\* g folds F over the parts of S, taking C[s] of a part s last.
IsFold(g, b, F, C, S) ==
    g = [s \in SUBSET S |-> IF s = {} THEN b ELSE F[<<C[s], g[s \ {C[s]}]>>]]
Chooses(C, S) == \A s \in SUBSET S : s # {} => C[s] \in s

\* Two folds agree where both are defined.
LEMMA FoldsAgree ==
    ASSUME NEW b, NEW F, NEW C, NEW S, NEW T, IsFiniteSet(S), Chooses(C, S), NEW g, NEW h,
           IsFold(g, b, F, C, S), IsFold(h, b, F, C, T)
    PROVE  \A s \in SUBSET S : s \in SUBSET T => g[s] = h[s]
<1> DEFINE Bad == {s \in SUBSET S : s \in SUBSET T /\ g[s] # h[s]}
<1> SUFFICES ASSUME Bad # {}  PROVE FALSE  OBVIOUS
<1>0. Bad \subseteq SUBSET S  OBVIOUS
<1>1. PICK s \in Bad : \A U \in SUBSET s : U # s => U \notin Bad
  <2> HIDE DEF Bad
  <2> QED  BY <1>0, SmallestBad
<1>2. s \in SUBSET S /\ s \in SUBSET T /\ g[s] # h[s]  BY <1>1
<1>3. s # {}  BY <1>2 DEF IsFold
<1> DEFINE r == s \ {C[s]}
<1>4. r \in SUBSET s /\ r # s  BY <1>2, <1>3 DEF Chooses
<1>5. g[r] = h[r]  BY <1>1, <1>2, <1>4
<1>6. g[s] = F[<<C[s], g[r]>>] /\ h[s] = F[<<C[s], h[r]>>]  BY <1>2, <1>3 DEF IsFold
<1> QED  BY <1>2, <1>5, <1>6

LEMMA FoldExists ==
    ASSUME NEW b, NEW F, NEW C, NEW S, IsFiniteSet(S), Chooses(C, S)
    PROVE  \E g : IsFold(g, b, F, C, S)
<1> DEFINE Bad == {T \in SUBSET S : ~\E g : IsFold(g, b, F, C, T)}
<1> SUFFICES ASSUME Bad # {}  PROVE FALSE  OBVIOUS
<1>0. Bad \subseteq SUBSET S  OBVIOUS
<1>1. PICK T \in Bad : \A U \in SUBSET T : U # T => U \notin Bad
  <2> HIDE DEF Bad
  <2> QED  BY <1>0, SmallestBad
<1> DEFINE fold(U) == CHOOSE g : IsFold(g, b, F, C, U)
           rest(U) == U \ {C[U]}
<1>2. \A U \in SUBSET T : U # T => IsFold(fold(U), b, F, C, U)  BY <1>1
<1>3. \A U \in SUBSET T : U # {} => rest(U) \in SUBSET U /\ rest(U) # U
  BY <1>1 DEF Chooses
<1> DEFINE value(U) == IF U = {} THEN b ELSE F[<<C[U], fold(rest(U))[rest(U)]>>]
           whole == [U \in SUBSET T |-> value(U)]
<1>4. ASSUME NEW U \in SUBSET T, U # {}
      PROVE  fold(rest(U))[rest(U)] = whole[rest(U)]
  <2> DEFINE V == rest(U)
             W == rest(V)
  <2>1. V \in SUBSET T /\ V # T  BY <1>3, <1>4
  <2>2. IsFold(fold(V), b, F, C, V)  BY <2>1, <1>2
  <2>a. IsFiniteSet(V) /\ Chooses(C, V)  BY <2>1, <1>1, FS_Subset DEF Chooses
  <2> HIDE DEF V
  <2>3. CASE V = {}
    <3>1. fold(V)[V] = b  BY <2>2, <2>3 DEF IsFold
    <3> QED  BY <2>1, <2>3, <3>1 DEF V
  <2>4. CASE V # {}
    <3>1. W \in SUBSET V /\ W # V /\ W \in SUBSET T /\ W # T  BY <1>3, <2>1, <2>4
    <3>2. IsFold(fold(W), b, F, C, W)  BY <1>2, <3>1
    <3>3. fold(V)[V] = F[<<C[V], fold(V)[W]>>]  BY <2>2, <2>4 DEF IsFold
    <3>4. whole[V] = F[<<C[V], fold(W)[W]>>]  BY <2>1, <2>4
    <3> HIDE DEF W, fold, whole
    <3>5. fold(V)[W] = fold(W)[W]  BY <2>2, <2>a, <3>1, <3>2, FoldsAgree
    <3> QED  BY <3>3, <3>4, <3>5 DEF V
  <2> QED  BY <2>3, <2>4
<1>5. IsFold(whole, b, F, C, T)
  <2> HIDE DEF fold, rest
  <2>1. \A U \in SUBSET T :
            value(U) = IF U = {} THEN b ELSE F[<<C[U], whole[rest(U)]>>]  BY <1>4
  <2> HIDE DEF value
  <2> DEFINE right == [U \in SUBSET T |-> IF U = {} THEN b ELSE F[<<C[U], whole[U \ {C[U]}]>>]]
  <2>2. whole = right  BY <2>1 DEF rest
  <2> QED  BY <2>2 DEF IsFold
<1> QED  BY <1>1, <1>5

\* A fold keeps to a set that F keeps to.
LEMMA FoldStays ==
    ASSUME NEW A, NEW b \in A, NEW F, NEW C, NEW S, IsFiniteSet(S), Chooses(C, S),
           \A x \in S, a \in A : F[<<x, a>>] \in A,
           NEW g, IsFold(g, b, F, C, S)
    PROVE  \A s \in SUBSET S : g[s] \in A
<1> DEFINE Bad == {s \in SUBSET S : g[s] \notin A}
<1> SUFFICES ASSUME Bad # {}  PROVE FALSE  OBVIOUS
<1>0. Bad \subseteq SUBSET S  OBVIOUS
<1>1. PICK s \in Bad : \A U \in SUBSET s : U # s => U \notin Bad
  <2> HIDE DEF Bad
  <2> QED  BY <1>0, SmallestBad
<1>2. s \in SUBSET S /\ g[s] \notin A  BY <1>1
<1>3. s # {}  BY <1>2 DEF IsFold
<1> DEFINE r == s \ {C[s]}
<1>4. C[s] \in s /\ r \in SUBSET s /\ r # s  BY <1>2, <1>3 DEF Chooses
<1>5. g[r] \in A  BY <1>1, <1>2, <1>4
<1>6. g[s] = F[<<C[s], g[r]>>]  BY <1>2, <1>3 DEF IsFold
<1> QED  BY <1>2, <1>4, <1>5, <1>6

\* The first i places of n.
LEMMA Segments ==
    ASSUME NEW n \in Nat
    PROVE  /\ IsFiniteSet(1 .. n) /\ 1 .. 0 = {}
           /\ \A i \in 0 .. n : 1 .. i \in SUBSET (1 .. n)
           /\ \A i \in 1 .. n : 1 .. i # {} /\ Max(1 .. i) = i /\ (1 .. i) \ {i} = 1 .. (i - 1)
<1>1. ASSUME NEW i \in 1 .. n
      PROVE  1 .. i # {} /\ Max(1 .. i) = i /\ (1 .. i) \ {i} = 1 .. (i - 1)
  <2>1. i \in 1 .. i /\ \A y \in 1 .. i : i >= y  OBVIOUS
  <2>2. \A x \in 1 .. i : (\A y \in 1 .. i : x >= y) => x = i  BY <2>1
  <2>3. Max(1 .. i) = i  BY <2>1, <2>2 DEF Max
  <2>4. (1 .. i) \ {i} = 1 .. (i - 1)  OBVIOUS
  <2> QED  BY <2>1, <2>3, <2>4
<1>2. IsFiniteSet(1 .. n)  BY FS_Interval
<1>3. 1 .. 0 = {}  OBVIOUS
<1>4. \A i \in 0 .. n : 1 .. i \in SUBSET (1 .. n)  OBVIOUS
<1> QED  BY <1>1, <1>2, <1>3, <1>4

\* The greatest of some places is one of them.
LEMMA MaxIsIn ==
    ASSUME NEW n \in Nat, NEW s \in SUBSET (1 .. n), s # {}
    PROVE  Max(s) \in s
<1> DEFINE T == {n - x : x \in s}
<1>1. \A x \in s : x \in 1 .. n /\ n - x \in Nat  OBVIOUS
<1>2. T \in SUBSET Nat  BY <1>1
<1>3. T # {}  OBVIOUS
<1> HIDE DEF T
<1>4. PICK m \in T : \A y \in T : m <= y  BY <1>2, <1>3, LeastOf
<1>5. PICK x \in s : m = n - x  BY <1>4 DEF T
<1>6. \A y \in s : n - x <= n - y  BY <1>4, <1>5 DEF T
<1>7. \A y \in s : x >= y  BY <1>1, <1>6
<1> QED  BY <1>7 DEF Max

-----------------------------------------------------------------------------
(* The order of the surfaces *)

\* A scene that displayd can get: each surface has its rank and shows a buffer.
IsScenery(S) ==
    /\ DOMAIN S \in SUBSET Surfaces /\ S \in [DOMAIN S -> Sprites]
    /\ \A i \in DOMAIN S :
           /\ IsFiniteSet(S[i].damage) /\ S[i].z = Cardinality({j \in DOMAIN S : j < i})
           /\ S[i].px \in Contents
           /\ \E b \in Buffers : S[i].w = b.w /\ S[i].h = b.h /\ S[i].fmt = b.fmt /\ S[i].buffer_generation = b.id

\* Every rank is taken by exactly one surface.
Ranked(S) ==
    /\ IsFiniteSet(DOMAIN S) /\ Cardinality(DOMAIN S) \in Nat
    /\ \A i \in DOMAIN S : S[i].z \in 0 .. Cardinality(DOMAIN S) - 1
    /\ \A i, j \in DOMAIN S : S[i].z = S[j].z => i = j
    /\ \A k \in 0 .. Cardinality(DOMAIN S) - 1 : \E i \in DOMAIN S : S[i].z = k

LEMMA SurfacesFacts == Surfaces \subseteq Nat /\ IsFiniteSet(Surfaces)
BY ComposeAssumption

LEMMA RanksOf ==
    ASSUME NEW D \in SUBSET Surfaces
    PROVE  /\ IsFiniteSet(D) /\ Cardinality(D) \in Nat
           /\ \A i \in D : Cardinality({j \in D : j < i}) \in 0 .. Cardinality(D) - 1
           /\ \A i, j \in D : Cardinality({x \in D : x < i}) = Cardinality({x \in D : x < j}) => i = j
           /\ \A k \in 0 .. Cardinality(D) - 1 : \E i \in D : Cardinality({j \in D : j < i}) = k
<1> DEFINE Below(i) == {j \in D : j < i}
           n == Cardinality(D)
           rank == [i \in D |-> Cardinality(Below(i))]
<1>1. IsFiniteSet(D) /\ n \in Nat  BY SurfacesFacts, FS_Subset, FS_CardinalityType
<1>2. D \subseteq Nat  BY SurfacesFacts
<1>3. ASSUME NEW i \in D
      PROVE  IsFiniteSet(Below(i)) /\ Cardinality(Below(i)) \in 0 .. n - 1
  <2>1. Below(i) \in SUBSET D /\ i \notin Below(i)  BY <1>2
  <2> HIDE DEF Below
  <2>2. IsFiniteSet(Below(i)) /\ Cardinality(Below(i)) <= n /\ Cardinality(Below(i)) # n
    BY <1>1, <2>1, FS_Subset
  <2>3. Cardinality(Below(i)) \in Nat  BY <2>2, FS_CardinalityType
  <2>4. QED  BY <1>1, <2>2, <2>3
<1>4. ASSUME NEW i \in D, NEW j \in D, i < j
      PROVE  Cardinality(Below(i)) # Cardinality(Below(j))
  <2>1. Below(i) \in SUBSET Below(j) /\ i \in Below(j) /\ i \notin Below(i)
    <3>1. i \in Nat /\ j \in Nat  BY <1>2
    <3>2. ASSUME NEW x \in D, x < i  PROVE x < j
      <4>1. x \in Nat  BY <1>2
      <4>2. QED  BY <1>4, <3>1, <3>2, <4>1
    <3>3. \A x \in Below(i) : x \in Below(j)  BY <3>2
    <3>4. i \in Below(j) /\ i \notin Below(i)  BY <1>4, <3>1
    <3> HIDE DEF Below
    <3>5. QED  BY <3>3, <3>4
  <2>2. IsFiniteSet(Below(j))  BY <1>3
  <2> HIDE DEF Below
  <2>3. QED  BY <2>1, <2>2, FS_Subset
<1>5. \A i, j \in D : Cardinality(Below(i)) = Cardinality(Below(j)) => i = j
  <2> SUFFICES ASSUME NEW i \in D, NEW j \in D, Cardinality(Below(i)) = Cardinality(Below(j))
               PROVE  i = j
    OBVIOUS
  <2> HIDE DEF Below
  <2>1. i < j \/ j < i \/ i = j  BY <1>2
  <2>2. QED  BY <1>4, <2>1
<1> HIDE DEF Below, n
<1>6. rank \in Injection(D, 0 .. n - 1)
  <2>1. rank \in [D -> 0 .. n - 1]  BY <1>3
  <2>2. \A i, j \in D : rank[i] = rank[j] => i = j  BY <1>5
  <2> HIDE DEF rank
  <2>3. DOMAIN rank = D  BY <2>1
  <2>4. QED  BY <2>1, <2>2, <2>3 DEF Injection, IsInjective
<1>7. IsFiniteSet(0 .. n - 1) /\ Cardinality(0 .. n - 1) = n  BY <1>1, FS_Interval
<1> HIDE DEF rank
<1>8. rank \in Surjection(D, 0 .. n - 1)  BY <1>6, <1>7, FS_Injection DEF n
<1>9. \A k \in 0 .. n - 1 : \E i \in D : Cardinality(Below(i)) = k  BY <1>8 DEF Surjection, rank
<1>10. QED  BY <1>1, <1>3, <1>5, <1>9 DEF Below, n

LEMMA SceneryIsRanked ==
    ASSUME NEW S, IsScenery(S)
    PROVE  Ranked(S)
<1>1. DOMAIN S \in SUBSET Surfaces /\ \A i \in DOMAIN S : S[i].z = Cardinality({j \in DOMAIN S : j < i})
  BY DEF IsScenery
<1> DEFINE D == DOMAIN S
<1>2. D \in SUBSET Surfaces  BY <1>1
<1>3. \A i \in D : S[i].z = Cardinality({j \in D : j < i})  BY <1>1
<1> HIDE DEF D
<1>4. /\ IsFiniteSet(D) /\ Cardinality(D) \in Nat
      /\ \A i \in D : Cardinality({j \in D : j < i}) \in 0 .. Cardinality(D) - 1
      /\ \A i, j \in D : Cardinality({x \in D : x < i}) = Cardinality({x \in D : x < j}) => i = j
      /\ \A k \in 0 .. Cardinality(D) - 1 : \E i \in D : Cardinality({j \in D : j < i}) = k
  BY <1>2, RanksOf
<1>5. /\ \A i \in D : S[i].z \in 0 .. Cardinality(D) - 1
      /\ \A k \in 0 .. Cardinality(D) - 1 : \E i \in D : S[i].z = k
  BY <1>3, <1>4
<1>6. \A i, j \in D : S[i].z = S[j].z => i = j  BY <1>3, <1>4
<1>7. QED  BY <1>4, <1>5, <1>6 DEF Ranked, D

\* BackToFront is the surfaces by their rank.
LEMMA BackToFrontFacts ==
    ASSUME NEW S, Ranked(S)
    PROVE  /\ Cardinality(DOMAIN S) \in Nat
           /\ DOMAIN BackToFront(S) = 1 .. Cardinality(DOMAIN S)
           /\ \A k \in 1 .. Cardinality(DOMAIN S) :
                  BackToFront(S)[k] \in DOMAIN S /\ S[BackToFront(S)[k]].z = k - 1
           /\ \A i \in DOMAIN S, k \in 1 .. Cardinality(DOMAIN S) : S[i].z = k - 1 => BackToFront(S)[k] = i
<1> DEFINE n == Cardinality(DOMAIN S)
<1>1. n \in Nat  BY DEF Ranked
<1>2. ASSUME NEW k \in 1 .. n
      PROVE  BackToFront(S)[k] \in DOMAIN S /\ S[BackToFront(S)[k]].z = k - 1
  <2>1. k - 1 \in 0 .. n - 1  BY <1>1
  <2>2. \E i \in DOMAIN S : S[i].z = k - 1  BY <2>1 DEF Ranked
  <2>3. BackToFront(S)[k] = CHOOSE i \in DOMAIN S : S[i].z = k - 1  BY DEF BackToFront
  <2>4. QED  BY <2>2, <2>3
<1>3. DOMAIN BackToFront(S) = 1 .. n  BY DEF BackToFront
<1> HIDE DEF n
<1>4. ASSUME NEW i \in DOMAIN S, NEW k \in 1 .. n, S[i].z = k - 1
      PROVE  BackToFront(S)[k] = i
  BY <1>2, <1>4 DEF Ranked
<1>5. QED  BY <1>1, <1>2, <1>3, <1>4 DEF n

-----------------------------------------------------------------------------
(* Pixels *)

LEMMA SourceOverIsPixel ==
    ASSUME NEW p \in Colours, NEW dst \in Pixel
    PROVE  compose_source_over(p, dst) \in Pixel
<1> DEFINE channel(c, d) == Lo(c + div255_rounded(d * (255 - p.a)), 255)
<1>1. p.a \in 0 .. 255 /\ p.r \in 0 .. 255 /\ p.b \in 0 .. 255  BY DEF Colours
<1>2. dst[1] \in 0 .. 255 /\ dst[2] \in 0 .. 255  BY DEF Pixel
<1>3. ASSUME NEW c \in 0 .. 255, NEW d \in 0 .. 255  PROVE channel(c, d) \in 0 .. 255
  <2> DEFINE v == d * (255 - p.a)
  <2>1. 255 - p.a \in Nat /\ d \in Nat  BY <1>1
  <2>2. v \in Nat  BY <2>1
  <2> HIDE DEF v
  <2>3. div255_rounded(v) \in Nat  BY <2>2 DEF div255_rounded
  <2>4. Lo(c + div255_rounded(v), 255) \in 0 .. 255  BY <2>3 DEF Lo
  <2>5. QED  BY <2>4 DEF v
<1>4. compose_source_over(p, dst) = CASE p.a = 0 -> dst [] p.a = 255 -> <<p.r, p.b>>
                                      [] OTHER -> <<channel(p.r, dst[1]), channel(p.b, dst[2])>>
  BY DEF compose_source_over
<1> HIDE DEF channel
<1>5. <<p.r, p.b>> \in Pixel  BY <1>1 DEF Pixel
<1>6. <<channel(p.r, dst[1]), channel(p.b, dst[2])>> \in Pixel  BY <1>1, <1>2, <1>3 DEF Pixel
<1>7. CASE p.a = 0  BY <1>4, <1>7
<1>8. CASE p.a = 255  BY <1>4, <1>5, <1>8
<1>9. CASE p.a # 0 /\ p.a # 255  BY <1>4, <1>6, <1>9
<1>10. QED  BY <1>7, <1>8, <1>9

LEMMA SpriteFacts ==
    ASSUME NEW S, IsScenery(S), NEW i \in DOMAIN S
    PROVE  /\ S[i] \in Sprites /\ S[i].x \in Int /\ S[i].y \in Int /\ S[i].z \in Nat
           /\ S[i].w \in 1 .. MaxCoord /\ S[i].h \in 1 .. MaxCoord
           /\ S[i].px \in Contents /\ S[i].damage \in SUBSET Damages /\ IsFiniteSet(S[i].damage)
           /\ \E b \in Buffers : S[i].w = b.w /\ S[i].h = b.h /\ S[i].fmt = b.fmt /\ S[i].buffer_generation = b.id
<1>1. S[i] \in Sprites  BY DEF IsScenery
<1>2. /\ S[i].px \in Contents /\ IsFiniteSet(S[i].damage)
      /\ \E b \in Buffers : S[i].w = b.w /\ S[i].h = b.h /\ S[i].fmt = b.fmt /\ S[i].buffer_generation = b.id
  BY DEF IsScenery
<1>3. \A b \in Buffers : b.w \in 1 .. MaxCoord /\ b.h \in 1 .. MaxCoord  BY BuffersAssumption
<1>4. S[i].x \in Int /\ S[i].y \in Int /\ S[i].z \in Nat /\ S[i].damage \in SUBSET Damages
  BY <1>1 DEF Sprites
<1>5. QED  BY <1>1, <1>2, <1>3, <1>4

\* The place of a surface that is at place c of the screen.
Place(s, c) == <<c[1] - s.x, c[2] - s.y>>
WholeOf(s) == Whole([w |-> s.w, h |-> s.h])

LEMMA WholeIs ==
    ASSUME NEW s, s.w \in Int, s.h \in Int, NEW l
    PROVE  l \in WholeOf(s) <=> /\ l \in Int \X Int
                                /\ 0 <= l[1] /\ l[1] < s.w /\ 0 <= l[2] /\ l[2] < s.h
<1>1. WholeOf(s) = (0 .. s.w - 1) \X (0 .. s.h - 1)  BY DEF WholeOf, Whole
<1>2. ASSUME l \in WholeOf(s)
      PROVE  l \in Int \X Int /\ 0 <= l[1] /\ l[1] < s.w /\ 0 <= l[2] /\ l[2] < s.h
  <2>1. l[1] \in 0 .. s.w - 1 /\ l[2] \in 0 .. s.h - 1 /\ l = <<l[1], l[2]>>  BY <1>1, <1>2
  <2>2. QED  BY <2>1
<1>3. ASSUME l \in Int \X Int, 0 <= l[1], l[1] < s.w, 0 <= l[2], l[2] < s.h
      PROVE  l \in WholeOf(s)
  <2>1. l[1] \in 0 .. s.w - 1 /\ l[2] \in 0 .. s.h - 1 /\ l = <<l[1], l[2]>>  BY <1>3
  <2>2. QED  BY <1>1, <2>1
<1>4. QED  BY <1>2, <1>3

\* Where a surface shows.
LEMMA OnSurface ==
    ASSUME NEW S, IsScenery(S), NEW i \in DOMAIN S, NEW c
    PROVE  /\ surface_output_bounds(S[i]) \in SUBSET Rects /\ IsFiniteSet(surface_output_bounds(S[i]))
           /\ \A r \in surface_output_bounds(S[i]) : Proper(r)
           /\ c \in Covered(surface_output_bounds(S[i])) =>
                  /\ c \in Int \X Int /\ Place(S[i], c) \in WholeOf(S[i])
                  /\ S[i].x + S[i].w <= MaxCoord /\ S[i].y + S[i].h <= MaxCoord
<1> DEFINE s == S[i]
           B == surface_output_bounds(s)
<1>1. s.x \in Int /\ s.y \in Int /\ s.w \in 1 .. MaxCoord /\ s.h \in 1 .. MaxCoord /\ MaxCoord \in Nat
  BY SpriteFacts, Limits
<1> HIDE DEF s
<1>2. s.w \in Int /\ s.h \in Int  BY <1>1
<1>3. B = from_origin_size(s.x, s.y, s.w, s.h)  BY DEF surface_output_bounds
<1>4. /\ IsFiniteSet(B) /\ \A r \in B : Proper(r) /\ r = Rect(s.x, s.y, s.x + s.w, s.y + s.h)
      /\ B # {} => s.x + s.w <= MaxCoord /\ s.y + s.h <= MaxCoord
  BY <1>1, <1>2, <1>3, FromOriginFacts
<1> HIDE DEF B
<1>5. ASSUME c \in Covered(B)
      PROVE  /\ c \in Int \X Int /\ Place(s, c) \in WholeOf(s)
             /\ s.x + s.w <= MaxCoord /\ s.y + s.h <= MaxCoord
  <2>1. PICK r \in B : c \in Cells(r)  BY <1>5 DEF Covered
  <2>2. r \in Rects /\ r = Rect(s.x, s.y, s.x + s.w, s.y + s.h)  BY <1>4, <2>1 DEF Proper
  <2>3. r.x0 = s.x /\ r.y0 = s.y /\ r.x1 = s.x + s.w /\ r.y1 = s.y + s.h  BY <2>2 DEF Rect
  <2>4. c \in Int \X Int /\ r.x0 <= c[1] /\ c[1] < r.x1 /\ r.y0 <= c[2] /\ c[2] < r.y1
    BY <2>1, <2>2, CellsAre
  <2>5. c[1] \in Int /\ c[2] \in Int  BY <2>4
  <2> DEFINE l == Place(s, c)
  <2>6. l \in Int \X Int /\ l[1] = c[1] - s.x /\ l[2] = c[2] - s.y  BY <1>1, <2>5 DEF Place
  <2> HIDE DEF l
  <2>7. 0 <= l[1] /\ l[1] < s.w /\ 0 <= l[2] /\ l[2] < s.h  BY <1>1, <2>3, <2>4, <2>5, <2>6
  <2>8. l \in WholeOf(s)  BY <1>2, <2>6, <2>7, WholeIs
  <2>9. QED  BY <1>4, <2>1, <2>4, <2>8 DEF l
<1>6. B \in SUBSET Rects  BY <1>4 DEF Proper
<1>7. QED  BY <1>4, <1>5, <1>6 DEF s, B

\* One surface over what is at c.
Over(s, c, under) ==
    IF c \in Covered(surface_output_bounds(s)) THEN copy_surface_rect(s, c, under) ELSE under

LEMMA OverIsPixel ==
    ASSUME NEW S, IsScenery(S), NEW i \in DOMAIN S, NEW c, NEW under \in Pixel
    PROVE  Over(S[i], c, under) \in Pixel
<1> SUFFICES ASSUME c \in Covered(surface_output_bounds(S[i])), S[i].px # None
             PROVE  copy_surface_rect(S[i], c, under) \in Pixel
  BY DEF Over, copy_surface_rect, fallback_surface_pixel, Pixel
<1>1. Place(S[i], c) \in WholeOf(S[i])  BY OnSurface
<1>2. PICK b \in Buffers : S[i].w = b.w /\ S[i].h = b.h  BY SpriteFacts
<1>3. Place(S[i], c) \in Whole(b)  BY <1>1, <1>2 DEF WholeOf, Whole
<1>4. S[i].px \in Contents  BY SpriteFacts
<1> DEFINE p == S[i].px[Place(S[i], c)]
<1>5. p \in Colours  BY <1>3, <1>4, BuffersAssumption
<1>6. pixel_for_surface(S[i], c) = IF S[i].fmt = "xrgb" THEN [p EXCEPT !.a = 255] ELSE p
  BY DEF pixel_for_surface, Place
<1> HIDE DEF p
<1>7. pixel_for_surface(S[i], c) \in Colours  BY <1>5, <1>6 DEF Colours
<1>8. copy_surface_rect(S[i], c, under) = compose_source_over(pixel_for_surface(S[i], c), under)
  BY DEF copy_surface_rect
<1>9. QED  BY <1>7, <1>8, SourceOverIsPixel

-----------------------------------------------------------------------------
(* What a place looks like *)

IsTrace(h, S, c) ==
    /\ h[0] = Background
    /\ \A k \in 1 .. Cardinality(DOMAIN S) : h[k] = Over(S[BackToFront(S)[k]], c, h[k - 1])

\* What the scene looks like at c, surface after surface.
LEMMA LookTrace ==
    ASSUME NEW S, IsScenery(S), NEW c
    PROVE  \E h \in [0 .. Cardinality(DOMAIN S) -> Pixel] :
               IsTrace(h, S, c) /\ h[Cardinality(DOMAIN S)] = Look(S, c)
<1> DEFINE A == Pixel
           n == Cardinality(DOMAIN S)
           N == 1 .. n
           q == BackToFront(S)
           Op(u, i) == LET s == S[i]
                       IN  IF c \notin Covered(surface_output_bounds(s)) THEN u
                           ELSE IF s.px = None THEN fallback_surface_pixel
                           ELSE compose_source_over(pixel_for_surface(s, c), u)
           F == [p \in N \X A |-> Op(p[2], q[p[1]])]
           C == [u \in SUBSET N |-> Max(u)]
           G(f) == f = [u \in SUBSET N |-> IF u = {} THEN Background ELSE Op(f[u \ {Max(u)}], q[Max(u)])]
           g == CHOOSE f : G(f)
<1>0. n \in Nat /\ DOMAIN q = N /\ \A k \in N : q[k] \in DOMAIN S
  BY SceneryIsRanked, BackToFrontFacts
<1>1. Look(S, c) = g[N]
  BY <1>0 DEF FoldLeft, MapThenFoldSet, Look
<1>2. IsFiniteSet(N) /\ Chooses(C, N)  BY <1>0, Segments, MaxIsIn DEF Chooses
<1>3. \A u \in A, i \in DOMAIN S : Op(u, i) = Over(S[i], c, u) /\ Op(u, i) \in A
  <2>1. \A u, i : i \in DOMAIN S => Op(u, i) = Over(S[i], c, u)
    BY DEF Over, copy_surface_rect
  <2>2. \A u \in A, i \in DOMAIN S : Over(S[i], c, u) \in A  BY OverIsPixel
  <2>3. QED  BY <2>1, <2>2
<1>k. Background \in A  BY DEF Background, Pixel
<1> HIDE DEF Op, A
<1>4. \A x \in N, a \in A : F[<<x, a>>] = Op(a, q[x]) /\ F[<<x, a>>] \in A  BY <1>0, <1>3
<1> HIDE DEF F, q
<1>5. \E f : G(f)
  <2>1. PICK f : IsFold(f, Background, F, C, N)  BY <1>2, FoldExists
  <2>2. \A u \in SUBSET N : f[u] \in A  BY <1>2, <1>k, <1>4, <2>1, FoldStays
  <2>3. \A u \in SUBSET N : u # {} => /\ Max(u) \in N /\ C[u] = Max(u) /\ f[u \ {Max(u)}] \in A
                                       /\ F[<<C[u], f[u \ {C[u]}]>>] = Op(f[u \ {Max(u)}], q[Max(u)])
    BY <1>0, <1>4, <2>2, MaxIsIn
  <2>4. f = [u \in SUBSET N |-> IF u = {} THEN Background ELSE F[<<C[u], f[u \ {C[u]}]>>]]
    BY <2>1 DEF IsFold
  <2> HIDE DEF C
  <2>5. G(f)  BY <2>3, <2>4
  <2>6. QED  BY <2>5
<1>6. G(g)  BY <1>5
<1>7. \A u \in SUBSET N : g[u] = IF u = {} THEN Background ELSE Op(g[u \ {Max(u)}], q[Max(u)])
  BY <1>6
<1> DEFINE B == {i \in 0 .. n : g[1 .. i] \in A}
           h == [i \in 0 .. n |-> g[1 .. i]]
<1> HIDE DEF g, n
<1>8. g[1 .. 0] = Background  BY <1>0, <1>7, Segments
<1>9. ASSUME NEW i \in 1 .. n  PROVE g[1 .. i] = Op(g[1 .. (i - 1)], q[i])
  <2>1. 1 .. i \in SUBSET N /\ 1 .. i # {} /\ Max(1 .. i) = i /\ (1 .. i) \ {i} = 1 .. (i - 1)
    BY <1>0, Segments
  <2>2. QED  BY <1>7, <2>1
<1>10. \A i \in 0 .. n : i \in B
  <2>1. 0 \in B  BY <1>0, <1>k, <1>8
  <2>2. ASSUME NEW i \in 1 .. n, i - 1 \in B  PROVE i \in B
    <3>1. g[1 .. (i - 1)] \in A /\ i \in 0 .. n /\ q[i] \in DOMAIN S  BY <1>0, <2>2
    <3>2. Op(g[1 .. (i - 1)], q[i]) \in A  BY <1>3, <3>1
    <3>3. QED  BY <1>9, <3>1, <3>2
  <2>3. B \in SUBSET (0 .. n)  OBVIOUS
  <2> HIDE DEF B
  <2>4. QED  BY <1>0, <2>1, <2>2, <2>3, EveryPlace
<1>11. h \in [0 .. n -> A] /\ h[0] = Background /\ h[n] = g[N]
  BY <1>0, <1>8, <1>10
<1>12. ASSUME NEW i \in 1 .. n  PROVE h[i] = Over(S[q[i]], c, h[i - 1])
  <2>1. g[1 .. (i - 1)] \in A /\ i \in 0 .. n /\ i - 1 \in 0 .. n /\ q[i] \in DOMAIN S  BY <1>0, <1>10
  <2>2. h[i] = g[1 .. i] /\ h[i - 1] = g[1 .. (i - 1)]  BY <2>1
  <2>3. QED  BY <1>3, <1>9, <2>1, <2>2
<1> HIDE DEF h
<1>13. IsTrace(h, S, c)  BY <1>11, <1>12 DEF IsTrace, q, n
<1>14. QED  BY <1>1, <1>11, <1>13 DEF A, n

\* What compose_damage_rects copies to place c for rectangle r.
Copies(S, c, r) ==
    FoldLeft(LAMBDA under, i :
            IF c \in Covered(intersect(surface_output_bounds(S[i]), {r}))
            THEN copy_surface_rect(S[i], c, under) ELSE under,
            Background, BackToFront(S))

\* What is copied for c within a rectangle r, surface after surface.
LEMMA CopiesTrace ==
    ASSUME NEW S, IsScenery(S), NEW c, NEW r \in Rects, c \in Cells(r)
    PROVE  \E h \in [0 .. Cardinality(DOMAIN S) -> Pixel] :
               IsTrace(h, S, c) /\ h[Cardinality(DOMAIN S)] = Copies(S, c, r)
<1> DEFINE A == Pixel
           n == Cardinality(DOMAIN S)
           N == 1 .. n
           q == BackToFront(S)
           Op(u, i) == IF c \in Covered(intersect(surface_output_bounds(S[i]), {r}))
                       THEN copy_surface_rect(S[i], c, u) ELSE u
           F == [p \in N \X A |-> Op(p[2], q[p[1]])]
           C == [u \in SUBSET N |-> Max(u)]
           G(f) == f = [u \in SUBSET N |-> IF u = {} THEN Background ELSE Op(f[u \ {Max(u)}], q[Max(u)])]
           g == CHOOSE f : G(f)
<1>0. n \in Nat /\ DOMAIN q = N /\ \A k \in N : q[k] \in DOMAIN S
  BY SceneryIsRanked, BackToFrontFacts
<1>1. Copies(S, c, r) = g[N]
  BY <1>0 DEF FoldLeft, MapThenFoldSet, Copies
<1>2. IsFiniteSet(N) /\ Chooses(C, N)  BY <1>0, Segments, MaxIsIn DEF Chooses
<1>3. \A u \in A, i \in DOMAIN S : Op(u, i) = Over(S[i], c, u) /\ Op(u, i) \in A
  <2>1. \A u, i : i \in DOMAIN S => Op(u, i) = Over(S[i], c, u)
    <3>1. ASSUME NEW i \in DOMAIN S
          PROVE  c \in Covered(intersect(surface_output_bounds(S[i]), {r}))
                     <=> c \in Covered(surface_output_bounds(S[i]))
      <4>1. surface_output_bounds(S[i]) \in SUBSET Rects  BY OnSurface
      <4>2. Covered({r}) = Cells(r)  BY CoveredFacts
      <4>3. QED  BY <4>1, <4>2, IntersectFacts
    <3>2. QED  BY <3>1 DEF Over
  <2>2. \A u \in A, i \in DOMAIN S : Over(S[i], c, u) \in A  BY OverIsPixel
  <2>3. QED  BY <2>1, <2>2
<1>k. Background \in A  BY DEF Background, Pixel
<1> HIDE DEF Op, A
<1>4. \A x \in N, a \in A : F[<<x, a>>] = Op(a, q[x]) /\ F[<<x, a>>] \in A  BY <1>0, <1>3
<1> HIDE DEF F, q
<1>5. \E f : G(f)
  <2>1. PICK f : IsFold(f, Background, F, C, N)  BY <1>2, FoldExists
  <2>2. \A u \in SUBSET N : f[u] \in A  BY <1>2, <1>k, <1>4, <2>1, FoldStays
  <2>3. \A u \in SUBSET N : u # {} => /\ Max(u) \in N /\ C[u] = Max(u) /\ f[u \ {Max(u)}] \in A
                                       /\ F[<<C[u], f[u \ {C[u]}]>>] = Op(f[u \ {Max(u)}], q[Max(u)])
    BY <1>0, <1>4, <2>2, MaxIsIn
  <2>4. f = [u \in SUBSET N |-> IF u = {} THEN Background ELSE F[<<C[u], f[u \ {C[u]}]>>]]
    BY <2>1 DEF IsFold
  <2> HIDE DEF C
  <2>5. G(f)  BY <2>3, <2>4
  <2>6. QED  BY <2>5
<1>6. G(g)  BY <1>5
<1>7. \A u \in SUBSET N : g[u] = IF u = {} THEN Background ELSE Op(g[u \ {Max(u)}], q[Max(u)])
  BY <1>6
<1> DEFINE B == {i \in 0 .. n : g[1 .. i] \in A}
           h == [i \in 0 .. n |-> g[1 .. i]]
<1> HIDE DEF g, n
<1>8. g[1 .. 0] = Background  BY <1>0, <1>7, Segments
<1>9. ASSUME NEW i \in 1 .. n  PROVE g[1 .. i] = Op(g[1 .. (i - 1)], q[i])
  <2>1. 1 .. i \in SUBSET N /\ 1 .. i # {} /\ Max(1 .. i) = i /\ (1 .. i) \ {i} = 1 .. (i - 1)
    BY <1>0, Segments
  <2>2. QED  BY <1>7, <2>1
<1>10. \A i \in 0 .. n : i \in B
  <2>1. 0 \in B  BY <1>0, <1>k, <1>8
  <2>2. ASSUME NEW i \in 1 .. n, i - 1 \in B  PROVE i \in B
    <3>1. g[1 .. (i - 1)] \in A /\ i \in 0 .. n /\ q[i] \in DOMAIN S  BY <1>0, <2>2
    <3>2. Op(g[1 .. (i - 1)], q[i]) \in A  BY <1>3, <3>1
    <3>3. QED  BY <1>9, <3>1, <3>2
  <2>3. B \in SUBSET (0 .. n)  OBVIOUS
  <2> HIDE DEF B
  <2>4. QED  BY <1>0, <2>1, <2>2, <2>3, EveryPlace
<1>11. h \in [0 .. n -> A] /\ h[0] = Background /\ h[n] = g[N]
  BY <1>0, <1>8, <1>10
<1>12. ASSUME NEW i \in 1 .. n  PROVE h[i] = Over(S[q[i]], c, h[i - 1])
  <2>1. g[1 .. (i - 1)] \in A /\ i \in 0 .. n /\ i - 1 \in 0 .. n /\ q[i] \in DOMAIN S  BY <1>0, <1>10
  <2>2. h[i] = g[1 .. i] /\ h[i - 1] = g[1 .. (i - 1)]  BY <2>1
  <2>3. QED  BY <1>3, <1>9, <2>1, <2>2
<1> HIDE DEF h
<1>13. IsTrace(h, S, c)  BY <1>11, <1>12 DEF IsTrace, q, n
<1>14. QED  BY <1>1, <1>11, <1>13 DEF A, n

\* The surfaces that show at c.
At(S, c) == {i \in DOMAIN S : c \in Covered(surface_output_bounds(S[i]))}

\* Nothing tells two scenes apart at c.
Alike(S, T, c) ==
    /\ \A i \in At(S, c) : /\ i \in At(T, c) /\ T[i].z = S[i].z
                           /\ \A u \in Pixel : Over(T[i], c, u) = Over(S[i], c, u)
    /\ \A i \in At(T, c) : i \in At(S, c)

LEMMA LoIs ==
    ASSUME NEW k \in Nat, NEW n \in Nat
    PROVE  /\ k <= n => Lo(k, n) = k
           /\ k >= n => Lo(k, n) = n
           /\ Lo(k, n) \in 0 .. n
BY DEF Lo

LEMMA TraceStep ==
    ASSUME NEW S, IsScenery(S), NEW c, NEW h, IsTrace(h, S, c), NEW k \in Nat, k >= 1,
           NEW n, n = Cardinality(DOMAIN S)
    PROVE  /\ n \in Nat
           /\ \A i \in At(S, c) : S[i].z = k - 1 => h[Lo(k, n)] = Over(S[i], c, h[Lo(k - 1, n)])
           /\ (\A i \in At(S, c) : S[i].z # k - 1) => h[Lo(k, n)] = h[Lo(k - 1, n)]
<1>1. n \in Nat /\ k - 1 \in Nat  BY SceneryIsRanked, BackToFrontFacts
<1>2. CASE k <= n
  <2>1. Lo(k, n) = k /\ Lo(k - 1, n) = k - 1 /\ k \in 1 .. n  BY <1>1, <1>2, LoIs
  <2> DEFINE j == BackToFront(S)[k]
  <2>2. /\ j \in DOMAIN S /\ S[j].z = k - 1
        /\ \A i \in DOMAIN S : S[i].z = k - 1 => j = i
    BY <2>1, SceneryIsRanked, BackToFrontFacts
  <2>3. h[k] = Over(S[j], c, h[k - 1])  BY <2>1 DEF IsTrace
  <2> HIDE DEF j
  <2>4. j \notin At(S, c) => h[k] = h[k - 1]  BY <2>2, <2>3 DEF At, Over
  <2>5. \A i \in At(S, c) : i \in DOMAIN S  BY DEF At
  <2>6. QED  BY <1>1, <2>1, <2>2, <2>3, <2>4, <2>5
<1>3. CASE k > n
  <2>1. Lo(k, n) = n /\ Lo(k - 1, n) = n  BY <1>1, <1>3, LoIs
  <2>2. \A i \in At(S, c) : S[i].z \in 0 .. n - 1  BY SceneryIsRanked DEF Ranked, At
  <2>3. \A i \in At(S, c) : S[i].z # k - 1  BY <1>1, <1>3, <2>2
  <2>4. QED  BY <1>1, <2>1, <2>3
<1>4. QED  BY <1>1, <1>2, <1>3

EndsIn(h, S, c, v) ==
    h \in [0 .. Cardinality(DOMAIN S) -> Pixel] /\ IsTrace(h, S, c) /\ h[Cardinality(DOMAIN S)] = v

LEMMA TracesMeet ==
    ASSUME NEW S, IsScenery(S), NEW T, IsScenery(T), NEW c, Alike(S, T, c),
           NEW g, NEW v, EndsIn(g, S, c, v), NEW h, NEW w, EndsIn(h, T, c, w)
    PROVE  v = w
<1> DEFINE m == Cardinality(DOMAIN S)
           n == Cardinality(DOMAIN T)
<1>1. m \in Nat /\ n \in Nat  BY SceneryIsRanked, BackToFrontFacts
<1>a. g \in [0 .. m -> Pixel] /\ IsTrace(g, S, c) /\ g[m] = v  BY DEF EndsIn
<1>b. h \in [0 .. n -> Pixel] /\ IsTrace(h, T, c) /\ h[n] = w  BY DEF EndsIn
<1>c. m = Cardinality(DOMAIN S) /\ n = Cardinality(DOMAIN T)  OBVIOUS
<1> HIDE DEF m, n
<1> DEFINE B == {k \in 0 .. m + n : g[Lo(k, m)] = h[Lo(k, n)]}
<1>2. 0 \in B
  <2>1. Lo(0, m) = 0 /\ Lo(0, n) = 0  BY <1>1, LoIs
  <2>2. g[0] = h[0]  BY <1>a, <1>b DEF IsTrace
  <2>3. 0 \in 0 .. m + n  BY <1>1
  <2>4. QED  BY <2>1, <2>2, <2>3
<1>3. ASSUME NEW k \in 1 .. m + n, k - 1 \in B  PROVE k \in B
  <2>1. k \in Nat /\ k >= 1 /\ k - 1 \in Nat /\ k \in 0 .. m + n  BY <1>1
  <2> DEFINE u == g[Lo(k - 1, m)]
  <2>2. u \in Pixel
    <3>1. Lo(k - 1, m) \in 0 .. m  BY <1>1, <2>1, LoIs
    <3>2. QED  BY <1>a, <3>1
  <2>3. h[Lo(k - 1, n)] = u  BY <1>3
  <2> HIDE DEF u
  <2>4. /\ \A i \in At(S, c) : S[i].z = k - 1 => g[Lo(k, m)] = Over(S[i], c, u)
        /\ (\A i \in At(S, c) : S[i].z # k - 1) => g[Lo(k, m)] = u
    BY <1>a, <1>c, <2>1, TraceStep DEF u
  <2>5. /\ \A i \in At(T, c) : T[i].z = k - 1 => h[Lo(k, n)] = Over(T[i], c, u)
        /\ (\A i \in At(T, c) : T[i].z # k - 1) => h[Lo(k, n)] = u
    <3>1. /\ \A i \in At(T, c) : T[i].z = k - 1 => h[Lo(k, n)] = Over(T[i], c, h[Lo(k - 1, n)])
          /\ (\A i \in At(T, c) : T[i].z # k - 1) => h[Lo(k, n)] = h[Lo(k - 1, n)]
      BY <1>b, <1>c, <2>1, TraceStep
    <3>2. QED  BY <2>3, <3>1
  <2>6. g[Lo(k, m)] = h[Lo(k, n)]
    <3>1. CASE \E i \in At(S, c) : S[i].z = k - 1
      <4>1. PICK i \in At(S, c) : S[i].z = k - 1  BY <3>1
      <4>2. i \in At(T, c) /\ T[i].z = k - 1 /\ Over(T[i], c, u) = Over(S[i], c, u)
        BY <2>2, <4>1 DEF Alike
      <4>3. QED  BY <2>4, <2>5, <4>1, <4>2
    <3>2. CASE \A i \in At(S, c) : S[i].z # k - 1
      <4>1. \A i \in At(T, c) : T[i].z # k - 1  BY <3>2 DEF Alike
      <4>2. QED  BY <2>4, <2>5, <3>2, <4>1
    <3>3. QED  BY <3>1, <3>2
  <2>7. QED  BY <2>1, <2>6
<1>4. m + n \in B
  <2>1. B \in SUBSET (0 .. m + n) /\ m + n \in Nat /\ m + n \in 0 .. m + n  BY <1>1
  <2> HIDE DEF B
  <2>2. \A i \in 0 .. m + n : i \in B  BY <1>2, <1>3, <2>1, EveryPlace
  <2>3. QED  BY <2>1, <2>2
<1>5. Lo(m + n, m) = m /\ Lo(m + n, n) = n
  <2>1. m + n \in Nat /\ m + n >= m /\ m + n >= n  BY <1>1
  <2> HIDE DEF B
  <2>2. QED  BY <1>1, <2>1, LoIs
<1>6. QED  BY <1>4, <1>5, <1>a, <1>b

\* A scene that is the same at c looks the same there.
LEMMA SameLook ==
    ASSUME NEW S, IsScenery(S), NEW T, IsScenery(T), NEW c, Alike(S, T, c)
    PROVE  Look(S, c) = Look(T, c)
<1>1. PICK g : EndsIn(g, S, c, Look(S, c))  BY LookTrace DEF EndsIn
<1>2. PICK h : EndsIn(h, T, c, Look(T, c))  BY LookTrace DEF EndsIn
<1>3. QED  BY <1>1, <1>2, TracesMeet

LEMMA LookIsPixel ==
    ASSUME NEW S, IsScenery(S), NEW c
    PROVE  Look(S, c) \in Pixel
<1> DEFINE m == Cardinality(DOMAIN S)
<1>1. PICK g \in [0 .. m -> Pixel] : IsTrace(g, S, c) /\ g[m] = Look(S, c)  BY LookTrace
<1>2. m \in Nat  BY SceneryIsRanked, BackToFrontFacts
<1>3. m \in 0 .. m  BY <1>2
<1>4. QED  BY <1>1, <1>3

\* Copying the surfaces that reach into a rectangle gives the look of the scene.
LEMMA CopiesAreLook ==
    ASSUME NEW S, IsScenery(S), NEW c, NEW r \in Rects, c \in Cells(r)
    PROVE  Copies(S, c, r) = Look(S, c)
<1>1. PICK g : EndsIn(g, S, c, Copies(S, c, r))  BY CopiesTrace DEF EndsIn
<1>2. PICK h : EndsIn(h, S, c, Look(S, c))  BY LookTrace DEF EndsIn
<1>3. Alike(S, S, c)  BY DEF Alike
<1>4. QED  BY <1>1, <1>2, <1>3, TracesMeet

-----------------------------------------------------------------------------
(* The frame *)

\* What place c goes through, rectangle after rectangle.
Redrawn(word, S, R, c) ==
    FoldSet(LAMBDA r, old : IF c \in Cells(r) THEN Copies(S, c, r) ELSE old, word, R)

LEMMA RedrawnIs ==
    ASSUME NEW S, IsScenery(S), NEW c, NEW R \in SUBSET Rects, IsFiniteSet(R), NEW word
    PROVE  Redrawn(word, S, R, c) = IF c \in Covered(R) THEN Look(S, c) ELSE word
<1> DEFINE Op(r, old) == IF c \in Cells(r) THEN Copies(S, c, r) ELSE old
           some(s) == CHOOSE x \in s : TRUE
           G(f) == f = [s \in SUBSET R |-> IF s = {} THEN word ELSE Op(some(s), f[s \ {some(s)}])]
           g == CHOOSE f : G(f)
           value(s) == IF c \in Covered(s) THEN Look(S, c) ELSE word
           e == [s \in SUBSET R |-> value(s)]
<1>1. Redrawn(word, S, R, c) = g[R]  BY DEF Redrawn, FoldSet, MapThenFoldSet
<1>2. \A s \in SUBSET R : s # {} => some(s) \in s  OBVIOUS
<1> HIDE DEF some
<1>3. ASSUME NEW s \in SUBSET R, s # {}
      PROVE  value(s) = Op(some(s), value(s \ {some(s)}))
  <2> DEFINE r == some(s)
             t == s \ {r}
  <2>1. r \in s /\ r \in Rects /\ s = t \cup {r}  BY <1>2, <1>3
  <2> HIDE DEF t, r
  <2>2. Covered(s) = Covered(t) \cup Cells(r)
    <3>1. Covered(t \cup {r}) = Covered(t) \cup Covered({r})  BY CoveredFacts
    <3>2. QED  BY <2>1, <3>1, CoveredFacts
  <2>3. c \in Cells(r) => Copies(S, c, r) = Look(S, c)  BY <2>1, CopiesAreLook
  <2>4. value(s) = Op(r, value(t))  BY <2>2, <2>3
  <2>5. QED  BY <2>4 DEF t, r
<1>4. value({}) = word  BY CoveredFacts
<1> HIDE DEF Op, value
<1>5. G(e)
  <2>1. \A s \in SUBSET R : value(s) = IF s = {} THEN word ELSE Op(some(s), e[s \ {some(s)}])
    BY <1>3, <1>4
  <2>2. QED  BY <2>1
<1>6. G(g)
  <2>1. \E f : G(f)  BY <1>5
  <2> HIDE DEF G
  <2>2. QED  BY <2>1
<1>7. \A s \in SUBSET R : g[s] = IF s = {} THEN word ELSE Op(some(s), g[s \ {some(s)}])  BY <1>6
<1> HIDE DEF g
<1> DEFINE Bad == {s \in SUBSET R : g[s] # value(s)}
<1>8. Bad = {}
  <2> SUFFICES ASSUME Bad # {}  PROVE FALSE  OBVIOUS
  <2>1. Bad \subseteq SUBSET R  OBVIOUS
  <2> HIDE DEF Bad
  <2>2. PICK s \in Bad : \A U \in SUBSET s : U # s => U \notin Bad  BY <2>1, SmallestBad
  <2>3. s \in SUBSET R /\ g[s] # value(s)  BY <2>2 DEF Bad
  <2>4. s # {}  BY <1>4, <1>7, <2>3
  <2> DEFINE t == s \ {some(s)}
  <2>5. t \in SUBSET s /\ t # s /\ t \in SUBSET R  BY <1>2, <2>3, <2>4
  <2>6. g[t] = value(t)  BY <2>2, <2>5 DEF Bad
  <2>7. g[s] = Op(some(s), g[t]) /\ value(s) = Op(some(s), value(t))  BY <1>3, <1>7, <2>3, <2>4
  <2>8. QED  BY <2>3, <2>6, <2>7
<1>9. g[R] = value(R)  BY <1>8
<1>10. QED  BY <1>1, <1>9 DEF value

LEMMA DivMod ==
    ASSUME NEW a \in Nat, NEW p \in Nat, NEW b \in 0 .. p - 1
    PROVE  (a * p + b) \div p = a /\ (a * p + b) % p = b
<1> DEFINE v == a * p + b
           q == v \div p
           m == v % p
<1>1. p > 0 /\ v \in Nat  OBVIOUS
<1> HIDE DEF v
<1>2. q \in Nat /\ m \in 0 .. p - 1 /\ v = p * q + m  BY <1>1
<1> HIDE DEF q, m
<1>3. v = p * a + b  BY DEF v
<1>4. ASSUME q < a  PROVE FALSE
  <2>1. p * q + p = p * (q + 1)  BY <1>2
  <2>2. PICK d \in Nat : a = q + 1 + d  BY <1>2, <1>4
  <2>3. p * a = p * (q + 1) + p * d  BY <1>2, <2>2
  <2>4. p * d >= 0 /\ p * q \in Nat /\ p * a \in Nat /\ p * (q + 1) \in Nat  BY <1>2, <2>2
  <2> DEFINE pq == p * q  pa == p * a  pq1 == p * (q + 1)  pd == p * d
  <2>5. pq + p = pq1 /\ pa = pq1 + pd /\ pd >= 0 /\ pd \in Int /\ pq \in Nat /\ pa \in Nat /\ pq1 \in Nat
    BY <2>1, <2>2, <2>3, <2>4
  <2>6. v = pq + m /\ v = pa + b  BY <1>2, <1>3
  <2> HIDE DEF pq, pa, pq1, pd
  <2>7. QED  BY <1>2, <2>5, <2>6
<1>5. ASSUME q > a  PROVE FALSE
  <2>1. p * a + p = p * (a + 1)  BY <1>2
  <2>2. PICK d \in Nat : q = a + 1 + d  BY <1>2, <1>5
  <2>3. p * q = p * (a + 1) + p * d  BY <1>2, <2>2
  <2>4. p * d >= 0 /\ p * q \in Nat /\ p * a \in Nat /\ p * (a + 1) \in Nat  BY <1>2, <2>2
  <2> DEFINE pq == p * q  pa == p * a  pa1 == p * (a + 1)  pd == p * d
  <2>5. pa + p = pa1 /\ pq = pa1 + pd /\ pd >= 0 /\ pd \in Int /\ pq \in Nat /\ pa \in Nat /\ pa1 \in Nat
    BY <2>1, <2>2, <2>3, <2>4
  <2>6. v = pq + m /\ v = pa + b  BY <1>2, <1>3
  <2> HIDE DEF pq, pa, pa1, pd
  <2>7. QED  BY <1>2, <2>5, <2>6
<1>6. q = a  BY <1>2, <1>4, <1>5
<1>7. m = b
  <2> DEFINE pa == p * a
  <2>1. pa \in Nat /\ v = pa + m /\ v = pa + b  BY <1>2, <1>3, <1>6
  <2> HIDE DEF pa
  <2>2. QED  BY <1>2, <2>1
<1>8. QED  BY <1>6, <1>7 DEF v, q, m

\* Every place of an output has its word.
LEMMA PlaceFacts ==
    ASSUME NEW geo \in Geometries, NEW c \in Cells(bounds(geo))
    PROVE  /\ framebuffer_offset_for_output(geo, c) \in 0 .. framebuffer_words(geo) - 1
           /\ PlaceOf(geo, framebuffer_offset_for_output(geo, c)) = c
<1> DEFINE a == c[2] - geo.y
           b == c[1] - geo.x
           p == geo.pitch
           h == geo.h
<1>1. /\ geo.x \in Int /\ geo.y \in Int /\ geo.w \in Nat /\ h \in Nat /\ p \in Nat /\ p >= geo.w
      /\ bounds(geo) \in Rects
      /\ bounds(geo).x0 = geo.x /\ bounds(geo).y0 = geo.y
      /\ bounds(geo).x1 = geo.x + geo.w /\ bounds(geo).y1 = geo.y + geo.h
  BY BoundsFacts DEF Proper
<1>2. /\ c \in Int \X Int /\ geo.x <= c[1] /\ c[1] < geo.x + geo.w
      /\ geo.y <= c[2] /\ c[2] < geo.y + geo.h
  BY <1>1, CellsAre
<1>3. c[1] \in Int /\ c[2] \in Int /\ c = <<c[1], c[2]>>  BY <1>2
<1>4. a \in Nat /\ a < h /\ b \in 0 .. p - 1  BY <1>1, <1>2, <1>3
<1>5. /\ geo.y + a = c[2] /\ geo.x + b = c[1]  BY <1>1, <1>3
<1>6. framebuffer_offset_for_output(geo, c) = a * p + b  BY DEF framebuffer_offset_for_output
<1>7. framebuffer_words(geo) = p * h  BY DEF framebuffer_words
<1>8. PlaceOf(geo, a * p + b) = <<geo.x + ((a * p + b) % p), geo.y + ((a * p + b) \div p)>>
  BY DEF PlaceOf
<1> HIDE DEF a, b, p, h
<1>9. PlaceOf(geo, a * p + b) = c
  <2>1. (a * p + b) \div p = a /\ (a * p + b) % p = b
    <3>1. a \in Nat /\ p \in Nat /\ b \in 0 .. p - 1  BY <1>1, <1>4
    <3>2. QED  BY <3>1, DivMod, Zenon
  <2>2. QED  BY <1>3, <1>5, <1>8, <2>1
<1>10. a * p + b \in 0 .. p * h - 1
  <2>1. PICK d \in Nat : h = a + 1 + d  BY <1>1, <1>4
  <2>2. p * h = p * a + p + p * d  BY <1>1, <1>4, <2>1
  <2>3. p * a \in Nat /\ p * d \in Nat /\ a * p = p * a  BY <1>1, <1>4, <2>1
  <2> DEFINE pa == p * a  pd == p * d  ph == p * h
  <2>4. ph = pa + p + pd /\ pa \in Nat /\ pd \in Nat /\ a * p + b = pa + b  BY <2>2, <2>3
  <2> HIDE DEF pa, pd
  <2>5. pa + b \in 0 .. ph - 1  BY <1>1, <1>4, <2>4
  <2>6. QED  BY <2>4, <2>5
<1>11. QED  BY <1>6, <1>7, <1>9, <1>10

\* Composing within R makes the look of the scene there and leaves the rest.
LEMMA FrameIs ==
    ASSUME NEW geo \in Geometries, NEW S, IsScenery(S), NEW R \in SUBSET Rects, IsFiniteSet(R),
           NEW fb \in Frames(geo), NEW f, f = compose_damage_rects(fb, geo, S, R)
    PROVE  /\ f \in Frames(geo)
           /\ \A c \in Cells(bounds(geo)) :
                  LET k == framebuffer_offset_for_output(geo, c)
                  IN  f[k] = IF c \in Covered(R) THEN Look(S, c) ELSE fb[k]
<1> DEFINE K == 0 .. framebuffer_words(geo) - 1
<1>1. f = [k \in K |-> Redrawn(fb[k], S, R, PlaceOf(geo, k))]
  BY DEF compose_damage_rects, Redrawn, Copies
<1>2. ASSUME NEW k \in K
      PROVE  f[k] = IF PlaceOf(geo, k) \in Covered(R) THEN Look(S, PlaceOf(geo, k)) ELSE fb[k]
  <2>1. f[k] = Redrawn(fb[k], S, R, PlaceOf(geo, k))  BY <1>1
  <2>2. QED  BY <2>1, RedrawnIs
<1>3. fb \in [K -> Pixel]  BY DEF Frames
<1> HIDE DEF K
<1>4. \A k \in K : f[k] \in Pixel
  <2> TAKE k \in K
  <2>1. Look(S, PlaceOf(geo, k)) \in Pixel  BY LookIsPixel
  <2>2. fb[k] \in Pixel  BY <1>3
  <2>3. QED  BY <1>2, <2>1, <2>2
<1>5. f \in [K -> Pixel]  BY <1>1, <1>4
<1>6. ASSUME NEW c \in Cells(bounds(geo))
      PROVE  LET k == framebuffer_offset_for_output(geo, c)
             IN  f[k] = IF c \in Covered(R) THEN Look(S, c) ELSE fb[k]
  <2>1. framebuffer_offset_for_output(geo, c) \in K  BY PlaceFacts DEF K
  <2>2. PlaceOf(geo, framebuffer_offset_for_output(geo, c)) = c  BY PlaceFacts
  <2>3. QED  BY <1>2, <2>1, <2>2
<1>7. QED  BY <1>5, <1>6 DEF Frames, K

-----------------------------------------------------------------------------
(* Damage *)

LEMMA DamageFacts ==
    ASSUME NEW D \in SUBSET Damages, IsFiniteSet(D),
           NEW R, R = UNION {from_origin_size(d.x, d.y, d.w, d.h) : d \in D}
    PROVE  R \in SUBSET Rects /\ IsFiniteSet(R) /\ \A r \in R : Proper(r)
<1> DEFINE F == {from_origin_size(d.x, d.y, d.w, d.h) : d \in D}
           f == [d \in D |-> from_origin_size(d.x, d.y, d.w, d.h)]
<1>1. \A d \in D : /\ IsFiniteSet(from_origin_size(d.x, d.y, d.w, d.h))
                   /\ \A r \in from_origin_size(d.x, d.y, d.w, d.h) : Proper(r)
  <2> TAKE d \in D
  <2>1. d.x \in Int /\ d.y \in Int /\ d.w \in Int /\ d.h \in Int  BY DEF Damages
  <2>2. QED  BY <2>1, FromOriginFacts
<1>2. IsFiniteSet(F)
  <2>1. f \in Surjection(D, F)  BY DEF Surjection
  <2> HIDE DEF F, f
  <2>2. QED  BY <2>1, FS_Surjection
<1>3. \A T \in F : IsFiniteSet(T) /\ \A r \in T : Proper(r)  BY <1>1
<1> HIDE DEF F
<1>4. R = UNION F  BY DEF F
<1>5. IsFiniteSet(R)  BY <1>2, <1>3, <1>4, FS_UNION
<1>6. \A r \in R : Proper(r)  BY <1>3, <1>4
<1>7. QED  BY <1>5, <1>6 DEF Proper

\* The damage of a surface lies on it and is all that was asked for there.
LEMMA LocalDamageFacts ==
    ASSUME NEW S, IsScenery(S), NEW i \in DOMAIN S
    PROVE  /\ IsFiniteSet(LocalDamage(S[i]))
           /\ \A r \in LocalDamage(S[i]) :
                  Proper(r) /\ 0 <= r.x0 /\ 0 <= r.y0 /\ r.x1 <= S[i].w /\ r.y1 <= S[i].h
           /\ Covered(LocalDamage(S[i])) =
                  Covered(UNION {from_origin_size(d.x, d.y, d.w, d.h) : d \in S[i].damage}) \cap WholeOf(S[i])
<1> DEFINE s == S[i]
           R == UNION {from_origin_size(d.x, d.y, d.w, d.h) : d \in s.damage}
           W == from_origin_size(0, 0, s.w, s.h)
           a == Rect(0, 0, s.w, s.h)
<1>1. s.w \in 1 .. MaxCoord /\ s.h \in 1 .. MaxCoord /\ s.damage \in SUBSET Damages /\ IsFiniteSet(s.damage)
  BY SpriteFacts
<1>a. LocalDamage(s) = intersect(R, W)  BY DEF LocalDamage
<1> HIDE DEF s
<1>2. R \in SUBSET Rects /\ IsFiniteSet(R)  BY <1>1, DamageFacts
<1> HIDE DEF R
<1>3. s.w \in Int /\ s.h \in Int /\ s.w > 0 /\ s.h > 0 /\ 0 + s.w <= MaxCoord /\ 0 + s.h <= MaxCoord
      /\ 0 + s.w = s.w /\ 0 + s.h = s.h
  BY <1>1, Limits
<1>4. W = {a} /\ IsFiniteSet(W) /\ \A r \in W : Proper(r)
  <2>1. /\ IsFiniteSet(from_origin_size(0, 0, s.w, s.h))
        /\ \A r \in from_origin_size(0, 0, s.w, s.h) : Proper(r)
        /\ from_origin_size(0, 0, s.w, s.h) = {Rect(0, 0, 0 + s.w, 0 + s.h)}
    BY <1>3, FromOriginFacts
  <2>2. QED  BY <1>3, <2>1
<1> HIDE DEF W
<1>5. a \in Rects /\ a.x0 = 0 /\ a.y0 = 0 /\ a.x1 = s.w /\ a.y1 = s.h
  BY <1>3 DEF Rect, Rects
<1> HIDE DEF a
<1>6. Cells(a) = WholeOf(s)
  <2>1. \A l : l \in Cells(a) <=> l \in Int \X Int /\ 0 <= l[1] /\ l[1] < s.w /\ 0 <= l[2] /\ l[2] < s.h
    BY <1>5, CellsAre
  <2>2. \A l : l \in WholeOf(s) <=> l \in Int \X Int /\ 0 <= l[1] /\ l[1] < s.w /\ 0 <= l[2] /\ l[2] < s.h
    BY <1>3, WholeIs
  <2>3. QED  BY <2>1, <2>2
<1>7. W \in SUBSET Rects  BY <1>4, <1>5
<1>8. Covered(intersect(R, W)) = Covered(R) \cap WholeOf(s)
  BY <1>2, <1>4, <1>6, <1>7, IntersectFacts, CoveredFacts
<1>9. IsFiniteSet(intersect(R, W))  BY <1>2, <1>4, IntersectIsFinite
<1>10. ASSUME NEW t \in intersect(R, W)
       PROVE  Proper(t) /\ 0 <= t.x0 /\ 0 <= t.y0 /\ t.x1 <= s.w /\ t.y1 <= s.h
  <2>1. PICK r \in R, v \in W : t = Rect(Hi(r.x0, v.x0), Hi(r.y0, v.y0), Lo(r.x1, v.x1), Lo(r.y1, v.y1))
    <3>1. R \in SUBSET Rects /\ W \in SUBSET Rects  BY <1>2, <1>7
    <3>2. \E r \in R, v \in W :
              /\ Cells(t) = Cells(r) \cap Cells(v)
              /\ t = Rect(Hi(r.x0, v.x0), Hi(r.y0, v.y0), Lo(r.x1, v.x1), Lo(r.y1, v.y1))
      BY <3>1, IntersectFacts, Zenon
    <3>3. QED  BY <3>2, Zenon
  <2>2. Proper(t)  BY <1>2, <1>7, IntersectFacts
  <2>3. v = a /\ r \in Rects  BY <1>2, <1>4, <2>1
  <2>4. t.x0 = Hi(r.x0, 0) /\ t.y0 = Hi(r.y0, 0) /\ t.x1 = Lo(r.x1, s.w) /\ t.y1 = Lo(r.y1, s.h)
    BY <1>5, <2>1, <2>3 DEF Rect
  <2>5. r.x0 \in Int /\ r.y0 \in Int /\ r.x1 \in Int /\ r.y1 \in Int  BY <2>3 DEF Rects
  <2>6. QED  BY <1>3, <2>2, <2>4, <2>5 DEF Hi, Lo
<1>11. QED  BY <1>a, <1>8, <1>9, <1>10 DEF s, R

\* The damage of a surface on an output.
LEMMA SurfaceDamageFacts ==
    ASSUME NEW S, IsScenery(S), NEW i \in DOMAIN S, NEW area, Proper(area)
    PROVE  /\ IsDamage(surface_damage_rects(S[i], {area}), area)
           /\ \A c \in Cells(area) :
                  c \in Covered(surface_output_bounds(S[i])) /\ Place(S[i], c) \in Covered(LocalDamage(S[i]))
                  => c \in Covered(surface_damage_rects(S[i], {area}))
<1> DEFINE s == S[i]
           L == LocalDamage(s)
           put(r) == from_origin_size(s.x + r.x0, s.y + r.y0, r.x1 - r.x0, r.y1 - r.y0)
           M == UNION {put(r) : r \in L}
           B == surface_output_bounds(s)
           A == {area}
<1>1. s.x \in Int /\ s.y \in Int /\ s.w \in Int /\ s.h \in Int  BY SpriteFacts
<1>2. IsFiniteSet(L) /\ \A r \in L : Proper(r) /\ r.x1 <= s.w /\ r.y1 <= s.h  BY LocalDamageFacts
<1>3. /\ B \in SUBSET Rects /\ IsFiniteSet(B)
      /\ \A c \in Covered(B) : c \in Int \X Int /\ s.x + s.w <= MaxCoord /\ s.y + s.h <= MaxCoord
  BY OnSurface
<1>4. surface_damage_rects(s, A) = intersect(intersect(M, B), A)  BY DEF surface_damage_rects
<1> HIDE DEF s, L, B
<1>5. A \in SUBSET Rects /\ IsFiniteSet(A) /\ Covered(A) = Cells(area)
  BY FS_Singleton, CoveredFacts DEF Proper
<1> HIDE DEF A
<1>6. ASSUME NEW r \in L
      PROVE  /\ r.x0 \in Int /\ r.y0 \in Int /\ r.x1 \in Int /\ r.y1 \in Int
             /\ r.x0 < r.x1 /\ r.y0 < r.y1 /\ r.x1 <= s.w /\ r.y1 <= s.h
             /\ IsFiniteSet(put(r)) /\ \A t \in put(r) : t \in Rects
             /\ (s.x + s.w <= MaxCoord /\ s.y + s.h <= MaxCoord)
                    => put(r) = {Rect(s.x + r.x0, s.y + r.y0, s.x + r.x1, s.y + r.y1)}
  <2>1. r \in Rects /\ r.x0 < r.x1 /\ r.y0 < r.y1 /\ r.x1 <= s.w /\ r.y1 <= s.h  BY <1>2 DEF Proper
  <2>2. r.x0 \in Int /\ r.y0 \in Int /\ r.x1 \in Int /\ r.y1 \in Int  BY <2>1 DEF Rects
  <2> DEFINE x == s.x + r.x0  y == s.y + r.y0  w == r.x1 - r.x0  h == r.y1 - r.y0
  <2>3. /\ x \in Int /\ y \in Int /\ w \in Int /\ h \in Int /\ w > 0 /\ h > 0
        /\ x + w = s.x + r.x1 /\ y + h = s.y + r.y1
    BY <1>1, <2>1, <2>2
  <2>4. (s.x + s.w <= MaxCoord /\ s.y + s.h <= MaxCoord) => x + w <= MaxCoord /\ y + h <= MaxCoord
    BY <1>1, <2>1, <2>2, <2>3, Limits
  <2>5. put(r) = from_origin_size(x, y, w, h)  OBVIOUS
  <2> HIDE DEF x, y, w, h, put
  <2>6. /\ IsFiniteSet(from_origin_size(x, y, w, h))
        /\ \A t \in from_origin_size(x, y, w, h) : Proper(t)
        /\ (w > 0 /\ h > 0 /\ x + w <= MaxCoord /\ y + h <= MaxCoord)
               => from_origin_size(x, y, w, h) = {Rect(x, y, x + w, y + h)}
    BY <2>3, FromOriginFacts
  <2>7. /\ IsFiniteSet(put(r)) /\ \A t \in put(r) : t \in Rects  BY <2>5, <2>6 DEF Proper
  <2>8. (s.x + s.w <= MaxCoord /\ s.y + s.h <= MaxCoord)
            => put(r) = {Rect(s.x + r.x0, s.y + r.y0, s.x + r.x1, s.y + r.y1)}
    BY <2>3, <2>4, <2>5, <2>6 DEF x, y
  <2>9. QED  BY <2>1, <2>2, <2>7, <2>8
<1>7. M \in SUBSET Rects /\ IsFiniteSet(M)
  <2> DEFINE F == {put(r) : r \in L}
             f == [r \in L |-> put(r)]
  <2>1. f \in Surjection(L, F)  BY DEF Surjection
  <2>2. \A T \in F : IsFiniteSet(T) /\ \A t \in T : t \in Rects  BY <1>6
  <2>3. M = UNION F  OBVIOUS
  <2> HIDE DEF put, M, F, f
  <2>4. IsFiniteSet(F)  BY <1>2, <2>1, FS_Surjection
  <2>5. QED  BY <2>2, <2>3, <2>4, FS_UNION
<1>8. ASSUME NEW c \in Cells(area), c \in Covered(B), Place(s, c) \in Covered(L)
      PROVE  c \in Covered(M)
  <2>1. c \in Int \X Int /\ s.x + s.w <= MaxCoord /\ s.y + s.h <= MaxCoord  BY <1>3, <1>8
  <2>2. PICK r \in L : Place(s, c) \in Cells(r)  BY <1>8 DEF Covered
  <2> DEFINE l == Place(s, c)
             t == Rect(s.x + r.x0, s.y + r.y0, s.x + r.x1, s.y + r.y1)
  <2>3. c[1] \in Int /\ c[2] \in Int /\ c = <<c[1], c[2]>>  BY <2>1
  <2>4. l[1] = c[1] - s.x /\ l[2] = c[2] - s.y  BY DEF Place
  <2>5. /\ r \in Rects
        /\ r.x0 \in Int /\ r.y0 \in Int /\ r.x1 \in Int /\ r.y1 \in Int
    BY <1>2, <1>6 DEF Proper
  <2>6. r.x0 <= l[1] /\ l[1] < r.x1 /\ r.y0 <= l[2] /\ l[2] < r.y1  BY <2>2, <2>5, CellsAre
  <2>7. /\ s.x + r.x0 <= c[1] /\ c[1] < s.x + r.x1 /\ s.y + r.y0 <= c[2] /\ c[2] < s.y + r.y1
    <3> HIDE DEF l
    <3>1. QED  BY <1>1, <2>3, <2>4, <2>5, <2>6
  <2>8. /\ t \in Rects /\ t.x0 = s.x + r.x0 /\ t.y0 = s.y + r.y0
        /\ t.x1 = s.x + r.x1 /\ t.y1 = s.y + r.y1
    <3>1. /\ s.x + r.x0 \in Int /\ s.y + r.y0 \in Int /\ s.x + r.x1 \in Int /\ s.y + r.y1 \in Int
      BY <1>1, <2>5
    <3>2. QED  BY <3>1 DEF Rect, Rects
  <2>9. put(r) = {t}  BY <1>6, <2>1
  <2> HIDE DEF l, put
  <2>10. t \in M  BY <2>9
  <2> HIDE DEF t, M
  <2>11. c \in Cells(t)  BY <2>1, <2>7, <2>8, CellsAre
  <2>12. QED  BY <2>10, <2>11 DEF Covered
<1> HIDE DEF M
<1> DEFINE I == intersect(M, B)
<1>9. I \in SUBSET Rects /\ IsFiniteSet(I) /\ Covered(I) = Covered(M) \cap Covered(B)
  BY <1>3, <1>7, IntersectFacts, IntersectIsFinite
<1> HIDE DEF I
<1>10. /\ \A t \in intersect(I, A) : Proper(t) /\ Cells(t) \subseteq Cells(area)
       /\ IsFiniteSet(intersect(I, A)) /\ Covered(intersect(I, A)) = Covered(I) \cap Cells(area)
  <2>1. ASSUME NEW t \in intersect(I, A)  PROVE Proper(t) /\ Cells(t) \subseteq Cells(area)
    <3>1. Proper(t) /\ \E r \in I, v \in A : Cells(t) = Cells(r) \cap Cells(v)  BY <1>5, <1>9, IntersectFacts
    <3>2. QED  BY <3>1 DEF A
  <2>2. IsFiniteSet(intersect(I, A))  BY <1>5, <1>9, IntersectIsFinite
  <2>3. Covered(intersect(I, A)) = Covered(I) \cap Cells(area)  BY <1>5, <1>9, IntersectFacts
  <2>4. QED  BY <2>1, <2>2, <2>3
<1>11. surface_damage_rects(s, A) = intersect(I, A)  BY <1>4 DEF I
<1>12. IsDamage(surface_damage_rects(s, A), area)  BY <1>10, <1>11 DEF IsDamage
<1>13. \A c \in Cells(area) : c \in Covered(B) /\ Place(s, c) \in Covered(L)
                              => c \in Covered(surface_damage_rects(s, A))
  BY <1>8, <1>9, <1>10, <1>11
<1>14. QED  BY <1>12, <1>13 DEF s, L, B, A

LEMMA SamePlace ==
    ASSUME NEW old, NEW new
    PROVE  ~surface_exposes_or_occupies_different_region(old, new)
           <=> /\ old.x = new.x /\ old.y = new.y /\ old.z = new.z /\ old.w = new.w /\ old.h = new.h
               /\ old.buffer_generation = new.buffer_generation
BY DEF surface_exposes_or_occupies_different_region

\* A set of places taken from surfaces of a scene.
SomeBounds(S, D) == UNION {surface_output_bounds(S[i]) : i \in D}

LEMMA BoundsOfSome ==
    ASSUME NEW S, IsScenery(S), NEW D \in SUBSET DOMAIN S, NEW R, R = SomeBounds(S, D)
    PROVE  /\ R \in SUBSET Rects /\ IsFiniteSet(R)
           /\ \A i \in D : Covered(surface_output_bounds(S[i])) \subseteq Covered(R)
<1> DEFINE F == {surface_output_bounds(S[i]) : i \in D}
           f == [i \in D |-> surface_output_bounds(S[i])]
<1>1. IsFiniteSet(D)  BY SceneryIsRanked, FS_Subset DEF Ranked
<1>2. \A T \in F : IsFiniteSet(T) /\ T \in SUBSET Rects  BY OnSurface
<1>3. f \in Surjection(D, F)  BY DEF Surjection
<1>4. R = UNION F /\ \A i \in D : surface_output_bounds(S[i]) \in F  BY DEF SomeBounds
<1> HIDE DEF F, f
<1>5. IsFiniteSet(F)  BY <1>1, <1>3, FS_Surjection
<1>6. IsFiniteSet(R)  BY <1>2, <1>4, <1>5, FS_UNION
<1>7. QED  BY <1>2, <1>4, <1>6 DEF Covered

LEMMA DrawnIsDamage ==
    ASSUME NEW S, IsScenery(S), NEW area, Proper(area),
           NEW R, R = UNION {surface_damage_rects(S[i], {area}) : i \in DOMAIN S}
    PROVE  /\ IsDamage(R, area)
           /\ \A i \in DOMAIN S : Covered(surface_damage_rects(S[i], {area})) \subseteq Covered(R)
<1> DEFINE D == DOMAIN S
           F == {surface_damage_rects(S[i], {area}) : i \in D}
           f == [i \in D |-> surface_damage_rects(S[i], {area})]
<1>1. IsFiniteSet(D)  BY SceneryIsRanked DEF Ranked
<1>2. \A T \in F : IsDamage(T, area)  BY SurfaceDamageFacts
<1>3. f \in Surjection(D, F)  BY DEF Surjection
<1>4. R = UNION F /\ \A i \in D : surface_damage_rects(S[i], {area}) \in F  OBVIOUS
<1> HIDE DEF F, f
<1>5. IsFiniteSet(F)  BY <1>1, <1>3, FS_Surjection
<1>6. IsFiniteSet(R)
  <2>1. \A T \in F : IsFiniteSet(T)  BY <1>2 DEF IsDamage
  <2>2. QED  BY <1>4, <1>5, <2>1, FS_UNION
<1>7. \A r \in R : Proper(r) /\ Cells(r) \subseteq Cells(area)  BY <1>2, <1>4 DEF IsDamage
<1>8. \A i \in D : Covered(surface_damage_rects(S[i], {area})) \subseteq Covered(R)  BY <1>4 DEF Covered
<1>9. QED  BY <1>6, <1>7, <1>8 DEF IsDamage

\* What the parts of the damage of a scene are.
Both(P, N) == DOMAIN P \cap DOMAIN N
Moved(P, N) == {i \in Both(P, N) : surface_exposes_or_occupies_different_region(P[i], N[i])}
Entered(P, N) == SomeBounds(N, Moved(P, N) \cup (DOMAIN N \ Both(P, N)))
Left(P, N) == SomeBounds(P, Moved(P, N) \cup (DOMAIN P \ Both(P, N)))
Drawn(N, area) == UNION {surface_damage_rects(N[i], {area}) : i \in DOMAIN N}

LEMMA EnteredFacts ==
    ASSUME NEW P, NEW N, IsScenery(N)
    PROVE  /\ Entered(P, N) \in SUBSET Rects /\ IsFiniteSet(Entered(P, N))
           /\ \A i \in Moved(P, N) \cup (DOMAIN N \ Both(P, N)) :
                  Covered(surface_output_bounds(N[i])) \subseteq Covered(Entered(P, N))
<1> DEFINE D == Moved(P, N) \cup (DOMAIN N \ Both(P, N))
<1>1. D \in SUBSET DOMAIN N  BY DEF Moved, Both
<1>2. Entered(P, N) = SomeBounds(N, D)  BY DEF Entered
<1> HIDE DEF D
<1> DEFINE R == Entered(P, N)
<1>3. R = SomeBounds(N, D)  BY <1>2
<1> HIDE DEF R
<1>4. /\ R \in SUBSET Rects /\ IsFiniteSet(R)
      /\ \A i \in D : Covered(surface_output_bounds(N[i])) \subseteq Covered(R)
  BY <1>1, <1>3, BoundsOfSome
<1>5. QED  BY <1>4 DEF D, R

LEMMA LeftFacts ==
    ASSUME NEW P, NEW N, IsScenery(P)
    PROVE  /\ Left(P, N) \in SUBSET Rects /\ IsFiniteSet(Left(P, N))
           /\ \A i \in Moved(P, N) \cup (DOMAIN P \ Both(P, N)) :
                  Covered(surface_output_bounds(P[i])) \subseteq Covered(Left(P, N))
<1> DEFINE D == Moved(P, N) \cup (DOMAIN P \ Both(P, N))
<1>1. D \in SUBSET DOMAIN P  BY DEF Moved, Both
<1>2. Left(P, N) = SomeBounds(P, D)  BY DEF Left
<1> HIDE DEF D
<1> DEFINE R == Left(P, N)
<1>3. R = SomeBounds(P, D)  BY <1>2
<1> HIDE DEF R
<1>4. /\ R \in SUBSET Rects /\ IsFiniteSet(R)
      /\ \A i \in D : Covered(surface_output_bounds(P[i])) \subseteq Covered(R)
  BY <1>1, <1>3, BoundsOfSome
<1>5. QED  BY <1>4 DEF D, R

AllDamage(P, N, area) == intersect(Entered(P, N) \cup Left(P, N), {area}) \cup Drawn(N, area)

LEMMA EffectiveParts ==
    ASSUME NEW P, NEW N, NEW ready, NEW area
    PROVE  effective_damage_rects(P, N, ready, area) =
               IF P = None \/ ~ready THEN {area}
               ELSE Bounded(AllDamage(P, N, area), area)
BY DEF effective_damage_rects, AllDamage, Entered, Left, SomeBounds, Drawn, Moved, Both

IsWithin(t, A) == Proper(t) /\ \E r \in A : Cells(t) \subseteq Cells(r)

LEMMA WithinBoth ==
    ASSUME NEW X \in SUBSET Rects, NEW A \in SUBSET Rects, NEW t \in intersect(X, A)
    PROVE  IsWithin(t, A)
<1>1. Proper(t) /\ \E r \in X, v \in A : Cells(t) = Cells(r) \cap Cells(v)  BY IntersectFacts
<1>2. QED  BY <1>1 DEF IsWithin

LEMMA PartsFacts ==
    ASSUME NEW P, IsScenery(P), NEW N, IsScenery(N), NEW area, Proper(area),
           NEW R, R = AllDamage(P, N, area)
    PROVE  /\ IsDamage(R, area)
           /\ Covered(R) = ((Covered(Entered(P, N)) \cup Covered(Left(P, N))) \cap Cells(area))
                               \cup Covered(Drawn(N, area))
<1> DEFINE X == Entered(P, N) \cup Left(P, N)
           A == {area}
           Y == intersect(X, A)
           Z == Drawn(N, area)
<1>1. X \in SUBSET Rects /\ IsFiniteSet(X)
  <2>1. /\ Entered(P, N) \in SUBSET Rects /\ IsFiniteSet(Entered(P, N))
        /\ Left(P, N) \in SUBSET Rects /\ IsFiniteSet(Left(P, N))
    BY EnteredFacts, LeftFacts
  <2>2. QED  BY <2>1, FS_Union
<1>2. A \in SUBSET Rects /\ IsFiniteSet(A) /\ Covered(A) = Cells(area)
  BY FS_Singleton, CoveredFacts DEF Proper
<1>3. IsDamage(Z, area)  BY DrawnIsDamage DEF Drawn
<1>4. Covered(X) = Covered(Entered(P, N)) \cup Covered(Left(P, N))  BY CoveredFacts
<1>5. \A r \in A : r = area  OBVIOUS
<1> HIDE DEF X, A, Z
<1>6. IsFiniteSet(Y) /\ Covered(Y) = Covered(X) \cap Cells(area)
  BY <1>1, <1>2, IntersectFacts, IntersectIsFinite
<1>7. ASSUME NEW t \in Y  PROVE Proper(t) /\ Cells(t) \subseteq Cells(area)
  <2>1. X \in SUBSET Rects /\ A \in SUBSET Rects /\ t \in intersect(X, A)  BY <1>1, <1>2 DEF Y
  <2> HIDE DEF Y
  <2>2. IsWithin(t, A)  BY <2>1, WithinBoth
  <2>3. QED  BY <1>5, <2>2 DEF IsWithin
<1> HIDE DEF Y
<1>8. IsDamage(Y, area)  BY <1>6, <1>7 DEF IsDamage
<1>9. R = Y \cup Z  BY DEF AllDamage, Y, X, A, Z
<1>10. IsDamage(R, area)  BY <1>3, <1>8, <1>9, UnionIsDamage
<1>11. Covered(R) = Covered(Y) \cup Covered(Z)  BY <1>9, CoveredFacts
<1>12. QED  BY <1>4, <1>6, <1>10, <1>11 DEF Z

LEMMA EffectiveIsDamage ==
    ASSUME NEW P, P = None \/ IsScenery(P), NEW N, IsScenery(N), NEW ready, NEW area, Proper(area)
    PROVE  IsDamage(effective_damage_rects(P, N, ready, area), area)
<1>1. IsDamage({area}, area)  BY FS_Singleton DEF IsDamage
<1>2. CASE P = None \/ ~ready  BY <1>1, <1>2, EffectiveParts
<1>3. CASE ~(P = None \/ ~ready)
  <2> DEFINE R == AllDamage(P, N, area)
  <2>1. effective_damage_rects(P, N, ready, area) = Bounded(R, area)  BY <1>3, EffectiveParts
  <2>2. IsDamage(R, area)  BY <1>3, PartsFacts
  <2> HIDE DEF R
  <2>3. QED  BY <2>1, <2>2, BoundedFacts
<1>4. QED  BY <1>2, <1>3

\* The surface is where it was, and no damage of it is at c.
Stays(old, new, c) ==
    /\ ~surface_exposes_or_occupies_different_region(old, new)
    /\ Place(new, c) \notin Covered(LocalDamage(new))

\* What the damage of a scene leaves out is as it was.
LEMMA EffectiveMisses ==
    ASSUME NEW P, P = None \/ IsScenery(P), NEW N, IsScenery(N), NEW ready, NEW area, Proper(area),
           NEW c \in Cells(area), c \notin Covered(effective_damage_rects(P, N, ready, area))
    PROVE  /\ P # None /\ IsScenery(P) /\ ready
           /\ At(P, c) = At(N, c)
           /\ \A i \in At(N, c) : i \in DOMAIN P /\ i \in DOMAIN N /\ Stays(P[i], N[i], c)
<1>1. P # None /\ IsScenery(P) /\ ready
  <2>1. Covered({area}) = Cells(area)  BY CoveredFacts
  <2>2. QED  BY <2>1, EffectiveParts
<1> DEFINE R == AllDamage(P, N, area)
<1>2. effective_damage_rects(P, N, ready, area) = Bounded(R, area)  BY <1>1, EffectiveParts
<1>r. R = AllDamage(P, N, area)  OBVIOUS
<1> HIDE DEF R
<1>3. /\ IsDamage(R, area)
      /\ Covered(R) = ((Covered(Entered(P, N)) \cup Covered(Left(P, N))) \cap Cells(area))
                          \cup Covered(Drawn(N, area))
  BY <1>1, <1>r, PartsFacts
<1>4. c \notin Covered(R)  BY <1>2, <1>3, BoundedFacts
<1>5. c \notin Covered(Entered(P, N)) /\ c \notin Covered(Left(P, N)) /\ c \notin Covered(Drawn(N, area))
  BY <1>3, <1>4
<1>6. ASSUME NEW i \in At(N, c)
      PROVE  i \in DOMAIN P /\ i \in DOMAIN N /\ i \notin Moved(P, N)
  <2>1. i \in DOMAIN N /\ c \in Covered(surface_output_bounds(N[i]))  BY DEF At
  <2>2. i \notin Moved(P, N) \cup (DOMAIN N \ Both(P, N))  BY <1>5, <2>1, EnteredFacts
  <2>3. QED  BY <2>1, <2>2 DEF Both
<1>7. ASSUME NEW i \in At(P, c)
      PROVE  i \in DOMAIN P /\ i \in DOMAIN N /\ i \notin Moved(P, N)
  <2>1. i \in DOMAIN P /\ c \in Covered(surface_output_bounds(P[i]))  BY DEF At
  <2>2. i \notin Moved(P, N) \cup (DOMAIN P \ Both(P, N))  BY <1>1, <1>5, <2>1, LeftFacts
  <2>3. QED  BY <2>1, <2>2 DEF Both
<1>8. ASSUME NEW i \in DOMAIN P, i \in DOMAIN N, i \notin Moved(P, N)
      PROVE  /\ ~surface_exposes_or_occupies_different_region(P[i], N[i])
             /\ surface_output_bounds(P[i]) = surface_output_bounds(N[i])
  <2>1. ~surface_exposes_or_occupies_different_region(P[i], N[i])  BY <1>8 DEF Moved, Both
  <2>2. P[i].x = N[i].x /\ P[i].y = N[i].y /\ P[i].w = N[i].w /\ P[i].h = N[i].h
    BY <2>1, SamePlace
  <2>3. QED  BY <2>1, <2>2 DEF surface_output_bounds
<1>9. At(P, c) = At(N, c)
  <2>1. \A i \in At(P, c) : i \in At(N, c)  BY <1>7, <1>8 DEF At
  <2>2. \A i \in At(N, c) : i \in At(P, c)  BY <1>6, <1>8 DEF At
  <2>3. QED  BY <2>1, <2>2
<1>10. ASSUME NEW i \in At(N, c)  PROVE Stays(P[i], N[i], c)
  <2>1. i \in DOMAIN P /\ i \in DOMAIN N /\ ~surface_exposes_or_occupies_different_region(P[i], N[i])
    BY <1>6, <1>8
  <2>2. c \in Covered(surface_output_bounds(N[i]))  BY DEF At
  <2>3. Covered(surface_damage_rects(N[i], {area})) \subseteq Covered(Drawn(N, area))
    BY <2>1, DrawnIsDamage DEF Drawn
  <2>4. Place(N[i], c) \notin Covered(LocalDamage(N[i]))
    BY <1>5, <2>1, <2>2, <2>3, SurfaceDamageFacts
  <2>5. QED  BY <2>1, <2>4 DEF Stays
<1>11. QED  BY <1>1, <1>6, <1>9, <1>10

-----------------------------------------------------------------------------
(* What every variable holds *)

IsScene(sc) == IsScenery(sc.surfaces) /\ sc \in Scenes(DOMAIN sc.surfaces)

\* What is kept of an output: what it owes lies on it, and without a frame it owes all.
IsRuntime(r) ==
    /\ r.geo \in Geometries /\ r \in Runtimes(r.geo)
    /\ IsDamage(r.pend, bounds(r.geo)) /\ Cardinality(r.pend) <= MaxDamageRects
    /\ r.fb = None => Cells(bounds(r.geo)) \subseteq Covered(r.pend)

ClientType ==
    /\ pix \in [Buffers -> Contents]
    /\ cur \in [Surfaces -> Currents \cup {None}]
    /\ \A s \in Surfaces : cur[s] # None => IsFiniteSet(cur[s].damage)
    /\ DOMAIN touched = Surfaces

SceneType ==
    /\ IsScene(canon) /\ (canon.gen > 0 => DOMAIN canon.surfaces # {})
    /\ scene # None => IsScene(scene) /\ scene.gen \in 1 .. canon.gen

UndamagedType ==
    /\ DOMAIN undamaged = Surfaces
    /\ \A s \in Surfaces : /\ s \in Placed => undamaged[s] \subseteq WholeOf(scene.surfaces[s])
                           /\ s \notin Placed => undamaged[s] = {}

OutputType == DOMAIN out = Outputs /\ \A o \in Outputs : out[o] # None => IsRuntime(out[o])

CountType == skipped \in BOOLEAN /\ budget \in [{"draws", "faults"} -> Nat]

ComposeType == ClientType /\ SceneType /\ UndamagedType /\ OutputType /\ CountType

LEMMA SceneIsThere ==
    ASSUME NEW sc, IsScene(sc)
    PROVE  sc # None /\ sc.gen \in Nat
<1>1. sc \in Scenes(DOMAIN sc.surfaces) /\ DOMAIN sc.surfaces \in SUBSET Surfaces  BY DEF IsScene, IsScenery
<1>2. sc # None  BY <1>1, NoneAssumption
<1>3. sc.gen \in Nat  BY <1>1 DEF Scenes
<1>4. QED  BY <1>2, <1>3

LEMMA RuntimeFacts ==
    ASSUME NEW r, IsRuntime(r)
    PROVE  /\ r # None /\ r.geo \in Geometries /\ r.gen \in Nat
           /\ r.fb # None => r.fb \in Frames(r.geo)
           /\ r = [geo |-> r.geo, gen |-> r.gen, fb |-> r.fb, pend |-> r.pend]
           /\ Proper(bounds(r.geo)) /\ IsDamage(r.pend, bounds(r.geo)) /\ r.pend \in SUBSET Rects
<1>1. r.geo \in Geometries /\ r \in Runtimes(r.geo) /\ IsDamage(r.pend, bounds(r.geo))  BY DEF IsRuntime
<1>2. r # None  BY <1>1, NoneAssumption
<1>3. r.gen \in Nat /\ r.fb \in Frames(r.geo) \cup {None} /\ r.pend \in SUBSET Rects
      /\ r = [geo |-> r.geo, gen |-> r.gen, fb |-> r.fb, pend |-> r.pend]
  BY <1>1 DEF Runtimes
<1>4. Proper(bounds(r.geo))  BY <1>1, BoundsFacts
<1>5. QED  BY <1>1, <1>2, <1>3, <1>4

LEMMA RuntimeIs ==
    ASSUME NEW geo \in Geometries, NEW gen \in Nat, NEW fb, fb \in Frames(geo) \/ fb = None,
           NEW R, IsDamage(R, bounds(geo)), Cardinality(R) <= MaxDamageRects,
           fb = None => Cells(bounds(geo)) \subseteq Covered(R),
           NEW r, r = [geo |-> geo, gen |-> gen, fb |-> fb, pend |-> R]
    PROVE  IsRuntime(r) /\ r # None
<1>1. R \in SUBSET Rects  BY DEF IsDamage, Proper
<1>2. r.geo = geo /\ r.gen = gen /\ r.fb = fb /\ r.pend = R  OBVIOUS
<1>3. r \in Runtimes(geo)  BY <1>1 DEF Runtimes
<1>4. IsRuntime(r)  BY <1>2, <1>3 DEF IsRuntime
<1>5. QED  BY <1>4, RuntimeFacts

LEMMA NewRuntime ==
    ASSUME NEW geo \in Geometries, NEW gen \in Nat
    PROVE  IsRuntime(Runtime(geo, gen)) /\ Runtime(geo, gen) # None
<1>1. /\ IsDamage({bounds(geo)}, bounds(geo)) /\ Cardinality({bounds(geo)}) <= MaxDamageRects
      /\ Cells(bounds(geo)) \subseteq Covered({bounds(geo)})
  BY BoundsFacts, CoveredFacts, Limits
<1> DEFINE R == {bounds(geo)}
<1>2. Runtime(geo, gen) = [geo |-> geo, gen |-> gen, fb |-> None, pend |-> R]  BY DEF Runtime
<1> HIDE DEF R
<1>3. IsDamage(R, bounds(geo)) /\ Cardinality(R) <= MaxDamageRects /\ Cells(bounds(geo)) \subseteq Covered(R)
  BY <1>1 DEF R
<1>4. QED  BY <1>2, <1>3, RuntimeIs

-----------------------------------------------------------------------------
(* What is sent *)

LEMMA CurrentFacts ==
    ASSUME NEW k, k \in Currents
    PROVE  k # None /\ k.buf \in Buffers /\ k.x \in Int /\ k.y \in Int /\ k.damage \in SUBSET Damages
BY NoneAssumption DEF Currents

LEMMA SnapshotFacts ==
    ASSUME NEW state, state \in [Surfaces -> Currents \cup {None}],
           \A s \in Surfaces : state[s] # None => IsFiniteSet(state[s].damage),
           pix \in [Buffers -> Contents],
           NEW N, N = Snapshot(state)
    PROVE  /\ IsScenery(N) /\ DOMAIN N = {s \in Surfaces : state[s] # None}
           /\ \A s \in DOMAIN N :
                  /\ N[s].x = state[s].x /\ N[s].y = state[s].y
                  /\ N[s].w = state[s].buf.w /\ N[s].h = state[s].buf.h
                  /\ N[s].buffer_generation = state[s].buf.id
                  /\ N[s].damage = state[s].damage /\ N[s].px = pix[state[s].buf]
<1> DEFINE D == {s \in Surfaces : state[s] # None}
           rank(s) == Cardinality({t \in D : t < s})
<1>1. N = [s \in D |->
            [x |-> state[s].x, y |-> state[s].y, z |-> rank(s),
             w |-> state[s].buf.w, h |-> state[s].buf.h, fmt |-> state[s].buf.fmt,
             buffer_generation |-> state[s].buf.id, damage |-> state[s].damage,
             px |-> pix[state[s].buf]]]
  BY DEF Snapshot
<1>2. D \in SUBSET Surfaces  OBVIOUS
<1>3. ASSUME NEW s \in D
      PROVE  /\ s \in Surfaces /\ state[s] \in Currents /\ IsFiniteSet(state[s].damage)
             /\ state[s].buf \in Buffers /\ state[s].x \in Int /\ state[s].y \in Int
             /\ state[s].damage \in SUBSET Damages
  <2>1. s \in Surfaces /\ state[s] # None /\ state[s] \in Currents \cup {None}  OBVIOUS
  <2>2. state[s] \in Currents /\ IsFiniteSet(state[s].damage)  BY <2>1
  <2>3. QED  BY <2>1, <2>2, CurrentFacts
<1>d. D = {s \in Surfaces : state[s] # None}  OBVIOUS
<1> HIDE DEF D
<1>4. \A s \in D : rank(s) \in Nat
  <2>1. IsFiniteSet(D) /\ Cardinality(D) \in Nat
        /\ \A s \in D : Cardinality({t \in D : t < s}) \in 0 .. Cardinality(D) - 1
    BY <1>2, RanksOf
  <2>2. QED  BY <2>1
<1>5. DOMAIN N = D  BY <1>1
<1>6. ASSUME NEW s \in D
      PROVE  /\ N[s].x = state[s].x /\ N[s].y = state[s].y /\ N[s].z = rank(s)
             /\ N[s].w = state[s].buf.w /\ N[s].h = state[s].buf.h /\ N[s].fmt = state[s].buf.fmt
             /\ N[s].buffer_generation = state[s].buf.id
             /\ N[s].damage = state[s].damage /\ N[s].px = pix[state[s].buf]
  <2> HIDE DEF rank
  <2>1. QED  BY <1>1
<1>7. ASSUME NEW s \in D
      PROVE  /\ N[s] \in Sprites /\ N[s].px \in Contents
  <2> DEFINE b == state[s].buf
  <2>1. b \in Buffers  BY <1>3
  <2>2. b.w \in Nat /\ b.h \in Nat /\ b.fmt \in Formats /\ b.id \in Nat  BY <2>1, Limits, BuffersAssumption
  <2>3. pix[b] \in Contents  BY <2>1
  <2>4. rank(s) \in Nat  BY <1>4
  <2> HIDE DEF rank
  <2>5. N[s] = [x |-> state[s].x, y |-> state[s].y, z |-> rank(s), w |-> b.w, h |-> b.h, fmt |-> b.fmt,
                buffer_generation |-> b.id, damage |-> state[s].damage, px |-> pix[b]]
    BY <1>1
  <2> HIDE DEF b
  <2>6. N[s] \in Sprites  BY <1>3, <2>2, <2>3, <2>4, <2>5 DEF Sprites
  <2>7. QED  BY <2>3, <2>5, <2>6
<1>8. IsScenery(N)
  <2>1. DOMAIN N \in SUBSET Surfaces  BY <1>2, <1>5
  <2>2. N \in [DOMAIN N -> Sprites]
    <3>1. N = [s \in D |-> N[s]]  BY <1>1
    <3>2. \A s \in D : N[s] \in Sprites  BY <1>7
    <3>3. N \in [D -> Sprites]  BY <3>1, <3>2
    <3>4. QED  BY <1>5, <3>3
  <2>3. ASSUME NEW i \in D
        PROVE  /\ IsFiniteSet(N[i].damage) /\ N[i].z = Cardinality({j \in D : j < i})
               /\ N[i].px \in Contents
               /\ \E b \in Buffers : N[i].w = b.w /\ N[i].h = b.h /\ N[i].fmt = b.fmt /\ N[i].buffer_generation = b.id
    <3>1. IsFiniteSet(N[i].damage)  BY <1>3, <1>6
    <3>2. N[i].z = Cardinality({j \in D : j < i})  BY <1>6
    <3>3. N[i].px \in Contents  BY <1>7
    <3>4. state[i].buf \in Buffers  BY <1>3
    <3> HIDE DEF rank
    <3>5. QED  BY <1>6, <3>1, <3>2, <3>3, <3>4
  <2>4. QED  BY <1>5, <2>1, <2>2, <2>3 DEF IsScenery
<1>9. QED  BY <1>d, <1>5, <1>6, <1>8

-----------------------------------------------------------------------------
(* What an output owes after a scene *)

LEMMA OwedFacts ==
    ASSUME SceneType, NEW N, IsScenery(N), DOMAIN N # {}, NEW o, IsRuntime(out[o]),
           NEW area, area = bounds(out[o].geo),
           NEW new, new = effective_damage_rects(Previous, N, Ready(o), area)
    PROVE  /\ IsDamage(Owed(o, N), area) /\ Cardinality(Owed(o, N)) <= MaxDamageRects
           /\ Covered(out[o].pend) \subseteq Covered(Owed(o, N))
           /\ Covered(new) \subseteq Covered(Owed(o, N))
<1>1. Previous = None \/ IsScenery(Previous)  BY DEF SceneType, IsScene, Previous
<1>2. Proper(area) /\ IsDamage(out[o].pend, area)  BY RuntimeFacts
<1>3. IsDamage(new, area)  BY <1>1, <1>2, EffectiveIsDamage
<1> DEFINE R == new \cup out[o].pend
<1>4. Owed(o, N) = Bounded(R, area)  BY DEF Owed
<1>5. IsDamage(R, area)  BY <1>2, <1>3, UnionIsDamage
<1>6. Covered(R) = Covered(new) \cup Covered(out[o].pend)  BY CoveredFacts
<1> HIDE DEF R
<1>7. /\ IsDamage(Bounded(R, area), area) /\ Cardinality(Bounded(R, area)) <= MaxDamageRects
      /\ Covered(R) \subseteq Covered(Bounded(R, area))
  BY <1>2, <1>5, BoundedFacts
<1>8. QED  BY <1>4, <1>6, <1>7

-----------------------------------------------------------------------------
(* Every step keeps the types *)

LEMMA InitType == Init => ComposeType
<1> SUFFICES ASSUME Init  PROVE ComposeType  OBVIOUS
<1>1. ClientType
  <2>1. pix \in [Buffers -> Contents]  BY DEF Init, Contents
  <2>2. cur \in [Surfaces -> Currents \cup {None}] /\ \A s \in Surfaces : cur[s] = None  BY DEF Init
  <2>3. DOMAIN touched = Surfaces  BY DEF Init
  <2>4. QED  BY <2>1, <2>2, <2>3 DEF ClientType
<1>2. SceneType
  <2>1. canon.gen = 0 /\ canon.surfaces = <<>> /\ canon = [gen |-> 0, surfaces |-> <<>>] /\ scene = None
    BY DEF Init
  <2>2. DOMAIN canon.surfaces = {} /\ canon.surfaces \in [{} -> Sprites]  BY <2>1
  <2>3. IsScenery(canon.surfaces)  BY <2>2 DEF IsScenery
  <2>4. canon \in Scenes(DOMAIN canon.surfaces)  BY <2>1, <2>2 DEF Scenes
  <2>5. QED  BY <2>1, <2>3, <2>4 DEF SceneType, IsScene
<1>3. UndamagedType  BY DEF Init, UndamagedType, Placed
<1>4. OutputType
  <2>1. PICK g \in Geometries : out = [o \in Outputs |-> IF o = Headless THEN Runtime(g, 1) ELSE None]
    BY DEF Init
  <2>2. IsRuntime(Runtime(g, 1))  BY NewRuntime
  <2>3. QED  BY <2>1, <2>2 DEF OutputType
<1>5. CountType
  <2>1. budget = [draws |-> 0, faults |-> 0] /\ skipped = FALSE  BY DEF Init
  <2>2. budget \in [{"draws", "faults"} -> Nat]  BY <2>1
  <2>3. QED  BY <2>1, <2>2 DEF CountType
<1>6. QED  BY <1>1, <1>2, <1>3, <1>4, <1>5 DEF ComposeType

LEMMA SpendCounts ==
    ASSUME CountType, NEW what \in {"draws", "faults"}, NEW max, Spend(what, max)
    PROVE  budget' \in [{"draws", "faults"} -> Nat]
BY DEF CountType, Spend

LEMMA DrawType ==
    ASSUME ComposeType, NEW b \in Buffers, NEW p \in Patterns, Draw(b, p)
    PROVE  ComposeType'
<1>1. ClientType'
  <2>1. pix' \in [Buffers -> Contents]  BY DEF ComposeType, ClientType, Draw, Contents
  <2>2. DOMAIN touched' = Surfaces  BY DEF Draw
  <2>3. cur' = cur  BY DEF Draw
  <2>4. QED  BY <2>1, <2>2, <2>3 DEF ComposeType, ClientType
<1>2. CountType'
  <2>1. Spend("draws", MaxDraws) /\ skipped' = skipped  BY DEF Draw
  <2>2. budget' \in [{"draws", "faults"} -> Nat]  BY <2>1, SpendCounts DEF ComposeType
  <2>3. QED  BY <2>1, <2>2 DEF ComposeType, CountType
<1>3. UNCHANGED <<canon, scene, out, undamaged>>  BY DEF Draw
<1>4. SceneType' /\ UndamagedType' /\ OutputType'
  BY <1>3 DEF ComposeType, SceneType, UndamagedType, OutputType, Placed
<1>5. QED  BY <1>1, <1>2, <1>4 DEF ComposeType

\* What a commit sends.
LEMMA CommitFacts ==
    ASSUME ComposeType, NEW q \in Requests, Commit(q)
    PROVE  /\ q.surface \in Surfaces /\ q.buf \in Buffers /\ q.damage \in SUBSET Damages
           /\ cur' \in [Surfaces -> Currents \cup {None}]
           /\ \A s \in Surfaces : cur'[s] # None => IsFiniteSet(cur'[s].damage)
           /\ cur'[q.surface] # None /\ cur'[q.surface].buf = q.buf
           /\ cur'[q.surface].damage = q.damage
           /\ \A s \in Surfaces : s # q.surface => cur'[s] = cur[s]
           /\ canon'.gen = canon.gen + 1 /\ canon'.surfaces = Snapshot(cur') /\ IsScene(canon')
           /\ DOMAIN canon'.surfaces = {s \in Surfaces : cur'[s] # None}
<1> DEFINE new == [buf |-> q.buf, x |-> q.x, y |-> q.y, damage |-> q.damage]
<1>1. /\ q.surface \in Surfaces /\ q.buf \in Buffers /\ q.x \in Int /\ q.y \in Int
      /\ q.damage \in SUBSET Damages /\ IsFiniteSet(q.damage)
  BY RequestsAssumption
<1>2. new \in Currents /\ new # None  BY <1>1, NoneAssumption DEF Currents
<1>3. cur' = [cur EXCEPT ![q.surface] = new]  BY DEF Commit
<1>4. new.buf = q.buf /\ new.damage = q.damage  OBVIOUS
<1> HIDE DEF new
<1>5. cur \in [Surfaces -> Currents \cup {None}]
      /\ \A s \in Surfaces : cur[s] # None => IsFiniteSet(cur[s].damage)
  BY DEF ComposeType, ClientType
<1>6. /\ cur' \in [Surfaces -> Currents \cup {None}]
      /\ cur'[q.surface] = new /\ \A s \in Surfaces : s # q.surface => cur'[s] = cur[s]
  BY <1>1, <1>2, <1>3, <1>5
<1>7. \A s \in Surfaces : cur'[s] # None => IsFiniteSet(cur'[s].damage)
  BY <1>1, <1>4, <1>5, <1>6
<1>8. canon' = [gen |-> canon.gen + 1, surfaces |-> Snapshot(cur')]  BY DEF Commit
<1> DEFINE N == Snapshot(cur')
<1>9. N = Snapshot(cur')  OBVIOUS
<1>10. pix \in [Buffers -> Contents]  BY DEF ComposeType, ClientType
<1> HIDE DEF N
<1>11. IsScenery(N) /\ DOMAIN N = {s \in Surfaces : cur'[s] # None}  BY <1>6, <1>7, <1>9, <1>10, SnapshotFacts
<1>12. canon.gen \in Nat  BY SceneIsThere DEF ComposeType, SceneType
<1>13. canon'.gen = canon.gen + 1 /\ canon'.surfaces = N  BY <1>8, <1>9
<1>14. canon' \in Scenes(DOMAIN N)
  <2>1. canon' = [gen |-> canon.gen + 1, surfaces |-> N]  BY <1>8, <1>9
  <2>2. N \in [DOMAIN N -> Sprites] /\ canon.gen + 1 \in Nat  BY <1>11, <1>12 DEF IsScenery
  <2>3. QED  BY <2>1, <2>2 DEF Scenes
<1>15. IsScene(canon')  BY <1>11, <1>13, <1>14 DEF IsScene
<1>16. QED  BY <1>1, <1>2, <1>4, <1>6, <1>7, <1>9, <1>11, <1>13, <1>15

LEMMA CommitType ==
    ASSUME ComposeType, NEW q \in Requests, Commit(q)
    PROVE  ComposeType'
<1>1. ClientType'
  <2>1. pix' = pix /\ DOMAIN touched' = DOMAIN touched  BY DEF Commit
  <2>2. QED  BY <2>1, CommitFacts DEF ComposeType, ClientType
<1>2. SceneType'
  <2>1. IsScene(canon') /\ canon'.gen = canon.gen + 1 /\ DOMAIN canon'.surfaces # {}  BY CommitFacts
  <2>2. scene' = scene  BY DEF Commit
  <2>3. canon.gen \in Nat  BY SceneIsThere DEF ComposeType, SceneType
  <2>4. scene # None => IsScene(scene) /\ scene.gen \in 1 .. canon.gen  BY DEF ComposeType, SceneType
  <2>5. scene # None => IsScene(scene) /\ scene.gen \in 1 .. (canon.gen + 1)  BY <2>3, <2>4
  <2>6. QED  BY <2>1, <2>2, <2>5 DEF SceneType
<1>3. UNCHANGED <<scene, out, undamaged, budget>>  BY DEF Commit
<1>4. skipped' \in BOOLEAN
  <2>1. skipped' = (skipped \/ (canon.gen > 0 /\ (scene = None \/ canon.gen # scene.gen))
                            \/ \E d \in q.damage : ~Fits(d))
    BY DEF Commit
  <2>2. QED  BY <2>1
<1>5. UndamagedType' /\ OutputType' /\ CountType'
  BY <1>3, <1>4 DEF ComposeType, UndamagedType, OutputType, Placed, CountType
<1>6. QED  BY <1>1, <1>2, <1>5 DEF ComposeType

LEMMA DestroyType ==
    ASSUME ComposeType, NEW s \in Surfaces, Destroy(s)
    PROVE  ComposeType'
<1>1. ClientType'
  <2>1. cur' = [cur EXCEPT ![s] = None] /\ pix' = pix /\ DOMAIN touched' = DOMAIN touched  BY DEF Destroy
  <2>2. cur \in [Surfaces -> Currents \cup {None}]
        /\ \A t \in Surfaces : cur[t] # None => IsFiniteSet(cur[t].damage)
    BY DEF ComposeType, ClientType
  <2>3. cur' \in [Surfaces -> Currents \cup {None}]  BY <2>1, <2>2
  <2>4. \A t \in Surfaces : cur'[t] # None => cur'[t] = cur[t]  BY <2>1, <2>2
  <2>5. QED  BY <2>1, <2>2, <2>3, <2>4 DEF ComposeType, ClientType
<1>2. UNCHANGED <<canon, scene, out, undamaged, skipped, budget>>  BY DEF Destroy
<1>3. SceneType' /\ UndamagedType' /\ OutputType' /\ CountType'
  BY <1>2 DEF ComposeType, SceneType, UndamagedType, OutputType, Placed, CountType
<1>4. QED  BY <1>1, <1>3 DEF ComposeType

LEMMA UnreportedFacts ==
    ASSUME ComposeType, NEW s \in Surfaces, NEW N, IsScenery(N)
    PROVE  /\ s \in DOMAIN N => Unreported(N)[s] \subseteq WholeOf(N[s])
           /\ s \notin DOMAIN N => Unreported(N)[s] = {}
<1> DEFINE far == \/ scene = None \/ s \notin DOMAIN N \/ s \notin DOMAIN scene.surfaces
                  \/ surface_exposes_or_occupies_different_region(scene.surfaces[s], N[s])
<1>1. Unreported(N)[s] =
          IF far THEN {}
          ELSE (undamaged[s] \cup Changed([w |-> N[s].w, h |-> N[s].h], scene.surfaces[s].px, N[s].px))
               \ Covered(LocalDamage(N[s]))
  BY DEF Unreported
<1>2. CASE far
  <2>1. Unreported(N)[s] = {}  BY <1>1, <1>2
  <2>2. QED  BY <2>1
<1>3. CASE ~far
  <2>1. scene # None /\ s \in DOMAIN N /\ s \in DOMAIN scene.surfaces  BY <1>3
  <2>2. scene.surfaces[s].w = N[s].w /\ scene.surfaces[s].h = N[s].h  BY <1>3, SamePlace
  <2>3. undamaged[s] \subseteq WholeOf(scene.surfaces[s])  BY <2>1 DEF ComposeType, UndamagedType, Placed
  <2>4. WholeOf(scene.surfaces[s]) = WholeOf(N[s])  BY <2>2 DEF WholeOf
  <2>5. Changed([w |-> N[s].w, h |-> N[s].h], scene.surfaces[s].px, N[s].px) \subseteq WholeOf(N[s])
    BY DEF Changed, WholeOf
  <2>6. QED  BY <1>1, <1>3, <2>1, <2>3, <2>4, <2>5
<1>4. QED  BY <1>2, <1>3

LEMMA AcceptType ==
    ASSUME ComposeType, Accept
    PROVE  ComposeType'
<1>1. /\ canon.gen > 0 /\ scene' = canon /\ undamaged' = Unreported(canon.surfaces)
      /\ out' = [o \in Outputs |-> IF out[o] = None THEN None
               ELSE [out[o] EXCEPT !.pend = Owed(o, canon.surfaces)]]
      /\ UNCHANGED <<pix, cur, touched, canon, skipped, budget>>
  BY DEF Accept
<1>2. /\ IsScene(canon) /\ IsScenery(canon.surfaces) /\ canon.gen \in Nat /\ canon # None
      /\ DOMAIN canon.surfaces # {}
  BY <1>1, SceneIsThere DEF ComposeType, SceneType, IsScene
<1>3. SceneType'
  <2>1. canon.gen \in 1 .. canon.gen  BY <1>1, <1>2
  <2>2. QED  BY <1>1, <1>2, <2>1 DEF SceneType
<1>4. UndamagedType'
  <2>1. DOMAIN undamaged' = Surfaces  BY <1>1 DEF Unreported
  <2>2. \A s \in Surfaces : s \in Placed' <=> s \in DOMAIN canon.surfaces  BY <1>1, <1>2 DEF Placed
  <2>3. \A s \in Surfaces :
           /\ s \in DOMAIN canon.surfaces => undamaged'[s] \subseteq WholeOf(canon.surfaces[s])
           /\ s \notin DOMAIN canon.surfaces => undamaged'[s] = {}
    BY <1>1, <1>2, UnreportedFacts
  <2>4. QED  BY <1>1, <2>1, <2>2, <2>3 DEF UndamagedType
<1>5. OutputType'
  <2>1. ASSUME NEW o \in Outputs, out[o] # None
        PROVE  IsRuntime([out[o] EXCEPT !.pend = Owed(o, canon.surfaces)])
    <3> DEFINE r == out[o]
               R == Owed(o, canon.surfaces)
               area == bounds(r.geo)
    <3>1. IsRuntime(r)  BY <2>1 DEF ComposeType, OutputType
    <3>2. /\ IsDamage(R, area) /\ Cardinality(R) <= MaxDamageRects /\ Covered(r.pend) \subseteq Covered(R)
      BY <1>2, <3>1, OwedFacts DEF ComposeType
    <3>3. /\ r.geo \in Geometries /\ r.gen \in Nat /\ (r.fb # None => r.fb \in Frames(r.geo))
          /\ r = [geo |-> r.geo, gen |-> r.gen, fb |-> r.fb, pend |-> r.pend]
      BY <3>1, RuntimeFacts
    <3>4. r.fb = None => Cells(area) \subseteq Covered(R)  BY <3>1, <3>2 DEF IsRuntime
    <3> HIDE DEF R, r
    <3>5. [r EXCEPT !.pend = R] = [geo |-> r.geo, gen |-> r.gen, fb |-> r.fb, pend |-> R]  BY <3>3
    <3>6. IsRuntime([r EXCEPT !.pend = R])  BY <3>2, <3>3, <3>4, <3>5, RuntimeIs
    <3>7. QED  BY <3>6 DEF r, R
  <2>2. QED  BY <1>1, <2>1 DEF OutputType
<1>6. ClientType' /\ CountType'  BY <1>1 DEF ComposeType, ClientType, CountType
<1>7. QED  BY <1>3, <1>4, <1>5, <1>6 DEF ComposeType

\* The frame an output gets shows the scene where it owed something and is as it was elsewhere.
LEMMA TickFacts ==
    ASSUME ComposeType, NEW o \in Outputs, Tick(o)
    PROVE  /\ scene # None /\ IsRuntime(out[o]) /\ Composed(o) \in Frames(out[o].geo)
           /\ out' = [out EXCEPT ![o].fb = Composed(o), ![o].pend = {}]
           /\ shm' = [shm EXCEPT ![o] = publish_atomic(Region(o), Composed(o))]
           /\ \A c \in Cells(bounds(out[o].geo)) :
                  LET k == framebuffer_offset_for_output(out[o].geo, c)
                  IN  \/ Composed(o)[k] = Look(scene.surfaces, c)
                      \/ c \notin Covered(out[o].pend) /\ Composed(o)[k] = out[o].fb[k]
<1>1. /\ out[o] # None /\ scene # None
      /\ out' = [out EXCEPT ![o].fb = Composed(o), ![o].pend = {}]
      /\ shm' = [shm EXCEPT ![o] = publish_atomic(Region(o), Composed(o))]
  <2>1. Due(o)  BY DEF Tick
  <2>2. QED  BY <2>1 DEF Tick, Due
<1>2. IsRuntime(out[o])  BY <1>1 DEF ComposeType, OutputType
<1>3. IsScenery(scene.surfaces)  BY <1>1 DEF ComposeType, SceneType, IsScene
<1> DEFINE geo == out[o].geo
           old == out[o].pend
           R == Bounded(old, bounds(geo))
           blank == [i \in 0 .. framebuffer_words(geo) - 1 |-> Background]
           scratch == IF Ready(o) THEN out[o].fb ELSE blank
<1>4. /\ geo \in Geometries /\ Proper(bounds(geo)) /\ IsDamage(old, bounds(geo))
      /\ (out[o].fb # None => out[o].fb \in Frames(geo))
  BY <1>2, RuntimeFacts
<1>5. /\ IsDamage(R, bounds(geo)) /\ Covered(old) \subseteq Covered(R)
  BY <1>4, BoundedFacts
<1>6. R \in SUBSET Rects /\ IsFiniteSet(R)  BY <1>5 DEF IsDamage, Proper
<1>7. blank \in Frames(geo)
  <2>1. Background \in Pixel  BY DEF Background, Pixel
  <2>2. QED  BY <2>1 DEF Frames
<1>8. scratch \in Frames(geo)  BY <1>4, <1>7 DEF Ready
<1>9. Composed(o) = compose_damage_rects(scratch, geo, scene.surfaces, R)  BY DEF Composed
<1>10. ~Ready(o) => Cells(bounds(geo)) \subseteq Covered(old)  BY <1>2 DEF IsRuntime, Ready
<1>11. Ready(o) => scratch = out[o].fb  OBVIOUS
<1> HIDE DEF R, scratch, blank, old
<1>12. /\ Composed(o) \in Frames(geo)
       /\ \A c \in Cells(bounds(geo)) :
              LET k == framebuffer_offset_for_output(geo, c)
              IN  Composed(o)[k] = IF c \in Covered(R) THEN Look(scene.surfaces, c) ELSE scratch[k]
  BY <1>3, <1>4, <1>6, <1>8, <1>9, FrameIs
<1>13. ASSUME NEW c \in Cells(bounds(geo)), NEW k, k = framebuffer_offset_for_output(geo, c)
       PROVE  \/ Composed(o)[k] = Look(scene.surfaces, c)
              \/ c \notin Covered(old) /\ Composed(o)[k] = out[o].fb[k]
  <2>1. Composed(o)[k] = IF c \in Covered(R) THEN Look(scene.surfaces, c) ELSE scratch[k]  BY <1>12, <1>13
  <2>2. CASE c \in Covered(R)  BY <2>1, <2>2
  <2>3. CASE c \notin Covered(R)
    <3>1. c \notin Covered(old)  BY <1>5, <2>3
    <3>2. Ready(o)  BY <1>10, <3>1
    <3>3. QED  BY <1>11, <2>1, <2>3, <3>1, <3>2
  <2>4. QED  BY <2>2, <2>3
<1>14. QED  BY <1>1, <1>2, <1>12, <1>13 DEF old

LEMMA TickRuntime ==
    ASSUME ComposeType, NEW o \in Outputs, Tick(o)
    PROVE  /\ DOMAIN out' = Outputs /\ IsRuntime(out'[o]) /\ out'[o] # None
           /\ out'[o].geo = out[o].geo /\ out'[o].gen = out[o].gen
           /\ out'[o].fb = Composed(o) /\ out'[o].fb # None /\ out'[o].pend = {}
           /\ \A p \in Outputs : p # o => out'[p] = out[p]
<1> DEFINE r == out[o]
           f == Composed(o)
<1>1. IsRuntime(r) /\ f \in Frames(r.geo) /\ out' = [out EXCEPT ![o].fb = f, ![o].pend = {}]
  BY TickFacts
<1>2. /\ r.geo \in Geometries /\ r.gen \in Nat
      /\ r = [geo |-> r.geo, gen |-> r.gen, fb |-> r.fb, pend |-> r.pend]
  BY <1>1, RuntimeFacts
<1>3. DOMAIN out = Outputs  BY DEF ComposeType, OutputType
<1>4. f # None  BY <1>1, <1>2, NoneAssumption
<1>5. out' = [out EXCEPT ![o] = [[r EXCEPT !.fb = f] EXCEPT !.pend = {}]]  BY <1>1, <1>3
<1>d. out[o] = r  OBVIOUS
<1>e. f = Composed(o)  OBVIOUS
<1> HIDE DEF f, r
<1>6. [[r EXCEPT !.fb = f] EXCEPT !.pend = {}] = [geo |-> r.geo, gen |-> r.gen, fb |-> f, pend |-> {}]
  <2> DEFINE m == [r EXCEPT !.fb = f]
  <2>1. m = [geo |-> r.geo, gen |-> r.gen, fb |-> f, pend |-> r.pend]  BY <1>2
  <2> HIDE DEF m
  <2>2. [m EXCEPT !.pend = {}] = [geo |-> r.geo, gen |-> r.gen, fb |-> f, pend |-> {}]  BY <2>1
  <2>3. QED  BY <2>2 DEF m
<1> DEFINE n == [geo |-> r.geo, gen |-> r.gen, fb |-> f, pend |-> {}]
<1>7. n.geo = r.geo /\ n.gen = r.gen /\ n.fb = f /\ n.pend = {}  OBVIOUS
<1>8. IsRuntime(n) /\ n # None
  <2>1. IsDamage({}, bounds(r.geo)) /\ Cardinality({}) <= MaxDamageRects
    BY FS_EmptySet, Limits DEF IsDamage
  <2>2. n = [geo |-> r.geo, gen |-> r.gen, fb |-> f, pend |-> {}]  OBVIOUS
  <2> HIDE DEF n
  <2>3. QED  BY <1>1, <1>2, <1>4, <2>1, <2>2, RuntimeIs
<1>9. out' = [out EXCEPT ![o] = n]  BY <1>5, <1>6
<1> HIDE DEF n
<1>10. out'[o] = n /\ DOMAIN out' = Outputs /\ \A p \in Outputs : p # o => out'[p] = out[p]  BY <1>3, <1>9
<1>11. QED  BY <1>d, <1>e, <1>4, <1>7, <1>8, <1>10

LEMMA TickType ==
    ASSUME ComposeType, NEW o \in Outputs, Tick(o)
    PROVE  ComposeType'
<1>1. UNCHANGED <<pix, cur, touched, canon, scene, undamaged, skipped, budget>>  BY DEF Tick
<1>2. OutputType'
  <2>1. \A p \in Outputs : out[p] # None => IsRuntime(out[p])  BY DEF ComposeType, OutputType
  <2>2. \A p \in Outputs : out'[p] # None => IsRuntime(out'[p])  BY <2>1, TickRuntime
  <2>3. QED  BY <2>2, TickRuntime DEF OutputType
<1>3. ClientType' /\ SceneType' /\ UndamagedType' /\ CountType'
  BY <1>1 DEF ComposeType, ClientType, SceneType, UndamagedType, Placed, CountType
<1>4. QED  BY <1>2, <1>3 DEF ComposeType

LEMMA ConfigureFacts ==
    ASSUME ComposeType, NEW o \in Outputs, NEW geo \in Geometries, ConfigureOutput(o, geo)
    PROVE  /\ DOMAIN out' = Outputs /\ IsRuntime(out'[o]) /\ out'[o].pend = {bounds(out'[o].geo)}
           /\ \A p \in Outputs : p # o => out'[p] = out[p]
           /\ budget' \in [{"draws", "faults"} -> Nat]
           /\ UNCHANGED <<pix, cur, touched, canon, scene, resident, undamaged, skipped>>
           /\ shm' = [shm EXCEPT ![o] = None]
<1>1. Spend("faults", MaxFaults)  BY DEF ConfigureOutput
<1>2. budget' \in [{"draws", "faults"} -> Nat]  BY <1>1, SpendCounts DEF ComposeType
<1>3. budget'.faults + 1 \in Nat  BY <1>2
<1> DEFINE gen == budget'.faults + 1
<1>4. out' = [out EXCEPT ![o] = Runtime(geo, gen)]  BY DEF ConfigureOutput
<1>5. gen \in Nat  BY <1>3
<1> HIDE DEF gen
<1>6. IsRuntime(Runtime(geo, gen))  BY <1>5, NewRuntime
<1>7. Runtime(geo, gen).pend = {bounds(Runtime(geo, gen).geo)}  BY DEF Runtime
<1>8. DOMAIN out = Outputs  BY DEF ComposeType, OutputType
<1>9. DOMAIN out' = Outputs /\ out'[o] = Runtime(geo, gen) /\ \A p \in Outputs : p # o => out'[p] = out[p]
  BY <1>4, <1>8
<1>10. UNCHANGED <<pix, cur, touched, canon, scene, resident, undamaged, skipped>>
       /\ shm' = [shm EXCEPT ![o] = None]
  BY DEF ConfigureOutput, DropRegion
<1>11. QED  BY <1>2, <1>6, <1>7, <1>9, <1>10

LEMMA ConfigureType ==
    ASSUME ComposeType, NEW o \in Outputs, NEW geo \in Geometries, ConfigureOutput(o, geo)
    PROVE  ComposeType'
<1>1. UNCHANGED <<pix, cur, touched, canon, scene, undamaged, skipped>>  BY ConfigureFacts
<1>2. OutputType'
  <2>1. \A p \in Outputs : out[p] # None => IsRuntime(out[p])  BY DEF ComposeType, OutputType
  <2>2. \A p \in Outputs : out'[p] # None => IsRuntime(out'[p])  BY <2>1, ConfigureFacts
  <2>3. QED  BY <2>2, ConfigureFacts DEF OutputType
<1>3. budget' \in [{"draws", "faults"} -> Nat]  BY ConfigureFacts
<1>4. ClientType' /\ SceneType' /\ UndamagedType' /\ CountType'
  BY <1>1, <1>3 DEF ComposeType, ClientType, SceneType, UndamagedType, Placed, CountType
<1>5. QED  BY <1>2, <1>4 DEF ComposeType

LEMMA RemoveFacts ==
    ASSUME ComposeType, NEW o \in Outputs, RemoveOutput(o)
    PROVE  /\ DOMAIN out' = Outputs /\ out'[o] = None
           /\ \A p \in Outputs : p # o => out'[p] = out[p]
           /\ UNCHANGED <<pix, cur, touched, canon, scene, resident, undamaged, skipped, budget>>
           /\ shm' = [shm EXCEPT ![o] = None]
<1>1. DOMAIN out = Outputs  BY DEF ComposeType, OutputType
<1>2. out' = [out EXCEPT ![o] = None]  BY DEF RemoveOutput
<1>3. QED  BY <1>1, <1>2 DEF RemoveOutput, DropRegion

LEMMA RemoveType ==
    ASSUME ComposeType, NEW o \in Outputs, RemoveOutput(o)
    PROVE  ComposeType'
<1>1. UNCHANGED <<pix, cur, touched, canon, scene, undamaged, skipped, budget>>  BY RemoveFacts
<1>2. OutputType'
  <2>1. \A p \in Outputs : out[p] # None => IsRuntime(out[p])  BY DEF ComposeType, OutputType
  <2>2. \A p \in Outputs : out'[p] # None => IsRuntime(out'[p])  BY <2>1, RemoveFacts
  <2>3. QED  BY <2>2, RemoveFacts DEF OutputType
<1>3. ClientType' /\ SceneType' /\ UndamagedType' /\ CountType'
  BY <1>1 DEF ComposeType, ClientType, SceneType, UndamagedType, Placed, CountType
<1>4. QED  BY <1>2, <1>3 DEF ComposeType

LEMMA RestartFacts ==
    ASSUME ComposeType, Restart
    PROVE  /\ DOMAIN out' = Outputs
           /\ \A p \in Outputs : out'[p] # None =>
                  IsRuntime(out'[p]) /\ out'[p].pend = {bounds(out'[p].geo)}
           /\ budget' \in [{"draws", "faults"} -> Nat]
           /\ UNCHANGED <<pix, cur, touched, canon, scene, undamaged, skipped>>
           /\ shm' = [o \in Outputs |-> None]
<1>1. PICK g \in Geometries : out' = [o \in Outputs |-> IF o = Headless THEN Runtime(g, 1) ELSE None]
  BY DEF Restart
<1>2. IsRuntime(Runtime(g, 1))  BY NewRuntime
<1>3. Runtime(g, 1).pend = {bounds(Runtime(g, 1).geo)}  BY DEF Runtime
<1>4. \A p \in Outputs : out'[p] # None => out'[p] = Runtime(g, 1)  BY <1>1
<1>5. DOMAIN out' = Outputs  BY <1>1
<1>6. Spend("faults", MaxFaults)  BY DEF Restart
<1>7. budget' \in [{"draws", "faults"} -> Nat]  BY <1>6, SpendCounts DEF ComposeType
<1>8. UNCHANGED <<pix, cur, touched, canon, scene, undamaged, skipped>> /\ shm' = [o \in Outputs |-> None]
  BY DEF Restart
<1>9. ASSUME NEW p \in Outputs, out'[p] # None
      PROVE  IsRuntime(out'[p]) /\ out'[p].pend = {bounds(out'[p].geo)}
  <2>1. out'[p] = Runtime(g, 1)  BY <1>4, <1>9
  <2>2. QED  BY <1>2, <1>3, <2>1
<1>10. QED  BY <1>5, <1>7, <1>8, <1>9

LEMMA RestartType ==
    ASSUME ComposeType, Restart
    PROVE  ComposeType'
<1>1. UNCHANGED <<pix, cur, touched, canon, scene, undamaged, skipped>>
      /\ budget' \in [{"draws", "faults"} -> Nat]
  BY RestartFacts
<1>2. OutputType'  BY RestartFacts DEF OutputType
<1>3. ClientType' /\ SceneType' /\ UndamagedType' /\ CountType'
  BY <1>1 DEF ComposeType, ClientType, SceneType, UndamagedType, Placed, CountType
<1>4. QED  BY <1>2, <1>3 DEF ComposeType

\* Nothing of a step that does nothing.
LEMMA StutterType ==
    ASSUME ComposeType, UNCHANGED vars
    PROVE  ComposeType'
<1>1. UNCHANGED <<pix, cur, touched, canon, scene, resident, out, shm, undamaged, skipped, budget>>  BY DEF vars
<1>2. QED  BY <1>1 DEF ComposeType, ClientType, SceneType, UndamagedType, OutputType, Placed, CountType

LEMMA NextType == ComposeType /\ [Next]_vars => ComposeType'
<1> SUFFICES ASSUME ComposeType, [Next]_vars  PROVE ComposeType'  OBVIOUS
<1>1. ASSUME NEW b \in Buffers, NEW p \in Patterns, Draw(b, p)  PROVE ComposeType'  BY <1>1, DrawType
<1>2. ASSUME NEW q \in Requests, Commit(q)  PROVE ComposeType'  BY <1>2, CommitType
<1>3. ASSUME NEW s \in Surfaces, Destroy(s)  PROVE ComposeType'  BY <1>3, DestroyType
<1>4. ASSUME Accept  PROVE ComposeType'  BY <1>4, AcceptType
<1>5. ASSUME NEW o \in Outputs, Tick(o)  PROVE ComposeType'  BY <1>5, TickType
<1>6. ASSUME NEW o \in Outputs, RemoveOutput(o)  PROVE ComposeType'  BY <1>6, RemoveType
<1>7. ASSUME NEW o \in Outputs, NEW g \in Geometries, ConfigureOutput(o, g)  PROVE ComposeType'
  BY <1>7, ConfigureType
<1>8. ASSUME Restart  PROVE ComposeType'  BY <1>8, RestartType
<1>9. ASSUME UNCHANGED vars  PROVE ComposeType'  BY <1>9, StutterType
<1>10. QED  BY <1>1, <1>2, <1>3, <1>4, <1>5, <1>6, <1>7, <1>8, <1>9 DEF Next

-----------------------------------------------------------------------------
(* The regions of the headless backend *)

IsRegion(s) ==
    /\ s = [gen |-> s.gen, active |-> s.active, slots |-> s.slots, presented |-> s.presented]
    /\ s.active \in {0, 1} /\ DOMAIN s.slots = {0, 1}

SlotsInv ==
    /\ DOMAIN shm = Outputs
    /\ \A o \in Outputs : shm[o] # None =>
           /\ out[o] # None /\ IsRegion(shm[o]) /\ shm[o].gen = out[o].gen
           /\ shm[o].presented = out[o].fb /\ shm[o].slots[shm[o].active] = shm[o].presented

\* The slot that is written is the one that is shown afterwards.
LEMMA PublishFacts ==
    ASSUME NEW s, IsRegion(s), NEW f, NEW n, n = publish_atomic(s, f)
    PROVE  IsRegion(n) /\ n.gen = s.gen /\ n.presented = f /\ n.slots[n.active] = f
<1> DEFINE t == [s.slots EXCEPT ![1 - s.active] = f]
           a == 1 - s.active
<1>1. a \in {0, 1}  BY DEF IsRegion
<1>2. DOMAIN t = {0, 1} /\ t[a] = f  BY <1>1 DEF IsRegion
<1>3. s = [gen |-> s.gen, active |-> s.active, slots |-> s.slots, presented |-> s.presented]  BY DEF IsRegion
<1>4. n = [gen |-> s.gen, active |-> a, slots |-> t, presented |-> f]
  <2>1. n = [s EXCEPT !.slots = t, !.active = a, !.presented = f]  BY <1>3 DEF publish_atomic
  <2> DEFINE m == [s EXCEPT !.slots = t]
             k == [m EXCEPT !.active = a]
  <2>2. n = [k EXCEPT !.presented = f]  BY <2>1
  <2> HIDE DEF t, a
  <2>3. m = [gen |-> s.gen, active |-> s.active, slots |-> t, presented |-> s.presented]  BY <1>3
  <2> HIDE DEF m
  <2>4. k = [gen |-> s.gen, active |-> a, slots |-> t, presented |-> s.presented]  BY <2>3
  <2> HIDE DEF k
  <2>5. QED  BY <2>2, <2>4
<1> HIDE DEF t, a
<1>5. QED  BY <1>1, <1>2, <1>4 DEF IsRegion

LEMMA NewRegionFacts ==
    ASSUME NEW gen
    PROVE  IsRegion(NewRegion(gen)) /\ NewRegion(gen).gen = gen
<1> DEFINE t == [i \in {0, 1} |-> None]
<1>1. DOMAIN t = {0, 1}  OBVIOUS
<1>2. NewRegion(gen) = [gen |-> gen, active |-> 0, slots |-> t, presented |-> None]  BY DEF NewRegion
<1> HIDE DEF t
<1>3. QED  BY <1>1, <1>2 DEF IsRegion

LEMMA InitSlots == Init => SlotsInv
BY DEF Init, SlotsInv

\* A step that leaves or drops every region, and leaves what it shows.
LEMMA SlotsStay ==
    ASSUME SlotsInv, DOMAIN shm' = Outputs,
           \A o \in Outputs : shm'[o] # None =>
               /\ shm'[o] = shm[o]
               /\ out[o] # None => out'[o] # None /\ out'[o].gen = out[o].gen /\ out'[o].fb = out[o].fb
    PROVE  SlotsInv'
BY DEF SlotsInv

LEMMA AcceptKeeps ==
    ASSUME ComposeType, Accept, NEW o \in Outputs
    PROVE  /\ out[o] = None => out'[o] = None
           /\ out[o] # None => /\ out'[o] # None /\ out'[o].geo = out[o].geo /\ out'[o].gen = out[o].gen
                               /\ out'[o].fb = out[o].fb /\ out'[o].pend = Owed(o, canon.surfaces)
<1>1. out' = [p \in Outputs |-> IF out[p] = None THEN None
               ELSE [out[p] EXCEPT !.pend = Owed(p, canon.surfaces)]]
  BY DEF Accept
<1>2. CASE out[o] = None  BY <1>1, <1>2
<1>3. CASE out[o] # None
  <2> DEFINE r == out[o]
             R == Owed(o, canon.surfaces)
  <2>1. IsRuntime(r)  BY <1>3 DEF ComposeType, OutputType
  <2>2. r = [geo |-> r.geo, gen |-> r.gen, fb |-> r.fb, pend |-> r.pend]  BY <2>1, RuntimeFacts
  <2>3. out'[o] = [r EXCEPT !.pend = R]  BY <1>1, <1>3
  <2>4. out'[o] # None
    <3> HIDE DEF R
    <3>3. out'[o] = [geo |-> r.geo, gen |-> r.gen, fb |-> r.fb, pend |-> R]  BY <2>2, <2>3
    <3>4. IsScenery(canon.surfaces) /\ DOMAIN canon.surfaces # {}
      BY DEF ComposeType, SceneType, IsScene, Accept
    <3>5. IsDamage(R, bounds(r.geo)) /\ Cardinality(R) <= MaxDamageRects /\ Covered(r.pend) \subseteq Covered(R)
      BY <2>1, <3>4, OwedFacts DEF ComposeType, R
    <3>6. r.geo \in Geometries /\ r.gen \in Nat /\ (r.fb # None => r.fb \in Frames(r.geo))  BY <2>1, RuntimeFacts
    <3>7. r.fb = None => Cells(bounds(r.geo)) \subseteq Covered(R)  BY <2>1, <3>5 DEF IsRuntime
    <3> HIDE DEF r
    <3>8. QED  BY <3>3, <3>5, <3>6, <3>7, RuntimeIs
  <2> HIDE DEF R
  <2>5. out'[o].geo = r.geo /\ out'[o].gen = r.gen /\ out'[o].fb = r.fb /\ out'[o].pend = R
    BY <2>2, <2>3
  <2>6. QED  BY <1>3, <2>4, <2>5 DEF R
<1>4. QED  BY <1>2, <1>3

LEMMA TickSlots ==
    ASSUME ComposeType, SlotsInv, NEW o \in Outputs, Tick(o)
    PROVE  SlotsInv'
<1> DEFINE f == Composed(o)
           n == publish_atomic(Region(o), f)
<1>1. shm' = [shm EXCEPT ![o] = n] /\ DOMAIN shm = Outputs  BY TickFacts DEF SlotsInv
<1>2. IsRegion(Region(o)) /\ Region(o).gen = out[o].gen
  <2>1. shm[o] # None => IsRegion(shm[o])  BY DEF SlotsInv
  <2>2. IsRegion(NewRegion(out[o].gen)) /\ NewRegion(out[o].gen).gen = out[o].gen  BY NewRegionFacts
  <2>3. QED  BY <2>1, <2>2 DEF Region
<1>3. IsRegion(n) /\ n.gen = out[o].gen /\ n.presented = f /\ n.slots[n.active] = f
  BY <1>2, PublishFacts
<1>4. /\ out'[o] # None /\ out'[o].gen = out[o].gen /\ out'[o].fb = f
      /\ \A p \in Outputs : p # o => out'[p] = out[p]
  BY TickRuntime
<1> HIDE DEF f, n
<1>5. DOMAIN shm' = Outputs /\ shm'[o] = n /\ \A p \in Outputs : p # o => shm'[p] = shm[p]  BY <1>1
<1>6. ASSUME NEW p \in Outputs, shm'[p] # None
      PROVE  /\ out'[p] # None /\ IsRegion(shm'[p]) /\ shm'[p].gen = out'[p].gen
             /\ shm'[p].presented = out'[p].fb /\ shm'[p].slots[shm'[p].active] = shm'[p].presented
  <2>1. CASE p = o  BY <1>3, <1>4, <1>5, <2>1
  <2>2. CASE p # o
    <3>1. shm'[p] = shm[p] /\ out'[p] = out[p]  BY <1>4, <1>5, <2>2
    <3>2. QED  BY <1>6, <3>1 DEF SlotsInv
  <2>3. QED  BY <2>1, <2>2
<1>7. QED  BY <1>5, <1>6 DEF SlotsInv

LEMMA NextSlots == ComposeType /\ SlotsInv /\ [Next]_vars => SlotsInv'
<1> SUFFICES ASSUME ComposeType, SlotsInv, [Next]_vars  PROVE SlotsInv'  OBVIOUS
<1>d. DOMAIN shm = Outputs  BY DEF SlotsInv
<1>1. ASSUME shm' = shm, out' = out  PROVE SlotsInv'  BY <1>1 DEF SlotsInv
<1>2. ASSUME NEW b \in Buffers, NEW p \in Patterns, Draw(b, p)  PROVE SlotsInv'  BY <1>1, <1>2 DEF Draw
<1>3. ASSUME NEW q \in Requests, Commit(q)  PROVE SlotsInv'  BY <1>1, <1>3 DEF Commit
<1>4. ASSUME NEW s \in Surfaces, Destroy(s)  PROVE SlotsInv'  BY <1>1, <1>4 DEF Destroy
<1>5. ASSUME Accept  PROVE SlotsInv'
  <2>1. shm' = shm  BY <1>5 DEF Accept
  <2>2. QED  BY <1>5, <1>d, <2>1, AcceptKeeps, SlotsStay
<1>6. ASSUME NEW o \in Outputs, Tick(o)  PROVE SlotsInv'  BY <1>6, TickSlots
<1>7. ASSUME NEW o \in Outputs, shm' = [shm EXCEPT ![o] = None], \A p \in Outputs : p # o => out'[p] = out[p]
      PROVE  SlotsInv'
  <2>1. DOMAIN shm' = Outputs /\ shm'[o] = None /\ \A p \in Outputs : p # o => shm'[p] = shm[p]  BY <1>7, <1>d
  <2>2. QED  BY <1>7, <2>1, SlotsStay
<1>8. ASSUME NEW o \in Outputs, RemoveOutput(o)  PROVE SlotsInv'  BY <1>7, <1>8, RemoveFacts
<1>9. ASSUME NEW o \in Outputs, NEW g \in Geometries, ConfigureOutput(o, g)  PROVE SlotsInv'
  BY <1>7, <1>9, ConfigureFacts
<1>10. ASSUME Restart  PROVE SlotsInv'
  <2>1. shm' = [o \in Outputs |-> None]  BY <1>10, RestartFacts
  <2>2. DOMAIN shm' = Outputs /\ \A o \in Outputs : shm'[o] = None  BY <2>1
  <2>3. QED  BY <2>2 DEF SlotsInv
<1>11. ASSUME UNCHANGED vars  PROVE SlotsInv'  BY <1>1, <1>11 DEF vars
<1>12. QED  BY <1>2, <1>3, <1>4, <1>5, <1>6, <1>8, <1>9, <1>10, <1>11 DEF Next

\* What a capture returns is the frame composed last, and it is in the slot that is
\* shown (CaptureIsShown): a region goes with its output and keeps its generation.
THEOREM CaptureIsShownHolds == Spec => []CaptureIsShown
<1>1. Init => ComposeType /\ SlotsInv  BY InitType, InitSlots
<1>2. ComposeType /\ SlotsInv /\ [Next]_vars => (ComposeType /\ SlotsInv)'  BY NextType, NextSlots
<1>3. ComposeType /\ SlotsInv => CaptureIsShown  BY DEF SlotsInv, CaptureIsShown
<1>4. QED  BY <1>1, <1>2, <1>3, PTL DEF Spec

-----------------------------------------------------------------------------
(* What the framebuffers show *)

\* No surface at c changed there without damage.
Clear(c) ==
    \A i \in At(scene.surfaces, c) : Place(scene.surfaces[i], c) \notin undamaged[i]

CurrentInv ==
    scene # None =>
    \A o \in Outputs : out[o] # None =>
        \A c \in Cells(bounds(out[o].geo)) \ Covered(out[o].pend) :
            Clear(c) => out[o].fb[framebuffer_offset_for_output(out[o].geo, c)] = Look(scene.surfaces, c)

LEMMA InitCurrent == Init => CurrentInv
BY DEF Init, CurrentInv

\* Of an output that is left as it is or owes everything, nothing is to be shown.
LEMMA CurrentStays ==
    ASSUME CurrentInv, UNCHANGED <<scene, undamaged>>,
           \A o \in Outputs : out'[o] # None =>
               \/ out'[o] = out[o]
               \/ Cells(bounds(out'[o].geo)) \subseteq Covered(out'[o].pend)
    PROVE  CurrentInv'
<1> SUFFICES ASSUME scene' # None, NEW o \in Outputs, out'[o] # None,
                    NEW c \in Cells(bounds(out'[o].geo)) \ Covered(out'[o].pend), Clear(c)'
             PROVE  out'[o].fb[framebuffer_offset_for_output(out'[o].geo, c)] = Look(scene'.surfaces, c)
  BY DEF CurrentInv
<1>1. out'[o] = out[o] /\ scene' = scene  OBVIOUS
<1>2. Clear(c)  BY DEF Clear
<1>3. QED  BY <1>1, <1>2 DEF CurrentInv

\* A surface that did not change at c draws the same there.
LEMMA SameOver ==
    ASSUME NEW P, IsScenery(P), NEW N, IsScenery(N), NEW i \in DOMAIN P, i \in DOMAIN N,
           ~surface_exposes_or_occupies_different_region(P[i], N[i]),
           NEW c, c \in Covered(surface_output_bounds(N[i])), c \in Covered(surface_output_bounds(P[i])),
           Place(N[i], c) \notin Changed([w |-> N[i].w, h |-> N[i].h], P[i].px, N[i].px), NEW u
    PROVE  Over(N[i], c, u) = Over(P[i], c, u)
<1>1. /\ P[i].x = N[i].x /\ P[i].y = N[i].y /\ P[i].buffer_generation = N[i].buffer_generation
  BY SamePlace
<1>2. P[i].fmt = N[i].fmt
  <2>1. PICK b \in Buffers : P[i].fmt = b.fmt /\ P[i].buffer_generation = b.id  BY SpriteFacts
  <2>2. PICK d \in Buffers : N[i].fmt = d.fmt /\ N[i].buffer_generation = d.id  BY SpriteFacts
  <2>3. b = d  BY <1>1, <2>1, <2>2, BuffersAssumption
  <2>4. QED  BY <2>1, <2>2, <2>3
<1> DEFINE l == Place(N[i], c)
<1>3. l \in WholeOf(N[i])  BY OnSurface
<1>4. \/ P[i].px = N[i].px
      \/ P[i].px # None /\ N[i].px # None /\ P[i].px[l] = N[i].px[l]
  <2>1. l \notin Changed([w |-> N[i].w, h |-> N[i].h], P[i].px, N[i].px)  OBVIOUS
  <2> HIDE DEF l
  <2>2. QED  BY <1>3, <2>1 DEF Changed, WholeOf
<1>5. l = <<c[1] - N[i].x, c[2] - N[i].y>> /\ l = <<c[1] - P[i].x, c[2] - P[i].y>>
  BY <1>1 DEF Place
<1> HIDE DEF l
<1>6. P[i].px # None /\ N[i].px # None =>
          pixel_for_surface(P[i], c) = pixel_for_surface(N[i], c)
  BY <1>2, <1>4, <1>5 DEF pixel_for_surface
<1>7. copy_surface_rect(P[i], c, u) = copy_surface_rect(N[i], c, u)
  BY <1>4, <1>6 DEF copy_surface_rect
<1>8. QED  BY <1>7 DEF Over

\* What is left of a surface that stays where it is, outside its damage.
LEMMA UnreportedThere ==
    ASSUME NEW N, NEW s \in Surfaces, scene # None, s \in DOMAIN N, s \in DOMAIN scene.surfaces,
           ~surface_exposes_or_occupies_different_region(scene.surfaces[s], N[s])
    PROVE  Unreported(N)[s] =
               (undamaged[s] \cup Changed([w |-> N[s].w, h |-> N[s].h], scene.surfaces[s].px, N[s].px))
               \ Covered(LocalDamage(N[s]))
BY DEF Unreported

LEMMA AcceptCurrent ==
    ASSUME ComposeType, CurrentInv, Accept
    PROVE  CurrentInv'
<1> DEFINE N == canon.surfaces
<1>1. /\ canon.gen > 0 /\ scene' = canon /\ undamaged' = Unreported(N)
  BY DEF Accept
<1>2. IsScenery(N) /\ DOMAIN N # {}  BY <1>1 DEF ComposeType, SceneType, IsScene
<1>s. scene'.surfaces = N  BY <1>1
<1> HIDE DEF N
<1> SUFFICES ASSUME NEW o \in Outputs, out'[o] # None,
                    NEW c \in Cells(bounds(out'[o].geo)) \ Covered(out'[o].pend), Clear(c)'
             PROVE  out'[o].fb[framebuffer_offset_for_output(out'[o].geo, c)] = Look(scene'.surfaces, c)
  BY DEF CurrentInv
<1>3. /\ out[o] # None /\ out'[o].geo = out[o].geo /\ out'[o].fb = out[o].fb
      /\ out'[o].pend = Owed(o, N)
  BY AcceptKeeps DEF N
<1>4. IsRuntime(out[o])  BY <1>3 DEF ComposeType, OutputType
<1> DEFINE area == bounds(out[o].geo)
           new == effective_damage_rects(Previous, N, Ready(o), area)
<1>5. /\ Covered(out[o].pend) \subseteq Covered(Owed(o, N)) /\ Covered(new) \subseteq Covered(Owed(o, N))
  BY <1>2, <1>4, OwedFacts DEF ComposeType
<1>6. c \in Cells(area) /\ c \notin Covered(out[o].pend) /\ c \notin Covered(new)  BY <1>3, <1>5
<1>7. Previous = None \/ IsScenery(Previous)  BY DEF ComposeType, SceneType, IsScene, Previous
<1>8. Proper(area)  BY <1>4, RuntimeFacts
<1>9. /\ Previous # None /\ IsScenery(Previous) /\ At(Previous, c) = At(N, c)
      /\ \A i \in At(N, c) : i \in DOMAIN Previous /\ i \in DOMAIN N /\ Stays(Previous[i], N[i], c)
  BY <1>2, <1>6, <1>7, <1>8, EffectiveMisses
<1>10. scene # None /\ Previous = scene.surfaces  BY <1>9 DEF Previous
<1> DEFINE P == scene.surfaces
<1>11. /\ IsScenery(P) /\ At(P, c) = At(N, c)
       /\ \A i \in At(N, c) : i \in DOMAIN P /\ i \in DOMAIN N /\ Stays(P[i], N[i], c)
  BY <1>9, <1>10
<1> HIDE DEF area, new
<1>12. ASSUME NEW i \in At(N, c)
       PROVE  /\ i \in Surfaces /\ i \in DOMAIN P /\ i \in DOMAIN N
              /\ ~surface_exposes_or_occupies_different_region(P[i], N[i])
              /\ Place(P[i], c) = Place(N[i], c)
              /\ Place(N[i], c) \notin undamaged[i]
              /\ Place(N[i], c) \notin Changed([w |-> N[i].w, h |-> N[i].h], P[i].px, N[i].px)
  <2>1. i \in Surfaces  BY <1>2 DEF At, IsScenery
  <2>2. /\ i \in DOMAIN P /\ i \in DOMAIN N /\ ~surface_exposes_or_occupies_different_region(P[i], N[i])
        /\ Place(N[i], c) \notin Covered(LocalDamage(N[i]))
    BY <1>11 DEF Stays
  <2>3. Place(N[i], c) \notin Unreported(N)[i]  BY <1>1, <1>s DEF Clear
  <2>4. Unreported(N)[i] =
            (undamaged[i] \cup Changed([w |-> N[i].w, h |-> N[i].h], P[i].px, N[i].px))
            \ Covered(LocalDamage(N[i]))
    BY <1>10, <2>1, <2>2, UnreportedThere
  <2>5. Place(P[i], c) = Place(N[i], c)  BY <2>2, SamePlace DEF Place
  <2>6. QED  BY <2>1, <2>2, <2>3, <2>4, <2>5
<1>13. Clear(c)  BY <1>11, <1>12 DEF Clear
<1>14. out[o].fb[framebuffer_offset_for_output(out[o].geo, c)] = Look(P, c)
  BY <1>3, <1>6, <1>10, <1>13 DEF CurrentInv, area
<1> HIDE DEF P
<1>15. Alike(P, N, c)
  <2>1. ASSUME NEW i \in At(N, c)
        PROVE  N[i].z = P[i].z /\ \A u \in Pixel : Over(N[i], c, u) = Over(P[i], c, u)
    <3>1. N[i].z = P[i].z  BY <1>12, SamePlace
    <3>2. c \in Covered(surface_output_bounds(N[i])) /\ c \in Covered(surface_output_bounds(P[i]))
      BY <1>11 DEF At
    <3>3. /\ IsScenery(P) /\ IsScenery(N) /\ i \in DOMAIN P /\ i \in DOMAIN N
          /\ ~surface_exposes_or_occupies_different_region(P[i], N[i])
          /\ Place(N[i], c) \notin Changed([w |-> N[i].w, h |-> N[i].h], P[i].px, N[i].px)
      BY <1>2, <1>11, <1>12
    <3>4. ASSUME NEW u \in Pixel  PROVE Over(N[i], c, u) = Over(P[i], c, u)
      BY <3>2, <3>3, SameOver
    <3>5. QED  BY <3>1, <3>4
  <2>2. QED  BY <1>11, <2>1 DEF Alike
<1>16. Look(P, c) = Look(N, c)  BY <1>2, <1>11, <1>15, SameLook
<1>17. QED  BY <1>3, <1>14, <1>16, <1>s

LEMMA TickCurrent ==
    ASSUME ComposeType, CurrentInv, NEW o \in Outputs, Tick(o)
    PROVE  CurrentInv'
<1>1. UNCHANGED <<scene, undamaged>>  BY DEF Tick
<1> SUFFICES ASSUME NEW p \in Outputs, out'[p] # None,
                    NEW c \in Cells(bounds(out'[p].geo)) \ Covered(out'[p].pend), Clear(c)'
             PROVE  out'[p].fb[framebuffer_offset_for_output(out'[p].geo, c)] = Look(scene'.surfaces, c)
  BY DEF CurrentInv
<1>2. Clear(c) /\ scene # None  BY <1>1, TickFacts DEF Clear
<1>3. CASE p # o
  <2>1. out'[p] = out[p]  BY <1>3, TickRuntime
  <2>2. QED  BY <1>1, <1>2, <2>1 DEF CurrentInv
<1>4. CASE p = o
  <2>1. out'[o].geo = out[o].geo /\ out'[o].fb = Composed(o)  BY TickRuntime
  <2> DEFINE k == framebuffer_offset_for_output(out[o].geo, c)
  <2>2. c \in Cells(bounds(out[o].geo))  BY <1>4, <2>1
  <2>3. \/ Composed(o)[k] = Look(scene.surfaces, c)
        \/ c \notin Covered(out[o].pend) /\ Composed(o)[k] = out[o].fb[k]
    BY <2>2, TickFacts
  <2>4. out[o] # None  BY TickFacts, RuntimeFacts
  <2>5. c \notin Covered(out[o].pend) => out[o].fb[k] = Look(scene.surfaces, c)
    BY <1>2, <2>2, <2>4 DEF CurrentInv
  <2>6. Composed(o)[k] = Look(scene.surfaces, c)  BY <2>3, <2>5
  <2>7. QED  BY <1>1, <1>4, <2>1, <2>6
<1>5. QED  BY <1>3, <1>4

LEMMA NextCurrent == ComposeType /\ CurrentInv /\ [Next]_vars => CurrentInv'
<1> SUFFICES ASSUME ComposeType, CurrentInv, [Next]_vars  PROVE CurrentInv'  OBVIOUS
<1>1. ASSUME UNCHANGED <<scene, undamaged, out>>  PROVE CurrentInv'  BY <1>1, CurrentStays
<1>2. ASSUME NEW b \in Buffers, NEW p \in Patterns, Draw(b, p)  PROVE CurrentInv'  BY <1>1, <1>2 DEF Draw
<1>3. ASSUME NEW q \in Requests, Commit(q)  PROVE CurrentInv'  BY <1>1, <1>3 DEF Commit
<1>4. ASSUME NEW s \in Surfaces, Destroy(s)  PROVE CurrentInv'  BY <1>1, <1>4 DEF Destroy
<1>5. ASSUME Accept  PROVE CurrentInv'  BY <1>5, AcceptCurrent
<1>6. ASSUME NEW o \in Outputs, Tick(o)  PROVE CurrentInv'  BY <1>6, TickCurrent
<1>7. ASSUME NEW o \in Outputs, RemoveOutput(o)  PROVE CurrentInv'
  <2>1. UNCHANGED <<scene, undamaged>> /\ out'[o] = None /\ \A p \in Outputs : p # o => out'[p] = out[p]
    BY <1>7, RemoveFacts
  <2>2. QED  BY <2>1, CurrentStays
<1>8. ASSUME NEW o \in Outputs, NEW g \in Geometries, ConfigureOutput(o, g)  PROVE CurrentInv'
  <2>1. /\ UNCHANGED <<scene, undamaged>> /\ out'[o].pend = {bounds(out'[o].geo)}
        /\ \A p \in Outputs : p # o => out'[p] = out[p]
    BY <1>8, ConfigureFacts
  <2>2. Cells(bounds(out'[o].geo)) \subseteq Covered(out'[o].pend)  BY <2>1, CoveredFacts
  <2>3. QED  BY <2>1, <2>2, CurrentStays
<1>9. ASSUME Restart  PROVE CurrentInv'
  <2>1. /\ UNCHANGED <<scene, undamaged>>
        /\ \A p \in Outputs : out'[p] # None => out'[p].pend = {bounds(out'[p].geo)}
    BY <1>9, RestartFacts
  <2>2. \A p \in Outputs : out'[p] # None => Cells(bounds(out'[p].geo)) \subseteq Covered(out'[p].pend)
    BY <2>1, CoveredFacts
  <2>3. QED  BY <2>1, <2>2, CurrentStays
<1>10. ASSUME UNCHANGED vars  PROVE CurrentInv'  BY <1>1, <1>10 DEF vars
<1>11. QED  BY <1>2, <1>3, <1>4, <1>5, <1>6, <1>7, <1>8, <1>9, <1>10 DEF Next

\* Every place that is stale in a surface is stale on the screen.
LEMMA CurrentIsOutside == ComposeType /\ CurrentInv => OutsideDamageIsCurrent
<1> SUFFICES ASSUME ComposeType, CurrentInv  PROVE OutsideDamageIsCurrent  OBVIOUS
<1> DEFINE on(s) == {<<scene.surfaces[s].x + l[1], scene.surfaces[s].y + l[2]>> : l \in undamaged[s]}
           stale == UNION {on(s) : s \in Placed}
<1> SUFFICES ASSUME scene # None, NEW o \in Outputs, out[o] # None,
                    NEW c \in Cells(bounds(out[o].geo)), c \notin Covered(out[o].pend), c \notin stale
             PROVE  Ready(o) /\ out[o].fb[framebuffer_offset_for_output(out[o].geo, c)] = Look(scene.surfaces, c)
  BY DEF OutsideDamageIsCurrent
<1>1. IsRuntime(out[o])  BY DEF ComposeType, OutputType
<1>2. Ready(o)  BY <1>1 DEF IsRuntime, Ready
<1>3. IsScenery(scene.surfaces)  BY DEF ComposeType, SceneType, IsScene
<1>4. ASSUME NEW i \in At(scene.surfaces, c), Place(scene.surfaces[i], c) \in undamaged[i]
      PROVE  FALSE
  <2>1. i \in DOMAIN scene.surfaces /\ c \in Covered(surface_output_bounds(scene.surfaces[i]))  BY DEF At
  <2>2. i \in Surfaces  BY <1>3, <2>1 DEF IsScenery
  <2>3. i \in Placed  BY <2>1, <2>2 DEF Placed
  <2>4. c \in Int \X Int  BY <1>3, <2>1, OnSurface
  <2>5. scene.surfaces[i].x \in Int /\ scene.surfaces[i].y \in Int  BY <1>3, <2>1, SpriteFacts
  <2>6. PICK a \in Int, b \in Int : c = <<a, b>>  BY <2>4
  <2> DEFINE l == Place(scene.surfaces[i], c)
  <2>7. l = <<a - scene.surfaces[i].x, b - scene.surfaces[i].y>>  BY <2>6 DEF Place
  <2>8. l[1] = a - scene.surfaces[i].x /\ l[2] = b - scene.surfaces[i].y  BY <2>7
  <2>9. scene.surfaces[i].x + l[1] = a /\ scene.surfaces[i].y + l[2] = b  BY <2>5, <2>8
  <2>10. c = <<scene.surfaces[i].x + l[1], scene.surfaces[i].y + l[2]>>  BY <2>6, <2>9
  <2>11. l \in undamaged[i]  BY <1>4
  <2> HIDE DEF l
  <2>12. c \in on(i)  BY <2>10, <2>11
  <2> HIDE DEF on
  <2>13. c \in stale  BY <2>3, <2>12
  <2>14. QED  BY <2>13
<1>5. Clear(c)  BY <1>4 DEF Clear
<1>6. QED  BY <1>2, <1>5 DEF CurrentInv

-----------------------------------------------------------------------------
(* What the client has reported *)

\* displayd has the scene that was committed last.
Shown == scene # None /\ canon.gen = scene.gen

\* What displayd does not show of s, or will not when it gets that scene.
Unseen(s) == IF Shown THEN undamaged[s] ELSE Unreported(canon.surfaces)[s]

\* The scene has surface s as it was committed, and what displayd does not show of it
\* and the client has drawn since, the client remembers.
Remembered(s) ==
    /\ s \in DOMAIN canon.surfaces
    /\ canon.surfaces[s].w = cur[s].buf.w /\ canon.surfaces[s].h = cur[s].buf.h
    /\ canon.surfaces[s].buffer_generation = cur[s].buf.id
    /\ ~skipped => Changed(cur[s].buf, canon.surfaces[s].px, pix[cur[s].buf]) \cup Unseen(s) \subseteq touched[s]

AnyPlace == UNION {Whole(b) : b \in Buffers}

ReportInv ==
    /\ Shown => scene = canon
    /\ \A s \in Surfaces :
           /\ cur[s] # None => Remembered(s)
           /\ cur[s] = None /\ s \in DOMAIN canon.surfaces => touched[s] = AnyPlace

LEMMA InitReport == Init => ReportInv
<1> SUFFICES ASSUME Init  PROVE ReportInv  OBVIOUS
<1>1. scene = None /\ canon.surfaces = <<>> /\ \A s \in Surfaces : cur[s] = None  BY DEF Init
<1>2. DOMAIN canon.surfaces = {}  BY <1>1
<1>3. QED  BY <1>1, <1>2 DEF ReportInv, Shown

LEMMA ReportStays ==
    ASSUME ReportInv, UNCHANGED <<pix, cur, touched, canon, scene, undamaged, skipped>>
    PROVE  ReportInv'
BY DEF ReportInv, Remembered, Shown, Unseen, Unreported

\* What changes over two steps changes in one of them.
LEMMA ChangedTwice ==
    ASSUME NEW b, NEW x, NEW y, NEW z
    PROVE  Changed(b, x, z) \subseteq Changed(b, x, y) \cup Changed(b, y, z)
<1> SUFFICES ASSUME NEW c \in Changed(b, x, z)
             PROVE  c \in Changed(b, x, y) \/ c \in Changed(b, y, z)
  OBVIOUS
<1>1. c \in Whole(b) /\ x # z /\ (x = None \/ z = None \/ x[c] # z[c])  BY DEF Changed
<1>2. \/ x # y /\ (x = None \/ y = None \/ x[c] # y[c])
      \/ y # z /\ (y = None \/ z = None \/ y[c] # z[c])
  BY <1>1
<1>3. QED  BY <1>1, <1>2 DEF Changed

LEMMA DrawReport ==
    ASSUME ComposeType, ReportInv, NEW b \in Buffers, NEW p \in Patterns, Draw(b, p)
    PROVE  ReportInv'
<1>1. /\ UNCHANGED <<cur, canon, scene, undamaged, skipped>>
      /\ pix' = [pix EXCEPT ![b] = p]
      /\ touched' = [s \in Surfaces |->
             IF cur[s] # None /\ cur[s].buf = b THEN touched[s] \cup Changed(b, pix[b], p) ELSE touched[s]]
  BY DEF Draw
<1>2. pix \in [Buffers -> Contents] /\ cur \in [Surfaces -> Currents \cup {None}]
  BY DEF ComposeType, ClientType
<1>3. /\ pix'[b] = p
      /\ \A a \in Buffers : a # b => pix'[a] = pix[a]
  BY <1>1, <1>2
<1>4. Shown' <=> Shown  BY <1>1 DEF Shown
<1>5. \A s \in Surfaces : Unseen(s)' = Unseen(s)  BY <1>1, <1>4 DEF Unseen, Unreported
<1>6. ASSUME NEW s \in Surfaces, cur[s] # None
      PROVE  Remembered(s)'
  <2>1. Remembered(s)  BY <1>6 DEF ReportInv
  <2> DEFINE a == cur[s].buf
             x == canon.surfaces[s].px
  <2>2. a \in Buffers
    <3>1. cur[s] \in Currents  BY <1>2, <1>6
    <3>2. QED  BY <3>1, CurrentFacts
  <2>3. ASSUME ~skipped
        PROVE  Changed(a, x, pix'[a]) \cup Unseen(s)' \subseteq touched'[s]
    <3>1. Changed(a, x, pix[a]) \cup Unseen(s) \subseteq touched[s]  BY <2>1, <2>3 DEF Remembered
    <3>2. CASE a = b
      <4>1. touched'[s] = touched[s] \cup Changed(a, pix[a], p)  BY <1>1, <1>6, <3>2
      <4>2. pix'[a] = p  BY <1>3, <3>2
      <4> HIDE DEF a, x
      <4>3. Changed(a, x, p) \subseteq Changed(a, x, pix[a]) \cup Changed(a, pix[a], p)  BY ChangedTwice
      <4>4. Unseen(s)' = Unseen(s)  BY <1>5
      <4>5. QED  BY <3>1, <4>1, <4>2, <4>3, <4>4
    <3>3. CASE a # b
      <4>1. touched'[s] = touched[s]  BY <1>1, <3>3
      <4>2. pix'[a] = pix[a]  BY <1>3, <2>2, <3>3
      <4> HIDE DEF a, x
      <4>3. Unseen(s)' = Unseen(s)  BY <1>5
      <4>4. QED  BY <3>1, <4>1, <4>2, <4>3
    <3>4. QED  BY <3>2, <3>3
  <2>4. QED  BY <1>1, <2>1, <2>3 DEF Remembered
<1>7. ASSUME NEW s \in Surfaces, cur[s] = None
      PROVE  touched'[s] = touched[s]
  BY <1>1, <1>7
<1>8. QED  BY <1>1, <1>4, <1>6, <1>7 DEF ReportInv, Shown, AnyPlace

LEMMA DestroyReport ==
    ASSUME ComposeType, ReportInv, NEW s \in Surfaces, Destroy(s)
    PROVE  ReportInv'
<1>1. /\ UNCHANGED <<pix, canon, scene, undamaged, skipped>>
      /\ cur' = [cur EXCEPT ![s] = None]
      /\ touched' = [touched EXCEPT ![s] = AnyPlace]
  BY DEF Destroy, AnyPlace
<1>2. DOMAIN cur = Surfaces /\ DOMAIN touched = Surfaces  BY DEF ComposeType, ClientType
<1>3. /\ cur'[s] = None /\ touched'[s] = AnyPlace
      /\ \A t \in Surfaces : t # s => cur'[t] = cur[t] /\ touched'[t] = touched[t]
  BY <1>1, <1>2
<1>4. Shown' <=> Shown  BY <1>1 DEF Shown
<1>5. \A t \in Surfaces : Unseen(t)' = Unseen(t)  BY <1>1, <1>4 DEF Unseen, Unreported
<1>6. ASSUME NEW t \in Surfaces
      PROVE  /\ cur'[t] # None => Remembered(t)'
             /\ cur'[t] = None /\ t \in DOMAIN canon'.surfaces => touched'[t] = AnyPlace
  <2>1. CASE t = s  BY <1>3, <2>1
  <2>2. CASE t # s
    <3>1. cur'[t] = cur[t] /\ touched'[t] = touched[t] /\ Unseen(t)' = Unseen(t)  BY <1>3, <1>5, <2>2
    <3>2. cur[t] # None => Remembered(t)'  BY <1>1, <3>1 DEF ReportInv, Remembered
    <3>3. cur[t] = None /\ t \in DOMAIN canon.surfaces => touched[t] = AnyPlace  BY DEF ReportInv
    <3>4. QED  BY <1>1, <3>1, <3>2, <3>3
  <2>3. QED  BY <2>1, <2>2
<1>7. Shown' => scene' = canon'  BY <1>1, <1>4 DEF ReportInv
<1>8. AnyPlace' = AnyPlace  BY DEF AnyPlace
<1>9. QED  BY <1>6, <1>7, <1>8 DEF ReportInv

\* The same scene, sent again, leaves out nothing more.
LEMMA AgainUnreported ==
    ASSUME scene # None, NEW s \in Surfaces
    PROVE  Unreported(scene.surfaces)[s] \subseteq undamaged[s]
<1> DEFINE S == scene.surfaces
<1>1. \/ Unreported(S)[s] = {}
      \/ Unreported(S)[s] = (undamaged[s] \cup Changed([w |-> S[s].w, h |-> S[s].h], S[s].px, S[s].px))
                            \ Covered(LocalDamage(S[s]))
  BY DEF Unreported
<1>2. Changed([w |-> S[s].w, h |-> S[s].h], S[s].px, S[s].px) = {}  BY DEF Changed
<1>3. QED  BY <1>1, <1>2

LEMMA AcceptReport ==
    ASSUME ComposeType, ReportInv, Accept
    PROVE  ReportInv'
<1>1. /\ UNCHANGED <<pix, cur, touched, canon, skipped>> /\ scene' = canon
      /\ undamaged' = Unreported(canon.surfaces)
  BY DEF Accept
<1>2. Shown'
  <2>1. canon # None  BY SceneIsThere DEF ComposeType, SceneType
  <2>2. QED  BY <1>1, <2>1 DEF Shown
<1>3. ASSUME NEW s \in Surfaces
      PROVE  Unseen(s)' \subseteq Unseen(s)
  <2>1. Unseen(s)' = Unreported(canon.surfaces)[s]  BY <1>1, <1>2 DEF Unseen
  <2>2. CASE ~Shown  BY <2>1, <2>2 DEF Unseen
  <2>3. CASE Shown
    <3>1. scene = canon /\ scene # None  BY <2>3 DEF ReportInv, Shown
    <3>2. Unreported(scene.surfaces)[s] \subseteq undamaged[s]  BY <3>1, AgainUnreported
    <3>3. QED  BY <2>1, <2>3, <3>1, <3>2 DEF Unseen
  <2>4. QED  BY <2>2, <2>3
<1>4. ASSUME NEW s \in Surfaces, cur[s] # None
      PROVE  Remembered(s)'
  <2>1. Remembered(s) /\ Unseen(s)' \subseteq Unseen(s)  BY <1>3, <1>4 DEF ReportInv
  <2>2. QED  BY <1>1, <2>1 DEF Remembered
<1>5. QED  BY <1>1, <1>4 DEF ReportInv, AnyPlace

\* Damage that fits the coordinates reaches displayd where it is on the surface.
LEMMA ReportedArrives ==
    ASSUME NEW N, IsScenery(N), NEW s \in DOMAIN N, \A d \in N[s].damage : Fits(d)
    PROVE  Reported(N[s].damage) \cap WholeOf(N[s]) \subseteq Covered(LocalDamage(N[s]))
<1> DEFINE R == UNION {from_origin_size(d.x, d.y, d.w, d.h) : d \in N[s].damage}
<1>1. Covered(LocalDamage(N[s])) = Covered(R) \cap WholeOf(N[s])  BY LocalDamageFacts
<1>2. N[s].damage \in SUBSET Damages  BY SpriteFacts
<1>3. ASSUME NEW d \in N[s].damage, NEW c \in Cells(Rect(d.x, d.y, d.x + d.w, d.y + d.h))
      PROVE  c \in Covered(R)
  <2>1. d.x \in Int /\ d.y \in Int /\ d.w \in Int /\ d.h \in Int  BY <1>2 DEF Damages
  <2>2. d.x + d.w <= MaxCoord /\ d.y + d.h <= MaxCoord  BY <1>3 DEF Fits
  <2> DEFINE r == Rect(d.x, d.y, d.x + d.w, d.y + d.h)
  <2>3. r \in Rects /\ r.x0 = d.x /\ r.y0 = d.y /\ r.x1 = d.x + d.w /\ r.y1 = d.y + d.h
    BY <2>1 DEF Rect, Rects
  <2>4. c \in Cells(r)  OBVIOUS
  <2>d. r = Rect(d.x, d.y, d.x + d.w, d.y + d.h)  OBVIOUS
  <2> HIDE DEF r
  <2>5. c \in Int \X Int /\ r.x0 <= c[1] /\ c[1] < r.x1 /\ r.y0 <= c[2] /\ c[2] < r.y1
    BY <2>3, <2>4, CellsAre
  <2>6. d.w > 0 /\ d.h > 0  BY <2>1, <2>3, <2>5
  <2>7. from_origin_size(d.x, d.y, d.w, d.h) = {r}  BY <2>1, <2>2, <2>6, <2>d, FromOriginFacts
  <2>8. r \in R  BY <2>7
  <2> HIDE DEF R
  <2>9. QED  BY <2>4, <2>8 DEF Covered
<1> HIDE DEF R
<1>4. Reported(N[s].damage) \subseteq Covered(R)  BY <1>3 DEF Reported
<1>5. QED  BY <1>1, <1>4

\* What a commit leaves out of its surface, the client has not drawn or has reported.
LEMMA CommitReport ==
    ASSUME ComposeType, ReportInv, NEW q \in Requests, Commit(q)
    PROVE  ReportInv'
<1> DEFINE N == canon'.surfaces
           O == canon.surfaces
<1>1. /\ q.surface \in Surfaces /\ q.buf \in Buffers
      /\ cur' \in [Surfaces -> Currents \cup {None}]
      /\ \A s \in Surfaces : cur'[s] # None => IsFiniteSet(cur'[s].damage)
      /\ cur'[q.surface] # None /\ cur'[q.surface].buf = q.buf /\ cur'[q.surface].damage = q.damage
      /\ \A s \in Surfaces : s # q.surface => cur'[s] = cur[s]
      /\ canon'.gen = canon.gen + 1 /\ N = Snapshot(cur')
  BY CommitFacts
<1>2. pix' = pix /\ scene' = scene /\ undamaged' = undamaged  BY DEF Commit
<1>3. /\ touched' = [touched EXCEPT ![q.surface] = {}]
      /\ skipped' = (skipped \/ (canon.gen > 0 /\ (scene = None \/ canon.gen # scene.gen))
                             \/ \E d \in q.damage : ~Fits(d))
      /\ \/ cur[q.surface] # None /\ cur[q.surface].buf # q.buf
         \/ touched[q.surface] \cap Whole(q.buf) \subseteq Reported(q.damage)
  BY DEF Commit
<1> HIDE DEF N
<1>4. /\ IsScenery(N) /\ DOMAIN N = {s \in Surfaces : cur'[s] # None}
      /\ \A s \in DOMAIN N :
             /\ N[s].w = cur'[s].buf.w /\ N[s].h = cur'[s].buf.h
             /\ N[s].buffer_generation = cur'[s].buf.id
             /\ N[s].damage = cur'[s].damage /\ N[s].px = pix[cur'[s].buf]
  <2>1. pix \in [Buffers -> Contents]  BY DEF ComposeType, ClientType
  <2>2. QED  BY <1>1, <2>1, SnapshotFacts
<1>5. canon.gen \in Nat /\ (scene # None => scene.gen \in 1 .. canon.gen)
  BY SceneIsThere DEF ComposeType, SceneType
<1>6. ~Shown'  BY <1>1, <1>2, <1>5 DEF Shown
<1>7. DOMAIN touched = Surfaces  BY DEF ComposeType, ClientType
<1>8. /\ touched'[q.surface] = {}
      /\ \A s \in Surfaces : s # q.surface => touched'[s] = touched[s]
  BY <1>1, <1>3, <1>7
<1>10. \A s \in Surfaces : Unseen(s)' = Unreported(N)[s]  BY <1>2, <1>6 DEF Unseen, Unreported, N
<1>11. ASSUME NEW s \in DOMAIN N, ~skipped'
       PROVE  Unreported(N)[s] \subseteq touched'[s]
  <2>1. s \in Surfaces /\ cur'[s] # None  BY <1>4
  <2> DEFINE b == cur'[s].buf
             lost == undamaged[s] \cup Changed([w |-> N[s].w, h |-> N[s].h], O[s].px, N[s].px)
  <2>2. CASE \/ scene = None \/ s \notin DOMAIN scene.surfaces
             \/ surface_exposes_or_occupies_different_region(scene.surfaces[s], N[s])
    <3>1. Unreported(N)[s] = {}  BY <2>1, <2>2 DEF Unreported
    <3>2. QED  BY <3>1
  <2>3. CASE /\ scene # None /\ s \in DOMAIN scene.surfaces
             /\ ~surface_exposes_or_occupies_different_region(scene.surfaces[s], N[s])
    <3>1. ~skipped /\ canon.gen = scene.gen /\ \A d \in q.damage : Fits(d)
      <4>1. canon.gen > 0  BY <1>5, <2>3
      <4>2. scene # None  BY <2>3
      <4>3. ~(skipped \/ (canon.gen > 0 /\ (scene = None \/ canon.gen # scene.gen))
                      \/ \E d \in q.damage : ~Fits(d))
        BY <1>3, <1>11, Zenon
      <4>4. QED  BY <4>1, <4>2, <4>3, Zenon
    <3>2. Shown /\ scene = canon  BY <2>3, <3>1 DEF Shown, ReportInv
    <3>3. Unreported(N)[s] = lost \ Covered(LocalDamage(N[s]))
      BY <1>11, <2>1, <2>3, <3>2, UnreportedThere
    <3>4. /\ O[s].w = N[s].w /\ O[s].h = N[s].h /\ O[s].buffer_generation = N[s].buffer_generation
      BY <2>3, <3>2, SamePlace
    <3>5. b \in Buffers
      <4>1. cur'[s] \in Currents  BY <1>1, <2>1
      <4>2. QED  BY <4>1, CurrentFacts
    <3>6. N[s].w = b.w /\ N[s].h = b.h /\ N[s].buffer_generation = b.id /\ N[s].px = pix[b]  BY <1>4
    <3>7. Whole([w |-> N[s].w, h |-> N[s].h]) = Whole(b) /\ WholeOf(N[s]) = Whole(b)
      BY <3>6 DEF Whole, WholeOf
    <3>8. Changed([w |-> N[s].w, h |-> N[s].h], O[s].px, N[s].px) = Changed(b, O[s].px, pix[b])
      BY <3>6, <3>7 DEF Changed
    <3>9. lost \subseteq Whole(b)
      <4>1. undamaged[s] \subseteq WholeOf(O[s])  BY <2>1, <2>3, <3>2 DEF ComposeType, UndamagedType, Placed
      <4>2. WholeOf(O[s]) = Whole(b)  BY <3>4, <3>7 DEF WholeOf
      <4>3. Changed(b, O[s].px, pix[b]) \subseteq Whole(b)  BY DEF Changed
      <4>4. QED  BY <3>8, <4>1, <4>2, <4>3
    <3>10. lost = undamaged[s] \cup Changed(b, O[s].px, pix[b])  BY <3>8
    <3>11. ASSUME cur[s] # None, cur[s].buf = b
           PROVE  lost \subseteq touched[s]
      <4>1. Remembered(s)  BY <2>1, <3>11 DEF ReportInv
      <4>2. Unseen(s) = undamaged[s]  BY <3>2 DEF Unseen
      <4> HIDE DEF lost
      <4>3. QED  BY <3>1, <3>10, <3>11, <4>1, <4>2 DEF Remembered
    <3> HIDE DEF lost
    <3>12. CASE s # q.surface
      <4>1. cur'[s] = cur[s] /\ touched'[s] = touched[s]  BY <1>1, <1>8, <2>1, <3>12
      <4>2. lost \subseteq touched[s]  BY <2>1, <3>11, <4>1
      <4>3. QED  BY <3>3, <4>1, <4>2
    <3>13. CASE s = q.surface
      <4>1. b = q.buf /\ N[s].damage = q.damage  BY <1>1, <1>4, <3>13
      <4>2. lost \subseteq Reported(q.damage)
        <5>1. CASE cur[s] = None
          <6>1. s \in DOMAIN O  BY <2>3, <3>2
          <6>2. touched[s] = AnyPlace  BY <2>1, <5>1, <6>1 DEF ReportInv
          <6>3. Whole(b) \subseteq touched[s]  BY <3>5, <6>2 DEF AnyPlace
          <6>4. touched[s] \cap Whole(b) \subseteq Reported(q.damage)  BY <1>3, <3>13, <4>1, <5>1
          <6>5. QED  BY <3>9, <6>3, <6>4
        <5>2. CASE cur[s] # None
          <6>1. Remembered(s)  BY <2>1, <5>2 DEF ReportInv
          <6>2. cur[s].buf \in Buffers
            <7>1. cur[s] \in Currents  BY <2>1, <5>2 DEF ComposeType, ClientType
            <7>2. QED  BY <7>1, CurrentFacts
          <6>3. cur[s].buf.id = b.id  BY <3>4, <3>6, <6>1 DEF Remembered
          <6>4. cur[s].buf = b  BY <3>5, <6>2, <6>3, BuffersAssumption
          <6>5. lost \subseteq touched[s]  BY <3>11, <5>2, <6>4
          <6>6. touched[s] \cap Whole(b) \subseteq Reported(q.damage)  BY <1>3, <3>13, <4>1, <6>4
          <6>7. QED  BY <3>9, <6>5, <6>6
        <5>3. QED  BY <5>1, <5>2
      <4>3. Reported(N[s].damage) \cap WholeOf(N[s]) \subseteq Covered(LocalDamage(N[s]))
        BY <1>4, <3>1, <4>1, ReportedArrives
      <4>4. lost \subseteq Covered(LocalDamage(N[s]))  BY <3>7, <3>9, <4>1, <4>2, <4>3
      <4>5. QED  BY <3>3, <4>4
    <3>14. QED  BY <3>12, <3>13
  <2>4. QED  BY <2>2, <2>3
<1>12. ASSUME NEW s \in Surfaces, cur'[s] # None
       PROVE  Remembered(s)'
  <2>1. s \in DOMAIN N  BY <1>4, <1>12
  <2>2. ~skipped' => Unseen(s)' \subseteq touched'[s]  BY <1>10, <1>11, <2>1
  <2>3. Changed(cur'[s].buf, N[s].px, pix'[cur'[s].buf]) = {}  BY <1>2, <1>4, <2>1 DEF Changed
  <2>4. QED  BY <1>4, <2>1, <2>2, <2>3 DEF Remembered, N
<1>13. ASSUME NEW s \in Surfaces, cur'[s] = None  PROVE s \notin DOMAIN N  BY <1>4, <1>13
<1>14. QED  BY <1>6, <1>12, <1>13 DEF ReportInv, N

LEMMA NextReport == ComposeType /\ ReportInv /\ [Next]_vars => ReportInv'
<1> SUFFICES ASSUME ComposeType, ReportInv, [Next]_vars  PROVE ReportInv'  OBVIOUS
<1>1. ASSUME NEW b \in Buffers, NEW p \in Patterns, Draw(b, p)  PROVE ReportInv'  BY <1>1, DrawReport
<1>2. ASSUME NEW q \in Requests, Commit(q)  PROVE ReportInv'  BY <1>2, CommitReport
<1>3. ASSUME NEW s \in Surfaces, Destroy(s)  PROVE ReportInv'  BY <1>3, DestroyReport
<1>4. ASSUME Accept  PROVE ReportInv'  BY <1>4, AcceptReport
<1>5. ASSUME NEW o \in Outputs, Tick(o)  PROVE ReportInv'  BY <1>5, ReportStays DEF Tick
<1>6. ASSUME NEW o \in Outputs, RemoveOutput(o)  PROVE ReportInv'  BY <1>6, RemoveFacts, ReportStays
<1>7. ASSUME NEW o \in Outputs, NEW g \in Geometries, ConfigureOutput(o, g)  PROVE ReportInv'
  BY <1>7, ConfigureFacts, ReportStays
<1>8. ASSUME Restart  PROVE ReportInv'  BY <1>8, RestartFacts, ReportStays
<1>9. ASSUME UNCHANGED vars  PROVE ReportInv'  BY <1>9, ReportStays DEF vars
<1>10. QED  BY <1>1, <1>2, <1>3, <1>4, <1>5, <1>6, <1>7, <1>8, <1>9 DEF Next

-----------------------------------------------------------------------------
(* The screen *)

LEMMA ComposeIsTyped == ComposeType => TypeOK
<1> SUFFICES ASSUME ComposeType  PROVE TypeOK  OBVIOUS
<1>1. ASSUME NEW o \in Outputs, out[o] # None
      PROVE  /\ \A r \in out[o].pend : r.x0 < r.x1 /\ r.y0 < r.y1 /\ Cells(r) \subseteq Cells(bounds(out[o].geo))
             /\ Cardinality(out[o].pend) <= MaxDamageRects
             /\ Ready(o) => out[o].fb \in Frames(out[o].geo)
  <2>1. IsRuntime(out[o])  BY <1>1 DEF ComposeType, OutputType
  <2>2. QED  BY <2>1, RuntimeFacts DEF IsRuntime, IsDamage, Proper, Ready
<1>2. scene # None => scene.gen \in 1 .. canon.gen  BY DEF ComposeType, SceneType
<1>3. ASSUME NEW s \in Surfaces  PROVE undamaged[s] \subseteq UNION {Whole(b) : b \in Buffers}
  <2>1. CASE s \notin Placed
    <3>1. undamaged[s] = {}  BY <2>1 DEF ComposeType, UndamagedType
    <3>2. QED  BY <3>1
  <2>2. CASE s \in Placed
    <3>1. undamaged[s] \subseteq WholeOf(scene.surfaces[s])  BY <2>2 DEF ComposeType, UndamagedType
    <3>2. IsScenery(scene.surfaces) /\ s \in DOMAIN scene.surfaces
      BY <2>2 DEF ComposeType, SceneType, IsScene, Placed
    <3>3. PICK b \in Buffers : scene.surfaces[s].w = b.w /\ scene.surfaces[s].h = b.h  BY <3>2, SpriteFacts
    <3>4. WholeOf(scene.surfaces[s]) = Whole(b)  BY <3>3 DEF WholeOf, Whole
    <3>5. QED  BY <3>1, <3>4
  <2>3. QED  BY <2>1, <2>2
<1>4. QED  BY <1>1, <1>2, <1>3 DEF TypeOK

LEMMA ReportIsShown == ReportInv => ReportedIsShown
<1> SUFFICES ASSUME ReportInv, scene # None, canon.gen = scene.gen, ~skipped,
                    NEW s \in Placed, cur[s] # None, touched[s] = {}
             PROVE  undamaged[s] = {}
  BY DEF ReportedIsShown
<1>1. s \in Surfaces  BY DEF Placed
<1>2. Remembered(s)  BY <1>1 DEF ReportInv
<1>3. Unseen(s) = undamaged[s]  BY DEF Unseen, Shown
<1>4. QED  BY <1>2, <1>3 DEF Remembered

ScreenInv == ComposeType /\ CurrentInv /\ ReportInv

\* What the outputs show is the scene, but for what is owed or was never reported
\* (ScreenIsCurrent): recomposing only the damage gives what composing all would.
THEOREM ScreenIsCurrentHolds == Spec => []ScreenIsCurrent
<1>1. Init => ScreenInv  BY InitType, InitCurrent, InitReport DEF ScreenInv
<1>2. ScreenInv /\ [Next]_vars => ScreenInv'  BY NextType, NextCurrent, NextReport DEF ScreenInv
<1>3. ScreenInv => ScreenIsCurrent
  BY ComposeIsTyped, CurrentIsOutside, ReportIsShown DEF ScreenInv, ScreenIsCurrent
<1>4. QED  BY <1>1, <1>2, <1>3, PTL DEF Spec

=============================================================================
