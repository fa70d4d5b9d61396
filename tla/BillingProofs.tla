----------------------------- MODULE BillingProofs -----------------------------
(***************************************************************************)
(* Theorems about Billing, for any solves, arms, rates, replies and ends   *)
(* that its assumptions allow.  A record is right because its rows are a   *)
(* tally of what the provider counted, which every reply keeps; the report *)
(* because every ordering sorts by quotients none of which is 0/0, so that *)
(* a stable sort is a ranking; and a message because after any number of   *)
(* events it is what those events say.                                     *)
(***************************************************************************)
EXTENDS Billing, FiniteSetTheorems, TLAPS

-------------------------------------------------------------------------------
(*****************************************************************************)
(* Folds over finite sets.  Induction is by a minimal counterexample, since a *)
(* theorem with an operator for a parameter cannot be instantiated.          *)
(*****************************************************************************)

(* The folds of the community modules pick an element of a set and go on     *)
(* with the rest.  A sum picks any, and a stream of events its latest.       *)
Picked(S) == CHOOSE x \in S : TRUE
Latest(S) == CHOOSE x \in S : \A y \in S : x >= y
Pick(kind, S) == IF kind = "sum" THEN Picked(S) ELSE Latest(S)

Base(kind) == IF kind = "sum" THEN 0 ELSE NoBlocks
Turn(kind, x, rest) == IF kind = "sum" THEN x + rest ELSE AddEvent(rest, x)

(* A fold is what their recursive function says of the whole set. *)
IsFold(kind, g, f, S) ==
  g = [s \in SUBSET S |-> IF s = {} THEN Base(kind)
         ELSE Turn(kind, f[Pick(kind, s)], g[s \ {Pick(kind, s)}])]

FoldOn(kind, f, S) == (CHOOSE g : IsFold(kind, g, f, S))[S]

(* SumFunction is the sum over the domain. *)
SumOn(f, S) == FoldOn("sum", f, S)

LEMMA SumIs ==
  ASSUME NEW f
  PROVE  SumFunction(f) = SumOn(f, DOMAIN f)
  BY DEF SumFunction, SumFunctionOnSet, FoldFunctionOnSet, MapThenFoldSet, IsFold, FoldOn,
     SumOn, Pick, Picked, Base, Turn

(* FoldLeft takes the events in their order. *)
LEMMA StreamIs ==
  ASSUME NEW events
  PROVE  FoldLeft(AddEvent, NoBlocks, events) = FoldOn("stream", events, DOMAIN events)
  BY DEF FoldLeft, MapThenFoldSet, IsFold, FoldOn, Pick, Latest, Base, Turn, Max

(* Induction over the subsets of a finite set: a minimal one.            *)
LEMMA MinimalSubset ==
  ASSUME NEW S, IsFiniteSet(S), NEW T \in SUBSET SUBSET S, T # {}
  PROVE  \E s \in T : \A t \in T : t \subseteq s => t = s
  <1>1. IsWellFoundedOn(StrictSubsetOrdering(S), FiniteSubsetsOf(S))
    BY FS_StrictSubsetOrderingWellFounded
  <1>2. FiniteSubsetsOf(S) = SUBSET S
    BY FS_FiniteSubsetsOfFinite
  <1>3. IsWellFoundedOn(StrictSubsetOrdering(S), SUBSET S)
    BY <1>1, <1>2
  <1>4. PICK s \in T : \A t \in T : <<t, s>> \notin StrictSubsetOrdering(S)
    BY <1>3, WFMin
  <1>5. ASSUME NEW t \in T, t \subseteq s PROVE t = s
    <2>1. <<t, s>> \notin StrictSubsetOrdering(S)
      BY <1>4
    <2> QED
      BY <1>5, <2>1 DEF StrictSubsetOrdering
  <1> QED
    BY <1>5

(* What is picked is in the set. *)
LEMMA ChosenIn ==
  ASSUME NEW s, s # {}
  PROVE  Picked(s) \in s
  BY DEF Picked

(* Of finitely many some is the largest. *)
LEMMA Greatest ==
  ASSUME NEW S, IsFiniteSet(S), S # {}, NEW m, \A x \in S : m[x] \in Int
  PROVE  \E x \in S : \A y \in S : m[y] <= m[x]
  <1> DEFINE Top(s) == \E x \in s : \A y \in s : m[y] <= m[x]
             T == {s \in SUBSET S : s # {} /\ ~Top(s)}
  <1>1. T \in SUBSET SUBSET S /\ \A s \in SUBSET S : s \in T <=> s # {} /\ ~Top(s)
    OBVIOUS
  <1> HIDE DEF T
  <1>2. SUFFICES ASSUME T # {} PROVE FALSE
    <2>1. T = {} => Top(S)
      BY <1>1
    <2> QED
      BY <2>1
  <1>3. PICK s \in T : \A t \in T : t \subseteq s => t = s
    BY <1>1, <1>2, MinimalSubset
  <1>4. s \in SUBSET S /\ s # {} /\ ~Top(s)
    BY <1>1
  <1>5. PICK x \in s : TRUE
    BY <1>4
  <1> DEFINE r == s \ {x}
  <1>6. r \in SUBSET S /\ r \subseteq s /\ r # s
    BY <1>4, <1>5
  <1>7. r = {} \/ Top(r)
    BY <1>1, <1>3, <1>6
  <1>8. CASE r = {}
    <2>1. \A y \in s : y = x
      BY <1>8
    <2> QED
      BY <1>4, <2>1
  <1>9. CASE Top(r)
    <2>1. PICK y \in r : \A z \in r : m[z] <= m[y]
      BY <1>9
    <2>2. CASE m[x] <= m[y]
      BY <1>4, <2>1, <2>2
    <2>3. CASE ~(m[x] <= m[y])
      <3>1. \A z \in s : m[z] <= m[x]
        BY <1>4, <2>1, <2>3
      <3> QED
        BY <1>4, <3>1
    <2> QED
      BY <2>2, <2>3
  <1> QED
    BY <1>7, <1>8, <1>9

(* There is always something to pick. *)
Foldable(kind, S) == IsFiniteSet(S) /\ (kind = "sum" \/ S \subseteq Nat)

LEMMA PartFoldable ==
  ASSUME NEW kind, NEW S, Foldable(kind, S), NEW s \in SUBSET S
  PROVE  Foldable(kind, s)
  BY FS_Subset DEF Foldable

LEMMA PickIn ==
  ASSUME NEW kind, NEW S, Foldable(kind, S), NEW s \in SUBSET S, s # {}
  PROVE  Pick(kind, s) \in s
  <1>1. CASE kind = "sum"
    BY <1>1, ChosenIn DEF Pick
  <1>2. CASE kind # "sum"
    <2>1. IsFiniteSet(s) /\ s \subseteq Nat
      BY <1>2, FS_Subset DEF Foldable
    <2> DEFINE m == [x \in s |-> x]
    <2>2. \A x \in s : m[x] \in Int
      BY <2>1
    <2>3. \E x \in s : \A y \in s : m[y] <= m[x]
      <3> HIDE DEF m
      <3> QED
        BY <2>1, <2>2, Greatest
    <2>4. \E x \in s : \A y \in s : x >= y
      BY <2>1, <2>3
    <2> QED
      BY <1>2, <2>4 DEF Pick, Latest
  <1> QED
    BY <1>1, <1>2

(* What the recursive function says, a set at a time. *)
Steps(kind, g, f, S) ==
  /\ g[{}] = Base(kind)
  /\ \A s \in SUBSET S : s # {} => g[s] = Turn(kind, f[Pick(kind, s)], g[s \ {Pick(kind, s)}])

(* A fixed point takes these steps. *)
LEMMA FoldStep ==
  ASSUME NEW kind, NEW f, NEW S, NEW g, IsFold(kind, g, f, S)
  PROVE  Steps(kind, g, f, S)
  <1> DEFINE V(s) == IF s = {} THEN Base(kind) ELSE Turn(kind, f[Pick(kind, s)], g[s \ {Pick(kind, s)}])
  <1>1. g = [s \in SUBSET S |-> V(s)]
    BY DEF IsFold
  <1> HIDE DEF V
  <1>2. \A s \in SUBSET S : g[s] = V(s)
    BY <1>1
  <1>3. {} \in SUBSET S
    OBVIOUS
  <1> QED
    BY <1>2, <1>3 DEF V, Steps

(* A fixed point is a function on the subsets. *)
LEMMA FoldIsMap ==
  ASSUME NEW kind, NEW f, NEW S, NEW g, IsFold(kind, g, f, S)
  PROVE  g = [s \in SUBSET S |-> g[s]]
  <1> DEFINE V(s) == IF s = {} THEN Base(kind) ELSE Turn(kind, f[Pick(kind, s)], g[s \ {Pick(kind, s)}])
  <1>1. g = [s \in SUBSET S |-> V(s)]
    BY DEF IsFold
  <1> HIDE DEF V
  <1> QED
    BY <1>1

(* There is one of them: two would differ on a minimal set. *)
LEMMA FoldUnique ==
  ASSUME NEW kind, NEW f, NEW S, Foldable(kind, S),
         NEW g, IsFold(kind, g, f, S), NEW h, IsFold(kind, h, f, S)
  PROVE  g = h
  <1> DEFINE T == {s \in SUBSET S : g[s] # h[s]}
  <1>1. Steps(kind, g, f, S) /\ Steps(kind, h, f, S)
    BY FoldStep
  <1>2. T \in SUBSET SUBSET S
    OBVIOUS
  <1>3. \A s \in SUBSET S : s \in T <=> g[s] # h[s]
    OBVIOUS
  <1> HIDE DEF T
  <1>4. SUFFICES ASSUME T # {} PROVE FALSE
    <2>1. g = [s \in SUBSET S |-> g[s]] /\ h = [s \in SUBSET S |-> h[s]]
      BY FoldIsMap
    <2>2. (T = {}) => \A s \in SUBSET S : g[s] = h[s]
      BY <1>3
    <2> QED
      BY <2>1, <2>2
  <1>5. PICK s \in T : \A t \in T : t \subseteq s => t = s
    BY <1>2, <1>4, MinimalSubset DEF Foldable
  <1>6. s \in SUBSET S /\ g[s] # h[s]
    BY <1>2, <1>3
  <1>7. s # {}
    BY <1>1, <1>6 DEF Steps
  <1> DEFINE r == s \ {Pick(kind, s)}
  <1>8. r \in SUBSET S /\ r \subseteq s /\ r # s
    BY <1>6, <1>7, PickIn
  <1>9. g[r] = h[r]
    BY <1>3, <1>5, <1>8
  <1>10. g[s] = Turn(kind, f[Pick(kind, s)], g[r]) /\ h[s] = Turn(kind, f[Pick(kind, s)], h[r])
    BY <1>1, <1>6, <1>7 DEF Steps
  <1> QED
    BY <1>6, <1>9, <1>10

(* Restricted to the subsets of a part it is the fixed point of the part. *)
LEMMA FoldPart ==
  ASSUME NEW kind, NEW f, NEW S, NEW g, IsFold(kind, g, f, S), NEW R \in SUBSET S
  PROVE  IsFold(kind, [s \in SUBSET R |-> g[s]], f, R)
  <1> DEFINE h == [s \in SUBSET R |-> g[s]]
             W(s) == IF s = {} THEN Base(kind) ELSE Turn(kind, f[Pick(kind, s)], h[s \ {Pick(kind, s)}])
  <1>1. ASSUME NEW s \in SUBSET R PROVE g[s] = W(s)
    <2>1. s \in SUBSET S /\ s \ {Pick(kind, s)} \in SUBSET R
      OBVIOUS
    <2>2. h[s \ {Pick(kind, s)}] = g[s \ {Pick(kind, s)}]
      BY <2>1
    <2>s. Steps(kind, g, f, S)
      BY FoldStep
    <2>3. g[{}] = Base(kind)
      BY <2>s DEF Steps
    <2>4. \A t \in SUBSET S : t # {} => g[t] = Turn(kind, f[Pick(kind, t)], g[t \ {Pick(kind, t)}])
      BY <2>s DEF Steps
    <2>5. CASE s = {}
      BY <2>3, <2>5
    <2>6. CASE s # {}
      <3>1. g[s] = Turn(kind, f[Pick(kind, s)], g[s \ {Pick(kind, s)}])
        BY <2>1, <2>4, <2>6
      <3> QED
        BY <3>1, <2>2, <2>6
    <2> QED
      BY <2>5, <2>6
  <1> HIDE DEF W
  <1>2. h = [s \in SUBSET R |-> W(s)]
    BY <1>1
  <1> QED
    BY <1>2 DEF W, IsFold

(* There is one for every finite set: a minimal set without would get one    *)
(* from the set that lacks what is picked from it.                           *)
LEMMA FoldExists ==
  ASSUME NEW kind, NEW f, NEW S, Foldable(kind, S)
  PROVE  \E g : IsFold(kind, g, f, S)
  <1> DEFINE T == {s \in SUBSET S : ~ \E g : IsFold(kind, g, f, s)}
  <1>1. SUFFICES ASSUME T # {} PROVE FALSE
    OBVIOUS
  <1>2. T \in SUBSET SUBSET S
    OBVIOUS
  <1>3. \A s : s \in T <=> s \in SUBSET S /\ ~ \E g : IsFold(kind, g, f, s)
    OBVIOUS
  <1> HIDE DEF T
  <1>4. PICK s \in T : \A t \in T : t \subseteq s => t = s
    BY <1>1, <1>2, MinimalSubset DEF Foldable
  <1>5. ASSUME NEW t \in SUBSET s, t # s PROVE Foldable(kind, t) /\ \E g : IsFold(kind, g, f, t)
    BY <1>4, <1>5, <1>2, <1>3, PartFoldable
  <1>6. ASSUME NEW t \in SUBSET s, t # s
        PROVE  FoldOn(kind, f, t) = IF t = {} THEN Base(kind)
                 ELSE Turn(kind, f[Pick(kind, t)], FoldOn(kind, f, t \ {Pick(kind, t)}))
    <2> DEFINE g == CHOOSE g : IsFold(kind, g, f, t)
               r == t \ {Pick(kind, t)}
               k == CHOOSE k : IsFold(kind, k, f, r)
    <2>1. IsFold(kind, g, f, t)
      BY <1>5, <1>6
    <2>2. FoldOn(kind, f, t) = g[t] /\ FoldOn(kind, f, r) = k[r]
      BY DEF FoldOn
    <2>3. t # {} => r \in SUBSET t /\ r \in SUBSET s /\ r # s
      BY <1>6
    <2>4. t # {} => IsFold(kind, k, f, r) /\ Foldable(kind, r)
      BY <1>5, <2>3
    <2> HIDE DEF g, k
    <2>5. Steps(kind, g, f, t)
      BY <2>1, FoldStep
    <2>6. CASE t = {}
      BY <2>2, <2>5, <2>6 DEF Steps
    <2>7. CASE t # {}
      <3> HIDE DEF r
      <3> DEFINE h == [u \in SUBSET r |-> g[u]]
      <3>1. IsFold(kind, h, f, r)
        <4>1. r \in SUBSET t
          BY <2>3, <2>7
        <4> QED
          BY <2>1, <4>1, FoldPart
      <3>2. h[r] = g[r]
        OBVIOUS
      <3> HIDE DEF h, r
      <3>3. k = h
        BY <3>1, <2>4, <2>7, FoldUnique
      <3>4. g[t] = Turn(kind, f[Pick(kind, t)], g[r])
        BY <2>5, <2>7 DEF Steps, r
      <3> QED
        BY <2>2, <2>7, <3>2, <3>3, <3>4 DEF r
    <2> QED
      BY <2>6, <2>7
  <1> DEFINE V(t) == IF t = {} THEN Base(kind)
                     ELSE Turn(kind, f[Pick(kind, t)], FoldOn(kind, f, t \ {Pick(kind, t)}))
             h == [t \in SUBSET s |-> V(t)]
  <1>7. ASSUME NEW t \in SUBSET s, t # {} PROVE h[t \ {Pick(kind, t)}] = FoldOn(kind, f, t \ {Pick(kind, t)})
    <2>0. Pick(kind, t) \in s
      BY <1>2, <1>4, <1>7, PickIn
    <2>1. t \ {Pick(kind, t)} \in SUBSET s /\ t \ {Pick(kind, t)} # s
      BY <2>0
    <2> QED
      BY <1>6, <2>1
  <1>8. h = [t \in SUBSET s |-> IF t = {} THEN Base(kind) ELSE Turn(kind, f[Pick(kind, t)], h[t \ {Pick(kind, t)}])]
    BY <1>7
  <1>9. IsFold(kind, h, f, s)
    BY <1>8 DEF IsFold
  <1> QED
    BY <1>4, <1>9, <1>3

(* Folding nothing, *)
LEMMA FoldEmpty ==
  ASSUME NEW kind, NEW f
  PROVE  FoldOn(kind, f, {}) = Base(kind)
  <1> DEFINE g == CHOOSE g : IsFold(kind, g, f, {})
  <1>1. IsFold(kind, g, f, {})
    BY FoldExists, FS_EmptySet DEF Foldable
  <1>2. FoldOn(kind, f, {}) = g[{}]
    BY DEF FoldOn
  <1> HIDE DEF g
  <1> QED
    BY <1>1, <1>2, FoldStep DEF Steps

(* and folding what is left before what is picked. *)
LEMMA FoldUnroll ==
  ASSUME NEW kind, NEW f, NEW S, Foldable(kind, S), S # {}
  PROVE  FoldOn(kind, f, S) = Turn(kind, f[Pick(kind, S)], FoldOn(kind, f, S \ {Pick(kind, S)}))
  <1> DEFINE R == S \ {Pick(kind, S)}
             g == CHOOSE g : IsFold(kind, g, f, S)
             k == CHOOSE k : IsFold(kind, k, f, R)
             h == [s \in SUBSET R |-> g[s]]
  <1>1. Foldable(kind, R) /\ R \in SUBSET S
    BY PartFoldable
  <1>2. IsFold(kind, g, f, S)
    BY FoldExists
  <1>3. IsFold(kind, k, f, R)
    BY <1>1, FoldExists
  <1>4. FoldOn(kind, f, S) = g[S] /\ FoldOn(kind, f, R) = k[R]
    BY DEF FoldOn
  <1> HIDE DEF g, k, R
  <1>5. IsFold(kind, h, f, R)
    BY <1>1, <1>2, FoldPart
  <1>6. h[R] = g[R]
    OBVIOUS
  <1>7. Steps(kind, g, f, S)
    BY <1>2, FoldStep
  <1>8. g[S] = Turn(kind, f[Pick(kind, S)], g[R])
    BY <1>7 DEF Steps, R
  <1> HIDE DEF h
  <1>9. k = h
    BY <1>1, <1>3, <1>5, FoldUnique
  <1> QED
    BY <1>4, <1>6, <1>8, <1>9 DEF R

-------------------------------------------------------------------------------
(* Sums.  The sum over nothing. *)
LEMMA SumEmpty ==
  ASSUME NEW f
  PROVE  SumOn(f, {}) = 0
  BY FoldEmpty DEF SumOn, Base

(* A sum begins with what is picked. *)
LEMMA SumUnroll ==
  ASSUME NEW f, NEW S, IsFiniteSet(S), S # {}
  PROVE  SumOn(f, S) = f[Picked(S)] + SumOn(f, S \ {Picked(S)})
  <1>1. Foldable("sum", S)
    BY DEF Foldable
  <1>2. FoldOn("sum", f, S)
          = Turn("sum", f[Pick("sum", S)], FoldOn("sum", f, S \ {Pick("sum", S)}))
    BY <1>1, FoldUnroll
  <1> QED
    BY <1>2 DEF SumOn, Turn, Pick

(* Naturals sum to a natural. *)
LEMMA SumNat ==
  ASSUME NEW f, NEW S, IsFiniteSet(S), \A x \in S : f[x] \in Nat
  PROVE  SumOn(f, S) \in Nat
  <1> DEFINE T == {s \in SUBSET S : SumOn(f, s) \notin Nat}
  <1>1. T \in SUBSET SUBSET S /\ \A s \in SUBSET S : s \in T <=> SumOn(f, s) \notin Nat
    OBVIOUS
  <1> HIDE DEF T
  <1>2. SUFFICES ASSUME T # {} PROVE FALSE
    BY <1>1
  <1>3. PICK s \in T : \A t \in T : t \subseteq s => t = s
    BY <1>1, <1>2, MinimalSubset
  <1>4. s # {} /\ s \in SUBSET S /\ IsFiniteSet(s)
    <2>1. s \in SUBSET S /\ IsFiniteSet(s)
      BY <1>1, FS_Subset
    <2>2. {} \notin T
      BY <1>1, SumEmpty
    <2> QED
      BY <2>1, <2>2
  <1>5. Picked(s) \in s /\ SumOn(f, s) = f[Picked(s)] + SumOn(f, s \ {Picked(s)})
    BY <1>4, ChosenIn, SumUnroll
  <1>6. SumOn(f, s \ {Picked(s)}) \in Nat
    BY <1>1, <1>3, <1>4, <1>5
  <1> QED
    BY <1>1, <1>4, <1>5, <1>6

(* A sum depends on the values in the set only. *)
LEMMA SumSame ==
  ASSUME NEW f, NEW g, NEW S, IsFiniteSet(S), \A x \in S : f[x] = g[x]
  PROVE  SumOn(f, S) = SumOn(g, S)
  <1> DEFINE T == {s \in SUBSET S : SumOn(f, s) # SumOn(g, s)}
  <1>1. T \in SUBSET SUBSET S /\ \A s \in SUBSET S : s \in T <=> SumOn(f, s) # SumOn(g, s)
    OBVIOUS
  <1> HIDE DEF T
  <1>2. SUFFICES ASSUME T # {} PROVE FALSE
    BY <1>1
  <1>3. PICK s \in T : \A t \in T : t \subseteq s => t = s
    BY <1>1, <1>2, MinimalSubset
  <1>4. s # {} /\ s \in SUBSET S /\ IsFiniteSet(s)
    <2>1. s \in SUBSET S /\ IsFiniteSet(s)
      BY <1>1, FS_Subset
    <2>2. {} \notin T
      BY <1>1, SumEmpty
    <2> QED
      BY <2>1, <2>2
  <1>5. /\ Picked(s) \in s
        /\ SumOn(f, s) = f[Picked(s)] + SumOn(f, s \ {Picked(s)})
        /\ SumOn(g, s) = g[Picked(s)] + SumOn(g, s \ {Picked(s)})
    BY <1>4, ChosenIn, SumUnroll
  <1>6. SumOn(f, s \ {Picked(s)}) = SumOn(g, s \ {Picked(s)})
    BY <1>1, <1>3, <1>4, <1>5
  <1> QED
    BY <1>1, <1>4, <1>5, <1>6

(* Any element may be taken out of a sum, whichever is picked. *)
LEMMA SumSplit ==
  ASSUME NEW f, NEW S, IsFiniteSet(S), \A y \in S : f[y] \in Nat, NEW x \in S
  PROVE  SumOn(f, S) = f[x] + SumOn(f, S \ {x})
  <1> DEFINE Bad(s) == \E y \in s : SumOn(f, s) # f[y] + SumOn(f, s \ {y})
             T == {s \in SUBSET S : Bad(s)}
  <1>1. T \in SUBSET SUBSET S /\ \A s \in SUBSET S : s \in T <=> Bad(s)
    OBVIOUS
  <1> HIDE DEF T
  <1>2. SUFFICES ASSUME T # {} PROVE FALSE
    <2>1. T = {} => ~Bad(S)
      BY <1>1
    <2> QED
      BY <2>1
  <1>3. PICK s \in T : \A t \in T : t \subseteq s => t = s
    BY <1>1, <1>2, MinimalSubset
  <1>4. PICK y \in s : SumOn(f, s) # f[y] + SumOn(f, s \ {y})
    BY <1>1, <1>3
  <1> DEFINE c == Picked(s)
  <1>5. s \in SUBSET S /\ s # {}
    BY <1>1, <1>4
  <1>6. c \in s /\ IsFiniteSet(s) /\ IsFiniteSet(s \ {c}) /\ IsFiniteSet(s \ {y})
    <2>1. IsFiniteSet(s)
      BY <1>5, FS_Subset
    <2>2. IsFiniteSet(s \ {c}) /\ IsFiniteSet(s \ {y})
      BY <2>1, FS_Subset
    <2> QED
      BY <1>5, <2>1, <2>2, ChosenIn
  <1>7. SumOn(f, s) = f[c] + SumOn(f, s \ {c})
    BY <1>5, <1>6, SumUnroll
  <1>8. c # y
    BY <1>4, <1>7
  <1>9. s \ {c} \in SUBSET S /\ s \ {c} # s /\ s \ {y} \in SUBSET S /\ s \ {y} # s
    BY <1>5, <1>6, <1>4
  <1>10. ~Bad(s \ {c}) /\ ~Bad(s \ {y})
    BY <1>1, <1>3, <1>9
  <1>11. SumOn(f, s \ {c}) = f[y] + SumOn(f, (s \ {c}) \ {y})
    BY <1>6, <1>8, <1>10
  <1>12. SumOn(f, s \ {y}) = f[c] + SumOn(f, (s \ {y}) \ {c})
    BY <1>6, <1>8, <1>10
  <1>13. (s \ {c}) \ {y} = (s \ {y}) \ {c}
    OBVIOUS
  <1>14. SumOn(f, (s \ {c}) \ {y}) \in Nat
    <2>1. IsFiniteSet((s \ {c}) \ {y}) /\ (s \ {c}) \ {y} \subseteq S
      BY <1>5, <1>6, FS_Subset
    <2> QED
      BY <2>1, SumNat
  <1>15. f[c] \in Nat /\ f[y] \in Nat
    BY <1>5, <1>4, <1>6
  <1> DEFINE A == SumOn(f, (s \ {c}) \ {y})
             B == SumOn(f, s \ {y})
             D == SumOn(f, s \ {c})
  <1>16. A \in Nat /\ D = f[y] + A /\ B = f[c] + A /\ SumOn(f, s) = f[c] + D
    BY <1>7, <1>11, <1>12, <1>13, <1>14
  <1>17. SumOn(f, s) # f[y] + B
    BY <1>4
  <1> HIDE DEF A, B, D, c
  <1> QED
    BY <1>15, <1>16, <1>17

(* A sum of sums. *)
LEMMA SumPlus ==
  ASSUME NEW f, NEW g, NEW h, NEW S, IsFiniteSet(S),
         \A x \in S : f[x] \in Nat /\ g[x] \in Nat /\ h[x] = f[x] + g[x]
  PROVE  SumOn(h, S) = SumOn(f, S) + SumOn(g, S)
  <1> DEFINE Bad(s) == SumOn(h, s) # SumOn(f, s) + SumOn(g, s)
             T == {s \in SUBSET S : Bad(s)}
  <1>1. T \in SUBSET SUBSET S /\ \A s \in SUBSET S : s \in T <=> Bad(s)
    OBVIOUS
  <1> HIDE DEF T
  <1>2. SUFFICES ASSUME T # {} PROVE FALSE
    BY <1>1
  <1>3. PICK s \in T : \A t \in T : t \subseteq s => t = s
    BY <1>1, <1>2, MinimalSubset
  <1>4. s # {} /\ s \in SUBSET S /\ IsFiniteSet(s)
    <2>1. s \in SUBSET S /\ IsFiniteSet(s)
      BY <1>1, FS_Subset
    <2>2. {} \notin T
      BY <1>1, SumEmpty
    <2> QED
      BY <2>1, <2>2
  <1> DEFINE c == Picked(s)
             r == s \ {c}
  <1>5. /\ c \in s /\ SumOn(h, s) = h[c] + SumOn(h, r)
        /\ SumOn(f, s) = f[c] + SumOn(f, r) /\ SumOn(g, s) = g[c] + SumOn(g, r)
    BY <1>4, ChosenIn, SumUnroll
  <1>6. r \in SUBSET S /\ IsFiniteSet(r) /\ SumOn(f, r) \in Nat /\ SumOn(g, r) \in Nat
    <2>1. r \in SUBSET S /\ IsFiniteSet(r)
      BY <1>4, FS_Subset
    <2> QED
      BY <2>1, SumNat
  <1>7. ~Bad(r)
    BY <1>1, <1>3, <1>5, <1>6
  <1>8. f[c] \in Nat /\ g[c] \in Nat /\ h[c] = f[c] + g[c]
    BY <1>4, <1>5
  <1>9. Bad(s)
    BY <1>1, <1>4
  <1> HIDE DEF c, r
  <1> QED
    BY <1>5, <1>6, <1>7, <1>8, <1>9

(* A set that gets another element. *)
LEMMA SumAdded ==
  ASSUME NEW f, NEW g, NEW S, IsFiniteSet(S), NEW x, x \notin S,
         \A y \in S : f[y] = g[y] /\ f[y] \in Nat, g[x] \in Nat
  PROVE  SumOn(g, S \cup {x}) = SumOn(f, S) + g[x]
  <1>1. IsFiniteSet(S \cup {x}) /\ (S \cup {x}) \ {x} = S
    BY FS_AddElement
  <1>2. SumOn(g, S \cup {x}) = g[x] + SumOn(g, S)
    BY <1>1, SumSplit
  <1>3. SumOn(f, S) = SumOn(g, S) /\ SumOn(f, S) \in Nat
    BY SumSame, SumNat
  <1> QED
    BY <1>2, <1>3

(* One value that rises. *)
LEMMA SumRaised ==
  ASSUME NEW f, NEW g, NEW S, IsFiniteSet(S), NEW x \in S, NEW d \in Nat,
         \A y \in S : f[y] \in Nat, g[x] = f[x] + d,
         \A y \in S \ {x} : g[y] = f[y]
  PROVE  SumOn(g, S) = SumOn(f, S) + d
  <1>1. IsFiniteSet(S \ {x})
    BY FS_Subset
  <1>2. \A y \in S : g[y] \in Nat
    OBVIOUS
  <1>3. SumOn(g, S) = g[x] + SumOn(g, S \ {x}) /\ SumOn(f, S) = f[x] + SumOn(f, S \ {x})
    BY <1>2, SumSplit
  <1>4. SumOn(g, S \ {x}) = SumOn(f, S \ {x}) /\ SumOn(f, S \ {x}) \in Nat
    BY <1>1, SumSame, SumNat
  <1> QED
    BY <1>3, <1>4

-------------------------------------------------------------------------------
(*****************************************************************************)
(* Rows and what they cost.                                                  *)
(*****************************************************************************)

(* Products, for leaves that must not multiply. *)
LEMMA Distribute ==
  ASSUME NEW a \in Nat, NEW b \in Nat, NEW c \in Nat
  PROVE  (a + b) * c = a * c + b * c /\ a * c \in Nat
  OBVIOUS

(* Counts at known rates make a breakdown of naturals. *)
LEMMA BreakdownNat ==
  ASSUME NEW w \in Nat, NEW r \in Nat, NEW u \in Nat, NEW o \in Nat, NEW l \in Nat,
         NEW rates \in Rates
  PROVE  /\ Breakdown(w, r, u, o, l, rates) \in [Buckets -> Nat]
         /\ DOMAIN Breakdown(w, r, u, o, l, rates) = Buckets
  <1>1. /\ w * rates.cache_write \in Nat /\ r * rates.cache_read \in Nat /\ u * rates.input \in Nat
        /\ o * rates.output \in Nat /\ l * rates.input \in Nat
    BY Distribute DEF Rates
  <1> QED
    BY <1>1 DEF Breakdown, Buckets

(* A usage row: its cache fields are part of its prompt. *)
IsRow(row) ==
  /\ {"prompt_tokens", "completion_tokens"} \subseteq DOMAIN row
  /\ row.prompt_tokens \in Nat /\ row.completion_tokens \in Nat
  /\ \A key \in CacheFields : Count(row, key) \in Nat
  /\ Count(row, "cache_creation_input_tokens") + Count(row, "cache_read_input_tokens")
       <= row.prompt_tokens
  /\ ServedBy(row) \subseteq DOMAIN KeysIn

(* What a row of its own costs. *)
RowCost(row, rates) ==
  Breakdown(Count(row, "cache_creation_input_tokens"), Count(row, "cache_read_input_tokens"),
            Uncached(row), Count(row, "completion_tokens"), Count(row, "prompt_tokens"), rates)

(* The parts of a row's prompt add up to it. *)
LEMMA RowCounts ==
  ASSUME NEW row, IsRow(row)
  PROVE  /\ Count(row, "cache_creation_input_tokens") \in Nat
         /\ Count(row, "cache_read_input_tokens") \in Nat
         /\ Count(row, "completion_tokens") = row.completion_tokens
         /\ Count(row, "prompt_tokens") = row.prompt_tokens
         /\ row.prompt_tokens \in Nat /\ row.completion_tokens \in Nat
         /\ Uncached(row) \in Nat
         /\ Count(row, "cache_creation_input_tokens") + Count(row, "cache_read_input_tokens")
              + Uncached(row) = row.prompt_tokens
  <1>1. /\ Count(row, "cache_creation_input_tokens") \in Nat
        /\ Count(row, "cache_read_input_tokens") \in Nat
    BY DEF IsRow, CacheFields
  <1>2. /\ Count(row, "completion_tokens") = row.completion_tokens
        /\ Count(row, "prompt_tokens") = row.prompt_tokens
        /\ row.prompt_tokens \in Nat /\ row.completion_tokens \in Nat
    BY DEF IsRow, Count
  <1>3. Count(row, "cache_creation_input_tokens") + Count(row, "cache_read_input_tokens")
          <= row.prompt_tokens
    BY DEF IsRow
  <1> QED
    BY <1>1, <1>2, <1>3 DEF Uncached

(* A sum over a function whose domain grows by one point. *)
LEMMA FunctionAdded ==
  ASSUME NEW f, NEW g, IsFiniteSet(DOMAIN f), NEW x, x \notin DOMAIN f,
         DOMAIN g = DOMAIN f \cup {x},
         \A y \in DOMAIN f : f[y] = g[y] /\ f[y] \in Nat, g[x] \in Nat
  PROVE  /\ SumFunction(g) = SumFunction(f) + g[x]
         /\ SumFunction(f) \in Nat
  BY SumIs, SumAdded, SumNat

(* The same for the type of a sum. *)
LEMMA FunctionNat ==
  ASSUME NEW f, IsFiniteSet(DOMAIN f), \A y \in DOMAIN f : f[y] \in Nat
  PROVE  SumFunction(f) \in Nat
  BY SumIs, SumNat

(* Some of the rows of a run, and the part that has one row more. *)
IsPart(P) == IsFiniteSet(DOMAIN P) /\ \A i \in DOMAIN P : IsRow(P[i])

Extends(Q, P, x, row) ==
  /\ x \notin DOMAIN P /\ DOMAIN Q = DOMAIN P \cup {x}
  /\ Q[x] = row /\ \A i \in DOMAIN P : Q[i] = P[i]

(* The totals of a part are naturals, *)
LEMMA TotalsNat ==
  ASSUME NEW P, IsPart(P)
  PROVE  /\ TotalOf(P, "cache_creation_input_tokens") \in Nat
         /\ TotalOf(P, "cache_read_input_tokens") \in Nat
         /\ TotalOf(P, "completion_tokens") \in Nat
         /\ TotalOf(P, "prompt_tokens") \in Nat
         /\ SumFunction([i \in DOMAIN P |-> Uncached(P[i])]) \in Nat
  <1>1. \A i \in DOMAIN P : /\ Count(P[i], "cache_creation_input_tokens") \in Nat
                            /\ Count(P[i], "cache_read_input_tokens") \in Nat
                            /\ Count(P[i], "completion_tokens") \in Nat
                            /\ Count(P[i], "prompt_tokens") \in Nat
                            /\ Uncached(P[i]) \in Nat
    BY RowCounts DEF IsPart
  <1>2. ASSUME NEW f, DOMAIN f = DOMAIN P, \A i \in DOMAIN P : f[i] \in Nat
        PROVE  SumFunction(f) \in Nat
    BY <1>2, FunctionNat DEF IsPart
  <1>3. ASSUME NEW key, \A i \in DOMAIN P : Count(P[i], key) \in Nat
        PROVE  TotalOf(P, key) \in Nat
    <2> DEFINE f == [i \in DOMAIN P |-> Count(P[i], key)]
    <2>1. DOMAIN f = DOMAIN P /\ \A i \in DOMAIN P : f[i] \in Nat
      BY <1>3
    <2> HIDE DEF f
    <2>2. SumFunction(f) \in Nat
      BY <1>2, <2>1
    <2> QED
      BY <2>2 DEF TotalOf, f
  <1>4. SumFunction([i \in DOMAIN P |-> Uncached(P[i])]) \in Nat
    <2> DEFINE f == [i \in DOMAIN P |-> Uncached(P[i])]
    <2>1. DOMAIN f = DOMAIN P /\ \A i \in DOMAIN P : f[i] \in Nat
      BY <1>1
    <2> HIDE DEF f
    <2>2. SumFunction(f) \in Nat
      BY <1>2, <2>1
    <2> QED
      BY <2>2 DEF f
  <1> QED
    BY <1>1, <1>3, <1>4

(* and a row adds its counts to them, *)
LEMMA TotalsAdd ==
  ASSUME NEW P, IsPart(P), NEW x, NEW row, IsRow(row), NEW Q, Extends(Q, P, x, row)
  PROVE  \A key \in {"cache_creation_input_tokens", "cache_read_input_tokens",
                     "completion_tokens", "prompt_tokens"} :
           TotalOf(Q, key) = TotalOf(P, key) + Count(row, key)
  <1>1. ASSUME NEW key \in {"cache_creation_input_tokens", "cache_read_input_tokens",
                            "completion_tokens", "prompt_tokens"}
        PROVE  TotalOf(Q, key) = TotalOf(P, key) + Count(row, key)
    <2> DEFINE f == [i \in DOMAIN P |-> Count(P[i], key)]
               g == [i \in DOMAIN Q |-> Count(Q[i], key)]
    <2>1. DOMAIN f = DOMAIN P /\ DOMAIN g = DOMAIN f \cup {x} /\ x \notin DOMAIN f
      BY DEF Extends
    <2>2. ASSUME NEW i \in DOMAIN P PROVE f[i] = g[i] /\ f[i] \in Nat
      <3>1. IsRow(P[i]) /\ Q[i] = P[i] /\ i \in DOMAIN Q
        BY DEF IsPart, Extends
      <3> QED
        BY <3>1, RowCounts
    <2>3. g[x] = Count(row, key) /\ g[x] \in Nat
      <3>1. x \in DOMAIN Q /\ Q[x] = row
        BY DEF Extends
      <3> QED
        BY <3>1, RowCounts
    <2>4. IsFiniteSet(DOMAIN f)
      BY DEF IsPart
    <2>5. TotalOf(Q, key) = SumFunction(g) /\ TotalOf(P, key) = SumFunction(f)
      BY DEF TotalOf
    <2>6. \A i \in DOMAIN f : f[i] = g[i] /\ f[i] \in Nat
      BY <2>1, <2>2
    <2> HIDE DEF f, g
    <2> QED
      BY <2>1, <2>3, <2>4, <2>5, <2>6, FunctionAdded
  <1> QED
    BY <1>1

(* the count it does not report too. *)
LEMMA UncachedAdds ==
  ASSUME NEW P, IsPart(P), NEW x, NEW row, IsRow(row), NEW Q, Extends(Q, P, x, row)
  PROVE  SumFunction([i \in DOMAIN Q |-> Uncached(Q[i])])
           = SumFunction([i \in DOMAIN P |-> Uncached(P[i])]) + Uncached(row)
  <1> DEFINE f == [i \in DOMAIN P |-> Uncached(P[i])]
             g == [i \in DOMAIN Q |-> Uncached(Q[i])]
  <1>1. DOMAIN f = DOMAIN P /\ DOMAIN g = DOMAIN f \cup {x} /\ x \notin DOMAIN f
    BY DEF Extends
  <1>2. ASSUME NEW i \in DOMAIN P PROVE f[i] = g[i] /\ f[i] \in Nat
    <2>1. IsRow(P[i]) /\ Q[i] = P[i] /\ i \in DOMAIN Q
      BY DEF IsPart, Extends
    <2> QED
      BY <2>1, RowCounts
  <1>3. g[x] = Uncached(row) /\ g[x] \in Nat
    <2>1. x \in DOMAIN Q /\ Q[x] = row
      BY DEF Extends
    <2> QED
      BY <2>1, RowCounts
  <1>4. IsFiniteSet(DOMAIN f)
    BY DEF IsPart
  <1>5. \A i \in DOMAIN f : f[i] = g[i] /\ f[i] \in Nat
    BY <1>1, <1>2
  <1> HIDE DEF f, g
  <1>6. SumFunction(g) = SumFunction(f) + g[x]
    BY <1>1, <1>3, <1>4, <1>5, FunctionAdded
  <1> QED
    BY <1>3, <1>6 DEF f, g

(* The price of a part is a breakdown of naturals, *)
LEMMA RealCostNat ==
  ASSUME NEW P, IsPart(P), NEW rates \in Rates
  PROVE  RealCacheCost(P, rates) \in [Buckets -> Nat]
  <1> DEFINE w == TotalOf(P, "cache_creation_input_tokens")
             r == TotalOf(P, "cache_read_input_tokens")
             o == TotalOf(P, "completion_tokens")
             l == TotalOf(P, "prompt_tokens")
             u == SumFunction([i \in DOMAIN P |-> Uncached(P[i])])
  <1>1. w \in Nat /\ r \in Nat /\ o \in Nat /\ l \in Nat /\ u \in Nat
    BY TotalsNat
  <1>2. RealCacheCost(P, rates) = Breakdown(w, r, u, o, l, rates)
    BY DEF RealCacheCost
  <1> HIDE DEF w, r, o, l, u
  <1>3. Breakdown(w, r, u, o, l, rates) \in [Buckets -> Nat]
    BY <1>1, BreakdownNat
  <1> QED
    BY <1>2, <1>3

(* so is the price of a row, *)
LEMMA RowCostNat ==
  ASSUME NEW row, IsRow(row), NEW rates \in Rates
  PROVE  RowCost(row, rates) \in [Buckets -> Nat]
  BY RowCounts, BreakdownNat DEF RowCost

(* and a row adds its price to the part's, bucket by bucket. *)
LEMMA RealCostAdds ==
  ASSUME NEW P, IsPart(P), NEW x, NEW row, IsRow(row), NEW Q, Extends(Q, P, x, row),
         NEW rates \in Rates, NEW b \in Buckets
  PROVE  RealCacheCost(Q, rates)[b] = RealCacheCost(P, rates)[b] + RowCost(row, rates)[b]
  <1> DEFINE w == TotalOf(P, "cache_creation_input_tokens")
             r == TotalOf(P, "cache_read_input_tokens")
             o == TotalOf(P, "completion_tokens")
             l == TotalOf(P, "prompt_tokens")
             u == SumFunction([i \in DOMAIN P |-> Uncached(P[i])])
             cw == Count(row, "cache_creation_input_tokens")
             cr == Count(row, "cache_read_input_tokens")
             co == Count(row, "completion_tokens")
             cp == Count(row, "prompt_tokens")
             cu == Uncached(row)
  <1>1. w \in Nat /\ r \in Nat /\ o \in Nat /\ l \in Nat /\ u \in Nat
    BY TotalsNat
  <1>2. cw \in Nat /\ cr \in Nat /\ co \in Nat /\ cp \in Nat /\ cu \in Nat
    BY RowCounts
  <1>3. /\ TotalOf(Q, "cache_creation_input_tokens") = w + cw
        /\ TotalOf(Q, "cache_read_input_tokens") = r + cr
        /\ TotalOf(Q, "completion_tokens") = o + co
        /\ TotalOf(Q, "prompt_tokens") = l + cp
        /\ SumFunction([i \in DOMAIN Q |-> Uncached(Q[i])]) = u + cu
    BY TotalsAdd, UncachedAdds
  <1>4. /\ RealCacheCost(Q, rates) = Breakdown(w + cw, r + cr, u + cu, o + co, l + cp, rates)
        /\ RealCacheCost(P, rates) = Breakdown(w, r, u, o, l, rates)
        /\ RowCost(row, rates) = Breakdown(cw, cr, cu, co, cp, rates)
    BY <1>3 DEF RealCacheCost, RowCost
  <1> HIDE DEF w, r, o, l, u, cw, cr, co, cp, cu
  <1>5. Breakdown(w + cw, r + cr, u + cu, o + co, l + cp, rates)[b]
          = Breakdown(w, r, u, o, l, rates)[b] + Breakdown(cw, cr, cu, co, cp, rates)[b]
    <2>1. /\ (w + cw) * rates.cache_write = w * rates.cache_write + cw * rates.cache_write
          /\ (r + cr) * rates.cache_read = r * rates.cache_read + cr * rates.cache_read
          /\ (u + cu) * rates.input = u * rates.input + cu * rates.input
          /\ (o + co) * rates.output = o * rates.output + co * rates.output
          /\ (l + cp) * rates.input = l * rates.input + cp * rates.input
      BY <1>1, <1>2, Distribute DEF Rates
    <2>2. /\ w * rates.cache_write \in Nat /\ cw * rates.cache_write \in Nat
          /\ r * rates.cache_read \in Nat /\ cr * rates.cache_read \in Nat
          /\ u * rates.input \in Nat /\ cu * rates.input \in Nat
          /\ o * rates.output \in Nat /\ co * rates.output \in Nat
          /\ l * rates.input \in Nat /\ cp * rates.input \in Nat
      BY <1>1, <1>2, Distribute DEF Rates
    <2> QED
      BY <1>1, <1>2, <2>1, <2>2 DEF Breakdown, Buckets
  <1> QED
    BY <1>4, <1>5

(* The longest key that matches has rates in the table. *)
LEMMA RatesKnown ==
  ASSUME NEW m \in DOMAIN KeysIn
  PROVE  RatesFor(m) \in Rates
  <1> USE PricingAssumption
  <1>1. CASE KeysIn[m] = {}
    BY <1>1 DEF RatesFor
  <1>2. CASE KeysIn[m] # {}
    <2> DEFINE S == KeysIn[m]
               k == CHOOSE k \in S : \A j \in S : KeyLength[j] <= KeyLength[k]
    <2>1. IsFiniteSet(S) /\ S # {} /\ S \subseteq DOMAIN PriceTable
      BY <1>2
    <2>2. \A j \in S : KeyLength[j] \in Int
      BY <2>1
    <2> HIDE DEF S
    <2>3. \E i \in S : \A j \in S : KeyLength[j] <= KeyLength[i]
      BY <2>1, <2>2, Greatest
    <2>4. k \in S
      BY <2>3
    <2>5. RatesFor(m) = PriceTable[k]
      BY <1>2 DEF RatesFor, S
    <2> HIDE DEF k
    <2> QED
      BY <2>1, <2>4, <2>5
  <1> QED
    BY <1>1, <1>2

(***************************************************************************)
(* The bill grows by a row: the whole price of the rows, model by model.   *)
(***************************************************************************)
GroupRates(who, rates) == IF who = {} THEN rates ELSE RatesFor(CHOOSE m \in who : TRUE)

RealPrice(run, rates) ==
  [b \in Buckets |-> SumFunction([who \in Groups(run) |-> GroupCost(run, who, rates)[b]])]

IsRun(run) == run \in Seq(Range(run)) /\ \A i \in DOMAIN run : IsRow(run[i])

(* A run is a finite sequence. *)
LEMMA RunDomain ==
  ASSUME NEW run, IsRun(run)
  PROVE  /\ Len(run) \in Nat /\ DOMAIN run = 1 .. Len(run) /\ IsFiniteSet(DOMAIN run)
  <1>1. Len(run) \in Nat /\ DOMAIN run = 1 .. Len(run)
    BY DEF IsRun
  <1> QED
    BY <1>1, FS_Interval

(* The models that served a run are finitely many, each with its rates. *)
LEMMA GroupsKnown ==
  ASSUME NEW run, IsRun(run), NEW rates \in Rates
  PROVE  /\ IsFiniteSet(Groups(run))
         /\ \A who \in Groups(run) : GroupRates(who, rates) \in Rates
         /\ \A i \in DOMAIN run : ServedBy(run[i]) \in Groups(run)
  <1>1. IsFiniteSet(Groups(run))
    <2> DEFINE T == {ServedBy(run[i]) : i \in DOMAIN run}
               f == [i \in DOMAIN run |-> ServedBy(run[i])]
    <2>1. f \in Surjection(DOMAIN run, T)
      BY DEF Surjection
    <2>2. IsFiniteSet(T)
      BY <2>1, RunDomain, FS_Surjection
    <2> QED
      BY <2>2, FS_AddElement DEF Groups
  <1>2. ASSUME NEW who \in Groups(run) PROVE GroupRates(who, rates) \in Rates
    <2>1. CASE who = {}
      BY <2>1 DEF GroupRates
    <2>2. CASE who # {}
      <3>1. PICK i \in DOMAIN run : who = ServedBy(run[i])
        BY <2>2 DEF Groups
      <3>2. who \subseteq DOMAIN KeysIn
        BY <3>1 DEF IsRun, IsRow
      <3>3. (CHOOSE m \in who : TRUE) \in DOMAIN KeysIn
        BY <2>2, <3>2
      <3> QED
        BY <2>2, <3>3, RatesKnown DEF GroupRates
    <2> QED
      BY <2>1, <2>2
  <1>3. \A i \in DOMAIN run : ServedBy(run[i]) \in Groups(run)
    BY DEF Groups
  <1> QED
    BY <1>1, <1>2, <1>3

(* The rows of one of them. *)
LEMMA PartOfRun ==
  ASSUME NEW run, IsRun(run), NEW who
  PROVE  IsPart(Part(run, who))
  <1>1. /\ DOMAIN Part(run, who) = {i \in DOMAIN run : ServedBy(run[i]) = who}
        /\ \A i \in DOMAIN Part(run, who) : i \in DOMAIN run /\ Part(run, who)[i] = run[i]
    BY DEF Part, Restrict
  <1>2. IsFiniteSet(DOMAIN Part(run, who))
    BY <1>1, RunDomain, FS_Subset
  <1> QED
    BY <1>1, <1>2 DEF IsPart, IsRun

(* A run that gets a row. *)
LEMMA RunAppended ==
  ASSUME NEW run, IsRun(run), NEW row, IsRow(row)
  PROVE  /\ IsRun(Append(run, row))
         /\ Extends(Append(run, row), run, Len(run) + 1, row)
  <1>1. run \in Seq(Range(run)) /\ Len(run) \in Nat /\ DOMAIN run = 1 .. Len(run)
    BY RunDomain DEF IsRun
  <1> DEFINE longer == Append(run, row)
  <1>2. /\ DOMAIN longer = 1 .. Len(run) + 1 /\ longer[Len(run) + 1] = row
        /\ \A i \in 1 .. Len(run) : longer[i] = run[i]
    <2>1. run \in Seq(Range(run) \cup {row}) /\ row \in Range(run) \cup {row}
      BY <1>1
    <2> QED
      BY <1>1, <2>1
  <1>3. longer \in Seq(Range(longer))
    BY <1>1, <1>2 DEF Range
  <1> QED
    BY <1>1, <1>2, <1>3 DEF IsRun, Extends

(* Without rows there is nothing to pay. *)
LEMMA SumNothing ==
  ASSUME NEW f, DOMAIN f = {}
  PROVE  SumFunction(f) = 0
  BY SumIs, SumEmpty

(* The same in each bucket. *)
LEMMA NoRowsNoCost ==
  ASSUME NEW P, DOMAIN P = {}, NEW rates \in Rates, NEW b \in Buckets
  PROVE  RealCacheCost(P, rates)[b] = 0
  <1>1. \A key : TotalOf(P, key) = 0
    BY SumNothing DEF TotalOf
  <1>2. SumFunction([i \in DOMAIN P |-> Uncached(P[i])]) = 0
    BY SumNothing
  <1>3. RealCacheCost(P, rates) = Breakdown(0, 0, 0, 0, 0, rates)
    BY <1>1, <1>2 DEF RealCacheCost
  <1>4. /\ 0 * rates.cache_write = 0 /\ 0 * rates.cache_read = 0
        /\ 0 * rates.input = 0 /\ 0 * rates.output = 0
    BY DEF Rates
  <1> QED
    BY <1>3, <1>4 DEF Breakdown, Buckets

(* The new row is charged to the group of its model, and a group it opens    *)
(* had cost nothing before.                                                  *)
LEMMA GroupCostAdds ==
  ASSUME NEW run, IsRun(run), NEW row, IsRow(row), NEW rates \in Rates, NEW b \in Buckets,
         NEW who \in Groups(Append(run, row))
  PROVE  /\ GroupCost(run, who, rates)[b] \in Nat
         /\ GroupCost(Append(run, row), who, rates)[b] =
              IF who = ServedBy(row)
                THEN GroupCost(run, who, rates)[b] + RowCost(row, GroupRates(who, rates))[b]
                ELSE GroupCost(run, who, rates)[b]
         /\ who \notin Groups(run) => GroupCost(run, who, rates)[b] = 0
  <1> DEFINE longer == Append(run, row)
             P == Part(run, who)
             Q == Part(longer, who)
             at == GroupRates(who, rates)
             n == Len(run) + 1
  <1>1. IsRun(longer) /\ Extends(longer, run, n, row)
    BY RunAppended
  <1>2. at \in Rates
    BY <1>1, GroupsKnown
  <1>3. IsPart(P) /\ IsPart(Q)
    BY <1>1, PartOfRun
  <1>4. /\ GroupCost(run, who, rates) = RealCacheCost(P, at)
        /\ GroupCost(longer, who, rates) = RealCacheCost(Q, at)
    BY DEF GroupCost, GroupRates
  <1>5. /\ P = [i \in {j \in DOMAIN run : ServedBy(run[j]) = who} |-> run[i]]
        /\ Q = [i \in {j \in DOMAIN longer : ServedBy(longer[j]) = who} |-> longer[i]]
    BY DEF Part, Restrict
  <1>6. who \in Groups(longer)
    OBVIOUS
  <1> HIDE DEF longer, P, Q, at, n
  <1>7. RealCacheCost(P, at)[b] \in Nat
    BY <1>2, <1>3, RealCostNat
  <1>8. CASE who = ServedBy(row)
    <2>1. Extends(Q, P, n, row)
      BY <1>1, <1>5, <1>8 DEF Extends
    <2>2. RealCacheCost(Q, at)[b] = RealCacheCost(P, at)[b] + RowCost(row, at)[b]
      BY <1>2, <1>3, <2>1, RealCostAdds
    <2>3. who \notin Groups(run) => DOMAIN P = {}
      BY <1>5 DEF Groups
    <2>4. who \notin Groups(run) => RealCacheCost(P, at)[b] = 0
      BY <1>2, <2>3, NoRowsNoCost
    <2>5. GroupCost(longer, who, rates)[b] = GroupCost(run, who, rates)[b] + RowCost(row, at)[b]
      BY <1>4, <2>2
    <2> QED
      BY <1>4, <1>7, <1>8, <2>4, <2>5 DEF at, longer
  <1>9. CASE who # ServedBy(row)
    <2>1. {j \in DOMAIN run : ServedBy(run[j]) = who}
            = {j \in DOMAIN longer : ServedBy(longer[j]) = who}
      BY <1>1, <1>9 DEF Extends
    <2>2. \A j \in DOMAIN run : run[j] = longer[j]
      BY <1>1 DEF Extends
    <2>3. Q = P
      BY <1>5, <2>1, <2>2
    <2>4. who \in Groups(run)
      BY <1>1, <1>9, <1>6 DEF Groups, Extends
    <2> QED
      BY <1>4, <1>7, <1>9, <2>3, <2>4 DEF longer
  <1> QED
    BY <1>8, <1>9

(* So the price of a run is the sum of what its rows cost at the rates of    *)
(* their models.                                                             *)
LEMMA RealPriceAdds ==
  ASSUME NEW run, IsRun(run), NEW row, IsRow(row), NEW rates \in Rates, NEW b \in Buckets
  PROVE  /\ RealPrice(run, rates)[b] \in Nat
         /\ RowCost(row, GroupRates(ServedBy(row), rates))[b] \in Nat
         /\ RealPrice(Append(run, row), rates)[b]
              = RealPrice(run, rates)[b] + RowCost(row, GroupRates(ServedBy(row), rates))[b]
  <1> DEFINE longer == Append(run, row)
             W == ServedBy(row)
             f == [who \in Groups(run) |-> GroupCost(run, who, rates)[b]]
             g == [who \in Groups(longer) |-> GroupCost(longer, who, rates)[b]]
             d == RowCost(row, GroupRates(W, rates))[b]
  <1>1. IsRun(longer) /\ Extends(longer, run, Len(run) + 1, row)
    BY RunAppended
  <1>2. Groups(longer) = Groups(run) \cup {W} /\ W \in Groups(longer)
    BY <1>1 DEF Groups, Extends
  <1>3. d \in Nat
    BY <1>1, <1>2, GroupsKnown, RowCostNat
  <1>4. RealPrice(run, rates)[b] = SumFunction(f) /\ RealPrice(longer, rates)[b] = SumFunction(g)
    BY DEF RealPrice
  <1>5. \A who \in Groups(longer) :
          /\ GroupCost(run, who, rates)[b] \in Nat
          /\ GroupCost(longer, who, rates)[b] =
               IF who = W THEN GroupCost(run, who, rates)[b] + d ELSE GroupCost(run, who, rates)[b]
          /\ who \notin Groups(run) => GroupCost(run, who, rates)[b] = 0
    <2>1. SUFFICES ASSUME NEW who \in Groups(longer)
                   PROVE  /\ GroupCost(run, who, rates)[b] \in Nat
                          /\ GroupCost(longer, who, rates)[b] =
                               IF who = W THEN GroupCost(run, who, rates)[b] + d
                                          ELSE GroupCost(run, who, rates)[b]
                          /\ who \notin Groups(run) => GroupCost(run, who, rates)[b] = 0
      OBVIOUS
    <2> DEFINE c == RowCost(row, GroupRates(who, rates))[b]
    <2>2. /\ GroupCost(run, who, rates)[b] \in Nat
          /\ GroupCost(longer, who, rates)[b] =
               IF who = ServedBy(row) THEN GroupCost(run, who, rates)[b] + c
                                      ELSE GroupCost(run, who, rates)[b]
          /\ who \notin Groups(run) => GroupCost(run, who, rates)[b] = 0
      BY GroupCostAdds
    <2>3. who = W => c = d
      OBVIOUS
    <2> HIDE DEF c, d, longer
    <2> QED
      BY <2>2, <2>3
  <1>6. IsFiniteSet(Groups(run))
    BY GroupsKnown
  <1>7. /\ DOMAIN f = Groups(run) /\ DOMAIN g = Groups(run) \cup {W}
        /\ \A who \in Groups(run) : f[who] \in Nat
        /\ \A who \in Groups(run) \ {W} : g[who] = f[who]
        /\ W \in Groups(run) => g[W] = f[W] + d
        /\ W \notin Groups(run) => g[W] = d
    BY <1>2, <1>3, <1>5
  <1> HIDE DEF longer, W, f, g, d
  <1>8. SumFunction(f) \in Nat
    BY <1>6, <1>7, FunctionNat
  <1>9. CASE W \in Groups(run)
    <2>1. DOMAIN g = Groups(run)
      BY <1>7, <1>9
    <2>2. SumOn(g, Groups(run)) = SumOn(f, Groups(run)) + d
      BY <1>3, <1>6, <1>7, <1>9, SumRaised
    <2>3. SumFunction(g) = SumOn(g, Groups(run)) /\ SumFunction(f) = SumOn(f, Groups(run))
      BY <1>7, <2>1, SumIs
    <2> QED
      BY <1>3, <1>4, <1>8, <2>2, <2>3 DEF longer, W, d
  <1>10. CASE W \notin Groups(run)
    <2>1. \A who \in DOMAIN f : f[who] = g[who] /\ f[who] \in Nat
      BY <1>7, <1>10
    <2>2. SumFunction(g) = SumFunction(f) + g[W]
      BY <1>3, <1>6, <1>7, <1>10, <2>1, FunctionAdded
    <2> QED
      BY <1>3, <1>4, <1>7, <1>8, <1>10, <2>2 DEF longer, W, d
  <1> QED
    BY <1>9, <1>10

-------------------------------------------------------------------------------
(*****************************************************************************)
(* The tally of a try.                                                       *)
(*****************************************************************************)

(* What the provider's own count of a try may be. *)
Sums == [usd : Nat, input : Nat, output : Nat]

(* The rows of a run say what the provider counted: the tokens, the money    *)
(* and the split of the input.  Every reply keeps it.                        *)
Tallied(run, sum) ==
  LET price == RealPrice(run, RatesFor(RunModel))
  IN /\ IsRun(run) /\ sum \in Sums
     /\ TotalOf(run, "prompt_tokens") = sum.input
     /\ TotalOf(run, "completion_tokens") = sum.output
     /\ price \in [Buckets -> Nat]
     /\ TotalUsd(price) = sum.usd
     /\ price.cache_write_tok + price.cache_read_tok + price.uncached_input_tok = sum.input

(* The price of a run is a breakdown of naturals. *)
LEMMA RealPriceNat ==
  ASSUME NEW run, IsRun(run), NEW rates \in Rates
  PROVE  RealPrice(run, rates) \in [Buckets -> Nat]
  <1>1. ASSUME NEW b \in Buckets
        PROVE  SumFunction([who \in Groups(run) |-> GroupCost(run, who, rates)[b]]) \in Nat
    <2> DEFINE f == [who \in Groups(run) |-> GroupCost(run, who, rates)[b]]
    <2>1. ASSUME NEW who \in Groups(run) PROVE GroupCost(run, who, rates)[b] \in Nat
      <3>1. GroupCost(run, who, rates) = RealCacheCost(Part(run, who), GroupRates(who, rates))
        BY DEF GroupCost, GroupRates
      <3>2. GroupRates(who, rates) \in Rates /\ IsPart(Part(run, who))
        BY GroupsKnown, PartOfRun
      <3> QED
        BY <3>1, <3>2, RealCostNat
    <2>2. IsFiniteSet(DOMAIN f) /\ \A who \in DOMAIN f : f[who] \in Nat
      BY <2>1, GroupsKnown
    <2> HIDE DEF f
    <2>3. SumFunction(f) \in Nat
      BY <2>2, FunctionNat
    <2> QED
      BY <2>3 DEF f
  <1> QED
    BY <1>1 DEF RealPrice

(* A sum over one. *)
LEMMA SumOne ==
  ASSUME NEW f, NEW x, f[x] \in Nat
  PROVE  SumOn(f, {x}) = f[x]
  <1>1. IsFiniteSet({x}) /\ {x} \ {x} = {}
    BY FS_Singleton
  <1>2. SumOn(f, {x}) = f[x] + SumOn(f, {x} \ {x})
    BY <1>1, SumSplit
  <1> QED
    BY <1>1, <1>2, SumEmpty

(* A try that begins. *)
LEMMA NothingTallied == Tallied(<<>>, Nothing)
  <1> DEFINE run == <<>>
             rates == RatesFor(RunModel)
  <1>1. IsRun(run) /\ DOMAIN run = {}
    BY DEF IsRun
  <1>2. rates \in Rates
    BY BillingAssumption, RatesKnown
  <1>3. RealPrice(run, rates) \in [Buckets -> Nat]
    BY <1>1, <1>2, RealPriceNat
  <1>4. \A key : TotalOf(run, key) = 0
    BY <1>1, SumNothing DEF TotalOf
  <1>5. ASSUME NEW b \in Buckets PROVE RealPrice(run, rates)[b] = 0
    <2> DEFINE f == [who \in Groups(run) |-> GroupCost(run, who, rates)[b]]
    <2>1. Groups(run) = {{}}
      BY <1>1 DEF Groups
    <2>2. DOMAIN Part(run, {}) = {}
      BY <1>1 DEF Part, Restrict
    <2>3. GroupCost(run, {}, rates) = RealCacheCost(Part(run, {}), rates)
      BY DEF GroupCost
    <2>4. f[{}] = 0 /\ DOMAIN f = {{}}
      BY <1>2, <2>1, <2>2, <2>3, NoRowsNoCost
    <2> HIDE DEF f
    <2>5. f[{}] \in Nat
      BY <2>4
    <2>a. SumOn(f, {{}}) = f[{}]
      BY <2>5, SumOne
    <2>6. SumFunction(f) = 0
      BY <2>4, <2>a, SumIs
    <2> QED
      BY <2>6 DEF f, RealPrice
  <1> HIDE DEF run, rates
  <1>6. LET p == RealPrice(run, rates)
        IN /\ p.cache_write_tok = 0 /\ p.cache_read_tok = 0 /\ p.uncached_input_tok = 0
           /\ TotalUsd(p) = 0
    BY <1>5 DEF Buckets, TotalUsd
  <1> QED
    BY <1>1, <1>3, <1>4, <1>6 DEF Tallied, Nothing, Sums, run, rates

(* The row of a reply costs what the provider charges for it. *)
LEMMA RowCostParts ==
  ASSUME NEW row, IsRow(row), NEW rates \in Rates
  PROVE  LET c == RowCost(row, rates)
         IN /\ TotalUsd(c) = Count(row, "cache_creation_input_tokens") * rates.cache_write
                             + Count(row, "cache_read_input_tokens") * rates.cache_read
                             + Uncached(row) * rates.input + row.completion_tokens * rates.output
            /\ c.cache_write_tok + c.cache_read_tok + c.uncached_input_tok = row.prompt_tokens
  <1>1. RowCost(row, rates) = Breakdown(Count(row, "cache_creation_input_tokens"),
            Count(row, "cache_read_input_tokens"), Uncached(row), row.completion_tokens,
            row.prompt_tokens, rates)
    BY RowCounts DEF RowCost
  <1> QED
    BY <1>1, RowCounts DEF Breakdown, TotalUsd

(* A row as extract_usage builds it. *)
Row(key, prompt, output, u) ==
  CASE key = "prompt_tokens"     -> prompt
    [] key = "completion_tokens" -> output
    [] OTHER                     -> u[key]

(* A reply leaves no row if the provider counted nothing, else one that says *)
(* what it counted, priced at the rates of the model that served it.         *)
LEMMA RowsOfReply ==
  ASSUME NEW reply \in Replies
  PROVE  LET N(key) == Count(reply.usage, key)
             rates == RatesFor(reply.served)
         IN \/ /\ RowsOf(reply.events) = <<>>
               /\ \A key \in UsageFields : N(key) = 0
            \/ \E row : /\ RowsOf(reply.events) = <<row>>
                        /\ IsRow(row)
                        /\ \A key \in CacheFields : Count(row, key) = N(key)
                        /\ Uncached(row) = N("input_tokens")
                        /\ row.completion_tokens = N("output_tokens")
                        /\ row.prompt_tokens = N("input_tokens") + N("cache_creation_input_tokens")
                                               + N("cache_read_input_tokens")
                        /\ GroupRates(ServedBy(row), RatesFor(RunModel)) = rates
  <1> DEFINE N(key) == Count(reply.usage, key)
             rates == RatesFor(reply.served)
             sent == UsageFromSse(reply.events)
             named == ModelsNamed(reply.events)
             u == sent[1]
  <1>1. /\ \A key \in UsageFields : N(key) \in Nat /\ N(key) = IF sent = <<>> THEN 0 ELSE Count(u, key)
        /\ reply.served \in DOMAIN KeysIn
        /\ reply.served = IF named = <<>> THEN RunModel ELSE named[1].model
    BY BillingAssumption
  <1>2. CASE sent = <<>>
    BY <1>1, <1>2 DEF RowsOf
  <1>3. CASE sent # <<>>
    <2>1. \A key \in UsageFields : Count(u, key) \in Nat /\ N(key) = Count(u, key)
      BY <1>1, <1>3
    <2> DEFINE reported == DOMAIN u \cap CacheFields
               write    == Count(u, "cache_creation_input_tokens")
               read     == Count(u, "cache_read_input_tokens")
               prompt   == Count(u, "input_tokens") + write + read
               output   == Count(u, "output_tokens")
               row      == [key \in {"prompt_tokens", "completion_tokens"} \cup reported |->
                              Row(key, prompt, output, u)]
    <2>2. write \in Nat /\ read \in Nat /\ output \in Nat /\ Count(u, "input_tokens") \in Nat
      BY <2>1 DEF UsageFields, CacheFields
    <2>3. ExtractUsage(u) = IF reported = {} /\ prompt = 0 /\ output = 0 THEN <<>> ELSE <<row>>
      BY DEF ExtractUsage, Row
    <2>4. RowsOf(reply.events) = [i \in DOMAIN ExtractUsage(u) |-> StampModel(ExtractUsage(u)[i], reply.events)]
      BY <1>3 DEF RowsOf
    <2>5. CASE reported = {} /\ prompt = 0 /\ output = 0
      <3>1. RowsOf(reply.events) = <<>>
        BY <2>3, <2>4, <2>5
      <3>2. write = 0 /\ read = 0 /\ Count(u, "input_tokens") = 0
        BY <2>2, <2>5
      <3>3. \A key \in UsageFields : N(key) = 0
        BY <2>1, <2>5, <3>2 DEF UsageFields, CacheFields
      <3> QED
        BY <3>1, <3>3
    <2>6. CASE ~(reported = {} /\ prompt = 0 /\ output = 0)
      <3> DEFINE stamped == StampModel(row, reply.events)
      <3>1. RowsOf(reply.events) = <<stamped>>
        <4>1. ExtractUsage(u) = <<row>>
          BY <2>3, <2>6
        <4> HIDE DEF row
        <4>2. DOMAIN <<row>> = 1 .. 1 /\ <<row>>[1] = row
          OBVIOUS
        <4>3. [i \in 1 .. 1 |-> stamped] = <<stamped>>
          OBVIOUS
        <4>4. RowsOf(reply.events) = [i \in 1 .. 1 |-> stamped]
          BY <2>4, <4>1, <4>2
        <4> QED
          BY <4>3, <4>4
      <3>2. /\ DOMAIN row = {"prompt_tokens", "completion_tokens"} \cup reported
            /\ row.prompt_tokens = prompt /\ row.completion_tokens = output
            /\ \A key \in reported : row[key] = u[key]
        <4> HIDE DEF prompt, output, u, reported
        <4>1. \A key \in DOMAIN row : row[key] = Row(key, prompt, output, u)
          OBVIOUS
        <4>2. /\ Row("prompt_tokens", prompt, output, u) = prompt
              /\ Row("completion_tokens", prompt, output, u) = output
              /\ \A key \in CacheFields : Row(key, prompt, output, u) = u[key]
          BY DEF Row, CacheFields
        <4> QED
          BY <4>1, <4>2 DEF reported
      <3>3. \A key \in CacheFields : Count(row, key) = Count(u, key)
        BY <3>2 DEF Count, CacheFields
      <3> HIDE DEF row
      <3>4. /\ stamped.prompt_tokens = prompt /\ stamped.completion_tokens = output
            /\ \A key \in CacheFields : Count(stamped, key) = Count(u, key)
            /\ {"prompt_tokens", "completion_tokens"} \subseteq DOMAIN stamped
        <4>1. CASE named = <<>>
          BY <3>2, <3>3, <4>1 DEF StampModel
        <4>2. CASE named # <<>>
          <5>1. stamped = [key \in {"model"} \cup DOMAIN row |->
                             IF key = "model" THEN named[1].model ELSE row[key]]
            BY <4>2 DEF StampModel
          <5>2. \A key \in CacheFields : key # "model"
            BY DEF CacheFields
          <5> QED
            BY <3>2, <3>3, <5>1, <5>2 DEF Count
        <4> QED
          BY <4>1, <4>2
      <3>5. ServedBy(stamped) = IF named = <<>> THEN {} ELSE {named[1].model}
        BY <3>2 DEF ServedBy, StampModel, CacheFields
      <3> HIDE DEF stamped
      <3>6. IsRow(stamped) /\ Uncached(stamped) = Count(u, "input_tokens")
        <4>1. /\ Count(stamped, "cache_creation_input_tokens") = write
              /\ Count(stamped, "cache_read_input_tokens") = read
          BY <3>4 DEF CacheFields
        <4>2. ServedBy(stamped) \subseteq DOMAIN KeysIn
          BY <1>1, <3>5
        <4> HIDE DEF write, read, prompt, output, reported
        <4>3. prompt = Count(u, "input_tokens") + write + read
          BY DEF prompt
        <4>4. \A key \in CacheFields : Count(stamped, key) \in Nat
          BY <3>4, <2>1 DEF UsageFields
        <4> QED
          BY <2>2, <3>4, <4>1, <4>2, <4>3, <4>4 DEF IsRow, Uncached
      <3>7. GroupRates(ServedBy(stamped), RatesFor(RunModel)) = rates
        <4>1. CASE named = <<>>
          BY <1>1, <3>5, <4>1 DEF GroupRates
        <4>2. CASE named # <<>>
          <5>1. (CHOOSE m \in {named[1].model} : TRUE) = named[1].model
            OBVIOUS
          <5> QED
            BY <1>1, <3>5, <4>2, <5>1 DEF GroupRates
        <4> QED
          BY <4>1, <4>2
      <3> QED
        BY <2>1, <3>1, <3>4, <3>6, <3>7 DEF UsageFields, CacheFields
    <2> QED
      BY <2>5, <2>6
  <1> QED
    BY <1>2, <1>3

(* A row adds its tokens to the run's. *)
LEMMA TokensAdd ==
  ASSUME NEW run, IsRun(run), NEW row, IsRow(row)
  PROVE  /\ TotalOf(Append(run, row), "prompt_tokens")
              = TotalOf(run, "prompt_tokens") + row.prompt_tokens
         /\ TotalOf(Append(run, row), "completion_tokens")
              = TotalOf(run, "completion_tokens") + row.completion_tokens
  <1> DEFINE longer == Append(run, row)
             n == Len(run) + 1
  <1>1. IsPart(run) /\ Extends(longer, run, n, row)
    BY RunAppended, RunDomain DEF IsPart, IsRun
  <1> HIDE DEF longer, n
  <1>2. /\ TotalOf(longer, "prompt_tokens")
             = TotalOf(run, "prompt_tokens") + Count(row, "prompt_tokens")
        /\ TotalOf(longer, "completion_tokens")
             = TotalOf(run, "completion_tokens") + Count(row, "completion_tokens")
    BY <1>1, TotalsAdd
  <1> QED
    BY <1>2, RowCounts DEF longer

(* A reply keeps the tally. *)
LEMMA ReplyTallied ==
  ASSUME NEW reply \in Replies, NEW run, NEW sum, Tallied(run, sum)
  PROVE  Tallied(run \o RowsOf(reply.events), Charge(sum, reply))
  <1> DEFINE N(key) == Count(reply.usage, key)
             at == RatesFor(reply.served)
             rates == RatesFor(RunModel)
             next == Charge(sum, reply)
             in  == N("input_tokens")
             cw  == N("cache_creation_input_tokens")
             cr  == N("cache_read_input_tokens")
             out == N("output_tokens")
  <1>1. at \in Rates /\ rates \in Rates
    BY BillingAssumption, RatesKnown
  <1>2. in \in Nat /\ cw \in Nat /\ cr \in Nat /\ out \in Nat
    BY BillingAssumption DEF UsageFields, CacheFields
  <1>3. /\ IsRun(run) /\ sum \in Sums
        /\ TotalOf(run, "prompt_tokens") = sum.input
        /\ TotalOf(run, "completion_tokens") = sum.output
    BY DEF Tallied
  <1>4. sum.usd \in Nat /\ sum.input \in Nat /\ sum.output \in Nat
    BY <1>3 DEF Sums
  <1>5. /\ next.usd = sum.usd + (in * at.input + cw * at.cache_write + cr * at.cache_read)
                      + out * at.output
        /\ next.input = sum.input + in + cw + cr
        /\ next.output = sum.output + out
        /\ next = [usd |-> next.usd, input |-> next.input, output |-> next.output]
    BY DEF Charge
  <1>6. /\ in * at.input \in Nat /\ cw * at.cache_write \in Nat /\ cr * at.cache_read \in Nat
        /\ out * at.output \in Nat
    BY <1>1, <1>2, Distribute DEF Rates
  <1> HIDE DEF N, at, rates, next, in, cw, cr, out
  <1>7. next \in Sums
    BY <1>2, <1>4, <1>5, <1>6 DEF Sums
  <1>8. CASE /\ RowsOf(reply.events) = <<>>
             /\ in = 0 /\ cw = 0 /\ cr = 0 /\ out = 0
    <2>1. run \o RowsOf(reply.events) = run
      BY <1>3, <1>8 DEF IsRun
    <2>2. next.usd = sum.usd /\ next.input = sum.input /\ next.output = sum.output
      <3>1. 0 * at.input = 0 /\ 0 * at.cache_write = 0 /\ 0 * at.cache_read = 0 /\ 0 * at.output = 0
        BY <1>1 DEF Rates
      <3> QED
        BY <1>4, <1>5, <1>8, <3>1
    <2>3. next = sum
      BY <1>3, <1>5, <2>2 DEF Sums
    <2> QED
      BY <2>1, <2>3 DEF next
  <1>9. CASE \E row : /\ RowsOf(reply.events) = <<row>>
                      /\ IsRow(row)
                      /\ Count(row, "cache_creation_input_tokens") = cw
                      /\ Count(row, "cache_read_input_tokens") = cr
                      /\ Uncached(row) = in
                      /\ row.completion_tokens = out
                      /\ row.prompt_tokens = in + cw + cr
                      /\ GroupRates(ServedBy(row), rates) = at
    <2>1. PICK row : /\ RowsOf(reply.events) = <<row>>
                     /\ IsRow(row)
                     /\ Count(row, "cache_creation_input_tokens") = cw
                     /\ Count(row, "cache_read_input_tokens") = cr
                     /\ Uncached(row) = in
                     /\ row.completion_tokens = out
                     /\ row.prompt_tokens = in + cw + cr
                     /\ GroupRates(ServedBy(row), rates) = at
      BY <1>9
    <2> DEFINE longer == Append(run, row)
               p == RealPrice(run, rates)
               q == RealPrice(longer, rates)
               c == RowCost(row, at)
    <2>2. run \o RowsOf(reply.events) = longer
      <3>1. run \in Seq(Range(run) \cup {row}) /\ row \in Range(run) \cup {row}
        BY <1>3 DEF IsRun
      <3> QED
        BY <2>1, <3>1
    <2>3. IsRun(longer) /\ Extends(longer, run, Len(run) + 1, row)
      BY <1>3, <2>1, RunAppended
    <2>4. IsPart(run)
      BY <1>3, RunDomain DEF IsPart, IsRun
    <2>5. /\ TotalOf(longer, "prompt_tokens") = TotalOf(run, "prompt_tokens") + row.prompt_tokens
          /\ TotalOf(longer, "completion_tokens")
               = TotalOf(run, "completion_tokens") + row.completion_tokens
      BY <1>3, <2>1, TokensAdd
    <2>6. q \in [Buckets -> Nat]
      BY <1>1, <2>3, RealPriceNat
    <2>7. p \in [Buckets -> Nat] /\ TotalUsd(p) = sum.usd
          /\ p.cache_write_tok + p.cache_read_tok + p.uncached_input_tok = sum.input
      BY DEF Tallied, rates
    <2>8. c \in [Buckets -> Nat]
      BY <1>1, <2>1, RowCostNat
    <2>9. \A b \in Buckets : q[b] = p[b] + c[b]
      BY <1>1, <1>3, <2>1, RealPriceAdds
    <2>10. /\ TotalUsd(c) = cw * at.cache_write + cr * at.cache_read + in * at.input + out * at.output
           /\ c.cache_write_tok + c.cache_read_tok + c.uncached_input_tok = in + cw + cr
      BY <1>1, <2>1, RowCostParts
    <2> HIDE DEF longer, p, q, c
    <2>a. \A b \in Buckets : q[b] \in Nat /\ p[b] \in Nat /\ c[b] \in Nat
      BY <2>6, <2>7, <2>8
    <2>b. {"write_usd", "read_usd", "uncached_usd", "output_usd",
           "cache_write_tok", "cache_read_tok", "uncached_input_tok"} \subseteq Buckets
      BY DEF Buckets
    <2>11. /\ TotalUsd(q) = TotalUsd(p) + TotalUsd(c)
           /\ q.cache_write_tok + q.cache_read_tok + q.uncached_input_tok
                = p.cache_write_tok + p.cache_read_tok + p.uncached_input_tok
                  + (c.cache_write_tok + c.cache_read_tok + c.uncached_input_tok)
      BY <2>9, <2>a, <2>b DEF TotalUsd
    <2>12. TotalUsd(q) = next.usd
      BY <1>4, <1>5, <1>6, <2>7, <2>10, <2>11
    <2>13. q.cache_write_tok + q.cache_read_tok + q.uncached_input_tok = next.input
      BY <1>2, <1>4, <1>5, <2>7, <2>10, <2>11
    <2>14. /\ TotalOf(longer, "prompt_tokens") = next.input
           /\ TotalOf(longer, "completion_tokens") = next.output
      BY <1>2, <1>3, <1>4, <1>5, <2>1, <2>5
    <2> QED
      BY <1>7, <2>2, <2>3, <2>6, <2>12, <2>13, <2>14 DEF Tallied, q, rates, next
  <1> QED
    BY <1>8, <1>9, RowsOfReply DEF N, at, rates, in, cw, cr, out, UsageFields, CacheFields

-------------------------------------------------------------------------------
(*****************************************************************************)
(* What the run's record says.                                               *)
(*****************************************************************************)

(* Growing or shrinking, the written and the read part of a prompt are all   *)
(* of it.                                                                    *)
LEMMA SplitOfPrompt ==
  ASSUME NEW prev \in Nat, NEW prompt \in Nat
  PROVE  /\ Written(prev, prompt) \in Nat /\ Resent(prev, prompt) \in Nat
         /\ Written(prev, prompt) + Resent(prev, prompt) = prompt
  BY PricingAssumption DEF Written, Resent, Least

(* The inferred split is a split of the whole input. *)
LEMMA InferredCost ==
  ASSUME NEW run, IsRun(run), NEW rates \in Rates
  PROVE  LET cb == CacheFrameCost(run, rates)
         IN /\ cb \in [Buckets -> Nat] /\ cb.uncached_input_tok = 0
            /\ cb.cache_write_tok + cb.cache_read_tok = TotalOf(run, "prompt_tokens")
  <1> DEFINE Prev(i) == IF i = 1 THEN 0 ELSE run[i - 1].prompt_tokens
             split == [i \in DOMAIN run |->
                        [write |-> Written(Prev(i), run[i].prompt_tokens),
                         read  |-> Resent(Prev(i), run[i].prompt_tokens)]]
             f == [i \in DOMAIN split |-> Count(split[i], "write")]
             g == [i \in DOMAIN split |-> Count(split[i], "read")]
             h == [i \in DOMAIN run |-> Count(run[i], "prompt_tokens")]
  <1>1. Len(run) \in Nat /\ DOMAIN run = 1 .. Len(run) /\ IsFiniteSet(DOMAIN run)
    BY RunDomain
  <1>2. ASSUME NEW i \in DOMAIN run
        PROVE  Prev(i) \in Nat /\ run[i].prompt_tokens \in Nat /\ h[i] = run[i].prompt_tokens
    <2>1. run[i].prompt_tokens \in Nat /\ Count(run[i], "prompt_tokens") = run[i].prompt_tokens
      BY RowCounts DEF IsRun
    <2>2. CASE i = 1
      BY <2>1, <2>2
    <2>3. CASE i # 1
      <3>1. i - 1 \in DOMAIN run
        BY <1>1, <2>3
      <3>2. run[i - 1].prompt_tokens \in Nat
        BY <3>1, RowCounts DEF IsRun
      <3> QED
        BY <2>1, <2>3, <3>2
    <2> QED
      BY <2>2, <2>3
  <1>3. ASSUME NEW i \in DOMAIN run
        PROVE  f[i] \in Nat /\ g[i] \in Nat /\ h[i] = f[i] + g[i]
    <2> DEFINE p == run[i].prompt_tokens
               q == Prev(i)
    <2>1. p \in Nat /\ q \in Nat /\ h[i] = p
      BY <1>2
    <2>2. f[i] = Written(q, p) /\ g[i] = Resent(q, p)
      BY DEF Count
    <2> HIDE DEF p, q, f, g, h
    <2> QED
      BY <2>1, <2>2, SplitOfPrompt
  <1>4. DOMAIN f = DOMAIN run /\ DOMAIN g = DOMAIN run /\ DOMAIN h = DOMAIN run
    OBVIOUS
  <1>5. /\ TotalOf(split, "write") = SumFunction(f) /\ TotalOf(split, "read") = SumFunction(g)
        /\ TotalOf(run, "prompt_tokens") = SumFunction(h)
    BY DEF TotalOf
  <1> DEFINE w == TotalOf(split, "write")
             r == TotalOf(split, "read")
             o == TotalOf(run, "completion_tokens")
  <1>6. CacheFrameCost(run, rates) = Breakdown(w, r, 0, o, w + r, rates)
    BY DEF CacheFrameCost
  <1> HIDE DEF split, f, g, h, w, r, o
  <1>7. \A i \in DOMAIN run : f[i] \in Nat /\ g[i] \in Nat /\ h[i] = f[i] + g[i]
    BY <1>3
  <1>8. SumOn(h, DOMAIN run) = SumOn(f, DOMAIN run) + SumOn(g, DOMAIN run)
    BY <1>1, <1>7, SumPlus
  <1>9. SumFunction(f) = SumOn(f, DOMAIN run) /\ SumFunction(g) = SumOn(g, DOMAIN run)
        /\ SumFunction(h) = SumOn(h, DOMAIN run)
    BY <1>4, SumIs
  <1>10. w + r = TotalOf(run, "prompt_tokens")
    BY <1>5, <1>8, <1>9 DEF w, r
  <1>11. w \in Nat /\ r \in Nat
    BY <1>1, <1>4, <1>5, <1>7, FunctionNat DEF w, r
  <1>12. o \in Nat
    <2>1. IsPart(run)
      BY <1>1 DEF IsPart, IsRun
    <2> QED
      BY <2>1, TotalsNat DEF o
  <1>13. Breakdown(w, r, 0, o, w + r, rates) \in [Buckets -> Nat]
    <2> DEFINE l == w + r
               u == 0
    <2>1. u \in Nat /\ l \in Nat
      BY <1>11
    <2> HIDE DEF l, u
    <2>2. Breakdown(w, r, u, o, l, rates) \in [Buckets -> Nat]
      BY <1>11, <1>12, <2>1, BreakdownNat
    <2> QED
      BY <2>2 DEF l, u
  <1>14. LET cb == Breakdown(w, r, 0, o, w + r, rates)
         IN cb.cache_write_tok = w /\ cb.cache_read_tok = r /\ cb.uncached_input_tok = 0
    BY DEF Breakdown
  <1> QED
    BY <1>6, <1>10, <1>13, <1>14

(* Either way the price is a breakdown of naturals, *)
LEMMA PriceNat ==
  ASSUME NEW run, IsRun(run), NEW rates \in Rates
  PROVE  PriceRun(run, rates) \in [Buckets -> Nat]
  BY InferredCost, RealPriceNat DEF PriceRun, RealPrice

(* its total is one, *)
LEMMA TotalUsdNat ==
  ASSUME NEW cb \in [Buckets -> Nat]
  PROVE  TotalUsd(cb) \in Nat
  BY DEF TotalUsd, Buckets

(* and rounded it stays one. *)
LEMMA RoundUsdNat ==
  ASSUME NEW usd \in Nat
  PROVE  RoundUsd(usd) \in Nat
  BY DEF RoundUsd

(* What the run's record says of its tokens and its price. *)
LEMMA PricedRun ==
  ASSUME NEW run, NEW sum, Tallied(run, sum)
  PROVE  LET cb == PriceRun(run, RatesFor(RunModel))
         IN /\ cb \in [Buckets -> Nat]
            /\ cb.cache_write_tok + cb.cache_read_tok + cb.uncached_input_tok = sum.input
            /\ HasRealCacheFields(run) => TotalUsd(cb) = sum.usd
  <1>1. RatesFor(RunModel) \in Rates
    BY BillingAssumption, RatesKnown
  <1>2. IsRun(run) /\ TotalOf(run, "prompt_tokens") = sum.input
    BY DEF Tallied
  <1>3. CASE HasRealCacheFields(run)
    <2>1. PriceRun(run, RatesFor(RunModel)) = RealPrice(run, RatesFor(RunModel))
      BY <1>3 DEF PriceRun, RealPrice
    <2> QED
      BY <2>1 DEF Tallied
  <1>4. CASE ~HasRealCacheFields(run)
    <2> DEFINE cb == CacheFrameCost(run, RatesFor(RunModel))
    <2>1. PriceRun(run, RatesFor(RunModel)) = cb
      BY <1>4 DEF PriceRun
    <2>2. /\ cb \in [Buckets -> Nat] /\ cb.uncached_input_tok = 0
          /\ cb.cache_write_tok + cb.cache_read_tok = TotalOf(run, "prompt_tokens")
      BY <1>1, <1>2, InferredCost
    <2> HIDE DEF cb
    <2>3. cb.cache_write_tok \in Nat /\ cb.cache_read_tok \in Nat
      BY <2>2 DEF Buckets
    <2> QED
      BY <1>2, <1>4, <2>1, <2>2, <2>3
  <1> QED
    BY <1>3, <1>4

-------------------------------------------------------------------------------
(*****************************************************************************)
(* Quotients.                                                                *)
(*****************************************************************************)

(* Products by induction are beyond the provers; what is needed of them      *)
(* follows from distributivity.                                              *)
LEMMA MulLe ==
  ASSUME NEW a \in Nat, NEW b \in Nat, NEW c \in Nat, a <= b
  PROVE  a * c <= b * c
  <1>1. PICK d \in Nat : b = a + d
    <2>1. b - a \in Nat /\ b = a + (b - a)
      OBVIOUS
    <2> QED
      BY <2>1
  <1>2. b * c = a * c + d * c /\ d * c \in Nat /\ a * c \in Nat
    BY <1>1, Distribute
  <1> QED
    BY <1>2

(* A positive factor cancels. *)
LEMMA MulCancel ==
  ASSUME NEW a \in Nat, NEW b \in Nat, NEW c \in Nat, c # 0, a * c <= b * c
  PROVE  a <= b
  <1>1. SUFFICES ASSUME b + 1 <= a PROVE FALSE
    OBVIOUS
  <1>2. (b + 1) * c <= a * c
    BY <1>1, MulLe
  <1>3. (b + 1) * c = b * c + 1 * c /\ b * c \in Nat /\ 1 * c = c /\ a * c \in Nat
    BY Distribute
  <1> QED
    BY <1>2, <1>3

(* Factors trade places. *)
LEMMA MulSwap ==
  ASSUME NEW a \in Nat, NEW b \in Nat, NEW c \in Nat
  PROVE  (a * b) * c = (a * c) * b /\ a * b = b * a /\ a * b \in Nat
  OBVIOUS

(* Of two quotients one at most is lower, *)
LEMMA LowerAsymmetric ==
  ASSUME NEW p \in Nat \X Nat, NEW q \in Nat \X Nat, Lower(p, q)
  PROVE  ~Lower(q, p)
  <1>1. p[1] * q[2] \in Nat /\ q[1] * p[2] \in Nat
    BY MulSwap
  <1> QED
    BY <1>1 DEF Lower

(* and not being lower is transitive, unless the middle one is 0/0. *)
LEMMA NotLowerTransitive ==
  ASSUME NEW p \in Nat \X Nat, NEW q \in Nat \X Nat, NEW r \in Nat \X Nat,
         q # <<0, 0>>, ~Lower(p, q), ~Lower(q, r)
  PROVE  ~Lower(p, r)
  <1> DEFINE p1 == p[1]  p2 == p[2]  q1 == q[1]  q2 == q[2]  r1 == r[1]  r2 == r[2]
  <1>1. p1 \in Nat /\ p2 \in Nat /\ q1 \in Nat /\ q2 \in Nat /\ r1 \in Nat /\ r2 \in Nat
    OBVIOUS
  <1>2. q1 # 0 \/ q2 # 0
    OBVIOUS
  <1>3. q1 * p2 <= p1 * q2 /\ r1 * q2 <= q1 * r2
    <2>1. p1 * q2 \in Nat /\ q1 * p2 \in Nat /\ q1 * r2 \in Nat /\ r1 * q2 \in Nat
      BY <1>1, MulSwap
    <2> QED
      BY <2>1 DEF Lower
  <1>4. Lower(p, r) <=> p1 * r2 < r1 * p2
    BY DEF Lower
  <1> HIDE DEF p1, p2, q1, q2, r1, r2
  <1>5. r1 * p2 <= p1 * r2
    <2>1. CASE q2 = 0
      <3>1. p1 * 0 = 0 /\ r1 * 0 = 0 /\ p1 * r2 \in Nat
        BY <1>1, MulSwap
      <3>2. q1 * p2 <= 0
        BY <1>3, <2>1, <3>1
      <3>3. p2 = 0
        <4>1. SUFFICES ASSUME 1 <= p2 PROVE FALSE
          BY <1>1
        <4>2. 1 * q1 <= p2 * q1 /\ p2 * q1 = q1 * p2 /\ 1 * q1 = q1
          BY <1>1, <4>1, MulLe, MulSwap
        <4> QED
          BY <1>1, <1>2, <2>1, <3>2, <4>2
      <3> QED
        BY <3>1, <3>3
    <2>2. CASE q2 # 0
      <3>1. (q1 * p2) * r2 <= (p1 * q2) * r2
        BY <1>1, <1>3, MulLe, MulSwap
      <3>2. (r1 * q2) * p2 <= (q1 * r2) * p2
        BY <1>1, <1>3, MulLe, MulSwap
      <3>3. /\ (q1 * p2) * r2 = (q1 * r2) * p2
            /\ (p1 * q2) * r2 = (p1 * r2) * q2
            /\ (r1 * q2) * p2 = (r1 * p2) * q2
        BY <1>1, MulSwap
      <3>4. /\ p1 * r2 \in Nat /\ r1 * p2 \in Nat
            /\ (p1 * r2) * q2 \in Nat /\ (r1 * p2) * q2 \in Nat /\ (q1 * r2) * p2 \in Nat
        BY <1>1, MulSwap
      <3>5. (r1 * p2) * q2 <= (p1 * r2) * q2
        BY <3>1, <3>2, <3>3, <3>4
      <3> QED
        BY <1>1, <2>2, <3>4, <3>5, MulCancel
    <2> QED
      BY <2>1, <2>2
  <1>6. r1 * p2 \in Nat /\ p1 * r2 \in Nat
    BY <1>1, MulSwap
  <1> QED
    BY <1>4, <1>5, <1>6

-------------------------------------------------------------------------------
(*****************************************************************************)
(* The ranking.                                                              *)
(*****************************************************************************)

(* The orderings, by name. *)
Labels == {Orderings[i] : i \in DOMAIN Orderings}

(* An arm's aggregate, and a table of them. *)
IsAgg(a) ==
  /\ a.n \in Nat \ {0} /\ a.n_success \in Nat /\ a.cost_usd \in Nat
  /\ a.cost_per_solved = PerSolved(a.cost_usd, a.n_success)
  /\ a.input_tokens \in Nat /\ a.output_tokens \in Nat /\ a.cost_usd_flat \in Nat
  /\ a.calls \in Nat /\ a.wall_s \in Nat /\ a.cache_write_tok \in Nat

IsTable(aggs) ==
  /\ aggs = [i \in DOMAIN aggs |-> aggs[i]]
  /\ IsFiniteSet(DOMAIN aggs) /\ DOMAIN aggs \subseteq Nat
  /\ \A i \in DOMAIN aggs : IsAgg(aggs[i])

(* The list of orderings, by its places. *)
LEMMA OrderingsNamed ==
  /\ DOMAIN Orderings = 1 .. 11
  /\ Orderings[1] = "$ per solved task"
  /\ Orderings[2] = "cost per success"
  /\ Orderings[3] = "success rate"
  /\ Orderings[4] = "lowest total cost"
  /\ Orderings[5] = "fewest input tokens"
  /\ Orderings[6] = "fewest output tokens"
  /\ Orderings[7] = "lowest list-price cost"
  /\ Orderings[8] = "most tasks solved"
  /\ Orderings[9] = "fewest mean calls"
  /\ Orderings[10] = "fastest mean wall time"
  /\ Orderings[11] = "lowest cache-write tokens"
  BY DEF Orderings

(* There are eleven, *)
LEMMA ElevenOrderings ==
  DOMAIN Orderings = {1, 2, 3, 4, 5, 6, 7, 8, 9, 10, 11}
  <1>1. \A k : k \in 1 .. 11 => k \in {1, 2, 3, 4, 5, 6, 7, 8, 9, 10, 11}
    OBVIOUS
  <1>2. \A k : k \in {1, 2, 3, 4, 5, 6, 7, 8, 9, 10, 11} => k \in 1 .. 11
    OBVIOUS
  <1>3. DOMAIN Orderings = 1 .. 11
    BY OrderingsNamed
  <1> QED
    BY <1>1, <1>2, <1>3

(* of different names. *)
LEMMA OrderingsDiffer ==
  ASSUME NEW i \in {1, 2, 3, 4, 5, 6, 7, 8, 9, 10, 11},
         NEW j \in {1, 2, 3, 4, 5, 6, 7, 8, 9, 10, 11}, Orderings[i] = Orderings[j]
  PROVE  i = j
  <1>1. ASSUME i = 1 PROVE j = 1
    BY <1>1, OrderingsNamed
  <1>2. ASSUME i = 2 PROVE j = 2
    BY <1>2, OrderingsNamed
  <1>3. ASSUME i = 3 PROVE j = 3
    BY <1>3, OrderingsNamed
  <1>4. ASSUME i = 4 PROVE j = 4
    BY <1>4, OrderingsNamed
  <1>5. ASSUME i = 5 PROVE j = 5
    BY <1>5, OrderingsNamed
  <1>6. ASSUME i = 6 PROVE j = 6
    BY <1>6, OrderingsNamed
  <1>7. ASSUME i = 7 PROVE j = 7
    BY <1>7, OrderingsNamed
  <1>8. ASSUME i = 8 PROVE j = 8
    BY <1>8, OrderingsNamed
  <1>9. ASSUME i = 9 PROVE j = 9
    BY <1>9, OrderingsNamed
  <1>10. ASSUME i = 10 PROVE j = 10
    BY <1>10, OrderingsNamed
  <1>11. ASSUME i = 11 PROVE j = 11
    BY <1>11, OrderingsNamed
  <1> QED
    BY <1>1, <1>2, <1>3, <1>4, <1>5, <1>6, <1>7, <1>8, <1>9, <1>10, <1>11

(* No ordering sorts by 0/0: every arm of the table ran a task. *)
LEMMA KeyPair ==
  ASSUME NEW label \in Labels, NEW a, IsAgg(a)
  PROVE  Key(label, a) \in Nat \X Nat /\ Key(label, a) # <<0, 0>>
  <1>1. label \in {"$ per solved task", "cost per success", "success rate",
           "lowest total cost", "fewest input tokens", "fewest output tokens",
           "lowest list-price cost", "most tasks solved", "fewest mean calls",
           "fastest mean wall time", "lowest cache-write tokens"}
    <2>1. PICK i \in {1, 2, 3, 4, 5, 6, 7, 8, 9, 10, 11} : label = Orderings[i]
      BY ElevenOrderings DEF Labels
    <2> QED
      BY <2>1, OrderingsNamed
  <1>2. AtLeastOne(a.n_success) \in Nat \ {0}
    BY DEF AtLeastOne, IsAgg
  <1> DEFINE k == Key(label, a)
             bottom == AtLeastOne(a.n_success)
  <1>3. k \in {<<a.cost_usd, bottom>>, <<a.n_success, a.n>>, <<a.cost_usd, 1>>,
               <<a.input_tokens, 1>>, <<a.output_tokens, 1>>, <<a.cost_usd_flat, 1>>,
               <<a.n_success, 1>>, <<a.calls, a.n>>, <<a.wall_s, a.n>>, <<a.cache_write_tok, 1>>}
        \/ k = <<IF a.n_success = 0 THEN 1 ELSE a.cost_usd, a.n_success>>
    BY <1>1 DEF Key, IsAgg, PerSolved
  <1> HIDE DEF k, bottom
  <1>4. bottom \in Nat \ {0}
    BY <1>2 DEF bottom
  <1>5. k \in Nat \X Nat /\ k # <<0, 0>>
    BY <1>3, <1>4 DEF IsAgg
  <1> QED
    BY <1>5 DEF k

(* So in every ordering better is asymmetric, *)
LEMMA BetterAsymmetric ==
  ASSUME NEW label \in Labels, NEW a, IsAgg(a), NEW b, IsAgg(b), Better(label, a, b)
  PROVE  ~Better(label, b, a)
  BY KeyPair, LowerAsymmetric DEF Better

(* and not being better is transitive, a tie too. *)
LEMMA NotBetterTransitive ==
  ASSUME NEW label \in Labels, NEW a, IsAgg(a), NEW b, IsAgg(b), NEW c, IsAgg(c),
         ~Better(label, a, b), ~Better(label, b, c)
  PROVE  ~Better(label, a, c)
  <1> DEFINE p == Key(label, a)
             q == Key(label, b)
             r == Key(label, c)
  <1>1. p \in Nat \X Nat /\ q \in Nat \X Nat /\ r \in Nat \X Nat /\ q # <<0, 0>>
    BY KeyPair
  <1>2. CASE label \in Descending
    <2>1. ~Lower(q, p) /\ ~Lower(r, q)
      BY <1>2 DEF Better
    <2> HIDE DEF p, q, r
    <2>2. ~Lower(r, p)
      BY <1>1, <2>1, NotLowerTransitive
    <2> QED
      BY <1>2, <2>2 DEF Better, p, r
  <1>3. CASE label \notin Descending
    <2>1. ~Lower(p, q) /\ ~Lower(q, r)
      BY <1>3 DEF Better
    <2> HIDE DEF p, q, r
    <2>2. ~Lower(p, r)
      BY <1>1, <2>1, NotLowerTransitive
    <2> QED
      BY <1>3, <2>2 DEF Better, p, r
  <1> QED
    BY <1>2, <1>3

(* The order of a stable sort: better, or as good and listed earlier. *)
Before(label, aggs, j, i) ==
  \/ Better(label, aggs[j], aggs[i])
  \/ j <= i /\ ~Better(label, aggs[i], aggs[j])

(* It is a total order, *)
LEMMA BeforeIsOrder ==
  ASSUME NEW label \in Labels, NEW aggs, IsTable(aggs),
         NEW i \in DOMAIN aggs, NEW j \in DOMAIN aggs
  PROVE  /\ Before(label, aggs, i, i)
         /\ Before(label, aggs, i, j) \/ Before(label, aggs, j, i)
         /\ Before(label, aggs, i, j) /\ Before(label, aggs, j, i) => i = j
         /\ Before(label, aggs, i, j) => ~Better(label, aggs[j], aggs[i])
  <1>1. /\ i \in Nat /\ j \in Nat /\ IsAgg(aggs[i]) /\ IsAgg(aggs[j])
    BY DEF IsTable
  <1>2. /\ Better(label, aggs[i], aggs[j]) => ~Better(label, aggs[j], aggs[i])
        /\ ~Better(label, aggs[i], aggs[i])
    BY <1>1, BetterAsymmetric
  <1> QED
    BY <1>1, <1>2 DEF Before

(* and transitive, *)
LEMMA BeforeTransitive ==
  ASSUME NEW label \in Labels, NEW aggs, IsTable(aggs),
         NEW i \in DOMAIN aggs, NEW j \in DOMAIN aggs, NEW k \in DOMAIN aggs,
         Before(label, aggs, i, j), Before(label, aggs, j, k)
  PROVE  Before(label, aggs, i, k)
  <1> DEFINE B(x, y) == Better(label, aggs[x], aggs[y])
  <1>1. /\ i \in Nat /\ j \in Nat /\ k \in Nat
        /\ IsAgg(aggs[i]) /\ IsAgg(aggs[j]) /\ IsAgg(aggs[k])
    BY DEF IsTable
  <1>2. ~B(j, i) /\ ~B(k, j)
    BY BeforeIsOrder
  <1>3. ~B(k, i)
    BY <1>1, <1>2, NotBetterTransitive
  <1>4. B(i, j) => B(i, k)
    BY <1>1, <1>2, NotBetterTransitive
  <1>5. B(j, k) => B(i, k)
    BY <1>1, <1>2, NotBetterTransitive
  <1> QED
    BY <1>1, <1>3, <1>4, <1>5 DEF Before

(* so what comes before has the lower place, *)
LEMMA PlaceRises ==
  ASSUME NEW label \in Labels, NEW aggs, IsTable(aggs),
         NEW i \in DOMAIN aggs, NEW j \in DOMAIN aggs, i # j, Before(label, aggs, i, j)
  PROVE  Place(label, aggs, i) < Place(label, aggs, j)
  <1> DEFINE S == NotAfter(label, aggs, i)
             T == NotAfter(label, aggs, j)
  <1>1. /\ \A k \in DOMAIN aggs : k \in S <=> Before(label, aggs, k, i)
        /\ \A k \in DOMAIN aggs : k \in T <=> Before(label, aggs, k, j)
        /\ S \subseteq DOMAIN aggs /\ T \subseteq DOMAIN aggs
    BY DEF NotAfter, Before
  <1>2. Place(label, aggs, i) = Cardinality(S) /\ Place(label, aggs, j) = Cardinality(T)
    BY DEF Place
  <1> HIDE DEF S, T
  <1>3. S \subseteq T
    BY <1>1, BeforeTransitive
  <1>4. j \in T /\ j \notin S
    BY <1>1, BeforeIsOrder
  <1>5. IsFiniteSet(T) /\ IsFiniteSet(S)
    BY <1>1, FS_Subset DEF IsTable
  <1>6. /\ Cardinality(S) <= Cardinality(T)
        /\ Cardinality(S) # Cardinality(T)
        /\ Cardinality(S) \in Nat /\ Cardinality(T) \in Nat
    BY <1>3, <1>4, <1>5, FS_Subset, FS_CardinalityType
  <1> QED
    BY <1>2, <1>6

(* and every place is taken by one arm. *)
LEMMA PlacesAreARanking ==
  ASSUME NEW label \in Labels, NEW aggs, IsTable(aggs)
  PROVE  LET n == Cardinality(DOMAIN aggs)
         IN /\ n \in Nat
            /\ \A i \in DOMAIN aggs : Place(label, aggs, i) \in 1 .. n
            /\ \A i, j \in DOMAIN aggs : Place(label, aggs, i) = Place(label, aggs, j) => i = j
            /\ \A p \in 1 .. n : \E i \in DOMAIN aggs : Place(label, aggs, i) = p
  <1> DEFINE n == Cardinality(DOMAIN aggs)
             D == DOMAIN aggs
             at == [i \in D |-> Place(label, aggs, i)]
  <1>1. n \in Nat /\ IsFiniteSet(D)
    BY FS_CardinalityType DEF IsTable
  <1>2. ASSUME NEW i \in D PROVE Place(label, aggs, i) \in 1 .. n
    <2> DEFINE S == NotAfter(label, aggs, i)
    <2>1. S \subseteq D /\ i \in S
      BY BeforeIsOrder DEF NotAfter, Before
    <2> HIDE DEF S
    <2>2. IsFiniteSet(S) /\ Cardinality(S) <= n
      BY <1>1, <2>1, FS_Subset
    <2>3. Cardinality(S) \in Nat /\ Cardinality(S) # 0
      BY <2>1, <2>2, FS_CardinalityType, FS_EmptySet
    <2> QED
      BY <1>1, <2>2, <2>3 DEF Place, S
  <1>3. ASSUME NEW i \in D, NEW j \in D, Place(label, aggs, i) = Place(label, aggs, j)
        PROVE  i = j
    <2>1. SUFFICES ASSUME i # j PROVE FALSE
      OBVIOUS
    <2>2. Before(label, aggs, i, j) \/ Before(label, aggs, j, i)
      BY BeforeIsOrder
    <2>3. /\ Place(label, aggs, i) < Place(label, aggs, j)
             \/ Place(label, aggs, j) < Place(label, aggs, i)
      BY <2>1, <2>2, PlaceRises
    <2>4. Place(label, aggs, i) \in Nat /\ Place(label, aggs, j) \in Nat
      BY <1>2, <1>1
    <2> QED
      BY <1>3, <2>3, <2>4
  <1>4. at \in Injection(D, 1 .. n)
    <2>1. at \in [D -> 1 .. n]
      BY <1>2
    <2>2. \A i, j \in D : at[i] = at[j] => i = j
      BY <1>3
    <2> HIDE DEF at
    <2> QED
      BY <2>1, <2>2 DEF Injection, IsInjective
  <1>5. IsFiniteSet(1 .. n) /\ Cardinality(1 .. n) = n
    BY <1>1, FS_Interval
  <1>6. at \in Surjection(D, 1 .. n)
    <2> HIDE DEF at
    <2> QED
      BY <1>1, <1>4, <1>5, FS_Injection
  <1>7. \A p \in 1 .. n : \E i \in D : Place(label, aggs, i) = p
    BY <1>6 DEF Surjection
  <1> QED
    BY <1>1, <1>2, <1>3, <1>7

-------------------------------------------------------------------------------
(*****************************************************************************)
(* The cascade of orderings.                                                 *)
(*****************************************************************************)

(* What Ranked returns has the arms of the table, and none of them is better *)
(* than one placed before it.                                                *)
LEMMA RankedSorts ==
  ASSUME NEW label \in Labels, NEW aggs, IsTable(aggs)
  PROVE  LET ranked == Ranked(label, aggs)
             n == Cardinality(DOMAIN aggs)
         IN /\ n \in Nat /\ DOMAIN ranked = 1 .. n
            /\ \A p \in 1 .. n : \E i \in DOMAIN aggs : ranked[p] = aggs[i]
            /\ \A i \in DOMAIN aggs : \E p \in 1 .. n : ranked[p] = aggs[i]
            /\ \A p, q \in 1 .. n : p <= q => ~Better(label, ranked[q], ranked[p])
            /\ IsTable(ranked)
            /\ ranked = <<>> <=> DOMAIN aggs = {}
  <1> DEFINE ranked == Ranked(label, aggs)
             n == Cardinality(DOMAIN aggs)
             At(i) == Place(label, aggs, i)
             who(p) == CHOOSE i \in DOMAIN aggs : At(i) = p
  <1>1. /\ n \in Nat
        /\ \A i \in DOMAIN aggs : At(i) \in 1 .. n
        /\ \A i, j \in DOMAIN aggs : At(i) = At(j) => i = j
        /\ \A p \in 1 .. n : \E i \in DOMAIN aggs : At(i) = p
    BY PlacesAreARanking
  <1>2. ranked = [p \in 1 .. n |-> aggs[who(p)]]
    BY DEF Ranked
  <1>3. \A p \in 1 .. n : who(p) \in DOMAIN aggs /\ At(who(p)) = p
    BY <1>1
  <1> HIDE DEF ranked, n, At, who
  <1>4. DOMAIN ranked = 1 .. n /\ \A p \in 1 .. n : ranked[p] = aggs[who(p)]
    BY <1>2
  <1>5. \A p \in 1 .. n : \E i \in DOMAIN aggs : ranked[p] = aggs[i]
    BY <1>3, <1>4
  <1>6. \A i \in DOMAIN aggs : \E p \in 1 .. n : ranked[p] = aggs[i]
    <2>1. ASSUME NEW i \in DOMAIN aggs PROVE At(i) \in 1 .. n /\ who(At(i)) = i
      BY <1>1, <1>3
    <2> QED
      BY <1>4, <2>1
  <1>7. ASSUME NEW p \in 1 .. n, NEW q \in 1 .. n, p <= q
        PROVE  ~Better(label, ranked[q], ranked[p])
    <2> DEFINE i == who(p)
               j == who(q)
    <2>1. i \in DOMAIN aggs /\ j \in DOMAIN aggs /\ At(i) = p /\ At(j) = q
      BY <1>3
    <2>2. ranked[p] = aggs[i] /\ ranked[q] = aggs[j]
      BY <1>4
    <2> HIDE DEF i, j
    <2>3. Before(label, aggs, i, j)
      <3>1. CASE i = j
        BY <2>1, <3>1, BeforeIsOrder
      <3>2. CASE i # j
        <4>1. Before(label, aggs, j, i) => At(j) < At(i)
          BY <2>1, <3>2, PlaceRises DEF At
        <4>2. ~Before(label, aggs, j, i)
          BY <1>7, <2>1, <4>1, <1>1
        <4> QED
          BY <2>1, <4>2, BeforeIsOrder
      <3> QED
        BY <3>1, <3>2
    <2> QED
      BY <2>1, <2>2, <2>3, BeforeIsOrder
  <1>8. IsTable(ranked)
    <2>1. IsFiniteSet(1 .. n) /\ 1 .. n \subseteq Nat
      BY <1>1, FS_Interval
    <2>2. ranked = [p \in DOMAIN ranked |-> ranked[p]]
      BY <1>2
    <2> QED
      BY <1>4, <1>5, <2>1, <2>2 DEF IsTable
  <1>9. ranked = <<>> <=> DOMAIN aggs = {}
    <2>1. ASSUME DOMAIN aggs = {} PROVE ranked = <<>>
      <3>1. n = 0
        BY <2>1, FS_EmptySet DEF n
      <3>2. ranked = [p \in 1 .. 0 |-> aggs[who(p)]]
        BY <1>2, <3>1
      <3> QED
        BY <3>2
    <2>2. ASSUME ranked = <<>> PROVE DOMAIN aggs = {}
      <3>1. DOMAIN ranked = {}
        BY <2>2
      <3> QED
        BY <1>4, <1>6, <3>1
    <2> QED
      BY <2>1, <2>2
  <1> QED
    BY <1>1, <1>4, <1>5, <1>6, <1>7, <1>8, <1>9 DEF ranked, n

(* The first of some orderings. *)
LEMMA LeastIn ==
  ASSUME NEW S, S # {}, S \subseteq 1 .. 11
  PROVE  /\ Chosen(S) \in S /\ \A j \in S : Chosen(S) <= j
  <1>1. \A x \in S : x \in Nat
    OBVIOUS
  <1>2. IsFiniteSet(S)
    <2>1. PICK n \in Nat : n = 11
      OBVIOUS
    <2>2. IsFiniteSet(1 .. n)
      BY FS_Interval
    <2> QED
      BY <2>1, <2>2, FS_Subset
  <1> DEFINE m == [x \in S |-> 0 - x]
  <1>3. \A x \in S : m[x] \in Int
    BY <1>1
  <1>4. \E x \in S : \A y \in S : m[y] <= m[x]
    <2> HIDE DEF m
    <2> QED
      BY <1>2, <1>3, Greatest
  <1>5. \E x \in S : \A y \in S : x <= y
    BY <1>1, <1>4
  <1> QED
    BY <1>5 DEF Chosen

(* The hero is first in an ordering, when it is the only arm there that no other beats. *)
LEMMA AloneIsFirst ==
  ASSUME NEW label \in Labels, NEW aggs, IsTable(aggs),
         NEW k \in DOMAIN aggs, aggs[k].arm = Hero,
         \A j \in DOMAIN aggs : aggs[j] = aggs[k] \/ Better(label, aggs[k], aggs[j])
  PROVE  Ranked(label, aggs)[1].arm = Hero
  <1> DEFINE ranked == Ranked(label, aggs)
             n == Cardinality(DOMAIN aggs)
  <1>1. /\ n \in Nat /\ DOMAIN ranked = 1 .. n
        /\ \A p \in 1 .. n : \E i \in DOMAIN aggs : ranked[p] = aggs[i]
        /\ \A i \in DOMAIN aggs : \E p \in 1 .. n : ranked[p] = aggs[i]
        /\ \A p, q \in 1 .. n : p <= q => ~Better(label, ranked[q], ranked[p])
    BY RankedSorts
  <1> HIDE DEF ranked, n
  <1>2. PICK p \in 1 .. n : ranked[p] = aggs[k]
    BY <1>1
  <1>3. 1 \in 1 .. n /\ 1 <= p
    BY <1>1
  <1>4. PICK j \in DOMAIN aggs : ranked[1] = aggs[j]
    BY <1>1, <1>3
  <1>5. ~Better(label, ranked[p], ranked[1])
    BY <1>1, <1>3
  <1>6. ranked[1] = aggs[k]
    BY <1>2, <1>4, <1>5
  <1> QED
    BY <1>6 DEF ranked

(* What choose_ranking returns is honest, for any table. *)
LEMMA RankingHonest ==
  ASSUME NEW aggs, IsTable(aggs)
  PROVE  LET rep == ChooseRanking(aggs)
             Undercut(label, a) == \E j \in DOMAIN rep.ranked : Better(label, rep.ranked[j], a)
             Alone(label, a)    == \A j \in DOMAIN rep.ranked :
                                     rep.ranked[j] = a \/ Better(label, a, rep.ranked[j])
             hero  == {a \in Range(rep.ranked) : a.arm = Hero}
             place == CHOOSE i \in DOMAIN Orderings : Orderings[i] = rep.ordering
         IN /\ rep.ranked # <<>> => ~Undercut(rep.ordering, rep.ranked[1])
            /\ rep.hero_is_first <=> rep.ranked # <<>> /\ rep.ranked[1].arm = Hero
            /\ rep.fell_back <=> place # 1
            /\ rep.fell_back => rep.hero_is_first
            /\ \A a \in hero, i \in 1 .. place - 1 : ~Alone(Orderings[i], a)
            /\ \A a \in hero : ~rep.hero_is_first =>
                 \A i \in DOMAIN Orderings : ~Alone(Orderings[i], a)
  <1> DEFINE present == \E i \in DOMAIN aggs : aggs[i].arm = Hero
             hits    == {i \in DOMAIN Orderings : Surfaces(Orderings[i], aggs)}
             chosen  == IF present /\ hits # {} THEN Chosen(hits) ELSE 1
             ranked  == Ranked(Orderings[chosen], aggs)
             rep     == ChooseRanking(aggs)
             place   == CHOOSE i \in DOMAIN Orderings : Orderings[i] = rep.ordering
             n       == Cardinality(DOMAIN aggs)
  <1>1. /\ rep.ordering = Orderings[chosen] /\ rep.ranked = ranked
        /\ rep.hero_is_first <=> chosen \in hits
        /\ rep.fell_back <=> chosen # 1
    BY DEF ChooseRanking
  <1>2. /\ hits \subseteq 1 .. 11 /\ DOMAIN Orderings = 1 .. 11
        /\ \A i \in 1 .. 11 : i \in hits <=> Surfaces(Orderings[i], aggs)
    BY OrderingsNamed
  <1>3. /\ chosen \in 1 .. 11
        /\ chosen # 1 => chosen \in hits
        /\ present => \A i \in 1 .. chosen - 1 : i \notin hits
        /\ present /\ chosen \notin hits => hits = {}
    <2> HIDE DEF hits, present
    <2>1. CASE present /\ hits # {}
      <3>1. chosen = Chosen(hits)
        BY <2>1
      <3>2. chosen \in hits /\ \A j \in hits : chosen <= j
        BY <1>2, <2>1, <3>1, LeastIn
      <3> HIDE DEF chosen
      <3> QED
        BY <1>2, <3>2
    <2>2. CASE ~(present /\ hits # {})
      <3>1. chosen = 1
        BY <2>2
      <3> HIDE DEF chosen
      <3> QED
        BY <2>2, <3>1
    <2> QED
      BY <2>1, <2>2
  <1>4. place = chosen
    <2>1. Orderings[place] = Orderings[chosen] /\ place \in DOMAIN Orderings
      BY <1>1, <1>2, <1>3
    <2> HIDE DEF place, chosen
    <2> QED
      BY <1>2, <1>3, <2>1, ElevenOrderings, OrderingsDiffer
  <1>5. \A i \in 1 .. 11 : Orderings[i] \in Labels
    BY <1>2 DEF Labels
  <1>6. /\ n \in Nat /\ DOMAIN ranked = 1 .. n
        /\ \A p \in 1 .. n : \E i \in DOMAIN aggs : ranked[p] = aggs[i]
        /\ \A i \in DOMAIN aggs : \E p \in 1 .. n : ranked[p] = aggs[i]
        /\ \A p, q \in 1 .. n : p <= q => ~Better(Orderings[chosen], ranked[q], ranked[p])
        /\ ranked = <<>> <=> DOMAIN aggs = {}
    <2> HIDE DEF chosen
    <2>1. Orderings[chosen] \in Labels
      BY <1>3, <1>5
    <2> QED
      BY <2>1, RankedSorts
  <1>7. ranked # <<>> => 1 \in 1 .. n
    <2> HIDE DEF ranked, n
    <2> QED
      BY <1>6
  <1>8. ASSUME NEW k \in DOMAIN aggs, aggs[k].arm = Hero, NEW i \in 1 .. 11, i \notin hits
        PROVE  ~ \A j \in DOMAIN ranked : ranked[j] = aggs[k] \/ Better(Orderings[i], aggs[k], ranked[j])
    <2> HIDE DEF ranked, n
    <2>1. SUFFICES ASSUME \A j \in DOMAIN ranked :
                            ranked[j] = aggs[k] \/ Better(Orderings[i], aggs[k], ranked[j])
                   PROVE  FALSE
      OBVIOUS
    <2>2. \A j \in DOMAIN aggs : aggs[j] = aggs[k] \/ Better(Orderings[i], aggs[k], aggs[j])
      BY <1>6, <2>1
    <2>3. Ranked(Orderings[i], aggs)[1].arm = Hero
      BY <1>5, <1>8, <2>2, AloneIsFirst
    <2>4. aggs # <<>>
      OBVIOUS
    <2> QED
      BY <1>2, <1>8, <2>3, <2>4 DEF Surfaces
  <1>9. ASSUME NEW a \in Range(rep.ranked), a.arm = Hero
        PROVE  \E k \in DOMAIN aggs : a = aggs[k] /\ aggs[k].arm = Hero
    <2> HIDE DEF ranked, rep, n
    <2> QED
      BY <1>1, <1>6, <1>9 DEF Range
  <1>10. aggs = <<>> <=> DOMAIN aggs = {}
    BY DEF IsTable
  <1>11. rep.ranked # <<>> => ~ \E j \in DOMAIN rep.ranked : Better(rep.ordering, rep.ranked[j], rep.ranked[1])
    <2> HIDE DEF ranked, rep, chosen, n
    <2> QED
      BY <1>1, <1>6, <1>7
  <1>12. rep.hero_is_first <=> rep.ranked # <<>> /\ rep.ranked[1].arm = Hero
    <2> HIDE DEF rep, chosen, hits, n
    <2>1. chosen \in hits <=> Surfaces(Orderings[chosen], aggs)
      BY <1>2, <1>3
    <2> QED
      BY <1>1, <1>6, <1>10, <2>1 DEF Surfaces
  <1>13. rep.fell_back <=> place # 1
    <2> HIDE DEF rep, chosen, hits, place
    <2> QED
      BY <1>1, <1>4
  <1>14. rep.fell_back => rep.hero_is_first
    <2> HIDE DEF rep, chosen, hits
    <2> QED
      BY <1>1, <1>3
  <1>15. ASSUME NEW a \in Range(rep.ranked), a.arm = Hero, NEW i \in 1 .. place - 1
        PROVE  ~ \A j \in DOMAIN rep.ranked : rep.ranked[j] = a \/ Better(Orderings[i], a, rep.ranked[j])
    <2> HIDE DEF rep, chosen, hits, place, ranked
    <2>1. PICK k \in DOMAIN aggs : a = aggs[k] /\ aggs[k].arm = Hero
      BY <1>9, <1>15
    <2>2. present
      BY <2>1
    <2>3. i \in 1 .. 11 /\ i \notin hits
      BY <1>3, <1>4, <2>2
    <2> QED
      BY <1>1, <1>8, <2>1, <2>3
  <1>16. ASSUME NEW a \in Range(rep.ranked), a.arm = Hero, ~rep.hero_is_first,
               NEW i \in DOMAIN Orderings
        PROVE  ~ \A j \in DOMAIN rep.ranked : rep.ranked[j] = a \/ Better(Orderings[i], a, rep.ranked[j])
    <2> HIDE DEF rep, chosen, hits, place, ranked
    <2>1. PICK k \in DOMAIN aggs : a = aggs[k] /\ aggs[k].arm = Hero
      BY <1>9, <1>16
    <2>2. present
      BY <2>1
    <2>3. i \in 1 .. 11 /\ i \notin hits
      BY <1>1, <1>2, <1>3, <1>16, <2>2
    <2> QED
      BY <1>1, <1>8, <2>1, <2>3
  <1> HIDE DEF chosen, ranked, hits, present, n
  <1> QED
    BY <1>11, <1>12, <1>13, <1>14, <1>15, <1>16

(* Cheaper for as much, or more for no more, is lower per solved task. *)
LEMMA DominanceIsLower ==
  ASSUME NEW a, IsAgg(a), NEW b, IsAgg(b),
         a.n_success >= b.n_success, a.cost_usd <= b.cost_usd,
         a.cost_usd < b.cost_usd \/ (a.cost_usd > 0 /\ a.n_success > AtLeastOne(b.n_success))
  PROVE  Better("$ per solved task", a, b)
  <1> DEFINE x == a.cost_usd
             y == b.cost_usd
             m == AtLeastOne(a.n_success)
             n == AtLeastOne(b.n_success)
  <1>1. x \in Nat /\ y \in Nat /\ m \in Nat /\ n \in Nat /\ n <= m /\ 1 <= n
    BY DEF IsAgg, AtLeastOne
  <1>2. x < y \/ (1 <= x /\ n + 1 <= m)
    BY DEF IsAgg, AtLeastOne
  <1>3. x <= y
    OBVIOUS
  <1>4. Better("$ per solved task", a, b) <=> x * n < y * m
    <2>1. "$ per solved task" \notin Descending
      BY DEF Descending
    <2>2. Key("$ per solved task", a) = <<x, m>> /\ Key("$ per solved task", b) = <<y, n>>
      BY DEF Key, IsAgg, PerSolved
    <2>3. Better("$ per solved task", a, b) <=> Lower(<<x, m>>, <<y, n>>)
      BY <2>1, <2>2 DEF Better
    <2> HIDE DEF x, y, m, n
    <2> QED
      BY <2>3 DEF Lower
  <1> HIDE DEF x, y, m, n
  <1>5. /\ x * n \in Nat /\ y * n \in Nat /\ y * m \in Nat /\ x * m \in Nat
        /\ n * y = y * n /\ m * y = y * m /\ n * x = x * n /\ m * x = x * m
    BY <1>1, MulSwap
  <1>6. CASE x < y
    <2> DEFINE xn == x * n
               yn == y * n
               ym == y * m
               up == (x + 1) * n
    <2>1. up <= yn
      BY <1>1, <1>6, MulLe
    <2>2. up = xn + n
      <3>1. (x + 1) * n = x * n + 1 * n /\ 1 * n = n
        BY <1>1, Distribute
      <3> QED
        BY <3>1
    <2>3. yn <= ym
      <3>1. n * y <= m * y
        BY <1>1, MulLe
      <3> QED
        BY <1>5, <3>1
    <2>4. xn \in Nat /\ yn \in Nat /\ ym \in Nat
      BY <1>5
    <2> HIDE DEF xn, yn, ym, up
    <2>5. xn < ym
      BY <1>1, <2>1, <2>2, <2>3, <2>4
    <2> QED
      BY <1>4, <2>5 DEF xn, ym
  <1>7. CASE 1 <= x /\ n + 1 <= m
    <2> DEFINE xn == x * n
               xm == x * m
               ym == y * m
               up == (n + 1) * x
    <2>1. up <= xm
      <3>1. (n + 1) * x <= m * x
        BY <1>1, <1>7, MulLe
      <3> QED
        BY <1>5, <3>1
    <2>2. up = xn + x
      <3>1. (n + 1) * x = n * x + 1 * x /\ 1 * x = x
        BY <1>1, Distribute
      <3> QED
        BY <1>5, <3>1
    <2>3. xm <= ym
      BY <1>1, <1>3, MulLe
    <2>4. xn \in Nat /\ xm \in Nat /\ ym \in Nat
      BY <1>5
    <2> HIDE DEF xn, xm, ym, up
    <2>5. xn < ym
      BY <1>1, <1>7, <2>1, <2>2, <2>3, <2>4
    <2> QED
      BY <1>4, <2>5 DEF xn, ym
  <1> QED
    BY <1>2, <1>6, <1>7

(* So it comes first where the arms are ranked by that. *)
LEMMA DominanceRanked ==
  ASSUME NEW aggs, IsTable(aggs), ~ChooseRanking(aggs).fell_back
  PROVE  LET rep == ChooseRanking(aggs)
         IN \A i, j \in DOMAIN rep.ranked :
              LET a == rep.ranked[i]
                  b == rep.ranked[j]
              IN /\ a.n_success >= b.n_success /\ a.cost_usd <= b.cost_usd
                 /\ a.cost_usd < b.cost_usd
                      \/ (a.cost_usd > 0 /\ a.n_success > AtLeastOne(b.n_success))
                 => i < j
  <1> DEFINE label == "$ per solved task"
             ranked == Ranked(label, aggs)
             n == Cardinality(DOMAIN aggs)
  <1>1. ChooseRanking(aggs).ranked = ranked
    <2>1. Orderings[1] = label
      BY OrderingsNamed
    <2> QED
      BY <2>1 DEF ChooseRanking
  <1>2. label \in Labels
    BY OrderingsNamed, ElevenOrderings DEF Labels
  <1>3. /\ n \in Nat /\ DOMAIN ranked = 1 .. n
        /\ \A p, q \in 1 .. n : p <= q => ~Better(label, ranked[q], ranked[p])
        /\ IsTable(ranked)
    <2> HIDE DEF label
    <2> QED
      BY <1>2, RankedSorts
  <1> SUFFICES ASSUME NEW i \in DOMAIN ranked, NEW j \in DOMAIN ranked,
                      ranked[i].n_success >= ranked[j].n_success,
                      ranked[i].cost_usd <= ranked[j].cost_usd,
                      ranked[i].cost_usd < ranked[j].cost_usd
                        \/ (ranked[i].cost_usd > 0
                            /\ ranked[i].n_success > AtLeastOne(ranked[j].n_success))
               PROVE  i < j
    BY <1>1
  <1> HIDE DEF ranked, n
  <1>4. IsAgg(ranked[i]) /\ IsAgg(ranked[j])
    BY <1>3 DEF IsTable
  <1>5. Better(label, ranked[i], ranked[j])
    BY <1>4, DominanceIsLower
  <1> HIDE DEF label
  <1> QED
    BY <1>3, <1>5

(***************************************************************************)
(* The ledger and what its records add up to.                              *)
(***************************************************************************)
IsRecord(rec) ==
  /\ rec.run \in Runs /\ rec.model = RunModel /\ IsRun(rec.usage)
  /\ rec.success \in BOOLEAN /\ rec.limit_death \in BOOLEAN /\ rec.infra_failed \in BOOLEAN
  /\ rec.input_tokens \in Nat /\ rec.output_tokens \in Nat
  /\ rec.cache_write_tok \in Nat /\ rec.cache_read_tok \in Nat
  /\ rec.uncached_input_tokens \in Nat /\ rec.calls \in Nat /\ rec.wall_s \in Nat
  /\ rec.cost_usd \in Nat

(* A graded record splits its input into the three buckets. *)
IsLedger(led) ==
  /\ led \in Seq(Range(led))
  /\ \A i \in DOMAIN led :
       /\ IsRecord(led[i])
       /\ ~led[i].infra_failed =>
            led[i].cache_write_tok + led[i].cache_read_tok + led[i].uncached_input_tokens
              = led[i].input_tokens

(* Asked again, a record gives the same split; its costs are naturals. *)
LEMMA RecordSums ==
  ASSUME NEW rec, IsRecord(rec)
  PROVE  /\ RunCost(rec) \in Nat /\ FlatCost(rec) \in Nat /\ UncachedInputTok(rec) \in Nat
         /\ rec.cache_write_tok + rec.cache_read_tok + rec.uncached_input_tokens = rec.input_tokens
              => rec.cache_write_tok + rec.cache_read_tok + UncachedInputTok(rec) = rec.input_tokens
  <1>1. RatesFor(rec.model) \in Rates
    BY BillingAssumption, RatesKnown DEF IsRecord
  <1>2. FlatCost(rec) \in Nat
    <2> DEFINE rates == RatesFor(rec.model)
    <2>1. rec.input_tokens * rates.input \in Nat /\ rec.output_tokens * rates.output \in Nat
      BY <1>1, Distribute DEF Rates, IsRecord
    <2>2. FlatCost(rec) = rec.input_tokens * rates.input + rec.output_tokens * rates.output
      BY DEF FlatCost, ListFrameCost
    <2> HIDE DEF rates
    <2> QED
      BY <2>1, <2>2
  <1>3. RunCost(rec) \in Nat
    <2>1. TotalUsd(PriceRun(rec.usage, RatesFor(rec.model))) \in Nat
      BY <1>1, PriceNat, TotalUsdNat DEF IsRecord
    <2> QED
      BY <1>2, <2>1 DEF RunCost, IsRecord
  <1>4. /\ UncachedInputTok(rec) \in Nat
        /\ rec.cache_write_tok + rec.cache_read_tok + rec.uncached_input_tokens = rec.input_tokens
             => rec.cache_write_tok + rec.cache_read_tok + UncachedInputTok(rec) = rec.input_tokens
    BY DEF UncachedInputTok, IsRecord
  <1> QED
    BY <1>2, <1>3, <1>4

(* A ledger is finite. *)
LEMMA LedgerDomain ==
  ASSUME NEW led, IsLedger(led)
  PROVE  IsFiniteSet(DOMAIN led) /\ DOMAIN led \subseteq Nat
  <1>1. Len(led) \in Nat /\ DOMAIN led = 1 .. Len(led)
    BY DEF IsLedger
  <1> QED
    BY <1>1, FS_Interval

(* The aggregate of records is well formed, *)
LEMMA ArmTotals ==
  ASSUME NEW arm, NEW recs, IsFiniteSet(DOMAIN recs), DOMAIN recs # {},
         \A i \in DOMAIN recs : IsRecord(recs[i])
  PROVE  LET a == AggResult(arm, recs)
         IN /\ IsAgg(a) /\ a.cache_read_tok \in Nat /\ a.uncached_tok \in Nat
  <1> DEFINE a == AggResult(arm, recs)
             S == DOMAIN recs
  <1>1. ASSUME NEW f, DOMAIN f = S, \A i \in S : f[i] \in Nat
        PROVE  SumFunction(f) \in Nat
    BY <1>1, FunctionNat
  <1>2. a.n \in Nat \ {0}
    <2>1. Cardinality(S) \in Nat /\ Cardinality(S) # 0
      BY FS_CardinalityType, FS_EmptySet
    <2> QED
      BY <2>1 DEF AggResult, Solved, HowMany
  <1>3. a.n_success \in Nat
    <2> DEFINE T == {i \in S : recs[i].success}
    <2>1. Cardinality(T) \in Nat
      <3>1. T \subseteq S
        OBVIOUS
      <3> HIDE DEF T, S
      <3>2. IsFiniteSet(T)
        BY <3>1, FS_Subset DEF S
      <3> QED
        BY <3>2, FS_CardinalityType
    <2> QED
      BY <2>1 DEF AggResult, Solved, HowMany
  <1>4. \A i \in S : /\ recs[i].input_tokens \in Nat /\ recs[i].output_tokens \in Nat
                     /\ recs[i].cache_write_tok \in Nat /\ recs[i].cache_read_tok \in Nat
                     /\ recs[i].calls \in Nat /\ recs[i].wall_s \in Nat
                     /\ UncachedInputTok(recs[i]) \in Nat
                     /\ RunCost(recs[i]) \in Nat /\ FlatCost(recs[i]) \in Nat
    BY RecordSums DEF IsRecord
  <1>5. /\ SumFunction([i \in S |-> recs[i].input_tokens]) \in Nat
        /\ SumFunction([i \in S |-> recs[i].output_tokens]) \in Nat
        /\ SumFunction([i \in S |-> recs[i].cache_write_tok]) \in Nat
        /\ SumFunction([i \in S |-> recs[i].cache_read_tok]) \in Nat
        /\ SumFunction([i \in S |-> recs[i].calls]) \in Nat
        /\ SumFunction([i \in S |-> recs[i].wall_s]) \in Nat
        /\ SumFunction([i \in S |-> UncachedInputTok(recs[i])]) \in Nat
        /\ SumFunction([i \in S |-> RunCost(recs[i])]) \in Nat
        /\ SumFunction([i \in S |-> FlatCost(recs[i])]) \in Nat
    <2> DEFINE in == [i \in S |-> recs[i].input_tokens]
               out == [i \in S |-> recs[i].output_tokens]
               cw == [i \in S |-> recs[i].cache_write_tok]
               cr == [i \in S |-> recs[i].cache_read_tok]
               cs == [i \in S |-> recs[i].calls]
               ws == [i \in S |-> recs[i].wall_s]
               un == [i \in S |-> UncachedInputTok(recs[i])]
               rc == [i \in S |-> RunCost(recs[i])]
               fc == [i \in S |-> FlatCost(recs[i])]
    <2>1. \A f \in {in, out, cw, cr, cs, ws, un, rc, fc} : DOMAIN f = S /\ \A i \in S : f[i] \in Nat
      BY <1>4
    <2> HIDE DEF in, out, cw, cr, cs, ws, un, rc, fc
    <2>2. \A f \in {in, out, cw, cr, cs, ws, un, rc, fc} : SumFunction(f) \in Nat
      BY <1>1, <2>1
    <2> QED
      BY <2>2 DEF in, out, cw, cr, cs, ws, un, rc, fc
  <1>6. /\ a.input_tokens \in Nat /\ a.output_tokens \in Nat /\ a.cache_write_tok \in Nat
        /\ a.cache_read_tok \in Nat /\ a.uncached_tok \in Nat /\ a.calls \in Nat
        /\ a.wall_s \in Nat /\ a.cost_usd \in Nat /\ a.cost_usd_flat \in Nat
        /\ a.cost_per_solved = PerSolved(a.cost_usd, a.n_success)
    BY <1>5 DEF AggResult, Sum
  <1> HIDE DEF a
  <1>7. IsAgg(a)
    BY <1>2, <1>3, <1>6 DEF IsAgg
  <1> QED
    BY <1>6, <1>7 DEF a

(* its buckets add up if theirs do, *)
LEMMA ArmBuckets ==
  ASSUME NEW arm, NEW recs, IsFiniteSet(DOMAIN recs),
         \A i \in DOMAIN recs :
           /\ IsRecord(recs[i])
           /\ recs[i].cache_write_tok + recs[i].cache_read_tok + recs[i].uncached_input_tokens
                = recs[i].input_tokens
  PROVE  LET a == AggResult(arm, recs)
         IN a.cache_write_tok + a.cache_read_tok + a.uncached_tok = a.input_tokens
  <1> DEFINE a == AggResult(arm, recs)
             S == DOMAIN recs
             in == [i \in S |-> recs[i].input_tokens]
             cw == [i \in S |-> recs[i].cache_write_tok]
             cr == [i \in S |-> recs[i].cache_read_tok]
             un == [i \in S |-> UncachedInputTok(recs[i])]
             cached == [i \in S |-> recs[i].cache_write_tok + recs[i].cache_read_tok]
  <1>1. /\ a.cache_write_tok = SumFunction(cw) /\ a.cache_read_tok = SumFunction(cr)
        /\ a.uncached_tok = SumFunction(un) /\ a.input_tokens = SumFunction(in)
    BY DEF AggResult, Sum
  <1>2. ASSUME NEW i \in S
        PROVE  /\ cw[i] \in Nat /\ cr[i] \in Nat /\ un[i] \in Nat /\ cached[i] \in Nat
               /\ cached[i] = cw[i] + cr[i] /\ in[i] = cached[i] + un[i]
    <2>1. /\ recs[i].cache_write_tok \in Nat /\ recs[i].cache_read_tok \in Nat
          /\ UncachedInputTok(recs[i]) \in Nat
          /\ recs[i].cache_write_tok + recs[i].cache_read_tok + UncachedInputTok(recs[i])
               = recs[i].input_tokens
      BY RecordSums DEF IsRecord
    <2> QED
      BY <2>1
  <1>3. /\ DOMAIN in = S /\ DOMAIN cw = S /\ DOMAIN cr = S /\ DOMAIN un = S
    OBVIOUS
  <1> HIDE DEF a, in, cw, cr, un, cached
  <1>4. SumOn(cached, S) = SumOn(cw, S) + SumOn(cr, S)
    BY <1>2, SumPlus
  <1>5. SumOn(in, S) = SumOn(cached, S) + SumOn(un, S)
    BY <1>2, SumPlus
  <1> QED
    BY <1>1, <1>3, <1>4, <1>5, SumIs DEF a

(* so the ledger's aggregates are a table whose buckets add up. *)
LEMMA AggregateIsTable ==
  ASSUME NEW led, IsLedger(led)
  PROVE  /\ IsTable(Aggregate(led))
         /\ \A k \in DOMAIN Aggregate(led) :
              LET a == Aggregate(led)[k]
              IN a.cache_write_tok + a.cache_read_tok + a.uncached_tok = a.input_tokens
  <1> DEFINE graded == {i \in DOMAIN led : ~led[i].infra_failed}
             firsts == {i \in graded : \A j \in graded : j < i => led[j].arm # led[i].arm}
             Same(i) == {j \in graded : led[j].arm = led[i].arm}
             Arm(i) == AggResult(led[i].arm, Restrict(led, Same(i)))
             arms == [i \in firsts |-> Arm(i)]
             label == "$ per solved task"
             Adds(a) == a.cache_write_tok + a.cache_read_tok + a.uncached_tok = a.input_tokens
  <1>1. Aggregate(led) = Ranked(label, arms)
    BY DEF Aggregate
  <1>2. IsFiniteSet(DOMAIN led) /\ DOMAIN led \subseteq Nat
    BY LedgerDomain
  <1>3. ASSUME NEW i \in firsts PROVE IsAgg(Arm(i)) /\ Adds(Arm(i))
    <2> DEFINE recs == Restrict(led, Same(i))
    <2>1. DOMAIN recs = Same(i) /\ \A j \in Same(i) : recs[j] = led[j] /\ j \in DOMAIN led
      BY DEF Restrict
    <2>2. i \in Same(i) /\ Same(i) \subseteq DOMAIN led
      OBVIOUS
    <2>3. \A j \in Same(i) : ~led[j].infra_failed
      OBVIOUS
    <2> HIDE DEF recs, Same
    <2>4. IsFiniteSet(DOMAIN recs) /\ DOMAIN recs # {}
      BY <1>2, <2>1, <2>2, FS_Subset
    <2>5. \A j \in DOMAIN recs :
            /\ IsRecord(recs[j])
            /\ recs[j].cache_write_tok + recs[j].cache_read_tok + recs[j].uncached_input_tokens
                 = recs[j].input_tokens
      BY <2>1, <2>3 DEF IsLedger
    <2>6. IsAgg(AggResult(led[i].arm, recs))
      BY <2>4, <2>5, ArmTotals
    <2>7. Adds(AggResult(led[i].arm, recs))
      BY <2>4, <2>5, ArmBuckets
    <2> QED
      BY <2>6, <2>7 DEF recs
  <1>4. firsts \subseteq DOMAIN led
    OBVIOUS
  <1> HIDE DEF firsts, Arm
  <1>5. arms = [i \in DOMAIN arms |-> arms[i]] /\ DOMAIN arms = firsts
    OBVIOUS
  <1>6. \A i \in firsts : IsAgg(arms[i]) /\ Adds(arms[i])
    BY <1>3
  <1> HIDE DEF arms
  <1>7. IsTable(arms)
    <2>1. IsFiniteSet(firsts) /\ firsts \subseteq Nat
      BY <1>2, <1>4, FS_Subset
    <2> QED
      BY <1>5, <1>6, <2>1 DEF IsTable
  <1>8. label \in Labels
    BY OrderingsNamed, ElevenOrderings DEF Labels
  <1> HIDE DEF label
  <1> DEFINE ranked == Ranked(label, arms)
             n == Cardinality(DOMAIN arms)
  <1>9. /\ IsTable(ranked) /\ DOMAIN ranked = 1 .. n
        /\ \A p \in 1 .. n : \E i \in DOMAIN arms : ranked[p] = arms[i]
    BY <1>7, <1>8, RankedSorts
  <1> HIDE DEF ranked, n
  <1>10. \A p \in DOMAIN ranked : Adds(ranked[p])
    BY <1>5, <1>6, <1>9
  <1> QED
    BY <1>1, <1>9, <1>10 DEF ranked

-------------------------------------------------------------------------------
(*****************************************************************************)
(* The verdict.                                                              *)
(*****************************************************************************)

(* Min and Max of some places are among them. *)
LEMMA LeastPlace ==
  ASSUME NEW n \in Nat, NEW S \in SUBSET (1 .. n), S # {}
  PROVE  Min(S) \in S /\ Max(S) \in S
  <1>1. IsFiniteSet(S) /\ S \subseteq Nat
    <2>1. S \subseteq 1 .. n /\ 0 \in Int /\ 1 \in Int /\ n \in Int
      OBVIOUS
    <2>2. IsFiniteSet(1 .. n)
      BY <2>1, FS_Interval
    <2>3. IsFiniteSet(S)
      BY <2>2, FS_Subset
    <2> QED
      BY <2>1, <2>3
  <1> DEFINE up == [i \in S |-> i]
             down == [i \in S |-> 0 - i]
  <1>2. \A i \in S : up[i] \in Int /\ down[i] \in Int /\ up[i] = i /\ down[i] = 0 - i
    BY <1>1
  <1> HIDE DEF up, down
  <1>3. \E i \in S : \A j \in S : up[j] <= up[i]
    BY <1>1, <1>2, Greatest
  <1>4. \E i \in S : \A j \in S : down[j] <= down[i]
    BY <1>1, <1>2, Greatest
  <1>5. \E i \in S : \A j \in S : j <= i
    BY <1>2, <1>3
  <1>6. \E i \in S : \A j \in S : i <= j
    BY <1>1, <1>2, <1>4
  <1> QED
    BY <1>5, <1>6 DEF Min, Max

(* The report that is chosen is one of the files. *)
LEMMA ReportIsAFile ==
  ASSUME NEW files, files \in Seq(Range(files)), Parsed(files) # {}
  PROVE  \E i \in DOMAIN files : ChosenReport(files) = files[i]
  <1> DEFINE n == Len(files)
             own == Complete(files, Own(files))
             all == Complete(files, Parsed(files))
  <1>1. n \in Nat /\ DOMAIN files = 1 .. n
    OBVIOUS
  <1>2. /\ own \in SUBSET (1 .. n) /\ all \in SUBSET (1 .. n)
        /\ Parsed(files) \in SUBSET (1 .. n)
    BY <1>1 DEF Complete, Own, Parsed
  <1>3. ChosenReport(files) = files[IF own # {} THEN Min(own)
                                    ELSE IF all # {} THEN Min(all) ELSE Max(Parsed(files))]
    BY DEF ChosenReport
  <1> HIDE DEF n, own, all
  <1>4. own # {} => Min(own) \in 1 .. n
    BY <1>1, <1>2, LeastPlace
  <1>5. all # {} => Min(all) \in 1 .. n
    BY <1>1, <1>2, LeastPlace
  <1>6. Max(Parsed(files)) \in 1 .. n
    BY <1>1, <1>2, LeastPlace
  <1> QED
    BY <1>1, <1>3, <1>4, <1>5, <1>6

(* A verdict of success stands on a file that vouches for it. *)
LEMMA VerdictVouched ==
  ASSUME NEW end \in Ends
  PROVE  LET verdict == Grade(end.harness)
         IN /\ verdict.success \in BOOLEAN
            /\ verdict.success => /\ ~end.harness.hangs
                                  /\ \E j \in DOMAIN end.harness.files : Vouches(end.harness.files[j])
  <1> DEFINE verdict == Grade(end.harness)
             files == end.harness.files
  <1>1. /\ files \in Seq(Range(files))
        /\ \A j \in DOMAIN files : "resolved" \in DOMAIN files[j] => files[j].resolved \in BOOLEAN
    BY BillingAssumption DEF Range
  <1> HIDE DEF files
  <1>2. CASE end.harness.hangs
    BY <1>2 DEF Grade, Failed
  <1>3. CASE ~end.harness.hangs /\ Parsed(files) = {}
    BY <1>3 DEF Grade, Parse, Failed, files
  <1>4. CASE ~end.harness.hangs /\ Parsed(files) # {}
    <2>1. PICK j \in DOMAIN files : ChosenReport(files) = files[j]
      BY <1>1, <1>4, ReportIsAFile
    <2> DEFINE chosen == files[j]
               tests == IF "tests" \in DOMAIN chosen THEN chosen.tests ELSE NoTests
    <2>2. verdict.success = IF "resolved" \in DOMAIN chosen THEN chosen.resolved ELSE AllPass(tests)
      BY <1>4, <2>1 DEF Grade, Parse, files
    <2>3. verdict.success \in BOOLEAN
      BY <1>1, <2>2 DEF AllPass
    <2>4. ASSUME verdict.success PROVE Vouches(chosen)
      <3>1. CASE "resolved" \in DOMAIN chosen
        BY <2>2, <2>4, <3>1 DEF Vouches
      <3>2. CASE "resolved" \notin DOMAIN chosen
        <4>1. AllPass(tests)
          BY <2>2, <2>4, <3>2
        <4>2. "tests" \in DOMAIN chosen
          BY <4>1 DEF AllPass, NoTests
        <4> QED
          BY <4>1, <4>2 DEF AllPass, Vouches
      <3> QED
        BY <3>1, <3>2
    <2> QED
      BY <1>4, <2>3, <2>4 DEF files
  <1> QED
    BY <1>2, <1>3, <1>4

-------------------------------------------------------------------------------
(*****************************************************************************)
(* The states.                                                               *)
(*****************************************************************************)

(* The rows logged since a try noted the length of the file are what the   *)
(* provider counted for their replies.                                     *)
TalliesOK ==
  /\ rows = [r \in Runs |-> rows[r]]
  /\ billed \in [Runs -> Sums]
  /\ \A r \in Runs : Tallied(rows[r], billed[r])

(* A solve that is not over failed once at most. *)
PhasesOK ==
  /\ phase \in [Runs -> {"waiting", "running", "over"}]
  /\ tries \in [Runs -> 0 .. 2]
  /\ ended = [r \in Runs |-> ended[r]]
  /\ \A r \in Runs : phase[r] # "over" => tries[r] <= 1
  /\ Len(answer) <= 1

(* A record of a solve that is over, so that neither its bill nor its end    *)
(* will change, says what both are.                                          *)
Sound(rec) ==
  /\ phase[rec.run] = "over"
  /\ ~rec.infra_failed /\ HasRealCacheFields(rec.usage) =>
       rec.cost_usd = RoundUsd(billed[rec.run].usd)
  /\ \/ /\ rec.input_tokens = billed[rec.run].input
        /\ rec.output_tokens = billed[rec.run].output
     \/ rec.infra_failed /\ rec.input_tokens = 0 /\ rec.output_tokens = 0
  /\ rec.success =>
       \E e \in {ended[rec.run][j] : j \in DOMAIN ended[rec.run]} :
         /\ ~e.harness.hangs
         /\ \E j \in DOMAIN e.harness.files : Vouches(e.harness.files[j])

(* The ledger holds such records only. *)
LedgerOK ==
  /\ IsLedger(ledger)
  /\ \A rec \in Range(ledger) : Sound(rec)

(* A report was made of the whole ledger. *)
ReportOK ==
  \/ report = <<>>
  \/ /\ \A r \in Runs : phase[r] = "over"
     /\ report = <<ChooseRanking(Aggregate(ledger))>>

(* The inductive invariant. *)
IInv == TalliesOK /\ PhasesOK /\ LedgerOK /\ ReportOK

(* A stub that knew no rows. *)
LEMMA NothingUsed == TotalOf(<<>>, "prompt_tokens") = 0 /\ TotalOf(<<>>, "completion_tokens") = 0
                     /\ IsRun(<<>>) /\ \A key \in CacheFields : TotalOf(<<>>, key) = 0
  <1>1. \A key : TotalOf(<<>>, key) = 0
    BY SumNothing DEF TotalOf
  <1> QED
    BY <1>1, NothingTallied DEF Tallied

(* The numbers of a graded record. *)
LEMMA FinishedRecord ==
  ASSUME NEW run, NEW sum, Tallied(run, sum)
  PROVE  LET cb == PriceRun(run, RatesFor(RunModel))
             cost == RoundUsd(TotalUsd(cb))
         IN /\ IsRun(run) /\ cost \in Nat
            /\ TotalOf(run, "prompt_tokens") = sum.input
            /\ TotalOf(run, "completion_tokens") = sum.output
            /\ sum.input \in Nat /\ sum.output \in Nat
            /\ cb.cache_write_tok \in Nat /\ cb.cache_read_tok \in Nat
            /\ cb.uncached_input_tok \in Nat
            /\ cb.cache_write_tok + cb.cache_read_tok + cb.uncached_input_tok = sum.input
            /\ HasRealCacheFields(run) => cost = RoundUsd(sum.usd)
  <1> DEFINE cb == PriceRun(run, RatesFor(RunModel))
  <1>1. /\ cb \in [Buckets -> Nat]
        /\ cb.cache_write_tok + cb.cache_read_tok + cb.uncached_input_tok = sum.input
        /\ HasRealCacheFields(run) => TotalUsd(cb) = sum.usd
    BY PricedRun
  <1>2. /\ IsRun(run) /\ sum \in Sums
        /\ TotalOf(run, "prompt_tokens") = sum.input
        /\ TotalOf(run, "completion_tokens") = sum.output
    BY DEF Tallied
  <1> HIDE DEF cb
  <1>3. RoundUsd(TotalUsd(cb)) \in Nat
    BY <1>1, TotalUsdNat, RoundUsdNat
  <1>4. sum.input \in Nat /\ sum.output \in Nat
    BY <1>2 DEF Sums
  <1>5. cb.cache_write_tok \in Nat /\ cb.cache_read_tok \in Nat /\ cb.uncached_input_tok \in Nat
    BY <1>1 DEF Buckets
  <1> QED
    BY <1>1, <1>2, <1>3, <1>4, <1>5 DEF cb

(* A ledger that gets a record. *)
LEMMA Recorded ==
  ASSUME IsLedger(ledger), NEW rec, IsRecord(rec),
         ~rec.infra_failed =>
            rec.cache_write_tok + rec.cache_read_tok + rec.uncached_input_tokens
              = rec.input_tokens
  PROVE  /\ IsLedger(Append(ledger, rec))
         /\ \A i \in DOMAIN Append(ledger, rec) :
              Append(ledger, rec)[i] = rec \/ \E j \in DOMAIN ledger : Append(ledger, rec)[i] = ledger[j]
  <1> DEFINE n == Len(ledger)
             led == Append(ledger, rec)
  <1>1. n \in Nat /\ DOMAIN ledger = 1 .. n /\ ledger = [i \in 1 .. n |-> ledger[i]]
    BY DEF IsLedger
  <1>2. /\ DOMAIN led = 1 .. (n + 1) /\ led[n + 1] = rec
        /\ \A i \in 1 .. n : led[i] = ledger[i]
        /\ led = [i \in 1 .. (n + 1) |-> led[i]]
    <2> DEFINE S == Range(ledger) \cup {rec}
    <2>1. ledger \in Seq(S) /\ rec \in S
      <3>1. ledger \in Seq(Range(ledger))
        BY DEF IsLedger
      <3>2. \A i \in 1 .. n : ledger[i] \in S
        BY <1>1 DEF Range
      <3> QED
        BY <1>1, <3>2
    <2> HIDE DEF S
    <2>2. led \in Seq(S) /\ Len(led) = n + 1 /\ led[n + 1] = rec
      BY <2>1
    <2>3. \A i \in 1 .. n : led[i] = ledger[i]
      BY <2>1
    <2>4. DOMAIN led = 1 .. (n + 1)
      BY <2>2
    <2>5. led = [i \in 1 .. (n + 1) |-> led[i]]
      <3> HIDE DEF led, n
      <3>1. led \in [1 .. Len(led) -> S]
        BY <2>2
      <3> QED
        BY <2>2, <3>1
    <2> QED
      BY <2>2, <2>3, <2>4, <2>5
  <1> HIDE DEF n, led
  <1>3. \A i \in DOMAIN led : led[i] = rec \/ \E j \in DOMAIN ledger : led[i] = ledger[j]
    <2>1. \A i \in 1 .. (n + 1) : i = n + 1 \/ i \in 1 .. n
      BY <1>1
    <2> QED
      BY <1>1, <1>2, <2>1
  <1>4. led \in Seq(Range(led))
    <2>1. \A i \in 1 .. (n + 1) : led[i] \in Range(led)
      BY <1>2 DEF Range
    <2>2. led \in [1 .. (n + 1) -> Range(led)] /\ n + 1 \in Nat
      BY <1>1, <1>2, <2>1
    <2> QED
      BY <2>2
  <1>5. IsLedger(led)
    BY <1>3, <1>4 DEF IsLedger
  <1> QED
    BY <1>3, <1>5 DEF led

-------------------------------------------------------------------------------
(*****************************************************************************)
(* The steps.                                                                *)
(*****************************************************************************)

(* A step leaves what it would take to falsify a record alone. *)
StaysOver ==
  \A r \in Runs : phase[r] = "over" =>
    phase'[r] = "over" /\ billed'[r] = billed[r] /\ ended'[r] = ended[r]

(* A record stays sound, *)
LEMMA SoundKept ==
  ASSUME NEW rec, rec.run \in Runs, Sound(rec), StaysOver
  PROVE  Sound(rec)'
  <1>1. /\ phase[rec.run] = "over" /\ phase'[rec.run] = "over"
        /\ billed'[rec.run] = billed[rec.run] /\ ended'[rec.run] = ended[rec.run]
    BY DEF Sound, StaysOver
  <1> QED
    BY <1>1 DEF Sound

(* so does a ledger that gets no record, *)
LEMMA LedgerKept ==
  ASSUME LedgerOK, StaysOver, UNCHANGED ledger
  PROVE  LedgerOK'
  <1>1. IsLedger(ledger)'
    BY DEF LedgerOK
  <1>2. ASSUME NEW rec \in Range(ledger) PROVE Sound(rec)'
    <2>1. rec.run \in Runs /\ Sound(rec)
      BY DEF LedgerOK, IsLedger, IsRecord, Range
    <2> QED
      BY <2>1, SoundKept
  <1>3. Range(ledger)' = Range(ledger)
    OBVIOUS
  <1> QED
    BY <1>1, <1>2, <1>3 DEF LedgerOK

(* and one that gets a sound one. *)
LEMMA LedgerGrown ==
  ASSUME LedgerOK, StaysOver, NEW new, ledger' = Append(ledger, new), IsRecord(new),
         ~new.infra_failed =>
            new.cache_write_tok + new.cache_read_tok + new.uncached_input_tokens
              = new.input_tokens,
         Sound(new)'
  PROVE  LedgerOK'
  <1>1. IsLedger(Append(ledger, new))
    BY Recorded DEF LedgerOK
  <1>2. \A i \in DOMAIN Append(ledger, new) :
          \/ Append(ledger, new)[i] = new
          \/ \E j \in DOMAIN ledger : Append(ledger, new)[i] = ledger[j]
    BY Recorded DEF LedgerOK
  <1>3. IsLedger(ledger') /\ \A rec \in Range(ledger') : rec = new \/ rec \in Range(ledger)
    BY <1>1, <1>2 DEF Range
  <1>4. ASSUME NEW rec \in Range(ledger) PROVE Sound(rec)'
    <2>1. rec.run \in Runs /\ Sound(rec)
      BY DEF LedgerOK, IsLedger, IsRecord, Range
    <2> QED
      BY <2>1, SoundKept
  <1>5. ASSUME NEW rec \in Range(ledger)' PROVE Sound(rec)'
    BY <1>3, <1>4
  <1>6. IsLedger(ledger)'
    BY <1>3 DEF IsLedger
  <1> QED
    BY <1>5, <1>6 DEF LedgerOK

(* The initial state. *)
LEMMA InitKept == Init => IInv
  <1> SUFFICES ASSUME Init PROVE IInv
    OBVIOUS
  <1>1. Nothing \in Sums
    BY DEF Nothing, Sums
  <1>2. TalliesOK
    BY <1>1, NothingTallied DEF Init, TalliesOK
  <1>3. PhasesOK
    BY DEF Init, PhasesOK
  <1>4. LedgerOK
    <2>1. Range(<<>>) = {} /\ DOMAIN <<>> = {}
      BY DEF Range
    <2>2. <<>> \in Seq({})
      OBVIOUS
    <2> QED
      BY <2>1, <2>2 DEF Init, LedgerOK, IsLedger
  <1>5. ReportOK
    BY DEF Init, ReportOK
  <1> QED
    BY <1>2, <1>3, <1>4, <1>5 DEF IInv

(* A try begins with nothing. *)
LEMMA StartKept ==
  ASSUME IInv, NEW r \in Runs, Start(r)
  PROVE  IInv'
  <1> USE DEF Start
  <1>1. TalliesOK'
    <2>1. Nothing \in Sums
      BY DEF Nothing, Sums
    <2>2. rows' = [rows EXCEPT ![r] = <<>>] /\ billed' = [billed EXCEPT ![r] = Nothing]
      OBVIOUS
    <2>3. /\ rows' = [q \in Runs |-> rows'[q]]
          /\ \A q \in Runs : rows'[q] = IF q = r THEN <<>> ELSE rows[q]
      BY <2>2 DEF IInv, TalliesOK
    <2>4. /\ billed' \in [Runs -> Sums]
          /\ \A q \in Runs : billed'[q] = IF q = r THEN Nothing ELSE billed[q]
      BY <2>1, <2>2 DEF IInv, TalliesOK
    <2>5. ASSUME NEW q \in Runs PROVE Tallied(rows'[q], billed'[q])
      BY <2>3, <2>4, NothingTallied DEF IInv, TalliesOK
    <2>6. ASSUME NEW q \in Runs PROVE Tallied(rows[q], billed[q])'
      BY <2>5 DEF Tallied
    <2> QED
      BY <2>3, <2>4, <2>6 DEF TalliesOK
  <1>2. PhasesOK'
    BY DEF IInv, PhasesOK
  <1>3. StaysOver
    BY DEF IInv, PhasesOK, TalliesOK, StaysOver
  <1>4. LedgerOK'
    BY <1>3, LedgerKept DEF IInv
  <1>5. ReportOK'
    BY DEF IInv, ReportOK
  <1> QED
    BY <1>1, <1>2, <1>4, <1>5 DEF IInv

(* A reply adds to its rows what it adds to the bill. *)
LEMMA ServeKept ==
  ASSUME IInv, NEW r \in Runs, NEW reply \in Replies, Serve(r, reply)
  PROVE  IInv'
  <1> USE DEF Serve, InFlight
  <1>1. TalliesOK'
    <2> DEFINE run == rows[r] \o RowsOf(reply.events)
               sum == Charge(billed[r], reply)
    <2>1. Tallied(run, sum)
      BY ReplyTallied DEF IInv, TalliesOK
    <2>2. sum \in Sums
      BY <2>1 DEF Tallied
    <2>3. rows' = [rows EXCEPT ![r] = run] /\ billed' = [billed EXCEPT ![r] = sum]
      OBVIOUS
    <2> HIDE DEF run, sum
    <2>4. /\ rows' = [q \in Runs |-> rows'[q]]
          /\ \A q \in Runs : rows'[q] = IF q = r THEN run ELSE rows[q]
      BY <2>3 DEF IInv, TalliesOK
    <2>5. /\ billed' \in [Runs -> Sums]
          /\ \A q \in Runs : billed'[q] = IF q = r THEN sum ELSE billed[q]
      BY <2>2, <2>3 DEF IInv, TalliesOK
    <2>6. ASSUME NEW q \in Runs PROVE Tallied(rows'[q], billed'[q])
      BY <2>1, <2>4, <2>5 DEF IInv, TalliesOK
    <2>7. ASSUME NEW q \in Runs PROVE Tallied(rows[q], billed[q])'
      BY <2>6 DEF Tallied
    <2> QED
      BY <2>4, <2>5, <2>7 DEF TalliesOK
  <1>2. PhasesOK'
    BY DEF IInv, PhasesOK
  <1>3. StaysOver
    <2>1. \A q \in Runs : q # r => billed'[q] = billed[q]
      BY DEF IInv, TalliesOK
    <2> QED
      BY <2>1 DEF StaysOver
  <1>4. LedgerOK'
    BY <1>3, LedgerKept DEF IInv
  <1>5. ReportOK'
    BY DEF IInv, ReportOK
  <1> QED
    BY <1>1, <1>2, <1>4, <1>5 DEF IInv

(* The record of a solve that ended is sound: nothing changes the bill or    *)
(* the end any more.                                                         *)
LEMMA FinishKept ==
  ASSUME IInv, NEW r \in Runs, NEW end \in Ends, Finish(r, end)
  PROVE  IInv'
  <1> DEFINE verdict == Grade(end.harness)
             cb == PriceRun(rows[r], RatesFor(RunModel))
             cost == RoundUsd(TotalUsd(cb))
             calls == Calls(r, end)
             base == Record(r, verdict.success, calls, cb, verdict.error)
             full == [base EXCEPT !.limit_death = LimitDeath(r, end), !.wall_s = end.wall_s]
  <1>1. /\ phase[r] = "running" /\ phase' = [phase EXCEPT ![r] = "over"]
        /\ ended' = [ended EXCEPT ![r] = <<end>>]
        /\ ledger' = Append(ledger, full)
        /\ answer' = <<>>
        /\ UNCHANGED <<tries, rows, report, billed>>
    BY DEF Finish
  <1>2. Tallied(rows[r], billed[r])
    BY DEF IInv, TalliesOK
  <1>3. /\ IsRun(rows[r]) /\ cost \in Nat
        /\ TotalOf(rows[r], "prompt_tokens") = billed[r].input
        /\ TotalOf(rows[r], "completion_tokens") = billed[r].output
        /\ billed[r].input \in Nat /\ billed[r].output \in Nat
        /\ cb.cache_write_tok \in Nat /\ cb.cache_read_tok \in Nat
        /\ cb.uncached_input_tok \in Nat
        /\ cb.cache_write_tok + cb.cache_read_tok + cb.uncached_input_tok = billed[r].input
        /\ HasRealCacheFields(rows[r]) => cost = RoundUsd(billed[r].usd)
    BY <1>2, FinishedRecord
  <1>4. /\ verdict.success \in BOOLEAN
        /\ verdict.success => /\ ~end.harness.hangs
                              /\ \E j \in DOMAIN end.harness.files : Vouches(end.harness.files[j])
    BY VerdictVouched
  <1>5. calls \in Nat /\ end.wall_s \in Nat
    <2>1. end.num_turns \in Nat /\ end.wall_s \in Nat
      BY BillingAssumption
    <2>2. Len(rows[r]) \in Nat
      BY <1>3 DEF IsRun
    <2> QED
      BY <2>1, <2>2 DEF Calls
  <1>6. LimitDeath(r, end) \in BOOLEAN
    BY DEF LimitDeath
  <1> HIDE DEF verdict, cb, cost, calls
  <1>7. /\ full.run = r /\ full.model = RunModel /\ full.success = verdict.success
        /\ full.limit_death = LimitDeath(r, end) /\ full.infra_failed = FALSE
        /\ full.input_tokens = TotalOf(rows[r], "prompt_tokens")
        /\ full.output_tokens = TotalOf(rows[r], "completion_tokens")
        /\ full.cache_write_tok = cb.cache_write_tok /\ full.cache_read_tok = cb.cache_read_tok
        /\ full.uncached_input_tokens = cb.uncached_input_tok
        /\ full.calls = calls /\ full.wall_s = end.wall_s /\ full.usage = rows[r]
        /\ full.cost_usd = cost
    BY DEF Record, cost
  <1> HIDE DEF base, full
  <1>8. IsRecord(full)
    BY <1>3, <1>4, <1>5, <1>6, <1>7 DEF IsRecord
  <1>9. /\ full.cache_write_tok + full.cache_read_tok + full.uncached_input_tokens = full.input_tokens
        /\ full.input_tokens = billed[r].input /\ full.output_tokens = billed[r].output
        /\ HasRealCacheFields(full.usage) => full.cost_usd = RoundUsd(billed[r].usd)
    BY <1>3, <1>7
  <1>10. PICK new : new = full
    OBVIOUS
  <1>11. phase'[r] = "over" /\ billed'[r] = billed[r] /\ ended'[r] = <<end>>
    BY <1>1 DEF IInv, PhasesOK
  <1>12. Sound(new)'
    <2>1. new.success =>
            \E e \in {ended'[r][j] : j \in DOMAIN ended'[r]} :
              /\ ~e.harness.hangs
              /\ \E j \in DOMAIN e.harness.files : Vouches(e.harness.files[j])
      BY <1>4, <1>7, <1>10, <1>11
    <2>2. new.run = r
      BY <1>7, <1>10
    <2> QED
      BY <1>9, <1>10, <1>11, <2>1, <2>2 DEF Sound
  <1>13. StaysOver
    BY <1>1 DEF IInv, PhasesOK, StaysOver
  <1>14. TalliesOK'
    <2>1. ASSUME NEW q \in Runs PROVE Tallied(rows[q], billed[q])'
      BY <1>1 DEF IInv, TalliesOK, Tallied
    <2> QED
      BY <1>1, <2>1 DEF IInv, TalliesOK
  <1>15. PhasesOK'
    <2>1. /\ phase' \in [Runs -> {"waiting", "running", "over"}]
          /\ \A q \in Runs : phase'[q] # "over" => phase[q] # "over"
      BY <1>1 DEF IInv, PhasesOK
    <2>2. ended' = [q \in Runs |-> ended'[q]]
      BY <1>1 DEF IInv, PhasesOK
    <2> QED
      BY <1>1, <2>1, <2>2 DEF IInv, PhasesOK
  <1>16. LedgerOK'
    <2>1. IsRecord(new) /\ ledger' = Append(ledger, new)
          /\ new.cache_write_tok + new.cache_read_tok + new.uncached_input_tokens = new.input_tokens
      BY <1>1, <1>8, <1>9, <1>10
    <2> QED
      BY <1>12, <1>13, <2>1, LedgerGrown DEF IInv
  <1>17. ReportOK'
    <2>1. report = <<>>
      BY <1>1 DEF IInv, ReportOK
    <2> QED
      BY <1>1, <2>1 DEF ReportOK
  <1> QED
    BY <1>14, <1>15, <1>16, <1>17 DEF IInv

(* Totals of a run are naturals. *)
LEMMA TotalNat ==
  ASSUME NEW run, IsRun(run), NEW key \in {"prompt_tokens", "completion_tokens"} \cup CacheFields
  PROVE  TotalOf(run, key) \in Nat
  <1> DEFINE f == [i \in DOMAIN run |-> Count(run[i], key)]
  <1>1. ASSUME NEW i \in DOMAIN run PROVE f[i] \in Nat
    <2>1. IsRow(run[i])
      BY DEF IsRun
    <2> QED
      BY <2>1 DEF IsRow, Count
  <1>2. DOMAIN f = DOMAIN run /\ IsFiniteSet(DOMAIN run)
    BY RunDomain
  <1> HIDE DEF f
  <1>3. SumFunction(f) \in Nat
    BY <1>1, <1>2, FunctionNat
  <1> QED
    BY <1>3 DEF TotalOf, f

(* The stub of a failed try. *)
LEMMA StubRecord ==
  ASSUME NEW r \in Runs, NEW known, IsRun(known), NEW run, IsRun(run), run = rows[r]
  PROVE  LET stub == Stub(r, known)
         IN /\ IsRecord(stub) /\ stub.infra_failed = TRUE /\ stub.success = FALSE /\ stub.run = r
            /\ stub.input_tokens = TotalOf(known, "prompt_tokens")
            /\ stub.output_tokens = TotalOf(known, "completion_tokens")
  <1> DEFINE cb == [NoCost EXCEPT
                      !.cache_write_tok = TotalOf(known, "cache_creation_input_tokens"),
                      !.cache_read_tok  = TotalOf(known, "cache_read_input_tokens")]
             cost == RoundUsd(TotalUsd(cb))
             base == Record(r, FALSE, Len(known), cb, "infra")
             stub == Stub(r, known)
  <1>1. /\ TotalOf(known, "prompt_tokens") \in Nat /\ TotalOf(known, "completion_tokens") \in Nat
        /\ TotalOf(known, "cache_creation_input_tokens") \in Nat
        /\ TotalOf(known, "cache_read_input_tokens") \in Nat
    BY TotalNat DEF CacheFields
  <1>2. cb \in [Buckets -> Nat]
    BY <1>1 DEF NoCost, Buckets
  <1>3. cost \in Nat
    <2> HIDE DEF cb
    <2> QED
      BY <1>2, TotalUsdNat, RoundUsdNat
  <1>4. Len(known) \in Nat
    BY DEF IsRun
  <1>5. /\ cb.cache_write_tok \in Nat /\ cb.cache_read_tok \in Nat /\ cb.uncached_input_tok \in Nat
    <2> HIDE DEF cb
    <2> QED
      BY <1>2 DEF Buckets
  <1>6. stub = [base EXCEPT !.input_tokens = TotalOf(known, "prompt_tokens"),
                            !.output_tokens = TotalOf(known, "completion_tokens"),
                            !.usage = <<>>, !.infra_failed = TRUE]
    BY DEF Stub
  <1> HIDE DEF cb, stub
  <1>7. /\ stub.run = r /\ stub.model = RunModel /\ stub.success = FALSE
        /\ stub.limit_death = FALSE /\ stub.infra_failed = TRUE
        /\ stub.input_tokens = TotalOf(known, "prompt_tokens")
        /\ stub.output_tokens = TotalOf(known, "completion_tokens")
        /\ stub.cache_write_tok = cb.cache_write_tok /\ stub.cache_read_tok = cb.cache_read_tok
        /\ stub.uncached_input_tokens = cb.uncached_input_tok
        /\ stub.calls = Len(known) /\ stub.wall_s = 0 /\ stub.usage = <<>>
        /\ stub.cost_usd = cost
    <2>1. /\ base.run = r /\ base.model = RunModel /\ base.success = FALSE
          /\ base.limit_death = FALSE /\ base.cache_write_tok = cb.cache_write_tok
          /\ base.cache_read_tok = cb.cache_read_tok
          /\ base.uncached_input_tokens = cb.uncached_input_tok
          /\ base.calls = Len(known) /\ base.wall_s = 0 /\ base.cost_usd = cost
          /\ DOMAIN base = {"run", "arm", "model", "success", "input_tokens", "output_tokens",
               "cache_write_tok", "cache_read_tok", "uncached_input_tokens", "calls",
               "cost_usd", "cost_usd_list", "usage", "limit_death", "wall_s",
               "infra_failed", "error"}
      BY DEF Record
    <2> HIDE DEF base, cost
    <2> QED
      BY <1>6, <2>1
  <1> HIDE DEF base, cost
  <1>8. IsRecord(stub)
    <2>1. IsRun(stub.usage)
      BY <1>7, NothingUsed
    <2>2. stub.success \in BOOLEAN /\ stub.limit_death \in BOOLEAN /\ stub.infra_failed \in BOOLEAN
      BY <1>7, Zenon
    <2>3. stub.run \in Runs /\ stub.model = RunModel
      BY <1>7
    <2>4. stub.input_tokens \in Nat /\ stub.output_tokens \in Nat /\ stub.cost_usd \in Nat
      BY <1>1, <1>3, <1>7
    <2>5. stub.cache_write_tok \in Nat /\ stub.cache_read_tok \in Nat
          /\ stub.uncached_input_tokens \in Nat /\ stub.calls \in Nat /\ stub.wall_s \in Nat
      BY <1>4, <1>5, <1>7
    <2> QED
      BY <2>1, <2>2, <2>3, <2>4, <2>5 DEF IsRecord
  <1> QED
    BY <1>7, <1>8 DEF stub

(* A try that fails. *)
LEMMA FailKept ==
  ASSUME IInv, NEW r \in Runs, NEW known, Fail(r, known)
  PROVE  IInv'
  <1>1. /\ phase[r] = "running" /\ known \in {rows[r], <<>>}
        /\ tries' = [tries EXCEPT ![r] = @ + 1]
        /\ answer' = <<>> /\ UNCHANGED <<rows, report, billed, ended>>
    BY DEF Fail
  <1>2. \/ phase' = [phase EXCEPT ![r] = "waiting"] /\ UNCHANGED ledger /\ tries[r] = 0
        \/ phase' = [phase EXCEPT ![r] = "over"] /\ ledger' = Append(ledger, Stub(r, known))
    BY DEF Fail
  <1>3. tries[r] \in 0 .. 1
    BY <1>1 DEF IInv, PhasesOK
  <1>4. StaysOver
    BY <1>1, <1>2 DEF IInv, PhasesOK, StaysOver
  <1>5. TalliesOK'
    <2>1. ASSUME NEW q \in Runs PROVE Tallied(rows[q], billed[q])'
      BY <1>1 DEF IInv, TalliesOK, Tallied
    <2> QED
      BY <1>1, <2>1 DEF IInv, TalliesOK
  <1>6. PhasesOK'
    <2>1. phase' \in [Runs -> {"waiting", "running", "over"}]
      BY <1>2 DEF IInv, PhasesOK
    <2>2. /\ tries' \in [Runs -> 0 .. 2] /\ tries'[r] = tries[r] + 1
          /\ \A q \in Runs : q # r => tries'[q] = tries[q] /\ phase'[q] = phase[q]
      BY <1>1, <1>2, <1>3 DEF IInv, PhasesOK
    <2>3. ASSUME NEW q \in Runs, phase'[q] # "over" PROVE tries'[q] <= 1
      BY <1>2, <2>2, <2>3 DEF IInv, PhasesOK
    <2> QED
      BY <1>1, <2>1, <2>2, <2>3 DEF IInv, PhasesOK
  <1>7. LedgerOK'
    <2>1. CASE UNCHANGED ledger
      BY <1>4, <2>1, LedgerKept DEF IInv
    <2>2. CASE phase' = [phase EXCEPT ![r] = "over"] /\ ledger' = Append(ledger, Stub(r, known))
      <3>1. Tallied(rows[r], billed[r])
        BY DEF IInv, TalliesOK
      <3>2. PICK run : run = rows[r]
        OBVIOUS
      <3>3. IsRun(run) /\ IsRun(known)
        BY <1>1, <3>1, <3>2, NothingUsed DEF Tallied
      <3> DEFINE stub == Stub(r, known)
      <3>4. IsRecord(stub) /\ stub.infra_failed = TRUE /\ stub.success = FALSE /\ stub.run = r
        BY <3>2, <3>3, StubRecord
      <3>5. /\ stub.input_tokens = TotalOf(known, "prompt_tokens")
            /\ stub.output_tokens = TotalOf(known, "completion_tokens")
        BY <3>2, <3>3, StubRecord
      <3>6. \/ stub.input_tokens = billed[r].input /\ stub.output_tokens = billed[r].output
            \/ stub.input_tokens = 0 /\ stub.output_tokens = 0
        BY <1>1, <3>1, <3>5, NothingUsed DEF Tallied
      <3> HIDE DEF stub
      <3>7. PICK new : new = stub
        OBVIOUS
      <3>8. phase'[r] = "over" /\ billed'[r] = billed[r]
        BY <1>1, <2>2 DEF IInv, PhasesOK
      <3>9. Sound(new)'
        BY <3>4, <3>6, <3>7, <3>8 DEF Sound
      <3>10. ledger' = Append(ledger, new)
        BY <2>2, <3>7 DEF stub
      <3>11. IsRecord(new) /\ new.infra_failed
        BY <3>4, <3>7
      <3> QED
        BY <1>4, <3>9, <3>10, <3>11, LedgerGrown DEF IInv
    <2> QED
      BY <1>2, <2>1, <2>2
  <1>8. ReportOK'
    <2>1. report = <<>>
      BY <1>1 DEF IInv, ReportOK
    <2> QED
      BY <1>1, <2>1 DEF ReportOK
  <1> QED
    BY <1>5, <1>6, <1>7, <1>8 DEF IInv

-------------------------------------------------------------------------------
(*****************************************************************************)
(* The theorems.                                                             *)
(*****************************************************************************)

(* Every step keeps the invariant. *)
LEMMA NextKept == IInv /\ [Next]_vars => IInv'
  <1> SUFFICES ASSUME IInv, [Next]_vars PROVE IInv'
    OBVIOUS
  <1>1. ASSUME NEW r \in Runs, Start(r) PROVE IInv'
    BY <1>1, StartKept
  <1>2. ASSUME NEW r \in Runs, NEW reply \in Replies, Serve(r, reply) PROVE IInv'
    BY <1>2, ServeKept
  <1>3. ASSUME NEW r \in Runs, NEW end \in Ends, Finish(r, end) PROVE IInv'
    BY <1>3, FinishKept
  <1>4. ASSUME NEW r \in Runs, NEW known \in {rows[r], <<>>}, Fail(r, known) PROVE IInv'
    <2>1. PICK what : what = known
      OBVIOUS
    <2>2. Fail(r, what)
      BY <1>4, <2>1
    <2> QED
      BY <2>2, FailKept
  <1>5. ASSUME BuildReport PROVE IInv'
    <2> USE <1>5 DEF BuildReport
    <2>1. TalliesOK'
      <3>1. ASSUME NEW q \in Runs PROVE Tallied(rows[q], billed[q])'
        BY DEF IInv, TalliesOK, Tallied
      <3> QED
        BY <3>1 DEF IInv, TalliesOK
    <2>2. PhasesOK'
      BY DEF IInv, PhasesOK
    <2>3. StaysOver
      BY DEF StaysOver
    <2>4. LedgerOK'
      BY <2>3, LedgerKept DEF IInv
    <2>5. ReportOK'
      <3>1. ledger' = ledger /\ report' = <<ChooseRanking(Aggregate(ledger))>>
        OBVIOUS
      <3>2. ChooseRanking(Aggregate(ledger))' = ChooseRanking(Aggregate(ledger))
        BY <3>1 DEF ChooseRanking, Aggregate
      <3> QED
        BY <3>1, <3>2 DEF ReportOK
    <2> QED
      BY <2>1, <2>2, <2>4, <2>5 DEF IInv
  <1>6. CASE UNCHANGED vars
    <2>1. /\ phase' = phase /\ tries' = tries /\ rows' = rows /\ ledger' = ledger
          /\ report' = report /\ billed' = billed /\ answer' = answer /\ ended' = ended
      BY <1>6 DEF vars
    <2>2. TalliesOK'
      <3>1. ASSUME NEW q \in Runs PROVE Tallied(rows[q], billed[q])'
        BY <2>1 DEF IInv, TalliesOK, Tallied
      <3> QED
        BY <2>1, <3>1 DEF IInv, TalliesOK
    <2>3. PhasesOK'
      BY <2>1 DEF IInv, PhasesOK
    <2>4. StaysOver
      BY <2>1 DEF StaysOver
    <2>5. LedgerOK'
      BY <2>1, <2>4, LedgerKept DEF IInv
    <2>6. ReportOK'
      <3>1. ChooseRanking(Aggregate(ledger))' = ChooseRanking(Aggregate(ledger))
        BY <2>1 DEF ChooseRanking, Aggregate
      <3> QED
        BY <2>1, <3>1 DEF IInv, ReportOK
    <2> QED
      BY <2>2, <2>3, <2>5, <2>6 DEF IInv
  <1> QED
    BY <1>1, <1>2, <1>3, <1>4, <1>5, <1>6 DEF Next

(* The invariant holds. *)
LEMMA Invariant == Spec => []IInv
  BY InitKept, NextKept, PTL DEF Spec

(* Everything is well typed, whatever the replies, the rates and the ends. *)
THEOREM BillingTypeCorrect == Spec => []TypeOK
  <1>1. IInv => TypeOK
    <2> SUFFICES ASSUME IInv PROVE TypeOK
      OBVIOUS
    <2>1. /\ phase \in [Runs -> {"waiting", "running", "over"}] /\ tries \in [Runs -> 0 .. 2]
          /\ Len(answer) <= 1
      BY DEF IInv, PhasesOK
    <2>2. billed \in [Runs -> [usd : Nat, input : Nat, output : Nat]]
      BY DEF IInv, TalliesOK, Sums
    <2>3. \A r \in Runs : \A i \in DOMAIN rows[r] :
            rows[r][i].prompt_tokens \in Nat /\ rows[r][i].completion_tokens \in Nat
      BY DEF IInv, TalliesOK, Tallied, IsRun, IsRow
    <2>4. \A i \in DOMAIN ledger :
            /\ ledger[i].run \in Runs /\ ledger[i].cost_usd \in Nat
            /\ ledger[i].success \in BOOLEAN /\ ledger[i].limit_death \in BOOLEAN
      BY DEF IInv, LedgerOK, IsLedger, IsRecord
    <2>5. Len(report) <= 1
      BY DEF IInv, ReportOK
    <2> QED
      BY <2>1, <2>2, <2>3, <2>4, <2>5 DEF TypeOK
  <1> QED
    BY <1>1, Invariant, PTL

(* Every record is sound. *)
LEMMA RecordsSound == IInv => \A i \in DOMAIN ledger : Sound(ledger[i])
  BY DEF IInv, LedgerOK, Range

(* A graded record with a cache field costs what the provider charges for    *)
(* the solve, for any price table, any replies and any mix of models:        *)
(* price_run over the rows of usage_from_sse and extract_usage.              *)
THEOREM RecordsPricedAsBilled == Spec => []PricedAsBilled
  <1>1. IInv => PricedAsBilled
    BY RecordsSound DEF PricedAsBilled, Graded, Sound
  <1> QED
    BY <1>1, Invariant, PTL

(* The tokens of a record are those the provider counted for the replies     *)
(* that were logged after the last try noted the length of the file, or      *)
(* none, in the stub of an exception that knew no rows.                      *)
THEOREM RecordsHoldSlice == Spec => []RecordsHoldTheSlice
  <1>1. IInv => RecordsHoldTheSlice
    BY RecordsSound DEF RecordsHoldTheSlice, Sound
  <1> QED
    BY <1>1, Invariant, PTL

(* A record says solved only if the harness of its own run ended and left a  *)
(* file that vouches for it (_parse).                                        *)
THEOREM SolvedIsReported == Spec => []SolvedOnlyIfReported
  <1>1. IInv => SolvedOnlyIfReported
    BY RecordsSound DEF SolvedOnlyIfReported, Sound
  <1> QED
    BY <1>1, Invariant, PTL

(* Written, read and uncached tokens are all of the input, of every graded   *)
(* record and of every arm, whichever way the rows were priced.              *)
THEOREM BucketsAddUp == Spec => []BucketsPartitionInput
  <1>1. IInv => BucketsPartitionInput
    <2> SUFFICES ASSUME IInv PROVE BucketsPartitionInput
      OBVIOUS
    <2>1. PICK led : led = ledger
      OBVIOUS
    <2>2. IsLedger(led)
      BY <2>1 DEF IInv, LedgerOK
    <2>3. ASSUME NEW i \in DOMAIN led, ~led[i].infra_failed
          PROVE  led[i].cache_write_tok + led[i].cache_read_tok + UncachedInputTok(led[i])
                   = led[i].input_tokens
      <3>1. IsRecord(led[i])
            /\ led[i].cache_write_tok + led[i].cache_read_tok + led[i].uncached_input_tokens
                 = led[i].input_tokens
        BY <2>2, <2>3 DEF IsLedger
      <3> QED
        BY <3>1, RecordSums
    <2>4. \A k \in DOMAIN Aggregate(led) :
            LET a == Aggregate(led)[k]
            IN a.cache_write_tok + a.cache_read_tok + a.uncached_tok = a.input_tokens
      BY <2>2, AggregateIsTable
    <2> QED
      BY <2>1, <2>3, <2>4 DEF BucketsPartitionInput, Graded
  <1> QED
    BY <1>1, Invariant, PTL

(* A report ranks a table. *)
LEMMA ReportOfTable ==
  ASSUME IInv
  PROVE  \A i \in DOMAIN report : \E aggs : IsTable(aggs) /\ report[i] = ChooseRanking(aggs)
  <1>1. PICK led : led = ledger
    OBVIOUS
  <1>2. IsTable(Aggregate(led))
    BY <1>1, AggregateIsTable DEF IInv, LedgerOK
  <1>3. CASE report = <<ChooseRanking(Aggregate(ledger))>>
    BY <1>1, <1>2, <1>3
  <1> QED
    BY <1>3 DEF IInv, ReportOK

(* The published ranking is honest, for any ledger of any number of arms:    *)
(* the leader is beaten by nobody, and the primary metric is left only for   *)
(* the first ordering that puts the hero first (choose_ranking).             *)
THEOREM CascadeHonest == Spec => []CascadeIsHonest
  <1>1. IInv => CascadeIsHonest
    <2> SUFFICES ASSUME IInv, NEW i \in DOMAIN report
                 PROVE  LET rep == report[i]
                            Undercut(label, a) == \E j \in DOMAIN rep.ranked : Better(label, rep.ranked[j], a)
                            Alone(label, a)    == \A j \in DOMAIN rep.ranked :
                                rep.ranked[j] = a \/ Better(label, a, rep.ranked[j])
                            hero  == {a \in Range(rep.ranked) : a.arm = Hero}
                            place == CHOOSE k \in DOMAIN Orderings : Orderings[k] = rep.ordering
                        IN /\ rep.ranked # <<>> => ~Undercut(rep.ordering, rep.ranked[1])
                           /\ rep.hero_is_first <=> rep.ranked # <<>> /\ rep.ranked[1].arm = Hero
                           /\ rep.fell_back <=> place # 1
                           /\ rep.fell_back => rep.hero_is_first
                           /\ \A a \in hero, k \in 1 .. place - 1 : ~Alone(Orderings[k], a)
                           /\ \A a \in hero : ~rep.hero_is_first =>
                                \A k \in DOMAIN Orderings : ~Alone(Orderings[k], a)
      BY DEF CascadeIsHonest
    <2>1. PICK aggs : IsTable(aggs) /\ report[i] = ChooseRanking(aggs)
      BY ReportOfTable
    <2> QED
      BY <2>1, RankingHonest
  <1> QED
    BY <1>1, Invariant, PTL

(* An arm that does as much for less, or more for no more, is not ranked     *)
(* below the arm it beats while the primary metric is in use.                *)
THEOREM DominanceNotBroken == Spec => []DominanceKept
  <1>1. IInv => DominanceKept
    <2> SUFFICES ASSUME IInv, NEW k \in DOMAIN report, ~report[k].fell_back
                 PROVE  \A i, j \in DOMAIN report[k].ranked :
                          LET a == report[k].ranked[i]
                              b == report[k].ranked[j]
                          IN /\ a.n_success >= b.n_success /\ a.cost_usd <= b.cost_usd
                             /\ a.cost_usd < b.cost_usd
                                  \/ (a.cost_usd > 0 /\ a.n_success > AtLeastOne(b.n_success))
                             => i < j
      BY DEF DominanceKept
    <2>1. PICK aggs : IsTable(aggs) /\ report[k] = ChooseRanking(aggs)
      BY ReportOfTable
    <2> QED
      BY <2>1, DominanceRanked
  <1> QED
    BY <1>1, Invariant, PTL

-------------------------------------------------------------------------------
(*****************************************************************************)
(* The message assembled from a stream.                                      *)
(*****************************************************************************)

(* What is known of the message after n events. *)
Taken(events, n) == FoldOn("stream", events, 1 .. n)

LEMMA TakenSteps ==
  ASSUME NEW events, NEW n \in Nat
  PROVE  /\ Taken(events, 0) = NoBlocks
         /\ Taken(events, n + 1) = AddEvent(Taken(events, n), events[n + 1])
  <1>1. Foldable("stream", 1 .. n + 1)
    BY FS_Interval DEF Foldable
  <1>2. Pick("stream", 1 .. n + 1) = n + 1
    <2>1. n + 1 \in 1 .. n + 1 /\ \A y \in 1 .. n + 1 : n + 1 >= y
      OBVIOUS
    <2>2. \A x \in 1 .. n + 1 : (\A y \in 1 .. n + 1 : x >= y) => x = n + 1
      OBVIOUS
    <2> QED
      BY <2>1, <2>2 DEF Pick, Latest
  <1>3. (1 .. n + 1) \ {n + 1} = 1 .. n /\ 1 .. n + 1 # {} /\ 1 .. 0 = {}
    OBVIOUS
  <1>4. FoldOn("stream", events, 1 .. n + 1)
          = Turn("stream", events[n + 1], FoldOn("stream", events, 1 .. n))
    BY <1>1, <1>2, <1>3, FoldUnroll
  <1>5. FoldOn("stream", events, 1 .. 0) = NoBlocks
    BY <1>3, FoldEmpty DEF Base
  <1> QED
    BY <1>4, <1>5 DEF Taken, Turn

(* Places counted from the first: a later one becomes the last. *)
LEMMA PlaceAdded ==
  ASSUME NEW P, IsFiniteSet(P), P \subseteq Nat, NEW m \in Nat, \A p \in P : p < m
  PROVE  /\ Cardinality(P) \in Nat /\ Cardinality(P \cup {m}) = Cardinality(P) + 1
         /\ \A k \in 1 .. Cardinality(P) : Nth(P \cup {m}, k) = Nth(P, k)
         /\ Nth(P \cup {m}, Cardinality(P) + 1) = m
  <1> DEFINE Q == P \cup {m}
             UpTo(S, p) == Cardinality({q \in S : q <= p})
  <1>1. Cardinality(P) \in Nat /\ Cardinality(Q) = Cardinality(P) + 1
    BY FS_CardinalityType, FS_AddElement
  <1>2. \A p \in P : UpTo(Q, p) = UpTo(P, p) /\ UpTo(P, p) <= Cardinality(P)
    <2>1. ASSUME NEW p \in P PROVE {q \in Q : q <= p} = {q \in P : q <= p}
      OBVIOUS
    <2>2. ASSUME NEW p \in P PROVE UpTo(P, p) <= Cardinality(P)
      BY FS_Subset
    <2> QED
      BY <2>1, <2>2
  <1>3. UpTo(Q, m) = Cardinality(P) + 1
    <2>1. \A q \in Q : q <= m
      OBVIOUS
    <2>2. {q \in Q : q <= m} = Q
      BY <2>1
    <2> HIDE DEF Q
    <2> QED
      BY <1>1, <2>2
  <1>4. \A p \in P : UpTo(P, p) \in Nat
    <2>1. ASSUME NEW p \in P PROVE IsFiniteSet({q \in P : q <= p})
      BY FS_Subset
    <2> QED
      BY <2>1, FS_CardinalityType
  <1> HIDE DEF UpTo
  <1>5. ASSUME NEW k \in 1 .. Cardinality(P)
        PROVE  \A p : (p \in Q /\ UpTo(Q, p) = k) <=> (p \in P /\ UpTo(P, p) = k)
    <2>1. \A p : p \in Q <=> p \in P \/ p = m
      OBVIOUS
    <2>2. UpTo(Q, m) # k /\ m \notin P
      BY <1>1, <1>3
    <2> HIDE DEF Q
    <2> QED
      BY <1>2, <2>1, <2>2
  <1>6. ASSUME NEW k \in 1 .. Cardinality(P)
        PROVE  (CHOOSE p \in Q : UpTo(Q, p) = k) = (CHOOSE p \in P : UpTo(P, p) = k)
    <2> HIDE DEF Q
    <2> QED
      BY <1>5, <1>6, Zenon
  <1>7. (CHOOSE p \in Q : UpTo(Q, p) = Cardinality(P) + 1) = m
    <2>1. \A p \in Q : UpTo(Q, p) = Cardinality(P) + 1 <=> p = m
      BY <1>1, <1>2, <1>3, <1>4
    <2> QED
      BY <2>1
  <1> QED
    BY <1>1, <1>6, <1>7 DEF Nth, UpTo

(* There is a k-th place. *)
LEMMA NthIn ==
  ASSUME NEW P, Foldable("stream", P)
  PROVE  \A k \in 1 .. Cardinality(P) : Nth(P, k) \in P
  <1> DEFINE Good(R) == \A i \in 1 .. Cardinality(R) : Nth(R, i) \in R
             T == {R \in SUBSET P : ~Good(R)}
  <1>0. T \in SUBSET SUBSET P
    OBVIOUS
  <1>1. \A R \in SUBSET P : R \in T <=> ~Good(R)
    OBVIOUS
  <1>2. SUFFICES ASSUME T # {} PROVE FALSE
    <2>1. T = {} => Good(P)
      BY <1>1
    <2> QED
      BY <2>1
  <1> HIDE DEF T, Good
  <1>3. PICK R \in T : \A Q \in T : Q \subseteq R => Q = R
    BY <1>0, <1>2, MinimalSubset DEF Foldable
  <1>4. R \in SUBSET P /\ ~Good(R) /\ IsFiniteSet(R) /\ R \subseteq Nat
    BY <1>0, <1>1, FS_Subset DEF Foldable
  <1>5. R # {}
    BY <1>4, FS_EmptySet DEF Good
  <1>6. PICK m \in R : \A y \in R : y <= m
    <2> DEFINE f == [x \in R |-> x]
    <2>1. \A x \in R : f[x] \in Int
      BY <1>4
    <2>2. \E x \in R : \A y \in R : f[y] <= f[x]
      <3> HIDE DEF f
      <3> QED
        BY <1>4, <1>5, <2>1, Greatest
    <2> QED
      BY <2>2
  <1> DEFINE S == R \ {m}
  <1>7. S \in SUBSET P /\ S \subseteq R /\ S # R /\ IsFiniteSet(S) /\ S \subseteq Nat /\ S \cup {m} = R
    BY <1>4, FS_Subset
  <1>8. Good(S)
    BY <1>1, <1>3, <1>7
  <1>9. m \in Nat /\ \A p \in S : p < m
    BY <1>4, <1>6
  <1> HIDE DEF S
  <1>10. /\ Cardinality(S) \in Nat /\ Cardinality(R) = Cardinality(S) + 1
         /\ \A i \in 1 .. Cardinality(S) : Nth(R, i) = Nth(S, i)
         /\ Nth(R, Cardinality(S) + 1) = m
    BY <1>7, <1>9, PlaceAdded
  <1>11. Good(R)
    BY <1>6, <1>7, <1>8, <1>10 DEF Good
  <1> QED
    BY <1>4, <1>11

(* What a sequence holds at some places, and at one more. *)
LEMMA OnlyGrows ==
  ASSUME NEW f, NEW n \in Nat, NEW P \in SUBSET (1 .. n)
  PROVE  /\ Only(f, {}) = <<>>
         /\ Only(f, P \cup {n + 1}) = Append(Only(f, P), f[n + 1])
  <1>1. Cardinality({}) = 0
    BY FS_EmptySet
  <1>2. Only(f, {}) = <<>>
    BY <1>1 DEF Only
  <1>3. /\ P \subseteq Nat /\ n + 1 \in Nat
        /\ \A p \in P : p < n + 1
    OBVIOUS
  <1>4. IsFiniteSet(P)
    <2>1. IsFiniteSet(1 .. n)
      BY FS_Interval
    <2> QED
      BY <2>1, FS_Subset
  <1> DEFINE Q == P \cup {n + 1}
             c == Cardinality(P)
             s == Only(f, P)
  <1>5. /\ c \in Nat /\ Cardinality(Q) = c + 1
        /\ \A k \in 1 .. c : Nth(Q, k) = Nth(P, k)
        /\ Nth(Q, c + 1) = n + 1
    BY <1>3, <1>4, PlaceAdded
  <1>6. s = [k \in 1 .. c |-> f[Nth(P, k)]]
    BY DEF Only
  <1>7. Only(f, Q) = [k \in 1 .. c + 1 |-> f[Nth(Q, k)]]
    BY <1>5 DEF Only
  <1> HIDE DEF Q, c, s
  <1>8. s \in Seq({f[Nth(P, k)] : k \in 1 .. c}) /\ Len(s) = c
    BY <1>5, <1>6
  <1>9. Append(s, f[n + 1]) = [k \in 1 .. c + 1 |-> IF k <= c THEN s[k] ELSE f[n + 1]]
    BY <1>5, <1>8
  <1>10. \A k \in 1 .. c + 1 : f[Nth(Q, k)] = IF k <= c THEN s[k] ELSE f[n + 1]
    BY <1>5, <1>6
  <1>11. Only(f, Q) = Append(s, f[n + 1])
    BY <1>7, <1>9, <1>10
  <1> QED
    BY <1>2, <1>11 DEF Q, s

(* What n events say of the block that the j-th opened. *)
Known(events, n) == EventsOf(events, "content_block_start") \cap 1 .. n
PieceOf(events) == [i \in DOMAIN events |-> events[i].piece]
IndexOf(events) == [i \in DOMAIN events |-> events[i].index]
Got(events, index, delta, n) == Only(PieceOf(events), DeltasFor(events, index, delta) \cap 1 .. n)

Ended(events, j, n) ==
  /\ events[j].block = "tool_use"
  /\ \E s \in EventsOf(events, "content_block_stop") \cap 1 .. n :
       /\ j < s /\ events[s].index = events[j].index
       /\ \A i \in DeltasFor(events, events[j].index, "input_json_delta") : i < s

BlockIs(events, j, n, block) ==
  /\ block = [type |-> events[j].block, text |-> Got(events, events[j].index, "text_delta", n),
              json |-> Got(events, events[j].index, "input_json_delta", n), input |-> block.input]
  /\ Ended(events, j, n) =>
       block.input = Only(PieceOf(events), DeltasFor(events, events[j].index, "input_json_delta"))

(* What n events say of the message. *)
MessageIs(events, n, acc) ==
  /\ acc = [blocks |-> acc.blocks, order |-> acc.order]
  /\ acc.order = Only(IndexOf(events), Known(events, n))
  /\ acc.blocks = [i \in {events[j].index : j \in Known(events, n)} |-> acc.blocks[i]]
  /\ \A j \in Known(events, n) : BlockIs(events, j, n, acc.blocks[events[j].index])

(* A block is not concerned by an event that is not for it. *)
LEMMA BlockKept ==
  ASSUME NEW events, events \in Seq(Range(events)), NEW n \in Nat, n + 1 <= Len(events),
         NEW j, NEW block, BlockIs(events, j, n, block),
         \/ events[n + 1].type \notin {"content_block_delta", "content_block_stop"}
         \/ events[n + 1].index # events[j].index
         \/ /\ events[n + 1].type = "content_block_delta"
            /\ events[n + 1].delta \notin {"text_delta", "input_json_delta"}
         \/ /\ events[n + 1].type = "content_block_stop"
            /\ events[j].block # "tool_use"
  PROVE  BlockIs(events, j, n + 1, block)
  <1>1. DOMAIN events = 1 .. Len(events) /\ Len(events) \in Nat
    OBVIOUS
  <1>2. \A delta \in {"text_delta", "input_json_delta"} :
          DeltasFor(events, events[j].index, delta) \cap 1 .. n + 1
            = DeltasFor(events, events[j].index, delta) \cap 1 .. n
    BY <1>1 DEF DeltasFor, EventsOf
  <1>3. Ended(events, j, n + 1) => Ended(events, j, n)
    BY <1>1 DEF Ended, EventsOf
  <1> QED
    BY <1>2, <1>3 DEF BlockIs, Got

(* The event opens a block. *)
LEMMA BlockOpened ==
  ASSUME NEW events, InOrder(events), NEW n \in Nat, n + 1 <= Len(events),
         NEW acc, MessageIs(events, n, acc), events[n + 1].type = "content_block_start"
  PROVE  MessageIs(events, n + 1, AddEvent(acc, events[n + 1]))
  <1> DEFINE e == events[n + 1]
             K == Known(events, n)
             next == AddEvent(acc, e)
  <1>1. /\ events \in Seq(Range(events)) /\ DOMAIN events = 1 .. Len(events) /\ Len(events) \in Nat
        /\ \A i, j \in EventsOf(events, "content_block_start") :
             events[i].index = events[j].index => i = j
        /\ \A i \in EventsOf(events, "content_block_delta") :
             \E j \in EventsOf(events, "content_block_start") : j < i /\ events[j].index = events[i].index
    BY DEF InOrder
  <1>2. /\ Known(events, n + 1) = K \cup {n + 1} /\ K \in SUBSET (1 .. n)
        /\ n + 1 \in DOMAIN events
    BY <1>1 DEF Known, EventsOf
  <1>3. \A j \in K : events[j].index # e.index
    BY <1>1, <1>2 DEF Known, EventsOf
  <1>4. next = [blocks |-> [i \in {e.index} \cup DOMAIN acc.blocks |->
                              IF i = e.index THEN Opened(e) ELSE acc.blocks[i]],
                order  |-> Append(acc.order, e.index)]
    BY DEF AddEvent
  <1>5. next.order = Only(IndexOf(events), Known(events, n + 1))
    <2>1. Only(IndexOf(events), K \cup {n + 1}) = Append(Only(IndexOf(events), K), IndexOf(events)[n + 1])
      BY <1>2, OnlyGrows
    <2>2. IndexOf(events)[n + 1] = e.index
      BY <1>2 DEF IndexOf
    <2>3. acc.order = Only(IndexOf(events), K)
      BY DEF MessageIs
    <2>4. next.order = Append(acc.order, e.index)
      BY <1>4
    <2>5. Known(events, n + 1) = K \cup {n + 1}
      BY <1>2
    <2> HIDE DEF next, e, K
    <2> QED
      BY <2>1, <2>2, <2>3, <2>4, <2>5
  <1>6. next.blocks = [i \in {events[j].index : j \in Known(events, n + 1)} |-> next.blocks[i]]
    <2>1. DOMAIN acc.blocks = {events[j].index : j \in K}
      BY DEF MessageIs
    <2>2. {e.index} \cup DOMAIN acc.blocks = {events[j].index : j \in Known(events, n + 1)}
      BY <1>2, <2>1
    <2> QED
      BY <1>4, <2>2
  <1>7. ASSUME NEW j \in K
        PROVE  BlockIs(events, j, n + 1, next.blocks[events[j].index])
    <2>1. events[j].index \in DOMAIN acc.blocks
      BY DEF MessageIs
    <2>2. next.blocks[events[j].index] = acc.blocks[events[j].index]
      BY <1>3, <1>4, <2>1
    <2>3. BlockIs(events, j, n, acc.blocks[events[j].index])
      BY DEF MessageIs
    <2> QED
      BY <1>1, <2>2, <2>3, BlockKept
  <1>8. BlockIs(events, n + 1, n + 1, next.blocks[e.index])
    <2>1. next.blocks[e.index] = [type |-> e.block, text |-> <<>>, json |-> <<>>, input |-> <<>>]
      BY <1>4 DEF Opened
    <2>2. \A delta : DeltasFor(events, e.index, delta) \cap 1 .. n + 1 = {}
      <3>1. ASSUME NEW i \in EventsOf(events, "content_block_delta"), events[i].index = e.index, i <= n + 1
            PROVE  FALSE
        <4>1. PICK j \in EventsOf(events, "content_block_start") : j < i /\ events[j].index = e.index
          BY <1>1, <3>1
        <4>2. n + 1 \in EventsOf(events, "content_block_start")
          BY <1>2 DEF EventsOf
        <4>3. j = n + 1
          BY <1>1, <4>1, <4>2
        <4> QED
          BY <1>1, <3>1, <4>1, <4>3 DEF EventsOf
      <3> QED
        BY <1>1, <3>1 DEF DeltasFor
    <2>3. \A delta : Got(events, e.index, delta, n + 1) = <<>>
      <3>1. Only(PieceOf(events), {}) = <<>>
        BY OnlyGrows
      <3> QED
        BY <2>2, <3>1 DEF Got
    <2>4. ~Ended(events, n + 1, n + 1)
      BY <1>1 DEF Ended
    <2> QED
      BY <2>1, <2>3, <2>4 DEF BlockIs
  <1> QED
    BY <1>2, <1>4, <1>5, <1>6, <1>7, <1>8 DEF MessageIs

(* A piece arrives for a block, which has been opened. *)
LEMMA PieceArrived ==
  ASSUME NEW events, InOrder(events), NEW n \in Nat, n + 1 <= Len(events),
         NEW j \in Known(events, n), NEW block, BlockIs(events, j, n, block),
         events[n + 1].type = "content_block_delta", events[n + 1].index = events[j].index
  PROVE  /\ events[n + 1].delta = "text_delta" =>
              BlockIs(events, j, n + 1, [block EXCEPT !.text = Append(@, events[n + 1].piece)])
         /\ events[n + 1].delta = "input_json_delta" =>
              BlockIs(events, j, n + 1, [block EXCEPT !.json = Append(@, events[n + 1].piece)])
  <1> DEFINE e == events[n + 1]
             D(delta) == DeltasFor(events, e.index, delta)
             b == [type |-> events[j].block, text |-> Got(events, e.index, "text_delta", n),
                   json |-> Got(events, e.index, "input_json_delta", n), input |-> block.input]
  <1>1. DOMAIN events = 1 .. Len(events) /\ Len(events) \in Nat /\ n + 1 \in DOMAIN events
    BY DEF InOrder
  <1>2. block = b
    BY DEF BlockIs
  <1>3. \A delta : D(delta) \cap 1 .. n + 1 = IF e.delta = delta THEN (D(delta) \cap 1 .. n) \cup {n + 1}
                                                               ELSE D(delta) \cap 1 .. n
    BY <1>1 DEF DeltasFor, EventsOf
  <1>4. \A delta : Got(events, e.index, delta, n + 1)
                     = IF e.delta = delta THEN Append(Got(events, e.index, delta, n), e.piece)
                                          ELSE Got(events, e.index, delta, n)
    <2>1. \A delta : Only(PieceOf(events), (D(delta) \cap 1 .. n) \cup {n + 1})
                       = Append(Only(PieceOf(events), D(delta) \cap 1 .. n), PieceOf(events)[n + 1])
      <3>1. ASSUME NEW delta PROVE D(delta) \cap 1 .. n \in SUBSET (1 .. n)
        OBVIOUS
      <3> HIDE DEF D
      <3> QED
        BY <3>1, OnlyGrows
    <2>2. PieceOf(events)[n + 1] = e.piece
      BY <1>1 DEF PieceOf
    <2> HIDE DEF e, D
    <2>3. \A delta : Got(events, e.index, delta, n) = Only(PieceOf(events), D(delta) \cap 1 .. n)
      BY DEF Got, D
    <2>4. \A delta : Got(events, e.index, delta, n + 1) = Only(PieceOf(events), D(delta) \cap 1 .. n + 1)
      BY DEF Got, D
    <2> TAKE delta
    <2>5. CASE e.delta = delta
      BY <1>3, <2>1, <2>2, <2>3, <2>4, <2>5
    <2>6. CASE e.delta # delta
      BY <1>3, <2>3, <2>4, <2>6
    <2> QED
      BY <2>5, <2>6
  <1>5. ASSUME e.delta = "text_delta"
        PROVE  BlockIs(events, j, n + 1, [block EXCEPT !.text = Append(@, e.piece)])
    <2>1. Ended(events, j, n + 1) => Ended(events, j, n)
      BY <1>1 DEF Ended, EventsOf
    <2>2. [block EXCEPT !.text = Append(@, e.piece)]
            = [type |-> events[j].block, text |-> Got(events, e.index, "text_delta", n + 1),
               json |-> Got(events, e.index, "input_json_delta", n + 1), input |-> block.input]
      <3> DEFINE type  == events[j].block
                 text  == Got(events, e.index, "text_delta", n)
                 json  == Got(events, e.index, "input_json_delta", n)
                 input == block.input
      <3>1. block = [type |-> type, text |-> text, json |-> json, input |-> input]
        BY <1>2
      <3>2. Got(events, e.index, "text_delta", n + 1) = Append(text, e.piece)
        BY <1>4, <1>5
      <3>3. Got(events, e.index, "input_json_delta", n + 1) = json
        BY <1>4, <1>5
      <3> HIDE DEF type, text, json, input
      <3>4. [block EXCEPT !.text = Append(@, e.piece)]
              = [type |-> type, text |-> Append(text, e.piece), json |-> json, input |-> input]
        <4> DEFINE old == [type |-> type, text |-> text, json |-> json, input |-> input]
        <4>1. block = old /\ old.text = text
          BY <3>1
        <4>2. \A v : [old EXCEPT !.text = v] = [type |-> type, text |-> v, json |-> json, input |-> input]
          OBVIOUS
        <4> HIDE DEF old
        <4> QED
          BY <4>1, <4>2
      <3> QED
        BY <3>2, <3>3, <3>4 DEF type, input
    <2> QED
      BY <2>1, <2>2 DEF BlockIs
  <1>6. ASSUME e.delta = "input_json_delta"
        PROVE  BlockIs(events, j, n + 1, [block EXCEPT !.json = Append(@, e.piece)])
    <2>1. n + 1 \in D("input_json_delta")
      BY <1>1, <1>6 DEF DeltasFor, EventsOf
    <2>2. ~Ended(events, j, n + 1)
      BY <1>1, <2>1 DEF Ended, EventsOf
    <2>3. [block EXCEPT !.json = Append(@, e.piece)]
            = [type |-> events[j].block, text |-> Got(events, e.index, "text_delta", n + 1),
               json |-> Got(events, e.index, "input_json_delta", n + 1), input |-> block.input]
      <3> DEFINE type  == events[j].block
                 text  == Got(events, e.index, "text_delta", n)
                 json  == Got(events, e.index, "input_json_delta", n)
                 input == block.input
      <3>1. block = [type |-> type, text |-> text, json |-> json, input |-> input]
        BY <1>2
      <3>2. Got(events, e.index, "input_json_delta", n + 1) = Append(json, e.piece)
        BY <1>4, <1>6
      <3>3. Got(events, e.index, "text_delta", n + 1) = text
        BY <1>4, <1>6
      <3> HIDE DEF type, text, json, input
      <3>4. [block EXCEPT !.json = Append(@, e.piece)]
              = [type |-> type, text |-> text, json |-> Append(json, e.piece), input |-> input]
        <4> DEFINE old == [type |-> type, text |-> text, json |-> json, input |-> input]
        <4>1. block = old /\ old.json = json
          BY <3>1
        <4>2. \A v : [old EXCEPT !.json = v] = [type |-> type, text |-> text, json |-> v, input |-> input]
          OBVIOUS
        <4> HIDE DEF old
        <4> QED
          BY <4>1, <4>2
      <3> QED
        BY <3>2, <3>3, <3>4 DEF type, input
    <2> QED
      BY <2>2, <2>3 DEF BlockIs
  <1> QED
    BY <1>5, <1>6

(* A tool's block ends, and its input is parsed. *)
LEMMA ToolEnded ==
  ASSUME NEW events, InOrder(events), NEW n \in Nat, n + 1 <= Len(events),
         NEW j \in Known(events, n), NEW block, BlockIs(events, j, n, block),
         events[n + 1].type = "content_block_stop", events[n + 1].index = events[j].index
  PROVE  BlockIs(events, j, n + 1, [block EXCEPT !.input = block.json])
  <1> DEFINE index == events[j].index
             D(delta) == DeltasFor(events, index, delta)
             json == "input_json_delta"
  <1>1. DOMAIN events = 1 .. Len(events) /\ Len(events) \in Nat /\ n + 1 \in DOMAIN events
    BY DEF InOrder
  <1>2. \A delta : D(delta) \cap 1 .. n + 1 = D(delta) \cap 1 .. n
    BY <1>1 DEF DeltasFor, EventsOf
  <1>3. \A delta : Got(events, index, delta, n + 1) = Got(events, index, delta, n)
    BY <1>2 DEF Got
  <1>4. Ended(events, j, n + 1) => D(json) \cap 1 .. n = D(json)
    <2>1. SUFFICES ASSUME NEW s \in 1 .. n + 1, \A i \in D(json) : i < s
                   PROVE  D(json) \cap 1 .. n = D(json)
      BY DEF Ended
    <2>2. D(json) \subseteq 1 .. Len(events)
      BY <1>1 DEF DeltasFor, EventsOf
    <2> HIDE DEF D, json
    <2>3. \A i \in D(json) : i \in 1 .. n
      BY <1>1, <2>1, <2>2
    <2> QED
      BY <2>3
  <1>5. /\ block = [type |-> events[j].block, text |-> Got(events, index, "text_delta", n),
                    json |-> Got(events, index, json, n), input |-> block.input]
        /\ Got(events, index, json, n) = Only(PieceOf(events), D(json) \cap 1 .. n)
    BY DEF BlockIs, Got
  <1>6. [block EXCEPT !.input = block.json]
          = [type |-> events[j].block, text |-> Got(events, index, "text_delta", n + 1),
             json |-> Got(events, index, json, n + 1), input |-> Got(events, index, json, n)]
    BY <1>3, <1>5
  <1>7. Ended(events, j, n + 1) => Got(events, index, json, n) = Only(PieceOf(events), D(json))
    BY <1>4, <1>5
  <1> QED
    BY <1>6, <1>7 DEF BlockIs

(* An event that opens no block leaves the others as they are. *)
LEMMA OneChanged ==
  ASSUME NEW events, InOrder(events), NEW n \in Nat, n + 1 <= Len(events),
         NEW acc, MessageIs(events, n, acc), events[n + 1].type # "content_block_start",
         NEW j \in Known(events, n), events[j].index = events[n + 1].index,
         NEW block, BlockIs(events, j, n + 1, block)
  PROVE  MessageIs(events, n + 1, [acc EXCEPT !.blocks[events[n + 1].index] = block])
  <1> DEFINE e == events[n + 1]
             K == Known(events, n)
             next == [acc EXCEPT !.blocks[e.index] = block]
  <1>1. /\ events \in Seq(Range(events)) /\ DOMAIN events = 1 .. Len(events) /\ Len(events) \in Nat
        /\ \A i, k \in EventsOf(events, "content_block_start") :
             events[i].index = events[k].index => i = k
    BY DEF InOrder
  <1>2. Known(events, n + 1) = K
    BY <1>1 DEF Known, EventsOf
  <1>3. /\ acc = [blocks |-> acc.blocks, order |-> acc.order]
        /\ acc.order = Only(IndexOf(events), K)
        /\ acc.blocks = [i \in {events[k].index : k \in K} |-> acc.blocks[i]]
        /\ \A k \in K : BlockIs(events, k, n, acc.blocks[events[k].index])
    BY DEF MessageIs
  <1>4. next = [blocks |-> [acc.blocks EXCEPT ![e.index] = block], order |-> acc.order]
    <2> DEFINE b == acc.blocks
               o == acc.order
    <2>1. acc = [blocks |-> b, order |-> o]
      BY <1>3
    <2>2. next = [acc EXCEPT !.blocks = [b EXCEPT ![e.index] = block]]
      OBVIOUS
    <2> HIDE DEF b, o, next, e
    <2>3. [acc EXCEPT !.blocks = [b EXCEPT ![e.index] = block]]
            = [blocks |-> [b EXCEPT ![e.index] = block], order |-> o]
      BY <2>1
    <2> QED
      BY <2>2, <2>3 DEF b, o
  <1>5. next.blocks = [i \in {events[k].index : k \in K} |-> IF i = e.index THEN block ELSE acc.blocks[i]]
    BY <1>3, <1>4
  <1>6. ASSUME NEW k \in K
        PROVE  BlockIs(events, k, n + 1, next.blocks[events[k].index])
    <2>1. CASE events[k].index = e.index
      <3>1. k = j
        BY <1>1, <2>1 DEF Known
      <3> QED
        BY <1>5, <2>1, <3>1
    <2>2. CASE events[k].index # e.index
      <3>1. next.blocks[events[k].index] = acc.blocks[events[k].index]
        BY <1>5, <2>2
      <3> QED
        BY <1>1, <1>3, <2>2, <3>1, BlockKept
    <2> QED
      BY <2>1, <2>2
  <1>7. next = [blocks |-> next.blocks, order |-> next.order] /\ next.order = Only(IndexOf(events), K)
    BY <1>3, <1>4
  <1>8. next.blocks = [i \in {events[k].index : k \in K} |-> next.blocks[i]]
    BY <1>5
  <1> HIDE DEF next, K
  <1> QED
    BY <1>2, <1>6, <1>7, <1>8 DEF MessageIs, next

LEMMA NoneChanged ==
  ASSUME NEW events, InOrder(events), NEW n \in Nat, n + 1 <= Len(events),
         NEW acc, MessageIs(events, n, acc), events[n + 1].type # "content_block_start",
         \A j \in Known(events, n) :
           \/ events[n + 1].type \notin {"content_block_delta", "content_block_stop"}
           \/ events[n + 1].index # events[j].index
           \/ /\ events[n + 1].type = "content_block_delta"
              /\ events[n + 1].delta \notin {"text_delta", "input_json_delta"}
           \/ /\ events[n + 1].type = "content_block_stop"
              /\ events[j].block # "tool_use"
  PROVE  MessageIs(events, n + 1, acc)
  <1>1. events \in Seq(Range(events)) /\ DOMAIN events = 1 .. Len(events) /\ Len(events) \in Nat
    BY DEF InOrder
  <1>2. Known(events, n + 1) = Known(events, n)
    BY <1>1 DEF Known, EventsOf
  <1>3. \A k \in Known(events, n) : BlockIs(events, k, n, acc.blocks[events[k].index])
    BY DEF MessageIs
  <1>4. ASSUME NEW k \in Known(events, n)
        PROVE  BlockIs(events, k, n + 1, acc.blocks[events[k].index])
    BY <1>1, <1>3, BlockKept
  <1> QED
    BY <1>2, <1>4 DEF MessageIs

(* One more event, one more step of the message. *)
LEMMA MessageGrows ==
  ASSUME NEW events, InOrder(events), NEW n \in Nat, n + 1 <= Len(events),
         NEW acc, MessageIs(events, n, acc)
  PROVE  MessageIs(events, n + 1, AddEvent(acc, events[n + 1]))
  <1> DEFINE e == events[n + 1]
             next == AddEvent(acc, e)
  <1>1. /\ events \in Seq(Range(events)) /\ DOMAIN events = 1 .. Len(events) /\ Len(events) \in Nat
        /\ n + 1 \in DOMAIN events
        /\ \A i \in EventsOf(events, "content_block_delta") :
             \E j \in EventsOf(events, "content_block_start") : j < i /\ events[j].index = events[i].index
    BY DEF InOrder
  <1>2. /\ DOMAIN acc.blocks = {events[j].index : j \in Known(events, n)}
        /\ \A j \in Known(events, n) : BlockIs(events, j, n, acc.blocks[events[j].index])
    BY DEF MessageIs
  <1>3. CASE e.type = "content_block_start"
    BY <1>3, BlockOpened
  <1>4. CASE e.type = "content_block_delta"
    <2>1. PICK j \in Known(events, n) : events[j].index = e.index
      <3>1. n + 1 \in EventsOf(events, "content_block_delta")
        BY <1>1, <1>4 DEF EventsOf
      <3>2. PICK j \in EventsOf(events, "content_block_start") : j < n + 1 /\ events[j].index = e.index
        BY <1>1, <3>1
      <3> QED
        BY <1>1, <3>2 DEF EventsOf, Known
    <2>2. e.index \in DOMAIN acc.blocks /\ BlockIs(events, j, n, acc.blocks[e.index])
      BY <1>2, <2>1
    <2>3. CASE e.delta = "text_delta"
      <3> DEFINE block == [acc.blocks[e.index] EXCEPT !.text = Append(@, e.piece)]
      <3>1. next = [acc EXCEPT !.blocks[e.index] = block]
        BY <1>4, <2>2, <2>3 DEF AddEvent
      <3>2. BlockIs(events, j, n + 1, block)
        BY <1>4, <2>1, <2>2, <2>3, PieceArrived
      <3> HIDE DEF block
      <3>3. MessageIs(events, n + 1, [acc EXCEPT !.blocks[e.index] = block])
        BY <1>4, <2>1, <3>2, OneChanged
      <3> QED
        BY <3>1, <3>3
    <2>4. CASE e.delta = "input_json_delta"
      <3> DEFINE block == [acc.blocks[e.index] EXCEPT !.json = Append(@, e.piece)]
      <3>1. next = [acc EXCEPT !.blocks[e.index] = block]
        BY <1>4, <2>2, <2>4 DEF AddEvent
      <3>2. BlockIs(events, j, n + 1, block)
        BY <1>4, <2>1, <2>2, <2>4, PieceArrived
      <3> HIDE DEF block
      <3>3. MessageIs(events, n + 1, [acc EXCEPT !.blocks[e.index] = block])
        BY <1>4, <2>1, <3>2, OneChanged
      <3> QED
        BY <3>1, <3>3
    <2>5. CASE e.delta \notin {"text_delta", "input_json_delta"}
      <3>1. next = acc
        BY <1>4, <2>5 DEF AddEvent
      <3>2. MessageIs(events, n + 1, acc)
        BY <1>4, <2>5, NoneChanged
      <3> QED
        BY <3>1, <3>2
    <2> QED
      BY <2>3, <2>4, <2>5
  <1>5. CASE e.type = "content_block_stop"
    <2>1. CASE \E j \in Known(events, n) : events[j].index = e.index /\ events[j].block = "tool_use"
      <3>1. PICK j \in Known(events, n) : events[j].index = e.index /\ events[j].block = "tool_use"
        BY <2>1
      <3>2. e.index \in DOMAIN acc.blocks /\ BlockIs(events, j, n, acc.blocks[e.index])
        BY <1>2, <3>1
      <3>3. acc.blocks[e.index].type = "tool_use"
        BY <3>1, <3>2 DEF BlockIs
      <3> DEFINE block == [acc.blocks[e.index] EXCEPT !.input = acc.blocks[e.index].json]
      <3>4. next = [acc EXCEPT !.blocks[e.index] = block]
        BY <1>5, <3>2, <3>3 DEF AddEvent
      <3>5. BlockIs(events, j, n + 1, block)
        BY <1>5, <3>1, <3>2, ToolEnded
      <3> HIDE DEF block
      <3>6. MessageIs(events, n + 1, [acc EXCEPT !.blocks[e.index] = block])
        BY <1>5, <3>1, <3>5, OneChanged
      <3> QED
        BY <3>4, <3>6
    <2>2. CASE ~\E j \in Known(events, n) : events[j].index = e.index /\ events[j].block = "tool_use"
      <3>1. ASSUME e.index \in DOMAIN acc.blocks PROVE acc.blocks[e.index].type # "tool_use"
        <4>1. PICK j \in Known(events, n) : events[j].index = e.index
          BY <1>2, <3>1
        <4>2. events[j].block # "tool_use"
          BY <2>2, <4>1
        <4>3. BlockIs(events, j, n, acc.blocks[e.index])
          BY <1>2, <4>1
        <4>4. acc.blocks[e.index].type = events[j].block
          BY <4>3 DEF BlockIs
        <4> QED
          BY <4>2, <4>4
      <3>2. next = acc
        BY <1>5, <3>1 DEF AddEvent
      <3>3. MessageIs(events, n + 1, acc)
        BY <1>5, <2>2, NoneChanged
      <3> QED
        BY <3>2, <3>3
    <2> QED
      BY <2>1, <2>2
  <1>6. CASE e.type \notin {"content_block_start", "content_block_delta", "content_block_stop"}
    <2>1. next = acc
      BY <1>6 DEF AddEvent
    <2>2. MessageIs(events, n + 1, acc)
      BY <1>6, NoneChanged
    <2> QED
      BY <2>1, <2>2
  <1> QED
    BY <1>3, <1>4, <1>5, <1>6

LEMMA MessageStarts ==
  ASSUME NEW events
  PROVE  MessageIs(events, 0, NoBlocks)
  <1>1. Known(events, 0) = {}
    BY DEF Known
  <1>2. {events[j].index : j \in Known(events, 0)} = {}
    BY <1>1
  <1>3. <<>> = [i \in {} |-> NoBlocks.blocks[i]]
    OBVIOUS
  <1>4. Only(IndexOf(events), {}) = <<>>
    BY OnlyGrows
  <1> QED
    BY <1>1, <1>2, <1>3, <1>4 DEF MessageIs, NoBlocks

(* So after any number of events. *)
LEMMA MessageTaken ==
  ASSUME NEW events, InOrder(events)
  PROVE  \A n \in 0 .. Len(events) : MessageIs(events, n, Taken(events, n))
  <1> DEFINE Bad == {n \in 0 .. Len(events) : ~MessageIs(events, n, Taken(events, n))}
             f == [n \in Bad |-> 0 - n]
  <1>1. Len(events) \in Nat
    BY DEF InOrder
  <1>2. SUFFICES ASSUME Bad # {} PROVE FALSE
    OBVIOUS
  <1>3. IsFiniteSet(Bad)
    <2>1. IsFiniteSet(0 .. Len(events))
      BY <1>1, FS_Interval
    <2> QED
      BY <2>1, FS_Subset
  <1>4. \A n \in Bad : f[n] \in Int
    BY <1>1
  <1>5. PICK m \in Bad : \A k \in Bad : f[k] <= f[m]
    <2> HIDE DEF f, Bad
    <2> QED
      BY <1>2, <1>3, <1>4, Greatest
  <1>6. \A k \in Bad : m <= k
    BY <1>1, <1>5
  <1>7. m # 0
    BY MessageStarts, TakenSteps
  <1>8. m - 1 \in 0 .. Len(events) /\ m - 1 \notin Bad /\ m = (m - 1) + 1 /\ m <= Len(events)
    BY <1>1, <1>6, <1>7
  <1>9. MessageIs(events, m - 1, Taken(events, m - 1))
    BY <1>8
  <1>10. MessageIs(events, m, AddEvent(Taken(events, m - 1), events[m]))
    BY <1>1, <1>8, <1>9, MessageGrows
  <1>11. Taken(events, m) = AddEvent(Taken(events, m - 1), events[m])
    BY <1>1, <1>8, TakenSteps
  <1> QED
    BY <1>10, <1>11

(* The pieces for a block, by their places. *)
LEMMA PiecesAre ==
  ASSUME NEW events, InOrder(events), NEW index, NEW delta
  PROVE  PiecesFor(events, index, delta) = Got(events, index, delta, Len(events))
  <1> DEFINE D == DeltasFor(events, index, delta)
  <1>1. DOMAIN events = 1 .. Len(events) /\ Len(events) \in Nat
    BY DEF InOrder
  <1>2. D \subseteq DOMAIN events
    BY DEF DeltasFor, EventsOf
  <1>3. Foldable("stream", D)
    <2>1. IsFiniteSet(1 .. Len(events))
      BY <1>1, FS_Interval
    <2>2. IsFiniteSet(D)
      BY <1>1, <1>2, <2>1, FS_Subset
    <2> QED
      BY <1>1, <1>2, <2>2 DEF Foldable
  <1>4. D \cap 1 .. Len(events) = D
    BY <1>1, <1>2
  <1> HIDE DEF D
  <1>5. \A k \in 1 .. Cardinality(D) : PieceOf(events)[Nth(D, k)] = events[Nth(D, k)].piece
    BY <1>2, <1>3, NthIn DEF PieceOf
  <1>6. Only(PieceOf(events), D) = [k \in 1 .. Cardinality(D) |-> events[Nth(D, k)].piece]
    BY <1>5 DEF Only
  <1>7. PiecesFor(events, index, delta) = [k \in 1 .. Cardinality(D) |-> events[Nth(D, k)].piece]
    BY DEF PiecesFor, Only, D
  <1>8. Got(events, index, delta, Len(events)) = Only(PieceOf(events), D)
    BY <1>4 DEF Got, D
  <1> QED
    BY <1>6, <1>7, <1>8

(* The blocks of the message are those that were opened, and hold what was   *)
(* sent for them.                                                            *)
LEMMA ContentAgrees ==
  ASSUME NEW events, InOrder(events), NEW model
  PROVE  LET content == Accumulate(events, model).content
             opened == Only(events, EventsOf(events, "content_block_start"))
         IN /\ Len(content) = Len(opened)
            /\ \A i \in DOMAIN opened :
                 IF opened[i].block = "tool_use"
                   THEN content[i].input = PiecesFor(events, opened[i].index, "input_json_delta")
                   ELSE content[i].text = PiecesFor(events, opened[i].index, "text_delta")
  <1> DEFINE n == Len(events)
             S == EventsOf(events, "content_block_start")
             acc == FoldLeft(AddEvent, NoBlocks, events)
             c == Cardinality(S)
             opened == Only(events, S)
             content == Accumulate(events, model).content
  <1>1. /\ DOMAIN events = 1 .. n /\ n \in Nat
        /\ \A j \in S : events[j].block = "tool_use" =>
             \E s \in EventsOf(events, "content_block_stop") :
               /\ j < s /\ events[s].index = events[j].index
               /\ \A i \in DeltasFor(events, events[j].index, "input_json_delta") : i < s
    BY DEF InOrder
  <1>2. S \subseteq 1 .. n /\ Known(events, n) = S
    BY <1>1 DEF EventsOf, Known
  <1>3. Foldable("stream", S) /\ c \in Nat
    <2>0. n \in Nat
      BY <1>1
    <2>1. IsFiniteSet(1 .. n)
      BY <2>0, FS_Interval
    <2>2. IsFiniteSet(S)
      BY <1>2, <2>1, FS_Subset
    <2>3. S \subseteq Nat
      BY <1>2
    <2> QED
      BY <2>2, <2>3, FS_CardinalityType DEF Foldable
  <1>4. MessageIs(events, n, acc)
    <2>1. acc = Taken(events, n)
      BY <1>1, StreamIs DEF Taken
    <2> QED
      BY <1>1, <2>1, MessageTaken
  <1>5. content = [i \in DOMAIN acc.order |-> acc.blocks[acc.order[i]]]
    BY DEF Accumulate
  <1> HIDE DEF acc, S, content, n
  <1>6. \A k \in 1 .. c : Nth(S, k) \in S /\ Nth(S, k) \in DOMAIN events
    BY <1>1, <1>2, <1>3, NthIn
  <1>7. acc.order = [k \in 1 .. c |-> events[Nth(S, k)].index]
    <2>1. acc.order = Only(IndexOf(events), S)
      BY <1>2, <1>4 DEF MessageIs
    <2> QED
      BY <1>6, <2>1 DEF Only, IndexOf
  <1>8. opened = [k \in 1 .. c |-> events[Nth(S, k)]]
    BY DEF Only
  <1>9. content = [k \in 1 .. c |-> acc.blocks[events[Nth(S, k)].index]]
    BY <1>5, <1>7
  <1>10. Len(content) = Len(opened)
    BY <1>3, <1>8, <1>9
  <1>11. ASSUME NEW i \in DOMAIN opened
         PROVE  IF opened[i].block = "tool_use"
                  THEN content[i].input = PiecesFor(events, opened[i].index, "input_json_delta")
                  ELSE content[i].text = PiecesFor(events, opened[i].index, "text_delta")
    <2> DEFINE j == Nth(S, i)
    <2>1. /\ i \in 1 .. c /\ j \in S
          /\ opened[i] = events[j] /\ content[i] = acc.blocks[events[j].index]
      BY <1>6, <1>8, <1>9
    <2> HIDE DEF j, opened
    <2>2. BlockIs(events, j, n, content[i])
      BY <1>2, <1>4, <2>1 DEF MessageIs
    <2>3. content[i].text = Got(events, events[j].index, "text_delta", n)
      BY <2>2 DEF BlockIs
    <2>4. ASSUME events[j].block = "tool_use"
          PROVE  content[i].input = Got(events, events[j].index, "input_json_delta", n)
      <3> DEFINE D == DeltasFor(events, events[j].index, "input_json_delta")
      <3>1. Ended(events, j, n)
        BY <1>1, <2>1, <2>4 DEF Ended, EventsOf
      <3>2. content[i].input = Only(PieceOf(events), D)
        BY <2>2, <3>1 DEF BlockIs
      <3>3. D \cap 1 .. n = D
        BY <1>1 DEF DeltasFor, EventsOf
      <3> QED
        BY <3>2, <3>3 DEF Got
    <2> QED
      BY <2>1, <2>3, <2>4, PiecesAre DEF n
  <1> QED
    BY <1>10, <1>11 DEF content, S

(* The row of a reply and the usage of its message are read off the same     *)
(* counts, and name the same model.                                          *)
LEMMA UsageAgrees ==
  ASSUME NEW events, InOrder(events), NEW model
  PROVE  LET message == Accumulate(events, model)
             row == RowsOf(events)
         IN \A i \in DOMAIN row :
              /\ row[i].prompt_tokens = Count(message.usage, "input_tokens")
                   + Count(message.usage, "cache_creation_input_tokens")
                   + Count(message.usage, "cache_read_input_tokens")
              /\ row[i].completion_tokens = message.usage["output_tokens"]
              /\ "model" \in DOMAIN row[i] => row[i].model = message.model
  <1> DEFINE message == Accumulate(events, model)
             row == RowsOf(events)
             u == Merged(events)
             named == ModelsNamed(events)
  <1>1. named = <<>> \/ Len(named) = 1
    BY DEF InOrder
  <1>2. /\ message.usage = [key \in UsageFields |-> Count(u, key)]
        /\ message.model = IF named = <<>> THEN model ELSE named[Len(named)].model
    BY DEF Accumulate
  <1>3. /\ Count(message.usage, "input_tokens") = Count(u, "input_tokens")
        /\ Count(message.usage, "cache_creation_input_tokens") = Count(u, "cache_creation_input_tokens")
        /\ Count(message.usage, "cache_read_input_tokens") = Count(u, "cache_read_input_tokens")
        /\ message.usage["output_tokens"] = Count(u, "output_tokens")
    <2>1. \A key \in UsageFields : Count(message.usage, key) = Count(u, key)
                                   /\ message.usage[key] = Count(u, key)
      <3> HIDE DEF message, u
      <3> QED
        BY <1>2 DEF Count
    <2>2. /\ "input_tokens" \in UsageFields /\ "cache_creation_input_tokens" \in UsageFields
          /\ "cache_read_input_tokens" \in UsageFields /\ "output_tokens" \in UsageFields
      BY DEF UsageFields, CacheFields
    <2> HIDE DEF message, u
    <2> QED
      BY <2>1, <2>2
  <1>4. ASSUME NEW i \in DOMAIN row
        PROVE  /\ row[i].prompt_tokens = Count(u, "input_tokens")
                    + Count(u, "cache_creation_input_tokens") + Count(u, "cache_read_input_tokens")
               /\ row[i].completion_tokens = Count(u, "output_tokens")
               /\ "model" \in DOMAIN row[i] => named # <<>> /\ row[i].model = named[1].model
    <2> DEFINE plain == ExtractUsage(u)
    <2>1. row # <<>>
      BY <1>4
    <2>2. UsageFromSse(events) = <<u>>
      <3>1. UsageFromSse(events) # <<>>
        BY <2>1 DEF RowsOf
      <3> QED
        BY <3>1 DEF UsageFromSse
    <2>3. row = [k \in DOMAIN plain |-> StampModel(plain[k], events)]
      <3> HIDE DEF u
      <3> QED
        BY <2>2 DEF RowsOf
    <2>4. i \in DOMAIN plain /\ row[i] = StampModel(plain[i], events)
      BY <2>3
    <2> HIDE DEF u, row
    <2>5. /\ DOMAIN plain[i] \subseteq {"prompt_tokens", "completion_tokens"} \cup CacheFields
          /\ "prompt_tokens" \in DOMAIN plain[i] /\ "completion_tokens" \in DOMAIN plain[i]
          /\ plain[i].prompt_tokens = Count(u, "input_tokens")
               + Count(u, "cache_creation_input_tokens") + Count(u, "cache_read_input_tokens")
          /\ plain[i].completion_tokens = Count(u, "output_tokens")
      BY <2>4 DEF ExtractUsage
    <2> HIDE DEF plain, named
    <2>6. CASE named = <<>>
      BY <2>4, <2>5, <2>6 DEF StampModel, CacheFields, named
    <2>7. CASE named # <<>>
      BY <2>4, <2>5, <2>7 DEF StampModel, named
    <2> QED
      BY <2>6, <2>7
  <1> HIDE DEF message, row, u, named
  <1>5. ASSUME NEW i \in DOMAIN row, "model" \in DOMAIN row[i]
        PROVE  row[i].model = message.model
    BY <1>1, <1>2, <1>4, <1>5
  <1> QED
    BY <1>3, <1>4, <1>5 DEF message, row

(* What is kept of a reply until the solve ends. *)
Said(reply) ==
  [reply |-> reply, row |-> RowsOf(reply.events), message |-> Accumulate(reply.events, RunModel)]

AnswerOK == \A i \in DOMAIN answer : \E reply \in Replies : answer[i] = Said(reply)

LEMMA AnswerKept == Spec => []AnswerOK
  <1>1. Init => AnswerOK
    BY DEF Init, AnswerOK
  <1>2. AnswerOK /\ [Next]_vars => AnswerOK'
    <2> SUFFICES ASSUME AnswerOK, [Next]_vars PROVE AnswerOK'
      OBVIOUS
    <2>1. ASSUME answer' = answer PROVE AnswerOK'
      BY <2>1 DEF AnswerOK
    <2>2. ASSUME answer' = <<>> PROVE AnswerOK'
      BY <2>2 DEF AnswerOK
    <2>3. ASSUME NEW r \in Runs, NEW reply \in Replies, Serve(r, reply) PROVE AnswerOK'
      BY <2>3 DEF Serve, AnswerOK, Said
    <2>4. ASSUME NEW r \in Runs, NEW end \in Ends, Finish(r, end) PROVE answer' = <<>>
      BY <2>4 DEF Finish
    <2>5. ASSUME NEW r \in Runs, NEW known, Fail(r, known) PROVE answer' = <<>>
      BY <2>5 DEF Fail
    <2>6. ASSUME NEW r \in Runs, Start(r) PROVE answer' = answer
      BY <2>6 DEF Start
    <2>7. BuildReport => answer' = answer
      BY DEF BuildReport
    <2>8. UNCHANGED vars => answer' = answer
      BY DEF vars
    <2> QED
      BY <2>1, <2>2, <2>3, <2>4, <2>5, <2>6, <2>7, <2>8 DEF Next
  <1> QED
    BY <1>1, <1>2, PTL DEF Spec

LEMMA AnswerAgrees == AnswerOK => MessageIsTheStream
  <1> SUFFICES ASSUME AnswerOK, NEW i \in DOMAIN answer
               PROVE  LET a == answer[i]
                          events == a.reply.events
                          opened == Only(events, EventsOf(events, "content_block_start"))
                      IN /\ Len(a.message.content) = Len(opened)
                         /\ \A k \in DOMAIN opened :
                              LET block == a.message.content[k]
                              IN IF opened[k].block = "tool_use"
                                   THEN block.input = PiecesFor(events, opened[k].index, "input_json_delta")
                                   ELSE block.text = PiecesFor(events, opened[k].index, "text_delta")
                         /\ \A k \in DOMAIN a.row :
                              /\ a.row[k].prompt_tokens = Count(a.message.usage, "input_tokens")
                                   + Count(a.message.usage, "cache_creation_input_tokens")
                                   + Count(a.message.usage, "cache_read_input_tokens")
                              /\ a.row[k].completion_tokens = a.message.usage["output_tokens"]
                              /\ "model" \in DOMAIN a.row[k] => a.row[k].model = a.message.model
    BY DEF MessageIsTheStream
  <1>1. PICK reply \in Replies : answer[i] = Said(reply)
    BY DEF AnswerOK
  <1>2. InOrder(reply.events)
    BY StreamAssumption
  <1>3. /\ answer[i].reply = reply /\ answer[i].row = RowsOf(reply.events)
        /\ answer[i].message = Accumulate(reply.events, RunModel)
    BY <1>1 DEF Said
  <1> QED
    BY <1>2, <1>3, ContentAgrees, UsageAgrees

(* The message assembled for a client that does not stream says what a       *)
(* streaming client reads off the same events, and its usage is the row's    *)
(* (_accumulate_anthropic_message against usage_from_sse).                   *)
THEOREM MessageOfTheStream == Spec => []MessageIsTheStream
  <1>1. Spec => []AnswerOK
    BY AnswerKept
  <1>2. AnswerOK => MessageIsTheStream
    BY AnswerAgrees
  <1> QED
    BY <1>1, <1>2, PTL
===============================================================================
