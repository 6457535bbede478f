--------------------------- MODULE LedgerProofs ---------------------------
(***************************************************************************)
(* For every set of episodes, funding events and exit reasons: the process  *)
(* and its database never hold different exit reasons; the profit of a      *)
(* closed trade is its cash; a closed trade is opened again only by a fill  *)
(* that executed before its last exit; a position whose fills are all       *)
(* linked is found again by a restart.                                      *)
(*                                                                          *)
(* The folds of the model are CHOOSEn recursive functions over the subsets  *)
(* of a finite set.  FoldExists shows that such a function exists, so the   *)
(* CHOOSE has its equation, and SubsetInduction follows the equation.       *)
(***************************************************************************)
EXTENDS TradeLedger, TLAPS, FiniteSetTheorems, WellFoundedInduction, SequenceTheorems

(* ReasonsAgree alone is not inductive: a trade without a reason could      *)
(* accept one that differs from the row.  A running process has no reason   *)
(* of its own once the row has one.                                         *)
RowIsKnown == Running /\ exit_reason # "none" => live.reason = exit_reason

\* The trade is a record of three fields; what they hold does not matter.
IsTrade(t) == t = [legs |-> t.legs, funding |-> t.funding, reason |-> t.reason]

ReasonInv == RowIsKnown /\ IsTrade(live)

(* A new fill or a funding event leaves the reason of a trade alone         *)
(* (dataclasses.replace names one field).                                   *)
LEMMA FillKeepsReason ==
    ASSUME NEW t, IsTrade(t), NEW leg, NEW sign, ApplyFill(t, leg, sign) # Raised
    PROVE  /\ IsTrade(ApplyFill(t, leg, sign))
           /\ ApplyFill(t, leg, sign).reason = t.reason
<1> DEFINE longer == [t EXCEPT !.legs = Append(@, leg)]
<1>1. ApplyFill(t, leg, sign) \in {t, longer}
  BY DEF ApplyFill
<1>2. longer = [legs |-> Append(t.legs, leg), funding |-> t.funding, reason |-> t.reason]
  BY DEF IsTrade
<1> HIDE DEF longer
<1> QED
  BY <1>1, <1>2 DEF IsTrade

LEMMA FundingKeepsReason ==
    ASSUME NEW t, IsTrade(t), NEW e
    PROVE  IsTrade(ApplyFunding(t, e)) /\ ApplyFunding(t, e).reason = t.reason
<1> DEFINE more == [t EXCEPT !.funding = Append(@, e)]
<1>1. ApplyFunding(t, e) \in {t, more}
  BY DEF ApplyFunding
<1>2. more = [legs |-> t.legs, funding |-> Append(t.funding, e), reason |-> t.reason]
  BY DEF IsTrade
<1> HIDE DEF more
<1> QED
  BY <1>1, <1>2 DEF IsTrade

(* A reason is accepted by a trade that has none or the same one.           *)
LEMMA CloseSetsReason ==
    ASSUME NEW t, IsTrade(t), NEW reason, NEW sign,
           CloseWithReason(t, reason, sign) # Raised
    PROVE  /\ IsTrade(CloseWithReason(t, reason, sign))
           /\ CloseWithReason(t, reason, sign).reason = reason
           /\ t.reason \in {"none", reason}
<1>1. /\ t.reason \in {"none", reason}
      /\ CloseWithReason(t, reason, sign) = [t EXCEPT !.reason = reason]
  BY DEF CloseWithReason
<1>2. [t EXCEPT !.reason = reason]
        = [legs |-> t.legs, funding |-> t.funding, reason |-> reason]
  BY DEF IsTrade
<1> QED
  BY <1>1, <1>2 DEF IsTrade

(* What a restart loads carries the reason of the row.                      *)
LEMMA LoadHasRowReason ==
    ASSUME Load # Raised
    PROVE  IsTrade(Load) /\ Load.reason = exit_reason
BY DEF Load, IsTrade

LEMMA ReasonInit == Init => ReasonInv
BY DEF Init, ReasonInv, RowIsKnown, IsTrade, NewTrade

LEMMA ReasonStep == ReasonInv /\ [Next]_vars => ReasonInv'
<1> SUFFICES ASSUME ReasonInv, [Next]_vars PROVE ReasonInv'
  OBVIOUS
<1> USE DEF ReasonInv
<1>1. ASSUME UNCHANGED <<live, exit_reason>> PROVE ReasonInv'
  BY <1>1 DEF RowIsKnown, IsTrade, Running
<1>2. ASSUME NEW f, AddFill(f) \/ LinkFill(f) PROVE ReasonInv'
  BY <1>1, <1>2 DEF AddFill, LinkFill
<1>3. ASSUME NEW f, Fill(f) PROVE ReasonInv'
  <2> DEFINE t == ApplyFill(live, f, episode.sign)
  <2>1. CASE t = Raised
    <3>1. live' = live /\ exit_reason' = exit_reason
      BY <1>3, <2>1 DEF Fill, tables
    <3> QED
      BY <1>1, <3>1
  <2>2. CASE t # Raised
    <3>1. live' = t /\ exit_reason' = exit_reason /\ Running
      BY <1>3, <2>2 DEF Fill, tables
    <3>2. IsTrade(t) /\ t.reason = live.reason
      BY <2>2, FillKeepsReason
    <3> QED
      BY <3>1, <3>2 DEF RowIsKnown, IsTrade
  <2> QED
    BY <2>1, <2>2
<1>4. ASSUME NEW e, AddFunding(e) PROVE ReasonInv'
  BY <1>1, <1>4 DEF AddFunding
<1>5. ASSUME NEW e, Fund(e) PROVE ReasonInv'
  <2>1. live' = ApplyFunding(live, e) /\ exit_reason' = exit_reason /\ Running
    BY <1>5 DEF Fund, tables
  <2>2. IsTrade(ApplyFunding(live, e)) /\ ApplyFunding(live, e).reason = live.reason
    BY FundingKeepsReason
  <2> QED
    BY <2>1, <2>2 DEF RowIsKnown, IsTrade
<1>6. ASSUME NEW reason, Close(reason) PROVE ReasonInv'
  <2> DEFINE t == CloseWithReason(live, reason, episode.sign)
  <2>1. live' = t /\ exit_reason' = exit_reason /\ Running /\ t # Raised
    BY <1>6 DEF Close, tables
  <2>2. IsTrade(t) /\ t.reason = reason /\ live.reason \in {"none", reason}
    BY <2>1, CloseSetsReason
  <2> QED
    BY <2>1, <2>2 DEF RowIsKnown, IsTrade
<1>7. ASSUME SetExitReason PROVE ReasonInv'
  BY <1>7 DEF SetExitReason, RowIsKnown, IsTrade, Running
<1>8. ASSUME Crash PROVE ReasonInv'
  BY <1>8 DEF Crash, RowIsKnown, IsTrade, Running, Gone, NewTrade
<1>9. ASSUME Restart PROVE ReasonInv'
  <2>1. live' = Load /\ exit_reason' = exit_reason /\ Load # Raised
    BY <1>9 DEF Restart, tables
  <2>2. IsTrade(Load) /\ Load.reason = exit_reason
    BY <2>1, LoadHasRowReason
  <2> QED
    BY <2>1, <2>2 DEF RowIsKnown, IsTrade
<1>10. CASE UNCHANGED vars
  BY <1>1, <1>10 DEF vars, tables
<1> QED
  BY <1>2, <1>3, <1>4, <1>5, <1>6, <1>7, <1>8, <1>9, <1>10 DEF Next

(* Memory and database never hold two different exit reasons                *)
(* (Trade.close_with_reason, TradeRepository.set_exit_reason and load).     *)
THEOREM OneExitReason == Spec => []ReasonsAgree
<1>1. ReasonInv => ReasonsAgree
  BY DEF ReasonInv, RowIsKnown, ReasonsAgree
<1> QED
  BY <1>1, ReasonInit, ReasonStep, PTL DEF Spec

-----------------------------------------------------------------------------
(* Induction and recursion over the subsets of a finite set.               *)

(* The naturals are well-founded.                                           *)
LEMMA SmallestOf ==
    ASSUME NEW N, N \subseteq Nat, N # {}
    PROVE  \E n \in N : \A m \in N : n <= m
<1>1. \E n \in N : \A m \in N : ~(<<m, n>> \in OpToRel(<, Nat))
  BY WFMin, NatLessThanWellFounded
<1>2. \A m, n \in Nat : m < n => <<m, n>> \in OpToRel(<, Nat)
  BY DEF OpToRel
<1>3. \E n \in N : \A m \in N : ~(m < n)
  BY <1>1, <1>2
<1> QED
  BY <1>3

(* Induction over the subsets of a finite set: P holds of a subset if it    *)
(* holds of what is left when any one element is taken away.                *)
LEMMA SubsetInduction ==
    ASSUME NEW S, IsFiniteSet(S), NEW P,
           {} \in P,
           \A T \in SUBSET S : T # {} /\ (\A x \in T : T \ {x} \in P) => T \in P
    PROVE  SUBSET S \subseteq P
<1> DEFINE Size(T) == Cardinality(T)
           Sizes == {n \in Nat : \E T \in SUBSET S : T \notin P /\ Size(T) = n}
<1>1. \A T \in SUBSET S : IsFiniteSet(T) /\ Size(T) \in Nat
  BY FS_Subset, FS_CardinalityType
<1>2. Sizes = {}
  <2> SUFFICES ASSUME Sizes # {} PROVE FALSE
    OBVIOUS
  <2>1. PICK n \in Sizes : \A m \in Sizes : n <= m
    <3> HIDE DEF Sizes
    <3>1. Sizes \subseteq Nat
      BY DEF Sizes
    <3> QED
      BY <3>1, SmallestOf
  <2>2. PICK T \in SUBSET S : T \notin P /\ Size(T) = n
    OBVIOUS
  <2>3. PICK x \in T : T \ {x} \notin P
    BY <2>2
  <2>4. T \ {x} \in SUBSET S /\ Size(T \ {x}) = Size(T) - 1
    BY <1>1, FS_RemoveElement
  <2>5. Size(T \ {x}) \in Sizes /\ Size(T) \in Nat
    BY <1>1, <2>3, <2>4
  <2> QED
    BY <2>1, <2>2, <2>4, <2>5
<1> QED
  BY <1>1, <1>2

(* A recursive definition over the subsets of a finite set has a solution:  *)
(* one element is picked and applied to what the others give.               *)
FoldEquation(F, S, base, pick, step) ==
    \A T \in SUBSET S :
        F[T] = IF T = {} THEN base ELSE step[pick[T]][F[T \ {pick[T]}]]

LEMMA FoldExists ==
    ASSUME NEW S, IsFiniteSet(S), NEW V, NEW base \in V, NEW pick, NEW step,
           \A T \in SUBSET S : T # {} => pick[T] \in T,
           \A x \in S, v \in V : step[x][v] \in V
    PROVE  \E F \in [SUBSET S -> V] : FoldEquation(F, S, base, pick, step)
<1> DEFINE Small(n) == {T \in SUBSET S : Cardinality(T) <= n}
           Solves(F, n) == /\ F \in [Small(n) -> V]
                           /\ \A T \in Small(n) :
                                F[T] = IF T = {} THEN base ELSE step[pick[T]][F[T \ {pick[T]}]]
           Unsolved == {n \in Nat : ~ \E F : Solves(F, n)}
<1>1. \A T \in SUBSET S : IsFiniteSet(T) /\ Cardinality(T) \in Nat
  BY FS_Subset, FS_CardinalityType
<1>2. \A T \in SUBSET S : Cardinality(T) = 0 <=> T = {}
  BY <1>1, FS_EmptySet
<1>3. ASSUME NEW T \in SUBSET S, T # {}
      PROVE  /\ pick[T] \in T /\ T \ {pick[T]} \in SUBSET S
             /\ Cardinality(T \ {pick[T]}) = Cardinality(T) - 1
  BY <1>1, <1>3, FS_RemoveElement
<1>4. 0 \notin Unsolved
  <2>1. Small(0) = {{}}
    BY <1>1, <1>2
  <2>2. Solves([T \in Small(0) |-> base], 0)
    BY <2>1
  <2> QED
    BY <2>2
<1>5. ASSUME NEW n \in Nat, NEW F, Solves(F, n) PROVE n + 1 \notin Unsolved
  <2> DEFINE G == [T \in Small(n + 1) |->
                     IF T \in Small(n) THEN F[T] ELSE step[pick[T]][F[T \ {pick[T]}]]]
  <2>1. Small(n) \subseteq Small(n + 1) /\ {} \in Small(n)
    BY <1>1, <1>2
  <2>2. \A T \in Small(n + 1) : T # {} => T \ {pick[T]} \in Small(n)
    BY <1>1, <1>3
  <2>3. ASSUME NEW T \in Small(n + 1)
        PROVE  G[T] \in V /\ G[T] = IF T = {} THEN base ELSE step[pick[T]][G[T \ {pick[T]}]]
    <3> HIDE DEF Small
    <3>0. \A U \in Small(n) : U \in Small(n + 1) /\ G[U] = F[U] /\ F[U] \in V
      BY <1>5, <2>1
    <3>1. CASE T \in Small(n)
      BY <1>5, <3>0, <2>2, <2>3, <3>1
    <3>2. CASE T \notin Small(n)
      <4>1. T # {} /\ T \ {pick[T]} \in Small(n)
        BY <2>1, <2>2, <3>2
      <4>2. G[T] = step[pick[T]][F[T \ {pick[T]}]]
        BY <3>2
      <4>3. pick[T] \in S
        BY <1>3, <4>1 DEF Small
      <4> QED
        BY <3>0, <4>1, <4>2, <4>3
    <3> QED
      BY <3>1, <3>2
  <2>4. Solves(G, n + 1)
    BY <2>3
  <2> QED
    BY <2>4
<1>6. Unsolved = {}
  <2> SUFFICES ASSUME Unsolved # {} PROVE FALSE
    OBVIOUS
  <2>1. PICK n \in Unsolved : \A m \in Unsolved : n <= m
    <3> HIDE DEF Unsolved
    <3>1. Unsolved \subseteq Nat
      BY DEF Unsolved
    <3> QED
      BY <3>1, SmallestOf
  <2>2. n \in Nat /\ n # 0
    BY <1>4
  <2>3. n - 1 \notin Unsolved
    <3> HIDE DEF Unsolved
    <3> QED
      BY <2>1, <2>2
  <2>4. PICK F : Solves(F, n - 1)
    <3>1. n - 1 \in Nat
      BY <2>2
    <3> QED
      BY <2>3, <3>1
  <2>5. (n - 1) + 1 \notin Unsolved
    <3> HIDE DEF Solves, Unsolved
    <3>1. n - 1 \in Nat
      BY <2>2
    <3> QED
      BY <1>5, <2>4, <3>1
  <2>6. (n - 1) + 1 = n
    BY <2>2
  <2> HIDE DEF Unsolved
  <2> QED
    BY <2>5, <2>6
<1>7. Cardinality(S) \in Nat /\ Small(Cardinality(S)) = SUBSET S
  BY FS_Subset, FS_CardinalityType
<1>8. PICK F : Solves(F, Cardinality(S))
  BY <1>6, <1>7
<1> QED
  BY <1>7, <1>8 DEF FoldEquation

-----------------------------------------------------------------------------
(* Sums.                                                                    *)

IsSum(F, f) ==
    \A T \in SUBSET DOMAIN f :
        F[T] = IF T = {} THEN 0
               ELSE f[CHOOSE x \in T : TRUE] + F[T \ {CHOOSE x \in T : TRUE}]

LEMMA SumIsFold ==
    ASSUME NEW f, IsFiniteSet(DOMAIN f), \A x \in DOMAIN f : f[x] \in Int
    PROVE  \E F : IsSum(F, f) /\ SumFunction(f) = F[DOMAIN f]
<1> DEFINE D == DOMAIN f
           pick == [T \in SUBSET D |-> CHOOSE x \in T : TRUE]
           step == [x \in D |-> [v \in Int |-> f[x] + v]]
           Iter(F) == [T \in SUBSET D |->
                         IF T = {} THEN 0
                         ELSE f[CHOOSE x \in T : TRUE] + F[T \ {CHOOSE x \in T : TRUE}]]
<1>1. PICK F \in [SUBSET D -> Int] : FoldEquation(F, D, 0, pick, step)
  <2>1. \A T \in SUBSET D : T # {} => pick[T] \in T
    OBVIOUS
  <2>2. \A x \in D, v \in Int : step[x][v] \in Int
    OBVIOUS
  <2>3. IsFiniteSet(D) /\ 0 \in Int
    OBVIOUS
  <2> HIDE DEF D, pick, step
  <2> QED
    BY <2>1, <2>2, <2>3, FoldExists
<1>2. F = Iter(F)
  <2>1. ASSUME NEW T \in SUBSET D PROVE F[T] = Iter(F)[T]
    <3>1. CASE T = {}
      BY <1>1, <3>1 DEF FoldEquation
    <3>2. CASE T # {}
      <4>1. pick[T] = (CHOOSE x \in T : TRUE) /\ pick[T] \in T /\ T \ {pick[T]} \in SUBSET D
        BY <3>2
      <4>2. step[pick[T]][F[T \ {pick[T]}]] = f[pick[T]] + F[T \ {pick[T]}]
        BY <4>1
      <4> QED
        BY <1>1, <3>2, <4>1, <4>2 DEF FoldEquation
    <3> QED
      BY <3>1, <3>2
  <2> QED
    BY <2>1
<1>3. (CHOOSE F_ : F_ = Iter(F_)) = Iter(CHOOSE F_ : F_ = Iter(F_))
  BY <1>2
<1>4. SumFunction(f) = (CHOOSE F_ : F_ = Iter(F_))[D]
  BY DEF SumFunction, SumFunctionOnSet, FoldFunctionOnSet, MapThenFoldSet
<1>5. IsSum(CHOOSE F_ : F_ = Iter(F_), f)
  <2> DEFINE C == CHOOSE F_ : F_ = Iter(F_)
  <2>1. C = Iter(C)
    BY <1>3
  <2> HIDE DEF C
  <2> QED
    BY <2>1 DEF IsSum
<1> QED
  BY <1>4, <1>5
\* The sum of f over S, which may be smaller than its domain.
SumOn(f, S) == SumFunction([x \in S |-> f[x]])

AddsUp(F, f, S) ==
    /\ \A T \in SUBSET S : F[T] \in Int /\ \A y \in T : F[T] = f[y] + F[T \ {y}]
    /\ F[{}] = 0

(* The value of a sum does not depend on which element is taken first.      *)
LEMMA SumsOfParts ==
    ASSUME NEW f, IsFiniteSet(DOMAIN f), \A x \in DOMAIN f : f[x] \in Int,
           NEW F, IsSum(F, f)
    PROVE  AddsUp(F, f, DOMAIN f)
<1> DEFINE D == DOMAIN f
           Typed == {T \in SUBSET D : F[T] \in Int}
           Good == {T \in SUBSET D : \A y \in T : F[T] = f[y] + F[T \ {y}]}
<1>1. \A T \in SUBSET D : T # {} => \E x \in T : F[T] = f[x] + F[T \ {x}]
  BY DEF IsSum
<1>0. F[{}] = 0 /\ {} \in SUBSET D /\ IsFiniteSet(D)
  BY DEF IsSum
<1>2. {} \in Typed /\ {} \in Good
  BY <1>0
<1>3. ASSUME NEW T \in SUBSET D, T # {}, \A x \in T : T \ {x} \in Typed PROVE T \in Typed
  <2>1. PICK x \in T : F[T] = f[x] + F[T \ {x}]
    BY <1>1, <1>3
  <2>2. F[T \ {x}] \in Int /\ f[x] \in Int
    BY <1>3
  <2> QED
    BY <2>1, <2>2
<1>4. SUBSET D \subseteq Typed
  <2> HIDE DEF Typed, D
  <2> QED
    BY <1>0, <1>2, <1>3, SubsetInduction
<1>5. ASSUME NEW T \in SUBSET D, T # {}, \A x \in T : T \ {x} \in Good PROVE T \in Good
  <2>1. PICK x \in T : F[T] = f[x] + F[T \ {x}]
    BY <1>1, <1>5
  <2>2. ASSUME NEW y \in T, y # x PROVE F[T] = f[y] + F[T \ {y}]
    <3>1. F[T \ {x}] = f[y] + F[(T \ {x}) \ {y}]
      BY <1>5, <2>2
    <3>2. (T \ {x}) \ {y} = (T \ {y}) \ {x}
      OBVIOUS
    <3>3. F[T \ {y}] = f[x] + F[(T \ {x}) \ {y}]
      BY <1>5, <2>2, <3>2
    <3>4. F[(T \ {x}) \ {y}] \in Int /\ f[x] \in Int /\ f[y] \in Int
      BY <1>4
    <3> QED
      BY <2>1, <3>1, <3>3, <3>4
  <2>3. \A y \in T : F[T] = f[y] + F[T \ {y}]
    BY <2>1, <2>2
  <2> QED
    BY <2>3
<1>6. SUBSET D \subseteq Good
  <2> HIDE DEF Good, D
  <2> QED
    BY <1>0, <1>2, <1>5, SubsetInduction
<1> QED
  BY <1>0, <1>4, <1>6 DEF AddsUp

(* The sum over a part, taken alone, is the sum over it within the whole.   *)
LEMMA SumOnIsPart ==
    ASSUME NEW f, NEW S, IsFiniteSet(S), \A x \in S : f[x] \in Int
    PROVE  \E F : AddsUp(F, f, S) /\ \A T \in SUBSET S : SumOn(f, T) = F[T]
<1> DEFINE On(T) == [x \in T |-> f[x]]
<1>1. ASSUME NEW T \in SUBSET S
      PROVE  /\ IsFiniteSet(DOMAIN On(T)) /\ \A x \in DOMAIN On(T) : On(T)[x] \in Int
             /\ DOMAIN On(T) = T /\ \A x \in T : On(T)[x] = f[x]
  <2>1. IsFiniteSet(T)
    BY FS_Subset
  <2> QED
    BY <2>1
<1>2. PICK F : IsSum(F, On(S)) /\ SumFunction(On(S)) = F[S]
  <2>1. DOMAIN On(S) = S /\ IsFiniteSet(DOMAIN On(S)) /\ \A x \in DOMAIN On(S) : On(S)[x] \in Int
    BY <1>1
  <2> HIDE DEF On
  <2> QED
    BY <2>1, SumIsFold
<1>3. \A T \in SUBSET S : F[T] \in Int /\ \A y \in T : F[T] = f[y] + F[T \ {y}]
  <2>1. AddsUp(F, On(S), DOMAIN On(S))
    <3>1. IsFiniteSet(DOMAIN On(S)) /\ \A x \in DOMAIN On(S) : On(S)[x] \in Int
      BY <1>1
    <3> HIDE DEF On
    <3> QED
      BY <1>2, <3>1, SumsOfParts
  <2>2. DOMAIN On(S) = S /\ \A x \in S : On(S)[x] = f[x]
    BY <1>1
  <2> HIDE DEF On
  <2> QED
    BY <2>1, <2>2 DEF AddsUp
<1>4. F[{}] = 0
  BY <1>2 DEF IsSum
<1>5. ASSUME NEW T \in SUBSET S PROVE SumOn(f, T) = F[T]
  <2>1. PICK G : IsSum(G, On(T)) /\ SumFunction(On(T)) = G[T]
    <3>1. DOMAIN On(T) = T /\ IsFiniteSet(DOMAIN On(T)) /\ \A x \in DOMAIN On(T) : On(T)[x] \in Int
      BY <1>1
    <3> HIDE DEF On
    <3> QED
      BY <3>1, SumIsFold
  <2> DEFINE Same == {U \in SUBSET T : G[U] = F[U]}
  <2>2. {} \in Same
    BY <1>4, <2>1 DEF IsSum
  <2>3. ASSUME NEW U \in SUBSET T, U # {}, \A x \in U : U \ {x} \in Same PROVE U \in Same
    <3>1. PICK x \in U : G[U] = f[x] + G[U \ {x}]
      BY <2>1, <2>3 DEF IsSum
    <3>2. F[U] = f[x] + F[U \ {x}]
      BY <1>3
    <3> QED
      BY <2>3, <3>1, <3>2
  <2>4. SUBSET T \subseteq Same
    <3>1. IsFiniteSet(T)
      BY FS_Subset
    <3> HIDE DEF Same
    <3> QED
      BY <2>2, <2>3, <3>1, SubsetInduction
  <2> QED
    BY <2>1, <2>4 DEF SumOn
<1> QED
  BY <1>3, <1>4, <1>5 DEF AddsUp

LEMMA SumEmpty == ASSUME NEW f PROVE SumOn(f, {}) = 0
<1>1. IsFiniteSet({})
  BY FS_EmptySet
<1>2. PICK F : AddsUp(F, f, {}) /\ \A T \in SUBSET {} : SumOn(f, T) = F[T]
  BY <1>1, SumOnIsPart
<1> QED
  BY <1>2 DEF AddsUp

LEMMA SumTake ==
    ASSUME NEW f, NEW S, IsFiniteSet(S), \A x \in S : f[x] \in Int, NEW y \in S
    PROVE  SumOn(f, S) = f[y] + SumOn(f, S \ {y})
<1>1. PICK F : AddsUp(F, f, S) /\ \A T \in SUBSET S : SumOn(f, T) = F[T]
  BY SumOnIsPart
<1>2. S \in SUBSET S /\ S \ {y} \in SUBSET S
  OBVIOUS
<1> QED
  BY <1>1, <1>2 DEF AddsUp

LEMMA SumType ==
    ASSUME NEW f, NEW S, IsFiniteSet(S), \A x \in S : f[x] \in Int
    PROVE  SumOn(f, S) \in Int
<1>1. PICK F : AddsUp(F, f, S) /\ \A T \in SUBSET S : SumOn(f, T) = F[T]
  BY SumOnIsPart
<1> QED
  BY <1>1 DEF AddsUp

(* Two sums over parts that have nothing in common.                         *)
LEMMA SumUnion ==
    ASSUME NEW f, NEW S, IsFiniteSet(S), \A x \in S : f[x] \in Int, NEW T \in SUBSET S
    PROVE  SumOn(f, S) = SumOn(f, T) + SumOn(f, S \ T)
<1>1. PICK F : AddsUp(F, f, S) /\ \A U \in SUBSET S : SumOn(f, U) = F[U]
  BY SumOnIsPart
<1> DEFINE Good == {U \in SUBSET T : F[U \cup (S \ T)] = F[U] + F[S \ T]}
<1>2. F[S \ T] \in Int /\ S \ T \in SUBSET S
  BY <1>1 DEF AddsUp
<1>3. {} \in Good
  <2>1. F[{}] = 0 /\ {} \cup (S \ T) = S \ T
    BY <1>1 DEF AddsUp
  <2> QED
    BY <1>2, <2>1
<1>4. ASSUME NEW U \in SUBSET T, U # {}, \A x \in U : U \ {x} \in Good PROVE U \in Good
  <2>1. PICK x \in U : TRUE
    BY <1>4
  <2>2. F[U] = f[x] + F[U \ {x}] /\ F[U \ {x}] \in Int /\ f[x] \in Int
    BY <1>1 DEF AddsUp
  <2>3. (U \cup (S \ T)) \ {x} = (U \ {x}) \cup (S \ T) /\ U \cup (S \ T) \in SUBSET S
    OBVIOUS
  <2>4. F[U \cup (S \ T)] = f[x] + F[(U \ {x}) \cup (S \ T)]
    BY <1>1, <2>3 DEF AddsUp
  <2>5. F[(U \ {x}) \cup (S \ T)] = F[U \ {x}] + F[S \ T]
    BY <1>4
  <2> QED
    BY <1>2, <2>2, <2>4, <2>5
<1>5. SUBSET T \subseteq Good
  <2>1. IsFiniteSet(T)
    BY FS_Subset
  <2> HIDE DEF Good
  <2> QED
    BY <1>3, <1>4, <2>1, SubsetInduction
<1>6. T \cup (S \ T) = S /\ T \in Good
  BY <1>5
<1> QED
  BY <1>1, <1>2, <1>6

(* A sum of positive terms is positive, unless there is none.               *)
LEMMA SumPositive ==
    ASSUME NEW f, NEW S, IsFiniteSet(S), \A x \in S : f[x] \in Int /\ f[x] > 0
    PROVE  SumOn(f, S) \in Nat /\ (S # {} => SumOn(f, S) > 0)
<1>1. PICK F : AddsUp(F, f, S) /\ \A U \in SUBSET S : SumOn(f, U) = F[U]
  BY SumOnIsPart
<1> DEFINE Good == {U \in SUBSET S : F[U] \in Nat /\ (U # {} => F[U] > 0)}
<1>2. {} \in Good
  BY <1>1 DEF AddsUp
<1>3. ASSUME NEW U \in SUBSET S, U # {}, \A x \in U : U \ {x} \in Good PROVE U \in Good
  <2>1. PICK x \in U : TRUE
    BY <1>3
  <2>2. F[U] = f[x] + F[U \ {x}] /\ F[U \ {x}] \in Nat /\ f[x] \in Int /\ f[x] > 0
    BY <1>1, <1>3 DEF AddsUp
  <2>3. F[U] \in Nat /\ F[U] > 0
    BY <2>2
  <2> QED
    BY <2>3
<1>4. SUBSET S \subseteq Good
  <2> HIDE DEF Good
  <2> QED
    BY <1>2, <1>3, SubsetInduction
<1>5. S \in Good
  BY <1>4
<1> QED
  BY <1>1, <1>5

(* The difference of two sums over the same set, term by term.              *)
LEMMA SumMinus ==
    ASSUME NEW f, NEW g, NEW h, NEW S, IsFiniteSet(S),
           \A x \in S : f[x] \in Int /\ g[x] \in Int /\ h[x] = f[x] - g[x]
    PROVE  SumOn(h, S) = SumOn(f, S) - SumOn(g, S)
<1>0. \A x \in S : h[x] \in Int
  OBVIOUS
<1>1. PICK F : AddsUp(F, f, S) /\ \A U \in SUBSET S : SumOn(f, U) = F[U]
  BY SumOnIsPart
<1>2. PICK G : AddsUp(G, g, S) /\ \A U \in SUBSET S : SumOn(g, U) = G[U]
  BY SumOnIsPart
<1>3. PICK H : AddsUp(H, h, S) /\ \A U \in SUBSET S : SumOn(h, U) = H[U]
  BY <1>0, SumOnIsPart
<1> DEFINE Good == {U \in SUBSET S : H[U] = F[U] - G[U]}
<1>4. {} \in Good
  BY <1>1, <1>2, <1>3 DEF AddsUp
<1>5. ASSUME NEW U \in SUBSET S, U # {}, \A x \in U : U \ {x} \in Good PROVE U \in Good
  <2>1. PICK x \in U : TRUE
    BY <1>5
  <2>2. F[U] = f[x] + F[U \ {x}] /\ F[U \ {x}] \in Int
    BY <1>1 DEF AddsUp
  <2>3. G[U] = g[x] + G[U \ {x}] /\ G[U \ {x}] \in Int
    BY <1>2 DEF AddsUp
  <2>4. H[U] = h[x] + H[U \ {x}]
    BY <1>3 DEF AddsUp
  <2>5. H[U \ {x}] = F[U \ {x}] - G[U \ {x}] /\ h[x] = f[x] - g[x] /\ f[x] \in Int /\ g[x] \in Int
    BY <1>5
  <2>6. H[U] = F[U] - G[U]
    BY <2>2, <2>3, <2>4, <2>5
  <2> QED
    BY <2>6
<1>6. SUBSET S \subseteq Good
  <2> HIDE DEF Good
  <2> QED
    BY <1>4, <1>5, SubsetInduction
<1>7. S \in Good
  BY <1>6
<1> QED
  BY <1>1, <1>2, <1>3, <1>7

(* A sum over the numbers of different things is the sum over the things.   *)
LEMMA SumImage ==
    ASSUME NEW s, IsFiniteSet(DOMAIN s),
           \A i, j \in DOMAIN s : s[i] = s[j] => i = j,
           NEW f, \A i \in DOMAIN s : f[s[i]] \in Int,
           NEW g, \A i \in DOMAIN s : g[i] = f[s[i]]
    PROVE  SumOn(g, DOMAIN s) = SumOn(f, ToSet(s))
<1> DEFINE D == DOMAIN s
           Image(I) == {s[i] : i \in I}
           Good == {I \in SUBSET D : IsFiniteSet(Image(I)) /\ SumOn(g, I) = SumOn(f, Image(I))}
<1>1. {} \in Good
  <2>1. Image({}) = {}
    OBVIOUS
  <2>2. SumOn(g, {}) = 0 /\ SumOn(f, {}) = 0
    BY SumEmpty
  <2> HIDE DEF Image
  <2> QED
    BY <2>1, <2>2, FS_EmptySet
<1>2. ASSUME NEW I \in SUBSET D, I # {}, \A x \in I : I \ {x} \in Good PROVE I \in Good
  <2>1. PICK i \in I : TRUE
    BY <1>2
  <2>2. IsFiniteSet(I) /\ IsFiniteSet(Image(I))
    <3>1. Image(I) = Image(I \ {i}) \cup {s[i]}
      OBVIOUS
    <3> HIDE DEF Image
    <3>2. IsFiniteSet(Image(I \ {i}))
      BY <1>2
    <3> QED
      BY <3>1, <3>2, FS_Subset, FS_AddElement
  <2>3. SumOn(g, I) = g[i] + SumOn(g, I \ {i})
    BY <2>2, SumTake
  <2>4. SumOn(f, Image(I)) = f[s[i]] + SumOn(f, Image(I) \ {s[i]})
    <3>1. s[i] \in Image(I) /\ \A x \in Image(I) : f[x] \in Int
      OBVIOUS
    <3> HIDE DEF Image
    <3> QED
      BY <2>2, <3>1, SumTake
  <2>5. Image(I) \ {s[i]} = Image(I \ {i})
    OBVIOUS
  <2>6. SumOn(g, I \ {i}) = SumOn(f, Image(I \ {i}))
    BY <1>2
  <2> HIDE DEF Image
  <2> QED
    BY <2>2, <2>3, <2>4, <2>5, <2>6
<1>3. SUBSET D \subseteq Good
  <2>1. IsFiniteSet(D)
    OBVIOUS
  <2> HIDE DEF Good, D
  <2> QED
    BY <1>1, <1>2, <2>1, SubsetInduction
<1>4. D \in Good /\ Image(D) = ToSet(s)
  BY <1>3 DEF ToSet
<1> QED
  BY <1>4

-----------------------------------------------------------------------------
(* The order of the legs.                                                   *)

\* The legs of a trade: executions, each once.
AreLegs(legs) ==
    /\ legs \in Seq(ToSet(legs))
    /\ \A i \in DOMAIN legs : IsFill(legs[i])
    /\ \A i, j \in DOMAIN legs : legs[i].exec = legs[j].exec => i = j

LEMMA BeforeIsOrder ==
    ASSUME NEW a, NEW b, NEW c, IsFill(a), IsFill(b), IsFill(c)
    PROVE  /\ ~Before(a, a)
           /\ Before(a, b) /\ Before(b, c) => Before(a, c)
           /\ a.exec # b.exec => Before(a, b) \/ Before(b, a)
           /\ Before(a, b) => ~Before(b, a) /\ a.time <= b.time
BY DEF Before, IsFill

LEMMA LegsAreFinite ==
    ASSUME NEW legs, AreLegs(legs)
    PROVE  IsFiniteSet(DOMAIN legs) /\ DOMAIN legs = 1..Len(legs) /\ Len(legs) \in Nat
<1>1. Len(legs) \in Nat /\ DOMAIN legs = 1..Len(legs)
  BY DEF AreLegs
<1> QED
  BY <1>1, FS_Interval

IsLast(legs, I, i) == i \in I /\ \A j \in I \ {i} : Before(legs[j], legs[i])

(* Any legs have a last one.                                                *)
LEMMA SomeLegIsLast ==
    ASSUME NEW legs, AreLegs(legs), NEW I \in SUBSET DOMAIN legs, I # {}
    PROVE  \E i : IsLast(legs, I, i)
<1> DEFINE D == DOMAIN legs
           Good == {J \in SUBSET D : J # {} => \E i : IsLast(legs, J, i)}
<1>1. \A i, j \in D : /\ i # j => Before(legs[i], legs[j]) \/ Before(legs[j], legs[i])
                      /\ \A k \in D : Before(legs[i], legs[j]) /\ Before(legs[j], legs[k])
                                      => Before(legs[i], legs[k])
  BY BeforeIsOrder DEF AreLegs
<1>2. {} \in Good
  OBVIOUS
<1>3. ASSUME NEW J \in SUBSET D, J # {}, \A x \in J : J \ {x} \in Good PROVE J \in Good
  <2>1. PICK j \in J : TRUE
    BY <1>3
  <2>2. CASE J \ {j} = {}
    BY <2>1, <2>2 DEF IsLast
  <2>3. CASE J \ {j} # {}
    <3>1. PICK i : IsLast(legs, J \ {j}, i)
      BY <1>3, <2>3
    <3>2. CASE Before(legs[i], legs[j])
      <4>1. IsLast(legs, J, j)
        BY <1>1, <3>1, <3>2 DEF IsLast
      <4> QED
        BY <4>1
    <3>3. CASE Before(legs[j], legs[i])
      <4>1. IsLast(legs, J, i)
        BY <3>1, <3>3 DEF IsLast
      <4> QED
        BY <4>1
    <3> QED
      BY <1>1, <3>1, <3>2, <3>3 DEF IsLast
  <2> QED
    BY <2>2, <2>3
<1>4. SUBSET D \subseteq Good
  <2>1. IsFiniteSet(D)
    BY LegsAreFinite
  <2> HIDE DEF Good, D
  <2> QED
    BY <1>2, <1>3, <2>1, SubsetInduction
<1> QED
  BY <1>4

(* LastLeg is the leg that all others come before.                          *)
LEMMA LastLegIsLast ==
    ASSUME NEW legs, AreLegs(legs), NEW I \in SUBSET DOMAIN legs
    PROVE  /\ I # {} => IsLast(legs, I, LastLeg(legs, I))
           /\ \A i : IsLast(legs, I, i) => LastLeg(legs, I) = i
<1>1. \A i, j \in DOMAIN legs :
         /\ i # j => Before(legs[i], legs[j]) \/ Before(legs[j], legs[i])
         /\ Before(legs[i], legs[j]) => ~Before(legs[j], legs[i])
  BY BeforeIsOrder DEF AreLegs
<1> DEFINE Chosen(i) == i \in I /\ \A j \in I \ {i} :
                Before(legs[j], legs[i]) \/ (~Before(legs[i], legs[j]) /\ j < i)
<1>2. \A i : Chosen(i) <=> IsLast(legs, I, i)
  BY <1>1 DEF IsLast
<1>3. LastLeg(legs, I) = CHOOSE i \in I : Chosen(i)
  BY DEF LastLeg
<1>4. ASSUME NEW i, IsLast(legs, I, i) PROVE Chosen(LastLeg(legs, I))
  <2>1. Chosen(i)
    BY <1>2, <1>4
  <2>2. i \in I
    BY <2>1
  <2> HIDE DEF Chosen
  <2> QED
    BY <1>3, <2>1, <2>2
<1>5. ASSUME NEW i, NEW j, IsLast(legs, I, i), IsLast(legs, I, j) PROVE i = j
  BY <1>1, <1>5 DEF IsLast
<1>6. I # {} => \E i : IsLast(legs, I, i)
  BY SomeLegIsLast
<1> HIDE DEF Chosen
<1> QED
  BY <1>2, <1>4, <1>5, <1>6

-----------------------------------------------------------------------------
(* The replay.                                                              *)

Ratios == Int \X (Nat \ {0})

States == [ok : BOOLEAN, closed : BOOLEAN, open : Nat, avg : Ratios, gross : Ratios]

LEMMA StateParts ==
    ASSUME NEW s \in States
    PROVE  /\ s.ok \in BOOLEAN /\ s.closed \in BOOLEAN /\ s.open \in Nat
           /\ s.avg[1] \in Int /\ s.avg[2] \in Nat \ {0}
           /\ s.gross[1] \in Int /\ s.gross[2] \in Nat \ {0}
           /\ s = [ok |-> s.ok, closed |-> s.closed, open |-> s.open,
                   avg |-> s.avg, gross |-> s.gross]
BY DEF States, Ratios

LEMMA PositiveProduct ==
    ASSUME NEW a \in Nat \ {0}, NEW b \in Nat \ {0}
    PROVE  a * b \in Nat \ {0}
OBVIOUS

LEMMA EnteredParts ==
    ASSUME NEW s \in States, NEW leg, IsFill(leg)
    PROVE  /\ Entered(s, leg) \in States
           /\ Entered(s, leg).ok = s.ok /\ Entered(s, leg).closed = s.closed
           /\ Entered(s, leg).open = s.open + leg.qty
           /\ Entered(s, leg).avg[1] = s.avg[1] * s.open + leg.price * leg.qty * s.avg[2]
           /\ Entered(s, leg).avg[2] = s.avg[2] * (s.open + leg.qty)
           /\ Entered(s, leg).gross = s.gross
<1> DEFINE a1 == s.avg[1] * s.open + leg.price * leg.qty * s.avg[2]
           a2 == s.avg[2] * (s.open + leg.qty)
           o  == s.open + leg.qty
<1>1. leg.qty \in Nat \ {0} /\ leg.price \in Nat \ {0}
  BY DEF IsFill
<1>2. o \in Nat \ {0}
  BY <1>1, StateParts
<1>3. a2 \in Nat \ {0}
  <2>1. s.avg[2] \in Nat \ {0}
    BY StateParts
  <2> HIDE DEF o
  <2> QED
    BY <1>2, <2>1, PositiveProduct DEF o
<1>4. a1 \in Int
  <2>1. s.avg[1] \in Int /\ s.avg[2] \in Int /\ s.open \in Int
    BY StateParts
  <2> QED
    BY <1>1, <2>1
<1>5. Entered(s, leg) = [ok |-> s.ok, closed |-> s.closed, open |-> o,
                         avg |-> <<a1, a2>>, gross |-> s.gross]
  <2>1. s = [ok |-> s.ok, closed |-> s.closed, open |-> s.open,
             avg |-> s.avg, gross |-> s.gross]
    BY StateParts
  <2>2. Entered(s, leg) = [s EXCEPT !.avg = <<a1, a2>>, !.open = o]
    BY <2>1 DEF Entered, Ratio
  <2> HIDE DEF a1, a2, o
  <2> QED
    BY <2>1, <2>2
<1>6. <<a1, a2>> \in Ratios /\ s.gross \in Ratios /\ s.ok \in BOOLEAN /\ s.closed \in BOOLEAN
  BY <1>3, <1>4 DEF Ratios, States
<1> HIDE DEF a1, a2, o
<1>7. Entered(s, leg) \in States
  BY <1>2, <1>5, <1>6 DEF States
<1> QED
  BY <1>5, <1>7 DEF a1, a2, o

LEMMA ExitedParts ==
    ASSUME NEW s \in States, NEW leg, IsFill(leg), leg.qty <= s.open, NEW sign \in {1, -1}
    PROVE  /\ Exited(s, leg, sign) \in States
           /\ Exited(s, leg, sign).ok = s.ok
           /\ Exited(s, leg, sign).closed = (leg.qty = s.open)
           /\ Exited(s, leg, sign).open = s.open - leg.qty
           /\ Exited(s, leg, sign).avg = s.avg
           /\ Exited(s, leg, sign).gross[1]
                = s.gross[1] * s.avg[2]
                    + ((leg.price * s.avg[2] - s.avg[1]) * leg.qty * sign) * s.gross[2]
           /\ Exited(s, leg, sign).gross[2] = s.gross[2] * s.avg[2]
<1> DEFINE g1 == s.gross[1] * s.avg[2]
                    + ((leg.price * s.avg[2] - s.avg[1]) * leg.qty * sign) * s.gross[2]
           g2 == s.gross[2] * s.avg[2]
           o  == s.open - leg.qty
           c  == leg.qty = s.open
<1>1. leg.qty \in Nat \ {0} /\ leg.price \in Nat \ {0}
  BY DEF IsFill
<1>2. o \in Nat
  BY <1>1, StateParts
<1>3. g2 \in Nat \ {0}
  BY StateParts, PositiveProduct
<1>4. g1 \in Int
  <2>1. s.avg[1] \in Int /\ s.avg[2] \in Int /\ s.gross[1] \in Int /\ s.gross[2] \in Int
    BY StateParts
  <2> QED
    BY <1>1, <2>1
<1>5. Exited(s, leg, sign) = [ok |-> s.ok, closed |-> c, open |-> o,
                              avg |-> s.avg, gross |-> <<g1, g2>>]
  <2>1. s = [ok |-> s.ok, closed |-> s.closed, open |-> s.open,
             avg |-> s.avg, gross |-> s.gross]
    BY StateParts
  <2>2. Exited(s, leg, sign) = [s EXCEPT !.gross = <<g1, g2>>, !.open = o, !.closed = c]
    BY <2>1 DEF Exited, Ratio, RatioAdd
  <2> HIDE DEF g1, g2, o, c
  <2> QED
    BY <2>1, <2>2
<1>6. <<g1, g2>> \in Ratios /\ s.avg \in Ratios /\ s.ok \in BOOLEAN /\ c \in BOOLEAN
  BY <1>3, <1>4 DEF Ratios, States
<1> HIDE DEF g1, g2, o, c
<1>7. Exited(s, leg, sign) \in States
  BY <1>2, <1>5, <1>6 DEF States
<1> QED
  BY <1>5, <1>7 DEF g1, g2, o, c

Refused(s, leg) == ~s.ok \/ s.closed \/ (leg.role = "exit" /\ leg.qty > s.open)

LEMMA ReplayLegCases ==
    ASSUME NEW s \in States, NEW leg, IsFill(leg), NEW sign \in {1, -1}
    PROVE  /\ ReplayLeg(s, leg, sign) \in States
           /\ Refused(s, leg) => ~ReplayLeg(s, leg, sign).ok
           /\ ~Refused(s, leg) /\ leg.role = "entry" => ReplayLeg(s, leg, sign) = Entered(s, leg)
           /\ ~Refused(s, leg) /\ leg.role = "exit"
                => ReplayLeg(s, leg, sign) = Exited(s, leg, sign) /\ leg.qty <= s.open
<1>1. [s EXCEPT !.ok = FALSE] \in States /\ [s EXCEPT !.ok = FALSE].ok = FALSE
  BY DEF States
<1>2. leg.role \in {"entry", "exit"} /\ leg.qty \in Nat /\ s.open \in Nat
  BY DEF IsFill, States
<1>3. CASE Refused(s, leg)
  BY <1>1, <1>3 DEF ReplayLeg, Refused
<1>4. CASE ~Refused(s, leg) /\ leg.role = "entry"
  BY <1>4, EnteredParts DEF ReplayLeg, Refused
<1>5. CASE ~Refused(s, leg) /\ leg.role = "exit"
  <2>1. leg.qty <= s.open
    BY <1>2, <1>5 DEF Refused
  <2>2. ReplayLeg(s, leg, sign) = Exited(s, leg, sign)
    BY <1>5 DEF ReplayLeg, Refused
  <2> QED
    BY <1>5, <2>1, <2>2, ExitedParts
<1> QED
  BY <1>2, <1>3, <1>4, <1>5

LEMMA NothingIsState == NothingReplayed \in States
BY DEF NothingReplayed, States, Ratios, Ratio

(* F is a replay of every part of the legs; pick says which leg of a part   *)
(* comes last: the last of the order, or the last of the sequence.          *)
Picks(pick, D) == \A I \in SUBSET D : I # {} => pick[I] \in I

IsReplay(F, legs, sign, pick) ==
    \A I \in SUBSET DOMAIN legs :
        /\ F[I] \in States
        /\ F[I] = IF I = {} THEN NothingReplayed
                  ELSE ReplayLeg(F[I \ {pick[I]}], legs[pick[I]], sign)

Replayed(F, legs, sign, pick) ==
    [I \in SUBSET DOMAIN legs |->
        IF I = {} THEN NothingReplayed
        ELSE ReplayLeg(F[I \ {pick[I]}], legs[pick[I]], sign)]

LEMMA ReplayExists ==
    ASSUME NEW legs, AreLegs(legs), NEW sign \in {1, -1},
           NEW pick, Picks(pick, DOMAIN legs)
    PROVE  \E F : F = Replayed(F, legs, sign, pick)
<1> DEFINE D == DOMAIN legs
           step == [i \in D |-> [s \in States |-> ReplayLeg(s, legs[i], sign)]]
<1>1. \A i \in D : \A s \in States : ReplayLeg(s, legs[i], sign) \in States
  BY ReplayLegCases DEF AreLegs
<1>2. PICK F \in [SUBSET D -> States] : FoldEquation(F, D, NothingReplayed, pick, step)
  <2>1. \A I \in SUBSET D : I # {} => pick[I] \in I
    BY DEF Picks
  <2>2. \A i \in D, s \in States : step[i][s] \in States
    BY <1>1
  <2>3. IsFiniteSet(D) /\ NothingReplayed \in States
    BY LegsAreFinite, NothingIsState
  <2> HIDE DEF D, step
  <2> QED
    BY <2>1, <2>2, <2>3, FoldExists
<1> DEFINE G == Replayed(F, legs, sign, pick)
<1>3. ASSUME NEW I \in SUBSET D PROVE F[I] = G[I]
  <2>1. CASE I = {}
    BY <1>2, <2>1 DEF FoldEquation, Replayed
  <2>2. CASE I # {}
    <3>1. pick[I] \in D /\ F[I \ {pick[I]}] \in States
      BY <1>2, <2>2 DEF Picks
    <3>2. step[pick[I]][F[I \ {pick[I]}]] = ReplayLeg(F[I \ {pick[I]}], legs[pick[I]], sign)
      BY <3>1
    <3> QED
      BY <1>2, <2>2, <3>1, <3>2 DEF FoldEquation, Replayed
  <2> QED
    BY <2>1, <2>2
<1>4. F = G
  BY <1>2, <1>3 DEF Replayed
<1> QED
  BY <1>4

LEMMA ReplayedIsReplay ==
    ASSUME NEW legs, AreLegs(legs), NEW sign \in {1, -1},
           NEW pick, Picks(pick, DOMAIN legs), NEW F, F = Replayed(F, legs, sign, pick)
    PROVE  IsReplay(F, legs, sign, pick)
<1> DEFINE D == DOMAIN legs
           Typed == {I \in SUBSET D : F[I] \in States}
<1>1. \A I \in SUBSET D : F[I] = IF I = {} THEN NothingReplayed
                                 ELSE ReplayLeg(F[I \ {pick[I]}], legs[pick[I]], sign)
  BY DEF Replayed
<1>2. {} \in Typed
  BY <1>1, NothingIsState
<1>3. ASSUME NEW I \in SUBSET D, I # {}, \A x \in I : I \ {x} \in Typed PROVE I \in Typed
  <2>1. pick[I] \in I /\ pick[I] \in D
    BY <1>3 DEF Picks
  <2>2. F[I \ {pick[I]}] \in States /\ IsFill(legs[pick[I]])
    BY <1>3, <2>1 DEF AreLegs
  <2>3. F[I] = ReplayLeg(F[I \ {pick[I]}], legs[pick[I]], sign)
    BY <1>1, <1>3
  <2> QED
    BY <2>2, <2>3, ReplayLegCases
<1>4. SUBSET D \subseteq Typed
  <2>1. IsFiniteSet(D)
    BY LegsAreFinite
  <2> HIDE DEF Typed, D
  <2> QED
    BY <1>2, <1>3, <2>1, SubsetInduction
<1> QED
  BY <1>1, <1>4 DEF IsReplay

InOrder(legs) == [I \in SUBSET DOMAIN legs |-> LastLeg(legs, I)]

LEMMA InOrderPicks == ASSUME NEW legs, AreLegs(legs) PROVE Picks(InOrder(legs), DOMAIN legs)
BY LastLegIsLast DEF InOrder, Picks, IsLast

LEMMA ReplayIsFold ==
    ASSUME NEW legs, AreLegs(legs), NEW sign \in {1, -1}
    PROVE  \E F : /\ IsReplay(F, legs, sign, InOrder(legs))
                  /\ Replay(legs, sign) = F[DOMAIN legs]
<1> DEFINE Iter(F) == [I \in SUBSET DOMAIN legs |->
                         IF I = {} THEN NothingReplayed
                         ELSE ReplayLeg(F[I \ {LastLeg(legs, I)}], legs[LastLeg(legs, I)], sign)]
           C == CHOOSE F : F = Iter(F)
<1>1. \A F : Replayed(F, legs, sign, InOrder(legs)) = Iter(F)
  BY DEF Replayed, InOrder
<1>2. PICK F : F = Replayed(F, legs, sign, InOrder(legs))
  BY InOrderPicks, ReplayExists
<1>3. C = Iter(C)
  <2>1. F = Iter(F)
    BY <1>1, <1>2
  <2> HIDE DEF Iter
  <2> QED
    BY <2>1
<1>4. Replay(legs, sign) = C[DOMAIN legs]
  BY DEF Replay, MapThenFoldSet
<1> HIDE DEF C
<1>5. C = Replayed(C, legs, sign, InOrder(legs))
  BY <1>1, <1>3
<1>6. IsReplay(C, legs, sign, InOrder(legs))
  BY <1>5, InOrderPicks, ReplayedIsReplay
<1> QED
  BY <1>4, <1>6

AsGiven(legs) == [I \in SUBSET DOMAIN legs |-> Max(I)]

(* The largest number of a part of a sequence's domain.                     *)
LEMMA LargestOf ==
    ASSUME NEW n \in Nat, NEW I \in SUBSET (1..n), I # {}
    PROVE  /\ Max(I) \in I /\ \A j \in I : j <= Max(I)
<1> DEFINE Bounds == {k \in Nat : \A j \in I : j <= k}
<1>1. PICK k \in Bounds : \A m \in Bounds : k <= m
  <2>1. n \in Bounds
    OBVIOUS
  <2>2. Bounds \subseteq Nat /\ Bounds # {}
    BY <2>1
  <2> HIDE DEF Bounds
  <2> QED
    BY <2>2, SmallestOf
<1>2. k \in I
  <2>1. SUFFICES ASSUME k \notin I PROVE FALSE
    OBVIOUS
  <2>2. \A j \in I : j <= k - 1 /\ k - 1 \in Nat
    BY <2>1
  <2>3. k - 1 \in Bounds
    BY <2>2
  <2> QED
    BY <1>1, <2>3
<1>3. \E x \in I : \A y \in I : x >= y
  BY <1>1, <1>2
<1> QED
  BY <1>3 DEF Max

LEMMA AsGivenPicks == ASSUME NEW legs, AreLegs(legs) PROVE Picks(AsGiven(legs), DOMAIN legs)
<1>1. DOMAIN legs = 1..Len(legs) /\ Len(legs) \in Nat
  BY LegsAreFinite
<1> QED
  BY <1>1, LargestOf DEF AsGiven, Picks

LEMMA EpisodeIsFold ==
    ASSUME NEW e, AreLegs(e.fills), IsEpisode(e)
    PROVE  \E F : /\ IsReplay(F, e.fills, e.sign, AsGiven(e.fills))
                  /\ F[DOMAIN e.fills].ok /\ F[DOMAIN e.fills].closed
<1> DEFINE legs == e.fills
           Iter(F) == [I \in SUBSET DOMAIN legs |->
                         IF I = {} THEN NothingReplayed
                         ELSE ReplayLeg(F[I \ {Max(I)}], legs[Max(I)], e.sign)]
           C == CHOOSE F : F = Iter(F)
<1>0. e.sign \in {1, -1}
  BY DEF IsEpisode
<1>1. \A F : Replayed(F, legs, e.sign, AsGiven(legs)) = Iter(F)
  BY DEF Replayed, AsGiven
<1>2. PICK F : F = Replayed(F, legs, e.sign, AsGiven(legs))
  BY <1>0, AsGivenPicks, ReplayExists
<1>3. C = Iter(C)
  <2>1. F = Iter(F)
    BY <1>1, <1>2
  <2> HIDE DEF Iter
  <2> QED
    BY <2>1
<1>4. C[DOMAIN legs].ok /\ C[DOMAIN legs].closed
  BY DEF IsEpisode, FoldLeft, MapThenFoldSet
<1> HIDE DEF C
<1>5. C = Replayed(C, legs, e.sign, AsGiven(legs))
  BY <1>1, <1>3
<1>6. IsReplay(C, legs, e.sign, AsGiven(legs))
  BY <1>0, <1>5, AsGivenPicks, ReplayedIsReplay
<1> QED
  BY <1>4, <1>6

-----------------------------------------------------------------------------
(* Nothing is lost by the averages: what the exits realised, less what the  *)
(* open quantity cost at its average price, is the money that moved.        *)

Balance(g1, g2, a1, a2, o, m, sign) == g1 * a2 - sign * a1 * o * g2 = m * g2 * a2

Conserved(s, moved, sign) ==
    Balance(s.gross[1], s.gross[2], s.avg[1], s.avg[2], s.open, moved, sign)

Moved(leg, sign) == (IF leg.role = "exit" THEN sign ELSE -sign) * leg.qty * leg.price

LEMMA ClosedArithmetic ==
    ASSUME NEW g1 \in Int, NEW g2 \in Int, NEW a1 \in Int, NEW a2 \in Int \ {0}, NEW m \in Int,
           NEW sign \in {1, -1}, Balance(g1, g2, a1, a2, 0, m, sign)
    PROVE  g1 = m * g2
<1>1. (g1 - m * g2) * a2 = 0
  BY DEF Balance
<1>2. \A x \in Int : x * a2 = 0 => x = 0
  OBVIOUS
<1>3. g1 - m * g2 \in Int
  OBVIOUS
<1>4. g1 - m * g2 = 0
  BY <1>1, <1>2, <1>3
<1> QED
  BY <1>4

LEMMA LegConserves ==
    ASSUME NEW s \in States, NEW leg, IsFill(leg), NEW sign \in {1, -1}, NEW m \in Int,
           Conserved(s, m, sign), ReplayLeg(s, leg, sign).ok
    PROVE  /\ s.ok /\ ~s.closed /\ Moved(leg, sign) \in Int
           /\ Conserved(ReplayLeg(s, leg, sign), m + Moved(leg, sign), sign)
<1>1. /\ leg.qty \in Int /\ leg.price \in Int /\ sign \in Int
      /\ leg.role = "entry" \/ leg.role = "exit"
  BY DEF IsFill
<1>2. ~Refused(s, leg)
  BY ReplayLegCases
<1>3. /\ s.avg[1] \in Int /\ s.avg[2] \in Int /\ s.gross[1] \in Int /\ s.gross[2] \in Int
      /\ s.open \in Int
  BY StateParts
<1>4. Moved(leg, sign) \in Int
  BY <1>1 DEF Moved
<1>5. CASE leg.role = "entry"
  <2> DEFINE t == Entered(s, leg)
  <2>1. ReplayLeg(s, leg, sign) = t
    BY <1>2, <1>5, ReplayLegCases
  <2>2. /\ t.open = s.open + leg.qty /\ t.gross = s.gross
        /\ t.avg[1] = s.avg[1] * s.open + leg.price * leg.qty * s.avg[2]
        /\ t.avg[2] = s.avg[2] * (s.open + leg.qty)
    BY EnteredParts
  <2>3. Moved(leg, sign) = (-sign) * leg.qty * leg.price
    BY <1>5 DEF Moved
  <2> HIDE DEF t
  <2>4. Conserved(t, m + Moved(leg, sign), sign)
    <3> DEFINE g1 == s.gross[1]  g2 == s.gross[2]  a1 == s.avg[1]  a2 == s.avg[2]
               o == s.open  q == leg.qty  p == leg.price
    <3>1. /\ g1 \in Int /\ g2 \in Int /\ a1 \in Int /\ a2 \in Int /\ o \in Int
          /\ q \in Int /\ p \in Int /\ Balance(g1, g2, a1, a2, o, m, sign)
      BY <1>1, <1>3 DEF Conserved
    <3>2. /\ t.gross[1] = g1 /\ t.gross[2] = g2 /\ t.open = o + q
          /\ t.avg[1] = a1 * o + p * q * a2 /\ t.avg[2] = a2 * (o + q)
          /\ Moved(leg, sign) = (-sign) * q * p
      BY <2>2, <2>3
    <3> HIDE DEF g1, g2, a1, a2, o, q, p
    <3>3. Balance(g1, g2, a1 * o + p * q * a2, a2 * (o + q), o + q, m + (-sign) * q * p, sign)
      <4>1. sign \in Int
        OBVIOUS
      <4>2. g1 * (a2 * (o + q)) - sign * (a1 * o + p * q * a2) * (o + q) * g2
              = (g1 * a2 - sign * a1 * o * g2) * (o + q) - sign * p * q * a2 * (o + q) * g2
        BY <3>1, <4>1
      <4>3. @ = (m * g2 * a2) * (o + q) - sign * p * q * a2 * (o + q) * g2
        BY <3>1 DEF Balance
      <4>4. @ = (m + (-sign) * q * p) * g2 * (a2 * (o + q))
        BY <3>1, <4>1
      <4> QED
        BY <4>2, <4>3, <4>4 DEF Balance
    <3> QED
      BY <3>2, <3>3 DEF Conserved
  <2> QED
    BY <1>2, <1>4, <2>1, <2>4 DEF Refused
<1>6. CASE leg.role = "exit"
  <2> DEFINE t == Exited(s, leg, sign)
  <2>1. ReplayLeg(s, leg, sign) = t /\ leg.qty <= s.open
    BY <1>2, <1>6, ReplayLegCases
  <2>2. /\ t.open = s.open - leg.qty /\ t.avg = s.avg
        /\ t.gross[1] = s.gross[1] * s.avg[2]
             + ((leg.price * s.avg[2] - s.avg[1]) * leg.qty * sign) * s.gross[2]
        /\ t.gross[2] = s.gross[2] * s.avg[2]
    BY <2>1, ExitedParts
  <2>3. Moved(leg, sign) = sign * leg.qty * leg.price
    BY <1>6 DEF Moved
  <2> HIDE DEF t
  <2>4. Conserved(t, m + Moved(leg, sign), sign)
    <3> DEFINE g1 == s.gross[1]  g2 == s.gross[2]  a1 == s.avg[1]  a2 == s.avg[2]
               o == s.open  q == leg.qty  p == leg.price
    <3>1. /\ g1 \in Int /\ g2 \in Int /\ a1 \in Int /\ a2 \in Int /\ o \in Int
          /\ q \in Int /\ p \in Int /\ Balance(g1, g2, a1, a2, o, m, sign)
      BY <1>1, <1>3 DEF Conserved
    <3>2. /\ t.gross[1] = g1 * a2 + ((p * a2 - a1) * q * sign) * g2 /\ t.gross[2] = g2 * a2
          /\ t.open = o - q /\ t.avg[1] = a1 /\ t.avg[2] = a2
          /\ Moved(leg, sign) = sign * q * p
      BY <2>2, <2>3
    <3> HIDE DEF g1, g2, a1, a2, o, q, p
    <3>3. Balance(g1 * a2 + ((p * a2 - a1) * q * sign) * g2, g2 * a2, a1, a2, o - q,
                  m + sign * q * p, sign)
      <4>1. sign \in Int
        OBVIOUS
      <4>2. (g1 * a2 + ((p * a2 - a1) * q * sign) * g2) * a2 - sign * a1 * (o - q) * (g2 * a2)
              = (g1 * a2 - sign * a1 * o * g2) * a2 + sign * q * p * g2 * a2 * a2
        BY <3>1, <4>1
      <4>3. @ = (m * g2 * a2) * a2 + sign * q * p * g2 * a2 * a2
        BY <3>1 DEF Balance
      <4>4. @ = (m + sign * q * p) * (g2 * a2) * a2
        BY <3>1, <4>1
      <4> QED
        BY <4>2, <4>3, <4>4 DEF Balance
    <3> QED
      BY <3>2, <3>3 DEF Conserved
  <2> QED
    BY <1>2, <1>4, <2>1, <2>4 DEF Refused
<1> QED
  BY <1>1, <1>5, <1>6

LEMMA NothingConserves ==
    ASSUME NEW sign \in {1, -1}
    PROVE  Conserved(NothingReplayed, 0, sign)
BY DEF Conserved, Balance, NothingReplayed, Ratio

(* What a replay that is not refused keeps: the balance of the money, and   *)
(* an open quantity of zero only at the start and at the close.             *)
MovedBy(legs, sign) == [i \in DOMAIN legs |-> Moved(legs[i], sign)]

Balanced(F, legs, sign, I) == F[I].ok => Conserved(F[I], SumOn(MovedBy(legs, sign), I), sign)

LEMMA MovedIsInt ==
    ASSUME NEW legs, AreLegs(legs), NEW sign \in {1, -1}
    PROVE  \A i \in DOMAIN legs : MovedBy(legs, sign)[i] = Moved(legs[i], sign)
                                  /\ MovedBy(legs, sign)[i] \in Int
<1> SUFFICES ASSUME NEW i \in DOMAIN legs PROVE Moved(legs[i], sign) \in Int
  BY DEF MovedBy
<1>1. legs[i].qty \in Int /\ legs[i].price \in Int
  BY DEF AreLegs, IsFill
<1> QED
  BY <1>1 DEF Moved

LEMMA ReplayConserves ==
    ASSUME NEW legs, AreLegs(legs), NEW sign \in {1, -1}, NEW pick, Picks(pick, DOMAIN legs),
           NEW F, IsReplay(F, legs, sign, pick)
    PROVE  \A I \in SUBSET DOMAIN legs : Balanced(F, legs, sign, I)
<1> DEFINE D == DOMAIN legs
           M == MovedBy(legs, sign)
           Good == {I \in SUBSET D : Balanced(F, legs, sign, I)}
<1>1. {} \in Good
  <2>1. F[{}] = NothingReplayed /\ SumOn(M, {}) = 0
    BY SumEmpty DEF IsReplay
  <2> QED
    BY <2>1, NothingConserves DEF Balanced
<1>2. ASSUME NEW I \in SUBSET D, I # {}, \A x \in I : I \ {x} \in Good PROVE I \in Good
  <2> DEFINE i == pick[I]
             J == I \ {i}
  <2>1. i \in I /\ J \in SUBSET D /\ J \in Good
    BY <1>2 DEF Picks
  <2>2. F[J] \in States /\ F[I] = ReplayLeg(F[J], legs[i], sign)
    BY <1>2, <2>1 DEF IsReplay
  <2>3. IsFill(legs[i])
    BY <2>1 DEF AreLegs
  <2>4. \A x \in I : M[x] \in Int
    BY MovedIsInt
  <2>5. IsFiniteSet(I) /\ IsFiniteSet(J)
    BY LegsAreFinite, FS_Subset
  <2>6. SumOn(M, I) = M[i] + SumOn(M, J) /\ SumOn(M, J) \in Int /\ M[i] = Moved(legs[i], sign)
    <3> HIDE DEF M
    <3>1. SumOn(M, I) = M[i] + SumOn(M, J)
      BY <2>1, <2>4, <2>5, SumTake
    <3>2. SumOn(M, J) \in Int
      BY <2>4, <2>5, SumType
    <3>3. M[i] = Moved(legs[i], sign)
      BY <2>1, MovedIsInt DEF M
    <3> QED
      BY <3>1, <3>2, <3>3
  <2>7. SUFFICES ASSUME F[I].ok PROVE Conserved(F[I], SumOn(M, I), sign)
    BY DEF Balanced
  <2> HIDE DEF i, J, M
  <2>8. F[J].ok
    BY <2>2, <2>3, <2>7, ReplayLegCases DEF Refused
  <2>9. Conserved(F[J], SumOn(M, J), sign)
    BY <2>1, <2>8 DEF Balanced, M
  <2>10. Conserved(F[I], SumOn(M, J) + Moved(legs[i], sign), sign) /\ Moved(legs[i], sign) \in Int
    BY <2>2, <2>3, <2>6, <2>7, <2>9, LegConserves
  <2>11. SumOn(M, J) + Moved(legs[i], sign) = SumOn(M, I)
    BY <2>6, <2>10
  <2> QED
    BY <2>10, <2>11
<1>3. SUBSET D \subseteq Good
  <2>1. IsFiniteSet(D)
    BY LegsAreFinite
  <2> HIDE DEF Good, D
  <2> QED
    BY <1>1, <1>2, <2>1, SubsetInduction
<1> QED
  BY <1>3

-----------------------------------------------------------------------------
(* The open quantity.                                                       *)

Signed(leg) == IF leg.role = "exit" THEN -leg.qty ELSE leg.qty

SignedBy(legs) == [i \in DOMAIN legs |-> Signed(legs[i])]

Counted(F, legs, pick, I) ==
    F[I].ok => /\ F[I].open = SumOn(SignedBy(legs), I)
               /\ F[I].closed <=> (I # {} /\ F[I].open = 0)
               /\ I # {} => F[I \ {pick[I]}].ok /\ ~F[I \ {pick[I]}].closed
               /\ F[I].closed => legs[pick[I]].role = "exit"

LEMMA SignedIsInt ==
    ASSUME NEW legs, AreLegs(legs)
    PROVE  \A i \in DOMAIN legs : SignedBy(legs)[i] = Signed(legs[i])
                                  /\ SignedBy(legs)[i] \in Int
BY DEF SignedBy, Signed, AreLegs, IsFill

(* One leg that is not refused.                                             *)
LEMMA LegCounts ==
    ASSUME NEW s \in States, NEW leg, IsFill(leg), NEW sign \in {1, -1},
           s.closed => s.open = 0, ReplayLeg(s, leg, sign).ok
    PROVE  /\ s.ok /\ ~s.closed
           /\ ReplayLeg(s, leg, sign).open = s.open + Signed(leg)
           /\ ReplayLeg(s, leg, sign).closed <=> ReplayLeg(s, leg, sign).open = 0
           /\ ReplayLeg(s, leg, sign).closed => leg.role = "exit"
<1>1. ~Refused(s, leg)
  BY ReplayLegCases
<1>2. s.open \in Nat /\ leg.qty \in Nat \ {0} /\ leg.role \in {"entry", "exit"}
  BY DEF States, IsFill
<1>3. CASE leg.role = "entry"
  <2>1. ReplayLeg(s, leg, sign) = Entered(s, leg)
    BY <1>1, <1>3, ReplayLegCases
  <2>2. Entered(s, leg).open = s.open + leg.qty /\ Entered(s, leg).closed = s.closed
    BY EnteredParts
  <2> QED
    BY <1>1, <1>2, <1>3, <2>1, <2>2 DEF Refused, Signed
<1>4. CASE leg.role = "exit"
  <2>1. ReplayLeg(s, leg, sign) = Exited(s, leg, sign) /\ leg.qty <= s.open
    BY <1>1, <1>4, ReplayLegCases
  <2>2. /\ Exited(s, leg, sign).open = s.open - leg.qty
        /\ Exited(s, leg, sign).closed <=> leg.qty = s.open
    <3>1. Exited(s, leg, sign).closed = (leg.qty = s.open)
          /\ Exited(s, leg, sign).open = s.open - leg.qty
      BY <2>1, ExitedParts
    <3> QED
      BY <3>1, Zenon
  <2>3. Signed(leg) = -leg.qty /\ s.ok /\ ~s.closed
    BY <1>1, <1>4 DEF Refused, Signed
  <2> QED
    BY <1>2, <1>4, <2>1, <2>2, <2>3
<1> QED
  BY <1>2, <1>3, <1>4

LEMMA ReplayCounts ==
    ASSUME NEW legs, AreLegs(legs), NEW sign \in {1, -1},
           NEW pick, Picks(pick, DOMAIN legs), NEW F, IsReplay(F, legs, sign, pick)
    PROVE  \A I \in SUBSET DOMAIN legs : Counted(F, legs, pick, I)
<1> DEFINE D == DOMAIN legs
           Q == SignedBy(legs)
           Good == {I \in SUBSET D : Counted(F, legs, pick, I)}
<1>1. {} \in Good
  <2>1. F[{}] = NothingReplayed /\ SumOn(Q, {}) = 0
    BY SumEmpty DEF IsReplay
  <2>2. F[{}].open = 0 /\ F[{}].closed = FALSE
    BY <2>1 DEF NothingReplayed
  <2> QED
    BY <2>1, <2>2 DEF Counted
<1>2. ASSUME NEW I \in SUBSET D, I # {}, \A x \in I : I \ {x} \in Good PROVE I \in Good
  <2> DEFINE i == pick[I]
             J == I \ {i}
  <2>1. i \in I /\ J \in SUBSET D /\ J \in Good
    BY <1>2 DEF Picks
  <2>2. F[J] \in States /\ F[I] = ReplayLeg(F[J], legs[i], sign)
    BY <1>2, <2>1 DEF IsReplay
  <2>3. IsFill(legs[i])
    BY <2>1 DEF AreLegs
  <2>4. SumOn(Q, I) = Signed(legs[i]) + SumOn(Q, J) /\ SumOn(Q, J) \in Int
        /\ Signed(legs[i]) \in Int
    <3>1. \A x \in I : Q[x] \in Int /\ Q[x] = Signed(legs[x])
      BY SignedIsInt
    <3>2. IsFiniteSet(I) /\ IsFiniteSet(J)
      BY LegsAreFinite, FS_Subset
    <3> HIDE DEF Q
    <3>3. SumOn(Q, I) = Q[i] + SumOn(Q, J)
      BY <2>1, <3>1, <3>2, SumTake
    <3>4. SumOn(Q, J) \in Int
      BY <3>1, <3>2, SumType
    <3> QED
      BY <2>1, <3>1, <3>3, <3>4
  <2>5. SUFFICES ASSUME F[I].ok
                 PROVE  /\ F[I].open = SumOn(Q, I)
                        /\ F[I].closed <=> F[I].open = 0
                        /\ F[J].ok /\ ~F[J].closed
                        /\ F[I].closed => legs[i].role = "exit"
    BY <1>2 DEF Counted
  <2> HIDE DEF i, J, Q
  <2>6. F[J].ok
    BY <2>2, <2>3, <2>5, ReplayLegCases DEF Refused
  <2>7. F[J].open = SumOn(Q, J) /\ (F[J].closed => F[J].open = 0)
    BY <2>1, <2>6 DEF Counted, Q
  <2>8. /\ F[J].ok /\ ~F[J].closed
        /\ F[I].open = F[J].open + Signed(legs[i])
        /\ F[I].closed <=> F[I].open = 0
        /\ F[I].closed => legs[i].role = "exit"
    BY <2>2, <2>3, <2>5, <2>7, LegCounts
  <2> QED
    BY <2>4, <2>7, <2>8
<1>3. SUBSET D \subseteq Good
  <2>1. IsFiniteSet(D)
    BY LegsAreFinite
  <2> HIDE DEF Good, D
  <2> QED
    BY <1>1, <1>2, <2>1, SubsetInduction
<1> QED
  BY <1>3

(* The replay of a part depends on its legs alone.                          *)
LEMMA ReplaysAgree ==
    ASSUME NEW a, AreLegs(a), NEW b, AreLegs(b), NEW sign \in {1, -1},
           NEW F, IsReplay(F, a, sign, InOrder(a)), NEW G, IsReplay(G, b, sign, InOrder(b)),
           NEW D \in SUBSET DOMAIN a, D \subseteq DOMAIN b, \A i \in D : a[i] = b[i]
    PROVE  F[D] = G[D]
<1> DEFINE Good == {I \in SUBSET D : F[I] = G[I]}
<1>1. {} \in Good
  BY DEF IsReplay
<1>2. ASSUME NEW I \in SUBSET D, I # {}, \A x \in I : I \ {x} \in Good PROVE I \in Good
  <2> DEFINE i == LastLeg(a, I)
  <2>1. IsLast(a, I, i)
    BY <1>2, LastLegIsLast
  <2>2. IsLast(b, I, i)
    BY <2>1 DEF IsLast
  <2>3. LastLeg(b, I) = i
    BY <2>2, LastLegIsLast
  <2>4. InOrder(a)[I] = i /\ InOrder(b)[I] = i /\ i \in I
    BY <2>1, <2>3 DEF InOrder, IsLast
  <2> HIDE DEF i
  <2>5. F[I] = ReplayLeg(F[I \ {i}], a[i], sign)
    BY <1>2, <2>4 DEF IsReplay
  <2>6. G[I] = ReplayLeg(G[I \ {i}], b[i], sign)
    BY <1>2, <2>4 DEF IsReplay
  <2> QED
    BY <1>2, <2>4, <2>5, <2>6
<1>3. SUBSET D \subseteq Good
  <2>1. IsFiniteSet(D)
    BY LegsAreFinite, FS_Subset
  <2> HIDE DEF Good
  <2> QED
    BY <1>1, <1>2, <2>1, SubsetInduction
<1> QED
  BY <1>3

(* A leg after all the legs of a closed trade is refused.                   *)
LEMMA ClosedRefusesLater ==
    ASSUME NEW legs, AreLegs(legs), NEW sign \in {1, -1},
           Replay(legs, sign).ok, Replay(legs, sign).open = 0, legs # <<>>,
           NEW leg, AreLegs(Append(legs, leg)), Replay(Append(legs, leg), sign).ok
    PROVE  \E i \in DOMAIN legs : legs[i].role = "exit" /\ Before(leg, legs[i])
<1> DEFINE D == DOMAIN legs
           longer == Append(legs, leg)
           n == Len(legs) + 1
           m == LastLeg(legs, D)
<1>1. /\ D = 1..Len(legs) /\ Len(legs) \in Nat
      /\ DOMAIN longer = 1..n /\ longer[n] = leg /\ \A i \in D : longer[i] = legs[i]
      /\ D # {} /\ n \notin D /\ DOMAIN longer = D \cup {n}
  BY LegsAreFinite DEF AreLegs
<1>a. AreLegs(longer)
  OBVIOUS
<1>2. PICK F : IsReplay(F, legs, sign, InOrder(legs)) /\ Replay(legs, sign) = F[D]
  BY ReplayIsFold
<1>3. PICK G : IsReplay(G, longer, sign, InOrder(longer))
               /\ Replay(longer, sign) = G[DOMAIN longer]
  BY ReplayIsFold
<1>4. IsLast(legs, D, m)
  BY <1>1, LastLegIsLast
<1>5. F[D].closed /\ legs[m].role = "exit"
  <2>1. Counted(F, legs, InOrder(legs), D)
    BY <1>2, ReplayCounts, InOrderPicks
  <2>2. InOrder(legs)[D] = m
    BY DEF InOrder
  <2> QED
    BY <1>1, <1>2, <2>1, <2>2 DEF Counted
<1>6. ASSUME ~Before(leg, legs[m]) PROVE FALSE
  <2>1. IsFill(leg) /\ \A i \in D : IsFill(legs[i]) /\ legs[i].exec # leg.exec
    <3>1. \A i \in DOMAIN longer : IsFill(longer[i])
      BY DEF AreLegs
    <3>2. \A i, j \in DOMAIN longer : longer[i].exec = longer[j].exec => i = j
      BY DEF AreLegs
    <3> HIDE DEF longer, D, n
    <3> QED
      BY <1>1, <3>1, <3>2
  <2>2. \A i \in D : Before(legs[i], leg)
    <3>1. m \in D /\ \A i \in D \ {m} : Before(legs[i], legs[m])
      BY <1>4 DEF IsLast
    <3>2. Before(legs[m], leg)
      BY <1>6, <2>1, <3>1, BeforeIsOrder
    <3> HIDE DEF m, D
    <3> QED
      BY <2>1, <3>1, <3>2, BeforeIsOrder
  <2>3. IsLast(longer, DOMAIN longer, n)
    <3> HIDE DEF longer, D, n
    <3> QED
      BY <1>1, <2>2 DEF IsLast
  <2>4. InOrder(longer)[DOMAIN longer] = n /\ DOMAIN longer \ {n} = D /\ DOMAIN longer # {}
    <3>1. LastLeg(longer, DOMAIN longer) = n
      <4> HIDE DEF longer, n
      <4> QED
        BY <1>a, <2>3, LastLegIsLast
    <3> HIDE DEF longer, n, D
    <3> QED
      BY <1>1, <3>1 DEF InOrder
  <2>5. G[DOMAIN longer] = ReplayLeg(G[D], leg, sign) /\ G[D] \in States
    <3> HIDE DEF longer, n, D
    <3> QED
      BY <1>1, <1>3, <2>4 DEF IsReplay
  <2>6. F[D] = G[D]
    <3>1. D \in SUBSET DOMAIN legs /\ D \subseteq DOMAIN longer
          /\ \A i \in D : legs[i] = longer[i]
      BY <1>1
    <3> HIDE DEF longer, n, D
    <3> QED
      BY <1>a, <1>2, <1>3, <3>1, ReplaysAgree
  <2> HIDE DEF longer, n, D
  <2> QED
    BY <1>3, <1>5, <2>1, <2>5, <2>6, ReplayLegCases DEF Refused, longer
<1> QED
  BY <1>4, <1>5, <1>6 DEF IsLast

-----------------------------------------------------------------------------
(* Trades.                                                                  *)

AreEvents(events) ==
    /\ events \in Seq(Fundings)
    /\ \A i, j \in DOMAIN events : events[i].ref = events[j].ref => i = j

\* A trade that a process may hold.
IsHeld(t, e) ==
    /\ IsTrade(t)
    /\ AreLegs(t.legs) /\ ToSet(t.legs) \subseteq ToSet(e.fills) \cup e.later
    /\ Replay(t.legs, e.sign).ok
    /\ AreEvents(t.funding)

LEMMA FiniteRange ==
    ASSUME NEW n \in Nat, NEW s, DOMAIN s = 1..n
    PROVE  IsFiniteSet(ToSet(s))
<1> DEFINE f == [i \in 1..n |-> s[i]]
<1>1. f \in Surjection(1..n, ToSet(s))
  BY DEF Surjection, ToSet
<1>2. IsFiniteSet(1..n)
  BY FS_Interval
<1> QED
  BY <1>1, <1>2, FS_Surjection

LEMMA NothingHeld ==
    ASSUME NEW e, IsEpisode(e)
    PROVE  IsHeld(NewTrade, e)
<1>1. NewTrade.legs = <<>> /\ NewTrade.funding = <<>> /\ IsTrade(NewTrade)
  BY DEF NewTrade, IsTrade
<1>2. DOMAIN <<>> = {} /\ ToSet(<<>>) = {} /\ \A S : <<>> \in Seq(S)
  BY DEF ToSet
<1>3. AreLegs(<<>>) /\ AreEvents(<<>>)
  BY <1>2 DEF AreLegs, AreEvents
<1>4. e.sign \in {1, -1}
  BY DEF IsEpisode
<1>5. PICK F : IsReplay(F, <<>>, e.sign, InOrder(<<>>)) /\ Replay(<<>>, e.sign) = F[DOMAIN <<>>]
  BY <1>3, <1>4, ReplayIsFold
<1>6. Replay(<<>>, e.sign) = NothingReplayed
  BY <1>2, <1>5 DEF IsReplay
<1>7. Replay(<<>>, e.sign).ok
  BY <1>6 DEF NothingReplayed
<1> QED
  BY <1>1, <1>2, <1>3, <1>7 DEF IsHeld

LEMMA AppendedLegs ==
    ASSUME NEW legs, AreLegs(legs), NEW leg, IsFill(leg),
           \A known \in ToSet(legs) : known.exec # leg.exec
    PROVE  /\ AreLegs(Append(legs, leg))
           /\ ToSet(Append(legs, leg)) = ToSet(legs) \cup {leg}
<1> DEFINE longer == Append(legs, leg)
           n == Len(legs) + 1
<1>1. /\ DOMAIN legs = 1..Len(legs) /\ Len(legs) \in Nat
      /\ DOMAIN longer = 1..n /\ longer[n] = leg /\ \A i \in DOMAIN legs : longer[i] = legs[i]
      /\ n \notin DOMAIN legs /\ DOMAIN longer = DOMAIN legs \cup {n}
  BY LegsAreFinite DEF AreLegs
<1>2. ToSet(longer) = ToSet(legs) \cup {leg}
  <2> HIDE DEF longer, n
  <2> QED
    BY <1>1 DEF ToSet
<1>3. longer \in Seq(ToSet(legs) \cup {leg})
  <2>1. legs \in Seq(ToSet(legs) \cup {leg})
    BY DEF AreLegs
  <2> QED
    BY <2>1
<1>4. \A i \in DOMAIN legs : legs[i] \in ToSet(legs) /\ IsFill(legs[i])
  BY DEF ToSet, AreLegs
<1>5. \A i, j \in DOMAIN legs : legs[i].exec = legs[j].exec => i = j
  BY DEF AreLegs
<1> HIDE DEF longer, n
<1>6. \A i \in DOMAIN longer : IsFill(longer[i])
  BY <1>1, <1>4
<1>7. \A i, j \in DOMAIN longer : longer[i].exec = longer[j].exec => i = j
  BY <1>1, <1>4, <1>5
<1>8. AreLegs(longer)
  BY <1>2, <1>3, <1>6, <1>7 DEF AreLegs
<1> QED
  BY <1>2, <1>8 DEF longer

(* What apply_fill gives when it does not raise.                            *)
IsFilled(u, t, leg, e) ==
    /\ IsHeld(u, e) /\ u.reason = t.reason /\ u.funding = t.funding
    /\ u.legs \in {t.legs, Append(t.legs, leg)}
    /\ (\A known \in ToSet(t.legs) : known.exec # leg.exec)
         => ToSet(u.legs) = ToSet(t.legs) \cup {leg}

LEMMA FillGives ==
    ASSUME NEW e, IsEpisode(e), NEW t, IsHeld(t, e), NEW leg \in ToSet(e.fills) \cup e.later,
           ApplyFill(t, leg, e.sign) # Raised
    PROVE  IsFilled(ApplyFill(t, leg, e.sign), t, leg, e)
<1> DEFINE u == ApplyFill(t, leg, e.sign)
           longer == [t EXCEPT !.legs = Append(@, leg)]
<1>1. IsFill(leg)
  BY DEF IsEpisode
<1>2. longer = [legs |-> Append(t.legs, leg), funding |-> t.funding, reason |-> t.reason]
  BY DEF IsHeld, IsTrade
<1>3. CASE \E known \in ToSet(t.legs) : known.exec = leg.exec
  <2>1. u = t
    BY <1>3 DEF ApplyFill
  <2> QED
    BY <1>3, <2>1 DEF IsFilled
<1>4. CASE \A known \in ToSet(t.legs) : known.exec # leg.exec
  <2>1. u = longer /\ Replay(longer.legs, e.sign).ok
    BY <1>4 DEF ApplyFill
  <2>2. longer.legs = Append(t.legs, leg) /\ longer.funding = t.funding
        /\ longer.reason = t.reason /\ IsTrade(longer)
    <3> HIDE DEF longer
    <3> QED
      BY <1>2 DEF IsTrade
  <2>3. AreLegs(Append(t.legs, leg)) /\ ToSet(Append(t.legs, leg)) = ToSet(t.legs) \cup {leg}
    BY <1>1, <1>4, AppendedLegs DEF IsHeld
  <2> HIDE DEF u, longer
  <2>4. IsHeld(longer, e)
    BY <2>1, <2>2, <2>3 DEF IsHeld
  <2> QED
    BY <2>1, <2>2, <2>3, <2>4 DEF u, IsFilled
<1> QED
  BY <1>3, <1>4

IsFunded(u, t, event, e) ==
    /\ IsHeld(u, e) /\ u.reason = t.reason /\ u.legs = t.legs
    /\ ToSet(u.funding) = ToSet(t.funding) \cup {event}

LEMMA FundingGives ==
    ASSUME NEW e, NEW t, IsHeld(t, e), NEW event \in Fundings
    PROVE  IsFunded(ApplyFunding(t, event), t, event, e)
<1> DEFINE u == ApplyFunding(t, event)
           longer == [t EXCEPT !.funding = Append(@, event)]
           s == t.funding
           n == Len(s) + 1
<1>1. longer = [legs |-> t.legs, funding |-> Append(s, event), reason |-> t.reason]
  BY DEF IsHeld, IsTrade
<1>2. /\ s \in Seq(Fundings) /\ DOMAIN s = 1..Len(s) /\ Len(s) \in Nat
      /\ \A i \in DOMAIN s : s[i] \in ToSet(s) /\ s[i] \in Fundings
  BY DEF IsHeld, AreEvents, ToSet
<1>3. CASE \E known \in ToSet(s) : known.ref = event.ref
  <2>1. u = t
    BY <1>3 DEF ApplyFunding
  <2>2. event \in ToSet(s)
    <3>1. PICK known \in ToSet(s) : known.ref = event.ref
      BY <1>3
    <3>2. known \in Fundings
      BY <1>2 DEF ToSet
    <3> QED
      BY <3>1, <3>2, LedgerAssumption
  <2> QED
    BY <2>1, <2>2 DEF IsFunded
<1>4. CASE \A known \in ToSet(s) : known.ref # event.ref
  <2>1. u = longer
    BY <1>4 DEF ApplyFunding
  <2>2. longer.legs = t.legs /\ longer.funding = Append(s, event)
        /\ longer.reason = t.reason /\ IsTrade(longer)
    <3> HIDE DEF longer
    <3> QED
      BY <1>1 DEF IsTrade
  <2> DEFINE m == Append(s, event)
  <2>3. /\ DOMAIN m = 1..n /\ m[n] = event /\ \A i \in DOMAIN s : m[i] = s[i]
        /\ n \notin DOMAIN s /\ DOMAIN m = DOMAIN s \cup {n} /\ m \in Seq(Fundings)
    BY <1>2
  <2>4. \A i, j \in DOMAIN s : s[i].ref = s[j].ref => i = j
    BY DEF IsHeld, AreEvents
  <2>5. ToSet(m) = ToSet(s) \cup {event}
    <3>1. /\ DOMAIN m = DOMAIN s \cup {n} /\ m[n] = event
          /\ \A i \in DOMAIN s : m[i] = s[i]
      BY <2>3
    <3> HIDE DEF m, n, s
    <3> QED
      BY <3>1 DEF ToSet
  <2>6. AreEvents(m)
    <3> HIDE DEF m, n, s
    <3>1. \A i, j \in DOMAIN m : m[i].ref = m[j].ref => i = j
      BY <1>2, <1>4, <2>3, <2>4
    <3> QED
      BY <2>3, <3>1 DEF AreEvents
  <2>7. AreLegs(t.legs) /\ ToSet(t.legs) \subseteq ToSet(e.fills) \cup e.later
        /\ Replay(t.legs, e.sign).ok
    BY DEF IsHeld
  <2> HIDE DEF longer, m
  <2>8. longer.funding = m
    BY <2>2 DEF m
  <2>9. IsHeld(longer, e)
    BY <2>2, <2>6, <2>7, <2>8 DEF IsHeld
  <2> QED
    BY <2>1, <2>2, <2>5, <2>8, <2>9 DEF IsFunded
<1> QED
  BY <1>3, <1>4

-----------------------------------------------------------------------------
(* The profit of a closed trade.                                            *)

Flow(leg, sign) == (IF leg.role = "exit" THEN sign ELSE -sign) * leg.qty * leg.price - leg.fee

LEMMA TypedSums ==
    ASSUME NEW legs, AreLegs(legs), NEW sign \in {1, -1}
    PROVE  LET S == ToSet(legs)
               fees == SumFunction([i \in DOMAIN legs |-> legs[i].fee])
               moved == SumOn(MovedBy(legs, sign), DOMAIN legs)
           IN  /\ fees \in Int /\ moved \in Int
               /\ SumFunction([leg \in S |-> Flow(leg, sign)]) = moved - fees
<1> DEFINE S == ToSet(legs)
           D == DOMAIN legs
           feeOf == [leg \in S |-> leg.fee]
           movedOf == [leg \in S |-> Moved(leg, sign)]
           flowOf == [leg \in S |-> Flow(leg, sign)]
           feeAt == [i \in D |-> legs[i].fee]
           movedAt == MovedBy(legs, sign)
<1>1. IsFiniteSet(D) /\ IsFiniteSet(S)
  BY LegsAreFinite, FiniteRange
<1>2. \A i \in D : legs[i] \in S
  BY DEF ToSet
<1>3. \A leg \in S : IsFill(leg)
  BY DEF ToSet, AreLegs
<1>4. \A leg \in S : leg.fee \in Int /\ leg.qty \in Int /\ leg.price \in Int
  BY <1>3 DEF IsFill
<1>5. \A leg \in S : Moved(leg, sign) \in Int /\ Flow(leg, sign) = Moved(leg, sign) - leg.fee
  BY <1>4 DEF Moved, Flow
<1>6. \A i, j \in D : legs[i] = legs[j] => i = j
  BY DEF AreLegs
<1>7. SumOn(feeAt, D) = SumOn(feeOf, S)
  <2>1. \A i \in D : feeAt[i] = feeOf[legs[i]] /\ feeOf[legs[i]] \in Int
    BY <1>2, <1>4
  <2> HIDE DEF feeAt, feeOf
  <2> QED
    BY <1>1, <1>6, <2>1, SumImage
<1>8. SumOn(movedAt, D) = SumOn(movedOf, S)
  <2>1. \A i \in D : movedAt[i] = movedOf[legs[i]] /\ movedOf[legs[i]] \in Int
    BY <1>2, <1>5 DEF MovedBy
  <2> HIDE DEF movedAt, movedOf
  <2> QED
    BY <1>1, <1>6, <2>1, SumImage
<1>9. SumOn(flowOf, S) = SumOn(movedOf, S) - SumOn(feeOf, S)
  <2>1. \A x \in S : movedOf[x] \in Int /\ feeOf[x] \in Int /\ flowOf[x] = movedOf[x] - feeOf[x]
    BY <1>4, <1>5
  <2> HIDE DEF S, flowOf, movedOf, feeOf
  <2> QED
    BY <1>1, <2>1, SumMinus
<1>10. SumFunction(flowOf) = SumOn(flowOf, S) /\ SumFunction(feeAt) = SumOn(feeAt, D)
  BY DEF SumOn
<1>11. SumOn(feeAt, D) \in Int /\ SumOn(movedAt, D) \in Int
  <2>1. \A i \in D : feeAt[i] \in Int /\ movedAt[i] \in Int
    BY <1>2, <1>4, <1>5 DEF MovedBy
  <2> HIDE DEF feeAt, movedAt
  <2> QED
    BY <1>1, <2>1, SumType
<1> HIDE DEF S, D, feeOf, movedOf, flowOf, feeAt, movedAt
<1>12. SumFunction(flowOf) = SumOn(movedAt, D) - SumFunction(feeAt)
  BY <1>7, <1>8, <1>9, <1>10
<1> QED
  BY <1>10, <1>11, <1>12 DEF S, D, feeOf, movedOf, flowOf, feeAt, movedAt

LEMMA FundingSums ==
    ASSUME NEW events, AreEvents(events)
    PROVE  /\ SumFunction([i \in DOMAIN events |-> events[i].amount]) \in Int
           /\ SumFunction([e \in ToSet(events) |-> e.amount])
                = SumFunction([i \in DOMAIN events |-> events[i].amount])
<1> DEFINE S == ToSet(events)
           D == DOMAIN events
           of == [e \in S |-> e.amount]
           at == [i \in D |-> events[i].amount]
<1>1. IsFiniteSet(D)
  <2>1. Len(events) \in Nat /\ D = 1..Len(events)
    BY DEF AreEvents
  <2> QED
    BY <2>1, FS_Interval
<1>2. \A i \in D : events[i] \in S /\ events[i] \in Fundings
  BY DEF ToSet, AreEvents
<1>3. \A i \in D : events[i].amount \in Int
  BY <1>2, LedgerAssumption
<1>4. \A i, j \in D : events[i] = events[j] => i = j
  BY DEF AreEvents
<1>5. SumOn(at, D) = SumOn(of, S)
  <2>1. \A i \in D : at[i] = of[events[i]] /\ of[events[i]] \in Int
    BY <1>2, <1>3
  <2> HIDE DEF at, of
  <2> QED
    BY <1>1, <1>4, <2>1, SumImage
<1>6. SumOn(at, D) \in Int
  <2>1. \A i \in D : at[i] \in Int
    BY <1>3
  <2> HIDE DEF at
  <2> QED
    BY <1>1, <2>1, SumType
<1>7. SumFunction(at) = SumOn(at, D) /\ SumFunction(of) = SumOn(of, S)
  BY DEF SumOn
<1> HIDE DEF S, D, of, at
<1>8. SumFunction(at) \in Int /\ SumFunction(of) = SumFunction(at)
  BY <1>5, <1>6, <1>7
<1> QED
  BY <1>8 DEF S, D, of, at

(* The open quantity is zero and the balance holds, so that what was        *)
(* realised is the money that moved.                                        *)
LEMMA ClosedNet ==
    ASSUME NEW t, IsHeld(t, episode), IsEpisode(episode), Status(t, episode.sign) = "closed"
    PROVE  RatioEq(Net(t, episode.sign), Ratio(Cash(ToSet(t.legs), ToSet(t.funding)), 1))
<1> DEFINE sign == episode.sign
           legs == t.legs
           D == DOMAIN legs
           r == Replay(legs, sign)
           fees == SumFunction([i \in DOMAIN t.legs |-> t.legs[i].fee])
           paid == SumFunction([i \in DOMAIN t.funding |-> t.funding[i].amount])
           moved == SumOn(MovedBy(legs, sign), D)
<1>1. AreLegs(legs) /\ sign \in {1, -1} /\ r.ok /\ AreEvents(t.funding)
  BY DEF IsHeld, IsEpisode
<1>2. r.open = 0
  BY DEF Status
<1>3. fees \in Int /\ moved \in Int
      /\ SumFunction([leg \in ToSet(legs) |-> Flow(leg, sign)]) = moved - fees
  BY <1>1, TypedSums
<1>4. paid \in Int /\ SumFunction([e \in ToSet(t.funding) |-> e.amount]) = paid
  BY <1>1, FundingSums
<1>5. Cash(ToSet(legs), ToSet(t.funding)) = (moved - fees) + paid
  <2>1. Cash(ToSet(legs), ToSet(t.funding))
          = SumFunction([leg \in ToSet(legs) |-> Flow(leg, sign)])
              + SumFunction([e \in ToSet(t.funding) |-> e.amount])
    BY DEF Cash, Flow
  <2> QED
    BY <1>3, <1>4, <2>1
<1>6. r \in States /\ Conserved(r, moved, sign)
  <2>1. PICK F : IsReplay(F, legs, sign, InOrder(legs)) /\ Replay(legs, sign) = F[D]
    BY <1>1, ReplayIsFold
  <2>2. Balanced(F, legs, sign, D)
    <3>1. \A I \in SUBSET DOMAIN legs : Balanced(F, legs, sign, I)
      BY <1>1, <2>1, ReplayConserves, InOrderPicks
    <3> QED
      BY <3>1
  <2>3. F[D] \in States
    BY <2>1 DEF IsReplay
  <2> QED
    BY <1>1, <2>1, <2>2, <2>3 DEF Balanced
<1>7. r.gross[1] = moved * r.gross[2] /\ r.gross[1] \in Int /\ r.gross[2] \in Int
  <2>1. r.gross[1] \in Int /\ r.gross[2] \in Int /\ r.avg[1] \in Int /\ r.avg[2] \in Int \ {0}
    BY <1>6, StateParts
  <2>2. Balance(r.gross[1], r.gross[2], r.avg[1], r.avg[2], 0, moved, sign)
    BY <1>2, <1>6 DEF Conserved
  <2> DEFINE g1 == r.gross[1]  g2 == r.gross[2]  a1 == r.avg[1]  a2 == r.avg[2]
  <2>3. /\ g1 \in Int /\ g2 \in Int /\ a1 \in Int /\ a2 \in Int \ {0} /\ moved \in Int
        /\ sign \in {1, -1} /\ Balance(g1, g2, a1, a2, 0, moved, sign)
    BY <1>1, <1>3, <2>1, <2>2
  <2> HIDE DEF g1, g2, a1, a2, moved, sign
  <2>4. g1 = moved * g2
    BY <2>3, ClosedArithmetic
  <2> QED
    BY <2>1, <2>4 DEF g1, g2
<1>8. Net(t, sign) = <<r.gross[1] * 1 + (paid - fees) * r.gross[2], r.gross[2] * 1>>
  BY DEF Net, RatioAdd, Ratio
<1> HIDE DEF r, moved, sign, fees, paid
<1>9. r.gross[1] * 1 + (paid - fees) * r.gross[2] = ((moved - fees) + paid) * r.gross[2]
  BY <1>3, <1>4, <1>7
<1>10. RatioEq(Net(t, sign), Ratio((moved - fees) + paid, 1))
  BY <1>3, <1>4, <1>7, <1>8, <1>9 DEF RatioEq, Ratio
<1> QED
  BY <1>5, <1>10 DEF sign

-----------------------------------------------------------------------------
(* What a restart loads.                                                    *)

LEMMA EpisodeParts ==
    ASSUME NEW e, IsEpisode(e)
    PROVE  /\ AreLegs(e.fills) /\ e.sign \in {1, -1} /\ IsFiniteSet(ToSet(e.fills))
           /\ \A f \in ToSet(e.fills) : IsFill(f)
           /\ \A f, g \in ToSet(e.fills) : f.exec = g.exec => f = g
<1>1. /\ e.fills \in Seq(ToSet(e.fills)) /\ e.sign \in {1, -1}
      /\ \A f \in ToSet(e.fills) : IsFill(f)
  BY DEF IsEpisode
<1>2. Len(e.fills) \in Nat /\ DOMAIN e.fills = 1..Len(e.fills)
  BY <1>1
<1>3. \A i \in DOMAIN e.fills : e.fills[i] \in ToSet(e.fills)
  BY DEF ToSet
<1>4. \A i, j \in DOMAIN e.fills : i < j => e.fills[i].exec # e.fills[j].exec
  BY DEF IsEpisode
<1>5. \A i, j \in DOMAIN e.fills : e.fills[i].exec = e.fills[j].exec => i = j
  BY <1>2, <1>4
<1>6. AreLegs(e.fills)
  BY <1>1, <1>3, <1>5 DEF AreLegs
<1>7. \A f, g \in ToSet(e.fills) : f.exec = g.exec => f = g
  BY <1>5 DEF ToSet
<1>8. IsFiniteSet(ToSet(e.fills))
  BY <1>2, FiniteRange
<1> QED
  BY <1>1, <1>6, <1>7, <1>8

\* Fills that differ in their execution ids.
AreRows(rows) ==
    /\ IsFiniteSet(rows)
    /\ \A f \in rows : IsFill(f)
    /\ \A f, g \in rows : f.exec = g.exec => f = g

IsLastRow(rows, r) == r \in rows /\ \A q \in rows \ {r} : RowBefore(q, r)

LEMMA SomeRowIsLast ==
    ASSUME NEW rows, AreRows(rows), NEW R \in SUBSET rows, R # {}
    PROVE  \E r : IsLastRow(R, r)
<1> DEFINE Good == {S \in SUBSET rows : S # {} => \E r : IsLastRow(S, r)}
<1>1. \A f, g \in rows : /\ f # g => RowBefore(f, g) \/ RowBefore(g, f)
                         /\ \A h \in rows : RowBefore(f, g) /\ RowBefore(g, h) => RowBefore(f, h)
  <2>1. \A f \in rows : f.time \in Int /\ f.exec \in Int
    BY DEF AreRows, IsFill
  <2>2. \A f, g \in rows : f.exec = g.exec => f = g
    BY DEF AreRows
  <2> QED
    BY <2>1, <2>2 DEF RowBefore
<1>2. {} \in Good
  OBVIOUS
<1>3. ASSUME NEW S \in SUBSET rows, S # {}, \A x \in S : S \ {x} \in Good PROVE S \in Good
  <2>1. PICK s \in S : TRUE
    BY <1>3
  <2>2. CASE S \ {s} = {}
    BY <2>1, <2>2 DEF IsLastRow
  <2>3. CASE S \ {s} # {}
    <3>1. PICK r : IsLastRow(S \ {s}, r)
      BY <1>3, <2>3
    <3>2. CASE RowBefore(r, s)
      <4>1. IsLastRow(S, s)
        BY <1>1, <3>1, <3>2 DEF IsLastRow
      <4> QED
        BY <4>1
    <3>3. CASE RowBefore(s, r)
      <4>1. IsLastRow(S, r)
        BY <3>1, <3>3 DEF IsLastRow
      <4> QED
        BY <4>1
    <3> QED
      BY <1>1, <3>1, <3>2, <3>3 DEF IsLastRow
  <2> QED
    BY <2>2, <2>3
<1>4. SUBSET rows \subseteq Good
  <2>1. IsFiniteSet(rows)
    BY DEF AreRows
  <2> HIDE DEF Good
  <2> QED
    BY <1>2, <1>3, <2>1, SubsetInduction
<1> QED
  BY <1>4

LEMMA LastRowIsLast ==
    ASSUME NEW rows, AreRows(rows), NEW R \in SUBSET rows, R # {}
    PROVE  IsLastRow(R, LastRow(R))
<1>1. \E r \in R : \A q \in R \ {r} : RowBefore(q, r)
  BY SomeRowIsLast DEF IsLastRow
<1> QED
  BY <1>1 DEF LastRow, IsLastRow

Loaded(t, f, sign) == IF t = Raised THEN Raised ELSE ApplyFill(t, f, sign)

IsLoad(F, rows, sign) ==
    \A R \in SUBSET rows :
        F[R] = IF R = {} THEN NewTrade ELSE Loaded(F[R \ {LastRow(R)}], LastRow(R), sign)

LEMMA LoadIsFold ==
    ASSUME AreRows(Linked)
    PROVE  \E F : IsLoad(F, Linked, episode.sign) /\ LoadedLegs = F[Linked]
<1> DEFINE rows == Linked
           sign == episode.sign
           V == [legs : Seq(rows), funding : Seq(Fundings), reason : {"none", "raised"}]
           pick == [R \in SUBSET rows |-> LastRow(R)]
           step == [f \in rows |-> [t \in V |-> Loaded(t, f, sign)]]
           Iter(F) == [R \in SUBSET rows |->
                         IF R = {} THEN NewTrade
                         ELSE IF F[R \ {LastRow(R)}] = Raised THEN Raised
                              ELSE ApplyFill(F[R \ {LastRow(R)}], LastRow(R), sign)]
           C == CHOOSE F : F = Iter(F)
<1>1. \A R \in SUBSET rows : R # {} => LastRow(R) \in R
  BY LastRowIsLast DEF IsLastRow
<1>2. NewTrade \in V /\ Raised \in V
  <2>1. <<>> \in Seq(rows) /\ <<>> \in Seq(Fundings)
    OBVIOUS
  <2>2. Raised = [legs |-> <<>>, funding |-> <<>>, reason |-> "raised"]
    BY DEF NewTrade, Raised
  <2> QED
    BY <2>1, <2>2 DEF NewTrade
<1>3. ASSUME NEW t \in V, NEW f \in rows PROVE Loaded(t, f, sign) \in V
  <2>1. [t EXCEPT !.legs = Append(@, f)] \in V
    <3>1. t.legs \in Seq(rows)
      OBVIOUS
    <3>2. Append(t.legs, f) \in Seq(rows)
      BY <3>1
    <3> QED
      BY <3>2
  <2> HIDE DEF V
  <2> QED
    BY <1>2, <2>1 DEF Loaded, ApplyFill
<1>4. PICK F \in [SUBSET rows -> V] : FoldEquation(F, rows, NewTrade, pick, step)
  <2>1. \A R \in SUBSET rows : R # {} => pick[R] \in R
    BY <1>1
  <2>2. \A f \in rows, t \in V : step[f][t] \in V
    BY <1>3
  <2>3. IsFiniteSet(rows)
    BY DEF AreRows
  <2> HIDE DEF V, rows, pick, step
  <2> QED
    BY <1>2, <2>1, <2>2, <2>3, FoldExists
<1>5. F = Iter(F)
  <2>1. ASSUME NEW R \in SUBSET rows PROVE F[R] = Iter(F)[R]
    <3>1. CASE R = {}
      BY <1>4, <3>1 DEF FoldEquation
    <3>2. CASE R # {}
      <4> HIDE DEF V
      <4>1. pick[R] = LastRow(R) /\ pick[R] \in rows /\ F[R \ {pick[R]}] \in V
        BY <1>1, <1>4, <3>2
      <4>2. step[pick[R]][F[R \ {pick[R]}]] = Loaded(F[R \ {pick[R]}], pick[R], sign)
        BY <4>1
      <4> QED
        BY <1>4, <3>2, <4>1, <4>2 DEF FoldEquation, Loaded
    <3> QED
      BY <3>1, <3>2
  <2> QED
    BY <2>1
<1>6. C = Iter(C)
  BY <1>5
<1>7. LoadedLegs = C[rows]
  BY DEF LoadedLegs, MapThenFoldSet, Linked
<1> HIDE DEF C
<1>8. IsLoad(C, rows, sign)
  BY <1>6 DEF IsLoad, Loaded
<1> QED
  BY <1>7, <1>8

\* The rows of R, applied, make a trade of these legs.
IsLoaded(t, R) ==
    /\ IsHeld(t, episode)
    /\ t.reason = "none" /\ t.funding = <<>>
    /\ ToSet(t.legs) = R

LEMMA NewIsLoaded ==
    ASSUME IsEpisode(episode)
    PROVE  IsLoaded(NewTrade, {}) /\ NewTrade # Raised
<1>1. NewTrade.reason = "none" /\ NewTrade.funding = <<>> /\ ToSet(NewTrade.legs) = {}
      /\ Raised.reason = "raised"
  BY DEF NewTrade, Raised, ToSet
<1> QED
  BY <1>1, NothingHeld DEF IsLoaded

LEMMA LoadedStep ==
    ASSUME IsEpisode(episode), NEW R \in SUBSET Facts, NEW f \in Facts \ R,
           NEW t, IsLoaded(t, R), ApplyFill(t, f, episode.sign) # Raised
    PROVE  IsLoaded(ApplyFill(t, f, episode.sign), R \cup {f})
<1>1. f \in ToSet(episode.fills) \cup episode.later
  BY DEF Facts
<1>2. \A known \in ToSet(t.legs) : known.exec # f.exec
  BY EpisodeParts DEF IsLoaded, Facts
<1>3. IsHeld(t, episode) /\ t.reason = "none" /\ t.funding = <<>> /\ ToSet(t.legs) = R
  BY DEF IsLoaded
<1> DEFINE u == ApplyFill(t, f, episode.sign)
<1>4. IsFilled(u, t, f, episode)
  BY <1>1, <1>3, FillGives
<1> HIDE DEF u
<1>5. IsLoaded(u, R \cup {f})
  BY <1>2, <1>3, <1>4 DEF IsLoaded, IsFilled
<1> QED
  BY <1>5 DEF u

LEMMA LoadGivesRows ==
    ASSUME IsEpisode(episode), fills \subseteq Facts,
           NEW F, IsLoad(F, Linked, episode.sign), AreRows(Linked)
    PROVE  \A R \in SUBSET Linked : F[R] = Raised \/ IsLoaded(F[R], R)
<1> DEFINE Good == {R \in SUBSET Linked : F[R] = Raised \/ IsLoaded(F[R], R)}
<1>1. {} \in Good
  BY NewIsLoaded DEF IsLoad
<1>2. ASSUME NEW R \in SUBSET Linked, R # {}, \A x \in R : R \ {x} \in Good PROVE R \in Good
  <2> DEFINE f == LastRow(R)
             S == R \ {f}
  <2>1. f \in R /\ f \notin S /\ S \in SUBSET Facts /\ f \in Facts /\ R = S \cup {f}
    BY <1>2, LastRowIsLast DEF IsLastRow, Linked
  <2>2. F[R] = Loaded(F[S], f, episode.sign) /\ (F[S] = Raised \/ IsLoaded(F[S], S))
    BY <1>2, <2>1 DEF IsLoad
  <2> HIDE DEF f, S
  <2>3. F[R] = Raised \/ IsLoaded(F[R], R)
    BY <2>1, <2>2, LoadedStep DEF Loaded
  <2> QED
    BY <2>3
<1>3. SUBSET Linked \subseteq Good
  <2>1. IsFiniteSet(Linked)
    BY DEF AreRows
  <2> HIDE DEF Good
  <2> QED
    BY <1>1, <1>2, <2>1, SubsetInduction
<1> QED
  BY <1>3

LEMMA LinkedAreRows ==
    ASSUME IsEpisode(episode), fills \subseteq Facts
    PROVE  AreRows(Linked) /\ Linked \subseteq Facts
<1>1. Linked \subseteq Facts
  BY DEF Linked
<1>2. IsFiniteSet(Linked)
  BY <1>1, EpisodeParts, FS_Subset DEF Facts
<1> QED
  BY <1>1, <1>2, EpisodeParts DEF AreRows, Facts

LEMMA LoadedLegsAre ==
    ASSUME IsEpisode(episode), fills \subseteq Facts
    PROVE  LoadedLegs = Raised \/ IsLoaded(LoadedLegs, Linked)
<1>1. AreRows(Linked)
  BY LinkedAreRows
<1>2. PICK F : IsLoad(F, Linked, episode.sign) /\ LoadedLegs = F[Linked]
  BY <1>1, LoadIsFold
<1> QED
  BY <1>1, <1>2, LoadGivesRows

IsFundingLoad(F, events, t) ==
    \A E \in SUBSET events :
        F[E] = IF E = {} THEN t
               ELSE ApplyFunding(F[E \ {CHOOSE x \in E : TRUE}], CHOOSE x \in E : TRUE)

LEMMA FundingIsFold ==
    ASSUME IsFiniteSet(funding_events), funding_events \subseteq Fundings,
           IsLoaded(LoadedLegs, Linked)
    PROVE  \E F : IsFundingLoad(F, funding_events, LoadedLegs)
                  /\ LoadedFunding = F[funding_events]
<1> DEFINE S == funding_events
           t == LoadedLegs
           X == ToSet(t.legs)
           V == [legs : Seq(X), funding : Seq(Fundings), reason : {"none"}]
           pick == [E \in SUBSET S |-> CHOOSE x \in E : TRUE]
           step == [e \in S |-> [u \in V |-> ApplyFunding(u, e)]]
           Iter(F) == [E \in SUBSET S |->
                         IF E = {} THEN t
                         ELSE ApplyFunding(F[E \ {CHOOSE x \in E : TRUE}], CHOOSE x \in E : TRUE)]
           C == CHOOSE F : F = Iter(F)
<1>1. t \in V
  <2>1. t = [legs |-> t.legs, funding |-> <<>>, reason |-> "none"] /\ t.legs \in Seq(X)
    BY DEF IsLoaded, IsHeld, IsTrade, AreLegs
  <2>2. <<>> \in Seq(Fundings)
    OBVIOUS
  <2> HIDE DEF t, X
  <2>3. \A legs \in Seq(X) : [legs |-> legs, funding |-> <<>>, reason |-> "none"] \in V
    BY <2>2
  <2> HIDE DEF V
  <2> QED
    BY <2>1, <2>3
<1>2. ASSUME NEW u \in V, NEW e \in S PROVE ApplyFunding(u, e) \in V
  <2> HIDE DEF X
  <2>1. Append(u.funding, e) \in Seq(Fundings)
    <3>1. u.funding \in Seq(Fundings) /\ e \in Fundings
      OBVIOUS
    <3> QED
      BY <3>1
  <2>2. [u EXCEPT !.funding = Append(@, e)] \in V
    BY <2>1
  <2> HIDE DEF V
  <2> QED
    BY <2>2 DEF ApplyFunding
<1>3. PICK F \in [SUBSET S -> V] : FoldEquation(F, S, t, pick, step)
  <2>1. \A E \in SUBSET S : E # {} => pick[E] \in E
    OBVIOUS
  <2>2. \A e \in S, u \in V : step[e][u] \in V
    BY <1>2
  <2>3. IsFiniteSet(S)
    OBVIOUS
  <2> HIDE DEF V, S, t, pick, step
  <2> QED
    BY <1>1, <2>1, <2>2, <2>3, FoldExists
<1>4. F = Iter(F)
  <2>1. ASSUME NEW E \in SUBSET S PROVE F[E] = Iter(F)[E]
    <3> HIDE DEF V, t
    <3>1. CASE E = {}
      BY <1>3, <3>1 DEF FoldEquation
    <3>2. CASE E # {}
      <4>1. pick[E] = (CHOOSE x \in E : TRUE) /\ pick[E] \in S /\ F[E \ {pick[E]}] \in V
        BY <1>3, <3>2
      <4>2. step[pick[E]][F[E \ {pick[E]}]] = ApplyFunding(F[E \ {pick[E]}], pick[E])
        BY <4>1
      <4> QED
        BY <1>3, <3>2, <4>1, <4>2 DEF FoldEquation
    <3> QED
      BY <3>1, <3>2
  <2> QED
    BY <2>1
<1>5. C = Iter(C)
  BY <1>4
<1>6. LoadedFunding = C[S]
  BY DEF LoadedFunding, FoldSet, MapThenFoldSet
<1> HIDE DEF C
<1>7. IsFundingLoad(C, S, t)
  BY <1>5 DEF IsFundingLoad
<1> QED
  BY <1>6, <1>7

IsFundedBy(u, t, E) ==
    IsHeld(u, episode) /\ u.legs = t.legs /\ ToSet(u.funding) = E

LEMMA LoadedFundingIs ==
    ASSUME IsFiniteSet(funding_events), funding_events \subseteq Fundings,
           IsLoaded(LoadedLegs, Linked)
    PROVE  IsFundedBy(LoadedFunding, LoadedLegs, funding_events)
<1>1. PICK F : IsFundingLoad(F, funding_events, LoadedLegs)
               /\ LoadedFunding = F[funding_events]
  BY FundingIsFold
<1> DEFINE t == LoadedLegs
           Good == {E \in SUBSET funding_events : IsFundedBy(F[E], t, E)}
<1>2. {} \in Good
  <2>1. F[{}] = t
    BY <1>1 DEF IsFundingLoad
  <2>2. ToSet(<<>>) = {}
    BY DEF ToSet
  <2> QED
    BY <2>1, <2>2 DEF IsFundedBy, IsLoaded
<1>3. ASSUME NEW E \in SUBSET funding_events, E # {}, \A x \in E : E \ {x} \in Good PROVE E \in Good
  <2> DEFINE e == CHOOSE x \in E : TRUE
             D == E \ {e}
  <2>1. e \in E /\ e \in Fundings /\ E = D \cup {e} /\ D \in Good
    BY <1>3
  <2>2. F[E] = ApplyFunding(F[D], e) /\ IsFundedBy(F[D], t, D)
    BY <1>1, <1>3, <2>1 DEF IsFundingLoad
  <2> HIDE DEF e, D
  <2>3. IsFunded(F[E], F[D], e, episode)
    BY <2>1, <2>2, FundingGives DEF IsFundedBy
  <2>4. IsFundedBy(F[E], t, E)
    BY <2>1, <2>2, <2>3 DEF IsFundedBy, IsFunded
  <2> QED
    BY <2>4
<1>4. SUBSET funding_events \subseteq Good
  <2> HIDE DEF Good
  <2> QED
    BY <1>2, <1>3, SubsetInduction
<1> QED
  BY <1>1, <1>4

\* What the tables hold.
TablesInv ==
    /\ episode \in Episodes /\ fills \subseteq Facts
    /\ IsFiniteSet(funding_events) /\ funding_events \subseteq Fundings
    /\ exit_reason \in Reasons \cup {"none"}

LEMMA LoadIs ==
    ASSUME TablesInv, LoadedLegs # Raised, Load # Raised \/ exit_reason = "none" \/ Closed(LoadedLegs)
    PROVE  /\ IsHeld(Load, episode) /\ Load.reason = exit_reason
           /\ Load.legs = LoadedLegs.legs
           /\ ToSet(Load.legs) = Linked /\ ToSet(Load.funding) = funding_events
<1>1. IsEpisode(episode)
  BY LedgerAssumption DEF TablesInv
<1>2. IsLoaded(LoadedLegs, Linked)
  BY <1>1, LoadedLegsAre DEF TablesInv
<1>3. IsFundedBy(LoadedFunding, LoadedLegs, funding_events)
  BY <1>2, LoadedFundingIs DEF TablesInv
<1>4. Load = [legs |-> LoadedFunding.legs, funding |-> LoadedFunding.funding,
              reason |-> exit_reason]
  BY DEF Load
<1>5. Load.legs = LoadedFunding.legs /\ Load.funding = LoadedFunding.funding
      /\ Load.reason = exit_reason /\ IsTrade(Load)
  BY <1>4 DEF IsTrade
<1>6. LoadedFunding.legs = LoadedLegs.legs /\ ToSet(LoadedFunding.funding) = funding_events
      /\ IsHeld(LoadedFunding, episode)
  BY <1>3 DEF IsFundedBy
<1>7. IsHeld(Load, episode)
  BY <1>5, <1>6 DEF IsHeld
<1> QED
  BY <1>2, <1>5, <1>6, <1>7 DEF IsLoaded

-----------------------------------------------------------------------------
(* The inductive invariant: the trade in memory is one whose replay does    *)
(* not raise, of different executions and different funding events.         *)
HeldInv == live = Gone \/ (IsHeld(live, episode) /\ live.reason \in Reasons \cup {"none"})

LedgerInv == TablesInv /\ HeldInv

LEMMA LedgerInit == Init => LedgerInv
<1> SUFFICES ASSUME Init PROVE LedgerInv
  OBVIOUS
<1>1. IsEpisode(episode)
  BY LedgerAssumption DEF Init
<1>2. IsHeld(live, episode) /\ live.reason = "none"
  BY <1>1, NothingHeld DEF Init, NewTrade
<1> QED
  BY <1>2, FS_EmptySet DEF Init, LedgerInv, TablesInv, HeldInv

LEMMA LedgerStep == LedgerInv /\ [Next]_vars => LedgerInv'
<1> SUFFICES ASSUME LedgerInv, [Next]_vars PROVE LedgerInv'
  OBVIOUS
<1>0. IsEpisode(episode) /\ episode \in Episodes
  BY LedgerAssumption DEF LedgerInv, TablesInv
<1>1. ASSUME UNCHANGED <<episode, fills, funding_events, exit_reason>> PROVE TablesInv'
  BY <1>1 DEF LedgerInv, TablesInv, Facts
<1>2. ASSUME UNCHANGED <<episode, live>> PROVE HeldInv'
  BY <1>2 DEF LedgerInv, HeldInv
<1>3. ASSUME NEW f \in Facts, AddFill(f) \/ LinkFill(f) PROVE LedgerInv'
  <2>1. UNCHANGED <<episode, live, funding_events, exit_reason>> /\ fills' \in {fills, fills \cup {f}}
    BY <1>3 DEF AddFill, LinkFill
  <2>2. TablesInv'
    BY <2>1 DEF LedgerInv, TablesInv, Facts
  <2> QED
    BY <1>2, <2>1, <2>2 DEF LedgerInv
<1>4. ASSUME NEW f \in Facts \cup episode.later, Fill(f) PROVE LedgerInv'
  <2> DEFINE t == ApplyFill(live, f, episode.sign)
  <2>1. UNCHANGED <<episode, fills, funding_events, exit_reason>> /\ live # Gone
        /\ live' = IF t = Raised THEN live ELSE t
    BY <1>4 DEF Fill, tables, Running
  <2>2. IsHeld(live, episode) /\ live.reason \in Reasons \cup {"none"}
    BY <2>1 DEF LedgerInv, HeldInv
  <2>3. CASE t = Raised
    BY <1>1, <1>2, <2>1, <2>3 DEF LedgerInv
  <2>4. CASE t # Raised
    <3>1. f \in ToSet(episode.fills) \cup episode.later
      BY DEF Facts
    <3>2. IsFilled(t, live, f, episode)
      BY <1>0, <2>2, <2>4, <3>1, FillGives
    <3> HIDE DEF t
    <3>3. HeldInv'
      BY <2>1, <2>2, <2>4, <3>2 DEF HeldInv, IsFilled
    <3> QED
      BY <1>1, <2>1, <3>3 DEF LedgerInv
  <2> QED
    BY <2>3, <2>4
<1>5. ASSUME NEW e \in Fundings, AddFunding(e) PROVE LedgerInv'
  <2>1. UNCHANGED <<episode, live, fills, exit_reason>> /\ funding_events' = funding_events \cup {e}
    BY <1>5 DEF AddFunding
  <2>2. IsFiniteSet(funding_events')
    BY <2>1, FS_AddElement DEF LedgerInv, TablesInv
  <2>3. TablesInv'
    BY <2>1, <2>2 DEF LedgerInv, TablesInv, Facts
  <2> QED
    BY <1>2, <2>1, <2>3 DEF LedgerInv
<1>6. ASSUME NEW e \in Fundings, Fund(e) PROVE LedgerInv'
  <2>1. UNCHANGED <<episode, fills, funding_events, exit_reason>> /\ live # Gone
        /\ live' = ApplyFunding(live, e)
    BY <1>6 DEF Fund, tables, Running
  <2>2. IsHeld(live, episode) /\ live.reason \in Reasons \cup {"none"}
    BY <2>1 DEF LedgerInv, HeldInv
  <2>3. IsFunded(live', live, e, episode)
    BY <2>1, <2>2, FundingGives
  <2>4. HeldInv'
    BY <2>1, <2>2, <2>3 DEF HeldInv, IsFunded
  <2> QED
    BY <1>1, <2>1, <2>4 DEF LedgerInv
<1>7. ASSUME NEW reason \in Reasons, Close(reason) PROVE LedgerInv'
  <2>1. UNCHANGED <<episode, fills, funding_events, exit_reason>> /\ live # Gone
        /\ live' = [live EXCEPT !.reason = reason]
    BY <1>7 DEF Close, tables, Running, CloseWithReason
  <2>2. IsHeld(live, episode)
    BY <2>1 DEF LedgerInv, HeldInv
  <2>3. live' = [legs |-> live.legs, funding |-> live.funding, reason |-> reason]
    BY <2>1, <2>2 DEF IsHeld, IsTrade
  <2>4. IsHeld(live', episode) /\ live'.reason = reason
    BY <2>2, <2>3 DEF IsHeld, IsTrade
  <2>5. HeldInv'
    BY <2>1, <2>4 DEF HeldInv
  <2> QED
    BY <1>1, <2>1, <2>5 DEF LedgerInv
<1>8. ASSUME SetExitReason PROVE LedgerInv'
  <2>1. UNCHANGED <<episode, live, fills, funding_events>> /\ live # Gone
        /\ exit_reason' \in {exit_reason, live.reason}
    BY <1>8 DEF SetExitReason, Running
  <2>2. live.reason \in Reasons \cup {"none"}
    BY <2>1 DEF LedgerInv, HeldInv
  <2>3. TablesInv'
    BY <2>1, <2>2 DEF LedgerInv, TablesInv, Facts
  <2> QED
    BY <1>2, <2>1, <2>3 DEF LedgerInv
<1>9. ASSUME Crash PROVE LedgerInv'
  BY <1>1, <1>9 DEF Crash, tables, LedgerInv, HeldInv, Gone
<1>10. ASSUME Restart PROVE LedgerInv'
  <2>1. UNCHANGED <<episode, fills, funding_events, exit_reason>> /\ Load # Raised /\ live' = Load
    BY <1>10 DEF Restart, tables
  <2>2. LoadedLegs # Raised
    BY <2>1 DEF Load
  <2>3. IsHeld(Load, episode) /\ Load.reason = exit_reason
    BY <2>1, <2>2, LoadIs DEF LedgerInv
  <2>4. exit_reason \in Reasons \cup {"none"}
    BY DEF LedgerInv, TablesInv
  <2>5. HeldInv'
    BY <2>1, <2>3, <2>4 DEF HeldInv
  <2> QED
    BY <1>1, <2>1, <2>5 DEF LedgerInv
<1>11. CASE UNCHANGED vars
  BY <1>1, <1>2, <1>11 DEF vars, tables, LedgerInv
<1> QED
  BY <1>3, <1>4, <1>5, <1>6, <1>7, <1>8, <1>9, <1>10, <1>11 DEF Next

LEMMA LedgerInvariant == Spec => []LedgerInv
BY LedgerInit, LedgerStep, PTL DEF Spec

(* The average-price arithmetic of a closed trade loses nothing and counts  *)
(* nothing twice (Trade._replay, pnl).                                      *)
THEOREM ClosedTradesNetTheirCash == Spec => []ClosedNetIsCash
<1>1. LedgerInv => ClosedNetIsCash
  <2> SUFFICES ASSUME LedgerInv, Running, Closed(live)
               PROVE  RatioEq(Net(live, episode.sign),
                              Ratio(Cash(ToSet(live.legs), ToSet(live.funding)), 1))
    BY DEF ClosedNetIsCash
  <2>1. IsEpisode(episode) /\ IsHeld(live, episode)
    BY LedgerAssumption DEF LedgerInv, TablesInv, HeldInv, Running
  <2> QED
    BY <2>1, ClosedNet DEF Closed
<1> QED
  BY <1>1, LedgerInvariant, PTL

(* A fill that reopens a closed trade executed before its last exit.        *)
ReopenedByEarlier ==
    \A leg \in ToSet(live'.legs) \ ToSet(live.legs) :
      Running /\ Closed(live) =>
        \E last \in ToSet(live.legs) : last.role = "exit" /\ Before(leg, last)

LEMMA ReopenStep == LedgerInv /\ [Next]_vars => ReopenedByEarlier
<1> SUFFICES ASSUME LedgerInv, [Next]_vars,
                    NEW leg \in ToSet(live'.legs) \ ToSet(live.legs), Running, Closed(live)
             PROVE  \E last \in ToSet(live.legs) : last.role = "exit" /\ Before(leg, last)
  BY DEF ReopenedByEarlier
<1>0. IsEpisode(episode) /\ IsHeld(live, episode)
  BY LedgerAssumption DEF LedgerInv, TablesInv, HeldInv, Running
<1>1. ASSUME live'.legs = live.legs PROVE FALSE
  BY <1>1
<1>2. ASSUME NEW f \in Facts \cup episode.later, Fill(f)
      PROVE  \E last \in ToSet(live.legs) : last.role = "exit" /\ Before(leg, last)
  <2> DEFINE t == ApplyFill(live, f, episode.sign)
  <2>1. live' = IF t = Raised THEN live ELSE t
    BY <1>2 DEF Fill
  <2>2. live' = t /\ t # Raised
    BY <1>1, <2>1
  <2>3. IsFilled(t, live, f, episode)
    <3>1. f \in ToSet(episode.fills) \cup episode.later
      BY DEF Facts
    <3> QED
      BY <1>0, <2>2, <3>1, FillGives
  <2> HIDE DEF t
  <2>4. t.legs = Append(live.legs, f)
    BY <1>1, <2>2, <2>3 DEF IsFilled
  <2>5. AreLegs(t.legs) /\ Replay(t.legs, episode.sign).ok
    BY <2>3 DEF IsFilled, IsHeld
  <2>6. /\ AreLegs(live.legs) /\ Replay(live.legs, episode.sign).ok
        /\ Replay(live.legs, episode.sign).open = 0 /\ live.legs # <<>>
        /\ episode.sign \in {1, -1}
    BY <1>0 DEF IsHeld, Closed, Status, IsEpisode
  <2>7. PICK i \in DOMAIN live.legs : live.legs[i].role = "exit" /\ Before(f, live.legs[i])
    BY <2>4, <2>5, <2>6, ClosedRefusesLater
  <2>8. leg = f
    <3>1. live.legs \in Seq(ToSet(live.legs))
      BY <2>6 DEF AreLegs
    <3>2. leg \in ToSet(Append(live.legs, f)) /\ leg \notin ToSet(live.legs)
      BY <2>2, <2>4
    <3> QED
      BY <3>1, <3>2 DEF ToSet
  <2> QED
    BY <2>7, <2>8 DEF ToSet
<1>3. ASSUME NEW f, AddFill(f) \/ LinkFill(f) PROVE FALSE
  BY <1>1, <1>3 DEF AddFill, LinkFill
<1>4. ASSUME NEW e, AddFunding(e) PROVE FALSE
  BY <1>1, <1>4 DEF AddFunding
<1>5. ASSUME NEW e \in Fundings, Fund(e) PROVE FALSE
  <2>1. live' = ApplyFunding(live, e)
    BY <1>5 DEF Fund
  <2>2. IsFunded(live', live, e, episode)
    BY <1>0, <2>1, FundingGives
  <2> QED
    BY <1>1, <2>2 DEF IsFunded
<1>6. ASSUME NEW reason, Close(reason) PROVE FALSE
  <2>1. live' = [live EXCEPT !.reason = reason]
    BY <1>6 DEF Close, CloseWithReason
  <2>2. live' = [legs |-> live.legs, funding |-> live.funding, reason |-> reason]
    BY <1>0, <2>1 DEF IsHeld, IsTrade
  <2> QED
    BY <1>1, <2>2
<1>7. ASSUME SetExitReason PROVE FALSE
  BY <1>1, <1>7 DEF SetExitReason
<1>8. ASSUME Crash PROVE FALSE
  <2>1. live'.legs = <<>> /\ ToSet(<<>>) = {}
    BY <1>8 DEF Crash, Gone, NewTrade, ToSet
  <2> QED
    BY <2>1
<1>9. ASSUME Restart PROVE FALSE
  BY <1>9 DEF Restart
<1>10. CASE UNCHANGED vars
  BY <1>1, <1>10 DEF vars
<1> QED
  BY <1>2, <1>3, <1>4, <1>5, <1>6, <1>7, <1>8, <1>9, <1>10 DEF Next

(* A closed trade is opened again only by a fill that executed before its   *)
(* last exit and was reported late (Trade._replay, apply_fill).             *)
THEOREM LaterFillsNeverReopen == Spec => OnlyEarlierFillsReopen
<1>1. LedgerInv /\ [Next]_vars => [ReopenedByEarlier]_vars
  BY ReopenStep
<1> QED
  BY <1>1, LedgerInvariant, PTL DEF Spec, OnlyEarlierFillsReopen, ReopenedByEarlier

-----------------------------------------------------------------------------
(* A complete position.                                                     *)

LEMMA SumNegative ==
    ASSUME NEW f, NEW S, IsFiniteSet(S), \A x \in S : f[x] \in Int /\ f[x] < 0
    PROVE  SumOn(f, S) \in Int /\ SumOn(f, S) <= 0 /\ (S # {} => SumOn(f, S) < 0)
<1> DEFINE zero == [x \in S |-> 0]
           g == [x \in S |-> 0 - f[x]]
<1>1. SumOn(zero, S) \in Int /\ SumOn(f, S) \in Int
  <2>1. \A x \in S : zero[x] \in Int /\ f[x] \in Int
    OBVIOUS
  <2> HIDE DEF zero
  <2> QED
    BY <2>1, SumType
<1>2. SumOn(g, S) \in Nat /\ (S # {} => SumOn(g, S) > 0)
  <2>1. \A x \in S : g[x] \in Int /\ g[x] > 0
    OBVIOUS
  <2> HIDE DEF g
  <2> QED
    BY <2>1, SumPositive
<1>3. SumOn(g, S) = SumOn(zero, S) - SumOn(f, S)
  <2>1. \A x \in S : zero[x] \in Int /\ f[x] \in Int /\ g[x] = zero[x] - f[x]
    OBVIOUS
  <2> HIDE DEF g, zero
  <2> QED
    BY <2>1, SumMinus
<1>4. SumOn(zero, S) = SumOn(zero, S) - SumOn(zero, S)
  <2>1. \A x \in S : zero[x] \in Int /\ zero[x] = zero[x] - zero[x]
    OBVIOUS
  <2> HIDE DEF zero
  <2> QED
    BY <2>1, SumMinus
<1> HIDE DEF g, zero
<1> QED
  BY <1>1, <1>2, <1>3, <1>4

Prefix(s, k) == {s[i] : i \in 1..k}

QtyOf(S) == [f \in S |-> Signed(f)]

(* The quantity that is open after the legs numbered by I, by their set.    *)
LEMMA QtyByLegs ==
    ASSUME NEW legs, AreLegs(legs), NEW I \in SUBSET DOMAIN legs, NEW S, ToSet(legs) \subseteq S
    PROVE  SumOn(SignedBy(legs), I) = SumOn(QtyOf(S), {legs[i] : i \in I})
<1> DEFINE s == [i \in I |-> legs[i]]
           f == QtyOf(S)
           g == SignedBy(legs)
<1>1. DOMAIN s = I /\ IsFiniteSet(I) /\ ToSet(s) = {legs[i] : i \in I}
  BY LegsAreFinite, FS_Subset DEF ToSet
<1>2. \A i, j \in I : s[i] = s[j] => i = j
  BY DEF AreLegs
<1>3. \A i \in I : g[i] = f[s[i]] /\ f[s[i]] \in Int
  <2>1. \A i \in I : legs[i] \in S
    BY DEF ToSet
  <2>2. \A i \in I : f[s[i]] = Signed(legs[i]) /\ g[i] = Signed(legs[i]) /\ g[i] \in Int
    BY <2>1, SignedIsInt DEF QtyOf
  <2> QED
    BY <2>2
<1> HIDE DEF s, f, g
<1>4. SumOn(g, I) = SumOn(f, ToSet(s))
  BY <1>1, <1>2, <1>3, SumImage
<1> QED
  BY <1>1, <1>4 DEF f, g

\* What is open when the executions of S have happened, entries less exits.
OpenBy(e, S) == SumOn(QtyOf(ToSet(e.fills)), S)

(* A position is open between its first and its last execution.             *)
LEMMA EpisodePrefixes ==
    ASSUME NEW e, IsEpisode(e)
    PROVE  /\ \A k \in 0..Len(e.fills) : OpenBy(e, Prefix(e.fills, k)) \in Nat
           /\ \A k \in 1..(Len(e.fills) - 1) : OpenBy(e, Prefix(e.fills, k)) > 0
           /\ OpenBy(e, Prefix(e.fills, Len(e.fills))) = 0
           /\ Len(e.fills) \in Nat \ {0}
<1> DEFINE legs == e.fills
           n == Len(legs)
           pick == AsGiven(legs)
<1>1. AreLegs(legs) /\ e.sign \in {1, -1}
  BY EpisodeParts
<1>2. n \in Nat /\ DOMAIN legs = 1..n
  BY <1>1, LegsAreFinite
<1>3. PICK F : IsReplay(F, legs, e.sign, pick) /\ F[DOMAIN legs].ok /\ F[DOMAIN legs].closed
  BY <1>1, EpisodeIsFold
<1>4. \A I \in SUBSET DOMAIN legs : Counted(F, legs, pick, I)
  BY <1>1, <1>3, AsGivenPicks, ReplayCounts
<1> HIDE DEF pick
<1>5. ASSUME NEW k \in 1..n
      PROVE  1..k \in SUBSET DOMAIN legs /\ 1..k # {} /\ pick[1..k] = k
             /\ (1..k) \ {k} = 1..(k - 1)
  <2>1. 1..k \in SUBSET (1..n) /\ 1..k # {} /\ k \in 1..k /\ k \in Nat
    <3>1. k \in Nat /\ 1 <= k /\ k <= n
      BY <1>2
    <3> HIDE DEF n
    <3>2. k \in 1..k /\ \A j \in 1..k : j \in 1..n
      BY <1>2, <3>1
    <3> QED
      BY <3>1, <3>2
  <2>2. Max(1..k) = k
    <3>1. Max(1..k) \in 1..k /\ \A j \in 1..k : j <= Max(1..k)
      BY <1>2, <2>1, LargestOf
    <3> QED
      BY <2>1, <3>1
  <2>3. (1..k) \ {k} = 1..(k - 1)
    BY <2>1
  <2> QED
    BY <1>2, <2>1, <2>2, <2>3 DEF AsGiven, pick
<1>6. ASSUME NEW k \in 1..n, F[1..k].ok PROVE F[1..(k - 1)].ok /\ ~F[1..(k - 1)].closed
  <2>1. Counted(F, legs, pick, 1..k) /\ 1..k # {} /\ (1..k) \ {pick[1..k]} = 1..(k - 1)
    BY <1>4, <1>5
  <2> QED
    BY <1>6, <2>1 DEF Counted
<1>7. \A k \in 0..n : F[1..k].ok
  <2> DEFINE Bad == {j \in 0..n : ~F[1..(n - j)].ok}
  <2>1. SUFFICES ASSUME Bad # {} PROVE FALSE
    <3>1. ASSUME NEW k \in 0..n, Bad = {} PROVE F[1..k].ok
      <4>1. n - k \in 0..n /\ n - (n - k) = k
        <5>1. k \in Int /\ 0 <= k /\ k <= n
          BY <1>2
        <5> HIDE DEF n
        <5> QED
          BY <1>2, <5>1
      <4>2. n - k \notin Bad
        BY <3>1
      <4> QED
        BY <4>1, <4>2
    <3> QED
      BY <3>1
  <2>2. PICK j \in Bad : \A i \in Bad : j <= i
    <3>1. Bad \subseteq Nat
      BY <1>2
    <3> HIDE DEF Bad
    <3> QED
      BY <2>1, <3>1, SmallestOf
  <2>3. j # 0
    BY <1>2, <1>3
  <2>4. j - 1 \in 0..n /\ n - (j - 1) \in 1..n /\ (n - (j - 1)) - 1 = n - j /\ ~(j <= j - 1)
    BY <1>2, <2>3
  <2>5. j - 1 \notin Bad
    <3> HIDE DEF Bad
    <3> QED
      BY <2>2, <2>4
  <2>6. F[1..(n - (j - 1))].ok
    BY <2>4, <2>5
  <2>7. F[1..((n - (j - 1)) - 1)].ok
    BY <1>6, <2>4, <2>6
  <2> QED
    BY <2>4, <2>7
<1>8. ASSUME NEW k \in 0..n
      PROVE  OpenBy(e, Prefix(legs, k)) = F[1..k].open /\ F[1..k].open \in Nat
             /\ (F[1..k].closed <=> (1..k # {} /\ F[1..k].open = 0))
  <2>1. 1..k \in SUBSET DOMAIN legs
    BY <1>2
  <2>2. F[1..k].open = SumOn(SignedBy(legs), 1..k)
        /\ (F[1..k].closed <=> (1..k # {} /\ F[1..k].open = 0))
    BY <1>4, <1>7, <2>1 DEF Counted
  <2>3. SumOn(SignedBy(legs), 1..k) = OpenBy(e, Prefix(legs, k))
    BY <1>1, <2>1, QtyByLegs DEF OpenBy, Prefix
  <2>4. F[1..k] \in States
    BY <1>3, <2>1 DEF IsReplay
  <2>5. F[1..k].open \in Nat
    BY <2>4, StateParts
  <2> QED
    BY <2>2, <2>3, <2>5
<1>9. n # 0 /\ OpenBy(e, Prefix(legs, n)) = 0
  <2>1. n \in 0..n /\ F[1..n].closed /\ (n = 0 => 1..n = {})
    BY <1>2, <1>3
  <2> QED
    BY <1>8, <2>1
<1>10. ASSUME NEW k \in 1..(n - 1) PROVE OpenBy(e, Prefix(legs, k)) > 0
  <2>1. k \in 0..n /\ k + 1 \in 1..n /\ (k + 1) - 1 = k /\ 1..k # {} /\ k + 1 \in 0..n
    <3>1. k \in Int /\ 1 <= k /\ k <= n - 1
      BY <1>2
    <3> HIDE DEF n
    <3>2. 1 \in 1..k
      BY <3>1
    <3>3. k \in 0..n /\ k + 1 \in 1..n /\ k + 1 \in 0..n /\ (k + 1) - 1 = k
      BY <1>2, <3>1
    <3> QED
      BY <3>2, <3>3
  <2>2. F[1..(k + 1)].ok
    BY <1>7, <2>1
  <2>3. ~F[1..((k + 1) - 1)].closed
    BY <1>6, <2>1, <2>2
  <2>4. ~F[1..k].closed
    BY <2>1, <2>3
  <2> QED
    BY <1>8, <2>1, <2>4
<1> QED
  BY <1>2, <1>8, <1>9, <1>10

UpTo(e, c) == {f \in ToSet(e.fills) : f.time <= c}

(* What has happened up to some time is a beginning of the executions.      *)
LEMMA TimePrefixes ==
    ASSUME NEW e, IsEpisode(e), NEW c \in Int
    PROVE  /\ OpenBy(e, UpTo(e, c)) \in Nat
           /\ UpTo(e, c) # {} /\ UpTo(e, c) # ToSet(e.fills) => OpenBy(e, UpTo(e, c)) > 0
<1> DEFINE legs == e.fills
           n == Len(legs)
           I == {i \in 1..n : legs[i].time <= c}
           Bounds == {k \in Nat : \A i \in I : i <= k}
<1>1. AreLegs(legs) /\ n \in Nat /\ DOMAIN legs = 1..n
  BY EpisodeParts, LegsAreFinite
<1>2. \A i, j \in 1..n : i < j => legs[i].time <= legs[j].time
  BY <1>1 DEF IsEpisode
<1>3. \A i \in 1..n : legs[i].time \in Int
  BY <1>1 DEF AreLegs, IsFill
<1>4. PICK k \in Bounds : \A m \in Bounds : k <= m
  <2>1. n \in Bounds
    BY <1>1
  <2>2. Bounds \subseteq Nat /\ Bounds # {}
    BY <2>1
  <2> HIDE DEF Bounds
  <2> QED
    BY <2>2, SmallestOf
<1>5. k = 0 \/ k \in I
  <2>1. SUFFICES ASSUME k # 0, k \notin I PROVE FALSE
    OBVIOUS
  <2>2. k - 1 \in Nat /\ \A i \in I : i <= k - 1
    BY <2>1
  <2>3. k - 1 \in Bounds
    BY <2>2
  <2> QED
    BY <1>4, <2>3
<1>6. k \in 0..n /\ I = 1..k
  <2>1. k \in 0..n
    BY <1>1, <1>5
  <2>2. I \subseteq 1..k
    BY <1>1
  <2>3. ASSUME NEW i \in 1..k PROVE i \in I
    <3>1. k \in I /\ i \in 1..n /\ k \in 1..n
      BY <1>1, <1>5, <2>1
    <3>2. i = k \/ i < k
      BY <2>1
    <3>3. legs[i].time <= legs[k].time
      BY <1>2, <1>3, <3>1, <3>2
    <3> QED
      BY <1>3, <3>1, <3>3
  <2> QED
    BY <2>1, <2>2, <2>3
<1>7. UpTo(e, c) = {legs[i] : i \in I} /\ ToSet(legs) = {legs[i] : i \in 1..n}
  BY <1>1 DEF UpTo, ToSet
<1>8. UpTo(e, c) = Prefix(legs, k) /\ ToSet(legs) = Prefix(legs, n)
  BY <1>6, <1>7 DEF Prefix
<1>9. k = 0 => Prefix(legs, k) = {}
  BY DEF Prefix
<1>10. UpTo(e, c) # {} /\ UpTo(e, c) # ToSet(legs) => k \in 1..(n - 1)
  BY <1>1, <1>6, <1>8, <1>9
<1> HIDE DEF I
<1> QED
  BY <1>6, <1>8, <1>10, EpisodePrefixes

\* No entry and exit at one time.
Untied(e) ==
    \A f, g \in ToSet(e.fills) : f.time = g.time => f.role = g.role

IsBeginning(R, e) ==
    /\ R \subseteq ToSet(e.fills)
    /\ \A r \in R, f \in ToSet(e.fills) : RowBefore(f, r) => f \in R

(* The same is true of the executions in the order of their rows.           *)
LEMMA RowPrefixes ==
    ASSUME NEW e, IsEpisode(e), Untied(e), NEW R, IsBeginning(R, e), R # {}
    PROVE  IF R = ToSet(e.fills) THEN OpenBy(e, R) = 0 ELSE OpenBy(e, R) \in Nat \ {0}
<1> DEFINE S == ToSet(e.fills)
           q == QtyOf(S)
<1>1. AreRows(S) /\ AreLegs(e.fills)
  BY EpisodeParts DEF AreRows
<1>2. CASE R = S
  <2>1. S = Prefix(e.fills, Len(e.fills))
    BY <1>1, LegsAreFinite DEF ToSet, Prefix
  <2> QED
    BY <1>2, <2>1, EpisodePrefixes
<1>3. CASE R # S
  <2>1. PICK m : IsLastRow(R, m)
    BY <1>1, SomeRowIsLast DEF IsBeginning
  <2> DEFINE c == m.time
  <2>2. m \in R /\ m \in S /\ c \in Int
    BY <1>1, <2>1 DEF IsLastRow, IsBeginning, AreRows, IsFill
  <2>3. \A f \in S : f.time \in Int /\ f.qty \in Nat \ {0} /\ f.role \in {"entry", "exit"}
    BY <1>1 DEF AreRows, IsFill
  <2>4. \A f \in R : f.time <= c
    BY <2>1, <2>2, <2>3 DEF IsLastRow, RowBefore, IsBeginning
  <2>5. \A f \in S : f.time < c => f \in R
    BY <2>2 DEF IsBeginning, RowBefore
  <2>6. \A f \in S : f.time = c => f.role = m.role
    BY <2>2 DEF Untied
  <2>7. /\ UpTo(e, c) \subseteq S /\ UpTo(e, c - 1) \subseteq R /\ R \subseteq UpTo(e, c)
        /\ \A f \in UpTo(e, c) \ UpTo(e, c - 1) : f.time = c
        /\ m \in R \ UpTo(e, c - 1)
    BY <2>2, <2>3, <2>4, <2>5 DEF UpTo, IsBeginning
  <2>8. \A f \in S : q[f] = Signed(f) /\ q[f] \in Int
    BY <2>3 DEF QtyOf, Signed
  <2>9. IsFiniteSet(S) /\ \A T \in SUBSET S : IsFiniteSet(T)
    BY <1>1, FS_Subset DEF AreRows
  <2>10. OpenBy(e, UpTo(e, c)) \in Nat /\ OpenBy(e, UpTo(e, c - 1)) \in Nat
         /\ (UpTo(e, c) # {} /\ UpTo(e, c) # S => OpenBy(e, UpTo(e, c)) > 0)
    <3>1. c - 1 \in Int
      BY <2>2
    <3> QED
      BY <2>2, <3>1, TimePrefixes
  <2>11. CASE m.role = "entry"
    <3> DEFINE A == UpTo(e, c - 1)
               B == R \ A
    <3>1. IsFiniteSet(R) /\ IsFiniteSet(B) /\ A \in SUBSET R /\ \A f \in R : q[f] \in Int
      BY <2>7, <2>8, <2>9
    <3>2. \A f \in B : q[f] \in Int /\ q[f] > 0
      <4>1. \A f \in B : f \in S /\ f.role = "entry"
        BY <2>6, <2>7, <2>11
      <4> QED
        BY <2>3, <2>8, <4>1 DEF Signed
    <3>3. B # {}
      BY <2>7
    <3> HIDE DEF q, A, B
    <3>4. SumOn(q, R) = SumOn(q, A) + SumOn(q, R \ A)
      BY <3>1, SumUnion
    <3>5. SumOn(q, B) \in Nat /\ SumOn(q, B) > 0
      BY <3>1, <3>2, <3>3, SumPositive
    <3>6. SumOn(q, A) \in Nat
      BY <2>10 DEF OpenBy, q, A
    <3>7. SumOn(q, R) \in Nat \ {0}
      BY <3>4, <3>5, <3>6 DEF B
    <3> QED
      BY <1>3, <3>7 DEF OpenBy, q
  <2>12. CASE m.role = "exit"
    <3> DEFINE A == UpTo(e, c)
               B == A \ R
    <3>1. IsFiniteSet(A) /\ IsFiniteSet(B) /\ IsFiniteSet(R) /\ R \in SUBSET A
          /\ (\A f \in A : q[f] \in Int) /\ (\A f \in R : q[f] \in Int)
      BY <2>7, <2>8, <2>9
    <3>2. \A f \in B : q[f] \in Int /\ q[f] < 0
      <4>1. \A f \in B : f \in S /\ f.role = "exit"
        BY <2>6, <2>7, <2>12
      <4> QED
        BY <2>3, <2>8, <4>1 DEF Signed
    <3>3. A # {} /\ (B = {} => A = R)
      BY <2>7
    <3>4. SumOn(q, A) \in Nat /\ (A # S => SumOn(q, A) > 0)
      BY <2>10, <3>3 DEF OpenBy
    <3> HIDE DEF q, A, B
    <3>5. SumOn(q, A) = SumOn(q, R) + SumOn(q, A \ R)
      BY <3>1, SumUnion
    <3>6. SumOn(q, B) \in Int /\ SumOn(q, B) <= 0 /\ (B # {} => SumOn(q, B) < 0)
      BY <3>1, <3>2, SumNegative
    <3>7. SumOn(q, R) \in Int
      BY <3>1, SumType
    <3>8. SumOn(q, R) > 0
      BY <1>3, <3>3, <3>4, <3>5, <3>6, <3>7 DEF B
    <3>9. SumOn(q, R) \in Nat \ {0}
      BY <3>7, <3>8
    <3> QED
      BY <1>3, <3>9 DEF OpenBy, q
  <2> QED
    BY <2>2, <2>3, <2>11, <2>12
<1> QED
  BY <1>2, <1>3

-----------------------------------------------------------------------------
(* Legs that are replayed without a refusal.                                *)

IsEarly(J, legs) ==
    /\ J \subseteq DOMAIN legs
    /\ \A j \in J, i \in DOMAIN legs : Before(legs[i], legs[j]) => i \in J

\* No exit takes more than is open, and something is open until the end.
Covered(legs) ==
    \A J : IsEarly(J, legs) /\ J # {} =>
        /\ SumOn(SignedBy(legs), J) \in Nat
        /\ J # DOMAIN legs => SumOn(SignedBy(legs), J) # 0

LEMMA ReplayOk ==
    ASSUME NEW legs, AreLegs(legs), NEW sign \in {1, -1}, Covered(legs)
    PROVE  Replay(legs, sign).ok
<1> DEFINE D == DOMAIN legs
           Q == SignedBy(legs)
           pick == InOrder(legs)
<1>1. PICK F : IsReplay(F, legs, sign, pick) /\ Replay(legs, sign) = F[D]
  BY ReplayIsFold
<1>2. \A I \in SUBSET D : Counted(F, legs, pick, I)
  BY <1>1, InOrderPicks, ReplayCounts
<1> DEFINE Good == {J \in SUBSET D : IsEarly(J, legs) => F[J].ok}
<1>3. {} \in Good
  <2>1. F[{}] = NothingReplayed
    BY <1>1 DEF IsReplay
  <2>2. F[{}].ok
    BY <2>1 DEF NothingReplayed
  <2> QED
    BY <2>2
<1>4. ASSUME NEW J \in SUBSET D, J # {}, \A x \in J : J \ {x} \in Good PROVE J \in Good
  <2> SUFFICES ASSUME IsEarly(J, legs) PROVE F[J].ok
    OBVIOUS
  <2> DEFINE i == pick[J]
             K == J \ {i}
  <2>1. i = LastLeg(legs, J) /\ IsLast(legs, J, i)
    BY <1>4, LastLegIsLast DEF InOrder
  <2>2. i \in J /\ i \in D /\ K \in SUBSET D /\ K \in Good /\ J \in SUBSET D
    BY <1>4, <2>1 DEF IsLast
  <2>3. IsFill(legs[i]) /\ \A j \in D : IsFill(legs[j])
    BY <2>2 DEF AreLegs
  <2>4. F[J] = ReplayLeg(F[K], legs[i], sign) /\ F[K] \in States
    BY <1>1, <1>4, <2>2 DEF IsReplay
  <2> HIDE DEF pick, i
  <2>5. IsEarly(K, legs)
    <3>1. ASSUME NEW j \in K, NEW k \in D, Before(legs[k], legs[j]) PROVE k \in K
      <4>1. k \in J /\ Before(legs[j], legs[i]) /\ j \in D
        BY <2>1, <2>2, <3>1 DEF IsEarly, IsLast
      <4>2. ~Before(legs[i], legs[j])
        BY <2>3, <4>1, BeforeIsOrder
      <4> QED
        BY <3>1, <4>1, <4>2
    <3> QED
      BY <2>2, <3>1 DEF IsEarly
  <2>6. F[K].ok
    BY <2>2, <2>5
  <2>7. F[K].open = SumOn(Q, K) /\ (F[K].closed <=> (K # {} /\ F[K].open = 0))
    BY <1>2, <2>2, <2>6 DEF Counted
  <2>8. ~F[K].closed
    <3>1. K # {} => SumOn(Q, K) # 0
      BY <2>2, <2>5 DEF Covered
    <3> QED
      BY <2>7, <3>1
  <2>9. SumOn(Q, J) = Signed(legs[i]) + SumOn(Q, K)
    <3>1. \A x \in D : Q[x] = Signed(legs[x]) /\ Q[x] \in Int
      BY SignedIsInt
    <3>2. IsFiniteSet(J)
      BY LegsAreFinite, FS_Subset
    <3> HIDE DEF Q, K
    <3>3. SumOn(Q, J) = Q[i] + SumOn(Q, J \ {i})
      BY <2>2, <3>1, <3>2, SumTake
    <3> QED
      BY <2>2, <3>1, <3>3 DEF K
  <2>10. SumOn(Q, J) \in Nat
    BY <1>4 DEF Covered
  <2>11. ~Refused(F[K], legs[i])
    <3>1. SUFFICES ASSUME legs[i].role = "exit", legs[i].qty > F[K].open PROVE FALSE
      BY <2>6, <2>8 DEF Refused
    <3>2. legs[i].qty \in Nat /\ Signed(legs[i]) = -legs[i].qty
      BY <2>3, <3>1 DEF Signed, IsFill
    <3>3. F[K].open \in Nat
      BY <2>4, StateParts
    <3> QED
      BY <2>7, <2>9, <2>10, <3>1, <3>2, <3>3
  <2>12. CASE legs[i].role = "entry"
    <3>1. F[J] = Entered(F[K], legs[i])
      BY <2>3, <2>4, <2>11, <2>12, ReplayLegCases
    <3> QED
      BY <2>3, <2>4, <2>6, <3>1, EnteredParts
  <2>13. CASE legs[i].role = "exit"
    <3>1. F[J] = Exited(F[K], legs[i], sign) /\ legs[i].qty <= F[K].open
      BY <2>3, <2>4, <2>11, <2>13, ReplayLegCases
    <3> QED
      BY <2>3, <2>4, <2>6, <3>1, ExitedParts
  <2>14. legs[i].role \in {"entry", "exit"}
    BY <2>3 DEF IsFill
  <2> QED
    BY <2>12, <2>13, <2>14
<1>5. SUBSET D \subseteq Good
  <2>1. IsFiniteSet(D)
    BY LegsAreFinite
  <2> HIDE DEF Good, D
  <2> QED
    BY <1>3, <1>4, <2>1, SubsetInduction
<1>6. IsEarly(D, legs)
  BY DEF IsEarly
<1> QED
  BY <1>1, <1>5, <1>6

(* A trade in which as much has left as has entered is closed.              *)
LEMMA BalancedIsClosed ==
    ASSUME NEW t, NEW e, IsEpisode(e), IsHeld(t, e), t.legs # <<>>,
           SumOn(SignedBy(t.legs), DOMAIN t.legs) = 0
    PROVE  Status(t, e.sign) = "closed"
<1> DEFINE legs == t.legs
           D == DOMAIN legs
           pick == InOrder(legs)
<1>1. AreLegs(legs) /\ e.sign \in {1, -1} /\ Replay(legs, e.sign).ok
  BY DEF IsHeld, IsEpisode
<1>2. PICK F : IsReplay(F, legs, e.sign, pick) /\ Replay(legs, e.sign) = F[D]
  BY <1>1, ReplayIsFold
<1>3. Counted(F, legs, pick, D) /\ Picks(pick, D)
  BY <1>1, <1>2, InOrderPicks, ReplayCounts
<1>4. D # {}
  BY <1>1, LegsAreFinite DEF AreLegs
<1>5. F[D].open = 0 /\ legs[pick[D]].role = "exit" /\ pick[D] \in D
  BY <1>1, <1>2, <1>3, <1>4 DEF Counted, Picks
<1>6. legs[pick[D]] \in ToSet(legs)
  BY <1>5 DEF ToSet
<1> QED
  BY <1>2, <1>5, <1>6 DEF Status

-----------------------------------------------------------------------------
(* The rows of a complete position are loaded.                              *)

LEMMA RowsAreCovered ==
    ASSUME NEW e, IsEpisode(e), Untied(e), NEW a, AreLegs(a), IsBeginning(ToSet(a), e)
    PROVE  Covered(a)
<1> SUFFICES ASSUME NEW J, IsEarly(J, a), J # {}
             PROVE  /\ SumOn(SignedBy(a), J) \in Nat
                    /\ J # DOMAIN a => SumOn(SignedBy(a), J) # 0
  BY DEF Covered
<1> DEFINE S == ToSet(e.fills)
           T == {a[i] : i \in J}
<1>1. J \in SUBSET DOMAIN a /\ ToSet(a) \subseteq S /\ T \subseteq ToSet(a)
  BY DEF IsEarly, IsBeginning, ToSet
<1>2. IsBeginning(T, e)
  <2>1. ASSUME NEW r \in T, NEW g \in S, RowBefore(g, r) PROVE g \in T
    <3>1. PICK i \in J : r = a[i]
      OBVIOUS
    <3>2. g \in ToSet(a)
      BY <1>1, <2>1 DEF IsBeginning
    <3>3. PICK k \in DOMAIN a : g = a[k]
      BY <3>2 DEF ToSet
    <3>4. r \in S
      BY <1>1
    <3>5. Before(g, r)
      BY <2>1, <3>4 DEF RowBefore, Before, Untied
    <3>6. k \in J
      BY <3>1, <3>3, <3>5 DEF IsEarly
    <3> QED
      BY <3>3, <3>6
  <2> QED
    BY <1>1, <2>1 DEF IsBeginning
<1>3. SumOn(SignedBy(a), J) = OpenBy(e, T)
  BY <1>1, QtyByLegs DEF OpenBy
<1>4. T # {}
  OBVIOUS
<1>5. T = S => J = DOMAIN a
  <2>1. ASSUME T = S, NEW k \in DOMAIN a PROVE k \in J
    <3>1. a[k] \in T
      BY <1>1, <2>1 DEF ToSet
    <3>2. PICK i \in J : a[i] = a[k]
      BY <3>1
    <3>3. i = k
      BY <1>1, <3>2 DEF AreLegs
    <3> QED
      BY <3>3
  <2> QED
    BY <1>1, <2>1
<1>6. IF T = S THEN OpenBy(e, T) = 0 ELSE OpenBy(e, T) \in Nat \ {0}
  <2> HIDE DEF T
  <2> QED
    BY <1>2, <1>4, RowPrefixes
<1> QED
  BY <1>3, <1>5, <1>6

LEMMA RowBeforeIsOrder ==
    ASSUME NEW a, NEW b, IsFill(a), IsFill(b), RowBefore(a, b)
    PROVE  ~RowBefore(b, a)
BY DEF RowBefore, IsFill

LEMMA BeginningLoads ==
    ASSUME IsEpisode(episode), Untied(episode), Linked = Facts,
           NEW F, IsLoad(F, Linked, episode.sign)
    PROVE  \A R \in SUBSET Linked :
               IsBeginning(R, episode) => F[R] # Raised /\ IsLoaded(F[R], R)
<1> DEFINE Good == {R \in SUBSET Linked :
                      IsBeginning(R, episode) => F[R] # Raised /\ IsLoaded(F[R], R)}
<1>1. AreRows(Linked)
  BY EpisodeParts DEF AreRows, Facts
<1>2. {} \in Good
  BY NewIsLoaded DEF IsLoad
<1>3. ASSUME NEW R \in SUBSET Linked, R # {}, \A x \in R : R \ {x} \in Good PROVE R \in Good
  <2> SUFFICES ASSUME IsBeginning(R, episode) PROVE F[R] # Raised /\ IsLoaded(F[R], R)
    OBVIOUS
  <2> DEFINE f == LastRow(R)
             S == R \ {f}
  <2>1. IsLastRow(R, f)
    BY <1>1, <1>3, LastRowIsLast
  <2>2. f \in R /\ S \in Good /\ R = S \cup {f} /\ f \in Facts \ S /\ S \in SUBSET Facts
        /\ IsFill(f) /\ \A r \in R : IsFill(r)
    BY <1>1, <1>3, <2>1 DEF IsLastRow, AreRows
  <2>3. IsBeginning(S, episode)
    <3>1. ASSUME NEW r \in S, NEW g \in ToSet(episode.fills), RowBefore(g, r) PROVE g \in S
      <4>1. g \in R /\ RowBefore(r, f)
        BY <2>1, <3>1 DEF IsBeginning, IsLastRow
      <4>2. ~RowBefore(f, r)
        BY <2>2, <4>1, RowBeforeIsOrder
      <4> QED
        BY <3>1, <4>1, <4>2
    <3> QED
      BY <3>1 DEF IsBeginning
  <2>4. F[S] # Raised /\ IsLoaded(F[S], S) /\ F[R] = Loaded(F[S], f, episode.sign)
    BY <1>3, <2>2, <2>3 DEF IsLoad
  <2> HIDE DEF f, S, Good
  <2> DEFINE t == F[S]
             a == Append(t.legs, f)
             longer == [t EXCEPT !.legs = Append(@, f)]
  <2>5. AreLegs(t.legs) /\ ToSet(t.legs) = S /\ t.reason = "none"
        /\ t = [legs |-> t.legs, funding |-> t.funding, reason |-> t.reason]
    BY <2>4 DEF IsLoaded, IsHeld, IsTrade
  <2>6. \A known \in ToSet(t.legs) : known.exec # f.exec
    BY <1>1, <2>2, <2>5 DEF AreRows
  <2> HIDE DEF t
  <2>7. AreLegs(a) /\ ToSet(a) = R
    BY <2>2, <2>5, <2>6, AppendedLegs
  <2>8. longer.legs = a /\ longer.reason = "none"
    BY <2>5
  <2> HIDE DEF a
  <2>9. Covered(a)
    BY <2>7, RowsAreCovered
  <2>10. Replay(a, episode.sign).ok
    BY <2>7, <2>9, ReplayOk, EpisodeParts
  <2>11. ApplyFill(t, f, episode.sign) = longer
    BY <2>6, <2>8, <2>10 DEF ApplyFill
  <2>12. Raised.reason = "raised"
    BY DEF Raised, NewTrade
  <2>13. F[R] = ApplyFill(t, f, episode.sign) /\ F[R] # Raised
    BY <2>4, <2>8, <2>11, <2>12 DEF Loaded, t
  <2>14. IsLoaded(ApplyFill(t, f, episode.sign), S \cup {f})
    BY <2>2, <2>4, <2>13, LoadedStep DEF t
  <2> QED
    BY <2>2, <2>13, <2>14
<1>4. SUBSET Linked \subseteq Good
  <2>1. IsFiniteSet(Linked)
    BY <1>1 DEF AreRows
  <2> HIDE DEF Good
  <2> QED
    BY <1>2, <1>3, <2>1, SubsetInduction
<1> QED
  BY <1>4

LEMMA CompleteLoads ==
    ASSUME TablesInv, Linked = Facts, ~Tied
    PROVE  /\ LoadedLegs # Raised /\ IsLoaded(LoadedLegs, Facts)
           /\ Closed(LoadedLegs)
<1>1. IsEpisode(episode)
  BY LedgerAssumption DEF TablesInv
<1>2. Untied(episode)
  <2>1. \A f \in Facts : f.role \in {"entry", "exit"}
    BY <1>1, EpisodeParts DEF Facts, IsFill
  <2> QED
    BY <2>1 DEF Untied, Tied, Facts
<1>3. AreRows(Linked)
  BY <1>1, EpisodeParts DEF AreRows, Facts
<1>4. PICK F : IsLoad(F, Linked, episode.sign) /\ LoadedLegs = F[Linked]
  BY <1>3, LoadIsFold
<1>5. IsBeginning(Facts, episode)
  BY DEF IsBeginning, Facts
<1>6. LoadedLegs # Raised /\ IsLoaded(LoadedLegs, Facts)
  BY <1>1, <1>2, <1>4, <1>5, BeginningLoads
<1> DEFINE t == LoadedLegs
           e == episode
<1>7. AreLegs(t.legs) /\ ToSet(t.legs) = Facts /\ IsHeld(t, e)
  BY <1>6 DEF IsLoaded, IsHeld
<1>8. Facts = Prefix(e.fills, Len(e.fills)) /\ Len(e.fills) \in Nat \ {0} /\ Facts # {}
  <2>1. AreLegs(e.fills) /\ Len(e.fills) \in Nat \ {0}
    BY <1>1, EpisodeParts, EpisodePrefixes
  <2>2. DOMAIN e.fills = 1..Len(e.fills) /\ 1 \in 1..Len(e.fills)
    BY <2>1, LegsAreFinite
  <2> QED
    BY <2>1, <2>2 DEF Facts, ToSet, Prefix
<1>9. OpenBy(e, Facts) = 0
  BY <1>1, <1>8, EpisodePrefixes
<1>10. SumOn(SignedBy(t.legs), DOMAIN t.legs) = OpenBy(e, {t.legs[i] : i \in DOMAIN t.legs})
  <2>1. ToSet(t.legs) \subseteq ToSet(e.fills)
    BY <1>7 DEF Facts
  <2> HIDE DEF t
  <2> QED
    BY <1>7, <2>1, QtyByLegs DEF OpenBy
<1>11. t.legs # <<>> /\ {t.legs[i] : i \in DOMAIN t.legs} = Facts
  <2>1. ToSet(<<>>) = {}
    BY DEF ToSet
  <2> QED
    BY <1>7, <1>8, <2>1 DEF ToSet
<1>12. Status(t, e.sign) = "closed"
  <2> HIDE DEF t
  <2> QED
    BY <1>1, <1>7, <1>9, <1>10, <1>11, BalancedIsClosed
<1> QED
  BY <1>6, <1>12 DEF Closed

(* When every fill of the position is linked, a restart finds the closed    *)
(* trade with its true profit, whatever was stored late, twice or out of    *)
(* order and whenever the exit reason was set (TradeRepository.load).       *)
THEOREM CompletePositionsAreRecovered == Spec => []CompleteIsRecovered
<1>1. LedgerInv => CompleteIsRecovered
  <2> SUFFICES ASSUME LedgerInv, Linked = Facts, ~Tied
               PROVE  /\ Load # Raised
                      /\ Closed(Load)
                      /\ RatioEq(Net(Load, episode.sign),
                                 Ratio(Cash(Facts, funding_events), 1))
    BY DEF CompleteIsRecovered
  <2>1. TablesInv /\ IsEpisode(episode)
    BY LedgerAssumption DEF LedgerInv, TablesInv
  <2>2. LoadedLegs # Raised /\ Closed(LoadedLegs)
    BY <2>1, CompleteLoads
  <2>3. /\ IsHeld(Load, episode) /\ Load.reason = exit_reason
        /\ Load.legs = LoadedLegs.legs
        /\ ToSet(Load.legs) = Linked /\ ToSet(Load.funding) = funding_events
    BY <2>1, <2>2, LoadIs
  <2>4. Load # Raised
    <3>1. Raised.reason = "raised"
      BY DEF Raised, NewTrade
    <3>2. exit_reason # "raised"
      BY <2>1, LedgerAssumption DEF TablesInv
    <3> QED
      BY <2>3, <3>1, <3>2
  <2>5. Status(Load, episode.sign) = "closed"
    BY <2>2, <2>3 DEF Closed, Status
  <2>6. RatioEq(Net(Load, episode.sign), Ratio(Cash(ToSet(Load.legs), ToSet(Load.funding)), 1))
    BY <2>1, <2>3, <2>5, ClosedNet
  <2> QED
    BY <2>3, <2>4, <2>5, <2>6 DEF Closed
<1> QED
  BY <1>1, LedgerInvariant, PTL
=============================================================================
