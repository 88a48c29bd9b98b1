---------------------------- MODULE PaymentsProofs ----------------------------
(***************************************************************************)
(* Theorems about Payments, for any amounts and credits, any refunds,      *)
(* chargebacks and webhooks, and any bounds: the status of a payment says   *)
(* what became of its money, nothing is granted once its return is queued,  *)
(* credits set aside for a refund are used or given back when its request   *)
(* ends, one refund at a time is alive at the provider, the credits taken   *)
(* back are the share of the money that is away, and the ledger holds what  *)
(* is left, but for the two histories where the code does not keep it.      *)
(* They assume what the code leaves open, that a bank does not dispute a    *)
(* charge while its verification is still under way (~Slow).                *)
(***************************************************************************)
EXTENDS Payments, FiniteSetTheorems, WellFoundedInduction, TLAPS

-----------------------------------------------------------------------------
(* Sums over finite sets.  The library's induction takes an operator, which *)
(* no prover here can instantiate; a least counterexample does as well.      *)

\* Among some subsets of a finite set one has no other inside it.
LEMMA LeastSubset ==
  ASSUME NEW S, IsFiniteSet(S), NEW Bad \in SUBSET (SUBSET S), Bad # {}
  PROVE  \E T \in Bad : \A U \in Bad : ~(U \subseteq T /\ U # T)
<1>1. IsWellFoundedOn(StrictSubsetOrdering(S), FiniteSubsetsOf(S))
  BY FS_StrictSubsetOrderingWellFounded
<1>2. Bad \subseteq FiniteSubsetsOf(S)
  BY FS_Subset DEF FiniteSubsetsOf
<1>3. PICK T \in Bad : \A U \in Bad : ~(<<U, T>> \in StrictSubsetOrdering(S))
  <2> HIDE DEF StrictSubsetOrdering, FiniteSubsetsOf
  <2> QED
    BY <1>1, <1>2, WFMin
<1>4. \A U \in Bad : U \subseteq T /\ U # T => <<U, T>> \in StrictSubsetOrdering(S)
  <2> TAKE U \in Bad
  <2> HAVE U \subseteq T /\ U # T
  <2> DEFINE p == <<U, T>>
  <2>1. p \in (SUBSET S) \X (SUBSET S) /\ p[1] = U /\ p[2] = T
    OBVIOUS
  <2> HIDE DEF p
  <2>2. p \in StrictSubsetOrdering(S)
    BY <2>1 DEF StrictSubsetOrdering
  <2> QED
    BY <2>2 DEF p
<1>5. \A U \in Bad : ~(U \subseteq T /\ U # T)
  BY <1>3, <1>4
<1> QED
  BY <1>5, Zenon

Pick(s) == CHOOSE x \in s : TRUE

\* The recursion that MapThenSumSet chooses a solution of.
Solves(m, S, g) ==
  g = [s \in SUBSET S |-> IF s = {} THEN 0 ELSE m[Pick(s)] + g[s \ {Pick(s)}]]

Total(m, S) == (CHOOSE g : Solves(m, S, g))[S]

LEMMA PickIsIn ==
  ASSUME NEW s, s # {}
  PROVE  Pick(s) \in s /\ s \ {Pick(s)} \subseteq s /\ s \ {Pick(s)} # s
BY DEF Pick

LEMMA SolvesAt ==
  ASSUME NEW m, NEW S, NEW g, Solves(m, S, g), NEW s \in SUBSET S
  PROVE  g[s] = IF s = {} THEN 0 ELSE m[Pick(s)] + g[s \ {Pick(s)}]
<1> DEFINE f(t) == IF t = {} THEN 0 ELSE m[Pick(t)] + g[t \ {Pick(t)}]
<1>1. g = [t \in SUBSET S |-> f(t)]
  BY DEF Solves
<1>2. g[s] = f(s)
  <2> HIDE DEF f
  <2> QED
    BY <1>1
<1> QED
  BY <1>2

\* What two solutions say of a set they both reach, where the summands are the same.
LEMMA SolutionsAgree ==
  ASSUME NEW S, IsFiniteSet(S), NEW m, NEW n, \A x \in S : m[x] = n[x],
         NEW A, S \subseteq A, NEW g, Solves(m, A, g),
         NEW B, S \subseteq B, NEW h, Solves(n, B, h)
  PROVE  g[S] = h[S]
<1> DEFINE Bad == {s \in SUBSET S : g[s] # h[s]}
<1>1. SUFFICES ASSUME Bad # {} PROVE FALSE
  BY <1>1
<1>2. Bad \in SUBSET (SUBSET S)
  OBVIOUS
<1>3. PICK T \in Bad : \A U \in Bad : ~(U \subseteq T /\ U # T)
  <2> HIDE DEF Bad
  <2> QED
    BY <1>1, <1>2, LeastSubset
<1>4. T \in SUBSET S /\ g[T] # h[T] /\ T \in SUBSET A /\ T \in SUBSET B
  OBVIOUS
<1>5. /\ g[T] = IF T = {} THEN 0 ELSE m[Pick(T)] + g[T \ {Pick(T)}]
      /\ h[T] = IF T = {} THEN 0 ELSE n[Pick(T)] + h[T \ {Pick(T)}]
  <2>1. g[T] = IF T = {} THEN 0 ELSE m[Pick(T)] + g[T \ {Pick(T)}]
    BY <1>4, SolvesAt
  <2>2. h[T] = IF T = {} THEN 0 ELSE n[Pick(T)] + h[T \ {Pick(T)}]
    BY <1>4, SolvesAt
  <2> QED
    BY <2>1, <2>2
<1>6. T # {}
  BY <1>4, <1>5
<1>7. Pick(T) \in T /\ T \ {Pick(T)} \subseteq T /\ T \ {Pick(T)} # T
  BY <1>6, PickIsIn
<1>8. T \ {Pick(T)} \notin Bad
  BY <1>3, <1>7
<1>9. g[T \ {Pick(T)}] = h[T \ {Pick(T)}]
  BY <1>4, <1>8
<1>10. m[Pick(T)] = n[Pick(T)]
  BY <1>4, <1>7
<1> HIDE DEF Bad
<1> QED
  BY <1>4, <1>5, <1>6, <1>9, <1>10

LEMMA SolutionExists ==
  ASSUME NEW S, IsFiniteSet(S), NEW m
  PROVE  \E g : Solves(m, S, g)
<1> DEFINE Bad == {s \in SUBSET S : ~\E g : Solves(m, s, g)}
<1>1. SUFFICES ASSUME Bad # {} PROVE FALSE
  BY <1>1
<1>2. Bad \in SUBSET (SUBSET S)
  OBVIOUS
<1>3. PICK T \in Bad : \A U \in Bad : ~(U \subseteq T /\ U # T)
  <2> HIDE DEF Bad
  <2> QED
    BY <1>1, <1>2, LeastSubset
<1>4. T \in SUBSET S /\ ~\E g : Solves(m, T, g)
  OBVIOUS
<1>5. \A U \in SUBSET T : U # T => \E g : Solves(m, U, g)
  BY <1>3, <1>4
<1>6. \A U \in SUBSET T : IsFiniteSet(U)
  BY <1>4, FS_Subset
<1> HIDE DEF Bad
<1> DEFINE sol(U) == CHOOSE g : Solves(m, U, g)
           less(U) == U \ {Pick(U)}
           val == [U \in SUBSET T |-> IF U = T THEN (IF T = {} THEN 0 ELSE m[Pick(T)] + sol(less(T))[less(T)])
                                      ELSE sol(U)[U]]
           f(U) == IF U = {} THEN 0 ELSE m[Pick(U)] + val[less(U)]
<1>7. \A U \in SUBSET T : U # T => Solves(m, U, sol(U))
  BY <1>5
<1>8. \A U \in SUBSET T : U # {} => less(U) \in SUBSET T /\ less(U) # T /\ less(U) \subseteq U
  BY PickIsIn
<1>9. \A U \in SUBSET T : U # {} => val[less(U)] = sol(less(U))[less(U)]
  <2> HIDE DEF sol, less
  <2> QED
    BY <1>8
<1>10. \A U \in SUBSET T : U # T => val[U] = f(U)
  <2> TAKE U \in SUBSET T
  <2> HAVE U # T
  <2>1. val[U] = sol(U)[U]
    <3> HIDE DEF sol, less
    <3> QED
      OBVIOUS
  <2>2. Solves(m, U, sol(U))
    BY <1>7
  <2>3. sol(U)[U] = IF U = {} THEN 0 ELSE m[Pick(U)] + sol(U)[less(U)]
    <3> HIDE DEF sol
    <3> QED
      BY <2>2, SolvesAt
  <2>4. CASE U = {}
    <3> HIDE DEF sol, val, less
    <3> QED
      BY <2>1, <2>3, <2>4
  <2>5. CASE U # {}
    <3>1. Solves(m, less(U), sol(less(U))) /\ IsFiniteSet(less(U)) /\ less(U) \subseteq U
      BY <1>6, <1>7, <1>8, <2>5
    <3>2. sol(U)[less(U)] = sol(less(U))[less(U)]
      <4> HIDE DEF sol, less
      <4> QED
        BY <2>2, <3>1, SolutionsAgree
    <3> HIDE DEF sol, val, less
    <3> QED
      BY <1>9, <2>1, <2>3, <2>5, <3>2
  <2> QED
    BY <2>4, <2>5
<1>11. val[T] = f(T)
  <2>1. val[T] = IF T = {} THEN 0 ELSE m[Pick(T)] + sol(less(T))[less(T)]
    <3> HIDE DEF sol, less
    <3> QED
      OBVIOUS
  <2> HIDE DEF sol, less, val
  <2> QED
    BY <1>9, <2>1
<1>12. val = [U \in SUBSET T |-> val[U]]
  <2> HIDE DEF sol, less
  <2> QED
    OBVIOUS
<1>13. val = [U \in SUBSET T |-> f(U)]
  <2> HIDE DEF f, val
  <2> QED
    BY <1>10, <1>11, <1>12
<1>14. Solves(m, T, val)
  <2> HIDE DEF val
  <2> QED
    BY <1>13 DEF Solves
<1> QED
  BY <1>4, <1>14

LEMMA TotalSolves ==
  ASSUME NEW S, IsFiniteSet(S), NEW m
  PROVE  Solves(m, S, CHOOSE g : Solves(m, S, g))
BY SolutionExists

\* Nothing sums up to nothing.
LEMMA TotalNone ==
  ASSUME NEW m
  PROVE  Total(m, {}) = 0
<1> DEFINE g == CHOOSE g : Solves(m, {}, g)
<1>1. Solves(m, {}, g)
  BY FS_EmptySet, TotalSolves
<1>2. g[{}] = 0
  <2> HIDE DEF g
  <2> QED
    BY <1>1, SolvesAt
<1> QED
  BY <1>2 DEF Total

\* The sum depends on what is summed.
LEMMA TotalSame ==
  ASSUME NEW S, IsFiniteSet(S), NEW m, NEW n, \A x \in S : m[x] = n[x]
  PROVE  Total(m, S) = Total(n, S)
<1> DEFINE g == CHOOSE g : Solves(m, S, g)
           h == CHOOSE h : Solves(n, S, h)
<1>1. Solves(m, S, g) /\ Solves(n, S, h)
  BY TotalSolves
<1>2. g[S] = h[S]
  <2> HIDE DEF g, h
  <2> QED
    BY <1>1, SolutionsAgree
<1> QED
  BY <1>2 DEF Total

\* One element at a time: the one that the recursion picks ...
LEMMA TotalPick ==
  ASSUME NEW S, IsFiniteSet(S), S # {}, NEW m
  PROVE  Total(m, S) = m[Pick(S)] + Total(m, S \ {Pick(S)})
<1> DEFINE R == S \ {Pick(S)}
           g == CHOOSE g : Solves(m, S, g)
           h == CHOOSE h : Solves(m, R, h)
<1>1. IsFiniteSet(R) /\ R \subseteq S
  BY FS_Subset
<1> HIDE DEF R
<1>2. Solves(m, S, g) /\ Solves(m, R, h)
  BY <1>1, TotalSolves
<1>3. g[R] = h[R]
  <2> HIDE DEF g, h
  <2> QED
    BY <1>1, <1>2, SolutionsAgree
<1>4. g[S] = m[Pick(S)] + g[R]
  <2> HIDE DEF g
  <2> QED
    BY <1>2, SolvesAt DEF R
<1> QED
  BY <1>3, <1>4 DEF Total, R

\* ... a sum of integers is one ...
LEMMA TotalInt ==
  ASSUME NEW S, IsFiniteSet(S), NEW m, \A x \in S : m[x] \in Int
  PROVE  Total(m, S) \in Int
<1> DEFINE Bad == {s \in SUBSET S : Total(m, s) \notin Int}
<1>1. SUFFICES ASSUME Bad # {} PROVE FALSE
  BY <1>1
<1>2. Bad \in SUBSET (SUBSET S)
  OBVIOUS
<1>3. PICK T \in Bad : \A U \in Bad : ~(U \subseteq T /\ U # T)
  <2> HIDE DEF Bad
  <2> QED
    BY <1>1, <1>2, LeastSubset
<1>4. T \in SUBSET S /\ Total(m, T) \notin Int /\ IsFiniteSet(T)
  BY FS_Subset
<1>5. T # {}
  BY <1>4, TotalNone
<1>6. Pick(T) \in T /\ T \ {Pick(T)} \subseteq T /\ T \ {Pick(T)} # T
  BY <1>5, PickIsIn
<1>7. T \ {Pick(T)} \notin Bad
  BY <1>3, <1>6
<1>8. Total(m, T \ {Pick(T)}) \in Int
  BY <1>4, <1>7
<1>9. Total(m, T) = m[Pick(T)] + Total(m, T \ {Pick(T)})
  BY <1>4, <1>5, TotalPick
<1> HIDE DEF Bad
<1> QED
  BY <1>4, <1>6, <1>8, <1>9

LEMMA Regroup ==
  ASSUME NEW a \in Int, NEW b \in Int, NEW c \in Int
  PROVE  a + (b + c) = b + (a + c)
OBVIOUS

\* ... and then any one.
LEMMA TotalSplit ==
  ASSUME NEW S, IsFiniteSet(S), NEW m, \A x \in S : m[x] \in Int, NEW x \in S
  PROVE  Total(m, S) = m[x] + Total(m, S \ {x})
<1> DEFINE Bad == {s \in SUBSET S : \E y \in s : Total(m, s) # m[y] + Total(m, s \ {y})}
<1>1. SUFFICES ASSUME Bad # {} PROVE FALSE
  BY <1>1
<1>2. Bad \in SUBSET (SUBSET S)
  OBVIOUS
<1>3. PICK T \in Bad : \A U \in Bad : ~(U \subseteq T /\ U # T)
  <2> HIDE DEF Bad
  <2> QED
    BY <1>1, <1>2, LeastSubset
<1>4. PICK y \in T : Total(m, T) # m[y] + Total(m, T \ {y})
  OBVIOUS
<1>5. T \in SUBSET S /\ \A s \in SUBSET T : IsFiniteSet(s) /\ Total(m, s) \in Int
  <2>1. T \in SUBSET S
    OBVIOUS
  <2>2. \A s \in SUBSET T : IsFiniteSet(s)
    BY <2>1, FS_Subset
  <2> QED
    BY <2>1, <2>2, TotalInt
<1> DEFINE z == Pick(T)
<1>6. z \in T
  BY PickIsIn
<1>7. Total(m, T) = m[z] + Total(m, T \ {z})
  BY <1>5, TotalPick
<1> HIDE DEF z
<1>8. y # z
  BY <1>4, <1>7
<1>9. \A u \in T : T \ {u} \notin Bad
  BY <1>3
<1>10. \A u \in T : \A v \in T \ {u} : Total(m, T \ {u}) = m[v] + Total(m, (T \ {u}) \ {v})
  BY <1>5, <1>9
<1>11. Total(m, T \ {z}) = m[y] + Total(m, (T \ {z}) \ {y})
  BY <1>6, <1>8, <1>10
<1>12. Total(m, T \ {y}) = m[z] + Total(m, (T \ {y}) \ {z})
  BY <1>6, <1>8, <1>10
<1>13. (T \ {y}) \ {z} = (T \ {z}) \ {y} /\ (T \ {z}) \ {y} \in SUBSET T
  OBVIOUS
<1>14. m[y] \in Int /\ m[z] \in Int /\ Total(m, (T \ {z}) \ {y}) \in Int
  BY <1>5, <1>6, <1>13
<1>15. m[z] + (m[y] + Total(m, (T \ {z}) \ {y})) = m[y] + (m[z] + Total(m, (T \ {z}) \ {y}))
  BY <1>14, Regroup
<1> HIDE DEF Bad
<1> QED
  BY <1>4, <1>7, <1>11, <1>12, <1>13, <1>15, Zenon

-----------------------------------------------------------------------------
(* The money that is away.                                                 *)

OverRefs == {r \in Refs : Over(adjustments[r].status)}
Monies   == [r \in Refs |-> adjustments[r].money]
Takings  == [r \in Refs |-> adjustments[r].credit]

\* MapThenSumSet over rows is the sum that Total is.
LEMMA MoneyIs ==
  ASSUME NEW S \in SUBSET Refs
  PROVE  MapThenSumSet(LAMBDA r : adjustments[r].money, S) = Total(Monies, S)
<1> DEFINE f(s, g) == IF s = {} THEN 0
                      ELSE adjustments[CHOOSE x \in s : TRUE].money + g[s \ {CHOOSE x \in s : TRUE}]
           k(s, g) == IF s = {} THEN 0 ELSE Monies[Pick(s)] + g[s \ {Pick(s)}]
           iter == CHOOSE g : g = [s \in SUBSET S |-> f(s, g)]
           h == CHOOSE g : Solves(Monies, S, g)
<1>1. MapThenSumSet(LAMBDA r : adjustments[r].money, S) = iter[S]
  BY DEF MapThenSumSet, MapThenFoldSet
<1>2. \A g : \A s \in SUBSET S : f(s, g) = k(s, g)
  <2> TAKE g
  <2> TAKE s \in SUBSET S
  <2>1. CASE s = {}
    BY <2>1
  <2>2. CASE s # {}
    <3>1. Pick(s) \in Refs
      BY <2>2, PickIsIn
    <3>2. Monies[Pick(s)] = adjustments[Pick(s)].money
      BY <3>1 DEF Monies
    <3> QED
      BY <3>2 DEF Pick
  <2> QED
    BY <2>1, <2>2
<1>3. IsFiniteSet(S)
  BY PaymentsAssumption, FS_Subset
<1>4. Solves(Monies, S, h)
  BY <1>3, TotalSolves
<1>5. h = [s \in SUBSET S |-> f(s, h)]
  <2>1. h = [s \in SUBSET S |-> k(s, h)]
    <3> HIDE DEF h
    <3> QED
      BY <1>4 DEF Solves
  <2> HIDE DEF h, f, k
  <2> QED
    BY <1>2, <2>1
<1>6. iter = [s \in SUBSET S |-> f(s, iter)]
  <2> HIDE DEF h, f
  <2> QED
    BY <1>5
<1>7. Solves(Monies, S, iter)
  <2>1. iter = [s \in SUBSET S |-> k(s, iter)]
    <3> HIDE DEF iter, f, k
    <3> QED
      BY <1>2, <1>6
  <2> HIDE DEF iter
  <2> QED
    BY <2>1 DEF Solves
<1>8. iter[S] = h[S]
  <2> HIDE DEF iter, h
  <2> QED
    BY <1>3, <1>4, <1>7, SolutionsAgree
<1> QED
  BY <1>1, <1>8 DEF Total

LEMMA NetIs == Net = Total(Monies, OverRefs)
<1>1. OverRefs \in SUBSET Refs
  BY DEF OverRefs
<1>2. MapThenSumSet(LAMBDA r : adjustments[r].money, OverRefs) = Total(Monies, OverRefs)
  BY <1>1, MoneyIs
<1> QED
  BY <1>2 DEF Net, OverRefs

LEMMA NetIsNext == (Net = Total(Monies, OverRefs))'
BY NetIs, PTL

\* The bound of Total is what its arguments are after the step.
LEMMA NetAfterwards == Net' = Total(Monies', OverRefs')
BY NetIsNext

LEMMA OthersAre == ASSUME NEW x \in Refs PROVE Others(x) = OverRefs \ {x}
BY DEF Others, OverRefs

RowsTyped == adjustments \in [Refs -> Adjustment]

LEMMA RefsFinite == IsFiniteSet(Refs) /\ \A S \in SUBSET Refs : IsFiniteSet(S)
BY PaymentsAssumption, FS_Subset

LEMMA MoneysAreInts ==
  ASSUME RowsTyped
  PROVE  \A S \in SUBSET Refs : Total(Monies, S) \in Int /\ \A r \in S : Monies[r] \in Int
<1>1. \A r \in Refs : Monies[r] \in Int
  BY DEF RowsTyped, Adjustment, Monies
<1> QED
  BY <1>1, RefsFinite, TotalInt

\* Steps that confirm nothing leave the money alone.
LEMMA NetStays ==
  ASSUME RowsTyped, RowsTyped',
         \A r \in Refs : /\ Over(adjustments[r].status) <=> Over(adjustments'[r].status)
                         /\ Over(adjustments[r].status) => adjustments'[r].money = adjustments[r].money
  PROVE  Net' = Net
<1>1. OverRefs' = OverRefs /\ OverRefs \in SUBSET Refs
  BY DEF OverRefs
<1>2. \A r \in OverRefs : Monies'[r] = Monies[r]
  BY DEF OverRefs, Monies
<1>3. Total(Monies', OverRefs) = Total(Monies, OverRefs)
  BY <1>1, <1>2, RefsFinite, TotalSame
<1> QED
  BY <1>1, <1>3, NetIs, NetAfterwards

\* The money of one row beside the others.
LEMMA NetNow ==
  ASSUME RowsTyped, NEW x \in Refs
  PROVE  /\ Total(Monies, Others(x)) \in Int
         /\ Net = (IF Over(adjustments[x].status) THEN adjustments[x].money ELSE 0) + Total(Monies, Others(x))
<1>1. Others(x) \in SUBSET Refs /\ Others(x) = OverRefs \ {x} /\ OverRefs \in SUBSET Refs
  BY OthersAre DEF OverRefs
<1>2. Total(Monies, Others(x)) \in Int
  BY <1>1, MoneysAreInts
<1>3. CASE Over(adjustments[x].status)
  <2>1. x \in OverRefs /\ Monies[x] = adjustments[x].money
    BY <1>3 DEF OverRefs, Monies
  <2>2. Total(Monies, OverRefs) = Monies[x] + Total(Monies, OverRefs \ {x})
    BY <1>1, <2>1, RefsFinite, MoneysAreInts, TotalSplit
  <2>3. Net = adjustments[x].money + Total(Monies, Others(x))
    BY <1>1, <2>1, <2>2, NetIs
  <2> QED
    BY <1>2, <1>3, <2>3
<1>4. CASE ~Over(adjustments[x].status)
  <2>1. OverRefs \ {x} = OverRefs
    BY <1>4 DEF OverRefs
  <2>2. Net = Total(Monies, Others(x))
    BY <1>1, <2>1, NetIs
  <2> QED
    BY <1>2, <1>4, <2>2
<1> QED
  BY <1>2, <1>3, <1>4

LEMMA NetMoves ==
  ASSUME RowsTyped, NEW x \in Refs, NEW row \in Adjustment, Over(row.status),
         adjustments' = [adjustments EXCEPT ![x] = row]
  PROVE  Net' = row.money + Total(Monies, Others(x))
<1>1. RowsTyped'
  BY DEF RowsTyped
<1>2. OverRefs' = Others(x) \cup {x} /\ x \notin Others(x) /\ Others(x) \in SUBSET Refs
  BY DEF OverRefs, Others, RowsTyped
<1>3. \A r \in OverRefs' : Monies'[r] \in Int
  <2>1. \A r \in Refs : adjustments'[r] \in Adjustment
    BY <1>1 DEF RowsTyped
  <2> QED
    BY <1>2, <2>1 DEF Monies, Adjustment
<1>4. \A r \in Others(x) : Monies'[r] = Monies[r]
  BY <1>2 DEF Monies, RowsTyped
<1>5. Total(Monies', Others(x)) = Total(Monies, Others(x))
  BY <1>2, <1>4, RefsFinite, TotalSame
<1>6. OverRefs' \ {x} = Others(x) /\ IsFiniteSet(OverRefs') /\ x \in OverRefs'
  BY <1>2, RefsFinite
<1>7. Total(Monies', OverRefs') = Monies'[x] + Total(Monies', OverRefs' \ {x})
  BY <1>3, <1>6, TotalSplit
<1>8. Monies'[x] = row.money
  BY DEF Monies, RowsTyped
<1> QED
  BY <1>5, <1>6, <1>7, <1>8, NetAfterwards

LEMMA NetAfterIs ==
  ASSUME NEW h, h.ref \in Refs
  PROVE  NetAfter(h) = TargetMoney(h) + Total(Monies, Others(h.ref))
<1>1. Others(h.ref) \in SUBSET Refs
  BY DEF Others
<1>2. MapThenSumSet(LAMBDA q : adjustments[q].money, Others(h.ref)) = Total(Monies, Others(h.ref))
  BY <1>1, MoneyIs
<1> QED
  BY <1>2 DEF NetAfter

LEMMA NetOfNone ==
  ASSUME \A r \in Refs : ~Over(adjustments[r].status)
  PROVE  Net = 0
<1>1. OverRefs = {}
  BY DEF OverRefs
<1> QED
  BY <1>1, NetIs, TotalNone

\* The same for the ledger.
Deltas(E) == [e \in E |-> e.delta]

LEMMA SumIs ==
  ASSUME NEW E, IsFiniteSet(E)
  PROVE  Sum(E) = Total(Deltas(E), E)
<1> DEFINE f(s, g) == IF s = {} THEN 0
                      ELSE (CHOOSE x \in s : TRUE).delta + g[s \ {CHOOSE x \in s : TRUE}]
           k(s, g) == IF s = {} THEN 0 ELSE Deltas(E)[Pick(s)] + g[s \ {Pick(s)}]
           iter == CHOOSE g : g = [s \in SUBSET E |-> f(s, g)]
           h == CHOOSE g : Solves(Deltas(E), E, g)
<1>1. Sum(E) = iter[E]
  BY DEF Sum, MapThenSumSet, MapThenFoldSet
<1>2. \A g : \A s \in SUBSET E : f(s, g) = k(s, g)
  <2> TAKE g
  <2> TAKE s \in SUBSET E
  <2>1. CASE s = {}
    BY <2>1
  <2>2. CASE s # {}
    <3>1. Pick(s) \in E
      BY <2>2, PickIsIn
    <3>2. Deltas(E)[Pick(s)] = Pick(s).delta
      BY <3>1 DEF Deltas
    <3> QED
      BY <3>2 DEF Pick
  <2> QED
    BY <2>1, <2>2
<1>3. Solves(Deltas(E), E, h)
  BY TotalSolves
<1>4. h = [s \in SUBSET E |-> f(s, h)]
  <2>1. h = [s \in SUBSET E |-> k(s, h)]
    <3> HIDE DEF h
    <3> QED
      BY <1>3 DEF Solves
  <2> HIDE DEF h, f, k
  <2> QED
    BY <1>2, <2>1
<1>5. iter = [s \in SUBSET E |-> f(s, iter)]
  <2> HIDE DEF h, f
  <2> QED
    BY <1>4
<1>6. Solves(Deltas(E), E, iter)
  <2>1. iter = [s \in SUBSET E |-> k(s, iter)]
    <3> HIDE DEF iter, f, k
    <3> QED
      BY <1>2, <1>5
  <2> HIDE DEF iter
  <2> QED
    BY <2>1 DEF Solves
<1>7. iter[E] = h[E]
  <2> HIDE DEF iter, h
  <2> QED
    BY <1>3, <1>6, SolutionsAgree
<1> QED
  BY <1>1, <1>7 DEF Total

LEMMA SumInt ==
  ASSUME NEW E, IsFiniteSet(E), \A e \in E : e.delta \in Int
  PROVE  Sum(E) \in Int
<1>1. \A e \in E : Deltas(E)[e] \in Int
  BY DEF Deltas
<1>2. Total(Deltas(E), E) \in Int
  BY <1>1, TotalInt
<1> QED
  BY <1>2, SumIs

LEMMA SumNone == Sum({}) = 0
<1>1. Sum({}) = Total(Deltas({}), {})
  BY FS_EmptySet, SumIs
<1> QED
  BY <1>1, TotalNone

LEMMA CreditIs ==
  ASSUME NEW S \in SUBSET Refs
  PROVE  MapThenSumSet(LAMBDA r : adjustments[r].credit, S) = Total(Takings, S)
<1> DEFINE f(s, g) == IF s = {} THEN 0
                      ELSE adjustments[CHOOSE x \in s : TRUE].credit + g[s \ {CHOOSE x \in s : TRUE}]
           k(s, g) == IF s = {} THEN 0 ELSE Takings[Pick(s)] + g[s \ {Pick(s)}]
           iter == CHOOSE g : g = [s \in SUBSET S |-> f(s, g)]
           h == CHOOSE g : Solves(Takings, S, g)
<1>1. MapThenSumSet(LAMBDA r : adjustments[r].credit, S) = iter[S]
  BY DEF MapThenSumSet, MapThenFoldSet
<1>2. \A g : \A s \in SUBSET S : f(s, g) = k(s, g)
  <2> TAKE g
  <2> TAKE s \in SUBSET S
  <2>1. CASE s = {}
    BY <2>1
  <2>2. CASE s # {}
    <3>1. Pick(s) \in Refs
      BY <2>2, PickIsIn
    <3>2. Takings[Pick(s)] = adjustments[Pick(s)].credit
      BY <3>1 DEF Takings
    <3> QED
      BY <3>2 DEF Pick
  <2> QED
    BY <2>1, <2>2
<1>3. IsFiniteSet(S)
  BY RefsFinite
<1>4. Solves(Takings, S, h)
  BY <1>3, TotalSolves
<1>5. h = [s \in SUBSET S |-> f(s, h)]
  <2>1. h = [s \in SUBSET S |-> k(s, h)]
    <3> HIDE DEF h
    <3> QED
      BY <1>4 DEF Solves
  <2> HIDE DEF h, f, k
  <2> QED
    BY <1>2, <2>1
<1>6. iter = [s \in SUBSET S |-> f(s, iter)]
  <2> HIDE DEF h, f
  <2> QED
    BY <1>5
<1>7. Solves(Takings, S, iter)
  <2>1. iter = [s \in SUBSET S |-> k(s, iter)]
    <3> HIDE DEF iter, f, k
    <3> QED
      BY <1>2, <1>6
  <2> HIDE DEF iter
  <2> QED
    BY <2>1 DEF Solves
<1>8. iter[S] = h[S]
  <2> HIDE DEF iter, h
  <2> QED
    BY <1>3, <1>4, <1>7, SolutionsAgree
<1> QED
  BY <1>1, <1>8 DEF Total

LEMMA TakingsAreInts ==
  ASSUME RowsTyped
  PROVE  \A S \in SUBSET Refs : Total(Takings, S) \in Int /\ \A r \in S : Takings[r] \in Int
<1>1. \A r \in Refs : Takings[r] \in Int
  BY DEF RowsTyped, Adjustment, Takings
<1> QED
  BY <1>1, RefsFinite, TotalInt

LEMMA CreditsInt ==
  ASSUME RowsTyped, NEW S \in SUBSET Refs
  PROVE  MapThenSumSet(LAMBDA r : adjustments[r].credit, S) \in Int
BY CreditIs, TakingsAreInts

-----------------------------------------------------------------------------
(* The invariant.                                                          *)

Refund == [state : {"none", "pending", "succeeded", "failed", "reversed"},
           amount : 0 .. Amount, since : Cycles]
Provider == [page : BOOLEAN, charge : Charge, paid : 0 .. Amount, refunds : [Refs -> Refund]]
Entry == [key : {"payment", "month", "reserve", "release", "move", "spend"}
                  \X (Nat \cup Spends) \X (Refs \cup {None}),
          delta : Int]

PaymentsTypeOK ==
  /\ payment \in Payment /\ payment.amount \in 1 .. Amount
  /\ request \in Request
  /\ RowsTyped
  /\ entries \subseteq Entry /\ IsFiniteSet(entries)
  /\ sub \in {"NONE", "ACTIVE", "CANCELLED"}
  /\ provider \in Provider
  /\ hands \in [Hands -> Hand]

Asking == request.status # "NONE"

\* What a row that was never granted may be and own, and what a granted one may be.
Fulfilment ==
  /\ payment.status = "SUCCEEDED" => payment.granted
  /\ payment.granted => payment.status \in Final
  /\ ~payment.granted => \A e \in entries : e.key[1] \notin {"payment", "month", "reserve"}
  /\ ~payment.granted /\ Asking => request.by = "system" /\ payment.status \in {"NEEDS_REVIEW", "REFUNDED"}
  /\ ~payment.granted /\ (payment.auto \/ payment.why = "partial") => Asking

\* An adjustment says what the provider said of it, now or before.
RowOK(a, m) ==
  /\ ~Over(a.status) => a.money = 0
  /\ a.status = "SUCCEEDED" => a.money = -m.amount /\ m.state \in {"succeeded", "reversed"}
  /\ a.status = "REVERSED" => a.money \in {0, m.amount} /\ m.state = "reversed"
  /\ m.state # "none" => m.amount > 0

Rows ==
  \A r \in Refs : /\ RowOK(adjustments[r], provider.refunds[r])
                  /\ adjustments[r].cycle <= request.cycle
                  /\ Over(adjustments[r].status) => payment.granted \/ Asking

\* Our refunds are of the whole charge, and asked for by a request.
Sources ==
  /\ provider.charge = "paid" => provider.paid > 0
  /\ \A r \in Ours : provider.refunds[r].state # "none" =>
                       Asking /\ provider.refunds[r].amount = payment.amount
  /\ request.ref # None => provider.refunds[request.ref].state # "none"

\* What a process at work has read is what the provider said, now or before.
HandOK(h, m, c) ==
  /\ h.pc = "settle" => h.saw \in {"failed", "paid"} /\ (h.saw = "paid" => h.amount > 0)
  /\ h.pc = "verify" => h.ref # None
  /\ h.pc = "apply" => h.saw \in {"pending", "succeeded", "failed", "reversed"}
  /\ h.pc = "apply" /\ h.ref = None => h.saw \in {"pending", "failed"}
  /\ h.pc \in {"verify", "apply"} /\ h.ref # None => m[h.ref].state # "none"
  /\ h.pc = "apply" /\ h.ref # None =>
       /\ h.amount = m[h.ref].amount
       /\ h.saw \in {"failed", "reversed"} => m[h.ref].state = h.saw
       /\ h.saw = "succeeded" => m[h.ref].state \in {"succeeded", "reversed"}
  /\ h.cycle <= c

HandsOK == \A w \in Hands : HandOK(hands[w], provider.refunds, request.cycle)

\* A settlement that is late, once the return of the charge was queued, finds no partial
\* return: what would be one waits for it, and our refunds are whole.
Late ==
  ~payment.granted /\ Asking /\ (\E w \in Hands : hands[w].pc = "settle") =>
    /\ payment.why # "partial"
    /\ \A r \in Disputes : ~Over(adjustments[r].status)

Money ==
  /\ payment.status \in {"PENDING", "OPEN", "FAILED", "SUCCEEDED"} => Net = 0
  /\ payment.status = "REFUNDED" => Net = -payment.amount

\* Who asks, and what the plan of the purchase may be.
Kept ==
  /\ request.status = "NONE" <=> request.cycle = 0
  /\ request.status = "NONE" => request.by = "customer" /\ request.ref = None
  /\ payment.kind = "PACK" => sub = "NONE" /\ (payment.granted => ~payment.auto)
  /\ request.status = "REQUESTED" => payment.kind = "PACK"
  /\ payment.kind = "PLAN" /\ (\E c \in Cycles : Known(Reserve(c)))
       => \E r \in Refs : adjustments[r].status = "REVERSED"

IInv == PaymentsTypeOK /\ Fulfilment /\ Rows /\ Sources /\ HandsOK /\ Late /\ Money /\ Kept

-----------------------------------------------------------------------------
(* Hands, and what a step leaves alone.                                    *)

\* The provider goes on: a refund stays what it is, and its end stays its end.
Forward(m, n) ==
  \A r \in Refs : m[r].state # "none" =>
    /\ n[r].state # "none" /\ n[r].amount = m[r].amount /\ n[r].since = m[r].since
    /\ m[r].state = "succeeded" => n[r].state \in {"succeeded", "reversed"}
    /\ m[r].state \in {"failed", "reversed"} => n[r].state = m[r].state

LEMMA ForwardSame == ASSUME NEW m PROVE Forward(m, m)
BY DEF Forward

LEMMA CyclesAreNaturals == Cycles \subseteq Nat /\ 0 \in Cycles /\ MaxCycles \in Nat
BY PaymentsAssumption DEF Cycles

LEMMA CycleIsNatural ==
  ASSUME NEW q \in Request
  PROVE  q.cycle \in Nat /\ q.cycle \in Cycles /\ q.cycle <= q.cycle
<1> DEFINE n == q.cycle
<1>1. n \in Cycles
  BY DEF Request
<1> HIDE DEF n
<1>2. n \in Nat
  BY <1>1, CyclesAreNaturals
<1>3. n <= n
  BY <1>2
<1> QED
  BY <1>1, <1>2, <1>3 DEF n

LEMMA HandStays ==
  ASSUME NEW h \in Hand, NEW m, NEW n, NEW c \in Cycles, NEW d \in Cycles,
         HandOK(h, m, c), Forward(m, n), c <= d
  PROVE  HandOK(h, n, d)
<1>1. h.ref \in Refs \cup {None} /\ h.cycle \in Nat /\ c \in Nat /\ d \in Nat /\ h.cycle <= d
  BY CyclesAreNaturals DEF Hand, HandOK
<1> QED
  BY <1>1 DEF HandOK, Forward

LEMMA HandMoves ==
  ASSUME PaymentsTypeOK, HandsOK, request' \in Request,
         Forward(provider.refunds, provider'.refunds), request.cycle <= request'.cycle,
         NEW w \in Hands, NEW h \in Hand, HandOK(h, provider'.refunds, request'.cycle),
         hands' = [hands EXCEPT ![w] = h]
  PROVE  HandsOK' /\ hands' \in [Hands -> Hand]
<1>1. request.cycle \in Cycles /\ request'.cycle \in Cycles
  BY DEF PaymentsTypeOK, Request
<1>2. ASSUME NEW v \in Hands PROVE HandOK(hands'[v], provider'.refunds, request'.cycle)
  <2>1. CASE v = w
    BY <2>1 DEF PaymentsTypeOK
  <2>2. CASE v # w
    <3>1. hands'[v] = hands[v] /\ hands[v] \in Hand
      BY <2>2 DEF PaymentsTypeOK
    <3>2. HandOK(hands[v], provider.refunds, request.cycle)
      BY DEF HandsOK
    <3>3. HandOK(hands[v], provider'.refunds, request'.cycle)
      BY <1>1, <3>1, <3>2, HandStays
    <3> QED
      BY <3>1, <3>3
  <2> QED
    BY <2>1, <2>2
<1>3. hands' \in [Hands -> Hand]
  BY DEF PaymentsTypeOK
<1> QED
  BY <1>2, <1>3 DEF HandsOK

LEMMA HandsStay ==
  ASSUME PaymentsTypeOK, HandsOK, request' \in Request,
         Forward(provider.refunds, provider'.refunds), request.cycle <= request'.cycle, hands' = hands
  PROVE  HandsOK' /\ hands' \in [Hands -> Hand]
<1>1. request.cycle \in Cycles /\ request'.cycle \in Cycles
  BY DEF PaymentsTypeOK, Request
<1>2. ASSUME NEW v \in Hands PROVE HandOK(hands[v], provider'.refunds, request'.cycle)
  <2>1. hands[v] \in Hand
    BY DEF PaymentsTypeOK
  <2>2. HandOK(hands[v], provider.refunds, request.cycle)
    BY DEF HandsOK
  <2> QED
    BY <1>1, <2>1, <2>2, HandStays
<1> QED
  BY <1>2 DEF HandsOK, PaymentsTypeOK

LEMMA IdleIsTyped ==
  /\ Idle \in Hand /\ Idle.pc = "idle" /\ Idle.ref = None /\ Idle.cycle = 0 /\ Idle.amount = 0
  /\ \A m : \A c \in Cycles : HandOK(Idle, m, c)
<1>1. Idle \in Hand
  BY PaymentsAssumption, CyclesAreNaturals DEF Idle, Hand, Charge
<1>2. Idle.pc = "idle" /\ Idle.ref = None /\ Idle.cycle = 0 /\ Idle.amount = 0
  BY DEF Idle
<1>3. ASSUME NEW m, NEW c \in Cycles PROVE HandOK(Idle, m, c)
  <2>1. c \in Nat
    BY CyclesAreNaturals
  <2> QED
    BY <1>2, <2>1 DEF HandOK
<1> QED
  BY <1>1, <1>2, <1>3

\* No row of the provider's adjustments is written.
LEMMA RowsStay ==
  ASSUME PaymentsTypeOK, Rows, adjustments' = adjustments, request' \in Request,
         Forward(provider.refunds, provider'.refunds), request.cycle <= request'.cycle,
         payment.granted \/ Asking => payment'.granted \/ Asking',
         \A r \in Refs : provider.refunds[r].state = "none" /\ provider'.refunds[r].state # "none"
                           => provider'.refunds[r].amount > 0
  PROVE  Rows' /\ Net' = Net
<1>1. Net' = Net
  BY NetStays DEF PaymentsTypeOK, RowsTyped
<1>2. request.cycle \in Nat /\ request'.cycle \in Nat /\ \A r \in Refs : adjustments[r].cycle \in Nat
  BY CyclesAreNaturals DEF PaymentsTypeOK, Request, RowsTyped, Adjustment
<1>3. \A r \in Refs : adjustments'[r].cycle <= request'.cycle
  BY <1>2 DEF Rows
<1>4. \A r \in Refs : RowOK(adjustments[r], provider'.refunds[r])
  BY DEF Rows, RowOK, Forward, Over
<1>5. \A r \in Refs : Over(adjustments[r].status) => payment'.granted \/ Asking'
  BY DEF Rows
<1> QED
  BY <1>1, <1>3, <1>4, <1>5 DEF Rows

\* An entry is added under a key that is new, or none is.
LEMMA PostedIs ==
  ASSUME entries \subseteq Entry, IsFiniteSet(entries), NEW d \in Int,
         NEW kind \in {"payment", "month", "reserve", "release", "move", "spend"},
         NEW n \in Nat \cup Spends, NEW r \in Refs \cup {None}
  PROVE  LET key == Key(kind, n, r) IN
         /\ Posted(key, d) \subseteq Entry /\ IsFiniteSet(Posted(key, d)) /\ entries \subseteq Posted(key, d)
         /\ \A e \in Posted(key, d) : e \in entries \/ (e.key = key /\ e.delta = d)
         /\ \E e \in Posted(key, d) : e.key = key
<1> DEFINE e0 == [key |-> Key(kind, n, r), delta |-> d]
<1>1. e0 \in Entry /\ e0.key = Key(kind, n, r) /\ e0.delta = d
  BY DEF Entry, Key
<1>2. IsFiniteSet(entries \cup {e0})
  BY FS_AddElement
<1> HIDE DEF e0
<1>3. CASE Known(Key(kind, n, r))
  BY <1>3 DEF Posted, Known
<1>4. CASE ~Known(Key(kind, n, r))
  <2>1. Posted(Key(kind, n, r), d) = entries \cup {e0}
    BY <1>4 DEF Posted, e0
  <2> HIDE DEF Key
  <2> QED
    BY <1>1, <1>2, <2>1
<1> QED
  BY <1>3, <1>4

\* Steps that write neither the request, nor the adjustments, nor the ledger.
LEMMA BesideRows ==
  ASSUME IInv, PaymentsTypeOK', HandsOK', UNCHANGED <<request, adjustments, entries>>,
         payment'.kind = payment.kind, payment'.amount = payment.amount, payment'.granted = payment.granted,
         \/ payment'.status = payment.status
         \/ payment.status = "PENDING" /\ payment'.status \in {"OPEN", "FAILED"},
         payment'.why \in {payment.why, "other", "abandoned"}, payment'.auto => payment.auto,
         sub' = sub \/ sub = "ACTIVE",
         Forward(provider.refunds, provider'.refunds),
         provider'.charge = "paid" => provider'.paid > 0,
         \A r \in Refs : provider.refunds[r].state = "none" /\ provider'.refunds[r].state # "none"
                           => provider'.refunds[r].amount > 0 /\ r \notin Ours,
         (\E w \in Hands : hands'[w].pc = "settle") /\ ~payment.granted /\ Asking
           => \E w \in Hands : hands[w].pc = "settle"
  PROVE  IInv'
<1>1. Asking' <=> Asking
  BY DEF Asking
<1>2. request.cycle <= request'.cycle
  BY CycleIsNatural DEF IInv, PaymentsTypeOK
<1>3. Rows' /\ Net' = Net
  BY <1>1, <1>2, RowsStay DEF IInv, PaymentsTypeOK
<1>4. Fulfilment'
  BY <1>1 DEF IInv, Fulfilment, Final
<1>5. Sources'
  BY <1>1, PaymentsAssumption DEF IInv, Sources, Forward, PaymentsTypeOK, Request, Refs
<1>6. Late'
  BY <1>1 DEF IInv, Late, Over
<1>7. Money'
  BY <1>3 DEF IInv, Money
<1>8. Kept'
  BY DEF IInv, Kept, Known
<1> QED
  BY <1>3, <1>4, <1>5, <1>6, <1>7, <1>8 DEF IInv

\* Steps that write the request, and no adjustment.
LEMMA RequestMoves ==
  ASSUME IInv, PaymentsTypeOK', HandsOK', UNCHANGED <<adjustments, sub>>,
         \/ payment' = payment
         \/ payment' = [payment EXCEPT !.status = "NEEDS_REVIEW", !.why = "exhausted"],
         request.cycle <= request'.cycle, request'.status # "NONE", request'.cycle # 0,
         ~payment.granted => Asking /\ request'.by = request.by,
         request'.status = "REQUESTED" => payment.kind = "PACK",
         request'.ref # None => provider'.refunds[request'.ref].state # "none",
         entries' = entries \/ (payment.granted /\ payment.kind = "PACK"),
         Forward(provider.refunds, provider'.refunds),
         provider'.charge = provider.charge, provider'.paid = provider.paid,
         \A r \in Refs : provider.refunds[r].state = "none" /\ provider'.refunds[r].state # "none"
                           => provider'.refunds[r].amount = payment.amount,
         \A w \in Hands : hands'[w].pc = "settle" => hands[w].pc = "settle"
  PROVE  IInv'
<1>1. Asking'
  BY DEF Asking
<1>2. /\ payment'.kind = payment.kind /\ payment'.amount = payment.amount /\ payment'.granted = payment.granted
      /\ payment'.auto = payment.auto
      /\ \/ payment'.status = payment.status /\ payment'.why = payment.why
         \/ payment'.status = "NEEDS_REVIEW" /\ payment'.why = "exhausted"
  <2>1. payment \in Payment
    BY DEF IInv, PaymentsTypeOK
  <2>2. CASE payment' = payment
    BY <2>2
  <2>3. CASE payment' = [payment EXCEPT !.status = "NEEDS_REVIEW", !.why = "exhausted"]
    BY <2>1, <2>3 DEF Payment
  <2> QED
    BY <2>2, <2>3
<1>0. payment.amount > 0
  BY PaymentsAssumption DEF IInv, PaymentsTypeOK
<1>3. Rows' /\ Net' = Net
  BY <1>0, <1>1, <1>2, RowsStay DEF IInv, PaymentsTypeOK
<1>4. Fulfilment'
  BY <1>1, <1>2 DEF IInv, Fulfilment, Final
<1>5. Sources'
  BY <1>1, <1>2, PaymentsAssumption DEF IInv, Sources, Forward, PaymentsTypeOK, Request, Refs
<1>6. Late'
  BY <1>1, <1>2 DEF IInv, Late, Over
<1>7. Money'
  BY <1>2, <1>3 DEF IInv, Money
<1>8. Kept'
  BY <1>2 DEF IInv, Kept, Known
<1> QED
  BY <1>3, <1>4, <1>5, <1>6, <1>7, <1>8 DEF IInv

\* Debits and grants.
LEMMA EntryAdded ==
  ASSUME IInv, UNCHANGED <<payment, request, adjustments, sub, provider, hands>>,
         NEW kind \in {"payment", "month", "spend"}, NEW n \in Nat \cup Spends, NEW d \in Int,
         entries' = Posted(Key(kind, n, None), d), kind # "spend" => payment.granted
  PROVE  IInv'
<1>1. /\ entries' \subseteq Entry /\ IsFiniteSet(entries')
      /\ \A e \in entries' : e \in entries \/ e.key = Key(kind, n, None)
  BY PostedIs DEF IInv, PaymentsTypeOK
<1>2. PaymentsTypeOK'
  BY <1>1 DEF IInv, PaymentsTypeOK, RowsTyped
<1>3. Asking' <=> Asking
  BY DEF Asking
<1>4. Rows' /\ Net' = Net
  <2>1. request' \in Request /\ request.cycle <= request'.cycle
    BY CycleIsNatural DEF IInv, PaymentsTypeOK
  <2>2. Forward(provider.refunds, provider'.refunds)
    BY ForwardSame
  <2> QED
    BY <1>2, <1>3, <2>1, <2>2, RowsStay DEF IInv
<1>5. \A e \in entries' : e \in entries \/ (e.key[1] = kind /\ \A c : e.key # Reserve(c))
  BY <1>1 DEF Key, Reserve
<1>6. Fulfilment'
  BY <1>3, <1>5 DEF IInv, Fulfilment
<1>7. Kept'
  BY <1>5 DEF IInv, Kept, Known
<1>8. Sources' /\ HandsOK' /\ Late'
  BY <1>3 DEF IInv, Sources, HandsOK, Late, Over
<1>9. Money'
  BY <1>4 DEF IInv, Money
<1> QED
  BY <1>2, <1>4, <1>6, <1>7, <1>8, <1>9 DEF IInv

LEMMA SpendStep ==
  ASSUME IInv, NEW n \in Spends, Spend(n) PROVE IInv'
<1>1. -1 \in Int /\ n \in Nat \cup Spends
  OBVIOUS
<1> QED
  BY <1>1, EntryAdded DEF Spend

LEMMA GrantMonthStep ==
  ASSUME IInv, GrantMonth PROVE IInv'
<1>1. Credits \in Int /\ payment.granted
  BY PaymentsAssumption DEF GrantMonth, IInv, Fulfilment
<1> QED
  BY <1>1, EntryAdded DEF GrantMonth, Month

-----------------------------------------------------------------------------
(* The checkout, its reconciler and the readers of the charge.             *)

\* A step of the process w that may write the payment row by id.
LEMMA OneHandMoves ==
  ASSUME IInv, UNCHANGED <<request, adjustments, entries, sub>>,
         NEW w \in Hands, NEW h \in Hand, HandOK(h, provider.refunds, request.cycle),
         hands' = [hands EXCEPT ![w] = h],
         h.pc = "settle" => payment.granted \/ ~Asking,
         payment' \in Payment,
         payment'.kind = payment.kind, payment'.amount = payment.amount, payment'.granted = payment.granted,
         \/ payment'.status = payment.status
         \/ payment.status = "PENDING" /\ payment'.status \in {"OPEN", "FAILED"},
         payment'.why \in {payment.why, "other", "abandoned"}, payment'.auto => payment.auto,
         NEW b \in BOOLEAN, provider' = [provider EXCEPT !.page = b] \/ provider' = provider
  PROVE  IInv'
<1>1. /\ provider' \in Provider /\ provider'.refunds = provider.refunds
      /\ provider'.charge = provider.charge /\ provider'.paid = provider.paid
  <2>1. provider \in Provider
    BY DEF IInv, PaymentsTypeOK
  <2> QED
    BY <2>1 DEF Provider
<1>2. Forward(provider.refunds, provider'.refunds)
  BY <1>1, ForwardSame
<1>3. request' \in Request /\ request.cycle <= request'.cycle
  BY CycleIsNatural DEF IInv, PaymentsTypeOK
<1>4. HandOK(h, provider'.refunds, request'.cycle)
  BY <1>1
<1>5. HandsOK' /\ hands' \in [Hands -> Hand]
  BY <1>2, <1>3, <1>4, HandMoves DEF IInv
<1>6. PaymentsTypeOK'
  BY <1>1, <1>5 DEF IInv, PaymentsTypeOK, RowsTyped
<1>7. (\E v \in Hands : hands'[v].pc = "settle") /\ ~payment.granted /\ Asking
        => \E v \in Hands : hands[v].pc = "settle"
  BY DEF IInv, PaymentsTypeOK
<1>8. provider'.charge = "paid" => provider'.paid > 0
  BY <1>1 DEF IInv, Sources
<1>9. \A r \in Refs : provider.refunds[r].state = "none" /\ provider'.refunds[r].state # "none"
                        => provider'.refunds[r].amount > 0 /\ r \notin Ours
  BY <1>1
<1> QED
  BY <1>2, <1>5, <1>6, <1>7, <1>8, <1>9, BesideRows

\* The fields of a payment that a step by id may write.
LEMMA RowById ==
  ASSUME NEW p \in Payment, NEW n \in Nat
  PROVE  /\ [p EXCEPT !.why = "other", !.auto = FALSE, !.checks = n] \in Payment
         /\ [p EXCEPT !.why = "other", !.checks = n] \in Payment
         /\ [p EXCEPT !.status = "OPEN"] \in Payment
         /\ [p EXCEPT !.status = "FAILED", !.why = "other"] \in Payment
         /\ [p EXCEPT !.status = "FAILED", !.why = "abandoned"] \in Payment
BY DEF Payment

\* What such a step leaves of it.
SameRow(q, p) ==
  /\ q.kind = p.kind /\ q.amount = p.amount /\ q.granted = p.granted
  /\ q.status = p.status \/ (p.status = "PENDING" /\ q.status \in {"OPEN", "FAILED"})
  /\ q.why \in {p.why, "other", "abandoned"} /\ (q.auto => p.auto)

LEMMA RowByIdIs ==
  ASSUME NEW p \in Payment, NEW n \in Nat
  PROVE  /\ SameRow([p EXCEPT !.why = "other", !.auto = FALSE, !.checks = n], p)
         /\ SameRow([p EXCEPT !.why = "other", !.checks = n], p)
         /\ SameRow(p, p)
         /\ p.status = "PENDING" =>
              /\ SameRow([p EXCEPT !.status = "OPEN"], p)
              /\ SameRow([p EXCEPT !.status = "FAILED", !.why = "other"], p)
              /\ SameRow([p EXCEPT !.status = "FAILED", !.why = "abandoned"], p)
BY DEF Payment, SameRow

LEMMA HandMovesBeside ==
  ASSUME IInv, UNCHANGED <<request, adjustments, entries, sub>>,
         NEW w \in Hands, NEW h \in Hand, HandOK(h, provider.refunds, request.cycle),
         hands' = [hands EXCEPT ![w] = h],
         h.pc = "settle" => payment.granted \/ ~Asking,
         payment' \in Payment, SameRow(payment', payment),
         NEW b \in BOOLEAN, provider' = [provider EXCEPT !.page = b] \/ provider' = provider
  PROVE  IInv'
BY OneHandMoves DEF SameRow

LEMMA PageIsTyped ==
  /\ [Idle EXCEPT !.pc = "persist"] \in Hand /\ [Idle EXCEPT !.pc = "uncertain"] \in Hand
  /\ [Idle EXCEPT !.pc = "create"] \in Hand
  /\ \A m : \A c \in Cycles : /\ HandOK([Idle EXCEPT !.pc = "persist"], m, c)
                              /\ HandOK([Idle EXCEPT !.pc = "uncertain"], m, c)
                              /\ HandOK([Idle EXCEPT !.pc = "create"], m, c)
<1>1. Idle \in Hand /\ Idle.ref = None /\ Idle.cycle = 0
  BY IdleIsTyped
<1> DEFINE h(pc) == [Idle EXCEPT !.pc = pc]
<1>2. ASSUME NEW pc \in {"persist", "uncertain", "create"}
      PROVE  h(pc) \in Hand /\ h(pc).pc = pc /\ h(pc).ref = None /\ h(pc).cycle = 0
  BY <1>1 DEF Hand
<1>3. ASSUME NEW pc \in {"persist", "uncertain", "create"}, NEW m, NEW c \in Cycles
      PROVE  HandOK(h(pc), m, c)
  <2>1. c \in Nat
    BY CyclesAreNaturals
  <2> HIDE DEF h
  <2> QED
    BY <1>2, <2>1 DEF HandOK
<1> QED
  BY <1>2, <1>3

LEMMA CheckoutStep ==
  ASSUME IInv, PageMade \/ CreateFails \/ CreateRejected \/ MarkUncertain \/ PersistCheckoutSession
  PROVE  IInv'
<1>1. payment \in Payment /\ request.cycle \in Cycles /\ 0 \in Nat /\ "checkout" \in Hands
  BY CycleIsNatural DEF IInv, PaymentsTypeOK, Hands
<1>2. SameRow(payment, payment)
  BY <1>1, RowByIdIs
<1>3. CASE PageMade
  <2>1. [Idle EXCEPT !.pc = "persist"] \in Hand
        /\ HandOK([Idle EXCEPT !.pc = "persist"], provider.refunds, request.cycle)
    BY <1>1, PageIsTyped
  <2>2. [Idle EXCEPT !.pc = "persist"].pc # "settle"
    BY DEF Idle
  <2> QED
    BY <1>1, <1>2, <1>3, <2>1, <2>2, HandMovesBeside DEF PageMade, Unfinished, Becomes
<1>4. CASE CreateFails
  <2>1. [Idle EXCEPT !.pc = "uncertain"] \in Hand
        /\ HandOK([Idle EXCEPT !.pc = "uncertain"], provider.refunds, request.cycle)
    BY <1>1, PageIsTyped
  <2>2. [Idle EXCEPT !.pc = "uncertain"].pc # "settle"
    BY DEF Idle
  <2>3. PICK made \in BOOLEAN : provider' = [provider EXCEPT !.page = made]
    BY <1>4 DEF CreateFails
  <2> QED
    BY <1>1, <1>2, <1>4, <2>1, <2>2, <2>3, HandMovesBeside DEF CreateFails, Unfinished, Becomes
<1>5. CASE CreateRejected \/ MarkUncertain \/ PersistCheckoutSession
  <2>1. Idle \in Hand /\ HandOK(Idle, provider.refunds, request.cycle) /\ Idle.pc # "settle"
    BY <1>1, IdleIsTyped
  <2>2. hands' = [hands EXCEPT !["checkout"] = Idle] /\ provider' = provider
        /\ UNCHANGED <<request, adjustments, entries, sub>>
    BY <1>5 DEF CreateRejected, MarkUncertain, PersistCheckoutSession, Rest, Unfinished
  <2>3. payment' \in Payment /\ SameRow(payment', payment)
    BY <1>1, <1>5, RowById, RowByIdIs
       DEF CreateRejected, MarkUncertain, PersistCheckoutSession, FailUncreatedCheckout, Uncreated
  <2> QED
    BY <1>1, <2>1, <2>2, <2>3, HandMovesBeside
<1> QED
  BY <1>3, <1>4, <1>5

LEMMA CheckBeginsStep == ASSUME IInv, CheckBegins PROVE IInv'
<1>1. payment \in Payment /\ request.cycle \in Cycles /\ request.cycle \in Nat /\ "tick" \in Hands
  BY CycleIsNatural DEF IInv, PaymentsTypeOK, Hands
<1>2. PICK saw \in {"none", provider.charge} :
        hands' = [hands EXCEPT !["tick"] =
                    [Idle EXCEPT !.pc = IF saw = "none" THEN "check" ELSE "settle",
                                 !.saw = saw, !.amount = provider.paid, !.n = payment.checks]]
  BY DEF CheckBegins, Becomes
<1> DEFINE h == [Idle EXCEPT !.pc = IF saw = "none" THEN "check" ELSE "settle",
                             !.saw = saw, !.amount = provider.paid, !.n = payment.checks]
<1>3. provider.charge \in Charge /\ provider.paid \in 0 .. Amount /\ payment.checks \in Nat
  BY <1>1 DEF IInv, PaymentsTypeOK, Provider, Payment
<1>4. /\ h \in Hand /\ h.ref = None /\ h.cycle = 0 /\ h.saw = saw /\ h.amount = provider.paid
      /\ h.pc = IF saw = "none" THEN "check" ELSE "settle"
  BY <1>3, IdleIsTyped DEF Hand, Charge
<1>5. hands' = [hands EXCEPT !["tick"] = h]
  BY <1>2
<1>6. h.pc = "settle" => h.saw \in {"failed", "paid"} /\ (h.saw = "paid" => h.amount > 0)
  BY <1>3, <1>4 DEF Charge, IInv, Sources
<1> HIDE DEF h
<1>7. HandOK(h, provider.refunds, request.cycle)
  BY <1>1, <1>4, <1>6 DEF HandOK
<1>8. h.pc = "settle" => payment.granted \/ ~Asking
  BY DEF CheckBegins, Uncreated, IInv, Fulfilment
<1>9. SameRow(payment', payment) /\ payment' \in Payment /\ provider' = provider
  BY <1>1, RowByIdIs DEF CheckBegins
<1> QED
  BY <1>1, <1>4, <1>5, <1>7, <1>8, <1>9, HandMovesBeside DEF CheckBegins, Unfinished

LEMMA CheckEndsStep == ASSUME IInv, CheckEnds PROVE IInv'
<1>1. payment \in Payment /\ request.cycle \in Cycles /\ "tick" \in Hands
  BY CycleIsNatural DEF IInv, PaymentsTypeOK, Hands
<1>2. hands["tick"].n + 1 \in Nat
  BY <1>1 DEF IInv, PaymentsTypeOK, Hand
<1>3. Idle \in Hand /\ HandOK(Idle, provider.refunds, request.cycle) /\ Idle.pc # "settle"
  BY <1>1, IdleIsTyped
<1>4. payment' \in Payment /\ SameRow(payment', payment)
  BY <1>1, <1>2, RowById, RowByIdIs DEF CheckEnds, FailUncreatedCheckout, Uncreated
<1> QED
  BY <1>1, <1>3, <1>4, HandMovesBeside DEF CheckEnds, Rest, Unfinished

LEMMA AskChargeStep == ASSUME IInv, AskCharge PROVE IInv'
<1>1. payment \in Payment /\ request.cycle \in Cycles /\ request.cycle \in Nat /\ "asker" \in Hands
  BY CycleIsNatural DEF IInv, PaymentsTypeOK, Hands
<1> DEFINE h == [Idle EXCEPT !.pc = "settle", !.saw = provider.charge, !.amount = provider.paid]
<1>2. hands' = [hands EXCEPT !["asker"] = h]
  BY DEF AskCharge, Becomes
<1>3. provider.charge \in Charge /\ provider.paid \in 0 .. Amount
  BY DEF IInv, PaymentsTypeOK, Provider
<1>4. /\ h \in Hand /\ h.ref = None /\ h.cycle = 0 /\ h.saw = provider.charge /\ h.amount = provider.paid
      /\ h.pc = "settle"
  BY <1>3, IdleIsTyped DEF Hand, Charge
<1>5. h.saw \in {"failed", "paid"} /\ (h.saw = "paid" => h.amount > 0)
  BY <1>3, <1>4 DEF Charge, IInv, Sources, AskCharge
<1> HIDE DEF h
<1>6. HandOK(h, provider.refunds, request.cycle)
  BY <1>1, <1>4, <1>5 DEF HandOK
<1>7. payment.granted \/ ~Asking
  BY DEF AskCharge, IInv, Fulfilment, Final
<1>8. SameRow(payment', payment) /\ payment' \in Payment /\ provider' = provider
  BY <1>1, RowByIdIs DEF AskCharge
<1> QED
  BY <1>1, <1>2, <1>4, <1>6, <1>7, <1>8, HandMovesBeside DEF AskCharge

LEMMA DiesStep == ASSUME IInv, NEW w \in Hands, Dies(w) PROVE IInv'
<1>1. payment \in Payment /\ request.cycle \in Cycles
  BY CycleIsNatural DEF IInv, PaymentsTypeOK
<1>2. Idle \in Hand /\ HandOK(Idle, provider.refunds, request.cycle) /\ Idle.pc # "settle"
  BY <1>1, IdleIsTyped
<1>3. payment' \in Payment /\ SameRow(payment', payment) /\ provider' = provider
  BY <1>1, RowByIdIs DEF Dies
<1> QED
  BY <1>2, <1>3, HandMovesBeside DEF Dies, Rest

-----------------------------------------------------------------------------
(* The environment, and what is read of it.                                *)

\* A step of the provider, or of the plan alone.
LEMMA ProviderMoves ==
  ASSUME IInv, UNCHANGED <<payment, request, adjustments, entries, hands>>,
         sub' = sub \/ (sub = "ACTIVE" /\ sub' = "CANCELLED"),
         provider' \in Provider, Forward(provider.refunds, provider'.refunds),
         provider'.charge = "paid" => provider'.paid > 0,
         \A r \in Refs : provider.refunds[r].state = "none" /\ provider'.refunds[r].state # "none"
                           => provider'.refunds[r].amount > 0 /\ r \notin Ours
  PROVE  IInv'
<1>1. request' \in Request /\ request.cycle <= request'.cycle /\ payment \in Payment
  BY CycleIsNatural DEF IInv, PaymentsTypeOK
<1>2. HandsOK' /\ hands' \in [Hands -> Hand]
  BY <1>1, HandsStay DEF IInv
<1>3. PaymentsTypeOK'
  BY <1>2 DEF IInv, PaymentsTypeOK, RowsTyped
<1> QED
  BY <1>1, <1>2, <1>3, BesideRows

LEMMA PlanEndsStep == ASSUME IInv, PlanEnds PROVE IInv'
<1>1. provider' \in Provider /\ provider' = provider
  BY DEF IInv, PaymentsTypeOK, PlanEnds
<1>2. Forward(provider.refunds, provider'.refunds)
  BY <1>1, ForwardSame
<1> QED
  BY <1>1, <1>2, ProviderMoves DEF PlanEnds, IInv, Sources

LEMMA PaysStep ==
  ASSUME IInv, NEW charge \in {"failed", "paid"}, NEW amount \in 0 .. Amount,
         charge = "paid" => amount > 0, Pays(charge, amount)
  PROVE  IInv'
<1>1. provider \in Provider /\ provider' = [provider EXCEPT !.charge = charge, !.paid = amount]
  BY DEF IInv, PaymentsTypeOK, Pays
<1>2. /\ provider' \in Provider /\ provider'.refunds = provider.refunds
      /\ provider'.charge = charge /\ provider'.paid = amount
  BY <1>1 DEF Provider, Charge
<1>3. Forward(provider.refunds, provider'.refunds)
  BY <1>2, ForwardSame
<1> QED
  BY <1>2, <1>3, ProviderMoves DEF Pays

LEMMA MovesStep ==
  ASSUME IInv, NEW r \in Refs, NEW from, NEW to,
         <<from, to>> \in {<<"pending", "succeeded">>, <<"pending", "failed">>, <<"succeeded", "reversed">>},
         Moves(r, from, to)
  PROVE  IInv'
<1>1. /\ provider \in Provider /\ provider' = [provider EXCEPT !.refunds[r].state = to]
      /\ provider.refunds[r].state = from
  BY DEF IInv, PaymentsTypeOK, Moves
<1>2. from \in {"pending", "succeeded"} /\ to \in {"succeeded", "failed", "reversed"}
      /\ (from = "succeeded" => to = "reversed")
  OBVIOUS
<1> DEFINE m == [provider.refunds[r] EXCEPT !.state = to]
<1>3. provider.refunds \in [Refs -> Refund] /\ provider.refunds[r] \in Refund
  BY <1>1 DEF Provider
<1>4. /\ m \in Refund /\ m.state = to /\ m.amount = provider.refunds[r].amount
      /\ m.since = provider.refunds[r].since
  BY <1>2, <1>3 DEF Refund
<1>5. provider' = [provider EXCEPT !.refunds = [provider.refunds EXCEPT ![r] = m]]
  BY <1>1 DEF Provider
<1> HIDE DEF m
<1>6. /\ provider' \in Provider /\ provider'.refunds = [provider.refunds EXCEPT ![r] = m]
      /\ provider'.charge = provider.charge /\ provider'.paid = provider.paid
  BY <1>1, <1>3, <1>4, <1>5 DEF Provider
<1>7. Forward(provider.refunds, provider'.refunds)
  BY <1>1, <1>2, <1>3, <1>4, <1>6 DEF Forward
<1>8. \A q \in Refs : provider.refunds[q].state = "none" => provider'.refunds[q].state = "none"
  BY <1>1, <1>2, <1>3, <1>6
<1> QED
  BY <1>6, <1>7, <1>8, ProviderMoves DEF Moves, IInv, Sources

LEMMA DisputeStep ==
  ASSUME IInv, NEW r \in Disputes, NEW amount \in 1 .. Amount, Dispute(r, amount)
  PROVE  IInv'
<1> DEFINE m == [state |-> "succeeded", amount |-> amount, since |-> 0]
<1>1. /\ provider \in Provider /\ provider' = [provider EXCEPT !.refunds[r] = m]
      /\ provider.refunds[r].state = "none" /\ r \in Refs /\ r \notin Ours
  BY PaymentsAssumption DEF IInv, PaymentsTypeOK, Dispute, Refs
<1>2. provider.refunds \in [Refs -> Refund]
  BY <1>1 DEF Provider
<1>3. amount \in 0 .. Amount /\ amount > 0
  BY PaymentsAssumption
<1>4. m \in Refund /\ m.state = "succeeded" /\ m.amount = amount
  BY <1>3, CyclesAreNaturals DEF Refund
<1> HIDE DEF m
<1>5. /\ provider' \in Provider /\ provider'.refunds = [provider.refunds EXCEPT ![r] = m]
      /\ provider'.charge = provider.charge /\ provider'.paid = provider.paid
  BY <1>1, <1>2, <1>4 DEF Provider
<1>6. Forward(provider.refunds, provider'.refunds)
  BY <1>1, <1>2, <1>4, <1>5 DEF Forward
<1>7. \A q \in Refs : provider.refunds[q].state = "none" /\ provider'.refunds[q].state # "none"
                        => provider'.refunds[q].amount > 0 /\ q \notin Ours
  BY <1>1, <1>2, <1>3, <1>4, <1>5
<1> QED
  BY <1>5, <1>6, <1>7, ProviderMoves DEF Dispute, IInv, Sources

\* What a process reads of a refund that the provider has.
Seen(h, r, m) == [h EXCEPT !.pc = "apply", !.saw = m[r].state, !.ref = r, !.amount = m[r].amount, !.n = 0]

LEMMA SeenIsTyped ==
  ASSUME NEW h0 \in Hand, NEW m \in [Refs -> Refund], NEW c \in Cycles, HandOK(h0, m, c),
         NEW r \in Refs, m[r].state # "none"
  PROVE  LET h == Seen(h0, r, m) IN
         /\ h \in Hand /\ HandOK(h, m, c)
         /\ h.pc = "apply" /\ h.ref = r /\ h.saw = m[r].state /\ h.cycle = h0.cycle
<1> DEFINE h == Seen(h0, r, m)
<1>1. m[r].amount \in 0 .. Amount /\ r # None
      /\ m[r].state \in {"pending", "succeeded", "failed", "reversed"}
  BY PaymentsAssumption DEF Refund
<1>2. /\ h \in Hand /\ h.pc = "apply" /\ h.ref = r /\ h.saw = m[r].state /\ h.amount = m[r].amount
      /\ h.cycle = h0.cycle
  BY <1>1 DEF Hand, Charge, Seen
<1>3. h0.cycle <= c
  BY DEF HandOK
<1>4. HandOK(h, m, c)
  <2> HIDE DEF h
  <2> QED
    BY <1>1, <1>2, <1>3 DEF HandOK
<1> QED
  BY <1>2, <1>4

LEMMA RefundsTyped ==
  ASSUME IInv
  PROVE  /\ provider \in Provider /\ provider.refunds \in [Refs -> Refund]
         /\ \A r \in Refs : /\ provider.refunds[r].state # "none" =>
                                 provider.refunds[r].state \in {"pending", "succeeded", "failed", "reversed"}
                            /\ r # None
         /\ \A w \in Hands : hands[w] \in Hand /\ HandOK(hands[w], provider.refunds, request.cycle)
         /\ request \in Request /\ request.cycle \in Cycles /\ request.cycle \in Nat
         /\ payment \in Payment /\ payment.amount \in 1 .. Amount
<1>1. provider \in Provider /\ provider.refunds \in [Refs -> Refund]
  BY DEF IInv, PaymentsTypeOK, Provider
<1>2. \A r \in Refs : /\ provider.refunds[r].state # "none" =>
                           provider.refunds[r].state \in {"pending", "succeeded", "failed", "reversed"}
                      /\ r # None
  BY <1>1, PaymentsAssumption DEF Refund
<1>3. \A w \in Hands : hands[w] \in Hand /\ HandOK(hands[w], provider.refunds, request.cycle)
  BY DEF IInv, HandsOK, PaymentsTypeOK
<1>4. request \in Request /\ payment \in Payment /\ payment.amount \in 1 .. Amount
  BY DEF IInv, PaymentsTypeOK
<1> QED
  BY <1>1, <1>2, <1>3, <1>4, CycleIsNatural

LEMMA SawStep ==
  ASSUME IInv, NEW w \in Hands, NEW r \in Refs, provider.refunds[r].state # "none",
         UNCHANGED <<payment, request, adjustments, entries, sub, provider>>,
         Saw(w, r, provider.refunds[r].state)
  PROVE  IInv'
<1> DEFINE h == Seen(hands[w], r, provider.refunds)
<1>1. hands' = [hands EXCEPT ![w] = h]
  BY RefundsTyped DEF Saw, Becomes, Seen
<1>2. /\ hands[w] \in Hand /\ HandOK(hands[w], provider.refunds, request.cycle)
      /\ provider.refunds \in [Refs -> Refund] /\ request.cycle \in Cycles
  BY RefundsTyped
<1>3. h \in Hand /\ HandOK(h, provider.refunds, request.cycle) /\ h.pc = "apply"
  BY <1>2, SeenIsTyped
<1> HIDE DEF h
<1>4. payment' \in Payment /\ SameRow(payment', payment) /\ provider' = provider
  BY RefundsTyped, RowByIdIs
<1> QED
  BY <1>1, <1>3, <1>4, HandMovesBeside

LEMMA HookBeginsStep ==
  ASSUME IInv, NEW w \in Hooks, NEW r \in Refs, HookBegins(w, r) PROVE IInv'
BY SawStep DEF HookBegins, Hands

LEMMA VerifyRefundStep == ASSUME IInv, VerifyRefund PROVE IInv'
<1>1. "tick" \in Hands /\ hands["tick"].pc = "verify"
  BY DEF Hands, VerifyRefund
<1>2. /\ hands["tick"].ref \in Refs /\ provider.refunds[hands["tick"].ref].state # "none"
      /\ Idle \in Hand /\ HandOK(Idle, provider.refunds, request.cycle) /\ Idle.pc # "settle"
  BY <1>1, RefundsTyped, IdleIsTyped DEF HandOK, Hand
<1>3. CASE Saw("tick", hands["tick"].ref, provider.refunds[hands["tick"].ref].state)
  BY <1>1, <1>2, <1>3, SawStep DEF VerifyRefund
<1>4. CASE Rest("tick")
  <2>1. payment' \in Payment /\ SameRow(payment', payment) /\ provider' = provider
    BY RefundsTyped, RowByIdIs DEF VerifyRefund
  <2> QED
    BY <1>1, <1>2, <1>4, <2>1, HandMovesBeside DEF VerifyRefund, Rest
<1> QED
  BY <1>3, <1>4 DEF VerifyRefund

-----------------------------------------------------------------------------
(* The request and its refunds.                                            *)

LEMMA NewCycleIs ==
  ASSUME request \in Request, request.cycle < MaxCycles,
         NEW status \in {"REQUESTED", "PROCESSING"}, NEW by \in {"customer", "system"}
  PROVE  /\ NewCycle(status, by) \in Request
         /\ NewCycle(status, by).status = status /\ NewCycle(status, by).by = by
         /\ NewCycle(status, by).ref = None /\ NewCycle(status, by).cycle = request.cycle + 1
         /\ NewCycle(status, by).cycle # 0 /\ request.cycle <= NewCycle(status, by).cycle
         /\ NewCycle(status, by).exhausted = FALSE
<1>1. request.cycle \in Nat /\ request.cycle + 1 \in Cycles /\ 0 \in 0 .. MaxAttempts
  BY CycleIsNatural, PaymentsAssumption DEF Cycles
<1> QED
  BY <1>1 DEF NewCycle, Request

\* A request that is there goes on in its cycle.
SameCycle(q, p) == q.cycle = p.cycle /\ q.by = p.by /\ q.status \notin {"NONE", "REQUESTED"}

LEMMA RequestAlone ==
  ASSUME IInv, UNCHANGED <<payment, adjustments, entries, sub, provider, hands>>,
         request' \in Request, request.cycle <= request'.cycle,
         request'.status # "NONE", request'.cycle # 0,
         ~payment.granted => Asking /\ request'.by = request.by,
         request'.status = "REQUESTED" => payment.kind = "PACK",
         request'.ref \in {request.ref, None}
  PROVE  IInv'
<1>1. Forward(provider.refunds, provider'.refunds)
  BY ForwardSame
<1>2. HandsOK' /\ hands' \in [Hands -> Hand]
  BY <1>1, HandsStay DEF IInv
<1>3. PaymentsTypeOK'
  BY <1>2 DEF IInv, PaymentsTypeOK, RowsTyped
<1>4. request'.ref # None => provider'.refunds[request'.ref].state # "none"
  BY DEF IInv, Sources
<1> QED
  BY <1>1, <1>2, <1>3, <1>4, RequestMoves

LEMMA RequestAndHand ==
  ASSUME IInv, UNCHANGED <<adjustments, sub>>, request.cycle # 0,
         payment' = payment \/ payment' = [payment EXCEPT !.status = "NEEDS_REVIEW", !.why = "exhausted"],
         request' \in Request, SameCycle(request', request),
         entries' = entries \/ (payment.granted /\ payment.kind = "PACK"),
         entries' \subseteq Entry, IsFiniteSet(entries'),
         provider' \in Provider, Forward(provider.refunds, provider'.refunds),
         provider'.charge = provider.charge, provider'.paid = provider.paid,
         request'.ref # None => provider'.refunds[request'.ref].state # "none",
         \A r \in Refs : provider.refunds[r].state = "none" /\ provider'.refunds[r].state # "none"
                           => provider'.refunds[r].amount = payment.amount,
         NEW w \in Hands, NEW h \in Hand, HandOK(h, provider'.refunds, request.cycle), h.pc # "settle",
         hands' = [hands EXCEPT ![w] = h]
  PROVE  IInv'
<1>1. request.cycle <= request'.cycle /\ request'.cycle # 0 /\ request'.cycle = request.cycle
      /\ request'.by = request.by /\ request'.status \notin {"NONE", "REQUESTED"}
  BY RefundsTyped DEF SameCycle
<1>2. Asking
  BY DEF IInv, Kept, Asking
<1>3. HandsOK' /\ hands' \in [Hands -> Hand]
  BY <1>1, HandMoves DEF IInv
<1>4. payment' \in Payment /\ payment'.amount \in 1 .. Amount
  <2>1. CASE payment' = payment
    BY <2>1, RefundsTyped
  <2>2. CASE payment' = [payment EXCEPT !.status = "NEEDS_REVIEW", !.why = "exhausted"]
    BY <2>2, RefundsTyped DEF Payment, Final
  <2> QED
    BY <2>1, <2>2
<1>5. PaymentsTypeOK'
  BY <1>3, <1>4 DEF IInv, PaymentsTypeOK, RowsTyped
<1>6. \A v \in Hands : hands'[v].pc = "settle" => hands[v].pc = "settle"
  BY DEF IInv, PaymentsTypeOK
<1> QED
  BY <1>1, <1>2, <1>3, <1>5, <1>6, RequestMoves

LEMMA RequestRefundStep == ASSUME IInv, RequestRefund PROVE IInv'
<1>1. payment.granted /\ payment.kind = "PACK"
  BY DEF RequestRefund, Eligible, IInv, Fulfilment
<1>2. request \in Request /\ request.cycle < MaxCycles /\ request' = NewCycle("REQUESTED", "customer")
  BY RefundsTyped DEF RequestRefund
<1>3. /\ request' \in Request /\ request.cycle <= request'.cycle
      /\ request'.status # "NONE" /\ request'.cycle # 0 /\ request'.ref = None
  BY <1>2, NewCycleIs
<1> QED
  BY <1>1, <1>3, RequestAlone DEF RequestRefund, Undisturbed

LEMMA CloseRequestStep ==
  ASSUME IInv, NEW status \in {"CANCELLED", "REFUSED"}, CloseRequest(status) PROVE IInv'
<1>1. request \in Request /\ request.cycle \in Nat /\ request.cycle # 0 /\ Asking
  BY RefundsTyped DEF CloseRequest, IInv, Kept, Asking
<1>2. /\ request' \in Request /\ request'.cycle = request.cycle /\ request'.by = request.by
      /\ request'.status = status /\ request'.ref = request.ref
  BY <1>1 DEF CloseRequest, Request
<1> QED
  BY <1>1, <1>2, RequestAlone DEF CloseRequest, Undisturbed

Attempt(pc, r, c, n) == [Idle EXCEPT !.pc = pc, !.ref = r, !.cycle = c, !.n = n]

LEMMA AttemptHand ==
  ASSUME NEW c \in Cycles, NEW r \in Refs \cup {None}, NEW n \in Nat, NEW m,
         NEW pc \in {"submit", "verify", "exhaust"},
         pc = "verify" => r # None /\ m[r].state # "none"
  PROVE  /\ Attempt(pc, r, c, n) \in Hand /\ HandOK(Attempt(pc, r, c, n), m, c)
         /\ Attempt(pc, r, c, n).pc = pc /\ Attempt(pc, r, c, n).pc # "settle"
         /\ Attempt(pc, r, c, n).ref = r /\ Attempt(pc, r, c, n).cycle = c
<1> DEFINE h == Attempt(pc, r, c, n)
<1>1. c \in Nat /\ Idle \in Hand /\ c <= c
  BY CyclesAreNaturals, IdleIsTyped
<1>2. h \in Hand /\ h.pc = pc /\ h.ref = r /\ h.cycle = c
  BY <1>1 DEF Hand, Attempt
<1>3. HandOK(h, m, c)
  <2> HIDE DEF h
  <2> QED
    BY <1>1, <1>2 DEF HandOK
<1> QED
  BY <1>2, <1>3

LEMMA ApproveRefundStep == ASSUME IInv, ApproveRefund PROVE IInv'
<1>1. request \in Request /\ request.cycle \in Nat /\ request.cycle \in Cycles /\ request.cycle # 0 /\ Asking
      /\ 0 \in Nat /\ 0 \in 0 .. MaxAttempts
  BY RefundsTyped, PaymentsAssumption DEF ApproveRefund, IInv, Kept, Asking
<1>2. payment.granted /\ payment.kind = "PACK" /\ request.status = "REQUESTED"
  BY DEF ApproveRefund, IInv, Fulfilment, Kept
<1>3. CASE Balance >= Credits
  <2> DEFINE h == [Idle EXCEPT !.pc = "submit", !.cycle = request.cycle]
  <2>1. h \in Hand /\ h.pc = "submit" /\ h.ref = None /\ h.cycle = request.cycle
    BY <1>1, IdleIsTyped DEF Hand
  <2>3. hands' = [hands EXCEPT !["staff"] = h] /\ "staff" \in Hands
    BY <1>3 DEF ApproveRefund, Becomes, Hands
  <2> HIDE DEF h
  <2>2. HandOK(h, provider.refunds, request.cycle) /\ h.pc # "settle"
    BY <1>1, <2>1 DEF HandOK
  <2>4. request' \in Request /\ SameCycle(request', request) /\ request'.ref = request.ref
    BY <1>1, <1>3 DEF ApproveRefund, Request, SameCycle
  <2>5. entries' \subseteq Entry /\ IsFiniteSet(entries')
    <3>1. entries' = Posted(Key("reserve", request.cycle, None), -Credits) /\ -Credits \in Int
      BY <1>3, PaymentsAssumption DEF ApproveRefund, Reserve
    <3> QED
      BY <1>1, <3>1, PostedIs DEF IInv, PaymentsTypeOK
  <2>6. Forward(provider.refunds, provider'.refunds) /\ provider' = provider
        /\ UNCHANGED <<payment, adjustments, sub>> /\ provider \in Provider
    BY ForwardSame, RefundsTyped DEF ApproveRefund, Undisturbed
  <2> QED
    BY <1>1, <1>2, <2>1, <2>2, <2>3, <2>4, <2>5, <2>6, RequestAndHand DEF IInv, Sources
<1>4. CASE ~(Balance >= Credits)
  <2>1. /\ request' \in Request /\ request'.cycle = request.cycle /\ request'.by = request.by
        /\ request'.status = "REFUSED" /\ request'.ref = request.ref
    BY <1>1, <1>4 DEF ApproveRefund, Request
  <2> QED
    BY <1>1, <1>4, <2>1, RequestAlone DEF ApproveRefund, Undisturbed
<1> QED
  BY <1>3, <1>4

LEMMA ClaimStep == ASSUME IInv, Claim PROVE IInv'
<1> DEFINE n == IF request.attempts < MaxAttempts THEN request.attempts + 1 ELSE MaxAttempts
           pc == IF n >= MaxAttempts THEN "exhaust" ELSE IF request.ref # None THEN "verify" ELSE "submit"
           h == Attempt(pc, request.ref, request.cycle, n)
<1>1. request \in Request /\ request.cycle \in Cycles /\ request.cycle # 0 /\ request.status = "PROCESSING"
  BY RefundsTyped DEF Claim, Due, IInv, Kept
<1>2. n \in 0 .. MaxAttempts /\ n \in Nat /\ request.ref \in Refs \cup {None}
  BY <1>1, PaymentsAssumption DEF Request
<1>3. hands' = [hands EXCEPT !["tick"] = h] /\ "tick" \in Hands /\ request' = [request EXCEPT !.attempts = n]
  BY DEF Claim, Becomes, Hands, Attempt
<1>4. request.ref # None => provider.refunds[request.ref].state # "none"
  BY DEF IInv, Sources
<1>5. pc \in {"submit", "verify", "exhaust"} /\ (pc = "verify" => request.ref # None)
  OBVIOUS
<1> HIDE DEF n, pc
<1>6. h \in Hand /\ HandOK(h, provider.refunds, request.cycle) /\ h.pc # "settle"
  <2>1. pc = "verify" => request.ref # None /\ provider.refunds[request.ref].state # "none"
    BY <1>4, <1>5
  <2>2. request.cycle \in Cycles /\ request.ref \in Refs \cup {None} /\ n \in Nat
    BY <1>1, <1>2
  <2>3. pc \in {"submit", "verify", "exhaust"}
    BY <1>5
  <2> QED
    BY <2>1, <2>2, <2>3, AttemptHand
<1> HIDE DEF h
<1>7. request' \in Request /\ SameCycle(request', request) /\ request'.ref = request.ref
  BY <1>1, <1>2, <1>3 DEF Request, SameCycle
<1>8. Forward(provider.refunds, provider'.refunds) /\ provider' = provider
      /\ UNCHANGED <<payment, adjustments, entries, sub>> /\ provider \in Provider
  BY ForwardSame, RefundsTyped DEF Claim, Undisturbed
<1>9. entries' \subseteq Entry /\ IsFiniteSet(entries')
  BY <1>8 DEF IInv, PaymentsTypeOK
<1> QED
  BY <1>1, <1>3, <1>4, <1>6, <1>7, <1>8, <1>9, RequestAndHand

LEMMA ExhaustStep == ASSUME IInv, Exhaust PROVE IInv'
<1>1. Idle \in Hand /\ HandOK(Idle, provider.refunds, request.cycle) /\ Idle.pc # "settle"
      /\ "tick" \in Hands /\ hands' = [hands EXCEPT !["tick"] = Idle]
  BY RefundsTyped, IdleIsTyped DEF Hands, Exhaust, Rest
<1>2. Forward(provider.refunds, provider'.refunds) /\ provider' = provider
      /\ UNCHANGED <<adjustments, entries, sub>> /\ provider \in Provider
  BY ForwardSame, RefundsTyped DEF Exhaust, Undisturbed
<1>3. entries' \subseteq Entry /\ IsFiniteSet(entries')
  BY <1>2 DEF IInv, PaymentsTypeOK
<1>4. CASE StillClaimed(hands["tick"])
  <2>1. request \in Request /\ request.cycle # 0
    BY <1>4, RefundsTyped DEF StillClaimed, IInv, Kept
  <2>2. request' \in Request /\ SameCycle(request', request) /\ request'.ref = request.ref
    <3>1. request' = [Leaves("NEEDS_REVIEW") EXCEPT !.exhausted = TRUE] /\ 0 \in 0 .. MaxAttempts
      BY <1>4, PaymentsAssumption DEF Exhaust
    <3>2. Leaves("NEEDS_REVIEW") \in Request /\ SameCycle(Leaves("NEEDS_REVIEW"), request)
          /\ Leaves("NEEDS_REVIEW").ref = request.ref
      BY <2>1, <3>1 DEF Leaves, Request, SameCycle
    <3> QED
      BY <3>1, <3>2 DEF Request, SameCycle
  <2>3. payment' = [payment EXCEPT !.status = "NEEDS_REVIEW", !.why = "exhausted"]
    BY <1>4 DEF Exhaust
  <2> QED
    BY <1>1, <1>2, <1>3, <2>1, <2>2, <2>3, RequestAndHand DEF IInv, Sources
<1>5. CASE ~StillClaimed(hands["tick"])
  <2>1. payment' \in Payment /\ SameRow(payment', payment) /\ UNCHANGED <<payment, request>>
    BY <1>5, RefundsTyped, RowByIdIs DEF Exhaust
  <2> QED
    BY <1>1, <1>2, <2>1, HandMovesBeside
<1> QED
  BY <1>4, <1>5

\* What a process knows of a refund that it asked for and that has no end yet.
Told(h, r, s, m) ==
  [h EXCEPT !.pc = "apply", !.saw = s, !.ref = r, !.amount = IF r = None THEN 0 ELSE m[r].amount, !.n = 0]

LEMMA ToldIsTyped ==
  ASSUME NEW h0 \in Hand, NEW c \in Cycles, h0.cycle <= c, NEW m,
         NEW s \in {"pending", "failed"}, NEW r \in Refs \cup {None}, s = "pending" \/ r = None,
         r # None => m[r].state # "none" /\ m[r].amount \in 0 .. Amount
  PROVE  /\ Told(h0, r, s, m) \in Hand /\ HandOK(Told(h0, r, s, m), m, c)
         /\ Told(h0, r, s, m).pc = "apply" /\ Told(h0, r, s, m).ref = r
         /\ Told(h0, r, s, m).cycle = h0.cycle /\ Told(h0, r, s, m).saw = s
<1> DEFINE h == Told(h0, r, s, m)
           n == IF r = None THEN 0 ELSE m[r].amount
<1>1. n \in 0 .. Amount /\ (r # None => n = m[r].amount)
  BY PaymentsAssumption
<1>2. h = [h0 EXCEPT !.pc = "apply", !.saw = s, !.ref = r, !.amount = n, !.n = 0]
  BY DEF Told
<1>3. /\ h \in Hand /\ h.pc = "apply" /\ h.ref = r /\ h.saw = s /\ h.amount = n /\ h.cycle = h0.cycle
  <2>1. ASSUME NEW k \in 0 .. Amount, NEW g, g = [h0 EXCEPT !.pc = "apply", !.saw = s, !.ref = r, !.amount = k, !.n = 0]
        PROVE  /\ g \in Hand /\ g.pc = "apply" /\ g.ref = r /\ g.saw = s /\ g.amount = k /\ g.cycle = h0.cycle
    BY <2>1 DEF Hand, Charge
  <2> HIDE DEF n, h
  <2> QED
    BY <1>1, <1>2, <2>1
<1> HIDE DEF n
<1>4. HandOK(h, m, c)
  <2> HIDE DEF h
  <2> QED
    BY <1>1, <1>3 DEF HandOK
<1> QED
  BY <1>3, <1>4

\* The provider takes a refund of the whole charge, whether we learn of it or not.
LEMMA AskedIs ==
  ASSUME IInv, NEW r \in NextId, provider' = [provider EXCEPT !.refunds[r] = Asked]
  PROVE  /\ r \in Ours /\ r \in Refs /\ r # None /\ provider.refunds[r].state = "none"
         /\ provider' \in Provider /\ provider'.refunds = [provider.refunds EXCEPT ![r] = Asked]
         /\ Asked \in Refund /\ Asked.state = "pending" /\ Asked.amount = payment.amount
         /\ Asked.since = request.cycle
         /\ provider'.refunds[r] = Asked
         /\ provider'.charge = provider.charge /\ provider'.paid = provider.paid
         /\ Forward(provider.refunds, provider'.refunds)
         /\ \A q \in Refs : provider.refunds[q].state = "none" /\ provider'.refunds[q].state # "none"
                              => provider'.refunds[q].amount = payment.amount
<1>1. r \in Ours /\ r \in Refs /\ r # None /\ provider.refunds[r].state = "none"
  BY PaymentsAssumption DEF NextId, Unused, Refs
<1>2. /\ provider \in Provider /\ provider.refunds \in [Refs -> Refund]
      /\ payment.amount \in 0 .. Amount /\ request.cycle \in Cycles
  BY RefundsTyped, PaymentsAssumption
<1>3. Asked \in Refund /\ Asked.state = "pending" /\ Asked.amount = payment.amount
      /\ Asked.since = request.cycle
  BY <1>2 DEF Asked, Refund
<1>4. /\ provider' \in Provider /\ provider'.refunds = [provider.refunds EXCEPT ![r] = Asked]
      /\ provider'.charge = provider.charge /\ provider'.paid = provider.paid
  BY <1>1, <1>2, <1>3 DEF Provider
<1>5. Forward(provider.refunds, provider'.refunds)
  BY <1>1, <1>2, <1>4 DEF Forward
<1>6. \A q \in Refs : provider.refunds[q].state = "none" /\ provider'.refunds[q].state # "none"
                        => provider'.refunds[q].amount = payment.amount
  BY <1>2, <1>3, <1>4
<1>7. provider'.refunds[r] = Asked
  BY <1>1, <1>2, <1>4
<1> QED
  BY <1>1, <1>3, <1>4, <1>5, <1>6, <1>7

\* The part of a submission that every answer shares.
LEMMA SubmitMoves ==
  ASSUME IInv, UNCHANGED <<payment, adjustments, entries, sub>>, request.status = "PROCESSING",
         NEW ref \in Refs \cup {None},
         request' = [request EXCEPT !.ref = ref, !.posted = TRUE] \/ (request' = request /\ ref = request.ref),
         provider' \in Provider, Forward(provider.refunds, provider'.refunds),
         provider'.charge = provider.charge, provider'.paid = provider.paid,
         ref # None => provider'.refunds[ref].state # "none",
         \A r \in Refs : provider.refunds[r].state = "none" /\ provider'.refunds[r].state # "none"
                           => provider'.refunds[r].amount = payment.amount,
         NEW w \in Hands, NEW h \in Hand, HandOK(h, provider'.refunds, request.cycle), h.pc # "settle",
         hands' = [hands EXCEPT ![w] = h]
  PROVE  IInv'
<1>1. request \in Request /\ request.cycle # 0
  BY RefundsTyped DEF IInv, Kept
<1>2. request' \in Request /\ SameCycle(request', request) /\ request'.ref = ref
  <2>1. CASE request' = request /\ ref = request.ref
    BY <1>1, <2>1 DEF SameCycle
  <2>2. CASE request' = [request EXCEPT !.ref = ref, !.posted = TRUE]
    BY <1>1, <2>2 DEF Request, SameCycle
  <2> QED
    BY <2>1, <2>2
<1>3. entries' \subseteq Entry /\ IsFiniteSet(entries')
  BY DEF IInv, PaymentsTypeOK
<1> QED
  BY <1>1, <1>2, <1>3, RequestAndHand

LEMMA SubmitStep == ASSUME IInv, NEW w \in {"staff", "tick"}, Submit(w) PROVE IInv'
<1>1. w \in Hands /\ UNCHANGED <<payment, adjustments, entries, sub>>
  BY DEF Submit, Hands
<1>2. Idle \in Hand /\ Idle.pc # "settle"
      /\ \A m : HandOK(Idle, m, request.cycle)
  BY RefundsTyped, IdleIsTyped
<1>3. CASE ~MaySubmit(w)
  <2>1. provider' = provider /\ request' = request /\ hands' = [hands EXCEPT ![w] = Idle]
    BY <1>3 DEF Submit, Rest
  <2>2. payment' \in Payment /\ SameRow(payment', payment)
    BY <1>1, RefundsTyped, RowByIdIs
  <2> QED
    BY <1>1, <1>2, <2>1, <2>2, HandMovesBeside
<1>4. CASE MaySubmit(w)
  <2>1. /\ request.status = "PROCESSING" /\ request \in Request /\ request.ref = None
        /\ request.cycle \in Cycles /\ hands[w] \in Hand /\ hands[w].cycle <= request.cycle
        /\ provider.refunds \in [Refs -> Refund] /\ provider \in Provider
        /\ HandOK(hands[w], provider.refunds, request.cycle) /\ None \in Refs \cup {None}
    BY <1>1, <1>4, RefundsTyped DEF MaySubmit, HandOK
  <2>6. /\ hands[w] \in Hand /\ request.cycle \in Cycles /\ hands[w].cycle <= request.cycle
    BY <2>1
  <2>7. request.status = "PROCESSING" /\ provider \in Provider
    BY <2>1
  <2>2. ASSUME NEW r \in Discovered(request.cycle), Discover(w, r) PROVE IInv'
    <3> DEFINE h == Seen(hands[w], r, provider.refunds)
    <3>1. r \in Refs /\ r # None /\ provider.refunds[r].state # "none"
      BY PaymentsAssumption DEF Discovered, Refs
    <3>2. provider' = provider /\ request' = [request EXCEPT !.ref = r, !.posted = TRUE]
          /\ hands' = [hands EXCEPT ![w] = h]
      BY <2>2, <3>1 DEF Discover, Saw, Becomes, Seen
    <3>3. h \in Hand /\ HandOK(h, provider.refunds, request.cycle) /\ h.pc # "settle"
      BY <2>1, <3>1, SeenIsTyped
    <3> HIDE DEF h
    <3>4. Forward(provider.refunds, provider'.refunds)
      BY <3>2, ForwardSame
    <3> QED
      BY <1>1, <2>7, <3>1, <3>2, <3>3, <3>4, SubmitMoves
  <2>3. ASSUME NEW r \in NextId, Post(w, r) PROVE IInv'
    <3>1. PICK known \in {r, None} : /\ request' = [request EXCEPT !.ref = known, !.posted = TRUE]
                                     /\ Saw(w, known, "pending")
      BY <2>3 DEF Post
    <3>2. provider' = [provider EXCEPT !.refunds[r] = Asked]
      BY <2>3 DEF Post
    <3>3. /\ r \in Refs /\ r # None /\ provider' \in Provider /\ provider'.refunds[r] = Asked
          /\ Asked.state = "pending" /\ Asked.amount = payment.amount
          /\ provider'.charge = provider.charge /\ provider'.paid = provider.paid
          /\ Forward(provider.refunds, provider'.refunds)
          /\ \A q \in Refs : provider.refunds[q].state = "none" /\ provider'.refunds[q].state # "none"
                               => provider'.refunds[q].amount = payment.amount
      BY <3>2, AskedIs
    <3> DEFINE h == Told(hands[w], known, "pending", provider'.refunds)
    <3>4. hands' = [hands EXCEPT ![w] = h]
      BY <3>1 DEF Saw, Becomes, Told
    <3>5. known \in Refs \cup {None}
      BY <3>3
    <3>6. h \in Hand /\ HandOK(h, provider'.refunds, request.cycle) /\ h.pc # "settle"
      <4>1. known # None => provider'.refunds[known].state # "none"
                            /\ provider'.refunds[known].amount \in 0 .. Amount
        BY <3>3, RefundsTyped, PaymentsAssumption
      <4>2. h \in Hand /\ HandOK(h, provider'.refunds, request.cycle)
        BY <2>6, <3>5, <4>1, ToldIsTyped
      <4>3. h.pc = "apply"
        BY <2>6 DEF Told, Hand
      <4> QED
        BY <4>2, <4>3
    <3> HIDE DEF h
    <3>7. known # None => provider'.refunds[known].state # "none"
      BY <3>3
    <3> QED
      BY <1>1, <2>7, <3>1, <3>3, <3>4, <3>5, <3>6, <3>7, SubmitMoves
  <2>4. ASSUME PostRejected(w) PROVE IInv'
    <3> DEFINE h == Told(hands[w], None, "failed", provider'.refunds)
    <3>1. provider' = provider /\ request' = [request EXCEPT !.ref = None, !.posted = TRUE]
          /\ hands' = [hands EXCEPT ![w] = h]
      <4>1. [request EXCEPT !.ref = None, !.posted = TRUE] = [request EXCEPT !.posted = TRUE]
        BY <2>1 DEF Request
      <4> QED
        BY <2>4, <4>1 DEF PostRejected, Saw, Becomes, Told
    <3>2. h \in Hand /\ HandOK(h, provider.refunds, request.cycle) /\ h.pc # "settle"
      <4>1. HandOK(h, provider'.refunds, request.cycle) /\ h \in Hand /\ h.pc = "apply"
        BY <2>6, ToldIsTyped
      <4> HIDE DEF h
      <4> QED
        BY <3>1, <4>1
    <3> HIDE DEF h
    <3>3. Forward(provider.refunds, provider'.refunds)
      BY <3>1, ForwardSame
    <3> QED
      BY <1>1, <2>1, <3>1, <3>2, <3>3, SubmitMoves
  <2>5. ASSUME PostLost(w) PROVE IInv'
    <3>1. hands' = [hands EXCEPT ![w] = Idle] /\ request' = request
      BY <2>5 DEF PostLost, Rest
    <3>2. /\ provider' \in Provider /\ Forward(provider.refunds, provider'.refunds)
          /\ provider'.charge = provider.charge /\ provider'.paid = provider.paid
          /\ \A q \in Refs : provider.refunds[q].state = "none" /\ provider'.refunds[q].state # "none"
                               => provider'.refunds[q].amount = payment.amount
      <4>1. CASE \E r \in NextId : provider' = [provider EXCEPT !.refunds[r] = Asked]
        BY <4>1, AskedIs
      <4>2. CASE provider' = provider
        BY <2>1, <4>2, ForwardSame
      <4> QED
        BY <2>5, <4>1, <4>2 DEF PostLost
    <3> QED
      BY <1>1, <1>2, <2>1, <3>1, <3>2, SubmitMoves
  <2> QED
    BY <1>4, <2>2, <2>3, <2>4, <2>5 DEF Submit, SubmitRefundCycle
<1> QED
  BY <1>3, <1>4

-----------------------------------------------------------------------------
(* Settlement.                                                             *)

\* A row that is settled yet was never granted, and has no return queued: nothing of it
\* was used.
Untouched ==
  /\ ~payment.granted /\ ~payment.auto /\ ~Asking /\ payment.status \notin Final
  /\ \A r \in Refs : ~Over(adjustments[r].status)
  /\ \A e \in entries : e.key[1] \notin {"payment", "month", "reserve"}
  /\ \A c \in Cycles : ~Known(Reserve(c))
  /\ request.cycle = 0 /\ Net = 0

\* Whoever finds the row not settled under the lock finds it so, however late it comes.
LEMMA UnsettledIsUntouched ==
  ASSUME IInv, NEW w \in Hands, hands[w].pc = "settle", ~Settled
  PROVE  Untouched
<1>1. ~payment.granted
  BY DEF IInv, Fulfilment, Settled
<1>2. ~Asking
  <2>1. SUFFICES ASSUME Asking PROVE FALSE
    OBVIOUS
  <2>2. payment.status \in Final /\ payment.why = "partial"
    BY <1>1, <2>1 DEF IInv, Fulfilment, Settled, Final
  <2> QED
    BY <1>1, <2>1, <2>2 DEF IInv, Late
<1>3. ~payment.auto /\ payment.why # "partial" /\ payment.status \notin Final
  <2>1. payment.auto \in BOOLEAN
    BY RefundsTyped DEF Payment
  <2> QED
    BY <1>1, <1>2, <2>1 DEF IInv, Fulfilment, Settled
<1>4. \A r \in Refs : ~Over(adjustments[r].status)
  BY <1>1, <1>2 DEF IInv, Rows
<1>5. \A e \in entries : e.key[1] \notin {"payment", "month", "reserve"}
  BY <1>1 DEF IInv, Fulfilment
<1>6. \A c \in Cycles : ~Known(Reserve(c))
  BY <1>5 DEF Known, Reserve, Key
<1>7. request.cycle = 0
  BY <1>2 DEF IInv, Kept, Asking
<1> QED
  BY <1>1, <1>2, <1>3, <1>4, <1>5, <1>6, <1>7, NetOfNone DEF Untouched

\* What a settlement leaves the rest of the invariant.
LEMMA SettleMoves ==
  ASSUME IInv, Untouched, UNCHANGED <<adjustments, provider>>,
         NEW w \in Hands, hands' = [hands EXCEPT ![w] = Idle],
         payment' \in Payment, payment'.amount \in 1 .. Amount, payment'.kind = payment.kind,
         request' \in Request, request.cycle <= request'.cycle, request'.ref = None,
         request'.status # "NONE" <=> request'.cycle # 0, request'.status # "REQUESTED",
         request'.status = "NONE" => request'.by = "customer",
         entries' \subseteq Entry, IsFiniteSet(entries'),
         \A e \in entries' : e \in entries \/ e.key = Granted,
         sub' \in {"NONE", "ACTIVE", "CANCELLED"}, payment.kind = "PACK" => sub' = sub,
         payment'.granted => ~payment'.auto,
         Fulfilment', payment'.why # "partial" \/ payment'.granted,
         payment'.status # "REFUNDED"
  PROVE  IInv'
<1>1. Forward(provider.refunds, provider'.refunds)
  BY ForwardSame
<1>2. HandsOK' /\ hands' \in [Hands -> Hand]
  <2>1. request'.cycle \in Cycles
    BY CycleIsNatural
  <2>2. Idle \in Hand /\ HandOK(Idle, provider'.refunds, request'.cycle)
    BY <2>1, IdleIsTyped
  <2> QED
    BY <1>1, <2>2, HandMoves DEF IInv
<1>3. PaymentsTypeOK'
  BY <1>2 DEF IInv, PaymentsTypeOK, RowsTyped
<1>4. Rows' /\ Net' = Net
  BY <1>1, RowsStay DEF IInv, Untouched
<1>5. Sources'
  BY PaymentsAssumption DEF IInv, Sources, Untouched, Refs
<1>6. Late'
  BY DEF Late, Untouched, Refs
<1>7. Money'
  BY <1>4 DEF Money, Untouched
<1>8. Kept'
  <2>1. \A c \in Cycles : ~Known(Reserve(c))'
    BY DEF Untouched, Known, Reserve, Granted, Key
  <2> QED
    BY <2>1 DEF Kept, IInv
<1> QED
  BY <1>2, <1>3, <1>4, <1>5, <1>6, <1>7, <1>8 DEF IInv

LEMMA SettleChargeStep == ASSUME IInv, NEW w \in {"asker", "tick"}, SettleCharge(w) PROVE IInv'
<1>1. /\ w \in Hands /\ hands[w].pc = "settle" /\ hands' = [hands EXCEPT ![w] = Idle]
      /\ UNCHANGED <<adjustments, provider>>
  BY DEF SettleCharge, Hands, Rest
<1>2. /\ hands[w].saw \in {"failed", "paid"} /\ (hands[w].saw = "paid" => hands[w].amount \in 1 .. Amount)
      /\ payment \in Payment /\ payment.amount \in 1 .. Amount /\ request \in Request
      /\ request.cycle \in Nat /\ request.cycle \in Cycles /\ hands[w] \in Hand
  <2>1. hands[w].amount \in 0 .. Amount
    BY <1>1, RefundsTyped DEF Hand
  <2> QED
    BY <1>1, <2>1, RefundsTyped, PaymentsAssumption DEF HandOK
<1>3. CASE Settled
  <2>1. UNCHANGED <<payment, request, entries, sub>>
    BY <1>3 DEF SettleCharge, Settle
  <2>2. Idle \in Hand /\ HandOK(Idle, provider.refunds, request.cycle) /\ Idle.pc # "settle"
    BY <1>2, IdleIsTyped
  <2>3. payment' \in Payment /\ SameRow(payment', payment)
    BY <1>2, <2>1, RowByIdIs
  <2> QED
    BY <1>1, <2>1, <2>2, <2>3, HandMovesBeside
<1>4. CASE ~Settled
  <2>1. Untouched /\ request.ref = None /\ request.by = "customer" /\ request.status = "NONE"
    BY <1>1, <1>4, UnsettledIsUntouched DEF Untouched, IInv, Kept, Asking
  <2>2. entries \subseteq Entry /\ IsFiniteSet(entries) /\ sub \in {"NONE", "ACTIVE", "CANCELLED"}
    BY DEF IInv, PaymentsTypeOK
  <2>3. request.cycle <= request.cycle
    BY <1>2
  <2>4. CASE ChargeFailed
    <3>1. /\ payment' \in Payment /\ payment'.amount = payment.amount /\ payment'.kind = payment.kind
          /\ payment'.status = "FAILED" /\ payment'.why = "other" /\ payment'.granted = payment.granted
          /\ payment'.auto = payment.auto
      BY <1>2, <2>4 DEF ChargeFailed, Payment
    <3>2. UNCHANGED <<request, entries, sub>>
      BY <2>4 DEF ChargeFailed
    <3>3. Fulfilment'
      BY <2>1, <3>1, <3>2 DEF Fulfilment, Untouched, Asking
    <3> QED
      BY <1>1, <1>2, <2>1, <2>2, <2>3, <3>1, <3>2, <3>3, SettleMoves DEF Untouched
  <2>5. CASE hands[w].saw = "paid" /\ QueueAutomaticRefund(hands[w].amount)
    <3>1. /\ payment' \in Payment /\ payment'.amount \in 1 .. Amount /\ payment'.kind = payment.kind
          /\ payment'.status = "NEEDS_REVIEW" /\ payment'.why = "other" /\ payment'.granted = payment.granted
      <4>1. hands[w].amount \in Nat /\ hands[w].amount \in 1 .. Amount
        BY <1>2, <2>5, PaymentsAssumption
      <4> QED
        BY <1>2, <2>5, <4>1 DEF QueueAutomaticRefund, Payment, Final
    <3>2. request' = NewCycle("PROCESSING", "system") /\ request.cycle < MaxCycles /\ entries' = entries
      BY <2>5 DEF QueueAutomaticRefund
    <3>3. /\ request' \in Request /\ request'.status = "PROCESSING" /\ request'.by = "system"
          /\ request'.ref = None /\ request'.cycle # 0 /\ request.cycle <= request'.cycle
      BY <1>2, <3>2, NewCycleIs
    <3>4. sub' \in {"NONE", "ACTIVE", "CANCELLED"} /\ (payment.kind = "PACK" => sub' = sub)
      BY <2>2, <2>5 DEF QueueAutomaticRefund
    <3>5. Fulfilment'
      BY <2>1, <3>1, <3>2, <3>3 DEF Fulfilment, Untouched, Asking
    <3> QED
      BY <1>1, <1>2, <2>1, <2>2, <3>1, <3>2, <3>3, <3>4, <3>5, SettleMoves DEF Untouched
  <2>6. CASE GrantPurchase
    <3>1. /\ payment' \in Payment /\ payment'.amount = payment.amount /\ payment'.kind = payment.kind
          /\ payment'.status = "SUCCEEDED" /\ payment'.granted = TRUE /\ payment'.auto = payment.auto
      BY <1>2, <2>6 DEF GrantPurchase, Payment, Final
    <3>2. /\ entries' = Posted(Granted, Credits) /\ request' = request
          /\ sub' \in {"NONE", "ACTIVE", "CANCELLED"} /\ (payment.kind = "PACK" => sub' = sub)
      BY <2>2, <2>6 DEF GrantPurchase
    <3>3. entries' \subseteq Entry /\ IsFiniteSet(entries') /\ \A e \in entries' : e \in entries \/ e.key = Granted
      <4>1. Credits \in Int /\ 0 \in Nat \cup Spends
        BY PaymentsAssumption
      <4> QED
        BY <2>2, <3>2, <4>1, PostedIs DEF Granted
    <3>4. Fulfilment'
      BY <3>1 DEF Fulfilment, Final
    <3> QED
      BY <1>1, <1>2, <2>1, <2>3, <3>1, <3>2, <3>3, <3>4, SettleMoves DEF Untouched
  <2> QED
    BY <1>2, <1>4, <2>4, <2>5, <2>6 DEF SettleCharge, Settle
<1> QED
  BY <1>3, <1>4

-----------------------------------------------------------------------------
(* What an answer of the provider may act for.                             *)

LEMMA BindingIs ==
  ASSUME NEW explicit, NEW r, NEW bound, NEW adopt
  PROVE  LET c == RefundCycleBinding(explicit, r, bound, adopt)
         IN  /\ c \in {0, request.cycle}
             /\ c # 0 => c = request.cycle /\ request.status # "NONE"
BY DEF RefundCycleBinding

\* The process w holds an answer.
LEMMA AnswerIs ==
  ASSUME IInv, NEW w \in Hands, hands[w].pc = "apply", NEW adopt
  PROVE  /\ hands[w].ref \in Refs \cup {None}
         /\ hands[w].ref # None =>
              /\ adjustments[hands[w].ref] \in Adjustment
              /\ RowOK(adjustments[hands[w].ref], provider.refunds[hands[w].ref])
              /\ provider.refunds[hands[w].ref].state # "none"
              /\ hands[w].amount = provider.refunds[hands[w].ref].amount
              /\ hands[w].amount \in Int /\ hands[w].amount > 0
         /\ BoundTo(hands[w], adopt) \in Cycles /\ BoundTo(hands[w], adopt) <= request.cycle
         /\ ActsFor(hands[w], adopt) \in {0, request.cycle}
         /\ ActsFor(hands[w], adopt) # 0 => ActsFor(hands[w], adopt) = request.cycle /\ Asking
<1> DEFINE h == hands[w]
<1>1. h.ref \in Refs \cup {None} /\ h.amount \in 0 .. Amount
  BY RefundsTyped DEF Hand
<1>2. request.cycle \in Cycles /\ request.cycle \in Nat /\ 0 \in Cycles /\ \A c \in Cycles : c \in Nat /\ 0 <= c
  BY RefundsTyped, CyclesAreNaturals
<1>3. ASSUME h.ref # None
      PROVE  /\ adjustments[h.ref] \in Adjustment /\ adjustments[h.ref].cycle <= request.cycle
             /\ adjustments[h.ref].cycle \in Cycles
             /\ RowOK(adjustments[h.ref], provider.refunds[h.ref])
             /\ provider.refunds[h.ref].state # "none"
             /\ h.amount = provider.refunds[h.ref].amount /\ provider.refunds[h.ref].amount > 0
  <2>1. h.ref \in Refs
    BY <1>1, <1>3
  <2>2. adjustments[h.ref] \in Adjustment
    BY <2>1 DEF IInv, PaymentsTypeOK, RowsTyped
  <2>3. provider.refunds[h.ref].state # "none" /\ h.amount = provider.refunds[h.ref].amount
    BY <1>3, RefundsTyped DEF HandOK
  <2>4. RowOK(adjustments[h.ref], provider.refunds[h.ref]) /\ adjustments[h.ref].cycle <= request.cycle
    BY <2>1 DEF IInv, Rows
  <2> QED
    BY <2>2, <2>3, <2>4 DEF Adjustment, RowOK
<1>4. BoundTo(h, adopt) \in Cycles /\ BoundTo(h, adopt) <= request.cycle
  <2>1. /\ RefundCycleBinding(h.cycle, h.ref, 0, adopt) \in Cycles
        /\ RefundCycleBinding(h.cycle, h.ref, 0, adopt) <= request.cycle
    BY <1>2, BindingIs
  <2>2. CASE h.ref = None
    BY <2>1, <2>2 DEF BoundTo
  <2>3. CASE h.ref # None
    BY <1>3, <2>1, <2>3 DEF BoundTo
  <2> QED
    BY <2>2, <2>3
<1>5. /\ ActsFor(h, adopt) \in {0, request.cycle}
      /\ ActsFor(h, adopt) # 0 => ActsFor(h, adopt) = request.cycle /\ Asking
  BY BindingIs DEF ActsFor, Asking
<1>6. h.ref # None => h.amount \in Int /\ h.amount > 0
  BY <1>1, <1>3, PaymentsAssumption
<1> QED
  BY <1>1, <1>3, <1>4, <1>5, <1>6

-----------------------------------------------------------------------------
(* An answer that confirms nothing.                                        *)

LEMMA RowRecorded ==
  ASSUME IInv, NEW x \in Refs, NEW row \in Adjustment, adjustments' = [adjustments EXCEPT ![x] = row],
         Over(row.status) => row.status = adjustments[x].status,
         Over(adjustments[x].status) => row.status = adjustments[x].status,
         row.money = adjustments[x].money, row.cycle <= request.cycle,
         request' \in Request, request'.cycle = request.cycle, provider' = provider,
         payment.granted \/ Asking => payment'.granted \/ Asking'
  PROVE  /\ RowsTyped' /\ Rows' /\ Net' = Net
         /\ \A r \in Refs : Over(adjustments'[r].status) <=> Over(adjustments[r].status)
         /\ \A r \in Refs : adjustments[r].status = "REVERSED" => adjustments'[r].status = "REVERSED"
<1>1. RowsTyped /\ RowsTyped'
  BY DEF IInv, PaymentsTypeOK, RowsTyped
<1>2. /\ adjustments'[x] = row /\ \A r \in Refs \ {x} : adjustments'[r] = adjustments[r]
  BY <1>1 DEF RowsTyped
<1>3. \A r \in Refs : /\ Over(adjustments[r].status) <=> Over(adjustments'[r].status)
                      /\ Over(adjustments[r].status) => adjustments'[r].status = adjustments[r].status
                      /\ adjustments'[r].money = adjustments[r].money
                      /\ adjustments'[r].cycle <= request'.cycle
  BY <1>2 DEF IInv, Rows
<1>4. Net' = Net
  BY <1>1, <1>3, NetStays
<1>5. Rows'
  BY <1>3 DEF IInv, Rows, RowOK, Over
<1>6. \A r \in Refs : adjustments[r].status = "REVERSED" => adjustments'[r].status = "REVERSED"
  BY <1>3 DEF Over
<1> QED
  BY <1>1, <1>3, <1>4, <1>5, <1>6

LEMMA RecordMoves ==
  ASSUME IInv, UNCHANGED <<sub, provider>>,
         NEW w \in Hands, hands' = [hands EXCEPT ![w] = Idle],
         payment' = payment
           \/ (payment' = [payment EXCEPT !.status = "SUCCEEDED", !.why = "other"] /\ payment.granted /\ Net = 0),
         request' = request \/ (request' \in Request /\ Asking /\ SameCycle(request', request)),
         request'.ref # None => provider.refunds[request'.ref].state # "none",
         entries' \subseteq Entry, IsFiniteSet(entries'),
         \A e \in entries' : e \in entries \/ e.key[1] = "release",
         RowsTyped', Rows', Net' = Net,
         \A r \in Refs : Over(adjustments'[r].status) <=> Over(adjustments[r].status),
         \A r \in Refs : adjustments[r].status = "REVERSED" => adjustments'[r].status = "REVERSED"
  PROVE  IInv'
<1>1. request \in Request /\ request' \in Request /\ request'.cycle = request.cycle
      /\ request'.by = request.by /\ (Asking' <=> Asking)
      /\ request.cycle \in Nat /\ request.cycle \in Cycles
  BY RefundsTyped DEF SameCycle, Asking
<1>2. /\ payment' \in Payment /\ payment'.kind = payment.kind /\ payment'.amount = payment.amount
      /\ payment'.granted = payment.granted /\ payment'.auto = payment.auto
      /\ \/ payment' = payment
         \/ payment'.status = "SUCCEEDED" /\ payment'.why = "other" /\ payment.granted /\ Net = 0
  <2>1. payment \in Payment
    BY RefundsTyped
  <2>2. CASE payment' = payment
    BY <2>1, <2>2
  <2>3. CASE payment' = [payment EXCEPT !.status = "SUCCEEDED", !.why = "other"] /\ payment.granted /\ Net = 0
    BY <2>1, <2>3 DEF Payment, Final
  <2> QED
    BY <2>2, <2>3
<1>3. HandsOK' /\ hands' \in [Hands -> Hand]
  <2>1. Forward(provider.refunds, provider'.refunds) /\ request.cycle <= request'.cycle
    BY <1>1, ForwardSame
  <2>2. Idle \in Hand /\ HandOK(Idle, provider'.refunds, request'.cycle)
    BY <1>1, IdleIsTyped
  <2> QED
    BY <1>1, <2>1, <2>2, HandMoves DEF IInv
<1>4. PaymentsTypeOK'
  BY <1>1, <1>2, <1>3 DEF IInv, PaymentsTypeOK
<1>5. Fulfilment'
  BY <1>1, <1>2 DEF IInv, Fulfilment, Final
<1>6. Sources'
  BY <1>1, <1>2 DEF IInv, Sources
<1>7. Late'
  <2>1. (\E v \in Hands : hands'[v].pc = "settle") => \E v \in Hands : hands[v].pc = "settle"
    BY IdleIsTyped DEF IInv, PaymentsTypeOK
  <2>2. Disputes \subseteq Refs
    BY DEF Refs
  <2> QED
    BY <1>1, <1>2, <2>1, <2>2 DEF IInv, Late
<1>8. Money'
  BY <1>2 DEF IInv, Money
<1>9. Kept'
  <2>1. \A c \in Cycles : Known(Reserve(c))' => Known(Reserve(c))
    BY DEF Known, Reserve, Key
  <2> QED
    BY <1>1, <1>2, <2>1 DEF IInv, Kept, SameCycle, Asking
<1> QED
  BY <1>3, <1>4, <1>5, <1>6, <1>7, <1>8, <1>9 DEF IInv

\* The row an answer without effect leaves, if it names a refund at all.
LEMMA RecordIs ==
  ASSUME IInv, NEW w \in Hands, hands[w].pc = "apply", NEW status, NEW cycle \in Cycles,
         Record(hands[w], [adjustments[hands[w].ref] EXCEPT !.cycle = cycle, !.status = status]),
         hands[w].ref # None =>
           /\ status \in {"PENDING", "FAILED", adjustments[hands[w].ref].status}
           /\ Over(adjustments[hands[w].ref].status) => status = adjustments[hands[w].ref].status,
         cycle <= request.cycle,
         request' \in Request, request'.cycle = request.cycle, provider' = provider,
         payment.granted \/ Asking => payment'.granted \/ Asking'
  PROVE  /\ RowsTyped' /\ Rows' /\ Net' = Net
         /\ \A r \in Refs : Over(adjustments'[r].status) <=> Over(adjustments[r].status)
         /\ \A r \in Refs : adjustments[r].status = "REVERSED" => adjustments'[r].status = "REVERSED"
<1> DEFINE x == hands[w].ref
           row == [adjustments[x] EXCEPT !.cycle = cycle, !.status = status]
<1>1. x \in Refs \cup {None}
  BY AnswerIs
<1>2. CASE x = None
  <2>1. adjustments' = adjustments
    BY <1>2 DEF Record
  <2>2. Forward(provider.refunds, provider'.refunds) /\ request.cycle <= request'.cycle
    BY ForwardSame, RefundsTyped
  <2>3. Rows' /\ Net' = Net
    BY <2>1, <2>2, RowsStay DEF IInv
  <2> QED
    BY <2>1, <2>3 DEF IInv, PaymentsTypeOK, RowsTyped
<1>3. CASE x # None
  <2>1. x \in Refs /\ adjustments[x] \in Adjustment
    BY <1>1, <1>3 DEF IInv, PaymentsTypeOK, RowsTyped
  <2>2. /\ row \in Adjustment /\ row.status = status /\ row.cycle = cycle
        /\ row.money = adjustments[x].money
    BY <1>3, <2>1 DEF Adjustment
  <2>3. adjustments' = [adjustments EXCEPT ![x] = row]
    BY <1>3 DEF Record
  <2> HIDE DEF row
  <2>4. Over(row.status) => row.status = adjustments[x].status
    BY <1>3, <2>2 DEF Over
  <2>5. Over(adjustments[x].status) => row.status = adjustments[x].status
    BY <1>3, <2>2
  <2> HIDE DEF x
  <2> QED
    BY <2>1, <2>2, <2>3, <2>4, <2>5, RowRecorded
<1> QED
  BY <1>2, <1>3

LEMMA ApplyPendingStep ==
  ASSUME IInv, NEW w \in Hands, hands[w].pc = "apply", ApplyPending(hands[w]),
         hands' = [hands EXCEPT ![w] = Idle], provider' = provider
  PROVE  IInv'
<1> DEFINE h == hands[w]
           c == ActsFor(h, FALSE)
           s == IF adjustments[h.ref].status = "NONE" THEN "PENDING" ELSE adjustments[h.ref].status
<1>1. /\ BoundTo(h, FALSE) \in Cycles /\ BoundTo(h, FALSE) <= request.cycle
      /\ h.ref \in Refs \cup {None} /\ (h.ref # None => provider.refunds[h.ref].state # "none")
  BY AnswerIs
<1>2. request \in Request /\ UNCHANGED <<payment, entries, sub>>
  BY RefundsTyped DEF ApplyPending
<1>3. \/ request' = request
      \/ /\ request' = [request EXCEPT !.ref = h.ref] /\ h.ref # None /\ request.status = "PROCESSING"
  BY DEF ApplyPending
<1>4. /\ request' \in Request /\ request'.cycle = request.cycle /\ (Asking' <=> Asking)
      /\ request' = request \/ (Asking /\ SameCycle(request', request))
      /\ request'.ref # None => provider.refunds[request'.ref].state # "none"
  <2>1. CASE request' = request
    BY <1>2, <2>1 DEF IInv, Sources, Asking
  <2>2. CASE request' = [request EXCEPT !.ref = h.ref] /\ h.ref # None /\ request.status = "PROCESSING"
    BY <1>1, <1>2, <2>2 DEF Request, SameCycle, Asking
  <2> QED
    BY <1>3, <2>1, <2>2
<1>5. Record(h, [adjustments[h.ref] EXCEPT !.cycle = BoundTo(h, FALSE), !.status = s])
  <2>1. CASE h.ref = None
    BY <2>1 DEF ApplyPending, Record
  <2>2. CASE h.ref # None
    <3>1. adjustments[h.ref] \in Adjustment
      BY <2>2, AnswerIs
    <3>2. [adjustments[h.ref] EXCEPT !.cycle = BoundTo(h, FALSE), !.status = IF @ = "NONE" THEN "PENDING" ELSE @]
            = [adjustments[h.ref] EXCEPT !.cycle = BoundTo(h, FALSE), !.status = s]
      BY <3>1 DEF Adjustment
    <3> QED
      BY <3>2 DEF ApplyPending
  <2> QED
    BY <2>1, <2>2
<1>6. /\ s \in {"PENDING", "FAILED", adjustments[h.ref].status}
      /\ Over(adjustments[h.ref].status) => s = adjustments[h.ref].status
  BY DEF Over
<1>7. payment.granted \/ Asking => payment'.granted \/ Asking'
  BY <1>2, <1>4
<1> HIDE DEF s, c
<1>8. /\ RowsTyped' /\ Rows' /\ Net' = Net
      /\ \A r \in Refs : Over(adjustments'[r].status) <=> Over(adjustments[r].status)
      /\ \A r \in Refs : adjustments[r].status = "REVERSED" => adjustments'[r].status = "REVERSED"
  BY <1>1, <1>4, <1>5, <1>6, <1>7, RecordIs
<1>9. entries' \subseteq Entry /\ IsFiniteSet(entries') /\ \A e \in entries' : e \in entries \/ e.key[1] = "release"
  BY <1>2 DEF IInv, PaymentsTypeOK
<1> HIDE DEF h
<1> QED
  BY <1>2, <1>4, <1>8, <1>9, RecordMoves

\* What was reserved is an amount, and comes back under a key of its own.
LEMMA GivenBackIs ==
  ASSUME IInv, NEW c \in Nat
  PROVE  /\ GivenBack(c) \subseteq Entry /\ IsFiniteSet(GivenBack(c))
         /\ \A e \in GivenBack(c) : e \in entries \/ e.key = Release(c)
<1> DEFINE reserved == {e \in entries : e.key = Reserve(c)}
<1>1. entries \subseteq Entry /\ IsFiniteSet(entries)
  BY DEF IInv, PaymentsTypeOK
<1>2. IsFiniteSet(reserved)
  BY <1>1, FS_Subset
<1>3. \A e \in reserved : e.delta \in Int
  BY <1>1 DEF Entry
<1>4. Sum(reserved) \in Int
  <2> HIDE DEF reserved
  <2> QED
    BY <1>2, <1>3, SumInt
<1>5. -Sum(reserved) \in Int
  BY <1>4
<1>6. GivenBack(c) = entries \/ GivenBack(c) = Posted(Key("release", c, None), -Sum(reserved))
  BY DEF GivenBack, Release
<1> HIDE DEF reserved
<1>7. /\ Posted(Key("release", c, None), -Sum(reserved)) \subseteq Entry
      /\ IsFiniteSet(Posted(Key("release", c, None), -Sum(reserved)))
      /\ \A e \in Posted(Key("release", c, None), -Sum(reserved)) :
           e \in entries \/ e.key = Key("release", c, None)
  BY <1>1, <1>5, PostedIs
<1> QED
  BY <1>1, <1>6, <1>7 DEF Release

LEMMA ReleaseStep ==
  ASSUME IInv, NEW w \in Hands, hands[w].pc = "apply", ReleaseRefundReservation(hands[w]),
         hands' = [hands EXCEPT ![w] = Idle], provider' = provider
  PROVE  IInv'
<1> DEFINE h == hands[w]
           c == ActsFor(h, FALSE)
           automatic == request.by = "system"
           ends == ~FinalAlready(h) /\ Waiting(c)
           s == IF FinalAlready(h) THEN adjustments[h.ref].status ELSE "FAILED"
<1>1. /\ BoundTo(h, FALSE) \in Cycles /\ BoundTo(h, FALSE) <= request.cycle
      /\ h.ref \in Refs \cup {None} /\ (h.ref # None => provider.refunds[h.ref].state # "none")
  BY AnswerIs
<1>2. request \in Request /\ sub' = sub /\ request.cycle \in Nat
  BY RefundsTyped DEF ReleaseRefundReservation
<1>3. ends => Asking /\ c = request.cycle /\ (payment.granted \/ automatic)
  BY DEF Waiting, Asking, IInv, Fulfilment
<1>4. /\ request' \in Request /\ request'.cycle = request.cycle /\ (Asking' <=> Asking)
      /\ request' = request \/ (Asking /\ SameCycle(request', request))
      /\ request'.ref # None => provider.refunds[request'.ref].state # "none"
  <2>1. CASE ~ends
    <3>1. request' = request
      BY <2>1 DEF ReleaseRefundReservation
    <3> QED
      BY <1>2, <3>1 DEF IInv, Sources, Asking
  <2>2. CASE ends
    <3> DEFINE status == IF automatic THEN "NEEDS_REVIEW" ELSE "REFUSED"
               ref == IF h.ref = None THEN request.ref ELSE h.ref
    <3>1. request' = [Leaves(status) EXCEPT !.ref = IF h.ref = None THEN @ ELSE h.ref]
      BY <2>2 DEF ReleaseRefundReservation
    <3>2. status \in {"NEEDS_REVIEW", "REFUSED"} /\ 0 \in 0 .. MaxAttempts
      BY PaymentsAssumption
    <3> HIDE DEF status
    <3>3. Leaves(status) \in Request /\ Leaves(status).ref = request.ref /\ SameCycle(Leaves(status), request)
      BY <1>2, <3>2 DEF Leaves, Request, SameCycle
    <3>4. ref \in Refs \cup {None} /\ (ref # None => provider.refunds[ref].state # "none")
      BY <1>1, <1>2 DEF Request, IInv, Sources
    <3>5. request' = [Leaves(status) EXCEPT !.ref = ref]
      BY <3>1, <3>3
    <3> HIDE DEF ref
    <3>6. request' \in Request /\ SameCycle(request', request) /\ request'.ref = ref
      BY <3>3, <3>4, <3>5 DEF Request, SameCycle
    <3> QED
      BY <1>3, <2>2, <3>4, <3>6 DEF SameCycle, Asking
  <2> QED
    BY <2>1, <2>2
<1>5. \/ payment' = payment
      \/ /\ payment' = [payment EXCEPT !.status = "SUCCEEDED", !.why = "other"]
         /\ payment.granted /\ Net = 0
  BY <1>3 DEF ReleaseRefundReservation
<1>6. Record(h, [adjustments[h.ref] EXCEPT !.cycle = BoundTo(h, FALSE), !.status = s])
  <2>1. CASE h.ref = None
    BY <2>1 DEF ReleaseRefundReservation, Record
  <2>2. CASE h.ref # None
    <3>1. adjustments[h.ref] \in Adjustment
      BY <2>2, AnswerIs
    <3>2. [adjustments[h.ref] EXCEPT !.cycle = BoundTo(h, FALSE), !.status = IF FinalAlready(h) THEN @ ELSE "FAILED"]
            = [adjustments[h.ref] EXCEPT !.cycle = BoundTo(h, FALSE), !.status = s]
      BY <3>1 DEF Adjustment
    <3> QED
      BY <3>2 DEF ReleaseRefundReservation
  <2> QED
    BY <2>1, <2>2
<1>7. h.ref # None => /\ s \in {"PENDING", "FAILED", adjustments[h.ref].status}
                      /\ Over(adjustments[h.ref].status) => s = adjustments[h.ref].status
  BY DEF FinalAlready
<1>8. payment.granted \/ Asking => payment'.granted \/ Asking'
  <2>1. payment \in Payment
    BY RefundsTyped
  <2> QED
    BY <1>4, <1>5, <2>1 DEF Payment
<1>9. entries' \subseteq Entry /\ IsFiniteSet(entries') /\ \A e \in entries' : e \in entries \/ e.key[1] = "release"
  <2>1. CASE ~ends
    BY <2>1 DEF ReleaseRefundReservation, IInv, PaymentsTypeOK
  <2>2. CASE ends
    <3>1. entries' = GivenBack(c) /\ c \in Nat
      BY <1>2, <1>3, <2>2 DEF ReleaseRefundReservation
    <3> HIDE DEF c
    <3>2. \A e \in entries' : e \in entries \/ e.key = Release(c)
      BY <3>1, GivenBackIs
    <3>3. entries' \subseteq Entry /\ IsFiniteSet(entries')
      BY <3>1, GivenBackIs
    <3> QED
      BY <3>2, <3>3 DEF Release, Key
  <2> QED
    BY <2>1, <2>2
<1> HIDE DEF s, c, ends
<1>10. /\ RowsTyped' /\ Rows' /\ Net' = Net
       /\ \A r \in Refs : Over(adjustments'[r].status) <=> Over(adjustments[r].status)
       /\ \A r \in Refs : adjustments[r].status = "REVERSED" => adjustments'[r].status = "REVERSED"
  BY <1>1, <1>4, <1>6, <1>7, <1>8, RecordIs
<1> HIDE DEF h
<1> QED
  BY <1>2, <1>4, <1>5, <1>9, <1>10, RecordMoves

-----------------------------------------------------------------------------
(* An answer that is confirmed: its amounts.                               *)

\* Sums of the whole charge and of its opposite never fall between the two.
Whole(n, a) == \E k \in Int : n = k * a

LEMMA WholeIs ==
  ASSUME NEW a \in Int, a > 0
  PROVE  /\ Whole(0, a) /\ Whole(a, a) /\ Whole(-a, a)
         /\ \A m, n \in Int : Whole(m, a) /\ Whole(n, a) => Whole(m + n, a)
         /\ \A n \in Int : Whole(n, a) => ~(-a < n /\ n < 0)
<1>1. Whole(0, a) /\ Whole(a, a) /\ Whole(-a, a)
  <2>1. 0 = 0 * a /\ a = 1 * a /\ -a = (-1) * a /\ 0 \in Int /\ 1 \in Int /\ -1 \in Int
    OBVIOUS
  <2> QED
    BY <2>1 DEF Whole
<1>2. ASSUME NEW m \in Int, NEW n \in Int, Whole(m, a), Whole(n, a) PROVE Whole(m + n, a)
  <2>1. PICK j \in Int : m = j * a
    BY <1>2 DEF Whole
  <2>2. PICK k \in Int : n = k * a
    BY <1>2 DEF Whole
  <2>3. m + n = (j + k) * a /\ j + k \in Int
    BY <2>1, <2>2
  <2> QED
    BY <2>3 DEF Whole
<1>3. ASSUME NEW n \in Int, Whole(n, a), -a < n, n < 0 PROVE FALSE
  <2>1. PICK k \in Int : n = k * a
    BY <1>3 DEF Whole
  <2>2. CASE k >= 0
    <3>1. k * a >= 0
      BY <2>2
    <3> QED
      BY <1>3, <2>1, <3>1
  <2>3. CASE k <= -1
    <3>1. (-1 - k) * a >= 0
      BY <2>3
    <3>2. (-1 - k) * a = -a - k * a
      OBVIOUS
    <3>3. k * a <= -a
      BY <3>1, <3>2
    <3> QED
      BY <1>3, <2>1, <3>3
  <2> QED
    BY <2>2, <2>3
<1> QED
  BY <1>1, <1>2, <1>3

LEMMA TotalWhole ==
  ASSUME NEW S, IsFiniteSet(S), NEW m, NEW a \in Int, a > 0,
         \A x \in S : m[x] \in Int /\ Whole(m[x], a)
  PROVE  Whole(Total(m, S), a)
<1> DEFINE Bad == {s \in SUBSET S : ~Whole(Total(m, s), a)}
<1>1. SUFFICES ASSUME Bad # {} PROVE FALSE
  BY <1>1
<1>2. Bad \in SUBSET (SUBSET S)
  OBVIOUS
<1>3. PICK T \in Bad : \A U \in Bad : ~(U \subseteq T /\ U # T)
  <2> HIDE DEF Bad
  <2> QED
    BY <1>1, <1>2, LeastSubset
<1>4. T \subseteq S /\ IsFiniteSet(T) /\ ~Whole(Total(m, T), a)
  BY <1>3, FS_Subset
<1>5. CASE T = {}
  BY <1>4, <1>5, TotalNone, WholeIs
<1>6. CASE T # {}
  <2> DEFINE x == Pick(T)
  <2>1. x \in T /\ T \ {x} \subseteq T /\ T \ {x} # T
    BY <1>6, PickIsIn
  <2>2. Whole(Total(m, T \ {x}), a)
    <3>1. T \ {x} \notin Bad
      BY <1>3, <2>1
    <3> QED
      BY <1>4, <2>1, <3>1
  <2>3. Total(m, T) = m[x] + Total(m, T \ {x})
    BY <1>4, <1>6, TotalPick
  <2>4. Total(m, T \ {x}) \in Int /\ m[x] \in Int /\ Whole(m[x], a)
    <3>1. IsFiniteSet(T \ {x}) /\ \A y \in T \ {x} : m[y] \in Int
      BY <1>4, <2>1, FS_Subset
    <3> QED
      BY <1>4, <2>1, <3>1, TotalInt
  <2> HIDE DEF x
  <2> QED
    BY <1>4, <2>2, <2>3, <2>4, WholeIs
<1> QED
  BY <1>5, <1>6

\* What was granted, what is withheld of it and what is to move are whole credits.
LEMMA FundedIs ==
  ASSUME IInv
  PROVE  Funded \in Int /\ (~payment.granted => Funded = 0)
<1> DEFINE E == {e \in entries : e.key[1] \in {"payment", "month"}}
<1>1. IsFiniteSet(E) /\ \A e \in E : e.delta \in Int
  BY FS_Subset DEF IInv, PaymentsTypeOK, Entry
<1>2. ~payment.granted => E = {}
  BY DEF IInv, Fulfilment
<1>3. Funded = Sum(E)
  BY DEF Funded
<1> HIDE DEF E
<1> QED
  BY <1>1, <1>2, <1>3, SumInt, SumNone

LEMMA WithheldInt ==
  ASSUME IInv, NEW n \in Int
  PROVE  Withheld(n) \in Int
<1>1. Funded \in Int /\ payment.amount \in Int /\ payment.amount > 0
  BY FundedIs, RefundsTyped, PaymentsAssumption
<1> DEFINE k == Least(payment.amount, Most(0, -n))
<1>2. k \in Int
  BY <1>1 DEF Least, Most
<1> HIDE DEF k
<1>3. Funded * k + payment.amount - 1 \in Int
  BY <1>1, <1>2
<1>4. (Funded * k + payment.amount - 1) \div payment.amount \in Int
  BY <1>1, <1>3
<1> QED
  BY <1>1, <1>4 DEF Withheld, Least, k

\* The answer h confirms a row that was not reversed before.
Confirms(h) ==
  /\ h.saw \in {"succeeded", "reversed"} /\ Ready /\ adjustments[h.ref].status # "REVERSED"

\* Its money, and the net after it.
LEMMA ConfirmedMoney ==
  ASSUME IInv, NEW w \in Hands, hands[w].pc = "apply", Confirms(hands[w])
  PROVE  LET h == hands[w] a == adjustments[h.ref]  m == provider.refunds[h.ref] IN
         /\ h.ref \in Refs /\ h.ref # None /\ a \in Adjustment /\ h.amount = m.amount
         /\ h.amount \in Int /\ h.amount > 0
         /\ TargetMoney(h) \in Int /\ TargetMoney(h) \in {-h.amount, 0, h.amount}
         /\ h.saw = "succeeded" => TargetMoney(h) = -h.amount /\ m.state \in {"succeeded", "reversed"}
         /\ h.saw = "reversed" => TargetMoney(h) \in {0, h.amount} /\ m.state = "reversed"
                                  /\ TargetMoney(h) # a.money
         /\ NetAfter(h) \in Int
         /\ NetAfter(h) = TargetMoney(h) + Total(Monies, Others(h.ref))
         /\ Total(Monies, Others(h.ref)) \in Int
         /\ h.saw = "succeeded" => NetAfter(h) = IF a.status = "SUCCEEDED" THEN Net ELSE Net - h.amount
         /\ Net \in Int
<1> DEFINE h == hands[w]
           a == adjustments[h.ref]
           m == provider.refunds[h.ref]
<1>1. h.ref \in Refs /\ h.ref # None
  <2>1. h.ref # None
    BY RefundsTyped DEF Confirms, HandOK
  <2> QED
    BY <2>1, AnswerIs
<1>2. /\ a \in Adjustment /\ RowOK(a, m) /\ h.amount = m.amount /\ h.amount \in Int /\ h.amount > 0
  BY <1>1, AnswerIs
<1>3. /\ h.saw = "succeeded" => m.state \in {"succeeded", "reversed"}
      /\ h.saw = "reversed" => m.state = "reversed"
  BY <1>1, RefundsTyped DEF HandOK
<1>4. a.money \in Int /\ a.status # "REVERSED" /\ h.saw \in {"succeeded", "reversed"}
  BY <1>2 DEF Adjustment, Confirms
<1>5. /\ TargetMoney(h) \in Int /\ TargetMoney(h) \in {-h.amount, 0, h.amount}
      /\ h.saw = "succeeded" => TargetMoney(h) = -h.amount
      /\ h.saw = "reversed" => TargetMoney(h) \in {0, h.amount} /\ TargetMoney(h) # a.money
  <2>1. a.money < 0 \/ a.money = 0
    BY <1>2, <1>4 DEF RowOK, Over
  <2>2. CASE h.saw = "succeeded"
    BY <1>2, <2>2 DEF TargetMoney
  <2>3. CASE h.saw = "reversed" /\ a.money < 0
    BY <1>2, <1>4, <2>3 DEF TargetMoney
  <2>4. CASE h.saw = "reversed" /\ a.money = 0
    BY <1>2, <1>4, <2>4 DEF TargetMoney
  <2> QED
    BY <1>4, <2>1, <2>2, <2>3, <2>4
<1>6. NetAfter(h) = TargetMoney(h) + Total(Monies, Others(h.ref))
  BY <1>1, NetAfterIs
<1>7. /\ Total(Monies, Others(h.ref)) \in Int
      /\ Net = (IF Over(a.status) THEN a.money ELSE 0) + Total(Monies, Others(h.ref))
  BY <1>1, NetNow DEF IInv, PaymentsTypeOK
<1>8. NetAfter(h) \in Int
  BY <1>5, <1>6, <1>7
<1>9. Net \in Int
  BY <1>4, <1>7
<1>10. h.saw = "succeeded" => NetAfter(h) = IF a.status = "SUCCEEDED" THEN Net ELSE Net - h.amount
  <2>1. CASE a.status = "SUCCEEDED"
    <3>1. a.money = -h.amount
      BY <1>2, <2>1 DEF RowOK
    <3> QED
      BY <1>5, <1>6, <1>7, <2>1, <3>1 DEF Over
  <2>2. CASE a.status # "SUCCEEDED"
    <3>1. Net = Total(Monies, Others(h.ref))
      BY <1>4, <1>7, <2>2 DEF Over
    <3> QED
      BY <1>2, <1>5, <1>6, <1>7, <2>2, <3>1
  <2> QED
    BY <2>1, <2>2
<1> QED
  BY <1>1, <1>2, <1>3, <1>5, <1>6, <1>7, <1>8, <1>9, <1>10

\* The row it writes ...
LEMMA ConfirmedRow ==
  ASSUME IInv, NEW w \in Hands, hands[w].pc = "apply", Confirms(hands[w]), NEW c, Moved(hands[w], c)
  PROVE  /\ Movement(hands[w], c) \in Int
         /\ \E row \in Adjustment :
              /\ adjustments' = [adjustments EXCEPT ![hands[w].ref] = row]
              /\ row.status = IF hands[w].saw = "reversed" THEN "REVERSED" ELSE "SUCCEEDED"
              /\ row.money = TargetMoney(hands[w]) /\ row.cycle <= request.cycle
              /\ RowOK(row, provider.refunds[hands[w].ref])
              /\ row.cycle = BoundTo(hands[w], hands[w].saw = "succeeded")
              /\ row.credit = TargetCredit(hands[w])
              /\ row.past = PastAfter(hands[w], c)
              /\ row.rev = IF Movement(hands[w], c) = 0 THEN adjustments[hands[w].ref].rev
                           ELSE adjustments[hands[w].ref].rev + 1
<1> DEFINE h == hands[w]
           a == adjustments[h.ref]
           m == provider.refunds[h.ref]
<1>1. /\ h.ref \in Refs /\ h.ref # None /\ a \in Adjustment /\ h.amount = m.amount
      /\ h.amount \in Int /\ h.amount > 0 /\ TargetMoney(h) \in Int
      /\ h.saw = "succeeded" => TargetMoney(h) = -h.amount /\ m.state \in {"succeeded", "reversed"}
      /\ h.saw = "reversed" => TargetMoney(h) \in {0, h.amount} /\ m.state = "reversed"
      /\ NetAfter(h) \in Int /\ h.saw \in {"succeeded", "reversed"}
  BY ConfirmedMoney DEF Confirms
<1>2. TargetCredit(h) \in Int
  <2>1. MapThenSumSet(LAMBDA q : adjustments[q].credit, Others(h.ref)) \in Int
    <3>1. Others(h.ref) \in SUBSET Refs
      BY DEF Others
    <3> QED
      BY <3>1, CreditsInt DEF IInv, PaymentsTypeOK
  <2>2. Withheld(NetAfter(h)) \in Int
    BY <1>1, WithheldInt
  <2> QED
    BY <2>1, <2>2 DEF TargetCredit
<1>3. CurrentCredit(h, c) \in Int
  <2> DEFINE E == {e \in entries : e.key = Reserve(c)}
  <2>1. IsFiniteSet(E) /\ \A e \in E : e.delta \in Int
    BY FS_Subset DEF IInv, PaymentsTypeOK, Entry
  <2>2. CurrentCredit(h, c) = Sum(E) \/ CurrentCredit(h, c) = a.credit
    BY DEF CurrentCredit
  <2> HIDE DEF E
  <2> QED
    BY <1>1, <2>1, <2>2, SumInt DEF Adjustment
<1>4. Movement(h, c) \in Int
  BY <1>2, <1>3 DEF Movement
<1> DEFINE rev == IF Movement(h, c) = 0 THEN a.rev ELSE a.rev + 1
           row == [status |-> IF h.saw = "reversed" THEN "REVERSED" ELSE "SUCCEEDED",
                   money |-> TargetMoney(h), credit |-> TargetCredit(h),
                   cycle |-> BoundTo(h, h.saw = "succeeded"), rev |-> rev, past |-> PastAfter(h, c)]
<1>5. rev \in Nat
  BY <1>1 DEF Adjustment
<1>6. adjustments' = [adjustments EXCEPT ![h.ref] = row]
  BY DEF Moved
<1>7. BoundTo(h, h.saw = "succeeded") \in Cycles /\ BoundTo(h, h.saw = "succeeded") <= request.cycle
  BY AnswerIs
<1>12. PastAfter(h, c) \in SUBSET {"unbound", "again"}
  BY <1>1 DEF PastAfter, Adjustment
<1>13. row.rev = rev /\ row.past = PastAfter(h, c)
  OBVIOUS
<1>14. rev = IF Movement(h, c) = 0 THEN a.rev ELSE a.rev + 1
  OBVIOUS
<1> HIDE DEF rev
<1>8. /\ row \in Adjustment /\ row.money = TargetMoney(h) /\ row.credit = TargetCredit(h)
      /\ row.cycle = BoundTo(h, h.saw = "succeeded")
      /\ row.status = IF h.saw = "reversed" THEN "REVERSED" ELSE "SUCCEEDED"
  BY <1>1, <1>2, <1>5, <1>7, <1>12 DEF Adjustment
<1> HIDE DEF row
<1>9. m.amount > 0
  BY <1>1
<1>10. RowOK(row, m)
  BY <1>1, <1>8, <1>9 DEF RowOK, Over
<1> QED
  BY <1>4, <1>6, <1>7, <1>8, <1>10, <1>13, <1>14

\* ... and the money that is away after it.
LEMMA ConfirmedRows ==
  ASSUME IInv, NEW w \in Hands, hands[w].pc = "apply", Confirms(hands[w]), NEW c, Moved(hands[w], c),
         request' \in Request, request.cycle <= request'.cycle, provider' = provider,
         payment.granted \/ Asking => payment'.granted \/ Asking'
  PROVE  /\ RowsTyped' /\ Rows' /\ Net' = NetAfter(hands[w])
         /\ \A r \in Refs \ {hands[w].ref} : adjustments'[r] = adjustments[r]
         /\ adjustments'[hands[w].ref].status = IF hands[w].saw = "reversed" THEN "REVERSED" ELSE "SUCCEEDED"
         /\ \A r \in Refs : adjustments[r].status = "REVERSED" => adjustments'[r].status = "REVERSED"
<1> DEFINE x == hands[w].ref
<1>1. PICK row \in Adjustment :
        /\ adjustments' = [adjustments EXCEPT ![x] = row]
        /\ row.status = IF hands[w].saw = "reversed" THEN "REVERSED" ELSE "SUCCEEDED"
        /\ row.money = TargetMoney(hands[w]) /\ row.cycle <= request.cycle
        /\ RowOK(row, provider.refunds[x])
  BY ConfirmedRow
<1>2. x \in Refs /\ NetAfter(hands[w]) = TargetMoney(hands[w]) + Total(Monies, Others(x))
      /\ adjustments[x].status # "REVERSED"
  BY ConfirmedMoney DEF Confirms
<1>3. RowsTyped /\ RowsTyped'
  BY <1>1 DEF IInv, PaymentsTypeOK, RowsTyped
<1>4. Over(row.status)
  BY <1>1 DEF Over
<1> HIDE DEF x
<1>5. Net' = row.money + Total(Monies, Others(x))
  BY <1>1, <1>2, <1>3, <1>4, NetMoves
<1>6. adjustments'[x] = row /\ \A r \in Refs \ {x} : adjustments'[r] = adjustments[r]
  BY <1>1, <1>2, <1>3 DEF RowsTyped
<1>7. payment.granted \/ Asking
  BY DEF Confirms, Ready, IInv, Fulfilment
<1>8. \A r \in Refs : adjustments'[r].cycle <= request'.cycle
  <2>1. /\ \A r \in Refs : adjustments[r].cycle \in Nat /\ adjustments[r].cycle <= request.cycle
        /\ request.cycle \in Nat /\ request'.cycle \in Nat /\ row.cycle \in Nat
    BY <1>3, CyclesAreNaturals, RefundsTyped, CycleIsNatural DEF RowsTyped, Adjustment, IInv, Rows
  <2> QED
    BY <1>1, <1>6, <2>1
<1>9. \A r \in Refs : RowOK(adjustments'[r], provider'.refunds[r])
  BY <1>1, <1>6 DEF IInv, Rows
<1>10. Rows'
  BY <1>7, <1>8, <1>9 DEF Rows
<1> QED
  BY <1>1, <1>2, <1>3, <1>5, <1>6, <1>10 DEF x

\* The entries it posts.
LEMMA ConfirmedEntries ==
  ASSUME IInv, NEW w \in Hands, hands[w].pc = "apply", Confirms(hands[w]), NEW c, Moved(hands[w], c),
         entries' = EntriesAfter(hands[w], c, NetAfter(hands[w]))
  PROVE  /\ entries' \subseteq Entry /\ IsFiniteSet(entries')
         /\ \A e \in entries' : \/ e \in entries
                                \/ e.key[1] = "move"
                                \/ /\ e.key = Reserve(request.cycle + 1) /\ payment.granted
                                   /\ Contained(hands[w], c) /\ NetAfter(hands[w]) = 0
<1> DEFINE h == hands[w]
           net == NetAfter(h)
           a == adjustments[h.ref]
           moved == WithMovement(h, c)
           e0 == [key |-> Reserve(request.cycle + 1), delta |-> -Funded]
<1>1. h.ref \in Refs /\ a \in Adjustment /\ Movement(h, c) \in Int
  BY ConfirmedRow, ConfirmedMoney
<1>2. entries \subseteq Entry /\ IsFiniteSet(entries)
  BY DEF IInv, PaymentsTypeOK
<1>3. moved \subseteq Entry /\ IsFiniteSet(moved) /\ \A e \in moved : e \in entries \/ e.key[1] = "move"
  <2>1. CASE Movement(h, c) = 0
    BY <1>2, <2>1 DEF WithMovement
  <2>2. CASE Movement(h, c) # 0
    <3> DEFINE n == a.rev + 1
    <3>1. n \in Nat /\ moved = Posted(Key("move", n, h.ref), Movement(h, c))
      BY <1>1, <2>2 DEF Adjustment, WithMovement
    <3> HIDE DEF n, moved, h
    <3>2. /\ moved \subseteq Entry /\ IsFiniteSet(moved)
          /\ \A e \in moved : e \in entries \/ e.key = Key("move", n, h.ref)
      BY <1>1, <1>2, <3>1, PostedIs
    <3> QED
      BY <3>2 DEF Key
  <2> QED
    BY <2>1, <2>2
<1>4. e0 \in Entry /\ e0.key = Reserve(request.cycle + 1)
  <2>1. request.cycle + 1 \in Nat /\ -Funded \in Int
    BY RefundsTyped, FundedIs
  <2> QED
    BY <2>1 DEF Entry, Reserve, Key
<1>5. Funded > 0 => payment.granted
  BY FundedIs
<1>6. \/ entries' = moved
      \/ /\ entries' = moved \cup {e0} /\ Contained(h, c) /\ net = 0 /\ Funded > 0
  BY DEF EntriesAfter
<1>7. IsFiniteSet(moved \cup {e0})
  <2> HIDE DEF moved, e0
  <2> QED
    BY <1>3, FS_AddElement
<1> HIDE DEF moved, e0
<1> QED
  BY <1>3, <1>4, <1>5, <1>6, <1>7

\* The payment it leaves.
LEMMA ConfirmedPayment ==
  ASSUME IInv, NEW w \in Hands, hands[w].pc = "apply", Confirms(hands[w]), NEW c,
         payment' = PaymentAfter(hands[w], c, NetAfter(hands[w]))
  PROVE  LET net == NetAfter(hands[w]) IN
         /\ payment' \in Payment /\ payment'.kind = payment.kind /\ payment'.amount = payment.amount
         /\ payment'.granted = payment.granted
         /\ payment'.auto => payment.auto \/ sub = "CANCELLED"
         /\ payment'.status = "REFUNDED" => net = -payment.amount
         /\ payment'.status = "SUCCEEDED" => payment.granted /\ net = 0
         /\ payment'.status \in {"PENDING", "OPEN", "FAILED"} => net = 0 /\ ~payment.granted
         /\ ~payment.granted => payment'.status \in {"NEEDS_REVIEW", "REFUNDED"}
         /\ payment'.why = "partial" => payment.why = "partial" \/ (-payment.amount < net /\ net < 0)
<1> DEFINE h == hands[w]
           net == NetAfter(h)
           a == adjustments[h.ref]
           C == Contained(h, c)
<1>1. /\ net \in Int /\ Net \in Int /\ h.amount \in Int /\ h.amount > 0
      /\ h.saw = "succeeded" => net = IF a.status = "SUCCEEDED" THEN Net ELSE Net - h.amount
  BY ConfirmedMoney
<1>2. payment \in Payment /\ payment.amount \in Int /\ payment.amount > 0
  BY RefundsTyped, PaymentsAssumption
<1>3. (payment.granted \/ Funded > 0) <=> payment.granted
  BY FundedIs
<1>4. ~payment.granted => payment.auto /\ Asking /\ payment.status \in {"NEEDS_REVIEW", "REFUNDED"}
  BY DEF Confirms, Ready, IInv, Fulfilment
<1>5. ~payment.granted /\ ~C /\ net = 0 => payment.status = "NEEDS_REVIEW"
  <2>1. SUFFICES ASSUME ~payment.granted, ~C, net = 0, payment.status = "REFUNDED" PROVE FALSE
    BY <1>4
  <2>2. h.saw = "succeeded"
    BY <1>4, <2>1 DEF Contained, Confirms
  <2>3. Net = -payment.amount
    BY <2>1 DEF IInv, Money
  <2> QED
    BY <1>1, <1>2, <2>1, <2>2, <2>3
<1>11. ~(Fully(net) /\ TooMuch(net))
  BY <1>1, <1>2 DEF Fully, TooMuch
<1> HIDE DEF h, net, C
<1> DEFINE status == CASE C \/ TooMuch(net) -> "NEEDS_REVIEW"
                       [] Fully(net) /\ ~C -> "REFUNDED"
                       [] net # 0 /\ ~Fully(net) /\ ~TooMuch(net) /\ ~C -> "NEEDS_REVIEW"
                       [] OTHER -> IF payment.granted \/ Funded > 0 THEN "SUCCEEDED"
                                   ELSE IF payment.status \in {"FAILED", "NEEDS_REVIEW"} THEN payment.status
                                   ELSE "PENDING"
           why == CASE C \/ TooMuch(net) \/ Fully(net) -> "other"
                    [] ~C /\ net < 0 /\ ~TooMuch(net) /\ ~Fully(net) -> "partial"
                    [] OTHER -> IF h.saw = "reversed" THEN "other" ELSE payment.why
           auto == payment.auto \/ (C /\ sub = "CANCELLED" /\ net = 0)
<1>6. \/ status = "NEEDS_REVIEW"
      \/ status = "REFUNDED" /\ net = -payment.amount
      \/ status = "SUCCEEDED" /\ payment.granted /\ net = 0
  <2>1. CASE C \/ TooMuch(net)
    BY <1>11, <2>1
  <2>2. CASE ~C /\ ~TooMuch(net) /\ Fully(net)
    BY <2>2 DEF Fully
  <2>3. CASE ~C /\ ~TooMuch(net) /\ ~Fully(net) /\ net # 0
    BY <2>3
  <2>4. CASE ~C /\ ~TooMuch(net) /\ ~Fully(net) /\ net = 0
    BY <1>3, <1>5, <2>4
  <2> QED
    BY <2>1, <2>2, <2>3, <2>4
<1>7. why \in {"other", "partial", payment.why} /\ (why = "partial" => payment.why = "partial"
        \/ (-payment.amount < net /\ net < 0))
  <2>1. CASE C \/ TooMuch(net) \/ Fully(net)
    BY <2>1
  <2>2. CASE ~C /\ ~TooMuch(net) /\ ~Fully(net) /\ net < 0
    BY <1>1, <1>2, <2>2 DEF TooMuch, Fully, net
  <2>3. CASE ~C /\ ~TooMuch(net) /\ ~Fully(net) /\ ~(net < 0)
    BY <2>3
  <2> QED
    BY <2>1, <2>2, <2>3
<1>8. auto \in BOOLEAN /\ (auto => payment.auto \/ sub = "CANCELLED")
  BY <1>2 DEF Payment
<1>9. payment' = [payment EXCEPT !.status = status, !.why = why, !.auto = auto]
  <2>1. payment' = [payment EXCEPT
          !.status = status,
          !.why = CASE C \/ TooMuch(net) \/ Fully(net) -> "other"
                    [] ~C /\ net < 0 /\ ~TooMuch(net) /\ ~Fully(net) -> "partial"
                    [] OTHER -> IF h.saw = "reversed" THEN "other" ELSE @,
          !.auto = @ \/ (C /\ sub = "CANCELLED" /\ net = 0)]
    BY DEF PaymentAfter, h, net, C
  <2> QED
    BY <1>2, <2>1 DEF Payment
<1> HIDE DEF status, why, auto
<1>10. /\ payment' \in Payment /\ payment'.kind = payment.kind /\ payment'.amount = payment.amount
       /\ payment'.granted = payment.granted /\ payment'.auto = auto /\ payment'.why = why
       /\ payment'.status = status
  BY <1>2, <1>6, <1>7, <1>8, <1>9 DEF Payment, Final
<1> QED
  BY <1>4, <1>6, <1>7, <1>8, <1>10 DEF net, h

\* The request it leaves.
LEMMA ConfirmedRequest ==
  ASSUME IInv, NEW w \in Hands, hands[w].pc = "apply", Confirms(hands[w]), NEW adopt, NEW c,
         c = ActsFor(hands[w], adopt),
         NEW net, Contained(hands[w], c) /\ net = 0 => request.cycle < MaxCycles,
         request' = RequestAfter(hands[w], c, net)
  PROVE  /\ request' \in Request /\ request.cycle <= request'.cycle
         /\ \/ request' = request
            \/ /\ request'.status \notin {"NONE", "REQUESTED"} /\ request'.cycle # 0
               /\ request'.ref # None => provider.refunds[request'.ref].state # "none"
               /\ request'.by \in {request.by, "system"}
<1> DEFINE h == hands[w]
<1>1. request \in Request /\ request.cycle \in Nat /\ 0 \in 0 .. MaxAttempts /\ request.cycle <= request.cycle
  BY RefundsTyped, PaymentsAssumption, CycleIsNatural
<1>2. h.ref \in Refs /\ provider.refunds[h.ref].state # "none"
  BY ConfirmedMoney, AnswerIs
<1>3. CASE Contained(h, c) /\ net = 0
  BY <1>1, <1>3, NewCycleIs DEF RequestAfter
<1>4. CASE ~(Contained(h, c) /\ net = 0) /\ c = 0
  BY <1>1, <1>4 DEF RequestAfter
<1>5. CASE ~(Contained(h, c) /\ net = 0) /\ c # 0
  <2> DEFINE status == IF Fully(net) THEN "APPROVED" ELSE "NEEDS_REVIEW"
  <2>1. request' = [Leaves(status) EXCEPT !.ref = h.ref]
    BY <1>5 DEF RequestAfter
  <2>2. c = request.cycle /\ request.cycle # 0
    BY <1>5, AnswerIs
  <2>3. status \in {"APPROVED", "NEEDS_REVIEW"}
    OBVIOUS
  <2> HIDE DEF status, h
  <2>4. Leaves(status) \in Request /\ SameCycle(Leaves(status), request)
    BY <1>1, <2>3 DEF Leaves, Request, SameCycle
  <2>5. request' \in Request /\ SameCycle(request', request) /\ request'.ref = h.ref
    BY <1>2, <2>1, <2>4 DEF Request, SameCycle
  <2> QED
    BY <1>1, <1>2, <2>2, <2>5 DEF SameCycle
<1> QED
  BY <1>3, <1>4, <1>5

\* Before any dispute is confirmed, the money that is away is the whole charge or nothing.
LEMMA OursAreWhole ==
  ASSUME IInv, NEW w \in Hands, hands[w].pc = "apply", Confirms(hands[w]), hands[w].ref \in Ours,
         \A r \in Disputes : ~Over(adjustments[r].status)
  PROVE  ~(-payment.amount < NetAfter(hands[w]) /\ NetAfter(hands[w]) < 0)
<1> DEFINE h == hands[w]
           A == payment.amount
<1>1. A \in Int /\ A > 0
  BY RefundsTyped, PaymentsAssumption
<1>2. /\ NetAfter(h) = TargetMoney(h) + Total(Monies, Others(h.ref)) /\ NetAfter(h) \in Int
      /\ TargetMoney(h) \in Int /\ TargetMoney(h) \in {-h.amount, 0, h.amount}
      /\ Total(Monies, Others(h.ref)) \in Int
      /\ h.amount = provider.refunds[h.ref].amount /\ provider.refunds[h.ref].state # "none"
  BY ConfirmedMoney, AnswerIs
<1>3. h.amount = A
  BY <1>2 DEF IInv, Sources
<1>4. Whole(TargetMoney(h), A)
  <2>1. TargetMoney(h) \in {-A, 0, A}
    BY <1>2, <1>3
  <2> HIDE DEF h, A
  <2> QED
    BY <1>1, <2>1, WholeIs
<1>5. Others(h.ref) \in SUBSET Refs /\ IsFiniteSet(Others(h.ref))
  <2>1. Others(h.ref) \in SUBSET Refs
    BY DEF Others
  <2> QED
    BY <2>1, RefsFinite
<1>6. ASSUME NEW q \in Others(h.ref) PROVE Monies[q] \in Int /\ Whole(Monies[q], A)
  <2>1. q \in Ours /\ q \in Refs /\ Over(adjustments[q].status)
    BY DEF Others, Refs
  <2>2. adjustments[q] \in Adjustment /\ RowOK(adjustments[q], provider.refunds[q])
    BY <2>1 DEF IInv, PaymentsTypeOK, RowsTyped, Rows
  <2>3. provider.refunds[q].state # "none" /\ adjustments[q].money \in {-provider.refunds[q].amount, 0, provider.refunds[q].amount}
    BY <2>1, <2>2 DEF RowOK, Over
  <2>4. provider.refunds[q].amount = A
    BY <2>1, <2>3 DEF IInv, Sources
  <2>5. Monies[q] = adjustments[q].money /\ Monies[q] \in Int
    BY <2>1, <2>2 DEF Monies, Adjustment
  <2>6. Monies[q] \in {-A, 0, A}
    BY <2>3, <2>4, <2>5
  <2> HIDE DEF A
  <2> QED
    BY <1>1, <2>5, <2>6, WholeIs
<1> HIDE DEF h, A
<1>7. Whole(Total(Monies, Others(h.ref)), A)
  BY <1>1, <1>5, <1>6, TotalWhole
<1>8. Whole(NetAfter(h), A)
  BY <1>1, <1>2, <1>4, <1>7, WholeIs
<1>9. ~(-A < NetAfter(h) /\ NetAfter(h) < 0)
  BY <1>1, <1>2, <1>8, WholeIs
<1> QED
  BY <1>9 DEF h, A

LEMMA ConfirmedMoves ==
  ASSUME IInv, NEW w \in Hands, hands[w].pc = "apply", Confirms(hands[w]), NEW adopt, NEW c,
         c = ActsFor(hands[w], adopt), Moved(hands[w], c),
         hands[w].ref \in Disputes => \A v \in Hands : hands[v].pc # "settle",
         Contained(hands[w], c) /\ NetAfter(hands[w]) = 0 => request.cycle < MaxCycles,
         entries' = EntriesAfter(hands[w], c, NetAfter(hands[w])),
         payment' = PaymentAfter(hands[w], c, NetAfter(hands[w])),
         request' = RequestAfter(hands[w], c, NetAfter(hands[w])),
         sub' = SubAfter(hands[w], NetAfter(hands[w])),
         hands' = [hands EXCEPT ![w] = Idle], provider' = provider
  PROVE  IInv'
<1> DEFINE h == hands[w]
           net == NetAfter(h)
<1>1. /\ request' \in Request /\ request.cycle <= request'.cycle
      /\ \/ request' = request
         \/ /\ request'.status \notin {"NONE", "REQUESTED"} /\ request'.cycle # 0
            /\ request'.ref # None => provider.refunds[request'.ref].state # "none"
            /\ request'.by \in {request.by, "system"}
  BY ConfirmedRequest
<1>2. /\ payment' \in Payment /\ payment'.kind = payment.kind /\ payment'.amount = payment.amount
      /\ payment'.granted = payment.granted
      /\ payment'.auto => payment.auto \/ sub = "CANCELLED"
      /\ payment'.status = "REFUNDED" => net = -payment.amount
      /\ payment'.status = "SUCCEEDED" => payment.granted /\ net = 0
      /\ payment'.status \in {"PENDING", "OPEN", "FAILED"} => net = 0 /\ ~payment.granted
      /\ ~payment.granted => payment'.status \in {"NEEDS_REVIEW", "REFUNDED"}
      /\ payment'.why = "partial" => payment.why = "partial" \/ (-payment.amount < net /\ net < 0)
  BY ConfirmedPayment
<1>3. payment.granted \/ Asking
  BY DEF Confirms, Ready, IInv, Fulfilment
<1>4. Asking => Asking'
  BY <1>1 DEF Asking
<1>5. /\ RowsTyped' /\ Rows' /\ Net' = net
      /\ \A r \in Refs \ {h.ref} : adjustments'[r] = adjustments[r]
      /\ adjustments'[h.ref].status = IF h.saw = "reversed" THEN "REVERSED" ELSE "SUCCEEDED"
      /\ \A r \in Refs : adjustments[r].status = "REVERSED" => adjustments'[r].status = "REVERSED"
  BY <1>1, <1>2, <1>3, <1>4, ConfirmedRows
<1>6. /\ entries' \subseteq Entry /\ IsFiniteSet(entries')
      /\ \A e \in entries' : \/ e \in entries
                             \/ e.key[1] = "move"
                             \/ /\ e.key = Reserve(request.cycle + 1) /\ payment.granted
                                /\ Contained(h, c) /\ net = 0
  BY ConfirmedEntries
<1>7. sub' \in {"NONE", "ACTIVE", "CANCELLED"} /\ (sub = "NONE" => sub' = "NONE")
  BY DEF SubAfter, IInv, PaymentsTypeOK
<1>8. HandsOK' /\ hands' \in [Hands -> Hand]
  <2>1. Forward(provider.refunds, provider'.refunds) /\ request'.cycle \in Cycles
    BY <1>1, ForwardSame, CycleIsNatural
  <2>2. Idle \in Hand /\ HandOK(Idle, provider'.refunds, request'.cycle)
    BY <2>1, IdleIsTyped
  <2> QED
    BY <1>1, <2>1, <2>2, HandMoves DEF IInv
<1>9. h.ref \in Refs /\ provider.refunds[h.ref].state # "none"
  BY ConfirmedMoney, AnswerIs
<1>10. PaymentsTypeOK'
  BY <1>1, <1>2, <1>5, <1>6, <1>7, <1>8 DEF IInv, PaymentsTypeOK
<1>11. Fulfilment'
  <2>1. ~payment.granted => Asking /\ request.by = "system" /\ Asking' /\ request'.by = "system"
    BY <1>1, <1>3, <1>4 DEF IInv, Fulfilment
  <2>2. ~payment.granted => \A e \in entries' : e.key[1] \notin {"payment", "month", "reserve"}
    BY <1>6 DEF IInv, Fulfilment
  <2>3. payment.granted => payment'.status \in Final
    BY <1>2 DEF Payment
  <2> QED
    BY <1>2, <2>1, <2>2, <2>3 DEF Fulfilment
<1>12. Sources'
  <2>1. request'.ref # None => provider.refunds[request'.ref].state # "none"
    BY <1>1 DEF IInv, Sources
  <2> QED
    BY <1>2, <1>4, <2>1 DEF IInv, Sources
<1>13. Late'
  <2>1. SUFFICES ASSUME ~payment.granted, \E v \in Hands : hands'[v].pc = "settle"
                 PROVE  payment'.why # "partial" /\ \A r \in Disputes : ~Over(adjustments'[r].status)
    BY <1>2 DEF Late, Over
  <2>2. \E v \in Hands : hands[v].pc = "settle"
    BY <2>1, IdleIsTyped DEF IInv, PaymentsTypeOK
  <2>3. payment.why # "partial" /\ \A r \in Disputes : ~Over(adjustments[r].status)
    BY <1>3, <2>1, <2>2 DEF IInv, Late
  <2>4. h.ref \in Ours /\ h.ref \notin Disputes
    BY <1>9, <2>2, PaymentsAssumption DEF Refs
  <2>5. \A r \in Disputes : ~Over(adjustments'[r].status)
    BY <1>5, <2>3, <2>4 DEF Refs
  <2>6. ~(-payment.amount < net /\ net < 0)
    BY <2>3, <2>4, OursAreWhole
  <2> QED
    BY <1>2, <2>3, <2>5, <2>6
<1>14. Money'
  BY <1>2, <1>5 DEF Money
<1>15. Kept'
  <2>1. payment.kind = "PACK" => sub' = "NONE" /\ (payment.granted => ~payment'.auto)
    BY <1>2, <1>7 DEF IInv, Kept
  <2>2. payment.kind = "PLAN" /\ (\E k \in Cycles : Known(Reserve(k)))'
          => \E r \in Refs : adjustments'[r].status = "REVERSED"
    <3>1. SUFFICES ASSUME payment.kind = "PLAN", NEW k \in Cycles, NEW e \in entries', e.key = Reserve(k)
                   PROVE  \E r \in Refs : adjustments'[r].status = "REVERSED"
      BY DEF Known
    <3>2. CASE e \in entries
      <4>1. \E r \in Refs : adjustments[r].status = "REVERSED"
        BY <3>1, <3>2 DEF IInv, Kept, Known
      <4> QED
        BY <1>5, <4>1
    <3>3. CASE e.key[1] = "move"
      BY <3>1, <3>3 DEF Reserve, Key
    <3>4. CASE Contained(h, c)
      <4>1. adjustments'[h.ref].status = "REVERSED"
        BY <1>5, <3>4 DEF Contained
      <4> QED
        BY <1>9, <4>1
    <3> QED
      BY <1>6, <3>2, <3>3, <3>4
  <2>3. /\ request'.status = "NONE" <=> request'.cycle = 0
        /\ request'.status = "NONE" => request'.by = "customer" /\ request'.ref = None
        /\ request'.status = "REQUESTED" => payment.kind = "PACK"
    BY <1>1 DEF IInv, Kept
  <2> QED
    BY <1>2, <2>1, <2>2, <2>3 DEF Kept
<1> QED
  BY <1>5, <1>8, <1>10, <1>11, <1>12, <1>13, <1>14, <1>15 DEF IInv

LEMMA ConfirmedStep ==
  ASSUME IInv, NEW w \in Hands, hands[w].pc = "apply", ApplyConfirmedAdjustment(hands[w]),
         hands[w].ref \in Disputes => \A v \in Hands : hands[v].pc # "settle",
         hands' = [hands EXCEPT ![w] = Idle], provider' = provider
  PROVE  IInv'
<1> DEFINE h == hands[w]
           a == adjustments[h.ref]
           adopt == h.saw = "succeeded" /\ a.status # "REVERSED"
           c == ActsFor(h, adopt)
<1>1. h.saw \in {"succeeded", "reversed"}
  BY DEF ApplyConfirmedAdjustment
<1>2. request \in Request /\ request.cycle \in Nat /\ request.cycle <= request.cycle
  BY RefundsTyped
<1>3. CASE ~Ready
  <2>1. UNCHANGED <<payment, request, adjustments, entries, sub>>
    BY <1>3 DEF ApplyConfirmedAdjustment
  <2>2. Rows' /\ Net' = Net /\ RowsTyped'
    <3>1. Forward(provider.refunds, provider'.refunds) /\ (Asking' <=> Asking)
      BY <2>1, ForwardSame DEF Asking
    <3> QED
      BY <1>2, <2>1, <3>1, RowsStay DEF IInv, PaymentsTypeOK, RowsTyped
  <2>3. entries' \subseteq Entry /\ IsFiniteSet(entries') /\ \A e \in entries' : e \in entries
    BY <2>1 DEF IInv, PaymentsTypeOK
  <2>4. request'.ref # None => provider.refunds[request'.ref].state # "none"
    BY <2>1 DEF IInv, Sources
  <2> QED
    BY <2>1, <2>2, <2>3, <2>4, RecordMoves
<1>4. CASE Ready /\ a.status = "REVERSED"
  <2>1. /\ UNCHANGED <<payment, request, entries, sub>>
        /\ Record(h, [a EXCEPT !.cycle = BoundTo(h, FALSE)])
    BY <1>4 DEF ApplyConfirmedAdjustment
  <2>2. /\ BoundTo(h, FALSE) \in Cycles /\ BoundTo(h, FALSE) <= request.cycle
        /\ h.ref # None => a \in Adjustment
    BY AnswerIs
  <2>3. Record(h, [a EXCEPT !.cycle = BoundTo(h, FALSE), !.status = a.status])
    <3>1. CASE h.ref = None
      BY <2>1, <3>1 DEF Record
    <3>2. CASE h.ref # None
      <4>1. [a EXCEPT !.cycle = BoundTo(h, FALSE)] = [a EXCEPT !.cycle = BoundTo(h, FALSE), !.status = a.status]
        BY <2>2, <3>2 DEF Adjustment
      <4> QED
        BY <2>1, <4>1
    <3> QED
      BY <3>1, <3>2
  <2>4. request' \in Request /\ request'.cycle = request.cycle /\ (Asking' <=> Asking)
    BY <1>2, <2>1 DEF Asking
  <2> DEFINE s == a.status
  <2>5. s = a.status
    OBVIOUS
  <2> HIDE DEF s
  <2>6. /\ RowsTyped' /\ Rows' /\ Net' = Net
        /\ \A r \in Refs : Over(adjustments'[r].status) <=> Over(adjustments[r].status)
        /\ \A r \in Refs : adjustments[r].status = "REVERSED" => adjustments'[r].status = "REVERSED"
    BY <2>1, <2>2, <2>3, <2>4, RecordIs
  <2>7. entries' \subseteq Entry /\ IsFiniteSet(entries') /\ \A e \in entries' : e \in entries
    BY <2>1 DEF IInv, PaymentsTypeOK
  <2>8. request'.ref # None => provider.refunds[request'.ref].state # "none"
    BY <2>1 DEF IInv, Sources
  <2> QED
    BY <2>1, <2>6, <2>7, <2>8, RecordMoves
<1>5. CASE Ready /\ a.status # "REVERSED"
  <2>1. Confirms(h)
    BY <1>1, <1>5 DEF Confirms
  <2>2. ~OnlyRecorded(h, c)
    BY <2>1, ConfirmedMoney DEF OnlyRecorded
  <2>3. /\ Moved(h, c)
        /\ Contained(h, c) /\ NetAfter(h) = 0 => request.cycle < MaxCycles
        /\ entries' = EntriesAfter(h, c, NetAfter(h))
        /\ payment' = PaymentAfter(h, c, NetAfter(h))
        /\ request' = RequestAfter(h, c, NetAfter(h))
        /\ sub' = SubAfter(h, NetAfter(h))
    BY <1>5, <2>2 DEF ApplyConfirmedAdjustment
  <2> QED
    BY <2>1, <2>3, ConfirmedMoves
<1> QED
  BY <1>3, <1>4, <1>5

LEMMA ApplyStep == ASSUME ~Slow, IInv, NEW w \in Hands, Apply(w) PROVE IInv'
<1>1. /\ hands[w].pc = "apply" /\ hands' = [hands EXCEPT ![w] = Idle] /\ provider' = provider
      /\ hands[w].ref \in Disputes => \A v \in Hands : hands[v].pc # "settle"
  BY DEF Apply, Rest
<1>2. CASE ApplyPending(hands[w])
  BY <1>1, <1>2, ApplyPendingStep
<1>3. CASE ReleaseRefundReservation(hands[w])
  BY <1>1, <1>3, ReleaseStep
<1>4. CASE ApplyConfirmedAdjustment(hands[w])
  BY <1>1, <1>4, ConfirmedStep
<1> QED
  BY <1>2, <1>3, <1>4 DEF Apply

LEMMA InitIInv == Init => IInv
<1> SUFFICES ASSUME Init PROVE IInv
  OBVIOUS
<1>1. PICK k \in Kinds :
        payment = [kind |-> k, status |-> "PENDING", amount |-> Amount,
                   why |-> "other", ref |-> FALSE, granted |-> FALSE, auto |-> FALSE, checks |-> 0]
  BY DEF Init
<1>2. /\ payment \in Payment /\ payment.amount \in 1 .. Amount /\ payment.status = "PENDING"
      /\ payment.why = "other" /\ ~payment.granted /\ ~payment.auto
  BY <1>1, PaymentsAssumption DEF Payment
<1>3. /\ request \in Request /\ request.status = "NONE" /\ request.cycle = 0 /\ request.by = "customer"
      /\ request.ref = None
  BY PaymentsAssumption, CyclesAreNaturals DEF Init, Request
<1>4. /\ RowsTyped /\ \A r \in Refs : /\ adjustments[r].status = "NONE" /\ adjustments[r].money = 0
                                      /\ adjustments[r].cycle = 0
  BY CyclesAreNaturals DEF Init, RowsTyped, Unseen, Adjustment
<1>5. entries = {} /\ IsFiniteSet(entries) /\ sub = "NONE"
  BY FS_EmptySet DEF Init
<1>6. /\ provider \in Provider /\ provider.charge = "none"
      /\ \A r \in Refs : provider.refunds[r].state = "none"
  BY PaymentsAssumption, CyclesAreNaturals DEF Init, Provider, Refund, Charge
<1>7. hands \in [Hands -> Hand] /\ \A w \in Hands : HandOK(hands[w], provider.refunds, 0)
  <2>1. \A w \in Hands : hands[w] \in {Idle, [Idle EXCEPT !.pc = "create"]}
    BY DEF Init
  <2>2. \A h \in {Idle, [Idle EXCEPT !.pc = "create"]} : h \in Hand /\ HandOK(h, provider.refunds, 0)
    BY IdleIsTyped, PageIsTyped, CyclesAreNaturals
  <2>3. hands = [w \in Hands |-> hands[w]]
    BY DEF Init
  <2> QED
    BY <2>1, <2>2, <2>3
<1>8. Net = 0
  BY <1>4, NetOfNone DEF Over
<1>9. PaymentsTypeOK
  BY <1>2, <1>3, <1>4, <1>5, <1>6, <1>7 DEF PaymentsTypeOK
<1>10. Fulfilment /\ Money /\ Late
  BY <1>2, <1>3, <1>5, <1>8 DEF Fulfilment, Asking, Money, Late
<1>11. Rows
  BY <1>3, <1>4, <1>6 DEF Rows, RowOK, Over
<1>12. Sources /\ HandsOK
  BY <1>3, <1>6, <1>7, PaymentsAssumption DEF Sources, HandsOK, Refs
<1>13. Kept
  BY <1>2, <1>3, <1>5 DEF Kept, Known
<1> QED
  BY <1>9, <1>10, <1>11, <1>12, <1>13 DEF IInv

LEMMA NextIInv == ASSUME ~Slow PROVE IInv /\ [Next]_vars => IInv'
<1> SUFFICES ASSUME IInv, [Next]_vars PROVE IInv'
  OBVIOUS
<1>0. Disputed[payment.kind] \subseteq 1 .. Amount
  BY RefundsTyped, PaymentsAssumption DEF Payment
<1>1. CASE \E n \in Spends : Spend(n)
  BY <1>1, SpendStep
<1>2. CASE GrantMonth
  BY <1>2, GrantMonthStep
<1>3. CASE PlanEnds
  BY <1>3, PlanEndsStep
<1>4. CASE PageMade \/ CreateFails \/ CreateRejected \/ MarkUncertain \/ PersistCheckoutSession
  BY <1>4, CheckoutStep
<1>5. CASE CheckBegins
  BY <1>5, CheckBeginsStep
<1>6. CASE CheckEnds
  BY <1>6, CheckEndsStep
<1>7. CASE AskCharge
  BY <1>7, AskChargeStep
<1>8. CASE \E w \in {"asker", "tick"} : SettleCharge(w)
  BY <1>8, SettleChargeStep
<1>9. CASE RequestRefund
  BY <1>9, RequestRefundStep
<1>10. CASE CancelRefundRequest \/ RefuseRefund
  BY <1>10, CloseRequestStep DEF CancelRefundRequest, RefuseRefund
<1>11. CASE ApproveRefund
  BY <1>11, ApproveRefundStep
<1>12. CASE Submit("staff") \/ Submit("tick")
  BY <1>12, SubmitStep
<1>13. CASE Apply("staff") \/ Apply("tick") \/ \E w \in Hooks : Apply(w)
  BY <1>13, ApplyStep DEF Hands
<1>14. CASE Claim
  BY <1>14, ClaimStep
<1>15. CASE Exhaust
  BY <1>15, ExhaustStep
<1>16. CASE VerifyRefund
  BY <1>16, VerifyRefundStep
<1>17. CASE \E w \in Hooks : \E r \in Refs : HookBegins(w, r)
  BY <1>17, HookBeginsStep
<1>18. CASE Pays("failed", 0) \/ \E amount \in 1 .. Amount : Pays("paid", amount)
  <2>1. 0 \in 0 .. Amount /\ \A amount \in 1 .. Amount : amount \in 0 .. Amount /\ amount > 0
    BY PaymentsAssumption
  <2>2. CASE Pays("failed", 0)
    BY <2>1, <2>2, PaysStep
  <2>3. CASE \E amount \in 1 .. Amount : Pays("paid", amount)
    BY <2>1, <2>3, PaysStep
  <2> QED
    BY <1>18, <2>2, <2>3
<1>19. CASE \/ \E r \in Ours : Moves(r, "pending", "succeeded") \/ Moves(r, "pending", "failed")
            \/ \E r \in Refs : Moves(r, "succeeded", "reversed")
  BY <1>19, MovesStep DEF Refs
<1>20. CASE \E r \in Disputes, amount \in Disputed[payment.kind] : Dispute(r, amount)
  BY <1>0, <1>20, DisputeStep
<1>21. CASE \E w \in Hands : Dies(w)
  BY <1>21, DiesStep
<1>22. CASE UNCHANGED vars
  <2>1. UNCHANGED <<payment, request, adjustments, entries, sub, provider, hands>>
    BY <1>22 DEF vars
  <2>2. provider' \in Provider /\ Forward(provider.refunds, provider'.refunds)
    BY <2>1, RefundsTyped, ForwardSame
  <2>3. provider'.charge = "paid" => provider'.paid > 0
    BY <2>1 DEF IInv, Sources
  <2> QED
    BY <2>1, <2>2, <2>3, ProviderMoves
<1> QED
  BY <1>1, <1>2, <1>3, <1>4, <1>5, <1>6, <1>7, <1>8, <1>9, <1>10, <1>11, <1>12, <1>13, <1>14, <1>15,
     <1>16, <1>17, <1>18, <1>19, <1>20, <1>21, <1>22 DEF Next, PassStep

\* The invariant holds of every payment.
THEOREM Invariance == ASSUME ~Slow PROVE Spec => []IInv
<1>1. IInv /\ [Next]_vars => IInv'
  BY NextIInv
<1> QED
  BY <1>1, InitIInv, PTL DEF Spec

\* Every row, entry, answer and process keeps its type: a payment is priced at no more
\* than its checkout was, and a refund names a cycle the request has had.
THEOREM PaymentsTypeCorrect == ASSUME ~Slow PROVE Spec => []PaymentsTypeOK
<1>1. IInv => PaymentsTypeOK
  BY DEF IInv
<1> QED
  BY <1>1, Invariance, PTL

\* Whatever the order of webhooks, passes, answers and deaths, a payment is REFUNDED only
\* when all its money went back and SUCCEEDED only when it was granted and none is away:
\* what applyConfirmedAdjustment writes from the rows it reads under the lock.
THEOREM StatusCorrect == ASSUME ~Slow PROVE Spec => []StatusMatchesMoney
<1>1. IInv => StatusMatchesMoney
  BY DEF IInv, Fulfilment, Money, StatusMatchesMoney
<1> QED
  BY <1>1, Invariance, PTL

\* Only a settlement grants, and only what nothing was returned for.
LEMMA GrantsOnce ==
  ASSUME IInv, Next, ~payment.granted, payment'.granted
  PROVE  request.by = "customer"
<1>1. payment \in Payment
  BY RefundsTyped
<1>2. CASE payment' = payment
  BY <1>2
<1>3. CASE PageMade \/ CreateFails \/ CreateRejected \/ MarkUncertain \/ PersistCheckoutSession
           \/ CheckBegins \/ CheckEnds \/ AskCharge
  <2>1. payment'.granted = payment.granted
    BY <1>1, <1>3 DEF PageMade, CreateFails, CreateRejected, MarkUncertain, PersistCheckoutSession,
         CheckBegins, CheckEnds, AskCharge, FailUncreatedCheckout, Payment
  <2> QED
    BY <2>1
<1>4. ASSUME NEW w \in {"asker", "tick"}, SettleCharge(w) PROVE request.by = "customer"
  <2>1. w \in Hands /\ hands[w].pc = "settle"
    BY <1>4 DEF SettleCharge, Hands
  <2>2. ~Settled
    BY <1>4 DEF SettleCharge, Settle
  <2>3. Untouched
    BY <2>1, <2>2, UnsettledIsUntouched
  <2> QED
    BY <2>3 DEF Untouched, IInv, Kept, Asking
<1>5. CASE Exhaust
  <2>1. payment'.granted = payment.granted
    BY <1>1, <1>5 DEF Exhaust, Payment
  <2> QED
    BY <2>1
<1>6. ASSUME NEW w \in Hands, Apply(w) PROVE payment'.granted = payment.granted
  <2>1. CASE ApplyPending(hands[w])
    BY <2>1 DEF ApplyPending
  <2>2. CASE ReleaseRefundReservation(hands[w])
    BY <1>1, <2>2 DEF ReleaseRefundReservation, Payment
  <2>3. CASE ApplyConfirmedAdjustment(hands[w])
    <3>1. \/ payment' = payment
          \/ \E c, net : payment' = PaymentAfter(hands[w], c, net)
      BY <2>3 DEF ApplyConfirmedAdjustment
    <3>2. ASSUME NEW c, NEW net, payment' = PaymentAfter(hands[w], c, net)
          PROVE  payment'.granted = payment.granted
      BY <1>1, <3>2 DEF PaymentAfter, Payment
    <3> QED
      BY <3>1, <3>2
  <2> QED
    BY <1>6, <2>1, <2>2, <2>3 DEF Apply
<1>7. CASE \/ \E n \in Spends : Spend(n)
           \/ GrantMonth \/ PlanEnds
           \/ RequestRefund \/ CancelRefundRequest \/ RefuseRefund \/ ApproveRefund
           \/ Submit("staff") \/ Submit("tick") \/ Claim \/ VerifyRefund
           \/ \E w \in Hooks : \E r \in Refs : HookBegins(w, r)
           \/ Pays("failed", 0) \/ \E amount \in 1 .. Amount : Pays("paid", amount)
           \/ \E r \in Ours : Moves(r, "pending", "succeeded") \/ Moves(r, "pending", "failed")
           \/ \E r \in Refs : Moves(r, "succeeded", "reversed")
           \/ \E r \in Disputes, amount \in Disputed[payment.kind] : Dispute(r, amount)
           \/ \E w \in Hands : Dies(w)
  <2>1. payment' = payment
    BY <1>7 DEF Spend, GrantMonth, PlanEnds, RequestRefund, CancelRefundRequest, RefuseRefund, CloseRequest,
         ApproveRefund, Submit, Claim, VerifyRefund, HookBegins, Pays, Moves, Dispute, Dies
  <2> QED
    BY <1>2, <2>1
<1>8. CASE Apply("staff") \/ Apply("tick") \/ \E w \in Hooks : Apply(w)
  BY <1>6, <1>8 DEF Hands
<1> QED
  BY <1>3, <1>4, <1>5, <1>7, <1>8 DEF Next, PassStep

\* A verification that was read before the return of the charge was queued, and comes
\* after, grants nothing: the check that settlement repeats under the lock.
THEOREM ReturnedCorrect == ASSUME ~Slow PROVE Spec => ReturnedIsNotGranted
<1>1. IInv /\ [Next]_vars => [~payment.granted /\ payment.granted' => request.by = "customer"]_vars
  BY GrantsOnce
<1> QED
  BY <1>1, Invariance, PTL DEF Spec, ReturnedIsNotGranted

-----------------------------------------------------------------------------
(* Reservations.                                                           *)

Waits == request.status = "PROCESSING" \/ (request.status = "NEEDS_REVIEW" /\ request.exhausted)

\* Reservations are not taken back, refunds keep their cycle and what is confirmed stays so.
RowsGrow ==
  \A r \in Refs : /\ adjustments[r].cycle # 0 => adjustments'[r].cycle = adjustments[r].cycle
                  /\ Over(adjustments[r].status) => Over(adjustments'[r].status)
                  /\ adjustments[r].status = "REVERSED" => adjustments'[r].status = "REVERSED"

LEMMA OutstandingShrinks ==
  ASSUME RowsGrow, entries \subseteq entries', NEW n,
         \A e \in entries' : e \in entries \/ e.key = Reserve(n) \/ \A c : e.key # Reserve(c)
  PROVE  /\ Outstanding' \subseteq Outstanding \cup {n}
         /\ ReversedTwice => ReversedTwice'
<1>1. ASSUME NEW c \in Outstanding', c # n PROVE c \in Outstanding
  <2>1. /\ c \in 1 .. MaxCycles /\ Known(Reserve(c))' /\ ~Known(Release(c))'
        /\ \A r \in Refs : ~(adjustments'[r].cycle = c /\ Over(adjustments'[r].status))
    BY DEF Outstanding
  <2>2. c # 0
    BY <2>1, PaymentsAssumption
  <2>3. Known(Reserve(c))
    <3>1. PICK e \in entries' : e.key = Reserve(c)
      BY <2>1 DEF Known
    <3>2. Reserve(c) # Reserve(n)
      BY <1>1 DEF Reserve, Key
    <3> QED
      BY <3>1, <3>2 DEF Known
  <2>4. ~Known(Release(c))
    BY <2>1 DEF Known
  <2>5. \A r \in Refs : ~(adjustments[r].cycle = c /\ Over(adjustments[r].status))
    BY <2>1, <2>2 DEF RowsGrow
  <2> QED
    BY <2>1, <2>3, <2>4, <2>5 DEF Outstanding
<1>2. ReversedTwice => ReversedTwice'
  BY DEF ReversedTwice, RowsGrow
<1> QED
  BY <1>1, <1>2

\* A step that touches no reservation.
LEMMA ReservationStays ==
  ASSUME ReservationEnds, RowsGrow, entries \subseteq entries',
         \A e \in entries' : e \in entries \/ \A c : e.key # Reserve(c),
         \/ request'.cycle = request.cycle /\ (Waits => Waits')
         \/ ~Waits
         \/ Outstanding = {}
  PROVE  ReservationEnds'
<1>1. /\ Outstanding' \subseteq Outstanding \cup {0}
      /\ ReversedTwice => ReversedTwice'
  BY OutstandingShrinks
<1>2. 0 \notin Outstanding'
  BY PaymentsAssumption DEF Outstanding
<1> QED
  BY <1>1, <1>2 DEF ReservationEnds, Waits

LEMMA RowsGrowSame == ASSUME adjustments' = adjustments PROVE RowsGrow
BY DEF RowsGrow

LEMMA PostedGrows ==
  ASSUME NEW key, NEW d, entries' = Posted(key, d)
  PROVE  entries \subseteq entries' /\ \A e \in entries' : e \in entries \/ e.key = key
BY DEF Posted

LEMMA NoneReserved ==
  ASSUME \A c \in Cycles : ~Known(Reserve(c)) PROVE Outstanding = {}
BY PaymentsAssumption DEF Outstanding, Cycles

\* Steps other than those of a refund.
LEMMA OthersReserveNothing ==
  ASSUME IInv, ReservationEnds,
         \/ \E n \in Spends : Spend(n)
         \/ GrantMonth
         \/ \E w \in {"asker", "tick"} : SettleCharge(w)
         \/ UNCHANGED <<request, adjustments, entries>>
  PROVE  ReservationEnds'
<1>1. CASE UNCHANGED <<request, adjustments, entries>>
  BY <1>1, RowsGrowSame, ReservationStays DEF Waits
<1>2. CASE \E n \in Spends : Spend(n)
  <2>1. PICK n \in Spends : Spend(n)
    BY <1>2
  <2>2. UNCHANGED <<request, adjustments>> /\ entries' = Posted(Key("spend", n, None), -1)
    BY <2>1 DEF Spend
  <2>3. entries \subseteq entries' /\ \A e \in entries' : e \in entries \/ e.key = Key("spend", n, None)
    BY <2>2, PostedGrows
  <2>4. \A e \in entries' : e \in entries \/ \A c : e.key # Reserve(c)
    BY <2>3 DEF Key, Reserve
  <2> QED
    BY <2>2, <2>3, <2>4, RowsGrowSame, ReservationStays DEF Waits
<1>3. CASE GrantMonth
  <2>1. UNCHANGED <<request, adjustments>> /\ entries' = Posted(Month(1), Credits)
    BY <1>3 DEF GrantMonth
  <2>2. entries \subseteq entries' /\ \A e \in entries' : e \in entries \/ e.key = Month(1)
    BY <2>1, PostedGrows
  <2>3. \A e \in entries' : e \in entries \/ \A c : e.key # Reserve(c)
    BY <2>2 DEF Key, Reserve, Month
  <2> QED
    BY <2>1, <2>2, <2>3, RowsGrowSame, ReservationStays DEF Waits
<1>4. ASSUME NEW w \in {"asker", "tick"}, SettleCharge(w) PROVE ReservationEnds'
  <2>1. w \in Hands /\ hands[w].pc = "settle" /\ adjustments' = adjustments
    BY <1>4 DEF SettleCharge, Hands
  <2>2. CASE UNCHANGED <<request, entries>>
    BY <1>1, <2>1, <2>2
  <2>3. CASE ~Settled
    <3>1. Outstanding = {}
      BY <2>1, <2>3, UnsettledIsUntouched, NoneReserved DEF Untouched
    <3>2. entries' = entries \/ entries' = Posted(Granted, Credits)
      BY <1>4 DEF SettleCharge, Settle, ChargeFailed, QueueAutomaticRefund, GrantPurchase
    <3>3. entries \subseteq entries' /\ \A e \in entries' : e \in entries \/ e.key = Granted
      BY <3>2, PostedGrows
    <3>4. \A e \in entries' : e \in entries \/ \A c : e.key # Reserve(c)
      BY <3>3 DEF Key, Reserve, Granted
    <3> QED
      BY <2>1, <3>1, <3>3, <3>4, RowsGrowSame, ReservationStays
  <2> QED
    BY <1>4, <2>2, <2>3 DEF SettleCharge, Settle
<1> QED
  BY <1>1, <1>2, <1>3, <1>4

LEMMA RequestsReserve ==
  ASSUME IInv, ReservationEnds,
         \/ RequestRefund \/ CancelRefundRequest \/ RefuseRefund \/ ApproveRefund
         \/ Submit("staff") \/ Submit("tick") \/ Claim \/ Exhaust
  PROVE  ReservationEnds'
<1>1. request \in Request /\ request.cycle \in Cycles
  BY RefundsTyped
<1>2. adjustments' = adjustments /\ RowsGrow
  <2>1. adjustments' = adjustments
    BY DEF RequestRefund, CancelRefundRequest, RefuseRefund, CloseRequest, ApproveRefund, Submit, Claim,
         Exhaust, Undisturbed
  <2> QED
    BY <2>1, RowsGrowSame
<1>3. CASE RequestRefund \/ CancelRefundRequest \/ RefuseRefund
  <2>1. ~Waits /\ entries' = entries
    BY <1>3 DEF RequestRefund, CancelRefundRequest, RefuseRefund, CloseRequest, Waits
  <2> QED
    BY <1>2, <2>1, ReservationStays
<1>4. CASE ApproveRefund
  <2>1. ~Waits
    BY <1>4 DEF ApproveRefund, Waits
  <2>2. CASE entries' = entries
    BY <1>2, <2>1, <2>2, ReservationStays
  <2>3. CASE entries' = Posted(Reserve(request.cycle), -Credits) /\ Balance >= Credits
    <3>1. request'.cycle = request.cycle /\ request'.status = "PROCESSING"
      BY <1>1, <1>4, <2>3 DEF ApproveRefund, Request
    <3>2. entries \subseteq entries' /\ \A e \in entries' : e \in entries \/ e.key = Reserve(request.cycle)
      BY <2>3, PostedGrows
    <3>3. /\ Outstanding' \subseteq Outstanding \cup {request.cycle}
          /\ ReversedTwice => ReversedTwice'
      BY <1>2, <3>2, OutstandingShrinks
    <3> QED
      BY <2>1, <3>1, <3>3 DEF ReservationEnds, Waits
  <2> QED
    BY <1>4, <2>2, <2>3 DEF ApproveRefund
<1>5. CASE Submit("staff") \/ Submit("tick") \/ Claim
  <2>1. entries' = entries
    BY <1>5 DEF Submit, Claim
  <2>2. request'.cycle = request.cycle /\ request'.status = request.status /\ request'.exhausted = request.exhausted
    <3>1. \/ request' = request
          \/ \E r : request' = [request EXCEPT !.ref = r, !.posted = TRUE]
          \/ request' = [request EXCEPT !.posted = TRUE]
          \/ \E n : request' = [request EXCEPT !.attempts = n]
      BY <1>5, Zenon DEF Submit, Claim, SubmitRefundCycle, Discover, Post, PostRejected, PostLost
    <3> QED
      BY <1>1, <3>1 DEF Request
  <2> QED
    BY <1>2, <2>1, <2>2, ReservationStays DEF Waits
<1>6. CASE Exhaust
  <2>1. entries' = entries
    BY <1>6 DEF Exhaust
  <2>2. request'.cycle = request.cycle /\ (Waits => Waits')
    <3>1. CASE request' = request
      BY <3>1 DEF Waits
    <3>2. CASE request' = [Leaves("NEEDS_REVIEW") EXCEPT !.exhausted = TRUE]
      <4>1. Leaves("NEEDS_REVIEW") = [request EXCEPT !.status = "NEEDS_REVIEW", !.posted = FALSE,
                                        !.attempts = 0, !.exhausted = FALSE]
        BY DEF Leaves
      <4>2. request'.status = "NEEDS_REVIEW" /\ request'.exhausted = TRUE /\ request'.cycle = request.cycle
        BY <1>1, <3>2, <4>1 DEF Request
      <4> QED
        BY <4>2 DEF Waits
    <3> QED
      BY <1>6, <3>1, <3>2 DEF Exhaust
  <2> QED
    BY <1>2, <2>1, <2>2, ReservationStays
<1> QED
  BY <1>3, <1>4, <1>5, <1>6

LEMMA ActsForItsCycle ==
  ASSUME NEW h, NEW adopt
  PROVE  /\ ActsFor(h, adopt) # 0 => BoundTo(h, adopt) = ActsFor(h, adopt)
         /\ h.ref # None /\ adjustments[h.ref].cycle # 0 => BoundTo(h, adopt) = adjustments[h.ref].cycle
<1> DEFINE b == BoundTo(h, adopt)
<1>1. CASE b # 0
  <2>1. ActsFor(h, adopt) \in {0, b}
    <3>1. RefundCycleBinding(h.cycle, h.ref, b, adopt) \in {0, b}
      <4> HIDE DEF b
      <4> QED
        BY <1>1 DEF RefundCycleBinding
    <3> QED
      BY <3>1 DEF ActsFor
  <2> QED
    BY <2>1 DEF BoundTo
<1>2. CASE b = 0
  <2>1. b = RefundCycleBinding(h.cycle, h.ref, 0, adopt)
    BY <1>2 DEF BoundTo
  <2>2. ActsFor(h, adopt) = RefundCycleBinding(h.cycle, h.ref, 0, adopt)
    BY <1>2 DEF ActsFor
  <2>3. ActsFor(h, adopt) = 0
    BY <1>2, <2>1, <2>2
  <2> HIDE DEF b
  <2>4. ASSUME h.ref # None, adjustments[h.ref].cycle # 0 PROVE FALSE
    BY <1>2, <2>4 DEF BoundTo, b
  <2> QED
    BY <2>3, <2>4 DEF b
<1> QED
  BY <1>1, <1>2

\* An answer without effect binds its row and takes nothing back.
LEMMA RecordGrows ==
  ASSUME IInv, NEW w \in Hands, hands[w].pc = "apply", NEW status,
         Record(hands[w], [adjustments[hands[w].ref] EXCEPT !.cycle = BoundTo(hands[w], FALSE), !.status = status]),
         hands[w].ref # None =>
           (Over(adjustments[hands[w].ref].status) => status = adjustments[hands[w].ref].status)
  PROVE  RowsGrow
<1> DEFINE x == hands[w].ref
           b == BoundTo(hands[w], FALSE)
           row == [adjustments[x] EXCEPT !.cycle = b, !.status = status]
<1>1. CASE x = None
  BY <1>1, RowsGrowSame DEF Record
<1>2. CASE x # None
  <2>1. x \in Refs /\ adjustments[x] \in Adjustment /\ adjustments \in [Refs -> Adjustment]
    BY <1>2, AnswerIs DEF IInv, PaymentsTypeOK, RowsTyped
  <2>2. adjustments[x].cycle # 0 => b = adjustments[x].cycle
    BY <1>2, ActsForItsCycle
  <2>3. adjustments' = [adjustments EXCEPT ![x] = row]
    BY <1>2 DEF Record
  <2> HIDE DEF b
  <2>4. row.cycle = b /\ row.status = status
    BY <2>1 DEF Adjustment
  <2> HIDE DEF row
  <2>5. adjustments'[x] = row /\ \A r \in Refs \ {x} : adjustments'[r] = adjustments[r]
    BY <2>1, <2>3
  <2>6. /\ adjustments[x].cycle # 0 => row.cycle = adjustments[x].cycle
        /\ Over(adjustments[x].status) => row.status = adjustments[x].status
    BY <1>2, <2>2, <2>4
  <2>7. adjustments[x].status = "REVERSED" => row.status = "REVERSED"
    BY <2>6 DEF Over
  <2> HIDE DEF x
  <2>8. ASSUME NEW r \in Refs
        PROVE  /\ adjustments[r].cycle # 0 => adjustments'[r].cycle = adjustments[r].cycle
               /\ Over(adjustments[r].status) => Over(adjustments'[r].status)
               /\ adjustments[r].status = "REVERSED" => adjustments'[r].status = "REVERSED"
    <3>1. CASE r = x
      BY <2>5, <2>6, <2>7, <3>1
    <3>2. CASE r # x
      BY <2>5, <3>2
    <3> QED
      BY <3>1, <3>2
  <2> QED
    BY <2>8 DEF RowsGrow
<1> QED
  BY <1>1, <1>2

LEMMA PendingReserves ==
  ASSUME IInv, ReservationEnds, NEW w \in Hands, hands[w].pc = "apply", ApplyPending(hands[w])
  PROVE  ReservationEnds'
<1> DEFINE h == hands[w]
           s == IF adjustments[h.ref].status = "NONE" THEN "PENDING" ELSE adjustments[h.ref].status
<1>1. Record(h, [adjustments[h.ref] EXCEPT !.cycle = BoundTo(h, FALSE), !.status = s])
  <2>1. CASE h.ref = None
    BY <2>1 DEF ApplyPending, Record
  <2>2. CASE h.ref # None
    <3>1. adjustments[h.ref] \in Adjustment
      BY <2>2, AnswerIs
    <3>2. [adjustments[h.ref] EXCEPT !.cycle = BoundTo(h, FALSE), !.status = IF @ = "NONE" THEN "PENDING" ELSE @]
            = [adjustments[h.ref] EXCEPT !.cycle = BoundTo(h, FALSE), !.status = s]
      BY <3>1 DEF Adjustment
    <3> QED
      BY <3>2 DEF ApplyPending
  <2> QED
    BY <2>1, <2>2
<1>2. Over(adjustments[h.ref].status) => s = adjustments[h.ref].status
  BY DEF Over
<1> HIDE DEF s
<1>3. RowsGrow
  BY <1>1, <1>2, RecordGrows
<1>4. entries' = entries /\ (request' = request \/ request' = [request EXCEPT !.ref = h.ref])
  BY DEF ApplyPending
<1>5. request'.cycle = request.cycle /\ request'.status = request.status /\ request'.exhausted = request.exhausted
  BY <1>4, RefundsTyped DEF Request
<1> QED
  BY <1>3, <1>4, <1>5, ReservationStays DEF Waits

\* What was reserved under the cycle comes back.
LEMMA GivenBackKnown ==
  ASSUME NEW c, entries' = GivenBack(c)
  PROVE  /\ entries \subseteq entries'
         /\ \A e \in entries' : e \in entries \/ \A k : e.key # Reserve(k)
         /\ Known(Reserve(c)) => \E e \in entries' : e.key = Release(c)
<1> DEFINE d == -Sum({e \in entries : e.key = Reserve(c)})
<1>1. CASE ~Known(Reserve(c))
  BY <1>1 DEF GivenBack
<1>2. CASE Known(Reserve(c))
  <2>1. entries' = Posted(Release(c), d)
    BY <1>2 DEF GivenBack
  <2> HIDE DEF d
  <2>2. entries \subseteq entries' /\ \A e \in entries' : e \in entries \/ e.key = Release(c)
    BY <2>1, PostedGrows
  <2>3. \E e \in entries' : e.key = Release(c)
    <3>1. CASE Known(Release(c))
      BY <2>2, <3>1 DEF Known
    <3>2. CASE ~Known(Release(c))
      <4>1. [key |-> Release(c), delta |-> d] \in entries'
        BY <2>1, <3>2 DEF Posted
      <4> QED
        BY <4>1
    <3> QED
      BY <3>1, <3>2
  <2>4. \A e \in entries' : e \in entries \/ \A k : e.key # Reserve(k)
    BY <2>2 DEF Reserve, Release, Key
  <2> QED
    BY <2>2, <2>3, <2>4
<1> QED
  BY <1>1, <1>2

LEMMA ReleaseReserves ==
  ASSUME IInv, ReservationEnds, NEW w \in Hands, hands[w].pc = "apply", ReleaseRefundReservation(hands[w])
  PROVE  ReservationEnds'
<1> DEFINE h == hands[w]
           c == ActsFor(h, FALSE)
           ends == ~FinalAlready(h) /\ Waiting(c)
           s == IF FinalAlready(h) THEN adjustments[h.ref].status ELSE "FAILED"
<1>1. Record(h, [adjustments[h.ref] EXCEPT !.cycle = BoundTo(h, FALSE), !.status = s])
  <2>1. CASE h.ref = None
    BY <2>1 DEF ReleaseRefundReservation, Record
  <2>2. CASE h.ref # None
    <3>1. adjustments[h.ref] \in Adjustment
      BY <2>2, AnswerIs
    <3>2. [adjustments[h.ref] EXCEPT !.cycle = BoundTo(h, FALSE), !.status = IF FinalAlready(h) THEN @ ELSE "FAILED"]
            = [adjustments[h.ref] EXCEPT !.cycle = BoundTo(h, FALSE), !.status = s]
      BY <3>1 DEF Adjustment
    <3> QED
      BY <3>2 DEF ReleaseRefundReservation
  <2> QED
    BY <2>1, <2>2
<1>2. h.ref # None => (Over(adjustments[h.ref].status) => s = adjustments[h.ref].status)
  BY DEF FinalAlready
<1> HIDE DEF s
<1>3. RowsGrow
  BY <1>1, <1>2, RecordGrows
<1>4. CASE ~ends
  <2>1. request' = request /\ entries' = entries
    BY <1>4 DEF ReleaseRefundReservation
  <2> QED
    BY <1>3, <2>1, ReservationStays DEF Waits
<1>5. CASE ends
  <2>1. entries' = GivenBack(c) /\ c = request.cycle
    BY <1>5 DEF ReleaseRefundReservation, Waiting
  <2> HIDE DEF ends, h
  <2>2. /\ entries \subseteq entries' /\ \A e \in entries' : e \in entries \/ \A k : e.key # Reserve(k)
        /\ Known(Reserve(request.cycle)) => \E e \in entries' : e.key = Release(request.cycle)
    BY <2>1, GivenBackKnown
  <2>3. /\ Outstanding' \subseteq Outstanding \cup {0}
        /\ ReversedTwice => ReversedTwice'
    BY <1>3, <2>2, OutstandingShrinks
  <2>4. request.cycle \in Outstanding => request.cycle \notin Outstanding'
    BY <2>2 DEF Outstanding, Known
  <2>5. 0 \notin Outstanding'
    BY PaymentsAssumption DEF Outstanding
  <2> QED
    BY <2>3, <2>4, <2>5 DEF ReservationEnds
<1> QED
  BY <1>4, <1>5

\* A confirmed answer ends the reservation of the cycle it is bound to.
LEMMA ConfirmedGrows ==
  ASSUME IInv, NEW w \in Hands, hands[w].pc = "apply", Confirms(hands[w]),
         NEW c, c = ActsFor(hands[w], hands[w].saw = "succeeded"), Moved(hands[w], c)
  PROVE  /\ RowsGrow /\ hands[w].ref \in Refs
         /\ adjustments[hands[w].ref].status # "REVERSED"
         /\ hands[w].saw = "reversed" => adjustments'[hands[w].ref].status = "REVERSED"
         /\ Over(adjustments'[hands[w].ref].status)
         /\ c # 0 => adjustments'[hands[w].ref].cycle = c /\ c = request.cycle
<1> DEFINE x == hands[w].ref
<1>1. PICK row \in Adjustment :
        /\ adjustments' = [adjustments EXCEPT ![x] = row]
        /\ row.status = IF hands[w].saw = "reversed" THEN "REVERSED" ELSE "SUCCEEDED"
        /\ row.cycle = BoundTo(hands[w], hands[w].saw = "succeeded")
  BY ConfirmedRow
<1>2. x \in Refs /\ x # None /\ adjustments[x].status # "REVERSED" /\ adjustments \in [Refs -> Adjustment]
  BY ConfirmedMoney DEF Confirms, IInv, PaymentsTypeOK, RowsTyped
<1>3. adjustments'[x] = row /\ \A r \in Refs \ {x} : adjustments'[r] = adjustments[r]
  BY <1>1, <1>2
<1>4. c # 0 => row.cycle = c /\ c = request.cycle
  BY <1>1, ActsForItsCycle, AnswerIs
<1>5. adjustments[x].cycle # 0 => row.cycle = adjustments[x].cycle
  BY <1>1, <1>2, ActsForItsCycle
<1>6. Over(row.status) /\ (hands[w].saw = "reversed" => row.status = "REVERSED")
  BY <1>1 DEF Over
<1> HIDE DEF x
<1>7. RowsGrow
  <2>1. ASSUME NEW r \in Refs
        PROVE  /\ adjustments[r].cycle # 0 => adjustments'[r].cycle = adjustments[r].cycle
               /\ Over(adjustments[r].status) => Over(adjustments'[r].status)
               /\ adjustments[r].status = "REVERSED" => adjustments'[r].status = "REVERSED"
    <3>1. CASE r = x
      BY <1>2, <1>3, <1>5, <1>6, <3>1
    <3>2. CASE r # x
      BY <1>3, <3>2
    <3> QED
      BY <3>1, <3>2
  <2> QED
    BY <2>1 DEF RowsGrow
<1> QED
  BY <1>2, <1>3, <1>4, <1>6, <1>7 DEF x

\* A reversal that is contained outside its cycle finds nothing reserved, or is the second.
LEMMA ContainedAlone ==
  ASSUME IInv, NEW w \in Hands, hands[w].pc = "apply", Confirms(hands[w]), Contained(hands[w], 0), RowsGrow,
         hands[w].ref \in Refs, adjustments'[hands[w].ref].status = "REVERSED"
  PROVE  Outstanding = {} \/ ReversedTwice'
<1>1. payment.auto \/ sub = "CANCELLED"
  BY DEF Contained
<1>2. payment.kind \in {"PACK", "PLAN"}
  BY RefundsTyped, PaymentsAssumption DEF Payment
<1>3. CASE payment.kind = "PACK"
  <2>1. ~payment.granted
    BY <1>1, <1>3 DEF IInv, Kept
  <2>2. \A c \in Cycles : ~Known(Reserve(c))
    BY <2>1 DEF IInv, Fulfilment, Known, Reserve, Key
  <2> QED
    BY <2>2, NoneReserved
<1>4. CASE payment.kind = "PLAN" /\ \E c \in Cycles : Known(Reserve(c))
  <2>1. PICK r \in Refs : adjustments[r].status = "REVERSED"
    BY <1>4 DEF IInv, Kept
  <2>2. r # hands[w].ref
    BY <2>1 DEF Confirms
  <2>3. adjustments'[r].status = "REVERSED"
    BY <2>1 DEF RowsGrow
  <2>4. \E q \in Refs : /\ r # q
                        /\ adjustments'[r].status = "REVERSED" /\ adjustments'[q].status = "REVERSED"
    BY <2>2, <2>3
  <2> QED
    BY <2>4 DEF ReversedTwice
<1>5. CASE ~\E c \in Cycles : Known(Reserve(c))
  BY <1>5, NoneReserved
<1> QED
  BY <1>2, <1>3, <1>4, <1>5

LEMMA ConfirmedReserves ==
  ASSUME IInv, ReservationEnds, NEW w \in Hands, hands[w].pc = "apply", Confirms(hands[w]),
         NEW c, c = ActsFor(hands[w], hands[w].saw = "succeeded"), Moved(hands[w], c),
         entries' = EntriesAfter(hands[w], c, NetAfter(hands[w])),
         request' = RequestAfter(hands[w], c, NetAfter(hands[w]))
  PROVE  ReservationEnds'
<1> DEFINE h == hands[w]
           net == NetAfter(h)
           again == Contained(h, c) /\ net = 0
<1>1. /\ RowsGrow /\ h.ref \in Refs
      /\ h.saw = "reversed" => adjustments'[h.ref].status = "REVERSED"
      /\ Over(adjustments'[h.ref].status)
      /\ c # 0 => adjustments'[h.ref].cycle = c /\ c = request.cycle
  BY ConfirmedGrows
<1>2. \A e \in entries' : e \in entries \/ (e.key = Reserve(request.cycle + 1) /\ again) \/ e.key[1] = "move"
  BY ConfirmedEntries
<1>3. \A e \in entries' : \/ e \in entries
                          \/ e.key = Reserve(request.cycle + 1) /\ again
                          \/ \A k : e.key # Reserve(k)
  BY <1>2 DEF Reserve, Key
<1>4. entries \subseteq entries'
  BY DEF EntriesAfter, WithMovement, Posted
<1>5. 0 \notin Outstanding'
  BY PaymentsAssumption DEF Outstanding
<1>6. c # 0 => request.cycle \notin Outstanding'
  BY <1>1 DEF Outstanding
<1>7. CASE again
  <2>1. request'.cycle = request.cycle + 1 /\ request'.status = "PROCESSING"
    BY <1>7 DEF RequestAfter, NewCycle
  <2>2. /\ Outstanding' \subseteq Outstanding \cup {request.cycle + 1}
        /\ ReversedTwice => ReversedTwice'
    BY <1>1, <1>3, <1>4, OutstandingShrinks
  <2>3. c = 0 => Outstanding = {} \/ ReversedTwice'
    BY <1>1, <1>7, ContainedAlone DEF Contained
  <2> HIDE DEF again, h
  <2> QED
    BY <1>6, <2>1, <2>2, <2>3 DEF ReservationEnds
<1>8. CASE ~again
  <2>1. \A e \in entries' : e \in entries \/ \A k : e.key # Reserve(k)
    BY <1>3, <1>8
  <2>2. /\ Outstanding' \subseteq Outstanding \cup {0}
        /\ ReversedTwice => ReversedTwice'
    BY <1>1, <1>4, <2>1, OutstandingShrinks
  <2>3. c = 0 => request' = request
    BY <1>8 DEF RequestAfter
  <2> HIDE DEF again, h
  <2> QED
    BY <1>5, <1>6, <2>2, <2>3 DEF ReservationEnds
<1> QED
  BY <1>7, <1>8

LEMMA AppliedReserves ==
  ASSUME IInv, ReservationEnds, NEW w \in Hands, hands[w].pc = "apply", ApplyConfirmedAdjustment(hands[w])
  PROVE  ReservationEnds'
<1> DEFINE h == hands[w]
           a == adjustments[h.ref]
<1>1. h.saw \in {"succeeded", "reversed"}
  BY DEF ApplyConfirmedAdjustment
<1>2. CASE ~Ready
  <2>1. UNCHANGED <<request, adjustments, entries>>
    BY <1>2 DEF ApplyConfirmedAdjustment
  <2> QED
    BY <2>1, OthersReserveNothing
<1>3. CASE Ready /\ a.status = "REVERSED"
  <2>1. request' = request /\ entries' = entries /\ Record(h, [a EXCEPT !.cycle = BoundTo(h, FALSE)])
    BY <1>3 DEF ApplyConfirmedAdjustment
  <2>2. Record(h, [a EXCEPT !.cycle = BoundTo(h, FALSE), !.status = a.status])
    <3>1. CASE h.ref = None
      BY <2>1, <3>1 DEF Record
    <3>2. CASE h.ref # None
      <4>1. a \in Adjustment
        BY <3>2, AnswerIs
      <4>2. [a EXCEPT !.cycle = BoundTo(h, FALSE)] = [a EXCEPT !.cycle = BoundTo(h, FALSE), !.status = a.status]
        BY <4>1 DEF Adjustment
      <4> QED
        BY <2>1, <4>2
    <3> QED
      BY <3>1, <3>2
  <2> DEFINE s == a.status
  <2>3. s = a.status
    OBVIOUS
  <2> HIDE DEF s
  <2>4. RowsGrow
    BY <2>2, <2>3, RecordGrows
  <2> QED
    BY <2>1, <2>4, ReservationStays DEF Waits
<1>4. CASE Ready /\ a.status # "REVERSED"
  <2>1. Confirms(h)
    BY <1>1, <1>4 DEF Confirms
  <2> DEFINE c == ActsFor(h, h.saw = "succeeded")
  <2>2. c = ActsFor(h, h.saw = "succeeded" /\ a.status # "REVERSED")
    <3>1. CASE h.saw = "succeeded"
      BY <1>4, <3>1
    <3>2. CASE h.saw # "succeeded"
      BY <1>4, <3>2
    <3> QED
      BY <3>1, <3>2
  <2>3. ~OnlyRecorded(h, c)
    BY <2>1, ConfirmedMoney DEF OnlyRecorded
  <2>4. /\ Moved(h, c)
        /\ entries' = EntriesAfter(h, c, NetAfter(h))
        /\ request' = RequestAfter(h, c, NetAfter(h))
    BY <1>4, <2>2, <2>3 DEF ApplyConfirmedAdjustment
  <2> QED
    BY <2>1, <2>4, ConfirmedReserves
<1> QED
  BY <1>2, <1>3, <1>4

LEMMA ReservationInductive ==
  IInv /\ ReservationEnds /\ [Next]_vars => ReservationEnds'
<1> SUFFICES ASSUME IInv, ReservationEnds, [Next]_vars PROVE ReservationEnds'
  OBVIOUS
<1>1. ASSUME NEW w \in Hands, Apply(w) PROVE ReservationEnds'
  <2>1. /\ hands[w].pc = "apply"
        /\ ApplyPending(hands[w]) \/ ReleaseRefundReservation(hands[w]) \/ ApplyConfirmedAdjustment(hands[w])
    BY <1>1 DEF Apply
  <2> QED
    BY <2>1, PendingReserves, ReleaseReserves, AppliedReserves
<1>2. CASE \E w \in Hooks : Apply(w)
  BY <1>1, <1>2 DEF Hands
<1>3. CASE Apply("staff") \/ Apply("tick")
  BY <1>1, <1>3 DEF Hands
<1>4. CASE \/ RequestRefund \/ CancelRefundRequest \/ RefuseRefund \/ ApproveRefund
           \/ Submit("staff") \/ Submit("tick") \/ Claim \/ Exhaust
  BY <1>4, RequestsReserve
<1>5. CASE (\E n \in Spends : Spend(n)) \/ GrantMonth \/ \E w \in {"asker", "tick"} : SettleCharge(w)
  BY <1>5, OthersReserveNothing
<1>6. CASE \/ PlanEnds
           \/ PageMade \/ CreateFails \/ CreateRejected \/ MarkUncertain \/ PersistCheckoutSession
           \/ CheckBegins \/ CheckEnds \/ AskCharge \/ VerifyRefund
           \/ \E w \in Hooks : \E r \in Refs : HookBegins(w, r)
           \/ Pays("failed", 0) \/ \E amount \in 1 .. Amount : Pays("paid", amount)
           \/ \E r \in Ours : Moves(r, "pending", "succeeded") \/ Moves(r, "pending", "failed")
           \/ \E r \in Refs : Moves(r, "succeeded", "reversed")
           \/ \E r \in Disputes, amount \in Disputed[payment.kind] : Dispute(r, amount)
           \/ \E w \in Hands : Dies(w)
           \/ UNCHANGED vars
  <2>1. UNCHANGED <<request, adjustments, entries>>
    BY <1>6 DEF PlanEnds, PageMade, CreateFails, CreateRejected, MarkUncertain, PersistCheckoutSession,
         CheckBegins, CheckEnds, AskCharge, VerifyRefund, HookBegins, Pays, Moves, Dispute, Dies, Unfinished, vars
  <2> QED
    BY <2>1, OthersReserveNothing
<1> QED
  BY <1>2, <1>3, <1>4, <1>5, <1>6 DEF Next, PassStep

\* Credits that approveRefund set aside are used by a confirmed refund or given back when
\* their request ends, unless a second reversal reserved them once more.
THEOREM ReservationsEnd == ASSUME ~Slow PROVE Spec => []ReservationEnds
<1>1. Init => ReservationEnds
  BY DEF Init, ReservationEnds, Outstanding, Known
<1>2. IInv /\ ReservationEnds /\ [Next]_vars => ReservationEnds'
  BY ReservationInductive
<1> QED
  BY <1>1, <1>2, Invariance, PTL DEF Spec

-----------------------------------------------------------------------------
(* One refund alive.                                                       *)

Used(r)  == provider.refunds[r].state # "none"
Since(r) == provider.refunds[r].since

\* A refund that returned nothing for good, and is known to have.
Dead(r) == provider.refunds[r].state = "failed" \/ adjustments[r].status = "REVERSED"

Exempt == \E r \in Disputes : provider.refunds[r].state = "reversed"

\* A cycle asks for one refund, and the next is begun when that of the one before is dead.
OnePerCycle ==
  /\ \A q \in Ours : Used(q) => 0 < Since(q) /\ Since(q) <= request.cycle
  /\ \A q, r \in Ours : Used(q) /\ Used(r) /\ Since(q) = Since(r) => q = r
  /\ \A q \in Ours : Used(q) /\ Since(q) < request.cycle => Dead(q)
  /\ request.status \in {"REQUESTED", "REFUSED", "CANCELLED"} => \A q \in Ours : Used(q) => Dead(q)

\* A row of ours is bound to the cycle it was asked in, and the request knows that of its own.
BoundToItsOwn ==
  /\ \A q \in Ours : adjustments[q].cycle # 0 => Used(q) /\ adjustments[q].cycle = Since(q)
  /\ request.ref \in Ours => Since(request.ref) = request.cycle
  /\ \A r \in Disputes : provider.refunds[r].state \in {"none", "succeeded", "reversed"}

\* Who acts for a cycle holds that cycle's refund; who was refused one knows there is none.
HolderOK(w, h, m, c) ==
  /\ h.cycle # 0 => w \in {"staff", "tick"} /\ h.pc \in {"submit", "verify", "exhaust", "apply"}
  /\ h.pc \in {"verify", "apply"} /\ h.ref \in Ours /\ h.cycle # 0 => m[h.ref].since = h.cycle
  /\ h.pc = "apply" /\ h.ref = None /\ h.saw = "failed" /\ h.cycle # 0 /\ h.cycle = c
       => \A q \in Ours : m[q].state # "none" => m[q].since # c

Holders ==
  /\ \A w \in Hands : HolderOK(w, hands[w], provider.refunds, request.cycle)
  /\ hands["staff"].cycle = request.cycle /\ hands["tick"].cycle = request.cycle => request.cycle = 0
  /\ request.status = "REQUESTED" => \A w \in Hands : hands[w].cycle # request.cycle

Singly == OnePerCycle /\ BoundToItsOwn /\ Holders

-----------------------------------------------------------------------------
\* The provider has the same refunds of ours, asked for in the same cycles.
SameRefunds ==
  /\ \A q \in Ours : (Used(q)' <=> Used(q)) /\ Since(q)' = Since(q)
  /\ \A r \in Disputes : provider'.refunds[r].state \in {"none", "succeeded", "reversed"}

Closed == {"REQUESTED", "REFUSED", "CANCELLED"}

LEMMA SameRefundsSame ==
  ASSUME BoundToItsOwn, provider'.refunds = provider.refunds PROVE SameRefunds
BY DEF SameRefunds, BoundToItsOwn, Used, Since

LEMMA OnePerCycleStays ==
  ASSUME OnePerCycle, SameRefunds, \A q \in Ours : Dead(q) => Dead(q)', request'.cycle = request.cycle,
         request'.status \in Closed => request.status \in Closed \/ \A q \in Ours : Used(q) => Dead(q)'
  PROVE  OnePerCycle'
BY DEF OnePerCycle, SameRefunds, Closed

LEMMA OnePerCycleNext ==
  ASSUME IInv, OnePerCycle, SameRefunds, \A q \in Ours : Used(q) => Dead(q)', request'.cycle = request.cycle + 1
  PROVE  OnePerCycle'
<1>1. request.cycle \in Nat /\ \A q \in Ours : Since(q) \in Nat
  BY RefundsTyped, CyclesAreNaturals DEF Since, Refund, Refs
<1>2. \A q \in Ours : Used(q) => Since(q) <= request'.cycle
  BY <1>1 DEF OnePerCycle
<1> QED
  BY <1>2 DEF OnePerCycle, SameRefunds

LEMMA BoundStays ==
  ASSUME BoundToItsOwn, SameRefunds,
         \A q \in Ours : adjustments'[q].cycle \in {0, adjustments[q].cycle}
                           \/ (Used(q) /\ adjustments'[q].cycle = Since(q)),
         request'.ref \in Ours => provider.refunds[request'.ref].since = request'.cycle
  PROVE  BoundToItsOwn'
BY DEF BoundToItsOwn, SameRefunds, Since

LEMMA HolderStays ==
  ASSUME NEW w, NEW h, NEW m, NEW c, NEW n, HolderOK(w, h, m, c),
         \A q \in Ours : (n[q].state # "none" <=> m[q].state # "none") /\ n[q].since = m[q].since
  PROVE  HolderOK(w, h, n, c)
BY DEF HolderOK

LEMMA IdleHolds == \A w, m, c : HolderOK(w, Idle, m, c)
BY IdleIsTyped DEF HolderOK

LEMMA HoldersStay ==
  ASSUME IInv, Holders, SameRefunds, NEW w \in Hands, NEW h, hands' = [hands EXCEPT ![w] = h],
         HolderOK(w, h, provider.refunds, request.cycle), h.cycle \in {0, hands[w].cycle},
         request'.cycle = request.cycle, request'.status = "REQUESTED" => request.status = "REQUESTED"
  PROVE  Holders'
<1>1. /\ hands'[w] = h /\ \A v \in Hands \ {w} : hands'[v] = hands[v]
  BY DEF IInv, PaymentsTypeOK
<1>2. \A v \in Hands : HolderOK(v, hands'[v], provider.refunds, request.cycle)
  BY <1>1 DEF Holders
<1>3. \A v \in Hands : HolderOK(v, hands'[v], provider'.refunds, request.cycle)
  BY <1>2, HolderStays DEF SameRefunds, Used, Since
<1>4. \A v \in Hands : hands'[v].cycle \in {0, hands[v].cycle}
  BY <1>1
<1>5. "staff" \in Hands /\ "tick" \in Hands
  BY DEF Hands
<1>6. hands'["staff"].cycle = request.cycle /\ hands'["tick"].cycle = request.cycle => request.cycle = 0
  BY <1>4, <1>5 DEF Holders
<1>7. request.status = "REQUESTED" => request.cycle # 0
  BY DEF IInv, Kept
<1>8. request.status = "REQUESTED" => \A v \in Hands : hands'[v].cycle # request.cycle
  BY <1>4, <1>7 DEF Holders
<1> QED
  BY <1>3, <1>6, <1>8 DEF Holders

LEMMA HoldersNext ==
  ASSUME IInv, Holders, SameRefunds, NEW w \in Hands, NEW h, hands' = [hands EXCEPT ![w] = h],
         HolderOK(w, h, provider.refunds, request.cycle), h.cycle \in {0, hands[w].cycle},
         request'.cycle = request.cycle + 1
  PROVE  Holders'
<1>1. /\ hands'[w] = h /\ \A v \in Hands \ {w} : hands'[v] = hands[v]
  BY DEF IInv, PaymentsTypeOK
<1>2. request.cycle \in Nat
  BY RefundsTyped
<1>3. \A v \in Hands : hands'[v].cycle # request'.cycle
  <2>1. ASSUME NEW v \in Hands PROVE hands[v].cycle \in Nat /\ hands[v].cycle <= request.cycle
    BY RefundsTyped, CyclesAreNaturals DEF Hand, HandOK
  <2>2. ASSUME NEW v \in Hands PROVE hands'[v].cycle \in {0, hands[v].cycle}
    BY <1>1
  <2> QED
    BY <1>2, <2>1, <2>2
<1>4. \A v \in Hands : HolderOK(v, hands'[v], provider.refunds, request.cycle)
  BY <1>1 DEF Holders
<1>5. \A v \in Hands : HolderOK(v, hands'[v], provider'.refunds, request.cycle)
  BY <1>4, HolderStays DEF SameRefunds, Used, Since
<1>6. \A v \in Hands : HolderOK(v, hands'[v], provider'.refunds, request'.cycle)
  BY <1>3, <1>5 DEF HolderOK
<1>7. "staff" \in Hands
  BY DEF Hands
<1> QED
  BY <1>3, <1>6, <1>7 DEF Holders

\* A process moves, and no refund and no row does.
LEMMA StillSingly ==
  ASSUME IInv, Singly, provider'.refunds = provider.refunds, adjustments' = adjustments,
         request'.cycle = request.cycle, request'.ref = request.ref,
         request'.status = request.status \/ request'.status \notin Closed,
         NEW w \in Hands, NEW h, hands' = [hands EXCEPT ![w] = h],
         HolderOK(w, h, provider.refunds, request.cycle), h.cycle \in {0, hands[w].cycle}
  PROVE  Singly'
<1>1. SameRefunds
  BY SameRefundsSame DEF Singly
<1>2. \A q \in Ours : Dead(q) => Dead(q)'
  BY DEF Dead
<1>3. OnePerCycle'
  BY <1>1, <1>2, OnePerCycleStays DEF Singly
<1>4. request'.ref \in Ours => provider.refunds[request'.ref].since = request'.cycle
  BY DEF Singly, BoundToItsOwn, Since
<1>5. BoundToItsOwn'
  BY <1>1, <1>4, BoundStays DEF Singly
<1>6. Holders'
  BY <1>1, HoldersStay DEF Singly, Closed
<1> QED
  BY <1>3, <1>5, <1>6 DEF Singly

LEMMA StillIdle ==
  ASSUME IInv, Singly, provider'.refunds = provider.refunds, adjustments' = adjustments,
         request'.cycle = request.cycle, request'.ref = request.ref,
         request'.status = request.status \/ request'.status \notin Closed,
         NEW w \in Hands, NEW h, hands' = [hands EXCEPT ![w] = h], h.cycle = 0
  PROVE  Singly'
BY StillSingly DEF HolderOK

LEMMA NobodyMoves ==
  ASSUME IInv, Singly, provider'.refunds = provider.refunds, adjustments' = adjustments,
         request'.cycle = request.cycle, request'.ref = request.ref,
         request'.status = request.status \/ request'.status \notin Closed, hands' = hands
  PROVE  Singly'
<1>1. "staff" \in Hands /\ hands' = [hands EXCEPT !["staff"] = hands["staff"]]
  BY DEF Hands, IInv, PaymentsTypeOK
<1> DEFINE h == hands["staff"]
<1>2. HolderOK("staff", h, provider.refunds, request.cycle) /\ h.cycle \in {0, hands["staff"].cycle}
  BY <1>1 DEF Singly, Holders
<1>3. hands' = [hands EXCEPT !["staff"] = h]
  BY <1>1
<1> HIDE DEF h
<1> QED
  BY <1>1, <1>2, <1>3, StillSingly

\* Who settles, checks or makes a page acts for no cycle.
LEMMA CheckoutHands ==
  ASSUME IInv,
         \/ PageMade \/ CreateFails \/ CreateRejected \/ MarkUncertain \/ PersistCheckoutSession
         \/ CheckBegins \/ CheckEnds \/ AskCharge \/ \E w \in Hands : Dies(w)
  PROVE  /\ UNCHANGED <<request, adjustments>>
         /\ \E w \in Hands : \E h : hands' = [hands EXCEPT ![w] = h] /\ h.cycle = 0
<1>1. UNCHANGED <<request, adjustments>>
  BY DEF PageMade, CreateFails, CreateRejected, MarkUncertain, PersistCheckoutSession, CheckBegins,
       CheckEnds, AskCharge, Dies, Unfinished
<1>2. \E w \in Hands : \E h : hands' = [hands EXCEPT ![w] = h] /\ h.cycle = 0
  <2>1. /\ Idle.cycle = 0 /\ [Idle EXCEPT !.pc = "persist"].cycle = 0
        /\ [Idle EXCEPT !.pc = "uncertain"].cycle = 0
    BY DEF Idle
  <2>2. {"checkout", "asker", "tick"} \subseteq Hands
    BY DEF Hands
  <2>3. CASE PageMade \/ CreateFails
    BY <2>1, <2>2, <2>3 DEF PageMade, CreateFails, Becomes
  <2>4. CASE CreateRejected \/ MarkUncertain \/ PersistCheckoutSession \/ CheckEnds \/ \E w \in Hands : Dies(w)
    BY <2>1, <2>2, <2>4 DEF CreateRejected, MarkUncertain, PersistCheckoutSession, CheckEnds, Dies, Rest
  <2>5. CASE CheckBegins
    <3>1. PICK saw \in {"none", provider.charge} :
            hands' = [hands EXCEPT !["tick"] =
                        [Idle EXCEPT !.pc = IF saw = "none" THEN "check" ELSE "settle",
                                     !.saw = saw, !.amount = provider.paid, !.n = payment.checks]]
      BY <2>5 DEF CheckBegins, Becomes
    <3> DEFINE h == [Idle EXCEPT !.pc = IF saw = "none" THEN "check" ELSE "settle",
                                 !.saw = saw, !.amount = provider.paid, !.n = payment.checks]
    <3>2. h.cycle = 0
      BY DEF Idle
    <3> HIDE DEF h
    <3>3. hands' = [hands EXCEPT !["tick"] = h]
      BY <3>1 DEF h
    <3> QED
      BY <2>2, <3>2, <3>3
  <2>6. CASE AskCharge
    <3> DEFINE h == [Idle EXCEPT !.pc = "settle", !.saw = provider.charge, !.amount = provider.paid]
    <3>1. h.cycle = 0
      BY DEF Idle
    <3>2. hands' = [hands EXCEPT !["asker"] = h]
      BY <2>6 DEF AskCharge, Becomes
    <3> HIDE DEF h
    <3> QED
      BY <2>2, <3>1, <3>2
  <2> QED
    BY <2>3, <2>4, <2>5, <2>6
<1> QED
  BY <1>1, <1>2

\* The steps of the checkout and of a settlement that queues nothing, and those of the wallet.
LEMMA OthersAreSingle ==
  ASSUME IInv, Singly,
         \/ \E n \in Spends : Spend(n)
         \/ GrantMonth \/ PlanEnds
         \/ PageMade \/ CreateFails \/ CreateRejected \/ MarkUncertain \/ PersistCheckoutSession
         \/ CheckBegins \/ CheckEnds \/ AskCharge \/ Exhaust
         \/ Pays("failed", 0) \/ \E amount \in 1 .. Amount : Pays("paid", amount)
         \/ \E w \in Hands : Dies(w)
         \/ UNCHANGED vars
  PROVE  Singly'
<1>1. CASE \/ \E n \in Spends : Spend(n)
           \/ GrantMonth \/ PlanEnds
           \/ UNCHANGED vars
  <2>1. UNCHANGED <<request, adjustments, provider, hands>>
    BY <1>1 DEF Spend, GrantMonth, PlanEnds, vars
  <2> QED
    BY <2>1, NobodyMoves
<1>2. CASE Pays("failed", 0) \/ \E amount \in 1 .. Amount : Pays("paid", amount)
  <2>1. /\ UNCHANGED <<request, adjustments, hands>>
        /\ \E charge, amount : provider' = [provider EXCEPT !.charge = charge, !.paid = amount]
    BY <1>2 DEF Pays
  <2>2. provider'.refunds = provider.refunds
    BY <2>1, RefundsTyped DEF Provider
  <2> QED
    BY <2>1, <2>2, NobodyMoves
<1>3. CASE \/ PageMade \/ CreateFails \/ CreateRejected \/ MarkUncertain \/ PersistCheckoutSession
           \/ CheckBegins \/ CheckEnds \/ AskCharge \/ \E w \in Hands : Dies(w)
  <2>1. /\ UNCHANGED <<request, adjustments>>
        /\ \E w \in Hands : \E h : hands' = [hands EXCEPT ![w] = h] /\ h.cycle = 0
    BY <1>3, CheckoutHands
  <2>2. provider'.refunds = provider.refunds
    <3>1. provider' = provider \/ \E made : provider' = [provider EXCEPT !.page = made]
      BY <1>3 DEF PageMade, CreateFails, CreateRejected, MarkUncertain, PersistCheckoutSession, CheckBegins,
           CheckEnds, AskCharge, Dies
    <3> QED
      BY <3>1, RefundsTyped DEF Provider
  <2> QED
    BY <2>1, <2>2, StillIdle
<1>4. CASE Exhaust
  <2>1. UNCHANGED <<adjustments, provider>> /\ hands' = [hands EXCEPT !["tick"] = Idle] /\ "tick" \in Hands
    BY <1>4 DEF Exhaust, Undisturbed, Rest, Hands
  <2>2. request' = request \/ request' = [Leaves("NEEDS_REVIEW") EXCEPT !.exhausted = TRUE]
    BY <1>4 DEF Exhaust
  <2>3. /\ request'.cycle = request.cycle /\ request'.ref = request.ref
        /\ request'.status = request.status \/ request'.status \notin Closed
    BY <2>2, RefundsTyped DEF Leaves, Request, Closed
  <2> QED
    BY <2>1, <2>3, IdleIsTyped, StillIdle
<1> QED
  BY <1>1, <1>2, <1>3, <1>4

\* Who reads the state of a refund keeps its cycle.
LEMMA ReadersAreSingle ==
  ASSUME IInv, Singly, VerifyRefund \/ \E w \in Hooks : \E r \in Refs : HookBegins(w, r)
  PROVE  Singly'
<1>1. UNCHANGED <<request, adjustments, provider>>
  BY DEF VerifyRefund, HookBegins
<1>2. ASSUME NEW w \in Hands, NEW r \in Refs, Saw(w, r, provider.refunds[r].state),
             hands[w].cycle # 0 => w = "tick" /\ hands[w].pc = "verify" /\ hands[w].ref = r
      PROVE  Singly'
  <2> DEFINE h == Seen(hands[w], r, provider.refunds)
  <2>1. hands[w] \in Hand /\ r # None
    BY RefundsTyped
  <2>2. hands' = [hands EXCEPT ![w] = h]
    BY <1>1, <1>2, <2>1 DEF Saw, Becomes, Seen
  <2>3. h.cycle = hands[w].cycle /\ h.pc = "apply" /\ h.ref = r
    BY <2>1 DEF Seen, Hand
  <2>4. HolderOK(w, hands[w], provider.refunds, request.cycle)
    BY DEF Singly, Holders
  <2>5. HolderOK(w, h, provider.refunds, request.cycle)
    <3> HIDE DEF h
    <3> QED
      BY <1>2, <2>1, <2>3, <2>4 DEF HolderOK
  <2> HIDE DEF h
  <2> QED
    BY <1>1, <2>2, <2>3, <2>5, StillSingly
<1>3. CASE VerifyRefund
  <2>1. "tick" \in Hands /\ hands["tick"].pc = "verify"
    BY <1>3 DEF VerifyRefund, Hands
  <2>2. hands["tick"].ref \in Refs
    BY <2>1, RefundsTyped DEF HandOK, Hand
  <2>3. CASE Rest("tick")
    BY <1>1, <2>1, <2>3, IdleIsTyped, StillIdle DEF Rest
  <2>4. CASE Saw("tick", hands["tick"].ref, provider.refunds[hands["tick"].ref].state)
    BY <1>2, <2>1, <2>2, <2>4
  <2> QED
    BY <1>3, <2>3, <2>4 DEF VerifyRefund
<1>4. ASSUME NEW w \in Hooks, NEW r \in Refs, HookBegins(w, r) PROVE Singly'
  <2>1. w \in Hands /\ hands[w].pc = "idle" /\ Saw(w, r, provider.refunds[r].state)
    BY <1>4 DEF HookBegins, Free, Hands
  <2>2. hands[w].cycle = 0
    BY <2>1 DEF Singly, Holders, HolderOK
  <2> QED
    BY <1>2, <2>1, <2>2
<1> QED
  BY <1>3, <1>4

\* A new cycle is begun when whatever the others asked for is dead.
LEMMA NextCycle ==
  ASSUME IInv, Singly, provider'.refunds = provider.refunds,
         NEW status \in {"REQUESTED", "PROCESSING"}, NEW by \in {"customer", "system"},
         request.cycle < MaxCycles, request' = NewCycle(status, by),
         \A q \in Ours : adjustments'[q].cycle \in {0, adjustments[q].cycle}
                           \/ (Used(q) /\ adjustments'[q].cycle = Since(q)),
         \A q \in Ours : Used(q) => Dead(q)',
         NEW w \in Hands, NEW h \in {Idle, hands[w]}, hands' = [hands EXCEPT ![w] = h]
  PROVE  Singly'
<1>1. request'.cycle = request.cycle + 1 /\ request'.ref = None
  BY NewCycleIs, RefundsTyped
<1>2. SameRefunds
  BY SameRefundsSame DEF Singly
<1>3. OnePerCycle'
  BY <1>1, <1>2, OnePerCycleNext DEF Singly
<1>4. None \notin Ours
  BY PaymentsAssumption DEF Refs
<1>5. BoundToItsOwn'
  BY <1>1, <1>2, <1>4, BoundStays DEF Singly
<1>6. HolderOK(w, h, provider.refunds, request.cycle) /\ h.cycle \in {0, hands[w].cycle}
  BY IdleHolds, IdleIsTyped DEF Singly, Holders
<1>7. Holders'
  BY <1>1, <1>2, <1>6, HoldersNext DEF Singly
<1> QED
  BY <1>3, <1>5, <1>7 DEF Singly

LEMMA SettlementsAreSingle ==
  ASSUME IInv, Singly, NEW w \in {"asker", "tick"}, SettleCharge(w)
  PROVE  Singly'
<1>1. /\ w \in Hands /\ hands[w].pc = "settle" /\ UNCHANGED <<adjustments, provider>>
      /\ hands' = [hands EXCEPT ![w] = Idle]
  BY DEF SettleCharge, Hands, Rest
<1>2. CASE request' = request
  BY <1>1, <1>2, IdleIsTyped, StillIdle
<1>3. CASE request' # request
  <2>1. ~Settled /\ \E charged : QueueAutomaticRefund(charged)
    BY <1>3 DEF SettleCharge, Settle, ChargeFailed, GrantPurchase
  <2>2. request.cycle < MaxCycles /\ request' = NewCycle("PROCESSING", "system")
    BY <2>1 DEF QueueAutomaticRefund
  <2>3. Untouched
    BY <1>1, <2>1, UnsettledIsUntouched
  <2>4. \A q \in Ours : ~Used(q)
    BY <2>3 DEF Untouched, IInv, Sources, Used
  <2>5. \A q \in Ours : adjustments'[q].cycle = adjustments[q].cycle
    BY <1>1
  <2> QED
    BY <1>1, <2>2, <2>4, <2>5, NextCycle
<1> QED
  BY <1>2, <1>3

\* Asking for a refund and deciding on it.
LEMMA RequestsAreSingle ==
  ASSUME IInv, Singly, RequestRefund \/ CancelRefundRequest \/ RefuseRefund \/ ApproveRefund
  PROVE  Singly'
<1>1. UNCHANGED <<adjustments, provider>>
  BY DEF RequestRefund, CancelRefundRequest, RefuseRefund, CloseRequest, ApproveRefund, Undisturbed
<1>2. request \in Request /\ request.cycle \in Nat /\ hands \in [Hands -> Hand] /\ "staff" \in Hands /\ "tick" \in Hands
  BY RefundsTyped DEF IInv, PaymentsTypeOK, Hands
<1>3. SameRefunds /\ \A q \in Ours : Dead(q) => Dead(q)'
  BY <1>1, SameRefundsSame DEF Singly, Dead
<1>4. CASE RequestRefund
  <2>1. request.cycle < MaxCycles /\ request' = NewCycle("REQUESTED", "customer") /\ hands' = hands
    BY <1>4 DEF RequestRefund
  <2>2. \A q \in Ours : Used(q) => Dead(q)
    <3>1. CASE request.status = "NONE"
      BY <3>1 DEF IInv, Sources, Asking, Used
    <3>2. CASE request.status \in {"REFUSED", "CANCELLED"}
      BY <3>2 DEF Singly, OnePerCycle
    <3> QED
      BY <1>4, <3>1, <3>2 DEF RequestRefund
  <2>3. hands' = [hands EXCEPT !["staff"] = hands["staff"]]
    BY <1>2, <2>1
  <2>4. \A q \in Ours : adjustments'[q].cycle = adjustments[q].cycle
    BY <1>1
  <2> DEFINE h == hands["staff"]
  <2>5. hands' = [hands EXCEPT !["staff"] = h] /\ h \in {Idle, hands["staff"]}
    BY <2>3
  <2> HIDE DEF h
  <2> QED
    BY <1>1, <1>2, <1>3, <2>1, <2>2, <2>4, <2>5, NextCycle
<1>5. ASSUME NEW status \in {"CANCELLED", "REFUSED"}, request' = [request EXCEPT !.status = status],
             request.status = "REQUESTED", hands' = hands
      PROVE  Singly'
  <2>1. request'.cycle = request.cycle /\ request'.ref = request.ref /\ request'.status = status
    BY <1>2, <1>5 DEF Request
  <2>2. OnePerCycle'
    BY <1>3, <1>5, <2>1, OnePerCycleStays DEF Singly, Closed
  <2>3. BoundToItsOwn'
    <3>1. request'.ref \in Ours => provider.refunds[request'.ref].since = request'.cycle
      BY <2>1 DEF Singly, BoundToItsOwn, Since
    <3> QED
      BY <1>1, <1>3, <3>1, BoundStays DEF Singly
  <2>4. Holders'
    BY <1>1, <1>5, <2>1 DEF Singly, Holders
  <2> QED
    BY <2>2, <2>3, <2>4 DEF Singly
<1>6. CASE CancelRefundRequest \/ RefuseRefund
  BY <1>5, <1>6 DEF CancelRefundRequest, RefuseRefund, CloseRequest
<1>7. CASE ApproveRefund /\ request' = [request EXCEPT !.status = "REFUSED"]
  BY <1>5, <1>7, <1>2 DEF ApproveRefund, Request
<1>8. CASE /\ ApproveRefund
           /\ request' = [request EXCEPT !.status = "PROCESSING", !.posted = FALSE, !.attempts = 0]
           /\ Becomes("staff", [Idle EXCEPT !.pc = "submit", !.cycle = request.cycle])
  <2> DEFINE h == [Idle EXCEPT !.pc = "submit", !.cycle = request.cycle]
  <2>1. h.cycle = request.cycle /\ h.pc = "submit"
    BY DEF Idle
  <2>2. hands' = [hands EXCEPT !["staff"] = h]
    BY <1>8 DEF Becomes
  <2> HIDE DEF h
  <2>3. /\ request'.cycle = request.cycle /\ request'.ref = request.ref /\ request'.status = "PROCESSING"
    BY <1>2, <1>8 DEF Request
  <2>4. OnePerCycle'
    BY <1>3, <2>3, OnePerCycleStays DEF Singly, Closed
  <2>5. BoundToItsOwn'
    <3>1. request'.ref \in Ours => provider.refunds[request'.ref].since = request'.cycle
      BY <2>3 DEF Singly, BoundToItsOwn, Since
    <3> QED
      BY <1>1, <1>3, <3>1, BoundStays DEF Singly
  <2>6. hands'["staff"] = h /\ \A v \in Hands \ {"staff"} : hands'[v] = hands[v]
    BY <1>2, <2>2
  <2>7. hands["tick"].cycle # request.cycle
    BY <1>2, <1>8 DEF ApproveRefund, Singly, Holders
  <2>8. HolderOK("staff", h, provider.refunds, request.cycle)
    BY <2>1 DEF HolderOK
  <2>9. \A v \in Hands : HolderOK(v, hands'[v], provider.refunds, request.cycle)
    BY <2>6, <2>8 DEF Singly, Holders
  <2>10. Holders'
    BY <1>1, <1>2, <2>3, <2>6, <2>7, <2>9 DEF Holders
  <2> QED
    BY <2>4, <2>5, <2>10 DEF Singly
<1> QED
  BY <1>4, <1>6, <1>7, <1>8 DEF ApproveRefund

\* The provider goes on, and the bank.
LEMMA RefundsMove ==
  ASSUME IInv, Singly, SameRefunds, Forward(provider.refunds, provider'.refunds),
         UNCHANGED <<request, adjustments, hands>>
  PROVE  Singly'
<1>1. \A q \in Ours : Dead(q) => Dead(q)'
  BY DEF Dead, Forward, Refs
<1>2. OnePerCycle'
  BY <1>1, OnePerCycleStays DEF Singly
<1>3. request'.ref \in Ours => provider.refunds[request'.ref].since = request'.cycle
  BY DEF Singly, BoundToItsOwn, Since
<1>4. BoundToItsOwn'
  BY <1>3, BoundStays DEF Singly
<1>5. \A v \in Hands : HolderOK(v, hands'[v], provider'.refunds, request'.cycle)
  <2>1. \A v \in Hands : HolderOK(v, hands[v], provider.refunds, request.cycle)
    BY DEF Singly, Holders
  <2> QED
    BY <2>1, HolderStays DEF SameRefunds, Used, Since
<1>6. Holders'
  BY <1>5 DEF Singly, Holders
<1> QED
  BY <1>2, <1>4, <1>6 DEF Singly

LEMMA ProviderIsSingle ==
  ASSUME IInv, Singly,
         \/ \E r \in Ours : Moves(r, "pending", "succeeded") \/ Moves(r, "pending", "failed")
         \/ \E r \in Refs : Moves(r, "succeeded", "reversed")
         \/ \E r \in Disputes, amount \in Disputed[payment.kind] : Dispute(r, amount)
  PROVE  Singly'
<1>1. provider \in Provider /\ provider.refunds \in [Refs -> Refund] /\ Ours \cap Disputes = {}
  BY RefundsTyped, PaymentsAssumption
<1>2. UNCHANGED <<request, adjustments, hands>>
  BY DEF Moves, Dispute
<1>3. ASSUME NEW r \in Refs, NEW m \in Refund, m.since = provider.refunds[r].since, m.amount = provider.refunds[r].amount,
             provider.refunds[r].state \in {"pending", "succeeded"}, m.state \in {"succeeded", "failed", "reversed"},
             provider.refunds[r].state = "succeeded" => m.state = "reversed",
             r \in Disputes => m.state = "reversed",
             provider'.refunds = [provider.refunds EXCEPT ![r] = m]
      PROVE  Singly'
  <2>1. provider'.refunds[r] = m /\ \A q \in Refs \ {r} : provider'.refunds[q] = provider.refunds[q]
    BY <1>1, <1>3
  <2>2. Forward(provider.refunds, provider'.refunds)
    BY <1>3, <2>1 DEF Forward
  <2>3. SameRefunds
    BY <1>3, <2>1 DEF SameRefunds, Singly, BoundToItsOwn, Used, Since, Refs
  <2> QED
    BY <1>2, <2>2, <2>3, RefundsMove
<1>4. ASSUME NEW r \in Refs, NEW from \in {"pending", "succeeded"}, NEW to \in {"succeeded", "failed", "reversed"},
             from = "succeeded" => to = "reversed", r \in Disputes => to = "reversed", Moves(r, from, to)
      PROVE  Singly'
  <2> DEFINE m == [provider.refunds[r] EXCEPT !.state = to]
  <2>1. /\ m \in Refund /\ m.state = to /\ m.amount = provider.refunds[r].amount
        /\ m.since = provider.refunds[r].since
    BY <1>1, <1>4 DEF Refund
  <2>2. provider.refunds[r].state = from
    BY <1>4 DEF Moves
  <2>3. provider' = [provider EXCEPT !.refunds = [provider.refunds EXCEPT ![r] = m]]
    BY <1>1, <1>4 DEF Provider, Moves
  <2> HIDE DEF m
  <2>4. provider'.refunds = [provider.refunds EXCEPT ![r] = m]
    BY <1>1, <2>3 DEF Provider
  <2>5. m \in Refund /\ m.since = provider.refunds[r].since /\ m.amount = provider.refunds[r].amount
    BY <2>1
  <2>6. /\ provider.refunds[r].state \in {"pending", "succeeded"} /\ m.state \in {"succeeded", "failed", "reversed"}
        /\ provider.refunds[r].state = "succeeded" => m.state = "reversed"
        /\ r \in Disputes => m.state = "reversed"
    BY <1>4, <2>1, <2>2
  <2> QED
    BY <1>3, <1>4, <2>4, <2>5, <2>6
<1>5. CASE \E r \in Ours : Moves(r, "pending", "succeeded") \/ Moves(r, "pending", "failed")
  BY <1>1, <1>4, <1>5 DEF Refs
<1>6. CASE \E r \in Refs : Moves(r, "succeeded", "reversed")
  BY <1>4, <1>6
<1>7. ASSUME NEW r \in Disputes, NEW amount, Dispute(r, amount) PROVE Singly'
  <2> DEFINE m == [state |-> "succeeded", amount |-> amount, since |-> 0]
  <2>1. m.state = "succeeded" /\ r \in Refs /\ provider.refunds[r].state = "none"
    BY <1>7 DEF Dispute, Refs
  <2>2. provider'.refunds = [provider.refunds EXCEPT ![r] = m]
    BY <1>1, <1>7 DEF Provider, Dispute
  <2> HIDE DEF m
  <2>3. provider'.refunds[r] = m /\ \A q \in Refs \ {r} : provider'.refunds[q] = provider.refunds[q]
    BY <1>1, <2>1, <2>2
  <2>4. Forward(provider.refunds, provider'.refunds)
    BY <2>1, <2>3 DEF Forward
  <2>5. SameRefunds
    BY <1>1, <2>1, <2>3 DEF SameRefunds, Singly, BoundToItsOwn, Used, Since, Refs
  <2> QED
    BY <1>2, <2>4, <2>5, RefundsMove
<1> QED
  BY <1>5, <1>6, <1>7

\* A request under way whose submitter is at rest is claimed by the pass alone.
LEMMA ClaimsAreSingle ==
  ASSUME IInv, Singly, Claim PROVE Singly'
<1> DEFINE n == IF request.attempts < MaxAttempts THEN request.attempts + 1 ELSE MaxAttempts
           pc == IF n >= MaxAttempts THEN "exhaust" ELSE IF request.ref # None THEN "verify" ELSE "submit"
           h == Attempt(pc, request.ref, request.cycle, n)
<1>1. /\ request \in Request /\ request.cycle # 0 /\ request.status = "PROCESSING"
      /\ hands \in [Hands -> Hand] /\ "staff" \in Hands /\ "tick" \in Hands
      /\ UNCHANGED <<adjustments, provider>>
  BY RefundsTyped DEF Claim, Due, IInv, Kept, PaymentsTypeOK, Hands, Undisturbed
<1>2. hands' = [hands EXCEPT !["tick"] = h] /\ request' = [request EXCEPT !.attempts = n]
  BY DEF Claim, Becomes, Attempt
<1>3. pc \in {"submit", "verify", "exhaust"}
  OBVIOUS
<1> HIDE DEF n, pc
<1>4. h.pc = pc /\ h.ref = request.ref /\ h.cycle = request.cycle
  BY DEF Attempt, Idle
<1> HIDE DEF h
<1>5. request'.cycle = request.cycle /\ request'.ref = request.ref /\ request'.status = "PROCESSING"
  BY <1>1, <1>2 DEF Request
<1>6. SameRefunds /\ \A q \in Ours : Dead(q) => Dead(q)'
  BY <1>1, SameRefundsSame DEF Singly, Dead
<1>7. OnePerCycle'
  BY <1>5, <1>6, OnePerCycleStays DEF Singly, Closed
<1>8. request.ref \in Ours => provider.refunds[request.ref].since = request.cycle
  BY DEF Singly, BoundToItsOwn, Since
<1>9. BoundToItsOwn'
  BY <1>1, <1>5, <1>6, <1>8, BoundStays DEF Singly
<1>10. hands'["tick"] = h /\ \A v \in Hands \ {"tick"} : hands'[v] = hands[v]
  BY <1>1, <1>2
<1>11. HolderOK("tick", h, provider.refunds, request.cycle)
  BY <1>3, <1>4, <1>8 DEF HolderOK
<1>12. \A v \in Hands : HolderOK(v, hands'[v], provider.refunds, request.cycle)
  BY <1>10, <1>11 DEF Singly, Holders
<1>13. hands'["staff"].cycle = 0
  BY <1>1, <1>10 DEF Claim, Due, Singly, Holders, HolderOK
<1>14. Holders'
  BY <1>1, <1>5, <1>12, <1>13 DEF Holders
<1> QED
  BY <1>7, <1>9, <1>14 DEF Singly

\* Where no refund is discovered, none of this cycle was asked for.
LEMMA NoneOfThisCycle ==
  ASSUME IInv, Singly, Discovered(request.cycle) = {}, NEW q \in Ours, Used(q)
  PROVE  Since(q) # request.cycle
<1>1. SUFFICES ASSUME Since(q) = request.cycle PROVE FALSE
  OBVIOUS
<1>2. request.cycle \in Nat /\ request.cycle <= request.cycle
  BY RefundsTyped
<1>3. provider.refunds[q].since = request.cycle /\ provider.refunds[q].state # "none"
      /\ provider.refunds[q].since >= request.cycle
  BY <1>1, <1>2 DEF Used, Since
<1>4. adjustments[q].cycle \in {0, request.cycle}
  BY <1>1 DEF Singly, BoundToItsOwn
<1> QED
  BY <1>3, <1>4 DEF Discovered

\* Nobody else acts for the cycle of a request under way.
LEMMA AloneInItsCycle ==
  ASSUME IInv, Singly, NEW w \in {"staff", "tick"}, hands[w].cycle = request.cycle,
         request.status = "PROCESSING"
  PROVE  /\ request.cycle # 0
         /\ \A v \in Hands \ {w} : hands[v].cycle # request.cycle
<1>1. request.cycle # 0
  BY DEF IInv, Kept
<1>2. ASSUME NEW v \in Hands \ {w}, hands[v].cycle = request.cycle PROVE FALSE
  <2>1. v \in {"staff", "tick"}
    BY <1>1, <1>2 DEF Singly, Holders, HolderOK
  <2>2. hands["staff"].cycle = request.cycle /\ hands["tick"].cycle = request.cycle
    BY <1>2, <2>1
  <2> QED
    BY <1>1, <2>2 DEF Singly, Holders
<1> QED
  BY <1>1, <1>2

\* The one refund of this cycle is asked for.
LEMMA AskedOnce ==
  ASSUME IInv, Singly, NEW w \in {"staff", "tick"}, hands[w].cycle = request.cycle,
         request.status = "PROCESSING", Discovered(request.cycle) = {},
         NEW r \in NextId, provider' = [provider EXCEPT !.refunds[r] = Asked], adjustments' = adjustments,
         request'.cycle = request.cycle, request'.status = "PROCESSING", request'.ref \in {r, None},
         NEW h, hands' = [hands EXCEPT ![w] = h], h.cycle \in {0, hands[w].cycle},
         HolderOK(w, h, provider'.refunds, request.cycle)
  PROVE  Singly'
<1> DEFINE n == provider'.refunds
<1>1. /\ r \in Ours /\ r \in Refs /\ provider.refunds[r].state = "none"
      /\ n = [provider.refunds EXCEPT ![r] = Asked] /\ n[r] = Asked
      /\ Asked.state = "pending" /\ Asked.since = request.cycle
  BY AskedIs
<1>2. /\ provider.refunds \in [Refs -> Refund] /\ request.cycle \in Nat /\ None \notin Ours
      /\ Ours \cap Disputes = {} /\ Ours \subseteq Refs /\ Disputes \subseteq Refs
  BY RefundsTyped, PaymentsAssumption DEF Refs
<1>3. request.cycle # 0 /\ \A v \in Hands \ {w} : hands[v].cycle # request.cycle
  BY AloneInItsCycle
<1>4. \A q \in Refs \ {r} : n[q] = provider.refunds[q]
  BY <1>1, <1>2
<1>5. \A q \in Ours : Used(q) => Since(q) # request.cycle
  BY NoneOfThisCycle
<1> HIDE DEF n
<1>6. OnePerCycle'
  <2>1. \A q \in Ours : n[q].state # "none" => 0 < n[q].since /\ n[q].since <= request.cycle
    BY <1>1, <1>2, <1>3, <1>4 DEF Singly, OnePerCycle, Used, Since
  <2>2. \A p, q \in Ours : n[p].state # "none" /\ n[q].state # "none" /\ n[p].since = n[q].since => p = q
    BY <1>1, <1>2, <1>4, <1>5 DEF Singly, OnePerCycle, Used, Since
  <2>3. \A q \in Ours : n[q].state # "none" /\ n[q].since < request.cycle
          => n[q].state = "failed" \/ adjustments[q].status = "REVERSED"
    BY <1>1, <1>2, <1>4 DEF Singly, OnePerCycle, Used, Since, Dead
  <2> QED
    BY <2>1, <2>2, <2>3 DEF OnePerCycle, Used, Since, Dead, n
<1>7. BoundToItsOwn'
  <2>1. \A q \in Ours : adjustments[q].cycle # 0 => n[q].state # "none" /\ adjustments[q].cycle = n[q].since
    BY <1>1, <1>2, <1>4 DEF Singly, BoundToItsOwn, Used, Since
  <2>2. request'.ref \in Ours => n[request'.ref].since = request'.cycle
    BY <1>1, <1>2
  <2>3. \A q \in Disputes : n[q].state \in {"none", "succeeded", "reversed"}
    BY <1>1, <1>2, <1>4 DEF Singly, BoundToItsOwn
  <2> QED
    BY <2>1, <2>2, <2>3 DEF BoundToItsOwn, Used, Since, n
<1>8. /\ hands'[w] = h /\ \A v \in Hands \ {w} : hands'[v] = hands[v]
      /\ w \in Hands /\ "staff" \in Hands /\ "tick" \in Hands
  BY DEF IInv, PaymentsTypeOK, Hands
<1>9. ASSUME NEW v \in Hands \ {w} PROVE HolderOK(v, hands[v], n, request.cycle)
  <2>1. HolderOK(v, hands[v], provider.refunds, request.cycle)
    BY DEF Singly, Holders
  <2>2. hands[v].pc \in {"verify", "apply"} /\ hands[v].ref \in Ours => hands[v].ref \in Refs \ {r}
    <3>1. hands[v].pc \in {"verify", "apply"} /\ hands[v].ref # None => provider.refunds[hands[v].ref].state # "none"
      BY RefundsTyped DEF HandOK
    <3> QED
      BY <1>1, <1>2, <3>1
  <2>3. hands[v].cycle # request.cycle
    BY <1>3
  <2> QED
    BY <1>4, <2>1, <2>2, <2>3 DEF HolderOK
<1>10. \A v \in Hands : HolderOK(v, hands'[v], n, request.cycle)
  BY <1>8, <1>9 DEF n
<1>11. ~(hands'["staff"].cycle = request.cycle /\ hands'["tick"].cycle = request.cycle)
  BY <1>3, <1>8
<1>12. Holders'
  BY <1>10, <1>11 DEF Holders, n
<1> QED
  BY <1>6, <1>7, <1>12 DEF Singly

LEMMA SubmissionsAreSingle ==
  ASSUME IInv, Singly, NEW w \in {"staff", "tick"}, Submit(w) PROVE Singly'
<1>1. w \in Hands /\ adjustments' = adjustments /\ Idle.cycle = 0
  BY IdleIsTyped DEF Submit, Hands
<1>2. CASE ~MaySubmit(w)
  <2>1. provider' = provider /\ request' = request /\ hands' = [hands EXCEPT ![w] = Idle]
    BY <1>2 DEF Submit, Rest
  <2> QED
    BY <1>1, <2>1, StillIdle
<1>3. CASE MaySubmit(w)
  <2>1. /\ request.status = "PROCESSING" /\ request \in Request /\ request.ref = None
        /\ request.cycle = hands[w].cycle /\ hands[w] \in Hand /\ request.cycle \in Nat /\ None \notin Ours
    BY <1>1, <1>3, RefundsTyped, PaymentsAssumption DEF MaySubmit, Refs
  <2>2. request.cycle # 0 /\ \A v \in Hands \ {w} : hands[v].cycle # request.cycle
    BY <2>1, AloneInItsCycle
  <2>3. ASSUME NEW r \in Discovered(request.cycle), Discover(w, r) PROVE Singly'
    <3> DEFINE h == Seen(hands[w], r, provider.refunds)
    <3>1. /\ r \in Ours /\ r # None /\ provider.refunds[r].state # "none"
          /\ provider.refunds[r].since >= request.cycle
      BY PaymentsAssumption DEF Discovered, Refs
    <3>2. provider' = provider /\ request' = [request EXCEPT !.ref = r, !.posted = TRUE]
          /\ hands' = [hands EXCEPT ![w] = h]
      BY <2>3, <3>1 DEF Discover, Saw, Becomes, Seen
    <3>3. provider.refunds[r].since = request.cycle
      <4>1. provider.refunds[r].since <= request.cycle /\ provider.refunds[r].since \in Nat
        BY <3>1, RefundsTyped, CyclesAreNaturals DEF Singly, OnePerCycle, Used, Since, Refund, Refs
      <4> QED
        BY <2>1, <3>1, <4>1
    <3>4. h.cycle = hands[w].cycle /\ h.ref = r /\ h.pc = "apply"
      BY <2>1 DEF Seen, Hand
    <3> HIDE DEF h
    <3>5. HolderOK(w, h, provider.refunds, request.cycle)
      BY <2>1, <3>1, <3>3, <3>4 DEF HolderOK
    <3>6. request'.cycle = request.cycle /\ request'.ref = r /\ request'.status = "PROCESSING"
      BY <2>1, <3>2 DEF Request
    <3>7. SameRefunds /\ \A q \in Ours : Dead(q) => Dead(q)'
      BY <1>1, <3>2, SameRefundsSame DEF Singly, Dead
    <3>8. OnePerCycle'
      BY <3>6, <3>7, OnePerCycleStays DEF Singly, Closed
    <3>9. BoundToItsOwn'
      BY <1>1, <3>3, <3>6, <3>7, BoundStays DEF Singly
    <3>10. Holders'
      BY <1>1, <2>1, <3>2, <3>4, <3>5, <3>6, <3>7, HoldersStay DEF Singly
    <3> QED
      BY <3>8, <3>9, <3>10 DEF Singly
  <2>4. ASSUME Discovered(request.cycle) = {}, NEW r \in NextId, Post(w, r) PROVE Singly'
    <3>1. PICK known \in {r, None} : /\ request' = [request EXCEPT !.ref = known, !.posted = TRUE]
                                     /\ Saw(w, known, "pending")
      BY <2>4 DEF Post
    <3>2. provider' = [provider EXCEPT !.refunds[r] = Asked]
      BY <2>4 DEF Post
    <3>3. r \in Ours /\ provider'.refunds[r] = Asked /\ Asked.since = request.cycle
      BY <3>2, AskedIs
    <3> DEFINE h == Told(hands[w], known, "pending", provider'.refunds)
    <3>4. hands' = [hands EXCEPT ![w] = h]
      BY <3>1 DEF Saw, Becomes, Told
    <3>5. h.cycle = hands[w].cycle /\ h.ref = known /\ h.pc = "apply" /\ h.saw = "pending"
      BY <2>1 DEF Told, Hand
    <3> HIDE DEF h
    <3>6. HolderOK(w, h, provider'.refunds, request.cycle)
      BY <2>1, <3>1, <3>3, <3>5 DEF HolderOK
    <3>7. request'.cycle = request.cycle /\ request'.ref \in {r, None} /\ request'.status = "PROCESSING"
      BY <2>1, <3>1 DEF Request
    <3>8. hands[w].cycle = request.cycle /\ request.status = "PROCESSING" /\ h.cycle \in {0, hands[w].cycle}
      BY <2>1, <3>5
    <3> QED
      BY <1>1, <2>4, <3>2, <3>4, <3>6, <3>7, <3>8, AskedOnce
  <2>5. ASSUME Discovered(request.cycle) = {}, PostRejected(w) PROVE Singly'
    <3> DEFINE h == Told(hands[w], None, "failed", provider'.refunds)
    <3>1. provider' = provider /\ request' = [request EXCEPT !.posted = TRUE]
          /\ hands' = [hands EXCEPT ![w] = h]
      BY <2>5 DEF PostRejected, Saw, Becomes, Told
    <3>2. h.cycle = hands[w].cycle /\ h.ref = None
      BY <2>1 DEF Told, Hand
    <3> HIDE DEF h
    <3>3. \A q \in Ours : provider.refunds[q].state # "none" => provider.refunds[q].since # request.cycle
      BY <2>5, NoneOfThisCycle DEF Used, Since
    <3>4. h.pc = "apply"
      BY <2>1 DEF h, Told, Hand
    <3>5. HolderOK(w, h, provider.refunds, request.cycle)
      BY <2>1, <3>2, <3>3, <3>4 DEF HolderOK
    <3>6. request'.cycle = request.cycle /\ request'.ref = request.ref /\ request'.status = request.status
      BY <2>1, <3>1 DEF Request
    <3>7. h.cycle \in {0, hands[w].cycle} /\ provider'.refunds = provider.refunds
      BY <3>1, <3>2
    <3> QED
      BY <1>1, <3>1, <3>5, <3>6, <3>7, StillSingly
  <2>6. ASSUME Discovered(request.cycle) = {}, PostLost(w) PROVE Singly'
    <3>1. hands' = [hands EXCEPT ![w] = Idle] /\ request' = request
      BY <2>6 DEF PostLost, Rest
    <3>2. CASE provider' = provider
      BY <1>1, <3>1, <3>2, StillIdle
    <3>3. ASSUME NEW r \in NextId, provider' = [provider EXCEPT !.refunds[r] = Asked] PROVE Singly'
      <4>1. HolderOK(w, Idle, provider'.refunds, request.cycle) /\ Idle.cycle \in {0, hands[w].cycle}
        BY <1>1, IdleHolds
      <4>2. /\ request'.cycle = request.cycle /\ request'.status = "PROCESSING" /\ request'.ref \in {r, None}
            /\ hands[w].cycle = request.cycle /\ request.status = "PROCESSING"
        BY <2>1, <3>1
      <4> QED
        BY <1>1, <2>6, <3>1, <3>3, <4>1, <4>2, AskedOnce
    <3> QED
      BY <2>6, <3>2, <3>3 DEF PostLost
  <2> QED
    BY <1>3, <2>3, <2>4, <2>5, <2>6 DEF Submit, SubmitRefundCycle
<1> QED
  BY <1>2, <1>3

-----------------------------------------------------------------------------
(* What an answer of the provider is applied to.                           *)

\* Who is not dead was asked for in this cycle.
LEMMA AliveIsOfThisCycle ==
  ASSUME IInv, Singly, NEW q \in Ours, Used(q), ~Dead(q)
  PROVE  Since(q) = request.cycle
<1>1. Since(q) \in Nat /\ request.cycle \in Nat
  BY RefundsTyped, CyclesAreNaturals DEF Since, Refund, Refs
<1> QED
  BY <1>1 DEF Singly, OnePerCycle

LEMMA BindingWhy ==
  ASSUME NEW explicit, NEW r, NEW adopt \in BOOLEAN, RefundCycleBinding(explicit, r, 0, adopt) # 0
  PROVE  LET c == RefundCycleBinding(explicit, r, 0, adopt)
         IN  c = request.cycle /\ (explicit = c \/ (r # None /\ request.ref = r) \/ adopt = TRUE)
BY DEF RefundCycleBinding

\* An answer about a refund of ours binds its row to the cycle it was asked in.
LEMMA AnswerBinds ==
  ASSUME IInv, Singly, NEW w \in Hands, hands[w].pc = "apply", NEW q \in Ours, hands[w].ref = q,
         NEW adopt \in BOOLEAN,
         adopt = FALSE \/ (hands[w].saw = "succeeded" /\ adjustments[q].status # "REVERSED")
  PROVE  Used(q) /\ BoundTo(hands[w], adopt) \in {0, Since(q)}
<1>1. q \in Refs /\ q # None
  BY PaymentsAssumption DEF Refs
<1>2. Used(q)
  BY <1>1, AnswerIs DEF Used
<1>3. CASE adjustments[q].cycle # 0
  <2>1. BoundTo(hands[w], adopt) = adjustments[q].cycle
    BY <1>1, <1>3, ActsForItsCycle
  <2> QED
    BY <1>2, <1>3, <2>1 DEF Singly, BoundToItsOwn
<1>4. CASE adjustments[q].cycle = 0
  <2> DEFINE c == RefundCycleBinding(hands[w].cycle, q, 0, adopt)
  <2>1. BoundTo(hands[w], adopt) = c /\ c = RefundCycleBinding(hands[w].cycle, q, 0, adopt)
    BY <1>1, <1>4 DEF BoundTo
  <2> HIDE DEF c
  <2>2. ASSUME c # 0 PROVE c = Since(q)
    <3>1. c = request.cycle /\ (hands[w].cycle = c \/ request.ref = q \/ adopt = TRUE)
      <4>1. RefundCycleBinding(hands[w].cycle, q, 0, adopt) # 0
        BY <2>1, <2>2
      <4> QED
        BY <2>1, <4>1, BindingWhy
    <3>2. CASE hands[w].cycle = c
      <4>1. HolderOK(w, hands[w], provider.refunds, request.cycle)
        BY DEF Singly, Holders
      <4>2. hands[w].pc = "apply" /\ hands[w].ref \in Ours /\ hands[w].cycle # 0
        BY <2>2, <3>2
      <4>3. provider.refunds[hands[w].ref].since = hands[w].cycle
        BY <4>1, <4>2 DEF HolderOK
      <4> QED
        BY <3>2, <4>3 DEF Since
    <3>3. CASE request.ref = q
      BY <3>1, <3>3 DEF Singly, BoundToItsOwn
    <3>4. CASE adopt = TRUE
      <4>1. provider.refunds[q].state \in {"succeeded", "reversed"}
        BY <1>1, <3>4, RefundsTyped DEF HandOK
      <4>2. ~Dead(q)
        BY <3>4, <4>1 DEF Dead
      <4> QED
        BY <1>2, <3>1, <4>2, AliveIsOfThisCycle
    <3> QED
      BY <3>1, <3>2, <3>3, <3>4
  <2> QED
    BY <1>2, <2>1, <2>2
<1> QED
  BY <1>3, <1>4

\* An answer is applied: rows are bound to their own cycle, and the request stays in its.
LEMMA AnswersAreSingle ==
  ASSUME IInv, Singly, provider' = provider, NEW w \in Hands, hands' = [hands EXCEPT ![w] = Idle], RowsGrow,
         \A q \in Ours : adjustments'[q].cycle \in {0, adjustments[q].cycle}
                           \/ (Used(q) /\ adjustments'[q].cycle = Since(q)),
         request'.cycle = request.cycle,
         request'.ref \in Ours => provider.refunds[request'.ref].since = request'.cycle,
         request'.status = request.status \/ request'.status # "REQUESTED",
         request'.status \in Closed => request.status \in Closed \/ \A q \in Ours : Used(q) => Dead(q)'
  PROVE  Singly'
<1>1. SameRefunds
  BY SameRefundsSame DEF Singly
<1>2. \A q \in Ours : Dead(q) => Dead(q)'
  BY DEF Dead, RowsGrow, Refs
<1>3. OnePerCycle'
  BY <1>1, <1>2, OnePerCycleStays DEF Singly
<1>4. BoundToItsOwn'
  BY <1>1, BoundStays DEF Singly
<1>5. HolderOK(w, Idle, provider.refunds, request.cycle) /\ Idle.cycle \in {0, hands[w].cycle}
  BY IdleHolds, IdleIsTyped
<1>6. Holders'
  BY <1>1, <1>5, HoldersStay DEF Singly
<1> QED
  BY <1>3, <1>4, <1>6 DEF Singly

\* Recording an answer that confirms nothing.
LEMMA RecordBinds ==
  ASSUME IInv, Singly, NEW w \in Hands, hands[w].pc = "apply", NEW status,
         Record(hands[w], [adjustments[hands[w].ref] EXCEPT !.cycle = BoundTo(hands[w], FALSE), !.status = status])
  PROVE  /\ \A q \in Ours : adjustments'[q].cycle \in {0, adjustments[q].cycle}
                              \/ (Used(q) /\ adjustments'[q].cycle = Since(q))
         /\ hands[w].ref \in Ours => adjustments'[hands[w].ref].status = status
<1> DEFINE x == hands[w].ref
           b == BoundTo(hands[w], FALSE)
           row == [adjustments[x] EXCEPT !.cycle = b, !.status = status]
<1>1. CASE x = None
  <2>1. adjustments' = adjustments /\ x \notin Ours
    BY <1>1, PaymentsAssumption DEF Record, Refs
  <2> QED
    BY <2>1
<1>2. CASE x # None
  <2>1. x \in Refs /\ adjustments[x] \in Adjustment /\ adjustments \in [Refs -> Adjustment]
    BY <1>2, AnswerIs DEF IInv, PaymentsTypeOK, RowsTyped
  <2>2. adjustments' = [adjustments EXCEPT ![x] = row]
    BY <1>2 DEF Record
  <2>3. x \in Ours => Used(x) /\ b \in {0, Since(x)}
    BY AnswerBinds
  <2> HIDE DEF b
  <2>4. row.cycle = b /\ row.status = status
    BY <2>1 DEF Adjustment
  <2> HIDE DEF row
  <2>5. adjustments'[x] = row /\ \A r \in Refs \ {x} : adjustments'[r] = adjustments[r]
    BY <2>1, <2>2
  <2> HIDE DEF x
  <2>6. ASSUME NEW q \in Ours
        PROVE  adjustments'[q].cycle \in {0, adjustments[q].cycle} \/ (Used(q) /\ adjustments'[q].cycle = Since(q))
    <3>1. CASE q = x
      BY <2>3, <2>4, <2>5, <3>1
    <3>2. CASE q # x
      BY <2>5, <3>2 DEF Refs
    <3> QED
      BY <3>1, <3>2
  <2>7. adjustments'[x].status = status
    BY <2>4, <2>5
  <2> QED
    BY <2>6, <2>7 DEF x
<1> QED
  BY <1>1, <1>2

\* What acts for the cycle of the request holds that cycle's refund.
LEMMA ActorsHoldTheirOwn ==
  ASSUME IInv, Singly, NEW w \in Hands, hands[w].pc = "apply", NEW adopt \in BOOLEAN,
         hands[w].ref \in Ours =>
           adopt = FALSE \/ (hands[w].saw = "succeeded" /\ adjustments[hands[w].ref].status # "REVERSED"),
         ActsFor(hands[w], adopt) # 0, hands[w].ref \in Ours
  PROVE  Since(hands[w].ref) = request.cycle /\ Used(hands[w].ref)
<1>1. ActsFor(hands[w], adopt) = request.cycle /\ BoundTo(hands[w], adopt) = ActsFor(hands[w], adopt)
  BY AnswerIs, ActsForItsCycle
<1>2. Used(hands[w].ref) /\ BoundTo(hands[w], adopt) \in {0, Since(hands[w].ref)}
  BY AnswerBinds
<1> QED
  BY <1>1, <1>2

LEMMA PendingIsSingle ==
  ASSUME IInv, Singly, NEW w \in Hands, hands[w].pc = "apply", ApplyPending(hands[w]),
         hands' = [hands EXCEPT ![w] = Idle], provider' = provider
  PROVE  Singly'
<1> DEFINE h == hands[w]
           s == IF adjustments[h.ref].status = "NONE" THEN "PENDING" ELSE adjustments[h.ref].status
<1>1. Record(h, [adjustments[h.ref] EXCEPT !.cycle = BoundTo(h, FALSE), !.status = s])
  <2>1. CASE h.ref = None
    BY <2>1 DEF ApplyPending, Record
  <2>2. CASE h.ref # None
    <3>1. adjustments[h.ref] \in Adjustment
      BY <2>2, AnswerIs
    <3>2. [adjustments[h.ref] EXCEPT !.cycle = BoundTo(h, FALSE), !.status = IF @ = "NONE" THEN "PENDING" ELSE @]
            = [adjustments[h.ref] EXCEPT !.cycle = BoundTo(h, FALSE), !.status = s]
      BY <3>1 DEF Adjustment
    <3> QED
      BY <3>2 DEF ApplyPending
  <2> QED
    BY <2>1, <2>2
<1>2. Over(adjustments[h.ref].status) => s = adjustments[h.ref].status
  BY DEF Over
<1> HIDE DEF s
<1>3. RowsGrow
  BY <1>1, <1>2, RecordGrows
<1>4. \A q \in Ours : adjustments'[q].cycle \in {0, adjustments[q].cycle}
                        \/ (Used(q) /\ adjustments'[q].cycle = Since(q))
  BY <1>1, RecordBinds
<1>5. request' = request \/ (request' = [request EXCEPT !.ref = h.ref] /\ ActsFor(h, FALSE) # 0)
  BY DEF ApplyPending
<1>6. request'.cycle = request.cycle /\ request'.status = request.status /\ request'.ref \in {request.ref, h.ref}
  BY <1>5, RefundsTyped DEF Request
<1>7. request'.ref \in Ours => provider.refunds[request'.ref].since = request'.cycle
  <2>1. CASE request' = request
    BY <2>1 DEF Singly, BoundToItsOwn, Since
  <2>2. CASE request' = [request EXCEPT !.ref = h.ref] /\ ActsFor(h, FALSE) # 0
    <3>1. h.ref \in Ours => Since(h.ref) = request.cycle
      BY <2>2, ActorsHoldTheirOwn
    <3>2. request'.ref = h.ref
      BY <2>2, RefundsTyped DEF Request
    <3> QED
      BY <1>6, <3>1, <3>2 DEF Since
  <2> QED
    BY <1>5, <2>1, <2>2
<1> QED
  BY <1>3, <1>4, <1>6, <1>7, AnswersAreSingle

\* A request is refused when the one refund of its cycle failed, or none was made.
LEMMA RefusedIsDead ==
  ASSUME IInv, Singly, NEW w \in Hands, hands[w].pc = "apply", hands[w].saw = "failed",
         ActsFor(hands[w], FALSE) # 0, NEW q \in Ours, Used(q)
  PROVE  Dead(q)
<1> DEFINE h == hands[w]
<1>1. CASE Since(q) # request.cycle
  BY <1>1, AliveIsOfThisCycle
<1>2. CASE Since(q) = request.cycle /\ h.ref # None
  <2>1. h.ref \in Refs /\ provider.refunds[h.ref].state = "failed"
    BY <1>2, AnswerIs, RefundsTyped DEF HandOK
  <2>2. h.ref \in Ours
    BY <2>1 DEF Singly, BoundToItsOwn, Refs
  <2>3. Since(h.ref) = request.cycle /\ Used(h.ref)
    BY <2>2, ActorsHoldTheirOwn
  <2>4. q = h.ref
    BY <1>2, <2>2, <2>3 DEF Singly, OnePerCycle
  <2> QED
    BY <2>1, <2>4 DEF Dead
<1>3. CASE h.ref = None
  <2>1. ActsFor(h, FALSE) = request.cycle /\ BoundTo(h, FALSE) = ActsFor(h, FALSE) /\ request.cycle # 0
    BY AnswerIs, ActsForItsCycle
  <2>2. BoundTo(h, FALSE) = RefundCycleBinding(h.cycle, None, 0, FALSE)
    BY <1>3 DEF BoundTo
  <2>3. h.cycle = request.cycle
    <3>1. RefundCycleBinding(h.cycle, None, 0, FALSE) # 0
      BY <2>1, <2>2
    <3> QED
      BY <2>1, <2>2, <3>1, BindingWhy
  <2>4. HolderOK(w, h, provider.refunds, request.cycle)
    BY DEF Singly, Holders
  <2>5. h.pc = "apply" /\ h.ref = None /\ h.saw = "failed" /\ h.cycle # 0 /\ h.cycle = request.cycle
    BY <1>3, <2>1, <2>3
  <2>6. Since(q) # request.cycle
    BY <2>4, <2>5 DEF HolderOK, Used, Since
  <2> QED
    BY <2>6, AliveIsOfThisCycle
<1> QED
  BY <1>1, <1>2, <1>3

LEMMA ReleaseIsSingle ==
  ASSUME IInv, Singly, NEW w \in Hands, hands[w].pc = "apply", ReleaseRefundReservation(hands[w]),
         hands' = [hands EXCEPT ![w] = Idle], provider' = provider
  PROVE  Singly'
<1> DEFINE h == hands[w]
           c == ActsFor(h, FALSE)
           ends == ~FinalAlready(h) /\ Waiting(c)
           s == IF FinalAlready(h) THEN adjustments[h.ref].status ELSE "FAILED"
<1>1. Record(h, [adjustments[h.ref] EXCEPT !.cycle = BoundTo(h, FALSE), !.status = s])
  <2>1. CASE h.ref = None
    BY <2>1 DEF ReleaseRefundReservation, Record
  <2>2. CASE h.ref # None
    <3>1. adjustments[h.ref] \in Adjustment
      BY <2>2, AnswerIs
    <3>2. [adjustments[h.ref] EXCEPT !.cycle = BoundTo(h, FALSE), !.status = IF FinalAlready(h) THEN @ ELSE "FAILED"]
            = [adjustments[h.ref] EXCEPT !.cycle = BoundTo(h, FALSE), !.status = s]
      BY <3>1 DEF Adjustment
    <3> QED
      BY <3>2 DEF ReleaseRefundReservation
  <2> QED
    BY <2>1, <2>2
<1>2. h.ref # None => (Over(adjustments[h.ref].status) => s = adjustments[h.ref].status)
  BY DEF FinalAlready
<1> HIDE DEF s
<1>3. RowsGrow
  BY <1>1, <1>2, RecordGrows
<1>4. \A q \in Ours : adjustments'[q].cycle \in {0, adjustments[q].cycle}
                        \/ (Used(q) /\ adjustments'[q].cycle = Since(q))
  BY <1>1, RecordBinds
<1>5. CASE ~ends
  <2>1. request' = request
    BY <1>5 DEF ReleaseRefundReservation
  <2>2. request'.ref \in Ours => provider.refunds[request'.ref].since = request'.cycle
    BY <2>1 DEF Singly, BoundToItsOwn, Since
  <2> QED
    BY <1>3, <1>4, <2>1, <2>2, AnswersAreSingle
<1>6. CASE ends
  <2>1. c # 0 /\ c = request.cycle /\ h.saw = "failed"
    BY <1>6 DEF ReleaseRefundReservation, Waiting
  <2> DEFINE status == IF request.by = "system" THEN "NEEDS_REVIEW" ELSE "REFUSED"
             ref == IF h.ref = None THEN request.ref ELSE h.ref
  <2>2. request \in Request /\ request.cycle \in Nat
    BY RefundsTyped
  <2>3. request' = [Leaves(status) EXCEPT !.ref = ref]
    <3>1. Leaves(status).ref = request.ref
      BY <2>2 DEF Leaves, Request
    <3> QED
      BY <1>6, <3>1 DEF ReleaseRefundReservation
  <2>4. status \in {"NEEDS_REVIEW", "REFUSED"}
    OBVIOUS
  <2> HIDE DEF status, ref, ends, c
  <2>5. request'.cycle = request.cycle /\ request'.status = status /\ request'.ref = ref
    BY <2>2, <2>3 DEF Leaves, Request
  <2>6. request'.ref \in Ours => provider.refunds[request'.ref].since = request'.cycle
    <3>1. h.ref \in Ours => Since(h.ref) = request.cycle
      BY <2>1, ActorsHoldTheirOwn DEF c
    <3>2. request.ref \in Ours => Since(request.ref) = request.cycle
      BY DEF Singly, BoundToItsOwn
    <3> QED
      BY <2>5, <3>1, <3>2 DEF Since, ref
  <2>7. \A q \in Ours : Used(q) => Dead(q)'
    <3>1. \A q \in Ours : Used(q) => Dead(q)
      BY <2>1, RefusedIsDead DEF c
    <3> QED
      BY <1>3, <3>1 DEF Dead, RowsGrow, Refs
  <2> QED
    BY <1>3, <1>4, <2>4, <2>5, <2>6, <2>7, AnswersAreSingle
<1> QED
  BY <1>5, <1>6

\* A confirmed answer binds its row; a contained reversal of ours starts the next cycle.
LEMMA ConfirmedIsSingle ==
  ASSUME IInv, Singly, ~Exempt, NEW w \in Hands, hands[w].pc = "apply", Confirms(hands[w]),
         NEW c, c = ActsFor(hands[w], hands[w].saw = "succeeded"), Moved(hands[w], c),
         Contained(hands[w], c) /\ NetAfter(hands[w]) = 0 => request.cycle < MaxCycles,
         request' = RequestAfter(hands[w], c, NetAfter(hands[w])),
         hands' = [hands EXCEPT ![w] = Idle], provider' = provider
  PROVE  Singly'
<1> DEFINE h == hands[w]
           x == h.ref
           adopt == h.saw = "succeeded"
           net == NetAfter(h)
           again == Contained(h, c) /\ net = 0
<1>1. /\ RowsGrow /\ x \in Refs /\ x # None
      /\ adjustments[x].status # "REVERSED"
      /\ h.saw = "reversed" => adjustments'[x].status = "REVERSED"
  BY ConfirmedGrows, RefundsTyped
<1>2. PICK row \in Adjustment : adjustments' = [adjustments EXCEPT ![x] = row] /\ row.cycle = BoundTo(h, adopt)
  BY ConfirmedRow
<1>3. adjustments'[x] = row /\ \A r \in Refs \ {x} : adjustments'[r] = adjustments[r]
  BY <1>1, <1>2 DEF IInv, PaymentsTypeOK, RowsTyped
<1>4. adopt \in BOOLEAN /\ (adopt = FALSE \/ (h.saw = "succeeded" /\ adjustments[x].status # "REVERSED"))
  BY <1>1
<1>5. x \in Ours => Used(x) /\ BoundTo(h, adopt) \in {0, Since(x)}
  BY <1>4, AnswerBinds
<1>6. c # 0 /\ x \in Ours => Since(x) = request.cycle
  BY <1>4, ActorsHoldTheirOwn
<1>7. c # 0 => c = request.cycle
  BY AnswerIs
<1>8. ASSUME NEW q \in Ours
      PROVE  adjustments'[q].cycle \in {0, adjustments[q].cycle} \/ (Used(q) /\ adjustments'[q].cycle = Since(q))
  <2> HIDE DEF adopt, x
  <2>1. CASE q = x
    BY <1>2, <1>3, <1>5, <2>1
  <2>2. CASE q # x
    BY <1>3, <2>2 DEF Refs
  <2> QED
    BY <2>1, <2>2
<1>9. CASE again
  <2>1. h.saw = "reversed" /\ request' = NewCycle("PROCESSING", "system") /\ request.cycle < MaxCycles
    BY <1>9 DEF Contained, RequestAfter
  <2>2. provider.refunds[x].state = "reversed"
    BY <1>1, <2>1, RefundsTyped DEF HandOK
  <2>3. x \in Ours
    BY <1>1, <2>2 DEF Exempt, Refs
  <2>4. Used(x) /\ ~Dead(x)
    BY <1>1, <2>2 DEF Used, Dead
  <2>5. Since(x) = request.cycle
    BY <2>3, <2>4, AliveIsOfThisCycle
  <2> HIDE DEF again, net, adopt, x
  <2>6. ASSUME NEW q \in Ours, Used(q) PROVE Dead(q)'
    <3>1. CASE q = x
      BY <1>1, <2>1, <3>1 DEF Dead
    <3>2. CASE q # x
      <4>1. Since(q) # request.cycle
        BY <2>3, <2>4, <2>5, <2>6, <3>2 DEF Singly, OnePerCycle
      <4>2. Dead(q)
        BY <2>6, <4>1, AliveIsOfThisCycle
      <4> QED
        BY <1>1, <4>2 DEF Dead, RowsGrow, Refs
    <3> QED
      BY <3>1, <3>2
  <2> HIDE DEF h
  <2>7. provider'.refunds = provider.refunds
    OBVIOUS
  <2> QED
    BY <1>8, <2>1, <2>6, <2>7, NextCycle
<1>10. CASE ~again
  <2> DEFINE status == IF Fully(net) THEN "APPROVED" ELSE "NEEDS_REVIEW"
  <2>1. request' = request \/ (c # 0 /\ request' = [Leaves(status) EXCEPT !.ref = x])
    BY <1>10 DEF RequestAfter
  <2>2. status \in {"APPROVED", "NEEDS_REVIEW"} /\ request \in Request
    BY RefundsTyped
  <2> HIDE DEF status, again, net, adopt
  <2>3. /\ request'.cycle = request.cycle
        /\ request'.status = request.status \/ request'.status \in {"APPROVED", "NEEDS_REVIEW"}
        /\ request'.ref = request.ref \/ (c # 0 /\ request'.ref = x)
    BY <2>1, <2>2 DEF Leaves, Request
  <2>4. request'.ref \in Ours => provider.refunds[request'.ref].since = request'.cycle
    <3>1. request.ref \in Ours => Since(request.ref) = request.cycle
      BY DEF Singly, BoundToItsOwn
    <3> QED
      BY <1>6, <2>3, <3>1 DEF Since
  <2> HIDE DEF h, x
  <2> QED
    BY <1>1, <1>8, <2>3, <2>4, AnswersAreSingle DEF Closed
<1> QED
  BY <1>9, <1>10

LEMMA ConfirmationsAreSingle ==
  ASSUME IInv, Singly, ~Exempt, NEW w \in Hands, hands[w].pc = "apply", ApplyConfirmedAdjustment(hands[w]),
         hands' = [hands EXCEPT ![w] = Idle], provider' = provider
  PROVE  Singly'
<1> DEFINE h == hands[w]
           a == adjustments[h.ref]
<1>1. h.saw \in {"succeeded", "reversed"}
  BY DEF ApplyConfirmedAdjustment
<1>2. CASE ~Ready
  <2>1. UNCHANGED <<request, adjustments>>
    BY <1>2 DEF ApplyConfirmedAdjustment
  <2> QED
    BY <2>1, IdleIsTyped, StillIdle
<1>3. CASE Ready /\ a.status = "REVERSED"
  <2>1. request' = request /\ Record(h, [a EXCEPT !.cycle = BoundTo(h, FALSE)])
    BY <1>3 DEF ApplyConfirmedAdjustment
  <2>2. Record(h, [a EXCEPT !.cycle = BoundTo(h, FALSE), !.status = a.status])
    <3>1. CASE h.ref = None
      BY <2>1, <3>1 DEF Record
    <3>2. CASE h.ref # None
      <4>1. a \in Adjustment
        BY <3>2, AnswerIs
      <4>2. [a EXCEPT !.cycle = BoundTo(h, FALSE)] = [a EXCEPT !.cycle = BoundTo(h, FALSE), !.status = a.status]
        BY <4>1 DEF Adjustment
      <4> QED
        BY <2>1, <4>2
    <3> QED
      BY <3>1, <3>2
  <2> DEFINE s == a.status
  <2>3. s = a.status
    OBVIOUS
  <2> HIDE DEF s
  <2>4. RowsGrow
    BY <2>2, <2>3, RecordGrows
  <2>5. \A q \in Ours : adjustments'[q].cycle \in {0, adjustments[q].cycle}
                          \/ (Used(q) /\ adjustments'[q].cycle = Since(q))
    BY <2>2, <2>3, RecordBinds
  <2>6. request'.ref \in Ours => provider.refunds[request'.ref].since = request'.cycle
    BY <2>1 DEF Singly, BoundToItsOwn, Since
  <2> QED
    BY <2>1, <2>4, <2>5, <2>6, AnswersAreSingle
<1>4. CASE Ready /\ a.status # "REVERSED"
  <2>1. Confirms(h)
    BY <1>1, <1>4 DEF Confirms
  <2> DEFINE c == ActsFor(h, h.saw = "succeeded")
  <2>2. c = ActsFor(h, h.saw = "succeeded" /\ a.status # "REVERSED")
    <3>1. CASE h.saw = "succeeded"
      BY <1>4, <3>1
    <3>2. CASE h.saw # "succeeded"
      BY <1>4, <3>2
    <3> QED
      BY <3>1, <3>2
  <2>3. ~OnlyRecorded(h, c)
    BY <2>1, ConfirmedMoney DEF OnlyRecorded
  <2>4. /\ Moved(h, c)
        /\ Contained(h, c) /\ NetAfter(h) = 0 => request.cycle < MaxCycles
        /\ request' = RequestAfter(h, c, NetAfter(h))
    BY <1>4, <2>2, <2>3 DEF ApplyConfirmedAdjustment
  <2> QED
    BY <2>1, <2>4, ConfirmedIsSingle
<1> QED
  BY <1>2, <1>3, <1>4

LEMMA AppliesAreSingle ==
  ASSUME IInv, Singly, ~Exempt, NEW w \in Hands, Apply(w) PROVE Singly'
<1>1. /\ hands[w].pc = "apply" /\ hands' = [hands EXCEPT ![w] = Idle] /\ provider' = provider
      /\ \/ ApplyPending(hands[w])
         \/ ReleaseRefundReservation(hands[w])
         \/ ApplyConfirmedAdjustment(hands[w])
  BY DEF Apply, Rest
<1> QED
  BY <1>1, PendingIsSingle, ReleaseIsSingle, ConfirmationsAreSingle

\* A chargeback that was reversed stays so.
LEMMA RefundKept ==
  ASSUME IInv, NEW d \in Disputes, NEW r \in Refs, r # d, NEW m, provider' = [provider EXCEPT !.refunds[r] = m]
  PROVE  provider'.refunds[d] = provider.refunds[d]
<1>1. provider \in Provider /\ provider.refunds \in [Refs -> Refund] /\ d \in Refs
  BY RefundsTyped DEF Refs
<1>2. provider'.refunds = [provider.refunds EXCEPT ![r] = m]
  BY <1>1 DEF Provider
<1> QED
  BY <1>1, <1>2

LEMMA ExemptStays ==
  ASSUME IInv, Exempt, [Next]_vars PROVE Exempt'
<1>1. PICK d \in Disputes : provider.refunds[d].state = "reversed"
  BY DEF Exempt
<1>2. SUFFICES provider'.refunds[d].state = "reversed"
  BY DEF Exempt
<1>3. provider \in Provider /\ provider.refunds \in [Refs -> Refund] /\ d \in Refs /\ d \notin Ours
      /\ Disputes \subseteq Refs /\ Ours \subseteq Refs
  BY RefundsTyped, PaymentsAssumption DEF Refs
<1>4. CASE \E w \in {"staff", "tick"} : Submit(w)
  <2>1. \/ provider' = provider
        \/ \E r \in NextId : provider' = [provider EXCEPT !.refunds[r] = Asked]
    BY <1>4 DEF Submit, SubmitRefundCycle, Discover, Post, PostRejected, PostLost
  <2>2. NextId \subseteq Ours
    BY DEF NextId, Unused
  <2>3. ASSUME NEW r \in NextId, provider' = [provider EXCEPT !.refunds[r] = Asked] PROVE provider'.refunds[d] = provider.refunds[d]
    BY <1>3, <2>2, <2>3, RefundKept
  <2> QED
    BY <1>1, <2>1, <2>3
<1>5. ASSUME NEW r \in Refs, NEW from \in {"pending", "succeeded"}, NEW to, Moves(r, from, to)
      PROVE  provider'.refunds[d].state = "reversed"
  <2>1. r # d
    BY <1>1, <1>5 DEF Moves
  <2>2. provider' = [provider EXCEPT !.refunds[r].state = to]
    BY <1>5 DEF Moves
  <2>3. provider' = [provider EXCEPT !.refunds[r] = [provider.refunds[r] EXCEPT !.state = to]]
    BY <2>2
  <2> QED
    BY <1>1, <2>1, <2>3, RefundKept
<1>6. ASSUME NEW r \in Disputes, NEW amount, Dispute(r, amount)
      PROVE  provider'.refunds[d].state = "reversed"
  <2>1. r # d /\ provider' = [provider EXCEPT !.refunds[r] = [state |-> "succeeded", amount |-> amount, since |-> 0]]
    BY <1>1, <1>6 DEF Dispute
  <2> QED
    BY <1>1, <1>3, <2>1, RefundKept
<1>7. CASE \/ PageMade \/ CreateFails
           \/ Pays("failed", 0) \/ \E amount \in 1 .. Amount : Pays("paid", amount)
  <2>1. \/ \E made : provider' = [provider EXCEPT !.page = made]
        \/ \E charge, amount : provider' = [provider EXCEPT !.charge = charge, !.paid = amount]
    BY <1>7 DEF PageMade, CreateFails, Pays
  <2>2. provider'.refunds = provider.refunds
    BY <1>3, <2>1 DEF Provider
  <2> QED
    BY <1>1, <2>2
<1>8. CASE \/ \E n \in Spends : Spend(n)
           \/ GrantMonth \/ PlanEnds
           \/ CreateRejected \/ MarkUncertain \/ PersistCheckoutSession
           \/ CheckBegins \/ CheckEnds \/ AskCharge
           \/ \E w \in {"asker", "tick"} : SettleCharge(w)
           \/ RequestRefund \/ CancelRefundRequest \/ RefuseRefund \/ ApproveRefund
           \/ Apply("staff") \/ Apply("tick") \/ Claim \/ Exhaust \/ VerifyRefund
           \/ \E w \in Hooks : Apply(w) \/ \E r \in Refs : HookBegins(w, r)
           \/ \E w \in Hands : Dies(w)
           \/ UNCHANGED vars
  <2>1. provider' = provider
    BY <1>8 DEF Spend, GrantMonth, PlanEnds, CreateRejected, MarkUncertain, PersistCheckoutSession, CheckBegins,
         CheckEnds, AskCharge, SettleCharge, RequestRefund, CancelRefundRequest, RefuseRefund, CloseRequest,
         ApproveRefund, Undisturbed, Apply, Claim, Exhaust, VerifyRefund, HookBegins, Dies, vars
  <2> QED
    BY <1>1, <2>1
<1>9. CASE \/ \E r \in Ours : Moves(r, "pending", "succeeded") \/ Moves(r, "pending", "failed")
           \/ \E r \in Refs : Moves(r, "succeeded", "reversed")
           \/ \E r \in Disputes, amount \in Disputed[payment.kind] : Dispute(r, amount)
  BY <1>3, <1>5, <1>6, <1>9
<1> QED
  BY <1>4, <1>7, <1>8, <1>9 DEF Next, PassStep

LEMMA SinglyInductive ==
  IInv /\ (Exempt \/ Singly) /\ [Next]_vars => (Exempt \/ Singly)'
<1> SUFFICES ASSUME IInv, Singly, ~Exempt, [Next]_vars PROVE Singly'
  BY ExemptStays
<1>1. CASE \E w \in Hooks : Apply(w)
  BY <1>1, AppliesAreSingle DEF Hands
<1>2. CASE Apply("staff") \/ Apply("tick")
  BY <1>2, AppliesAreSingle DEF Hands
<1>3. CASE \/ \E n \in Spends : Spend(n)
           \/ GrantMonth \/ PlanEnds
           \/ PageMade \/ CreateFails \/ CreateRejected \/ MarkUncertain \/ PersistCheckoutSession
           \/ CheckBegins \/ CheckEnds \/ AskCharge \/ Exhaust
           \/ Pays("failed", 0) \/ \E amount \in 1 .. Amount : Pays("paid", amount)
           \/ \E w \in Hands : Dies(w)
           \/ UNCHANGED vars
  BY <1>3, OthersAreSingle
<1>4. CASE VerifyRefund \/ \E w \in Hooks : \E r \in Refs : HookBegins(w, r)
  BY <1>4, ReadersAreSingle
<1>5. CASE \E w \in {"asker", "tick"} : SettleCharge(w)
  BY <1>5, SettlementsAreSingle
<1>6. CASE RequestRefund \/ CancelRefundRequest \/ RefuseRefund \/ ApproveRefund
  BY <1>6, RequestsAreSingle
<1>7. CASE \/ \E r \in Ours : Moves(r, "pending", "succeeded") \/ Moves(r, "pending", "failed")
           \/ \E r \in Refs : Moves(r, "succeeded", "reversed")
           \/ \E r \in Disputes, amount \in Disputed[payment.kind] : Dispute(r, amount)
  BY <1>7, ProviderIsSingle
<1>8. CASE Claim
  BY <1>8, ClaimsAreSingle
<1>9. CASE Submit("staff") \/ Submit("tick")
  BY <1>9, SubmissionsAreSingle
<1> QED
  BY <1>1, <1>2, <1>3, <1>4, <1>5, <1>6, <1>7, <1>8, <1>9 DEF Next, PassStep

\* Two live refunds would both be of the cycle of the request.
LEMMA SinglyIsOne == IInv /\ (Exempt \/ Singly) => OneLiveRefund
<1> SUFFICES ASSUME IInv, Singly PROVE OneLiveRefund
  BY DEF Exempt, OneLiveRefund
<1> DEFINE L == {r \in Ours : provider.refunds[r].state \in {"pending", "succeeded"}}
<1>1. ASSUME NEW q \in L PROVE q \in Ours /\ Used(q) /\ Since(q) = request.cycle
  <2>1. q \in Ours /\ q \in Refs /\ Used(q) /\ provider.refunds[q].state \notin {"failed", "reversed"}
    BY DEF Used, Refs
  <2>2. RowOK(adjustments[q], provider.refunds[q])
    BY <2>1 DEF IInv, Rows
  <2>3. ~Dead(q)
    BY <2>1, <2>2 DEF RowOK, Dead
  <2> QED
    BY <2>1, <2>3, AliveIsOfThisCycle
<1> HIDE DEF L
<1>2. \A q, r \in L : q = r
  BY <1>1 DEF Singly, OnePerCycle
<1>3. CASE L = {}
  BY <1>3, FS_EmptySet DEF OneLiveRefund, L
<1>4. CASE L # {}
  <2>1. PICK q : L = {q}
    BY <1>2, <1>4
  <2>2. Cardinality(L) = 1
    BY <2>1, FS_Singleton
  <2> QED
    BY <2>2 DEF OneLiveRefund, L
<1> QED
  BY <1>3, <1>4

LEMMA InitSingly == Init => Singly
<1> SUFFICES ASSUME Init PROVE Singly
  OBVIOUS
<1>1. \A r \in Refs : provider.refunds[r].state = "none" /\ adjustments[r].cycle = 0
  BY DEF Init, Unseen
<1>2. request.status = "NONE" /\ request.cycle = 0 /\ request.ref = None /\ None \notin Ours
  BY PaymentsAssumption DEF Init, Refs
<1>3. \A w \in Hands : hands[w].cycle = 0
  <2>1. Idle.cycle = 0 /\ [Idle EXCEPT !.pc = "create"].cycle = 0
    BY DEF Idle
  <2> QED
    BY <2>1 DEF Init
<1>4. OnePerCycle
  BY <1>1, <1>2 DEF OnePerCycle, Used, Refs
<1>5. BoundToItsOwn
  BY <1>1, <1>2 DEF BoundToItsOwn, Refs
<1>6. Holders
  BY <1>2, <1>3 DEF Holders, HolderOK
<1> QED
  BY <1>4, <1>5, <1>6 DEF Singly

\* We never have two refunds of one charge under way or paid at the provider, through lost
\* answers, nameless refunds, retries, cycles and deaths, until a chargeback is reversed:
\* what submitRefundCycle and refundCycleBinding keep between them.
THEOREM OneRefundAlive == ASSUME ~Slow PROVE Spec => []OneLiveRefund
<1>1. Init => Exempt \/ Singly
  BY InitSingly
<1>2. IInv /\ (Exempt \/ Singly) /\ [Next]_vars => (Exempt \/ Singly)'
  BY SinglyInductive
<1>3. IInv /\ (Exempt \/ Singly) => OneLiveRefund
  BY SinglyIsOne
<1> QED
  BY <1>1, <1>2, <1>3, Invariance, PTL DEF Spec

-----------------------------------------------------------------------------
(* The credits the adjustments hold taken.                                  *)

Taken == Total(Takings, OverRefs)

LEMMA TakenIs ==
  MapThenSumSet(LAMBDA r : adjustments[r].credit, {r \in Refs : Over(adjustments[r].status)}) = Taken
<1>1. OverRefs \in SUBSET Refs
  BY DEF OverRefs
<1>2. MapThenSumSet(LAMBDA r : adjustments[r].credit, OverRefs) = Total(Takings, OverRefs)
  BY <1>1, CreditIs
<1> QED
  BY <1>2 DEF Taken, OverRefs

LEMMA TakenNext == Taken' = Total(Takings', OverRefs')
BY DEF Taken

\* Steps that confirm nothing leave the credits alone.
LEMMA TakenStays ==
  ASSUME \A r \in Refs : /\ Over(adjustments[r].status) <=> Over(adjustments'[r].status)
                         /\ Over(adjustments[r].status) => adjustments'[r].credit = adjustments[r].credit
  PROVE  Taken' = Taken
<1>1. OverRefs' = OverRefs /\ OverRefs \in SUBSET Refs
  BY DEF OverRefs
<1>2. \A r \in OverRefs : Takings'[r] = Takings[r]
  BY DEF OverRefs, Takings
<1>3. Total(Takings', OverRefs) = Total(Takings, OverRefs)
  BY <1>1, <1>2, RefsFinite, TotalSame
<1> QED
  BY <1>1, <1>3, TakenNext DEF Taken

LEMMA TakenMoves ==
  ASSUME RowsTyped, NEW x \in Refs, NEW row \in Adjustment, Over(row.status),
         adjustments' = [adjustments EXCEPT ![x] = row]
  PROVE  Taken' = row.credit + Total(Takings, Others(x))
<1>1. RowsTyped'
  BY DEF RowsTyped
<1>2. OverRefs' = Others(x) \cup {x} /\ x \notin Others(x) /\ Others(x) \in SUBSET Refs
  BY DEF OverRefs, Others, RowsTyped
<1>3. \A r \in OverRefs' : Takings'[r] \in Int
  <2>1. \A r \in Refs : adjustments'[r] \in Adjustment
    BY <1>1 DEF RowsTyped
  <2> QED
    BY <1>2, <2>1 DEF Takings, Adjustment
<1>4. \A r \in Others(x) : Takings'[r] = Takings[r]
  BY <1>2 DEF Takings, RowsTyped
<1>5. Total(Takings', Others(x)) = Total(Takings, Others(x))
  BY <1>2, <1>4, RefsFinite, TotalSame
<1>6. OverRefs' \ {x} = Others(x) /\ IsFiniteSet(OverRefs') /\ x \in OverRefs'
  BY <1>2, RefsFinite
<1>7. Total(Takings', OverRefs') = Takings'[x] + Total(Takings', OverRefs' \ {x})
  BY <1>3, <1>6, TotalSplit
<1>8. Takings'[x] = row.credit
  BY DEF Takings, RowsTyped
<1> QED
  BY <1>5, <1>6, <1>7, <1>8, TakenNext

LEMMA TakenOfNone ==
  ASSUME \A r \in Refs : ~Over(adjustments[r].status)
  PROVE  Taken = 0
<1>1. OverRefs = {}
  BY DEF OverRefs
<1> QED
  BY <1>1, TotalNone DEF Taken

LEMMA TargetCreditIs ==
  ASSUME NEW h, h.ref \in Refs
  PROVE  TargetCredit(h) = -Withheld(NetAfter(h)) - Total(Takings, Others(h.ref))
<1>1. Others(h.ref) \in SUBSET Refs
  BY DEF Others
<1>2. MapThenSumSet(LAMBDA q : adjustments[q].credit, Others(h.ref)) = Total(Takings, Others(h.ref))
  BY <1>1, CreditIs
<1> QED
  BY <1>2 DEF TargetCredit

-----------------------------------------------------------------------------
(* What the payment funded, and the share of it that goes back.             *)

Fundings == {e \in entries : e.key[1] \in {"payment", "month"}}
GrantsGive == \A e \in Fundings : e.delta \in Nat

LEMMA TotalNat ==
  ASSUME NEW S, IsFiniteSet(S), NEW m, \A x \in S : m[x] \in Nat
  PROVE  Total(m, S) \in Nat
<1> DEFINE Bad == {s \in SUBSET S : Total(m, s) \notin Nat}
<1>1. SUFFICES ASSUME Bad # {} PROVE FALSE
  BY <1>1
<1>2. Bad \in SUBSET (SUBSET S)
  OBVIOUS
<1>3. PICK T \in Bad : \A U \in Bad : ~(U \subseteq T /\ U # T)
  <2> HIDE DEF Bad
  <2> QED
    BY <1>1, <1>2, LeastSubset
<1>4. T \in SUBSET S /\ Total(m, T) \notin Nat /\ IsFiniteSet(T)
  BY FS_Subset
<1>5. T # {}
  BY <1>4, TotalNone
<1>6. Pick(T) \in T /\ T \ {Pick(T)} \subseteq T /\ T \ {Pick(T)} # T
  BY <1>5, PickIsIn
<1>7. T \ {Pick(T)} \notin Bad
  BY <1>3, <1>6
<1>8. Total(m, T \ {Pick(T)}) \in Nat
  BY <1>4, <1>7
<1>9. Total(m, T) = m[Pick(T)] + Total(m, T \ {Pick(T)})
  BY <1>4, <1>5, TotalPick
<1>10. m[Pick(T)] \in Nat
  BY <1>4, <1>6
<1> HIDE DEF Bad
<1> QED
  BY <1>4, <1>8, <1>9, <1>10

LEMMA FundedNat ==
  ASSUME IInv, GrantsGive
  PROVE  Funded \in Nat /\ payment.amount \in Nat /\ payment.amount > 0
<1>1. IsFiniteSet(Fundings)
  BY FS_Subset DEF IInv, PaymentsTypeOK, Fundings
<1>2. Funded = Sum(Fundings)
  BY DEF Funded, Fundings
<1>3. \A e \in Fundings : Deltas(Fundings)[e] \in Nat
  BY DEF Deltas, GrantsGive
<1>4. Funded \in Nat
  BY <1>1, <1>2, <1>3, SumIs, TotalNat
<1>5. payment.amount \in Nat /\ payment.amount > 0
  BY RefundsTyped, PaymentsAssumption
<1> QED
  BY <1>4, <1>5

\* Steps that grant nothing leave the funding alone.
LEMMA FundedStays ==
  ASSUME GrantsGive, entries \subseteq entries',
         \A e \in entries' : e \in entries \/ e.key[1] \notin {"payment", "month"}
  PROVE  Funded' = Funded /\ GrantsGive'
<1>1. Fundings' = Fundings
  BY DEF Fundings
<1> QED
  BY <1>1 DEF Funded, Fundings, GrantsGive

LEMMA QuotientIs ==
  ASSUME NEW x \in Int, NEW a \in Int, a > 0
  PROVE  (x \div a) \in Int /\ a * (x \div a) <= x /\ x < a * (x \div a) + a
OBVIOUS

LEMMA NextMultiple ==
  ASSUME NEW q \in Int, NEW p \in Int, NEW a \in Int, a > 0, q < p
  PROVE  a * q + a <= a * p
<1>1. q + 1 <= p
  OBVIOUS
<1>2. a * (p - (q + 1)) >= 0
  BY <1>1
<1> QED
  BY <1>2

\* The share rounded up is the least number of credits that covers it.
LEMMA LeastCover ==
  ASSUME NEW f \in Nat, NEW k \in Nat, NEW a \in Nat, a > 0, k <= a
  PROVE  LET q == (f * k + a - 1) \div a
         IN  /\ q \in 0 .. f /\ q * a >= f * k
             /\ \A n \in Int : n * a >= f * k => q <= n
<1> DEFINE c == f * k
           q == (c + a - 1) \div a
<1>1. c \in Nat /\ c <= f * a
  OBVIOUS
<1> HIDE DEF c
<1>2. q \in Int /\ a * q <= c + a - 1 /\ c + a - 1 < a * q + a
  <2>1. c + a - 1 \in Int
    BY <1>1
  <2> DEFINE x == c + a - 1
  <2> HIDE DEF x
  <2>2. (x \div a) \in Int /\ a * (x \div a) <= x /\ x < a * (x \div a) + a
    BY <2>1, QuotientIs DEF x
  <2> QED
    BY <2>2 DEF x
<1> HIDE DEF q
<1>3. a * q \in Int /\ a * q >= c
  <2>1. a * q \in Int
    BY <1>2
  <2> DEFINE p == a * q
  <2>2. p \in Int /\ c + a - 1 < p + a
    BY <1>2, <2>1
  <2> HIDE DEF p
  <2>3. p >= c
    BY <1>1, <2>2
  <2> QED
    BY <2>1, <2>3 DEF p
<1>4. \A n \in Int : n * a >= c => q <= n
  <2>1. SUFFICES ASSUME NEW n \in Int, n * a >= c, n < q PROVE FALSE
    BY <1>2
  <2>2. a * n + a <= a * q /\ a * n >= c
    BY <1>2, <2>1, NextMultiple
  <2> DEFINE u == a * n
             v == a * q
  <2>3. u \in Int /\ v \in Int /\ u + a <= v /\ u >= c /\ v <= c + a - 1
    BY <1>2, <1>3, <2>2
  <2> HIDE DEF u, v
  <2> QED
    BY <1>1, <2>3
<1>5. q <= f
  BY <1>1, <1>4
<1>6. q >= 0
  <2>1. SUFFICES ASSUME q < 0 PROVE FALSE
    BY <1>2
  <2>2. a * q + a <= a * 0
    BY <1>2, <2>1, NextMultiple
  <2> DEFINE v == a * q
  <2>3. v \in Int /\ v + a <= 0 /\ v >= c
    BY <1>3, <2>2
  <2> HIDE DEF v
  <2> QED
    BY <1>1, <2>3
<1>7. q \in 0 .. f /\ q * a >= c
  BY <1>2, <1>3, <1>5, <1>6
<1> QED
  BY <1>4, <1>7 DEF q, c

LEMMA ReturnedIs ==
  ASSUME IInv, NEW n \in Int
  PROVE  LET k == Least(payment.amount, Most(0, -n)) IN k \in Nat /\ k <= payment.amount
<1>1. payment.amount \in Nat
  BY RefundsTyped, PaymentsAssumption
<1> QED
  BY <1>1 DEF Least, Most

LEMMA WithheldIs ==
  ASSUME IInv, GrantsGive, NEW n \in Int
  PROVE  LET k == Least(payment.amount, Most(0, -n))
             q == Withheld(n)
         IN  /\ q \in 0 .. Funded /\ q * payment.amount >= Funded * k
             /\ \A m \in Int : m * payment.amount >= Funded * k => q <= m
<1> DEFINE f == Funded
           a == payment.amount
           k == Least(a, Most(0, -n))
           q == (f * k + a - 1) \div a
<1>1. f \in Nat /\ a \in Nat /\ a > 0 /\ k \in Nat /\ k <= a
  BY FundedNat, ReturnedIs
<1>2. Withheld(n) = Least(f, q)
  BY DEF Withheld
<1> HIDE DEF f, a, k
<1>3. /\ q \in 0 .. f /\ q * a >= f * k
      /\ \A m \in Int : m * a >= f * k => q <= m
  BY <1>1, LeastCover
<1> HIDE DEF q
<1>4. Least(f, q) = q
  BY <1>1, <1>3 DEF Least
<1> QED
  BY <1>2, <1>3, <1>4 DEF f, a, k

LEMMA OwedIs ==
  ASSUME IInv, GrantsGive
  PROVE  Owed(Returned) = Withheld(Net)
<1> DEFINE f == Funded
           a == payment.amount
           k == Returned
           q == Withheld(Net)
           Covers(n) == n * a >= f * k /\ \A m \in 0 .. f : m * a >= f * k => n <= m
<1>1. Net \in Int
  BY NetIs, MoneysAreInts DEF IInv, PaymentsTypeOK, OverRefs
<1>2. /\ q \in 0 .. f /\ q * a >= f * k
      /\ \A m \in Int : m * a >= f * k => q <= m
  BY <1>1, WithheldIs DEF Returned
<1>3. f \in Nat
  BY FundedNat
<1>4. Owed(k) = CHOOSE n \in 0 .. f : Covers(n)
  BY DEF Owed
<1> HIDE DEF f, a, k, q
<1>5. Covers(q)
  BY <1>2, <1>3
<1>6. \A n \in 0 .. f : Covers(n) => n = q
  BY <1>2, <1>3
<1> HIDE DEF Covers
<1>7. (CHOOSE n \in 0 .. f : Covers(n)) = q
  BY <1>2, <1>5, <1>6
<1> QED
  BY <1>4, <1>7 DEF k, q

LEMMA NothingWithheld ==
  ASSUME IInv, GrantsGive
  PROVE  Withheld(0) = 0
<1> DEFINE f == Funded
           a == payment.amount
           k == Least(a, Most(0, -0))
           q == Withheld(0)
<1>1. f \in Nat /\ a \in Nat /\ a > 0
  BY FundedNat
<1>2. /\ q \in 0 .. f
      /\ \A m \in Int : m * a >= f * k => q <= m
  BY WithheldIs
<1>3. k = 0
  <2> HIDE DEF a
  <2> QED
    BY <1>1 DEF Least, Most
<1> HIDE DEF f, a, k, q
<1>4. 0 * a >= f * k
  BY <1>1, <1>3
<1>5. q <= 0
  BY <1>2, <1>4
<1> QED
  BY <1>1, <1>2, <1>5 DEF q

-----------------------------------------------------------------------------
(* The credits taken are the share of the money that is away.               *)

Shares == GrantsGive /\ Taken = -Withheld(Net)

SameRows ==
  \A r \in Refs : /\ Over(adjustments[r].status) <=> Over(adjustments'[r].status)
                  /\ adjustments'[r].money = adjustments[r].money
                  /\ adjustments'[r].credit = adjustments[r].credit

LEMMA SharesAreRows ==
  ASSUME IInv, Shares
  PROVE  RowsMatchMoney
<1>1. Owed(Returned) = Withheld(Net)
  BY OwedIs DEF Shares
<1> QED
  BY <1>1, TakenIs DEF Shares, RowsMatchMoney

LEMMA SharesStay ==
  ASSUME IInv, IInv', Shares, SameRows, payment'.amount = payment.amount, entries \subseteq entries',
         \A e \in entries' : e \in entries \/ e.key[1] \notin {"payment", "month"}
  PROVE  Shares'
<1>1. Funded' = Funded /\ GrantsGive'
  BY FundedStays DEF Shares
<1>2. Net' = Net
  BY NetStays DEF SameRows, IInv, PaymentsTypeOK
<1>3. Taken' = Taken
  BY TakenStays DEF SameRows
<1>4. (Withheld(Net))' = Withheld(Net)
  BY <1>1, <1>2 DEF Withheld
<1> QED
  BY <1>1, <1>3, <1>4 DEF Shares

LEMMA SameRowsSame == ASSUME adjustments' = adjustments PROVE SameRows
BY DEF SameRows

\* Where nothing is away nothing is taken, whatever was granted.
LEMMA NothingAway ==
  ASSUME IInv, IInv', Shares, adjustments' = adjustments, Net = 0, Taken = 0, GrantsGive'
  PROVE  Shares'
<1>1. Net' = 0 /\ Taken' = 0
  BY SameRowsSame, NetStays, TakenStays DEF SameRows, IInv, PaymentsTypeOK
<1>2. (IInv /\ GrantsGive => Withheld(0) = 0)'
  BY NothingWithheld, PTL
<1>3. (Withheld(0))' = 0
  BY <1>2
<1>4. (Withheld(Net))' = (Withheld(0))'
  BY <1>1 DEF Withheld
<1> QED
  BY <1>1, <1>3, <1>4 DEF Shares

LEMMA GrantGives ==
  ASSUME GrantsGive, NEW key, entries' = Posted(key, Credits)
  PROVE  GrantsGive'
<1>1. \A e \in entries' : e \in entries \/ e = [key |-> key, delta |-> Credits]
  BY DEF Posted
<1>2. Credits \in Nat
  BY PaymentsAssumption
<1> QED
  BY <1>1, <1>2 DEF GrantsGive, Fundings

LEMMA GrantsShare ==
  ASSUME IInv, IInv', Shares, GrantMonth
  PROVE  Shares'
<1>1. adjustments' = adjustments /\ entries' = Posted(Month(1), Credits) /\ payment.status = "SUCCEEDED"
  BY DEF GrantMonth
<1>2. GrantsGive'
  BY <1>1, GrantGives DEF Shares
<1>3. Net = 0
  BY <1>1 DEF IInv, Money
<1>4. Taken = 0
  BY <1>3, NothingWithheld DEF Shares
<1> QED
  BY <1>1, <1>2, <1>3, <1>4, NothingAway

LEMMA SettlementsShare ==
  ASSUME IInv, IInv', Shares, NEW w \in {"asker", "tick"}, SettleCharge(w)
  PROVE  Shares'
<1>1. w \in Hands /\ hands[w].pc = "settle" /\ adjustments' = adjustments
  BY DEF SettleCharge, Hands
<1>2. CASE UNCHANGED <<payment, entries>>
  BY <1>1, <1>2, SameRowsSame, SharesStay
<1>3. CASE ~Settled
  <2>1. Net = 0 /\ Taken = 0
    BY <1>1, <1>3, UnsettledIsUntouched, TakenOfNone DEF Untouched
  <2>2. entries' = entries \/ entries' = Posted(Granted, Credits)
    BY <1>3 DEF SettleCharge, Settle, ChargeFailed, QueueAutomaticRefund, GrantPurchase
  <2>3. GrantsGive'
    <3>1. CASE entries' = entries
      BY <3>1 DEF Shares, GrantsGive, Fundings
    <3>2. CASE entries' = Posted(Granted, Credits)
      BY <3>2, GrantGives DEF Shares
    <3> QED
      BY <2>2, <3>1, <3>2
  <2> QED
    BY <1>1, <2>1, <2>3, NothingAway
<1> QED
  BY <1>2, <1>3 DEF SettleCharge, Settle

LEMMA PostedShares ==
  ASSUME IInv, IInv', Shares, UNCHANGED <<payment, adjustments>>,
         \/ entries' = entries
         \/ \E kind \in {"spend", "reserve"} : \E n, d : entries' = Posted(Key(kind, n, None), d)
  PROVE  Shares'
<1>1. CASE entries' = entries
  BY <1>1, SameRowsSame, SharesStay
<1>2. ASSUME NEW kind \in {"spend", "reserve"}, NEW n, NEW d, entries' = Posted(Key(kind, n, None), d)
      PROVE  Shares'
  <2>1. entries \subseteq entries' /\ \A e \in entries' : e \in entries \/ e.key = Key(kind, n, None)
    BY <1>2, PostedGrows
  <2>2. \A e \in entries' : e \in entries \/ e.key[1] \notin {"payment", "month"}
    BY <2>1 DEF Key
  <2> QED
    BY <2>1, <2>2, SameRowsSame, SharesStay
<1> QED
  BY <1>1, <1>2

\* An answer without effect moves no credits.
LEMMA RecordShares ==
  ASSUME IInv, IInv', Shares, NEW w \in Hands, hands[w].pc = "apply", NEW status,
         Record(hands[w], [adjustments[hands[w].ref] EXCEPT !.cycle = BoundTo(hands[w], FALSE), !.status = status]),
         hands[w].ref # None => (Over(adjustments[hands[w].ref].status) <=> Over(status))
  PROVE  SameRows
<1> DEFINE x == hands[w].ref
           b == BoundTo(hands[w], FALSE)
           row == [adjustments[x] EXCEPT !.cycle = b, !.status = status]
<1>1. CASE x = None
  BY <1>1, SameRowsSame DEF Record
<1>2. CASE x # None
  <2>1. x \in Refs /\ adjustments[x] \in Adjustment /\ adjustments \in [Refs -> Adjustment]
    BY <1>2, AnswerIs DEF IInv, PaymentsTypeOK, RowsTyped
  <2>2. adjustments' = [adjustments EXCEPT ![x] = row]
    BY <1>2 DEF Record
  <2> HIDE DEF b
  <2>3. row.status = status /\ row.money = adjustments[x].money /\ row.credit = adjustments[x].credit
    BY <2>1 DEF Adjustment
  <2> HIDE DEF row
  <2>4. adjustments'[x] = row /\ \A r \in Refs \ {x} : adjustments'[r] = adjustments[r]
    BY <2>1, <2>2
  <2>5. Over(adjustments[x].status) <=> Over(row.status)
    BY <1>2, <2>3
  <2> HIDE DEF x
  <2>6. ASSUME NEW r \in Refs
        PROVE  /\ Over(adjustments[r].status) <=> Over(adjustments'[r].status)
               /\ adjustments'[r].money = adjustments[r].money
               /\ adjustments'[r].credit = adjustments[r].credit
    <3>1. CASE r = x
      BY <2>3, <2>4, <2>5, <3>1
    <3>2. CASE r # x
      BY <2>4, <3>2
    <3> QED
      BY <3>1, <3>2
  <2> QED
    BY <2>6 DEF SameRows
<1> QED
  BY <1>1, <1>2

LEMMA PendingShares ==
  ASSUME IInv, IInv', Shares, NEW w \in Hands, hands[w].pc = "apply", ApplyPending(hands[w])
  PROVE  Shares'
<1> DEFINE h == hands[w]
           s == IF adjustments[h.ref].status = "NONE" THEN "PENDING" ELSE adjustments[h.ref].status
<1>1. Record(h, [adjustments[h.ref] EXCEPT !.cycle = BoundTo(h, FALSE), !.status = s])
  <2>1. CASE h.ref = None
    BY <2>1 DEF ApplyPending, Record
  <2>2. CASE h.ref # None
    <3>1. adjustments[h.ref] \in Adjustment
      BY <2>2, AnswerIs
    <3>2. [adjustments[h.ref] EXCEPT !.cycle = BoundTo(h, FALSE), !.status = IF @ = "NONE" THEN "PENDING" ELSE @]
            = [adjustments[h.ref] EXCEPT !.cycle = BoundTo(h, FALSE), !.status = s]
      BY <3>1 DEF Adjustment
    <3> QED
      BY <3>2 DEF ApplyPending
  <2> QED
    BY <2>1, <2>2
<1>2. Over(adjustments[h.ref].status) <=> Over(s)
  BY DEF Over
<1> HIDE DEF s
<1>3. SameRows
  BY <1>1, <1>2, RecordShares
<1>4. UNCHANGED <<payment, entries>>
  BY DEF ApplyPending
<1> QED
  BY <1>3, <1>4, SharesStay

LEMMA ReleaseShares ==
  ASSUME IInv, IInv', Shares, NEW w \in Hands, hands[w].pc = "apply", ReleaseRefundReservation(hands[w])
  PROVE  Shares'
<1> DEFINE h == hands[w]
           c == ActsFor(h, FALSE)
           s == IF FinalAlready(h) THEN adjustments[h.ref].status ELSE "FAILED"
<1>1. Record(h, [adjustments[h.ref] EXCEPT !.cycle = BoundTo(h, FALSE), !.status = s])
  <2>1. CASE h.ref = None
    BY <2>1 DEF ReleaseRefundReservation, Record
  <2>2. CASE h.ref # None
    <3>1. adjustments[h.ref] \in Adjustment
      BY <2>2, AnswerIs
    <3>2. [adjustments[h.ref] EXCEPT !.cycle = BoundTo(h, FALSE), !.status = IF FinalAlready(h) THEN @ ELSE "FAILED"]
            = [adjustments[h.ref] EXCEPT !.cycle = BoundTo(h, FALSE), !.status = s]
      BY <3>1 DEF Adjustment
    <3> QED
      BY <3>2 DEF ReleaseRefundReservation
  <2> QED
    BY <2>1, <2>2
<1>2. h.ref # None => (Over(adjustments[h.ref].status) <=> Over(s))
  BY DEF FinalAlready, Over
<1> HIDE DEF s
<1>3. SameRows
  BY <1>1, <1>2, RecordShares
<1>4. payment'.amount = payment.amount
  <2>1. payment' = payment \/ payment' = [payment EXCEPT !.status = "SUCCEEDED", !.why = "other"]
    BY DEF ReleaseRefundReservation
  <2> QED
    BY <2>1, RefundsTyped DEF Payment
<1>5. entries \subseteq entries' /\ \A e \in entries' : e \in entries \/ e.key[1] \notin {"payment", "month"}
  <2>1. entries' = entries \/ entries' = Posted(Release(c), -Sum({e \in entries : e.key = Reserve(c)}))
    BY DEF ReleaseRefundReservation, GivenBack
  <2> DEFINE d == -Sum({e \in entries : e.key = Reserve(c)})
  <2> HIDE DEF d, c
  <2>2. CASE entries' = Posted(Release(c), d)
    <3>1. entries \subseteq entries' /\ \A e \in entries' : e \in entries \/ e.key = Release(c)
      BY <2>2, PostedGrows
    <3> QED
      BY <3>1 DEF Release, Key
  <2> QED
    BY <2>1, <2>2 DEF d
<1> QED
  BY <1>3, <1>4, <1>5, SharesStay

LEMMA ConfirmedShares ==
  ASSUME IInv, IInv', Shares, NEW w \in Hands, hands[w].pc = "apply", Confirms(hands[w]), NEW c,
         Moved(hands[w], c),
         entries' = EntriesAfter(hands[w], c, NetAfter(hands[w])),
         payment' = PaymentAfter(hands[w], c, NetAfter(hands[w]))
  PROVE  Shares'
<1> DEFINE h == hands[w]
           x == h.ref
           net == NetAfter(h)
<1>1. x \in Refs /\ net \in Int /\ net = TargetMoney(h) + Total(Monies, Others(x))
  BY ConfirmedMoney
<1>2. PICK row \in Adjustment :
        /\ adjustments' = [adjustments EXCEPT ![x] = row]
        /\ row.status = IF h.saw = "reversed" THEN "REVERSED" ELSE "SUCCEEDED"
        /\ row.money = TargetMoney(h) /\ row.credit = TargetCredit(h)
  BY ConfirmedRow
<1>3. Over(row.status) /\ RowsTyped
  BY <1>2 DEF Over, IInv, PaymentsTypeOK
<1>4. Net' = net
  BY <1>1, <1>2, <1>3, NetMoves
<1>5. Taken' = TargetCredit(h) + Total(Takings, Others(x))
  BY <1>1, <1>2, <1>3, TakenMoves
<1>6. TargetCredit(h) = -Withheld(net) - Total(Takings, Others(x))
  BY <1>1, TargetCreditIs
<1>7. Withheld(net) \in Int
  BY <1>1, WithheldInt
<1>8. Total(Takings, Others(x)) \in Int
  <2>1. Others(x) \in SUBSET Refs
    BY DEF Others
  <2> QED
    BY <1>3, <2>1, TakingsAreInts
<1>9. payment'.amount = payment.amount
  BY ConfirmedPayment
<1>10. entries \subseteq entries'
  BY DEF EntriesAfter, WithMovement, Posted
<1>11. \A e \in entries' : e \in entries \/ e.key[1] \notin {"payment", "month"}
  <2>1. \A e \in entries' : e \in entries \/ e.key[1] = "move" \/ e.key = Reserve(request.cycle + 1)
    BY ConfirmedEntries
  <2> QED
    BY <2>1 DEF Reserve, Key
<1>12. Funded' = Funded /\ GrantsGive'
  BY <1>10, <1>11, FundedStays DEF Shares
<1> HIDE DEF net, x, h
<1>13. (Withheld(Net))' = Withheld(net)
  BY <1>4, <1>9, <1>12 DEF Withheld
<1> DEFINE others == Total(Takings, Others(x))
           share == Withheld(net)
<1>14. others \in Int /\ share \in Int /\ Taken' = (-share - others) + others
  BY <1>5, <1>6, <1>7, <1>8
<1> HIDE DEF others, share
<1>15. Taken' = -share
  BY <1>14
<1> QED
  BY <1>12, <1>13, <1>15 DEF Shares, share

LEMMA AppliedShares ==
  ASSUME IInv, IInv', Shares, NEW w \in Hands, hands[w].pc = "apply", ApplyConfirmedAdjustment(hands[w])
  PROVE  Shares'
<1> DEFINE h == hands[w]
           a == adjustments[h.ref]
           c == ActsFor(h, h.saw = "succeeded" /\ a.status # "REVERSED")
<1>1. h.saw \in {"succeeded", "reversed"}
  BY DEF ApplyConfirmedAdjustment
<1>2. CASE ~Ready
  <2>1. UNCHANGED <<payment, adjustments, entries>>
    BY <1>2 DEF ApplyConfirmedAdjustment
  <2> QED
    BY <2>1, PostedShares
<1>3. CASE Ready /\ a.status = "REVERSED"
  <2>1. UNCHANGED <<payment, entries>> /\ Record(h, [a EXCEPT !.cycle = BoundTo(h, FALSE)])
    BY <1>3 DEF ApplyConfirmedAdjustment
  <2>2. Record(h, [a EXCEPT !.cycle = BoundTo(h, FALSE), !.status = a.status])
    <3>1. CASE h.ref = None
      BY <2>1, <3>1 DEF Record
    <3>2. CASE h.ref # None
      <4>1. a \in Adjustment
        BY <3>2, AnswerIs
      <4>2. [a EXCEPT !.cycle = BoundTo(h, FALSE)] = [a EXCEPT !.cycle = BoundTo(h, FALSE), !.status = a.status]
        BY <4>1 DEF Adjustment
      <4> QED
        BY <2>1, <4>2
    <3> QED
      BY <3>1, <3>2
  <2> DEFINE s == a.status
  <2>3. s = a.status
    OBVIOUS
  <2> HIDE DEF s
  <2>4. SameRows
    BY <2>2, <2>3, RecordShares
  <2> QED
    BY <2>1, <2>4, SharesStay
<1>4. CASE Ready /\ a.status # "REVERSED"
  <2>1. Confirms(h)
    BY <1>1, <1>4 DEF Confirms
  <2>2. ~OnlyRecorded(h, c)
    BY <2>1, ConfirmedMoney DEF OnlyRecorded
  <2>3. /\ Moved(h, c)
        /\ entries' = EntriesAfter(h, c, NetAfter(h))
        /\ payment' = PaymentAfter(h, c, NetAfter(h))
    BY <1>4, <2>2 DEF ApplyConfirmedAdjustment
  <2> HIDE DEF c
  <2> QED
    BY <2>1, <2>3, ConfirmedShares
<1> QED
  BY <1>2, <1>3, <1>4

LEMMA BesideShares ==
  ASSUME IInv, IInv', Shares, UNCHANGED <<adjustments, entries>>, payment'.amount = payment.amount
  PROVE  Shares'
BY SameRowsSame, SharesStay

LEMMA SharesInductive ==
  IInv /\ IInv' /\ Shares /\ [Next]_vars => Shares'
<1> SUFFICES ASSUME IInv, IInv', Shares, [Next]_vars PROVE Shares'
  OBVIOUS
<1>1. ASSUME NEW w \in Hands, Apply(w) PROVE Shares'
  <2>1. /\ hands[w].pc = "apply"
        /\ ApplyPending(hands[w]) \/ ReleaseRefundReservation(hands[w]) \/ ApplyConfirmedAdjustment(hands[w])
    BY <1>1 DEF Apply
  <2> QED
    BY <2>1, PendingShares, ReleaseShares, AppliedShares
<1>2. CASE \E w \in Hooks : Apply(w)
  BY <1>1, <1>2 DEF Hands
<1>3. CASE Apply("staff") \/ Apply("tick")
  BY <1>1, <1>3 DEF Hands
<1>4. CASE GrantMonth
  BY <1>4, GrantsShare
<1>5. CASE \E w \in {"asker", "tick"} : SettleCharge(w)
  BY <1>5, SettlementsShare
<1>6. CASE \/ \E n \in Spends : Spend(n)
           \/ RequestRefund \/ CancelRefundRequest \/ RefuseRefund \/ ApproveRefund
           \/ Submit("staff") \/ Submit("tick") \/ Claim
           \/ PlanEnds \/ AskCharge \/ VerifyRefund
           \/ \E w \in Hooks : \E r \in Refs : HookBegins(w, r)
           \/ Pays("failed", 0) \/ \E amount \in 1 .. Amount : Pays("paid", amount)
           \/ \E r \in Ours : Moves(r, "pending", "succeeded") \/ Moves(r, "pending", "failed")
           \/ \E r \in Refs : Moves(r, "succeeded", "reversed")
           \/ \E r \in Disputes, amount \in Disputed[payment.kind] : Dispute(r, amount)
           \/ \E w \in Hands : Dies(w)
           \/ UNCHANGED vars
  <2>1. UNCHANGED <<payment, adjustments>>
    BY <1>6 DEF Spend, RequestRefund, CancelRefundRequest, RefuseRefund, CloseRequest, ApproveRefund, Submit,
         Claim, PlanEnds, AskCharge, VerifyRefund, HookBegins, Pays, Moves, Dispute, Dies, Undisturbed, vars
  <2>2. \/ entries' = entries
        \/ \E n \in Spends : entries' = Posted(Key("spend", n, None), -1)
        \/ entries' = Posted(Key("reserve", request.cycle, None), -Credits)
    BY <1>6 DEF Spend, RequestRefund, CancelRefundRequest, RefuseRefund, CloseRequest, ApproveRefund, Submit,
         Claim, PlanEnds, AskCharge, VerifyRefund, HookBegins, Pays, Moves, Dispute, Dies, Reserve, vars
  <2>3. \/ entries' = entries
        \/ \E kind \in {"spend", "reserve"} : \E n, d : entries' = Posted(Key(kind, n, None), d)
    BY <2>2
  <2> QED
    BY <2>1, <2>3, PostedShares
<1>7. CASE \/ PageMade \/ CreateFails \/ CreateRejected \/ MarkUncertain \/ PersistCheckoutSession
           \/ CheckBegins \/ CheckEnds \/ Exhaust
  <2>1. UNCHANGED <<adjustments, entries>>
    BY <1>7 DEF PageMade, CreateFails, CreateRejected, MarkUncertain, PersistCheckoutSession,
         CheckBegins, CheckEnds, Exhaust, Unfinished, Undisturbed
  <2>2. payment \in Payment
    BY RefundsTyped
  <2>3. payment'.amount = payment.amount
    BY <1>7, <2>2 DEF PageMade, CreateFails, CreateRejected, MarkUncertain, PersistCheckoutSession,
         CheckBegins, CheckEnds, Exhaust, FailUncreatedCheckout, Payment
  <2> QED
    BY <2>1, <2>3, BesideShares
<1> QED
  BY <1>2, <1>3, <1>4, <1>5, <1>6, <1>7 DEF Next, PassStep

LEMMA InitShares == Init => Shares
<1> SUFFICES ASSUME Init PROVE Shares
  OBVIOUS
<1>1. \A r \in Refs : ~Over(adjustments[r].status)
  BY DEF Init, Unseen, Over
<1>2. Net = 0 /\ Taken = 0
  BY <1>1, NetOfNone, TakenOfNone
<1>3. GrantsGive
  BY DEF Init, GrantsGive, Fundings
<1>4. Withheld(0) = 0
  BY <1>3, InitIInv, NothingWithheld
<1> QED
  BY <1>2, <1>3, <1>4 DEF Shares

\* In whatever order refunds and chargebacks are confirmed, told twice or reversed, and
\* whatever is granted between them, the credits their rows hold taken are together the
\* rounded share of the money that is away: what applyConfirmedAdjustment leaves for each
\* row after what the others have taken.
THEOREM RowsCorrect == ASSUME ~Slow PROVE Spec => []RowsMatchMoney
<1>1. Init => Shares
  BY InitShares
<1>2. IInv /\ IInv' /\ Shares /\ [Next]_vars => Shares'
  BY SharesInductive
<1>3. IInv /\ Shares => RowsMatchMoney
  BY SharesAreRows
<1> QED
  BY <1>1, <1>2, <1>3, Invariance, PTL DEF Spec

-----------------------------------------------------------------------------
(* One adjustment for each cycle.                                           *)

\* Whatever is bound to the cycle of the request, or held by who acts for it, is the one
\* adjustment the request knows; a cycle is never shared.
Names ==
  /\ request.cycle # 0 =>
       /\ \A r \in Refs : adjustments[r].cycle = request.cycle => request.ref = r
       /\ \A w \in Hands : hands[w].cycle = request.cycle /\ hands[w].ref # None => hands[w].ref = request.ref
  /\ \A w \in Hands : hands[w].pc = "idle" => hands[w].cycle = 0
  /\ \A r, q \in Refs : adjustments[r].cycle # 0 /\ adjustments[r].cycle = adjustments[q].cycle => r = q
  /\ request.status = "REQUESTED" => request.ref = None

LEMMA NamesStay ==
  ASSUME IInv, Names, request'.cycle = request.cycle,
         request'.ref = request.ref \/ request.ref = None,
         request'.status = "REQUESTED" => request.status = "REQUESTED" /\ request'.ref = request.ref,
         NEW w \in Hands, NEW h, hands' = [hands EXCEPT ![w] = h],
         h.pc = "idle" => h.cycle = 0,
         h.cycle = request.cycle /\ h.ref # None /\ request.cycle # 0 => h.ref = request'.ref,
         \A r \in Refs : \/ adjustments'[r].cycle = adjustments[r].cycle
                         \/ adjustments'[r].cycle = request.cycle /\ request'.ref = r
  PROVE  Names'
<1>1. hands'[w] = h /\ \A v \in Hands \ {w} : hands'[v] = hands[v]
  BY DEF IInv, PaymentsTypeOK
<1>2. None \notin Refs
  BY PaymentsAssumption
<1>3. ASSUME request.cycle # 0, NEW r \in Refs, adjustments'[r].cycle = request.cycle PROVE request'.ref = r
  BY <1>2, <1>3 DEF Names
<1>4. ASSUME request.cycle # 0, NEW v \in Hands, hands'[v].cycle = request.cycle, hands'[v].ref # None
      PROVE  hands'[v].ref = request'.ref
  BY <1>1, <1>4 DEF Names
<1>5. ASSUME NEW r \in Refs, NEW q \in Refs, adjustments'[r].cycle # 0, adjustments'[r].cycle = adjustments'[q].cycle
      PROVE  r = q
  <2>1. CASE adjustments'[r].cycle = request.cycle
    BY <1>3, <1>5, <2>1
  <2>2. CASE adjustments'[r].cycle # request.cycle
    BY <1>5, <2>2 DEF Names
  <2> QED
    BY <2>1, <2>2
<1>6. \A v \in Hands : hands'[v].pc = "idle" => hands'[v].cycle = 0
  BY <1>1 DEF Names
<1>7. request'.status = "REQUESTED" => request'.ref = None
  BY DEF Names
<1> QED
  BY <1>3, <1>4, <1>5, <1>6, <1>7 DEF Names

\* In the next cycle nobody knows of anything yet.
LEMMA NamesNext ==
  ASSUME IInv, Names, request'.cycle = request.cycle + 1, request'.ref = None,
         NEW w \in Hands, NEW h \in {Idle, hands[w]}, hands' = [hands EXCEPT ![w] = h],
         \A r \in Refs : \/ adjustments'[r].cycle = adjustments[r].cycle
                         \/ adjustments'[r].cycle = request.cycle /\ request.ref = r
  PROVE  Names'
<1>1. hands'[w] = h /\ \A v \in Hands \ {w} : hands'[v] = hands[v]
  BY DEF IInv, PaymentsTypeOK
<1>2. request.cycle \in Nat
  BY RefundsTyped
<1>3. ASSUME NEW v \in Hands PROVE hands'[v].cycle # request'.cycle /\ (hands'[v].pc = "idle" => hands'[v].cycle = 0)
  <2>1. hands[v].cycle \in Nat /\ hands[v].cycle <= request.cycle
    BY RefundsTyped, CyclesAreNaturals DEF Hand, HandOK
  <2>2. hands'[v] = hands[v] \/ hands'[v] = Idle
    BY <1>1
  <2>3. Idle.cycle = 0
    BY IdleIsTyped
  <2> QED
    BY <1>2, <2>1, <2>2, <2>3 DEF Names
<1>4. ASSUME NEW r \in Refs PROVE adjustments'[r].cycle # request'.cycle
  <2>1. adjustments[r].cycle <= request.cycle /\ adjustments[r].cycle \in Nat
    BY CyclesAreNaturals DEF IInv, Rows, PaymentsTypeOK, RowsTyped, Adjustment
  <2> QED
    BY <1>2, <2>1
<1>5. ASSUME NEW r \in Refs, NEW q \in Refs, adjustments'[r].cycle # 0, adjustments'[r].cycle = adjustments'[q].cycle
      PROVE  r = q
  BY <1>5 DEF Names
<1> QED
  BY <1>3, <1>4, <1>5 DEF Names

\* What an answer binds is what the request knows, unless the request adopts it.
LEMMA BindsTheKnown ==
  ASSUME IInv, Names, NEW w \in Hands, hands[w].pc = "apply", hands[w].ref # None, NEW adopt \in BOOLEAN,
         BoundTo(hands[w], adopt) # 0, BoundTo(hands[w], adopt) # adjustments[hands[w].ref].cycle
  PROVE  /\ BoundTo(hands[w], adopt) = request.cycle
         /\ request.ref = hands[w].ref \/ (adopt = TRUE /\ request.ref = None)
<1> DEFINE x == hands[w].ref
           c == RefundCycleBinding(hands[w].cycle, x, 0, adopt)
<1>1. adjustments[x].cycle = 0
  BY ActsForItsCycle
<1>2. BoundTo(hands[w], adopt) = c /\ c # 0
  BY <1>1 DEF BoundTo
<1>3. c = request.cycle /\ (hands[w].cycle = c \/ request.ref = x \/ adopt = TRUE)
  BY <1>2, BindingWhy
<1>4. CASE hands[w].cycle = c
  BY <1>2, <1>3, <1>4 DEF Names
<1>5. CASE hands[w].cycle # c /\ request.ref # x
  <2>1. hands[w].cycle = 0 /\ request.ref = None
    BY <1>2, <1>3, <1>5 DEF RefundCycleBinding
  <2> QED
    BY <1>2, <1>3, <1>5, <2>1
<1> QED
  BY <1>2, <1>3, <1>4, <1>5

\* What acts for the cycle of the request is the adjustment the request knows or adopts.
LEMMA ActorsAreKnown ==
  ASSUME IInv, Names, NEW w \in Hands, hands[w].pc = "apply", hands[w].ref # None, NEW adopt \in BOOLEAN,
         ActsFor(hands[w], adopt) # 0
  PROVE  request.ref = hands[w].ref \/ (adopt = TRUE /\ request.ref = None)
<1> DEFINE x == hands[w].ref
<1>1. BoundTo(hands[w], adopt) = request.cycle /\ request.cycle # 0
  BY AnswerIs, ActsForItsCycle
<1>2. CASE BoundTo(hands[w], adopt) # adjustments[x].cycle
  BY <1>1, <1>2, BindsTheKnown
<1>3. CASE BoundTo(hands[w], adopt) = adjustments[x].cycle
  <2>1. x \in Refs
    BY AnswerIs
  <2> QED
    BY <1>1, <1>3, <2>1 DEF Names
<1> QED
  BY <1>2, <1>3

-----------------------------------------------------------------------------
(* An answer that confirms nothing is recorded.                             *)

Recorded(w, status) ==
  /\ Record(hands[w], [adjustments[hands[w].ref] EXCEPT !.cycle = BoundTo(hands[w], FALSE), !.status = status])
  /\ hands[w].ref # None => /\ Over(adjustments[hands[w].ref].status) <=> Over(status)
                            /\ Over(status) => status = adjustments[hands[w].ref].status

\* Whether it is pending, has failed, or comes again after a reversal.
LEMMA AnswersAreRecorded ==
  ASSUME IInv, NEW w \in Hands, hands[w].pc = "apply",
         \/ ApplyPending(hands[w]) \/ ReleaseRefundReservation(hands[w])
         \/ /\ adjustments[hands[w].ref].status = "REVERSED"
            /\ Record(hands[w], [adjustments[hands[w].ref] EXCEPT !.cycle = BoundTo(hands[w], FALSE)])
  PROVE  \E status : Recorded(w, status)
<1> DEFINE h == hands[w]
           a == adjustments[h.ref]
<1>1. CASE h.ref = None
  <2>1. Recorded(w, "FAILED")
    BY <1>1 DEF ApplyPending, ReleaseRefundReservation, Recorded, Record
  <2> QED
    BY <2>1
<1>2. CASE h.ref # None
  <2>1. a \in Adjustment
    BY <1>2, AnswerIs
  <2>2. CASE ApplyPending(h)
    <3> DEFINE s == IF a.status = "NONE" THEN "PENDING" ELSE a.status
    <3>1. [a EXCEPT !.cycle = BoundTo(h, FALSE), !.status = IF @ = "NONE" THEN "PENDING" ELSE @]
            = [a EXCEPT !.cycle = BoundTo(h, FALSE), !.status = s]
      BY <2>1 DEF Adjustment
    <3>2. Record(h, [a EXCEPT !.cycle = BoundTo(h, FALSE), !.status = s])
      BY <2>2, <3>1 DEF ApplyPending
    <3>3. (Over(a.status) <=> Over(s)) /\ (Over(s) => s = a.status)
      BY DEF Over
    <3> HIDE DEF s
    <3>4. Recorded(w, s)
      BY <3>2, <3>3 DEF Recorded
    <3> QED
      BY <3>4
  <2>3. CASE ReleaseRefundReservation(h)
    <3> DEFINE s == IF FinalAlready(h) THEN a.status ELSE "FAILED"
    <3>1. [a EXCEPT !.cycle = BoundTo(h, FALSE), !.status = IF FinalAlready(h) THEN @ ELSE "FAILED"]
            = [a EXCEPT !.cycle = BoundTo(h, FALSE), !.status = s]
      BY <2>1 DEF Adjustment
    <3>2. Record(h, [a EXCEPT !.cycle = BoundTo(h, FALSE), !.status = s])
      BY <2>3, <3>1 DEF ReleaseRefundReservation
    <3>3. (Over(a.status) <=> Over(s)) /\ (Over(s) => s = a.status)
      BY <1>2 DEF Over, FinalAlready
    <3> HIDE DEF s
    <3>4. Recorded(w, s)
      BY <3>2, <3>3 DEF Recorded
    <3> QED
      BY <3>4
  <2>4. CASE a.status = "REVERSED" /\ Record(h, [a EXCEPT !.cycle = BoundTo(h, FALSE)])
    <3>1. [a EXCEPT !.cycle = BoundTo(h, FALSE)] = [a EXCEPT !.cycle = BoundTo(h, FALSE), !.status = a.status]
      BY <2>1 DEF Adjustment
    <3> DEFINE s == a.status
    <3>2. s = a.status
      OBVIOUS
    <3>3. Record(h, [a EXCEPT !.cycle = BoundTo(h, FALSE), !.status = s])
      BY <2>4, <3>1
    <3> HIDE DEF s
    <3>4. Recorded(w, s)
      BY <3>2, <3>3 DEF Recorded
    <3> QED
      BY <3>4
  <2> QED
    BY <2>2, <2>3, <2>4
<1> QED
  BY <1>1, <1>2

\* A recorded answer binds its row, if at all, to the cycle of the request that knows it.
LEMMA RecordedRows ==
  ASSUME IInv, Names, NEW w \in Hands, hands[w].pc = "apply", NEW status, Recorded(w, status)
  PROVE  \A r \in Refs : /\ Over(adjustments[r].status) <=> Over(adjustments'[r].status)
                         /\ Over(adjustments[r].status) => adjustments'[r].status = adjustments[r].status
                         /\ adjustments'[r].credit = adjustments[r].credit
                         /\ adjustments'[r].past = adjustments[r].past
                         /\ adjustments'[r].rev = adjustments[r].rev
                         /\ \/ adjustments'[r].cycle = adjustments[r].cycle
                            \/ /\ adjustments[r].cycle = 0
                               /\ adjustments'[r].cycle = request.cycle /\ request.ref = r
<1> DEFINE x == hands[w].ref
           b == BoundTo(hands[w], FALSE)
           row == [adjustments[x] EXCEPT !.cycle = b, !.status = status]
<1>1. CASE x = None
  <2>1. adjustments' = adjustments
    BY <1>1 DEF Recorded, Record
  <2> QED
    BY <2>1
<1>2. CASE x # None
  <2>1. x \in Refs /\ adjustments[x] \in Adjustment /\ adjustments \in [Refs -> Adjustment]
    BY <1>2, AnswerIs DEF IInv, PaymentsTypeOK, RowsTyped
  <2>2. adjustments' = [adjustments EXCEPT ![x] = row]
    BY <1>2 DEF Recorded, Record
  <2>3. \/ b = adjustments[x].cycle
        \/ adjustments[x].cycle = 0 /\ b = request.cycle /\ request.ref = x
    BY <1>2, ActsForItsCycle, BindsTheKnown
  <2>4. (Over(adjustments[x].status) <=> Over(status)) /\ (Over(status) => status = adjustments[x].status)
    BY <1>2 DEF Recorded
  <2> HIDE DEF b
  <2>5. /\ row.cycle = b /\ row.status = status /\ row.credit = adjustments[x].credit
        /\ row.past = adjustments[x].past /\ row.rev = adjustments[x].rev
    BY <2>1 DEF Adjustment
  <2> HIDE DEF row
  <2>6. adjustments'[x] = row /\ \A r \in Refs \ {x} : adjustments'[r] = adjustments[r]
    BY <2>1, <2>2
  <2> HIDE DEF x
  <2> TAKE r \in Refs
  <2>7. CASE r = x
    BY <2>3, <2>4, <2>5, <2>6, <2>7
  <2>8. CASE r # x
    BY <2>6, <2>8
  <2> QED
    BY <2>7, <2>8
<1> QED
  BY <1>1, <1>2

\* The request an answer leaves knows what it knew, or what it adopted.
LEMMA RecordedNames ==
  ASSUME IInv, Names, NEW w \in Hands, hands[w].pc = "apply", NEW status, Recorded(w, status),
         request'.cycle = request.cycle, request'.ref = request.ref,
         request'.status = "REQUESTED" => request.status = "REQUESTED",
         hands' = [hands EXCEPT ![w] = Idle]
  PROVE  Names'
<1>1. \A r \in Refs : \/ adjustments'[r].cycle = adjustments[r].cycle
                      \/ adjustments'[r].cycle = request.cycle /\ request'.ref = r
  BY RecordedRows
<1> QED
  BY <1>1, IdleIsTyped, NamesStay

\* A hand that takes up no cycle names nothing.
LEMMA NamesBeside ==
  ASSUME IInv, Names, UNCHANGED <<request, adjustments>>,
         NEW w \in Hands, NEW h, hands' = [hands EXCEPT ![w] = h], h.cycle = 0
  PROVE  Names'
<1>1. request'.status = request.status /\ request'.cycle = request.cycle /\ request'.ref = request.ref
  OBVIOUS
<1>2. \A r \in Refs : adjustments'[r].cycle = adjustments[r].cycle
  OBVIOUS
<1> QED
  BY <1>1, <1>2, NamesStay

LEMMA NamesSame ==
  ASSUME Names, UNCHANGED <<request, adjustments, hands>>
  PROVE  Names'
BY DEF Names

\* Only answers, submissions, decisions, claims and new cycles touch what is named.
LEMMA OthersName ==
  ASSUME IInv, Names,
         \/ \E n \in Spends : Spend(n)
         \/ GrantMonth \/ PlanEnds
         \/ PageMade \/ CreateFails \/ CreateRejected \/ MarkUncertain \/ PersistCheckoutSession
         \/ CheckBegins \/ CheckEnds \/ AskCharge \/ Exhaust
         \/ Pays("failed", 0) \/ \E amount \in 1 .. Amount : Pays("paid", amount)
         \/ \E r \in Ours : Moves(r, "pending", "succeeded") \/ Moves(r, "pending", "failed")
         \/ \E r \in Refs : Moves(r, "succeeded", "reversed")
         \/ \E r \in Disputes, amount \in Disputed[payment.kind] : Dispute(r, amount)
         \/ \E w \in Hands : Dies(w)
         \/ UNCHANGED vars
  PROVE  Names'
<1>1. CASE \/ PageMade \/ CreateFails \/ CreateRejected \/ MarkUncertain \/ PersistCheckoutSession
           \/ CheckBegins \/ CheckEnds \/ AskCharge \/ \E w \in Hands : Dies(w)
  <2>1. /\ UNCHANGED <<request, adjustments>>
        /\ \E w \in Hands : \E h : hands' = [hands EXCEPT ![w] = h] /\ h.cycle = 0
    BY <1>1, CheckoutHands
  <2> QED
    BY <2>1, NamesBeside
<1>2. CASE \/ \E n \in Spends : Spend(n)
           \/ GrantMonth \/ PlanEnds
           \/ Pays("failed", 0) \/ \E amount \in 1 .. Amount : Pays("paid", amount)
           \/ \E r \in Ours : Moves(r, "pending", "succeeded") \/ Moves(r, "pending", "failed")
           \/ \E r \in Refs : Moves(r, "succeeded", "reversed")
           \/ \E r \in Disputes, amount \in Disputed[payment.kind] : Dispute(r, amount)
           \/ UNCHANGED vars
  <2>1. UNCHANGED <<request, adjustments, hands>>
    BY <1>2 DEF Spend, GrantMonth, PlanEnds, Pays, Moves, Dispute, vars
  <2> QED
    BY <2>1, NamesSame
<1>3. CASE Exhaust
  <2>1. /\ "tick" \in Hands /\ hands' = [hands EXCEPT !["tick"] = Idle] /\ adjustments' = adjustments
        /\ request \in Request
    BY <1>3, RefundsTyped DEF Exhaust, Rest, Undisturbed, Hands
  <2>2. /\ request'.cycle = request.cycle /\ request'.ref = request.ref
        /\ request'.status \in {request.status, "NEEDS_REVIEW"}
    BY <1>3, <2>1 DEF Exhaust, Leaves, Request
  <2>3. \A r \in Refs : adjustments'[r].cycle = adjustments[r].cycle
    BY <2>1
  <2> QED
    BY <2>1, <2>2, <2>3, IdleIsTyped, NamesStay
<1> QED
  BY <1>1, <1>2, <1>3

\* Who reads the state of a refund keeps its cycle.
LEMMA ReadersName ==
  ASSUME IInv, Names, VerifyRefund \/ \E w \in Hooks : \E r \in Refs : HookBegins(w, r)
  PROVE  Names'
<1>1. UNCHANGED <<request, adjustments, provider>>
  BY DEF VerifyRefund, HookBegins
<1>2. ASSUME NEW w \in Hands, NEW r \in Refs, Saw(w, r, provider.refunds[r].state),
             hands[w].cycle # 0 => hands[w].ref = r
      PROVE  Names'
  <2> DEFINE h == Seen(hands[w], r, provider.refunds)
  <2>1. hands[w] \in Hand /\ r # None
    BY RefundsTyped
  <2>2. hands' = [hands EXCEPT ![w] = h]
    BY <1>1, <1>2, <2>1 DEF Saw, Becomes, Seen
  <2>3. h.cycle = hands[w].cycle /\ h.pc = "apply" /\ h.ref = r
    BY <2>1 DEF Seen, Hand
  <2> HIDE DEF h
  <2>4. h.cycle = request.cycle /\ h.ref # None /\ request.cycle # 0 => h.ref = request'.ref
    BY <1>1, <1>2, <2>1, <2>3 DEF Names
  <2>5. \A q \in Refs : adjustments'[q].cycle = adjustments[q].cycle
    BY <1>1
  <2>6. request'.cycle = request.cycle /\ request'.ref = request.ref /\ request'.status = request.status
    BY <1>1
  <2> QED
    BY <2>2, <2>3, <2>4, <2>5, <2>6, NamesStay
<1>3. CASE VerifyRefund
  <2>1. "tick" \in Hands /\ hands["tick"].pc = "verify"
    BY <1>3 DEF VerifyRefund, Hands
  <2>2. hands["tick"].ref \in Refs
    BY <2>1, RefundsTyped DEF HandOK, Hand
  <2>3. CASE Rest("tick")
    BY <1>1, <2>1, <2>3, IdleIsTyped, NamesBeside DEF Rest
  <2>4. CASE Saw("tick", hands["tick"].ref, provider.refunds[hands["tick"].ref].state)
    BY <1>2, <2>1, <2>2, <2>4
  <2> QED
    BY <1>3, <2>3, <2>4 DEF VerifyRefund
<1>4. ASSUME NEW w \in Hooks, NEW r \in Refs, HookBegins(w, r) PROVE Names'
  <2>1. w \in Hands /\ hands[w].cycle = 0 /\ Saw(w, r, provider.refunds[r].state)
    BY <1>4 DEF HookBegins, Free, Names, Hands
  <2> QED
    BY <1>2, <2>1
<1> QED
  BY <1>3, <1>4

LEMMA SettlementsName ==
  ASSUME IInv, Names, NEW w \in {"asker", "tick"}, SettleCharge(w)
  PROVE  Names'
<1>1. w \in Hands /\ adjustments' = adjustments /\ hands' = [hands EXCEPT ![w] = Idle]
  BY DEF SettleCharge, Hands, Rest
<1>2. CASE request' = request
  BY <1>1, <1>2, IdleIsTyped, NamesBeside
<1>3. CASE request' # request
  <2>1. request.cycle < MaxCycles /\ request' = NewCycle("PROCESSING", "system")
    BY <1>3 DEF SettleCharge, Settle, ChargeFailed, GrantPurchase, QueueAutomaticRefund
  <2>2. request'.cycle = request.cycle + 1 /\ request'.ref = None
    BY <2>1 DEF NewCycle
  <2>3. \A r \in Refs : adjustments'[r].cycle = adjustments[r].cycle
    BY <1>1
  <2> QED
    BY <1>1, <2>2, <2>3, NamesNext
<1> QED
  BY <1>2, <1>3

LEMMA RequestsName ==
  ASSUME IInv, Names, RequestRefund \/ CancelRefundRequest \/ RefuseRefund \/ ApproveRefund
  PROVE  Names'
<1>1. adjustments' = adjustments
  BY DEF RequestRefund, CancelRefundRequest, RefuseRefund, CloseRequest, ApproveRefund, Undisturbed
<1>2. /\ request \in Request /\ hands \in [Hands -> Hand] /\ "staff" \in Hands
      /\ \A r \in Refs : adjustments'[r].cycle = adjustments[r].cycle
  BY <1>1, RefundsTyped DEF IInv, PaymentsTypeOK, Hands
<1>3. CASE RequestRefund
  <2>1. request' = NewCycle("REQUESTED", "customer") /\ hands' = hands
    BY <1>3 DEF RequestRefund
  <2>2. request'.cycle = request.cycle + 1 /\ request'.ref = None
    BY <2>1 DEF NewCycle
  <2> DEFINE h == hands["staff"]
  <2>3. hands' = [hands EXCEPT !["staff"] = h] /\ h \in {Idle, hands["staff"]}
    BY <1>2, <2>1
  <2> HIDE DEF h
  <2> QED
    BY <1>2, <2>2, <2>3, NamesNext
<1>4. ASSUME NEW status \in {"CANCELLED", "REFUSED"}, request' = [request EXCEPT !.status = status], hands' = hands
      PROVE  Names'
  <2>1. request'.cycle = request.cycle /\ request'.ref = request.ref /\ request'.status = status
    BY <1>2, <1>4 DEF Request
  <2> QED
    BY <1>1, <1>4, <2>1 DEF Names
<1>5. CASE CancelRefundRequest \/ RefuseRefund
  BY <1>4, <1>5 DEF CancelRefundRequest, RefuseRefund, CloseRequest
<1>6. CASE ApproveRefund /\ request' = [request EXCEPT !.status = "REFUSED"] /\ hands' = hands
  BY <1>4, <1>6
<1>7. CASE /\ request' = [request EXCEPT !.status = "PROCESSING", !.posted = FALSE, !.attempts = 0]
           /\ Becomes("staff", [Idle EXCEPT !.pc = "submit", !.cycle = request.cycle])
  <2> DEFINE h == [Idle EXCEPT !.pc = "submit", !.cycle = request.cycle]
  <2>1. h.pc = "submit" /\ h.ref = None
    BY DEF Idle
  <2>2. hands' = [hands EXCEPT !["staff"] = h]
    BY <1>7 DEF Becomes
  <2> HIDE DEF h
  <2>3. request'.cycle = request.cycle /\ request'.ref = request.ref /\ request'.status = "PROCESSING"
    BY <1>2, <1>7 DEF Request
  <2> QED
    BY <1>2, <2>1, <2>2, <2>3, NamesStay
<1> QED
  BY <1>3, <1>5, <1>6, <1>7 DEF ApproveRefund

LEMMA ClaimsName ==
  ASSUME IInv, Names, Claim PROVE Names'
<1> DEFINE n == IF request.attempts < MaxAttempts THEN request.attempts + 1 ELSE MaxAttempts
           pc == IF n >= MaxAttempts THEN "exhaust" ELSE IF request.ref # None THEN "verify" ELSE "submit"
           h == Attempt(pc, request.ref, request.cycle, n)
<1>1. /\ request \in Request /\ "tick" \in Hands /\ request.status = "PROCESSING"
      /\ \A r \in Refs : adjustments'[r].cycle = adjustments[r].cycle
  BY RefundsTyped DEF Claim, Due, Hands, Undisturbed
<1>2. hands' = [hands EXCEPT !["tick"] = h] /\ request' = [request EXCEPT !.attempts = n]
  BY DEF Claim, Becomes, Attempt
<1>3. pc \in {"submit", "verify", "exhaust"}
  OBVIOUS
<1> HIDE DEF n, pc
<1>4. h.pc = pc /\ h.ref = request.ref
  BY DEF Attempt, Idle
<1> HIDE DEF h
<1>5. request'.cycle = request.cycle /\ request'.ref = request.ref /\ request'.status = "PROCESSING"
  BY <1>1, <1>2 DEF Request
<1> QED
  BY <1>1, <1>2, <1>3, <1>4, <1>5, NamesStay

LEMMA SubmissionsName ==
  ASSUME IInv, Names, NEW w \in {"staff", "tick"}, Submit(w) PROVE Names'
<1>1. /\ w \in Hands /\ adjustments' = adjustments
      /\ \A r \in Refs : adjustments'[r].cycle = adjustments[r].cycle
  BY DEF Submit, Hands
<1>2. ASSUME request' = request, hands' = [hands EXCEPT ![w] = Idle] PROVE Names'
  BY <1>1, <1>2, IdleIsTyped, NamesBeside
<1>3. CASE ~MaySubmit(w)
  BY <1>2, <1>3 DEF Submit, Rest
<1>4. CASE MaySubmit(w)
  <2>1. request \in Request /\ request.ref = None /\ request.status = "PROCESSING" /\ hands[w] \in Hand
    BY <1>1, <1>4, RefundsTyped DEF MaySubmit
  <2>2. ASSUME NEW r, NEW saw, Saw(w, r, saw), request' = [request EXCEPT !.ref = r, !.posted = TRUE]
        PROVE  Names'
    <3> DEFINE h == Told(hands[w], r, saw, provider'.refunds)
    <3>1. hands' = [hands EXCEPT ![w] = h]
      BY <2>2 DEF Saw, Becomes, Told
    <3>2. h.ref = r /\ h.pc = "apply"
      BY <2>1 DEF Told, Hand
    <3> HIDE DEF h
    <3>3. request'.cycle = request.cycle /\ request'.ref = r /\ request'.status = "PROCESSING"
      BY <2>1, <2>2 DEF Request
    <3> QED
      BY <1>1, <2>1, <3>1, <3>2, <3>3, NamesStay
  <2>3. ASSUME NEW r, Discover(w, r) PROVE Names'
    BY <2>2, <2>3 DEF Discover
  <2>4. ASSUME NEW r, Post(w, r) PROVE Names'
    BY <2>2, <2>4 DEF Post
  <2>5. CASE PostRejected(w)
    <3>1. [request EXCEPT !.posted = TRUE] = [request EXCEPT !.ref = None, !.posted = TRUE]
      BY <2>1 DEF Request
    <3> QED
      BY <2>2, <2>5, <3>1 DEF PostRejected
  <2>6. CASE PostLost(w)
    BY <1>2, <2>6 DEF PostLost, Rest
  <2> QED
    BY <1>4, <2>3, <2>4, <2>5, <2>6 DEF Submit, SubmitRefundCycle
<1> QED
  BY <1>3, <1>4

\* What is bound now acts for the cycle it is bound to.
LEMMA NewlyBoundActs ==
  ASSUME IInv, NEW w \in Hands, hands[w].ref # None, NEW adopt \in BOOLEAN,
         BoundTo(hands[w], adopt) # adjustments[hands[w].ref].cycle
  PROVE  ActsFor(hands[w], adopt) = BoundTo(hands[w], adopt) /\ BoundTo(hands[w], adopt) # 0
<1> DEFINE h == hands[w]
           b == BoundTo(h, adopt)
<1>1. adjustments[h.ref].cycle = 0 /\ b # 0
  BY ActsForItsCycle
<1>2. b = RefundCycleBinding(h.cycle, h.ref, 0, adopt)
  BY <1>1 DEF BoundTo
<1>3. b = request.cycle /\ request.status # "NONE"
  BY <1>1, <1>2, BindingIs
<1>4. h.cycle \in {0, b}
  BY <1>1, <1>2, <1>3 DEF RefundCycleBinding
<1>5. RefundCycleBinding(h.cycle, h.ref, b, adopt) = b
  BY <1>1, <1>3, <1>4 DEF RefundCycleBinding
<1> QED
  BY <1>1, <1>5 DEF ActsFor

LEMMA PendingNames ==
  ASSUME IInv, Names, NEW w \in Hands, hands[w].pc = "apply", ApplyPending(hands[w]),
         hands' = [hands EXCEPT ![w] = Idle]
  PROVE  Names'
<1>1. PICK status : Recorded(w, status)
  BY AnswersAreRecorded
<1>2. request' = request \/ (request' = [request EXCEPT !.ref = hands[w].ref] /\ request.ref = hands[w].ref)
  BY ActorsAreKnown DEF ApplyPending
<1>3. request'.cycle = request.cycle /\ request'.status = request.status /\ request'.ref = request.ref
  BY <1>2, RefundsTyped DEF Request
<1> QED
  BY <1>1, <1>3, RecordedNames

LEMMA ReleaseNames ==
  ASSUME IInv, Names, NEW w \in Hands, hands[w].pc = "apply", ReleaseRefundReservation(hands[w]),
         hands' = [hands EXCEPT ![w] = Idle]
  PROVE  Names'
<1> DEFINE h == hands[w]
           c == ActsFor(h, FALSE)
           ends == ~FinalAlready(h) /\ Waiting(c)
<1>1. PICK status : Recorded(w, status)
  BY AnswersAreRecorded
<1>2. CASE ~ends
  <2>1. request' = request
    BY <1>2 DEF ReleaseRefundReservation
  <2> QED
    BY <1>1, <2>1, RecordedNames
<1>3. CASE ends
  <2> DEFINE st == IF request.by = "system" THEN "NEEDS_REVIEW" ELSE "REFUSED"
             ref == IF h.ref = None THEN request.ref ELSE h.ref
  <2>1. request \in Request
    BY RefundsTyped
  <2>2. ref = request.ref
    BY <1>3, ActorsAreKnown DEF Waiting
  <2>3. request' = [Leaves(st) EXCEPT !.ref = ref]
    <3>1. Leaves(st).ref = request.ref
      BY <2>1 DEF Leaves, Request
    <3> QED
      BY <1>3, <3>1 DEF ReleaseRefundReservation
  <2>4. st # "REQUESTED"
    OBVIOUS
  <2> HIDE DEF st, ref
  <2>5. request'.cycle = request.cycle /\ request'.status = st /\ request'.ref = request.ref
    BY <2>1, <2>2, <2>3 DEF Leaves, Request
  <2> QED
    BY <1>1, <2>4, <2>5, RecordedNames
<1> QED
  BY <1>2, <1>3

\* The row a confirmed answer leaves is that of the adjustment the request knows or adopts.
LEMMA ConfirmedBinds ==
  ASSUME IInv, Names, NEW w \in Hands, hands[w].pc = "apply", Confirms(hands[w]),
         NEW c, c = ActsFor(hands[w], hands[w].saw = "succeeded"), Moved(hands[w], c)
  PROVE  \A r \in Refs : \/ adjustments'[r].cycle = adjustments[r].cycle
                         \/ /\ r = hands[w].ref /\ c # 0 /\ adjustments'[r].cycle = request.cycle
                            /\ request.ref = r \/ (hands[w].saw = "succeeded" /\ request.ref = None)
<1> DEFINE x == hands[w].ref
           adopt == hands[w].saw = "succeeded"
<1>1. x \in Refs /\ x # None /\ adopt \in BOOLEAN
  BY ConfirmedMoney
<1>2. PICK row \in Adjustment : adjustments' = [adjustments EXCEPT ![x] = row] /\ row.cycle = BoundTo(hands[w], adopt)
  BY ConfirmedRow
<1>3. adjustments'[x] = row /\ \A r \in Refs \ {x} : adjustments'[r] = adjustments[r]
  BY <1>1, <1>2 DEF IInv, PaymentsTypeOK, RowsTyped
<1>4. CASE row.cycle = adjustments[x].cycle
  BY <1>3, <1>4
<1>5. CASE row.cycle # adjustments[x].cycle
  <2>1. ActsFor(hands[w], adopt) = row.cycle /\ row.cycle # 0
    BY <1>1, <1>2, <1>5, NewlyBoundActs
  <2>2. row.cycle = request.cycle /\ (request.ref = x \/ (adopt = TRUE /\ request.ref = None))
    BY <1>1, <1>2, <1>5, <2>1, BindsTheKnown
  <2> QED
    BY <1>3, <2>1, <2>2
<1> QED
  BY <1>4, <1>5

LEMMA ConfirmedNames ==
  ASSUME IInv, Names, NEW w \in Hands, hands[w].pc = "apply", Confirms(hands[w]),
         NEW c, c = ActsFor(hands[w], hands[w].saw = "succeeded"), Moved(hands[w], c),
         request' = RequestAfter(hands[w], c, NetAfter(hands[w])),
         hands' = [hands EXCEPT ![w] = Idle]
  PROVE  Names'
<1> DEFINE h == hands[w]
           x == h.ref
           net == NetAfter(h)
           again == Contained(h, c) /\ net = 0
<1>1. \A r \in Refs : \/ adjustments'[r].cycle = adjustments[r].cycle
                      \/ /\ r = x /\ c # 0 /\ adjustments'[r].cycle = request.cycle
                         /\ request.ref = r \/ (h.saw = "succeeded" /\ request.ref = None)
  BY ConfirmedBinds
<1>2. x \in Refs /\ x # None /\ request \in Request
  BY ConfirmedMoney, RefundsTyped
<1>3. CASE again
  <2>1. h.saw = "reversed" /\ request' = NewCycle("PROCESSING", "system")
    BY <1>3 DEF Contained, RequestAfter
  <2>2. request'.cycle = request.cycle + 1 /\ request'.ref = None
    BY <2>1 DEF NewCycle
  <2>3. \A r \in Refs : \/ adjustments'[r].cycle = adjustments[r].cycle
                        \/ adjustments'[r].cycle = request.cycle /\ request.ref = r
    BY <1>1, <2>1
  <2> HIDE DEF again, net, x, h
  <2> DEFINE g == Idle
  <2>4. hands' = [hands EXCEPT ![w] = g] /\ g \in {Idle, hands[w]}
    OBVIOUS
  <2> HIDE DEF g
  <2> QED
    BY <2>2, <2>3, <2>4, NamesNext
<1>4. CASE ~again /\ c = 0
  <2>1. request' = request
    BY <1>4 DEF RequestAfter
  <2>2. \A r \in Refs : adjustments'[r].cycle = adjustments[r].cycle
    BY <1>1, <1>4
  <2> QED
    BY <2>1, <2>2, IdleIsTyped, NamesStay
<1>5. CASE ~again /\ c # 0
  <2> DEFINE status == IF Fully(net) THEN "APPROVED" ELSE "NEEDS_REVIEW"
  <2>1. request' = [Leaves(status) EXCEPT !.ref = x]
    BY <1>5 DEF RequestAfter
  <2>2. status \in {"APPROVED", "NEEDS_REVIEW"}
    OBVIOUS
  <2> HIDE DEF status, again, net
  <2>3. request'.cycle = request.cycle /\ request'.status = status /\ request'.ref = x
    BY <1>2, <2>1 DEF Leaves, Request
  <2>4. request.ref = x \/ request.ref = None
    <3> DEFINE adopt == h.saw = "succeeded"
    <3>1. adopt \in BOOLEAN /\ ActsFor(hands[w], adopt) # 0
      BY <1>5
    <3> HIDE DEF adopt
    <3> QED
      BY <1>2, <3>1, ActorsAreKnown
  <2>5. \A r \in Refs : \/ adjustments'[r].cycle = adjustments[r].cycle
                        \/ adjustments'[r].cycle = request.cycle /\ request'.ref = r
    BY <1>1, <2>3
  <2> QED
    BY <2>2, <2>3, <2>4, <2>5, IdleIsTyped, NamesStay
<1> QED
  BY <1>3, <1>4, <1>5

\* A confirmed answer is not ready to be applied, comes again after a reversal, or moves.
LEMMA ConfirmationsAre ==
  ASSUME IInv, NEW w \in Hands, hands[w].pc = "apply", ApplyConfirmedAdjustment(hands[w])
  PROVE  \/ UNCHANGED <<payment, request, adjustments, entries, sub>>
         \/ /\ adjustments[hands[w].ref].status = "REVERSED"
            /\ Record(hands[w], [adjustments[hands[w].ref] EXCEPT !.cycle = BoundTo(hands[w], FALSE)])
            /\ UNCHANGED <<payment, request, entries, sub>>
         \/ /\ Confirms(hands[w])
            /\ \E c : /\ c = ActsFor(hands[w], hands[w].saw = "succeeded")
                      /\ Moved(hands[w], c)
                      /\ Contained(hands[w], c) /\ NetAfter(hands[w]) = 0 => request.cycle < MaxCycles
                      /\ entries' = EntriesAfter(hands[w], c, NetAfter(hands[w]))
                      /\ payment' = PaymentAfter(hands[w], c, NetAfter(hands[w]))
                      /\ request' = RequestAfter(hands[w], c, NetAfter(hands[w]))
<1> DEFINE h == hands[w]
           a == adjustments[h.ref]
<1>1. h.saw \in {"succeeded", "reversed"}
  BY DEF ApplyConfirmedAdjustment
<1>2. CASE ~Ready
  BY <1>2 DEF ApplyConfirmedAdjustment
<1>3. CASE Ready /\ a.status = "REVERSED"
  BY <1>3 DEF ApplyConfirmedAdjustment
<1>4. CASE Ready /\ a.status # "REVERSED"
  <2>1. Confirms(h)
    BY <1>1, <1>4 DEF Confirms
  <2> DEFINE c == ActsFor(h, h.saw = "succeeded")
  <2>2. c = ActsFor(h, h.saw = "succeeded" /\ a.status # "REVERSED")
    <3>1. CASE h.saw = "succeeded"
      BY <1>4, <3>1
    <3>2. CASE h.saw # "succeeded"
      BY <1>4, <3>2
    <3> QED
      BY <3>1, <3>2
  <2>3. ~OnlyRecorded(h, c)
    BY <2>1, ConfirmedMoney DEF OnlyRecorded
  <2>4. /\ Moved(h, c)
        /\ Contained(h, c) /\ NetAfter(h) = 0 => request.cycle < MaxCycles
        /\ entries' = EntriesAfter(h, c, NetAfter(h))
        /\ payment' = PaymentAfter(h, c, NetAfter(h))
        /\ request' = RequestAfter(h, c, NetAfter(h))
    BY <1>4, <2>2, <2>3 DEF ApplyConfirmedAdjustment
  <2>5. c = ActsFor(h, h.saw = "succeeded")
    OBVIOUS
  <2> HIDE DEF c, h, a
  <2>6. \E k : /\ k = ActsFor(h, h.saw = "succeeded")
               /\ Moved(h, k)
               /\ Contained(h, k) /\ NetAfter(h) = 0 => request.cycle < MaxCycles
               /\ entries' = EntriesAfter(h, k, NetAfter(h))
               /\ payment' = PaymentAfter(h, k, NetAfter(h))
               /\ request' = RequestAfter(h, k, NetAfter(h))
    BY <2>4, <2>5
  <2> QED
    BY <2>1, <2>6 DEF h
<1> QED
  BY <1>2, <1>3, <1>4

LEMMA AppliesName ==
  ASSUME IInv, Names, NEW w \in Hands, Apply(w) PROVE Names'
<1>1. /\ hands[w].pc = "apply" /\ hands' = [hands EXCEPT ![w] = Idle]
      /\ \/ ApplyPending(hands[w])
         \/ ReleaseRefundReservation(hands[w])
         \/ ApplyConfirmedAdjustment(hands[w])
  BY DEF Apply, Rest
<1>2. CASE ApplyConfirmedAdjustment(hands[w])
  <2>1. CASE UNCHANGED <<request, adjustments>>
    BY <1>1, <2>1, IdleIsTyped, NamesBeside
  <2>2. CASE /\ adjustments[hands[w].ref].status = "REVERSED" /\ request' = request
             /\ Record(hands[w], [adjustments[hands[w].ref] EXCEPT !.cycle = BoundTo(hands[w], FALSE)])
    <3>1. PICK status : Recorded(w, status)
      BY <1>1, <2>2, AnswersAreRecorded
    <3> QED
      BY <1>1, <2>2, <3>1, RecordedNames
  <2>3. ASSUME Confirms(hands[w]), NEW c, c = ActsFor(hands[w], hands[w].saw = "succeeded"), Moved(hands[w], c),
               request' = RequestAfter(hands[w], c, NetAfter(hands[w]))
        PROVE  Names'
    BY <1>1, <2>3, ConfirmedNames
  <2> QED
    BY <1>1, <1>2, <2>1, <2>2, <2>3, ConfirmationsAre
<1> QED
  BY <1>1, <1>2, PendingNames, ReleaseNames

LEMMA NamesInductive ==
  IInv /\ Names /\ [Next]_vars => Names'
<1> SUFFICES ASSUME IInv, Names, [Next]_vars PROVE Names'
  OBVIOUS
<1>1. CASE \E w \in Hooks : Apply(w)
  BY <1>1, AppliesName DEF Hands
<1>2. CASE Apply("staff") \/ Apply("tick")
  BY <1>2, AppliesName DEF Hands
<1>3. CASE \/ \E n \in Spends : Spend(n)
           \/ GrantMonth \/ PlanEnds
           \/ PageMade \/ CreateFails \/ CreateRejected \/ MarkUncertain \/ PersistCheckoutSession
           \/ CheckBegins \/ CheckEnds \/ AskCharge \/ Exhaust
           \/ Pays("failed", 0) \/ \E amount \in 1 .. Amount : Pays("paid", amount)
           \/ \E r \in Ours : Moves(r, "pending", "succeeded") \/ Moves(r, "pending", "failed")
           \/ \E r \in Refs : Moves(r, "succeeded", "reversed")
           \/ \E r \in Disputes, amount \in Disputed[payment.kind] : Dispute(r, amount)
           \/ \E w \in Hands : Dies(w)
           \/ UNCHANGED vars
  BY <1>3, OthersName
<1>4. CASE VerifyRefund \/ \E w \in Hooks : \E r \in Refs : HookBegins(w, r)
  BY <1>4, ReadersName
<1>5. CASE \E w \in {"asker", "tick"} : SettleCharge(w)
  BY <1>5, SettlementsName
<1>6. CASE RequestRefund \/ CancelRefundRequest \/ RefuseRefund \/ ApproveRefund
  BY <1>6, RequestsName
<1>7. CASE Claim
  BY <1>7, ClaimsName
<1>8. CASE Submit("staff") \/ Submit("tick")
  BY <1>8, SubmissionsName
<1> QED
  BY <1>1, <1>2, <1>3, <1>4, <1>5, <1>6, <1>7, <1>8 DEF Next, PassStep

LEMMA InitNames == Init => Names
<1> SUFFICES ASSUME Init PROVE Names
  OBVIOUS
<1>1. \A r \in Refs : adjustments[r].cycle = 0
  BY DEF Init, Unseen
<1>2. request.status = "NONE" /\ request.cycle = 0
  BY DEF Init
<1>3. \A w \in Hands : hands[w].cycle = 0
  <2>1. Idle.cycle = 0 /\ [Idle EXCEPT !.pc = "create"].cycle = 0
    BY DEF Idle
  <2> QED
    BY <2>1 DEF Init
<1> QED
  BY <1>1, <1>2, <1>3 DEF Names

\* No reservation is ever shared: two adjustments are never bound to one cycle.
\* No two refunds of the provider are ever bound to one cycle of the request, through
\* nameless refunds, adoption, retries and late webhooks: what refundCycleBinding and the
\* guarded writes of gatewayRef keep between them.
THEOREM CyclesAreOwn ==
  ASSUME ~Slow
  PROVE  Spec => [](\A r, q \in Refs : adjustments[r].cycle # 0 /\ adjustments[r].cycle = adjustments[q].cycle => r = q)
<1>1. Names => \A r, q \in Refs : adjustments[r].cycle # 0 /\ adjustments[r].cycle = adjustments[q].cycle => r = q
  BY DEF Names
<1> QED
  BY <1>1, InitNames, NamesInductive, Invariance, PTL DEF Spec

-----------------------------------------------------------------------------
(* The steps that neither confirm, record nor reserve.                      *)

\* The request is as it was to those who wait for its refund, or in its next cycle.
Steady ==
  \/ /\ request'.cycle = request.cycle
     /\ Waits' => Waits
     /\ request'.status = "REQUESTED" => request.status = "REQUESTED"
  \/ request'.cycle = request.cycle + 1

Calm ==
  /\ adjustments' = adjustments /\ Steady
  /\ \/ entries' = entries
     \/ \E key : /\ key[1] \in {"spend", "payment", "month"}
                 /\ \E d \in Int : entries' = Posted(key, d)

LEMMA CalmBeside ==
  ASSUME UNCHANGED <<request, adjustments, entries>>
  PROVE  Calm
BY DEF Calm, Steady, Waits

LEMMA CalmRequests ==
  ASSUME IInv,
         \/ RequestRefund \/ CancelRefundRequest \/ RefuseRefund
         \/ ApproveRefund /\ request' = [request EXCEPT !.status = "REFUSED"] /\ entries' = entries
         \/ Claim \/ Exhaust \/ \E w \in {"staff", "tick"} : Submit(w)
  PROVE  Calm
<1>1. request \in Request /\ UNCHANGED <<adjustments, entries>>
  BY RefundsTyped DEF RequestRefund, CancelRefundRequest, RefuseRefund, CloseRequest, ApproveRefund, Undisturbed,
     Claim, Exhaust, Submit
<1>2. CASE RequestRefund
  BY <1>1, <1>2 DEF RequestRefund, NewCycle, Calm, Steady
<1>3. CASE \E status \in {"CANCELLED", "REFUSED"} : request' = [request EXCEPT !.status = status]
  BY <1>1, <1>3 DEF Request, Calm, Steady, Waits
<1>4. CASE CancelRefundRequest \/ RefuseRefund
  BY <1>3, <1>4 DEF CancelRefundRequest, RefuseRefund, CloseRequest
<1>5. CASE Claim
  <2>1. \E n : request' = [request EXCEPT !.attempts = n]
    BY <1>5 DEF Claim
  <2> QED
    BY <1>1, <2>1 DEF Request, Calm, Steady, Waits
<1>6. CASE Exhaust
  <2>1. CASE request' = request
    BY <1>1, <2>1, CalmBeside
  <2>2. CASE request.status = "PROCESSING" /\ request' = [Leaves("NEEDS_REVIEW") EXCEPT !.exhausted = TRUE]
    <3>1. request'.cycle = request.cycle /\ request'.status = "NEEDS_REVIEW" /\ Waits
      BY <1>1, <2>2 DEF Leaves, Request, Waits
    <3> QED
      BY <1>1, <3>1 DEF Calm, Steady
  <2> QED
    BY <1>6, <2>1, <2>2 DEF Exhaust, StillClaimed
<1>7. ASSUME NEW w \in {"staff", "tick"}, Submit(w) PROVE Calm
  <2>1. \/ request' = request
        \/ \E r : request' = [request EXCEPT !.ref = r, !.posted = TRUE]
        \/ request' = [request EXCEPT !.posted = TRUE]
    BY <1>7 DEF Submit, SubmitRefundCycle, Discover, Post, PostRejected, PostLost
  <2>2. /\ request'.cycle = request.cycle /\ request'.status = request.status
        /\ request'.exhausted = request.exhausted
    BY <1>1, <2>1 DEF Request
  <2> QED
    BY <1>1, <2>2 DEF Calm, Steady, Waits
<1> QED
  BY <1>1, <1>2, <1>3, <1>4, <1>5, <1>6, <1>7

LEMMA CalmSettlement ==
  ASSUME IInv, NEW w \in {"asker", "tick"}, SettleCharge(w)
  PROVE  Calm
<1>1. adjustments' = adjustments /\ Credits \in Int
  BY PaymentsAssumption DEF SettleCharge
<1>2. \/ UNCHANGED <<request, entries>>
      \/ request' = NewCycle("PROCESSING", "system") /\ entries' = entries
      \/ request' = request /\ entries' = Posted(Granted, Credits)
  BY DEF SettleCharge, Settle, ChargeFailed, QueueAutomaticRefund, GrantPurchase
<1>3. CASE UNCHANGED <<request, entries>>
  BY <1>1, <1>3, CalmBeside
<1>4. CASE request' = NewCycle("PROCESSING", "system") /\ entries' = entries
  BY <1>1, <1>4 DEF NewCycle, Calm, Steady
<1>5. CASE request' = request /\ entries' = Posted(Granted, Credits)
  <2>1. Granted[1] = "payment"
    BY DEF Granted, Key
  <2> DEFINE key == Granted
  <2>2. key[1] \in {"spend", "payment", "month"} /\ entries' = Posted(key, Credits)
    BY <1>5, <2>1
  <2> HIDE DEF key
  <2> QED
    BY <1>1, <1>5, <2>2 DEF Calm, Steady, Waits
<1> QED
  BY <1>2, <1>3, <1>4, <1>5

LEMMA CalmLedger ==
  ASSUME (\E n \in Spends : Spend(n)) \/ GrantMonth
  PROVE  Calm
<1>1. UNCHANGED <<request, adjustments>> /\ Credits \in Int /\ -1 \in Int
  BY PaymentsAssumption DEF Spend, GrantMonth
<1>2. Steady
  BY <1>1 DEF Steady, Waits
<1>3. ASSUME NEW n \in Spends, Spend(n) PROVE Calm
  <2> DEFINE key == Key("spend", n, None)
  <2>1. key[1] = "spend" /\ entries' = Posted(key, -1)
    BY <1>3 DEF Spend, Key
  <2> HIDE DEF key
  <2> QED
    BY <1>1, <1>2, <2>1 DEF Calm
<1>4. CASE GrantMonth
  <2> DEFINE key == Month(1)
  <2>1. key[1] = "month" /\ entries' = Posted(key, Credits)
    BY <1>4 DEF GrantMonth, Month, Key
  <2> HIDE DEF key
  <2> QED
    BY <1>1, <1>2, <2>1 DEF Calm
<1> QED
  BY <1>3, <1>4

\* A request is approved, and its reservation posted.
Approves ==
  /\ request.status = "REQUESTED"
  /\ request' = [request EXCEPT !.status = "PROCESSING", !.posted = FALSE, !.attempts = 0]
  /\ entries' = Posted(Reserve(request.cycle), -Credits)
  /\ UNCHANGED <<payment, adjustments>>

\* Every other step is calm or applies an answer.
LEMMA StepsAre ==
  ASSUME IInv, [Next]_vars
  PROVE  Calm \/ Approves \/ \E w \in Hands : Apply(w)
<1>1. CASE \E w \in Hooks : Apply(w)
  BY <1>1 DEF Hands
<1>2. CASE Apply("staff") \/ Apply("tick")
  BY <1>2 DEF Hands
<1>3. CASE (\E n \in Spends : Spend(n)) \/ GrantMonth
  BY <1>3, CalmLedger
<1>4. CASE \E w \in {"asker", "tick"} : SettleCharge(w)
  BY <1>4, CalmSettlement
<1>5. CASE \/ RequestRefund \/ CancelRefundRequest \/ RefuseRefund
           \/ Claim \/ Exhaust \/ \E w \in {"staff", "tick"} : Submit(w)
  BY <1>5, CalmRequests
<1>6. CASE ApproveRefund
  <2>1. \/ request' = [request EXCEPT !.status = "REFUSED"] /\ entries' = entries
        \/ Approves
    BY <1>6 DEF ApproveRefund, Undisturbed, Approves
  <2> QED
    BY <1>6, <2>1, CalmRequests
<1>7. CASE \/ PlanEnds \/ AskCharge \/ VerifyRefund
           \/ PageMade \/ CreateFails \/ CreateRejected \/ MarkUncertain \/ PersistCheckoutSession
           \/ CheckBegins \/ CheckEnds
           \/ \E w \in Hooks : \E r \in Refs : HookBegins(w, r)
           \/ Pays("failed", 0) \/ \E amount \in 1 .. Amount : Pays("paid", amount)
           \/ \E r \in Ours : Moves(r, "pending", "succeeded") \/ Moves(r, "pending", "failed")
           \/ \E r \in Refs : Moves(r, "succeeded", "reversed")
           \/ \E r \in Disputes, amount \in Disputed[payment.kind] : Dispute(r, amount)
           \/ \E w \in Hands : Dies(w)
           \/ UNCHANGED vars
  <2>1. UNCHANGED <<request, adjustments, entries>>
    BY <1>7 DEF PlanEnds, AskCharge, VerifyRefund, PageMade, CreateFails, CreateRejected, MarkUncertain,
         PersistCheckoutSession, CheckBegins, CheckEnds, HookBegins, Pays, Moves, Dispute, Dies, Unfinished, vars
  <2> QED
    BY <2>1, CalmBeside
<1> QED
  BY <1>1, <1>2, <1>3, <1>4, <1>5, <1>6, <1>7 DEF Next, PassStep

-----------------------------------------------------------------------------
(* What the keys of the ledger say.                                         *)

\* A movement is one of a revision its row has had, a reservation or its return is of a
\* cycle that was decided.
KeyOK(key, rows, q) ==
  /\ key[1] = "move" => key[3] \in Refs /\ key[2] \in Nat /\ key[2] <= rows[key[3]].rev
  /\ key[1] \in {"reserve", "release"} =>
       key[2] \in Nat /\ key[2] <= q.cycle /\ (q.status = "REQUESTED" => key[2] # q.cycle)

KeysIn(E, rows, q) ==
  /\ \A e, f \in E : e.key = f.key => e = f
  /\ \A e \in E : KeyOK(e.key, rows, q)

Keys == KeysIn(entries, adjustments, request)

\* What the rows remember: those that are not confirmed hold nothing, and those confirmed
\* for no cycle, or for one that still waits, were confirmed unbound.
Pasts ==
  \A r \in Refs :
    LET a == adjustments[r]
    IN  /\ ~Over(a.status) => a.credit = 0
        /\ Over(a.status) /\ a.cycle = 0 => "unbound" \in a.past
        /\ Over(a.status) /\ a.cycle = request.cycle /\ Waits => "unbound" \in a.past

\* Revisions and cycles only grow.
LEMMA KeyStays ==
  ASSUME NEW key, NEW q, NEW p, q.cycle \in Nat, p.cycle \in Nat, NEW rows, NEW next,
         KeyOK(key, rows, q),
         \A r \in Refs : rows[r].rev \in Nat /\ next[r].rev \in Nat /\ rows[r].rev <= next[r].rev,
         \/ p.cycle = q.cycle /\ (p.status = "REQUESTED" => q.status = "REQUESTED")
         \/ p.cycle = q.cycle + 1
  PROVE  KeyOK(key, next, p)
<1>1. ASSUME key[1] = "move" PROVE key[3] \in Refs /\ key[2] \in Nat /\ key[2] <= next[key[3]].rev
  <2>1. key[3] \in Refs /\ key[2] \in Nat /\ key[2] <= rows[key[3]].rev
    BY <1>1 DEF KeyOK
  <2> QED
    BY <2>1
<1>2. ASSUME key[1] \in {"reserve", "release"}
      PROVE  key[2] \in Nat /\ key[2] <= p.cycle /\ (p.status = "REQUESTED" => key[2] # p.cycle)
  <2>1. key[2] \in Nat /\ key[2] <= q.cycle /\ (q.status = "REQUESTED" => key[2] # q.cycle)
    BY <1>2 DEF KeyOK
  <2> QED
    BY <2>1
<1> QED
  BY <1>1, <1>2 DEF KeyOK

LEMMA RowNumbers ==
  ASSUME RowsTyped, NEW r \in Refs
  PROVE  adjustments[r].rev \in Nat /\ adjustments[r].cycle \in Nat
BY CyclesAreNaturals DEF RowsTyped, Adjustment

\* The request stays in its cycle, and is not asked for again, or starts the next one.
Onward ==
  \/ request'.cycle = request.cycle /\ (request'.status = "REQUESTED" => request.status = "REQUESTED")
  \/ request'.cycle = request.cycle + 1

LEMMA KeysAge ==
  ASSUME IInv, IInv', Keys, \A r \in Refs : adjustments[r].rev <= adjustments'[r].rev, Onward
  PROVE  KeysIn(entries, adjustments', request')
<1>1. \A r \in Refs : adjustments[r].rev \in Nat /\ adjustments'[r].rev \in Nat
  <2>1. RowsTyped /\ RowsTyped'
    BY DEF IInv, PaymentsTypeOK
  <2>2. \A r \in Refs : adjustments[r].rev \in Nat
    BY <2>1, RowNumbers
  <2>3. \A r \in Refs : adjustments'[r].rev \in Nat
    BY <2>1, CyclesAreNaturals DEF RowsTyped, Adjustment
  <2> QED
    BY <2>2, <2>3
<1>2. request.cycle \in Nat /\ request'.cycle \in Nat
  BY CyclesAreNaturals DEF IInv, PaymentsTypeOK, Request
<1>3. ASSUME NEW e \in entries PROVE KeyOK(e.key, adjustments', request')
  <2>1. KeyOK(e.key, adjustments, request)
    BY DEF Keys, KeysIn
  <2> QED
    BY <1>1, <1>2, <2>1, KeyStays DEF Onward
<1> QED
  BY <1>3 DEF Keys, KeysIn

LEMMA KeysAdd ==
  ASSUME NEW E, NEW rows, NEW q, KeysIn(E, rows, q), NEW key, NEW d, KeyOK(key, rows, q),
         \A e \in E : e.key # key
  PROVE  KeysIn(E \cup {[key |-> key, delta |-> d]}, rows, q)
<1> DEFINE e0 == [key |-> key, delta |-> d]
<1>1. e0.key = key
  OBVIOUS
<1> HIDE DEF e0
<1>2. KeysIn(E \cup {e0}, rows, q)
  BY <1>1 DEF KeysIn
<1> QED
  BY <1>2 DEF e0

\* What is posted is one more entry, if it is one.
LEMMA PostedOrNot ==
  ASSUME NEW key, NEW d
  PROVE  \/ Posted(key, d) = entries /\ Known(key)
         \/ Posted(key, d) = entries \cup {[key |-> key, delta |-> d]} /\ \A e \in entries : e.key # key
BY DEF Posted, Known

\* Nothing but reservations, returns and movements needs its key to be right.
LEMMA KeysStay ==
  ASSUME IInv, IInv', Keys, \A r \in Refs : adjustments[r].rev <= adjustments'[r].rev, Onward,
         NEW key, NEW d, entries' = entries \/ (entries' = Posted(key, d) /\ KeyOK(key, adjustments', request'))
  PROVE  Keys'
<1>1. KeysIn(entries, adjustments', request')
  BY KeysAge
<1>2. CASE entries' = entries
  BY <1>1, <1>2 DEF Keys
<1>3. CASE /\ entries' = entries \cup {[key |-> key, delta |-> d]} /\ \A e \in entries : e.key # key
           /\ KeyOK(key, adjustments', request')
  <2>1. KeysIn(entries', adjustments', request')
    BY <1>1, <1>3, KeysAdd
  <2> QED
    BY <2>1 DEF Keys
<1> QED
  BY <1>2, <1>3, PostedOrNot

LEMMA RevsSame ==
  ASSUME IInv, adjustments' = adjustments
  PROVE  \A r \in Refs : adjustments[r].rev <= adjustments'[r].rev
<1>1. \A r \in Refs : adjustments[r].rev \in Nat
  BY RowNumbers DEF IInv, PaymentsTypeOK
<1> QED
  BY <1>1

LEMMA CalmKeys ==
  ASSUME IInv, IInv', Keys, Calm
  PROVE  Keys'
<1>1. \A r \in Refs : adjustments[r].rev <= adjustments'[r].rev
  BY RevsSame DEF Calm
<1>2. Onward
  BY DEF Calm, Steady, Onward
<1>3. CASE entries' = entries
  BY <1>1, <1>2, <1>3, KeysStay
<1>4. ASSUME NEW key, key[1] \in {"spend", "payment", "month"}, NEW d, entries' = Posted(key, d) PROVE Keys'
  <2>1. KeyOK(key, adjustments', request')
    BY <1>4 DEF KeyOK
  <2> QED
    BY <1>1, <1>2, <1>4, <2>1, KeysStay
<1> QED
  BY <1>3, <1>4 DEF Calm

LEMMA ApprovesKeys ==
  ASSUME IInv, IInv', Keys, Approves
  PROVE  Keys'
<1>1. request \in Request /\ request.cycle \in Nat
  BY RefundsTyped
<1>2. request'.cycle = request.cycle /\ request'.status = "PROCESSING"
  BY <1>1 DEF Approves, Request
<1> DEFINE key == Reserve(request.cycle)
<1>3. key[1] = "reserve" /\ key[2] = request.cycle
  BY DEF Reserve, Key
<1>4. entries' = Posted(key, -Credits)
  BY DEF Approves
<1> HIDE DEF key
<1>5. KeyOK(key, adjustments', request')
  BY <1>1, <1>2, <1>3 DEF KeyOK
<1>6. \A r \in Refs : adjustments[r].rev <= adjustments'[r].rev
  BY RevsSame DEF Approves
<1> QED
  BY <1>2, <1>4, <1>5, <1>6, KeysStay DEF Onward

-----------------------------------------------------------------------------
(* What an answer does to the request and the ledger.                       *)

LEMMA PendingIs ==
  ASSUME IInv, NEW w \in Hands, hands[w].pc = "apply", ApplyPending(hands[w])
  PROVE  /\ entries' = entries /\ Steady /\ request'.cycle = request.cycle
         /\ \E status : Recorded(w, status)
<1>1. request' = request \/ request' = [request EXCEPT !.ref = hands[w].ref]
  BY DEF ApplyPending
<1>2. request'.cycle = request.cycle /\ request'.status = request.status /\ request'.exhausted = request.exhausted
  BY <1>1, RefundsTyped DEF Request
<1>3. entries' = entries
  BY DEF ApplyPending
<1> QED
  BY <1>2, <1>3, AnswersAreRecorded DEF Steady, Waits

\* A failure ends the request that waits for it, and returns its reservation.
Returns(w) ==
  /\ Waits /\ request.cycle # 0
  /\ entries' = GivenBack(request.cycle)
  /\ request'.cycle = request.cycle /\ request'.status \in {"NEEDS_REVIEW", "REFUSED"} /\ ~Waits'
  /\ hands[w].ref # None => ~Over(adjustments[hands[w].ref].status)

LEMMA ReleaseIs ==
  ASSUME IInv, NEW w \in Hands, hands[w].pc = "apply", ReleaseRefundReservation(hands[w])
  PROVE  /\ \E status : Recorded(w, status)
         /\ UNCHANGED <<request, entries>> \/ Returns(w)
<1> DEFINE h == hands[w]
           c == ActsFor(h, FALSE)
           ends == ~FinalAlready(h) /\ Waiting(c)
<1>1. \E status : Recorded(w, status)
  BY AnswersAreRecorded
<1>2. CASE ~ends
  <2>1. UNCHANGED <<request, entries>>
    BY <1>2 DEF ReleaseRefundReservation
  <2> QED
    BY <1>1, <2>1
<1>3. CASE ends
  <2> DEFINE st == IF request.by = "system" THEN "NEEDS_REVIEW" ELSE "REFUSED"
             ref == IF h.ref = None THEN Leaves(st).ref ELSE h.ref
  <2>1. request \in Request /\ c # 0 /\ request.cycle = c /\ Waits
    BY <1>3, RefundsTyped DEF Waiting, Waits
  <2>2. request' = [Leaves(st) EXCEPT !.ref = ref] /\ entries' = GivenBack(c)
    BY <1>3 DEF ReleaseRefundReservation
  <2>3. st \in {"NEEDS_REVIEW", "REFUSED"}
    OBVIOUS
  <2> HIDE DEF st, ref
  <2>4. request'.cycle = request.cycle /\ request'.status = st /\ request'.exhausted = FALSE
    BY <2>1, <2>2 DEF Leaves, Request
  <2>5. h.ref # None => ~Over(adjustments[h.ref].status)
    BY <1>3 DEF FinalAlready
  <2> HIDE DEF h, c
  <2>6. ~Waits'
    BY <2>3, <2>4 DEF Waits
  <2> QED
    BY <1>1, <2>1, <2>2, <2>3, <2>4, <2>5, <2>6 DEF Returns, h
<1> QED
  BY <1>2, <1>3

\* A confirmed answer starts the next cycle, leaves the request alone or ends it.
LEMMA RequestAfterIs ==
  ASSUME IInv, NEW h, NEW c, NEW net, request' = RequestAfter(h, c, net)
  PROVE  \/ /\ Contained(h, c) /\ net = 0
            /\ request'.cycle = request.cycle + 1 /\ request'.status = "PROCESSING"
         \/ ~(Contained(h, c) /\ net = 0) /\ c = 0 /\ request' = request
         \/ /\ ~(Contained(h, c) /\ net = 0) /\ c # 0
            /\ request'.cycle = request.cycle /\ request'.status \in {"APPROVED", "NEEDS_REVIEW"} /\ ~Waits'
<1>1. request \in Request
  BY RefundsTyped
<1>2. CASE Contained(h, c) /\ net = 0
  BY <1>2 DEF RequestAfter, NewCycle
<1>3. CASE ~(Contained(h, c) /\ net = 0) /\ c = 0
  BY <1>3 DEF RequestAfter
<1>4. CASE ~(Contained(h, c) /\ net = 0) /\ c # 0
  <2> DEFINE st == IF Fully(net) THEN "APPROVED" ELSE "NEEDS_REVIEW"
  <2>1. request' = [Leaves(st) EXCEPT !.ref = h.ref]
    BY <1>4 DEF RequestAfter
  <2>2. st \in {"APPROVED", "NEEDS_REVIEW"}
    OBVIOUS
  <2> HIDE DEF st
  <2>3. request'.cycle = request.cycle /\ request'.status = st /\ request'.exhausted = FALSE
    BY <1>1, <2>1 DEF Leaves, Request
  <2> QED
    BY <1>4, <2>2, <2>3 DEF Waits
<1> QED
  BY <1>2, <1>3, <1>4

-----------------------------------------------------------------------------
(* Keys through the answers.                                                *)

LEMMA RecordedKeys ==
  ASSUME IInv, IInv', Names, Keys, NEW w \in Hands, hands[w].pc = "apply", NEW status, Recorded(w, status),
         UNCHANGED <<request, entries>> \/ Returns(w) \/ (entries' = entries /\ Steady)
  PROVE  Keys'
<1>1. \A r \in Refs : adjustments[r].rev <= adjustments'[r].rev
  <2>1. \A r \in Refs : adjustments[r].rev \in Nat
    BY RowNumbers DEF IInv, PaymentsTypeOK
  <2> QED
    BY <2>1, RecordedRows
<1>2. Onward
  BY DEF Onward, Returns, Steady
<1>3. CASE entries' = entries
  BY <1>1, <1>2, <1>3, KeysStay
<1>4. CASE Returns(w)
  <2> DEFINE key == Release(request.cycle)
             d == -Sum({e \in entries : e.key = Reserve(request.cycle)})
  <2>1. entries' = entries \/ entries' = Posted(key, d)
    BY <1>4 DEF Returns, GivenBack
  <2>2. key[1] = "release" /\ key[2] = request.cycle
    BY DEF Release, Key
  <2> HIDE DEF key, d
  <2>3. KeyOK(key, adjustments', request')
    BY <1>4, <2>2, RefundsTyped DEF Returns, KeyOK
  <2> QED
    BY <1>1, <1>2, <2>1, <2>3, KeysStay
<1> QED
  BY <1>3, <1>4

\* What is not known yet: movements of later revisions, the reservations of later cycles.
LEMMA Fresh ==
  ASSUME IInv, Keys, NEW e \in entries
  PROVE  /\ \A r \in Refs : e.key # Key("move", adjustments[r].rev + 1, r)
         /\ e.key # Reserve(request.cycle + 1) /\ e.key # Release(request.cycle + 1)
         /\ request.status = "REQUESTED" => e.key # Reserve(request.cycle) /\ e.key # Release(request.cycle)
<1>1. KeyOK(e.key, adjustments, request) /\ request.cycle \in Nat
  BY RefundsTyped DEF Keys, KeysIn
<1>2. ASSUME NEW r \in Refs, e.key = Key("move", adjustments[r].rev + 1, r) PROVE FALSE
  <2>1. adjustments[r].rev \in Nat
    BY RowNumbers DEF IInv, PaymentsTypeOK
  <2>2. e.key[1] = "move" /\ e.key[2] = adjustments[r].rev + 1 /\ e.key[3] = r
    BY <1>2 DEF Key
  <2> QED
    BY <1>1, <2>1, <2>2 DEF KeyOK
<1>3. ASSUME NEW n \in {request.cycle, request.cycle + 1}, e.key = Reserve(n) \/ e.key = Release(n)
      PROVE  e.key[1] \in {"reserve", "release"} /\ e.key[2] = n
  BY <1>3 DEF Reserve, Release, Key
<1> QED
  BY <1>1, <1>2, <1>3 DEF KeyOK

MoveKey(h) == Key("move", adjustments[h.ref].rev + 1, h.ref)

LEMMA MovementIs ==
  ASSUME IInv, Keys, NEW h, h.ref \in Refs, NEW c
  PROVE  /\ WithMovement(h, c) = IF Movement(h, c) = 0 THEN entries
                                 ELSE entries \cup {[key |-> MoveKey(h), delta |-> Movement(h, c)]}
         /\ \A e \in entries : e.key # MoveKey(h)
<1>1. \A e \in entries : e.key # MoveKey(h)
  BY Fresh DEF MoveKey
<1> QED
  BY <1>1 DEF WithMovement, Posted, Known, MoveKey

LEMMA ConfirmedKeys ==
  ASSUME IInv, IInv', Keys, NEW w \in Hands, hands[w].pc = "apply", Confirms(hands[w]),
         NEW c, Moved(hands[w], c),
         entries' = EntriesAfter(hands[w], c, NetAfter(hands[w])),
         request' = RequestAfter(hands[w], c, NetAfter(hands[w]))
  PROVE  Keys'
<1> DEFINE h == hands[w]
           x == h.ref
           net == NetAfter(h)
           m == Movement(h, c)
           E == WithMovement(h, c)
<1>1. x \in Refs
  BY ConfirmedMoney
<1>2. PICK row \in Adjustment : /\ adjustments' = [adjustments EXCEPT ![x] = row]
                                /\ row.rev = IF m = 0 THEN adjustments[x].rev ELSE adjustments[x].rev + 1
  BY ConfirmedRow
<1>3. adjustments'[x] = row /\ \A r \in Refs \ {x} : adjustments'[r] = adjustments[r]
  BY <1>1, <1>2 DEF IInv, PaymentsTypeOK, RowsTyped
<1>4. \A r \in Refs : adjustments[r].rev \in Nat
  BY RowNumbers DEF IInv, PaymentsTypeOK
<1>5. \A r \in Refs : adjustments[r].rev <= adjustments'[r].rev
  <2> HIDE DEF m, x
  <2> TAKE r \in Refs
  <2>1. CASE r = x
    BY <1>2, <1>3, <1>4, <2>1
  <2>2. CASE r # x
    BY <1>3, <1>4, <2>2
  <2> QED
    BY <2>1, <2>2
<1>6. Onward
  BY RequestAfterIs DEF Onward
<1>7. KeysIn(entries, adjustments', request')
  BY <1>5, <1>6, KeysAge
<1>8. /\ E = IF m = 0 THEN entries ELSE entries \cup {[key |-> MoveKey(h), delta |-> m]}
      /\ \A e \in entries : e.key # MoveKey(h)
  BY <1>1, MovementIs
<1> DEFINE k == MoveKey(h)
<1>9. k[1] = "move" /\ k[2] = adjustments[x].rev + 1 /\ k[3] = x
  BY DEF MoveKey, Key
<1>10. m # 0 => KeyOK(k, adjustments', request')
  <2> HIDE DEF k, x, m
  <2> QED
    BY <1>1, <1>2, <1>3, <1>4, <1>9 DEF KeyOK
<1> HIDE DEF k, m, E
<1>11. KeysIn(E, adjustments', request')
  <2>1. CASE m = 0
    BY <1>7, <1>8, <2>1
  <2>2. CASE m # 0
    BY <1>7, <1>8, <1>10, <2>2, KeysAdd DEF k
  <2> QED
    BY <2>1, <2>2
<1>12. CASE entries' = E
  BY <1>11, <1>12 DEF Keys
<1>13. CASE entries' # E
  <2> DEFINE n == Reserve(request.cycle + 1)
  <2>1. entries' = E \cup {[key |-> n, delta |-> -Funded]} /\ Contained(h, c) /\ net = 0
    BY <1>13 DEF EntriesAfter, E
  <2>2. request'.cycle = request.cycle + 1 /\ request'.status = "PROCESSING"
    BY <2>1, RequestAfterIs
  <2>3. n[1] = "reserve" /\ n[2] = request.cycle + 1
    BY DEF Reserve, Key
  <2>4. \A e \in entries : e.key # n
    BY Fresh
  <2> HIDE DEF n, h, x, net
  <2>5. KeyOK(n, adjustments', request')
    BY <2>2, <2>3, RefundsTyped DEF KeyOK
  <2>6. \A e \in E : e.key # n
    <3>1. k # n
      BY <1>9, <2>3
    <3> QED
      BY <1>8, <2>4, <3>1 DEF k
  <2> DEFINE d == -Funded
  <2>7. KeysIn(E \cup {[key |-> n, delta |-> d]}, adjustments', request')
    <3> HIDE DEF d
    <3> QED
      BY <1>11, <2>5, <2>6, KeysAdd
  <2> QED
    BY <2>1, <2>7 DEF Keys
<1> QED
  BY <1>12, <1>13

LEMMA AppliesKeys ==
  ASSUME IInv, IInv', Names, Keys, NEW w \in Hands, Apply(w) PROVE Keys'
<1>1. /\ hands[w].pc = "apply"
      /\ ApplyPending(hands[w]) \/ ReleaseRefundReservation(hands[w]) \/ ApplyConfirmedAdjustment(hands[w])
  BY DEF Apply
<1>2. CASE ApplyPending(hands[w])
  BY <1>1, <1>2, PendingIs, RecordedKeys
<1>3. CASE ReleaseRefundReservation(hands[w])
  BY <1>1, <1>3, ReleaseIs, RecordedKeys
<1>4. CASE ApplyConfirmedAdjustment(hands[w])
  <2>1. CASE UNCHANGED <<request, adjustments, entries>>
    BY <2>1, CalmBeside, CalmKeys
  <2>2. CASE /\ adjustments[hands[w].ref].status = "REVERSED" /\ UNCHANGED <<request, entries>>
             /\ Record(hands[w], [adjustments[hands[w].ref] EXCEPT !.cycle = BoundTo(hands[w], FALSE)])
    <3>1. PICK status : Recorded(w, status)
      BY <1>1, <2>2, AnswersAreRecorded
    <3> QED
      BY <1>1, <2>2, <3>1, RecordedKeys
  <2>3. ASSUME Confirms(hands[w]), NEW c, Moved(hands[w], c),
               entries' = EntriesAfter(hands[w], c, NetAfter(hands[w])),
               request' = RequestAfter(hands[w], c, NetAfter(hands[w]))
        PROVE  Keys'
    BY <1>1, <2>3, ConfirmedKeys
  <2> QED
    BY <1>1, <1>4, <2>1, <2>2, <2>3, ConfirmationsAre
<1> QED
  BY <1>1, <1>2, <1>3, <1>4

LEMMA KeysInductive ==
  ASSUME IInv, IInv', Names, Keys, [Next]_vars PROVE Keys'
BY StepsAre, CalmKeys, ApprovesKeys, AppliesKeys

-----------------------------------------------------------------------------
(* What the rows remember.                                                  *)

LEMMA CalmPasts ==
  ASSUME IInv, Pasts, Calm
  PROVE  Pasts'
<1>1. ASSUME NEW r \in Refs PROVE adjustments[r].cycle # request.cycle + 1
  <2>1. adjustments[r].cycle <= request.cycle /\ adjustments[r].cycle \in Nat /\ request.cycle \in Nat
    BY RowNumbers, RefundsTyped DEF IInv, Rows, PaymentsTypeOK
  <2> QED
    BY <2>1
<1>2. adjustments' = adjustments
  BY DEF Calm
<1>3. CASE request'.cycle = request.cycle /\ (Waits' => Waits)
  BY <1>2, <1>3 DEF Pasts
<1>4. CASE request'.cycle = request.cycle + 1
  BY <1>1, <1>2, <1>4 DEF Pasts
<1> QED
  BY <1>3, <1>4 DEF Calm, Steady

\* Nothing is bound to the cycle of a request that is still to be decided.
LEMMA UndecidedIsUnbound ==
  ASSUME IInv, Names, request.status = "REQUESTED", NEW r \in Refs
  PROVE  adjustments[r].cycle # request.cycle
<1>1. request.cycle # 0 /\ r # None
  BY PaymentsAssumption DEF IInv, Kept
<1> QED
  BY <1>1 DEF Names

LEMMA ApprovesPasts ==
  ASSUME IInv, Names, Pasts, Approves
  PROVE  Pasts'
<1>1. request'.cycle = request.cycle /\ adjustments' = adjustments
  BY RefundsTyped DEF Approves, Request
<1>2. \A r \in Refs : adjustments[r].cycle # request.cycle
  BY UndecidedIsUnbound DEF Approves
<1> QED
  BY <1>1, <1>2 DEF Pasts

LEMMA RecordedPasts ==
  ASSUME IInv, Names, Pasts, NEW w \in Hands, hands[w].pc = "apply", NEW status, Recorded(w, status),
         request'.cycle = request.cycle, Waits' => Waits
  PROVE  Pasts'
<1> SUFFICES ASSUME NEW r \in Refs
             PROVE  LET a == adjustments'[r]
                    IN  /\ ~Over(a.status) => a.credit = 0
                        /\ Over(a.status) /\ a.cycle = 0 => "unbound" \in a.past
                        /\ Over(a.status) /\ a.cycle = request'.cycle /\ Waits' => "unbound" \in a.past
  BY DEF Pasts
<1> DEFINE a == adjustments[r]
           b == adjustments'[r]
<1>1. /\ Over(a.status) <=> Over(b.status)
      /\ b.credit = a.credit /\ b.past = a.past
      /\ b.cycle = a.cycle \/ a.cycle = 0
  BY RecordedRows
<1>2. /\ ~Over(a.status) => a.credit = 0
      /\ Over(a.status) /\ a.cycle = 0 => "unbound" \in a.past
      /\ Over(a.status) /\ a.cycle = request.cycle /\ Waits => "unbound" \in a.past
  BY DEF Pasts
<1> HIDE DEF a
<1> QED
  BY <1>1, <1>2

LEMMA PastAfterIs ==
  ASSUME NEW h, NEW c
  PROVE  /\ adjustments[h.ref].past \subseteq PastAfter(h, c)
         /\ ~Over(adjustments[h.ref].status) /\ c = 0 => "unbound" \in PastAfter(h, c)
         /\ Over(adjustments[h.ref].status) /\ adjustments[h.ref].credit = 0 => "again" \in PastAfter(h, c)
BY DEF PastAfter

LEMMA ConfirmedIs ==
  ASSUME IInv, NEW w \in Hands, hands[w].pc = "apply", Confirms(hands[w]), NEW c, Moved(hands[w], c)
  PROVE  /\ hands[w].ref \in Refs /\ hands[w].ref # None
         /\ \A r \in Refs \ {hands[w].ref} : adjustments'[r] = adjustments[r]
         /\ Over(adjustments'[hands[w].ref].status)
         /\ adjustments'[hands[w].ref].cycle = BoundTo(hands[w], hands[w].saw = "succeeded")
         /\ adjustments'[hands[w].ref].past = PastAfter(hands[w], c)
<1> DEFINE x == hands[w].ref
<1>1. x \in Refs /\ x # None
  BY ConfirmedMoney
<1>2. PICK row \in Adjustment : /\ adjustments' = [adjustments EXCEPT ![x] = row]
                                /\ row.status = IF hands[w].saw = "reversed" THEN "REVERSED" ELSE "SUCCEEDED"
                                /\ row.cycle = BoundTo(hands[w], hands[w].saw = "succeeded")
                                /\ row.past = PastAfter(hands[w], c)
  BY ConfirmedRow
<1>3. adjustments'[x] = row /\ \A r \in Refs \ {x} : adjustments'[r] = adjustments[r]
  BY <1>1, <1>2 DEF IInv, PaymentsTypeOK, RowsTyped
<1>4. Over(row.status)
  BY <1>2 DEF Over
<1> QED
  BY <1>1, <1>2, <1>3, <1>4

LEMMA ConfirmedPasts ==
  ASSUME IInv, Names, Pasts, NEW w \in Hands, hands[w].pc = "apply", Confirms(hands[w]),
         NEW c, c = ActsFor(hands[w], hands[w].saw = "succeeded"), Moved(hands[w], c),
         request' = RequestAfter(hands[w], c, NetAfter(hands[w]))
  PROVE  Pasts'
<1> DEFINE h == hands[w]
           x == h.ref
           row == adjustments'[x]
<1>1. x \in Refs /\ x # None
  BY ConfirmedMoney
<1>2. row.cycle = BoundTo(hands[w], hands[w].saw = "succeeded") /\ row.past = PastAfter(h, c)
  BY ConfirmedIs
<1>3. adjustments'[x] = row /\ \A r \in Refs \ {x} : adjustments'[r] = adjustments[r]
  BY ConfirmedIs
<1>4. Over(row.status)
  BY ConfirmedIs
<1>5. \A r \in Refs : \/ adjustments'[r].cycle = adjustments[r].cycle
                      \/ r = x /\ c # 0 /\ adjustments'[r].cycle = request.cycle
  BY ConfirmedBinds
<1>6. c # 0 => row.cycle # 0
  BY <1>2, ActsForItsCycle
<1>7. \A r \in Refs : adjustments[r].cycle <= request.cycle /\ adjustments[r].cycle \in Nat /\ request.cycle \in Nat
  BY RowNumbers, RefundsTyped DEF IInv, Rows, PaymentsTypeOK
<1>8. /\ adjustments[x].past \subseteq row.past
      /\ ~Over(adjustments[x].status) /\ c = 0 => "unbound" \in row.past
  BY <1>2, PastAfterIs
<1>9. \/ request'.cycle = request.cycle + 1
      \/ request' = request /\ c = 0
      \/ ~Waits'
  BY RequestAfterIs
<1> HIDE DEF row, x, h
<1>10. ASSUME NEW r \in Refs
       PROVE  LET a == adjustments'[r]
              IN  /\ ~Over(a.status) => a.credit = 0
                  /\ Over(a.status) /\ a.cycle = 0 => "unbound" \in a.past
                  /\ Over(a.status) /\ a.cycle = request'.cycle /\ Waits' => "unbound" \in a.past
  <2> DEFINE a == adjustments[r]
             b == adjustments'[r]
  <2>1. /\ ~Over(a.status) => a.credit = 0
        /\ Over(a.status) /\ a.cycle = 0 => "unbound" \in a.past
        /\ Over(a.status) /\ a.cycle = request.cycle /\ Waits => "unbound" \in a.past
    BY DEF Pasts
  <2>2. b.cycle # request.cycle + 1
    BY <1>5, <1>7
  <2>3. CASE r = x
    <3>1. b = row /\ a = adjustments[x]
      BY <1>3, <2>3
    <3>2. b.cycle = a.cycle \/ c # 0
      BY <1>5
    <3>3. request' = request => (Waits' => Waits) /\ request'.cycle = request.cycle
      BY DEF Waits
    <3> HIDE DEF a, b
    <3>4. b.cycle = 0 => "unbound" \in b.past
      BY <1>4, <1>6, <1>8, <2>1, <3>1, <3>2
    <3>5. b.cycle = request'.cycle /\ Waits' => "unbound" \in b.past
      BY <1>8, <1>9, <2>1, <2>2, <3>1, <3>2, <3>3
    <3> QED
      BY <1>4, <3>1, <3>4, <3>5 DEF b
  <2>4. CASE r # x
    <3>1. b = a
      BY <1>3, <2>4
    <3>2. request' = request => (Waits' => Waits) /\ request'.cycle = request.cycle
      BY DEF Waits
    <3> HIDE DEF a
    <3> QED
      BY <1>9, <2>1, <2>2, <3>1, <3>2
  <2> QED
    BY <2>3, <2>4
<1> QED
  BY <1>10 DEF Pasts

LEMMA AppliesPasts ==
  ASSUME IInv, Names, Pasts, NEW w \in Hands, Apply(w) PROVE Pasts'
<1>1. /\ hands[w].pc = "apply"
      /\ ApplyPending(hands[w]) \/ ReleaseRefundReservation(hands[w]) \/ ApplyConfirmedAdjustment(hands[w])
  BY DEF Apply
<1>2. request.cycle \in Nat
  BY RefundsTyped
<1>3. CASE ApplyPending(hands[w])
  <2>1. request'.cycle = request.cycle /\ (Waits' => Waits) /\ \E status : Recorded(w, status)
    BY <1>1, <1>2, <1>3, PendingIs DEF Steady
  <2> QED
    BY <1>1, <2>1, RecordedPasts
<1>4. CASE ReleaseRefundReservation(hands[w])
  <2>1. request'.cycle = request.cycle /\ (Waits' => Waits)
    BY <1>1, <1>4, ReleaseIs DEF Returns, Waits
  <2>2. \E status : Recorded(w, status)
    BY <1>1, <1>4, ReleaseIs
  <2> QED
    BY <1>1, <2>1, <2>2, RecordedPasts
<1>5. CASE ApplyConfirmedAdjustment(hands[w])
  <2>1. CASE UNCHANGED <<request, adjustments, entries>>
    BY <2>1, CalmBeside, CalmPasts
  <2>2. CASE /\ adjustments[hands[w].ref].status = "REVERSED" /\ UNCHANGED <<request, entries>>
             /\ Record(hands[w], [adjustments[hands[w].ref] EXCEPT !.cycle = BoundTo(hands[w], FALSE)])
    <3>1. PICK status : Recorded(w, status)
      BY <1>1, <2>2, AnswersAreRecorded
    <3>2. request'.cycle = request.cycle /\ (Waits' => Waits)
      BY <2>2 DEF Waits
    <3> QED
      BY <1>1, <3>1, <3>2, RecordedPasts
  <2>3. ASSUME Confirms(hands[w]), NEW c, c = ActsFor(hands[w], hands[w].saw = "succeeded"), Moved(hands[w], c),
               request' = RequestAfter(hands[w], c, NetAfter(hands[w]))
        PROVE  Pasts'
    BY <1>1, <2>3, ConfirmedPasts
  <2> QED
    BY <1>1, <1>5, <2>1, <2>2, <2>3, ConfirmationsAre
<1> QED
  BY <1>1, <1>3, <1>4, <1>5

LEMMA PastsInductive ==
  ASSUME IInv, Names, Pasts, [Next]_vars PROVE Pasts'
BY StepsAre, CalmPasts, ApprovesPasts, AppliesPasts

LEMMA InitKeysAndPasts == Init => Keys /\ Pasts
<1> SUFFICES ASSUME Init PROVE Keys /\ Pasts
  OBVIOUS
<1>1. entries = {}
  BY DEF Init
<1>2. \A r \in Refs : adjustments[r].status = "NONE" /\ adjustments[r].credit = 0
  BY DEF Init, Unseen
<1>3. Keys
  BY <1>1 DEF Keys, KeysIn
<1>4. Pasts
  BY <1>2 DEF Pasts, Over
<1> QED
  BY <1>3, <1>4

-----------------------------------------------------------------------------
(* The parts of the ledger.                                                 *)

HeldOf(E) == {e \in E : e.key[1] # "spend"}
FundOf(E) == {e \in E : e.key[1] \in {"payment", "month"}}
OutOf(E, O) == {e \in E : \E c \in O : e.key = Reserve(c)}

\* What is held is what was paid for, and what the rows have taken, and what is set aside
\* for the cycles of O.
Balanced(E, O, t) == Sum(HeldOf(E)) = Sum(FundOf(E)) + t + Sum(OutOf(E, O))

Entries(E) == IsFiniteSet(E) /\ \A e \in E : e.delta \in Int

\* One entry more, one summand more.
LEMMA SumAdd ==
  ASSUME NEW E, Entries(E), NEW e, e \notin E, e.delta \in Int
  PROVE  Sum(E \cup {e}) = Sum(E) + e.delta /\ Sum(E) \in Int
<1> DEFINE F == E \cup {e}
<1>1. IsFiniteSet(F) /\ IsFiniteSet(E) /\ e \in F /\ F \ {e} = E
  BY FS_AddElement DEF Entries
<1>2. \A f \in F : Deltas(F)[f] = f.delta /\ Deltas(F)[f] \in Int
  BY DEF Deltas, Entries
<1>3. \A f \in E : Deltas(E)[f] = Deltas(F)[f]
  BY DEF Deltas
<1> HIDE DEF F
<1>4. Sum(F) = Total(Deltas(F), F) /\ Sum(E) = Total(Deltas(E), E)
  BY <1>1, SumIs
<1>5. Total(Deltas(F), F) = Deltas(F)[e] + Total(Deltas(F), F \ {e})
  BY <1>1, <1>2, TotalSplit
<1>6. Total(Deltas(E), E) = Total(Deltas(F), E)
  BY <1>1, <1>3, TotalSame
<1>7. Sum(E) \in Int
  BY SumInt DEF Entries
<1>8. Sum(F) = e.delta + Sum(E)
  BY <1>1, <1>2, <1>4, <1>5, <1>6
<1>9. Sum(F) = Sum(E) + e.delta
  BY <1>7, <1>8
<1> QED
  BY <1>7, <1>9 DEF F

LEMMA SubEntries ==
  ASSUME NEW E, Entries(E), NEW F, F \subseteq E
  PROVE  Entries(F) /\ Sum(F) \in Int
BY FS_Subset, SumInt DEF Entries

LEMMA PartsAreEntries ==
  ASSUME NEW E, Entries(E), NEW O
  PROVE  /\ Entries(HeldOf(E)) /\ Sum(HeldOf(E)) \in Int
         /\ Entries(FundOf(E)) /\ Sum(FundOf(E)) \in Int
         /\ Entries(OutOf(E, O)) /\ Sum(OutOf(E, O)) \in Int
<1>1. HeldOf(E) \subseteq E /\ FundOf(E) \subseteq E /\ OutOf(E, O) \subseteq E
  BY DEF HeldOf, FundOf, OutOf
<1> QED
  BY <1>1, SubEntries

LEMMA ReserveIs ==
  ASSUME NEW c, NEW d
  PROVE  /\ Reserve(c)[1] = "reserve" /\ Release(c)[1] = "release"
         /\ Reserve(c) = Reserve(d) => c = d
BY DEF Reserve, Release, Key

\* A debit of the wallet is no part of it.
LEMMA BalancedSpend ==
  ASSUME NEW E, NEW O, NEW t, Balanced(E, O, t), NEW e, e.key[1] = "spend"
  PROVE  Balanced(E \cup {e}, O, t)
<1>1. HeldOf(E \cup {e}) = HeldOf(E) /\ FundOf(E \cup {e}) = FundOf(E)
  BY DEF HeldOf, FundOf
<1>2. \A c : e.key # Reserve(c)
  BY ReserveIs
<1>3. OutOf(E \cup {e}, O) = OutOf(E, O)
  BY <1>2 DEF OutOf
<1> QED
  BY <1>1, <1>3 DEF Balanced

\* What is granted is held.
LEMMA BalancedGrant ==
  ASSUME NEW E, Entries(E), NEW O, NEW t \in Int, Balanced(E, O, t), NEW e, e \notin E, e.delta \in Int,
         e.key[1] \in {"payment", "month"}
  PROVE  Balanced(E \cup {e}, O, t)
<1>1. /\ HeldOf(E \cup {e}) = HeldOf(E) \cup {e} /\ e \notin HeldOf(E)
      /\ FundOf(E \cup {e}) = FundOf(E) \cup {e} /\ e \notin FundOf(E)
  BY DEF HeldOf, FundOf
<1>2. \A c : e.key # Reserve(c)
  BY ReserveIs
<1>3. OutOf(E \cup {e}, O) = OutOf(E, O)
  BY <1>2 DEF OutOf
<1>4. /\ Entries(HeldOf(E)) /\ Entries(FundOf(E))
      /\ Sum(HeldOf(E)) \in Int /\ Sum(FundOf(E)) \in Int /\ Sum(OutOf(E, O)) \in Int
  BY PartsAreEntries
<1>5. /\ Sum(HeldOf(E \cup {e})) = Sum(HeldOf(E)) + e.delta
      /\ Sum(FundOf(E \cup {e})) = Sum(FundOf(E)) + e.delta
  BY <1>1, <1>4, SumAdd
<1>6. Sum(HeldOf(E)) = Sum(FundOf(E)) + t + Sum(OutOf(E, O))
  BY DEF Balanced
<1> DEFINE a == Sum(HeldOf(E))
           b == Sum(FundOf(E))
           o == Sum(OutOf(E, O))
<1> HIDE DEF a, b, o
<1>7. a \in Int /\ b \in Int /\ o \in Int /\ a = b + t + o => a + e.delta = (b + e.delta) + t + o
  OBVIOUS
<1>8. Sum(HeldOf(E \cup {e})) = Sum(FundOf(E \cup {e})) + t + Sum(OutOf(E, O))
  BY <1>4, <1>5, <1>6, <1>7 DEF a, b, o
<1> QED
  BY <1>3, <1>8 DEF Balanced

\* What moves, or is returned, is taken by that much less.
LEMMA BalancedMove ==
  ASSUME NEW E, Entries(E), NEW O, NEW t \in Int, Balanced(E, O, t), NEW e, e \notin E, e.delta \in Int,
         e.key[1] \in {"move", "release"}
  PROVE  Balanced(E \cup {e}, O, t + e.delta)
<1>1. /\ HeldOf(E \cup {e}) = HeldOf(E) \cup {e} /\ e \notin HeldOf(E)
      /\ FundOf(E \cup {e}) = FundOf(E)
  BY DEF HeldOf, FundOf
<1>2. \A c : e.key # Reserve(c)
  BY ReserveIs
<1>3. OutOf(E \cup {e}, O) = OutOf(E, O)
  BY <1>2 DEF OutOf
<1>4. Entries(HeldOf(E)) /\ Sum(HeldOf(E)) \in Int /\ Sum(FundOf(E)) \in Int /\ Sum(OutOf(E, O)) \in Int
  BY PartsAreEntries
<1>5. Sum(HeldOf(E \cup {e})) = Sum(HeldOf(E)) + e.delta
  BY <1>1, <1>4, SumAdd
<1>6. Sum(HeldOf(E)) = Sum(FundOf(E)) + t + Sum(OutOf(E, O))
  BY DEF Balanced
<1> DEFINE a == Sum(HeldOf(E))
           b == Sum(FundOf(E))
           o == Sum(OutOf(E, O))
<1> HIDE DEF a, b, o
<1>7. a \in Int /\ b \in Int /\ o \in Int /\ a = b + t + o => a + e.delta = b + (t + e.delta) + o
  OBVIOUS
<1>8. Sum(HeldOf(E \cup {e})) = Sum(FundOf(E)) + (t + e.delta) + Sum(OutOf(E, O))
  BY <1>4, <1>5, <1>6, <1>7 DEF a, b, o
<1> QED
  BY <1>1, <1>3, <1>8 DEF Balanced

\* What is reserved is set aside.
LEMMA BalancedReserve ==
  ASSUME NEW E, Entries(E), NEW O, NEW t \in Int, Balanced(E, O, t), NEW e, e.delta \in Int,
         NEW c, e.key = Reserve(c), \A f \in E : f.key # Reserve(c)
  PROVE  Balanced(E \cup {e}, O \cup {c}, t)
<1>1. e.key[1] = "reserve" /\ e \notin E
  BY ReserveIs
<1>2. /\ HeldOf(E \cup {e}) = HeldOf(E) \cup {e} /\ e \notin HeldOf(E)
      /\ FundOf(E \cup {e}) = FundOf(E)
  BY <1>1 DEF HeldOf, FundOf
<1>3. OutOf(E \cup {e}, O \cup {c}) = OutOf(E, O) \cup {e} /\ e \notin OutOf(E, O)
  BY <1>1 DEF OutOf
<1>4. /\ Entries(HeldOf(E)) /\ Entries(OutOf(E, O))
      /\ Sum(HeldOf(E)) \in Int /\ Sum(FundOf(E)) \in Int /\ Sum(OutOf(E, O)) \in Int
  BY PartsAreEntries
<1>5. /\ Sum(HeldOf(E) \cup {e}) = Sum(HeldOf(E)) + e.delta
      /\ Sum(OutOf(E, O) \cup {e}) = Sum(OutOf(E, O)) + e.delta
  BY <1>2, <1>3, <1>4, SumAdd
<1>6. Sum(HeldOf(E)) = Sum(FundOf(E)) + t + Sum(OutOf(E, O))
  BY DEF Balanced
<1> DEFINE a == Sum(HeldOf(E))
           b == Sum(FundOf(E))
           o == Sum(OutOf(E, O))
<1> HIDE DEF a, b, o
<1>7. a \in Int /\ b \in Int /\ o \in Int /\ a = b + t + o => a + e.delta = b + t + (o + e.delta)
  OBVIOUS
<1>8. Sum(HeldOf(E) \cup {e}) = Sum(FundOf(E)) + t + Sum(OutOf(E, O) \cup {e})
  BY <1>4, <1>5, <1>6, <1>7 DEF a, b, o
<1> QED
  BY <1>2, <1>3, <1>8 DEF Balanced

\* A reservation that is used is taken.
LEMMA BalancedUse ==
  ASSUME NEW E, Entries(E), NEW O, NEW t \in Int, Balanced(E, O, t), NEW e \in E,
         NEW c \in O, e.key = Reserve(c), \A f \in E : f.key = Reserve(c) => f = e
  PROVE  Balanced(E, O \ {c}, t + e.delta)
<1>1. OutOf(E, O) = OutOf(E, O \ {c}) \cup {e}
  BY DEF OutOf
<1>2. e \notin OutOf(E, O \ {c})
  BY ReserveIs DEF OutOf
<1>3. /\ Entries(OutOf(E, O \ {c})) /\ e.delta \in Int
      /\ Sum(HeldOf(E)) \in Int /\ Sum(FundOf(E)) \in Int /\ Sum(OutOf(E, O \ {c})) \in Int
  BY PartsAreEntries DEF Entries
<1>4. Sum(OutOf(E, O)) = Sum(OutOf(E, O \ {c})) + e.delta
  BY <1>1, <1>2, <1>3, SumAdd
<1>5. Sum(HeldOf(E)) = Sum(FundOf(E)) + t + Sum(OutOf(E, O))
  BY DEF Balanced
<1> DEFINE a == Sum(HeldOf(E))
           b == Sum(FundOf(E))
           o == Sum(OutOf(E, O \ {c}))
<1> HIDE DEF a, b, o
<1>6. a \in Int /\ b \in Int /\ o \in Int /\ e.delta \in Int /\ a = b + t + (o + e.delta) => a = b + (t + e.delta) + o
  OBVIOUS
<1>7. Sum(HeldOf(E)) = Sum(FundOf(E)) + (t + e.delta) + Sum(OutOf(E, O \ {c}))
  BY <1>3, <1>4, <1>5, <1>6 DEF a, b, o
<1> QED
  BY <1>7 DEF Balanced

-----------------------------------------------------------------------------
(* The books.                                                               *)

Books == ConfirmedUnbound \/ ToldAgain \/ Balanced(entries, Outstanding, Taken)

PastsGrow == \A r \in Refs : adjustments[r].past \subseteq adjustments'[r].past

\* What excuses the books once does so for ever.
LEMMA ExcuseStays ==
  ASSUME ConfirmedUnbound \/ ToldAgain, RowsGrow, PastsGrow, entries \subseteq entries'
  PROVE  Books'
<1>1. ASSUME NEW r \in Reserved PROVE r \in Reserved' /\ adjustments[r].past \subseteq adjustments'[r].past
  <2>1. r \in Refs /\ adjustments[r].cycle # 0 /\ Over(adjustments[r].status) /\ Known(Reserve(adjustments[r].cycle))
    BY DEF Reserved
  <2>2. adjustments'[r].cycle = adjustments[r].cycle /\ Over(adjustments'[r].status)
    BY <2>1 DEF RowsGrow
  <2>3. \E e \in entries' : e.key = Reserve(adjustments'[r].cycle)
    BY <2>1, <2>2 DEF Known
  <2> QED
    BY <2>1, <2>2, <2>3 DEF Reserved, PastsGrow, Known
<1> QED
  BY <1>1 DEF Books, ConfirmedUnbound, ToldAgain

LEMMA LedgerIs ==
  ASSUME IInv
  PROVE  Entries(entries) /\ Taken \in Int
<1>1. Entries(entries)
  BY DEF IInv, PaymentsTypeOK, Entries, Entry
<1>2. Taken \in Int
  BY TakingsAreInts DEF IInv, PaymentsTypeOK, Taken, OverRefs
<1> QED
  BY <1>1, <1>2

\* What is outstanding changes with reservations, their returns and the rows alone.
LEMMA OutstandingStays ==
  ASSUME \A c \in 1 .. MaxCycles : /\ Known(Reserve(c))' <=> Known(Reserve(c))
                                   /\ Known(Release(c))' <=> Known(Release(c)),
         \A r \in Refs : /\ Over(adjustments[r].status) <=> Over(adjustments'[r].status)
                         /\ Over(adjustments[r].status) => adjustments'[r].cycle = adjustments[r].cycle
  PROVE  Outstanding' = Outstanding
<1>1. ASSUME NEW c \in 1 .. MaxCycles
      PROVE  (\A r \in Refs : ~(adjustments[r].cycle = c /\ Over(adjustments[r].status)))
               <=> \A r \in Refs : ~(adjustments'[r].cycle = c /\ Over(adjustments'[r].status))
  OBVIOUS
<1> QED
  BY <1>1 DEF Outstanding

LEMMA KnownMore ==
  ASSUME NEW e, entries' = entries \cup {e}, NEW c
  PROVE  /\ Known(Reserve(c))' <=> Known(Reserve(c)) \/ e.key = Reserve(c)
         /\ Known(Release(c))' <=> Known(Release(c)) \/ e.key = Release(c)
BY DEF Known, Reserve, Release, Key

LEMMA CalmBooks ==
  ASSUME IInv, IInv', Books, Calm
  PROVE  Books'
<1>1. adjustments' = adjustments /\ RowsGrow /\ PastsGrow
  BY RowsGrowSame DEF Calm, PastsGrow
<1>2. entries \subseteq entries'
  BY DEF Calm, Posted
<1>3. CASE ConfirmedUnbound \/ ToldAgain
  BY <1>1, <1>2, <1>3, ExcuseStays
<1>4. CASE Balanced(entries, Outstanding, Taken)
  <2>1. Taken' = Taken /\ Taken \in Int /\ Entries(entries)
    BY <1>1, TakenStays, LedgerIs
  <2>2. CASE entries' = entries
    <3>1. Outstanding' = Outstanding
      BY <1>1, <2>2, OutstandingStays DEF Known
    <3> QED
      BY <1>4, <2>1, <2>2, <3>1 DEF Books
  <2>3. ASSUME NEW key, key[1] \in {"spend", "payment", "month"}, NEW d \in Int,
               entries' = entries \cup {[key |-> key, delta |-> d]}, \A e \in entries : e.key # key
        PROVE  Books'
    <3> DEFINE e0 == [key |-> key, delta |-> d]
    <3>1. e0.key = key /\ e0.delta = d /\ e0 \notin entries
      BY <2>3
    <3>2. entries' = entries \cup {e0}
      BY <2>3
    <3> HIDE DEF e0
    <3>3. \A c : e0.key # Reserve(c) /\ e0.key # Release(c)
      BY <2>3, <3>1, ReserveIs
    <3>4. Outstanding' = Outstanding
      BY <1>1, <3>2, <3>3, KnownMore, OutstandingStays
    <3>5. Balanced(entries \cup {e0}, Outstanding, Taken)
      <4>1. CASE key[1] = "spend"
        BY <1>4, <3>1, <4>1, BalancedSpend
      <4>2. CASE key[1] \in {"payment", "month"}
        BY <1>4, <2>1, <2>3, <3>1, <4>2, BalancedGrant
      <4> QED
        BY <2>3, <4>1, <4>2
    <3> QED
      BY <2>1, <3>2, <3>4, <3>5 DEF Books
  <2> QED
    BY <2>2, <2>3, PostedOrNot DEF Calm
<1> QED
  BY <1>3, <1>4 DEF Books

LEMMA InitBooks == Init => Books
<1> SUFFICES ASSUME Init PROVE Books
  OBVIOUS
<1>1. entries = {} /\ \A r \in Refs : ~Over(adjustments[r].status)
  BY DEF Init, Unseen, Over
<1>2. Taken = 0
  BY <1>1, TakenOfNone
<1>3. HeldOf({}) = {} /\ FundOf({}) = {} /\ OutOf({}, Outstanding) = {}
  BY DEF HeldOf, FundOf, OutOf
<1>4. Balanced({}, Outstanding, 0)
  BY <1>3, SumNone DEF Balanced
<1> QED
  BY <1>1, <1>2, <1>4 DEF Books

\* What is reserved for a request is set aside for its cycle.
LEMMA ApprovesBooks ==
  ASSUME IInv, IInv', Names, Keys, Books, Approves
  PROVE  Books'
<1> DEFINE c == request.cycle
           e0 == [key |-> Reserve(c), delta |-> -Credits]
<1>1. adjustments' = adjustments /\ RowsGrow /\ PastsGrow
  BY RowsGrowSame DEF Approves, PastsGrow
<1>2. request.status = "REQUESTED" /\ entries' = Posted(Reserve(c), -Credits)
  BY DEF Approves
<1>3. \A e \in entries : e.key # Reserve(c) /\ e.key # Release(c)
  BY <1>2, Fresh
<1>4. entries' = entries \cup {e0}
  BY <1>2, <1>3 DEF Posted, Known
<1>5. e0.key = Reserve(c) /\ e0.delta = -Credits /\ -Credits \in Int
  BY PaymentsAssumption
<1> HIDE DEF e0
<1>6. c \in 1 .. MaxCycles
  <2>1. c \in Cycles /\ c \in Nat /\ c # 0 /\ MaxCycles \in Nat
    BY <1>2, RefundsTyped, CyclesAreNaturals DEF IInv, Kept
  <2> QED
    BY <2>1 DEF Cycles
<1>7. \A r \in Refs : adjustments[r].cycle # c
  BY <1>2, UndecidedIsUnbound
<1>8. Outstanding' = Outstanding \cup {c}
  <2>1. \A k : (Known(Reserve(k))' <=> Known(Reserve(k)) \/ k = c) /\ (Known(Release(k))' <=> Known(Release(k)))
    BY <1>4, <1>5, KnownMore, ReserveIs
  <2>2. ~Known(Release(c))
    BY <1>3 DEF Known
  <2> HIDE DEF c
  <2>3. ASSUME NEW k PROVE k \in Outstanding' <=> k \in Outstanding \/ k = c
    BY <1>1, <1>6, <1>7, <2>1, <2>2 DEF Outstanding
  <2> QED
    BY <2>3
<1>9. CASE ConfirmedUnbound \/ ToldAgain
  BY <1>1, <1>4, <1>9, ExcuseStays
<1>10. CASE Balanced(entries, Outstanding, Taken)
  <2>1. Taken' = Taken /\ Taken \in Int /\ Entries(entries)
    BY <1>1, TakenStays, LedgerIs
  <2>2. Balanced(entries \cup {e0}, Outstanding \cup {c}, Taken)
    BY <1>3, <1>5, <1>10, <2>1, BalancedReserve
  <2> QED
    BY <1>4, <1>8, <2>1, <2>2 DEF Books
<1> QED
  BY <1>9, <1>10 DEF Books

LEMMA RecordedOne ==
  ASSUME IInv, NEW w \in Hands, hands[w].pc = "apply", NEW status, Recorded(w, status), NEW r \in Refs,
         r # hands[w].ref
  PROVE  adjustments'[r] = adjustments[r]
<1>1. adjustments \in [Refs -> Adjustment]
  BY DEF IInv, PaymentsTypeOK, RowsTyped
<1> QED
  BY <1>1 DEF Recorded, Record

LEMMA RecordedStays ==
  ASSUME IInv, Names, NEW w \in Hands, hands[w].pc = "apply", NEW status, Recorded(w, status)
  PROVE  RowsGrow /\ PastsGrow /\ Taken' = Taken
<1>1. \A r \in Refs : /\ Over(adjustments[r].status) <=> Over(adjustments'[r].status)
                      /\ Over(adjustments[r].status) => adjustments'[r].status = adjustments[r].status
                      /\ adjustments'[r].credit = adjustments[r].credit
                      /\ adjustments'[r].past = adjustments[r].past
                      /\ adjustments[r].cycle # 0 => adjustments'[r].cycle = adjustments[r].cycle
  BY RecordedRows
<1>2. Taken' = Taken
  BY <1>1, TakenStays
<1>3. RowsGrow /\ PastsGrow
  BY <1>1 DEF RowsGrow, PastsGrow, Over
<1> QED
  BY <1>2, <1>3

\* A confirmed row that is bound late is one that was confirmed unbound.
LEMMA RecordedBooks ==
  ASSUME IInv, Names, Pasts, Books, NEW w \in Hands, hands[w].pc = "apply", NEW status, Recorded(w, status),
         entries' = entries
  PROVE  Books'
<1>1. RowsGrow /\ PastsGrow /\ Taken' = Taken
  BY RecordedStays
<1>2. \A c : (Known(Reserve(c))' <=> Known(Reserve(c))) /\ (Known(Release(c))' <=> Known(Release(c)))
  BY DEF Known, Reserve, Release, Key
<1>3. CASE ConfirmedUnbound \/ ToldAgain
  BY <1>1, <1>3, ExcuseStays
<1>4. CASE \A r \in Refs : Over(adjustments[r].status) => adjustments'[r].cycle = adjustments[r].cycle
  <2>1. \A r \in Refs : Over(adjustments[r].status) <=> Over(adjustments'[r].status)
    BY RecordedRows
  <2>2. Outstanding' = Outstanding
    BY <1>2, <1>4, <2>1, OutstandingStays
  <2>3. CASE Balanced(entries, Outstanding, Taken)
    BY <1>1, <2>2, <2>3 DEF Books
  <2> QED
    BY <1>3, <2>3 DEF Books
<1>5. ASSUME NEW x \in Refs, Over(adjustments[x].status), adjustments'[x].cycle # adjustments[x].cycle
      PROVE  Books'
  <2>1. /\ adjustments[x].cycle = 0 /\ adjustments'[x].cycle = request.cycle
        /\ Over(adjustments'[x].status) /\ adjustments'[x].past = adjustments[x].past
    BY <1>5, RecordedRows
  <2>2. "unbound" \in adjustments'[x].past
    BY <1>5, <2>1 DEF Pasts
  <2>3. CASE Known(Reserve(request.cycle))
    <3>1. \E e \in entries' : e.key = Reserve(adjustments'[x].cycle)
      BY <2>1, <2>3 DEF Known
    <3>2. x \in Reserved'
      BY <1>5, <2>1, <3>1 DEF Reserved, Known
    <3> QED
      BY <2>2, <3>2 DEF Books, ConfirmedUnbound
  <2>4. CASE ~Known(Reserve(request.cycle))
    <3>1. ASSUME NEW c \in 1 .. MaxCycles, Known(Reserve(c))
          PROVE  (\A r \in Refs : ~(adjustments[r].cycle = c /\ Over(adjustments[r].status)))
                   <=> \A r \in Refs : ~(adjustments'[r].cycle = c /\ Over(adjustments'[r].status))
      <4>1. c # 0 /\ c # request.cycle
        BY <2>4, <3>1
      <4>2. ASSUME NEW r \in Refs
            PROVE  adjustments[r].cycle = c /\ Over(adjustments[r].status)
                     <=> adjustments'[r].cycle = c /\ Over(adjustments'[r].status)
        BY <4>1, RecordedRows
      <4> QED
        BY <4>2
    <3>2. Outstanding' = Outstanding
      BY <1>2, <3>1 DEF Outstanding
    <3>3. CASE Balanced(entries, Outstanding, Taken)
      BY <1>1, <3>2, <3>3 DEF Books
    <3> QED
      BY <1>3, <3>3 DEF Books
  <2> QED
    BY <2>3, <2>4
<1> QED
  BY <1>4, <1>5

\* What is reserved under one key is one entry.
LEMMA ReservedOnce ==
  ASSUME IInv, Keys, NEW c, Known(Reserve(c))
  PROVE  \E e \in entries : /\ e.key = Reserve(c) /\ e.delta \in Int
                            /\ \A f \in entries : f.key = Reserve(c) => f = e
                            /\ Sum({f \in entries : f.key = Reserve(c)}) = e.delta
<1>1. PICK e \in entries : e.key = Reserve(c)
  BY DEF Known
<1>2. \A f \in entries : f.key = Reserve(c) => f = e
  BY <1>1 DEF Keys, KeysIn
<1>3. e.delta \in Int
  BY LedgerIs DEF Entries
<1>4. {f \in entries : f.key = Reserve(c)} = {} \cup {e}
  BY <1>1, <1>2
<1>5. Entries({})
  BY FS_EmptySet DEF Entries
<1>6. Sum({} \cup {e}) = Sum({}) + e.delta
  BY <1>3, <1>5, SumAdd
<1>7. Sum({} \cup {e}) = e.delta
  BY <1>3, <1>6, SumNone
<1> QED
  BY <1>1, <1>2, <1>3, <1>4, <1>7

\* A failure returns what is set aside for its request.
LEMMA ReturnsBooks ==
  ASSUME IInv, IInv', Names, Keys, Pasts, Books, NEW w \in Hands, hands[w].pc = "apply", NEW status,
         Recorded(w, status), Returns(w)
  PROVE  Books'
<1> DEFINE c == request.cycle
<1>1. RowsGrow /\ PastsGrow /\ Taken' = Taken
  BY RecordedStays
<1>2. Waits /\ c # 0 /\ entries' = GivenBack(c) /\ entries \subseteq entries'
  BY DEF Returns, GivenBack, Posted
<1>3. ASSUME NEW r \in Refs
      PROVE  /\ Over(adjustments[r].status) <=> Over(adjustments'[r].status)
             /\ Over(adjustments[r].status) => adjustments'[r].cycle = adjustments[r].cycle
  <2>1. CASE r # hands[w].ref
    BY <2>1, RecordedOne
  <2>2. CASE r = hands[w].ref
    <3>1. r # None
      BY PaymentsAssumption
    <3> QED
      BY <2>2, <3>1, RecordedRows DEF Returns
  <2> QED
    BY <2>1, <2>2
<1>4. CASE ConfirmedUnbound \/ ToldAgain
  BY <1>1, <1>2, <1>4, ExcuseStays
<1>5. CASE entries' = entries
  <2>1. \A k : (Known(Reserve(k))' <=> Known(Reserve(k))) /\ (Known(Release(k))' <=> Known(Release(k)))
    BY <1>5 DEF Known, Reserve, Release, Key
  <2>2. Outstanding' = Outstanding
    BY <1>3, <2>1, OutstandingStays
  <2>3. CASE Balanced(entries, Outstanding, Taken)
    BY <1>1, <1>5, <2>2, <2>3 DEF Books
  <2> QED
    BY <1>4, <2>3 DEF Books
<1>6. CASE Known(Reserve(c)) /\ ~Known(Release(c)) /\ c \notin Outstanding
  <2>1. c \in 1 .. MaxCycles
    <3>1. c \in Cycles /\ c \in Nat /\ MaxCycles \in Nat
      BY RefundsTyped, CyclesAreNaturals
    <3> QED
      BY <1>2, <3>1 DEF Cycles
  <2>2. PICK r \in Refs : adjustments[r].cycle = c /\ Over(adjustments[r].status)
    BY <1>6, <2>1 DEF Outstanding
  <2>3. "unbound" \in adjustments[r].past
    BY <1>2, <2>2 DEF Pasts
  <2>4. r \in Reserved
    BY <1>2, <1>6, <2>2 DEF Reserved
  <2> QED
    BY <1>4, <2>3, <2>4 DEF ConfirmedUnbound
<1>7. CASE /\ Known(Reserve(c)) /\ ~Known(Release(c)) /\ c \in Outstanding
           /\ Balanced(entries, Outstanding, Taken)
  <2>1. PICK e \in entries : /\ e.key = Reserve(c) /\ e.delta \in Int
                             /\ \A f \in entries : f.key = Reserve(c) => f = e
                             /\ Sum({f \in entries : f.key = Reserve(c)}) = e.delta
    BY <1>7, ReservedOnce
  <2> DEFINE e0 == [key |-> Release(c), delta |-> -e.delta]
  <2>2. entries' = entries \cup {e0} /\ e0.key = Release(c) /\ e0.delta = -e.delta
    BY <1>2, <1>7, <2>1 DEF GivenBack, Posted
  <2>3. e0 \notin entries
    BY <1>7 DEF Known
  <2> HIDE DEF e0
  <2>4. Taken \in Int /\ Entries(entries)
    BY LedgerIs
  <2>5. Balanced(entries, Outstanding \ {c}, Taken + e.delta)
    BY <1>7, <2>1, <2>4, BalancedUse
  <2>6. e0.key[1] = "release" /\ e0.delta \in Int
    BY <2>1, <2>2, ReserveIs
  <2>7. Balanced(entries \cup {e0}, Outstanding \ {c}, (Taken + e.delta) + e0.delta)
    <3> DEFINE t == Taken + e.delta
    <3>1. t \in Int /\ Balanced(entries, Outstanding \ {c}, t)
      BY <2>1, <2>4, <2>5
    <3> HIDE DEF t
    <3>2. Balanced(entries \cup {e0}, Outstanding \ {c}, t + e0.delta)
      BY <2>3, <2>4, <2>6, <3>1, BalancedMove
    <3> QED
      BY <3>2 DEF t
  <2>8. (Taken + e.delta) + e0.delta = Taken
    BY <2>1, <2>2, <2>4
  <2>9. Outstanding' = Outstanding \ {c}
    <3>1. \A k : (Known(Reserve(k))' <=> Known(Reserve(k))) /\ (Known(Release(k))' <=> Known(Release(k)) \/ k = c)
      BY <2>2, KnownMore DEF Reserve, Release, Key
    <3> HIDE DEF c
    <3>2. ASSUME NEW k \in 1 .. MaxCycles
          PROVE  (\A r \in Refs : ~(adjustments[r].cycle = k /\ Over(adjustments[r].status)))
                   <=> \A r \in Refs : ~(adjustments'[r].cycle = k /\ Over(adjustments'[r].status))
      BY <1>3
    <3>3. ASSUME NEW k PROVE k \in Outstanding' <=> k \in Outstanding /\ k # c
      BY <3>1, <3>2 DEF Outstanding
    <3> QED
      BY <3>3
  <2>10. Balanced(entries', Outstanding', Taken')
    BY <1>1, <2>2, <2>7, <2>8, <2>9
  <2> QED
    BY <2>10 DEF Books
<1>8. entries' = entries \/ (Known(Reserve(c)) /\ ~Known(Release(c)))
  BY <1>2 DEF GivenBack, Posted
<1> QED
  BY <1>4, <1>5, <1>6, <1>7, <1>8 DEF Books

LEMMA TakenNow ==
  ASSUME RowsTyped, Pasts, NEW x \in Refs
  PROVE  /\ Total(Takings, Others(x)) \in Int /\ adjustments[x].credit \in Int
         /\ Taken = adjustments[x].credit + Total(Takings, Others(x))
<1>1. Others(x) \in SUBSET Refs /\ Others(x) = OverRefs \ {x} /\ OverRefs \in SUBSET Refs
  BY OthersAre DEF OverRefs
<1>2. Total(Takings, Others(x)) \in Int
  BY <1>1, TakingsAreInts
<1>3. adjustments[x].credit \in Int
  BY DEF RowsTyped, Adjustment
<1>4. CASE Over(adjustments[x].status)
  <2>1. x \in OverRefs /\ Takings[x] = adjustments[x].credit
    BY <1>4 DEF OverRefs, Takings
  <2>2. Total(Takings, OverRefs) = Takings[x] + Total(Takings, OverRefs \ {x})
    BY <1>1, <2>1, RefsFinite, TakingsAreInts, TotalSplit
  <2> QED
    BY <1>1, <1>2, <1>3, <2>1, <2>2 DEF Taken
<1>5. CASE ~Over(adjustments[x].status)
  <2>1. OverRefs \ {x} = OverRefs
    BY <1>5 DEF OverRefs
  <2>2. adjustments[x].credit = 0
    BY <1>5 DEF Pasts
  <2> QED
    BY <1>1, <1>2, <2>1, <2>2 DEF Taken
<1> QED
  BY <1>4, <1>5

\* What a confirmation changes of the credits taken.
LEMMA ConfirmedTakes ==
  ASSUME IInv, Pasts, NEW w \in Hands, hands[w].pc = "apply", Confirms(hands[w]), NEW c, Moved(hands[w], c)
  PROVE  /\ TargetCredit(hands[w]) \in Int /\ adjustments[hands[w].ref].credit \in Int
         /\ Movement(hands[w], c) \in Int /\ Taken' \in Int
         /\ Taken' = Taken + (TargetCredit(hands[w]) - adjustments[hands[w].ref].credit)
<1> DEFINE x == hands[w].ref
           t == Total(Takings, Others(x))
<1>1. x \in Refs
  BY ConfirmedMoney
<1>2. RowsTyped
  BY DEF IInv, PaymentsTypeOK
<1>3. PICK row \in Adjustment : /\ adjustments' = [adjustments EXCEPT ![x] = row]
                                /\ row.status = IF hands[w].saw = "reversed" THEN "REVERSED" ELSE "SUCCEEDED"
                                /\ row.credit = TargetCredit(hands[w])
  BY ConfirmedRow
<1>4. Over(row.status) /\ row.credit \in Int
  BY <1>3 DEF Over, Adjustment
<1>5. Taken' = row.credit + t
  BY <1>1, <1>2, <1>3, <1>4, TakenMoves
<1>6. t \in Int /\ adjustments[x].credit \in Int /\ Taken = adjustments[x].credit + t
  BY <1>1, <1>2, TakenNow
<1>7. Movement(hands[w], c) \in Int
  BY ConfirmedRow
<1> HIDE DEF x, t
<1>8. Taken' = Taken + (row.credit - adjustments[x].credit) /\ Taken' \in Int
  BY <1>4, <1>5, <1>6
<1> QED
  BY <1>3, <1>4, <1>6, <1>7, <1>8 DEF x

\* The movement is one entry of its own, or none.
LEMMA MovedBalanced ==
  ASSUME IInv, Keys, NEW w \in Hands, hands[w].ref \in Refs, NEW c, Movement(hands[w], c) \in Int,
         NEW O, NEW t \in Int, Balanced(entries, O, t)
  PROVE  Balanced(WithMovement(hands[w], c), O, t + Movement(hands[w], c))
<1> DEFINE m == Movement(hands[w], c)
           e0 == [key |-> MoveKey(hands[w]), delta |-> m]
<1>1. /\ WithMovement(hands[w], c) = IF m = 0 THEN entries ELSE entries \cup {e0}
      /\ \A e \in entries : e.key # MoveKey(hands[w])
  BY MovementIs
<1>2. e0.key = MoveKey(hands[w]) /\ e0.delta = m
  OBVIOUS
<1>3. e0.key[1] = "move"
  BY <1>2 DEF MoveKey, Key
<1>4. e0 \notin entries /\ Entries(entries)
  BY <1>1, <1>2, LedgerIs
<1> HIDE DEF m, e0
<1>5. CASE m = 0
  <2>1. t + m = t
    BY <1>5
  <2> QED
    BY <1>1, <1>5, <2>1 DEF m
<1>6. CASE m # 0
  <2>1. Balanced(entries \cup {e0}, O, t + e0.delta)
    BY <1>2, <1>3, <1>4, BalancedMove DEF m
  <2> QED
    BY <1>1, <1>2, <1>6, <2>1 DEF m
<1> QED
  BY <1>5, <1>6

\* Whom a confirmation acts for: the one refund of its cycle.
LEMMA ActingRow ==
  ASSUME IInv, Names, NEW w \in Hands, hands[w].pc = "apply", Confirms(hands[w]),
         NEW c, c = ActsFor(hands[w], hands[w].saw = "succeeded"), Moved(hands[w], c), c # 0,
         NEW r \in Refs, adjustments[r].cycle = c
  PROVE  r = hands[w].ref
<1>1. c = request.cycle
  BY ConfirmedGrows
<1>2. request.ref = r
  BY <1>1 DEF Names
<1>3. hands[w].ref # None /\ r # None
  BY ConfirmedIs, PaymentsAssumption
<1>4. ASSUME NEW adopt \in BOOLEAN, ActsFor(hands[w], adopt) # 0
      PROVE  request.ref = hands[w].ref \/ request.ref = None
  BY <1>3, <1>4, ActorsAreKnown
<1>5. ActsFor(hands[w], hands[w].saw = "succeeded") # 0
  OBVIOUS
<1>6. (hands[w].saw = "succeeded") \in BOOLEAN
  OBVIOUS
<1>7. request.ref = hands[w].ref \/ request.ref = None
  BY <1>4, <1>5, <1>6
<1> QED
  BY <1>2, <1>3, <1>7

\* What the row's past says, unless the books are excused.
LEMMA PastSays ==
  ASSUME IInv, Pasts, NEW w \in Hands, hands[w].pc = "apply", Confirms(hands[w]),
         NEW c, c = ActsFor(hands[w], hands[w].saw = "succeeded"), Moved(hands[w], c),
         entries \subseteq entries', ~ConfirmedUnbound', ~ToldAgain',
         NEW b, b = adjustments'[hands[w].ref].cycle, b # 0, Known(Reserve(b))
  PROVE  LET a == adjustments[hands[w].ref]
         IN  /\ "unbound" \notin a.past
             /\ Over(a.status) => a.cycle = b /\ a.credit # 0
             /\ ~Over(a.status) => c = b /\ a.credit = 0
<1> DEFINE x == hands[w].ref
           a == adjustments[x]
           past == adjustments'[x].past
<1>1. x \in Refs /\ Over(adjustments'[x].status) /\ past = PastAfter(hands[w], c)
  BY ConfirmedIs
<1>2. Known(Reserve(b))'
  <2>1. \E e \in entries' : e.key = Reserve(b)
    BY DEF Known
  <2> QED
    BY <2>1 DEF Known, Reserve, Key
<1>3. x \in Reserved'
  <2>1. \E e \in entries' : e.key = Reserve(adjustments'[x].cycle)
    BY <1>2 DEF Known
  <2> QED
    BY <1>1, <2>1 DEF Reserved, Known
<1>4. "unbound" \notin past /\ "again" \notin past
  BY <1>3 DEF ConfirmedUnbound, ToldAgain
<1>5. /\ a.past \subseteq past
      /\ ~Over(a.status) => c # 0
      /\ Over(a.status) => a.credit # 0
  BY <1>1, <1>4, PastAfterIs
<1>6. Over(a.status) => a.cycle # 0
  BY <1>1, <1>4, <1>5 DEF Pasts
<1>7. a.cycle # 0 => a.cycle = b
  BY <1>1, ConfirmedGrows DEF RowsGrow
<1>8. c # 0 => c = b
  BY ConfirmedGrows
<1>9. ~Over(a.status) => a.credit = 0
  BY <1>1 DEF Pasts
<1> HIDE DEF x, a, past
<1>10. /\ "unbound" \notin a.past
       /\ Over(a.status) => a.cycle = b /\ a.credit # 0
       /\ ~Over(a.status) => c = b /\ a.credit = 0
  BY <1>4, <1>5, <1>6, <1>7, <1>8, <1>9
<1> QED
  BY <1>10 DEF a, x

\* The movement makes the row hold its share, a reservation that covers it counted in.
LEMMA ConfirmedBalanced ==
  ASSUME IInv, Names, Keys, Pasts, NEW w \in Hands, hands[w].pc = "apply", Confirms(hands[w]),
         NEW c, c = ActsFor(hands[w], hands[w].saw = "succeeded"), Moved(hands[w], c),
         entries \subseteq entries', ~ConfirmedUnbound', ~ToldAgain',
         Balanced(entries, Outstanding, Taken)
  PROVE  Balanced(WithMovement(hands[w], c), Outstanding \ {adjustments'[hands[w].ref].cycle}, Taken')
<1> DEFINE h == hands[w]
           x == h.ref
           a == adjustments[x]
           b == adjustments'[x].cycle
           m == Movement(h, c)
           target == TargetCredit(h)
<1>1. x \in Refs
  BY ConfirmedIs
<1>2. target \in Int /\ a.credit \in Int /\ m \in Int /\ Taken' = Taken + (target - a.credit)
  BY ConfirmedTakes
<1>3. Taken \in Int /\ Entries(entries)
  BY LedgerIs
<1>4. c # 0 => c = b
  BY ConfirmedGrows
<1>5. b # 0 /\ Known(Reserve(b)) => /\ Over(a.status) => a.cycle = b /\ a.credit # 0
                                    /\ ~Over(a.status) => c = b /\ a.credit = 0
  BY PastSays
<1>6. CASE b \notin Outstanding
  <2>1. ~CoveredByReservation(h, c)
    <3> SUFFICES ASSUME CoveredByReservation(h, c) PROVE FALSE
      OBVIOUS
    <3>1. a.credit = 0 /\ c # 0 /\ Known(Reserve(c)) /\ ~Known(Release(c))
      BY DEF CoveredByReservation
    <3>2. c = b /\ ~Over(a.status)
      BY <1>4, <1>5, <3>1
    <3>3. c \in 1 .. MaxCycles
      <4>1. c = request.cycle
        BY <3>1, ConfirmedGrows
      <4>2. request.cycle \in Cycles /\ request.cycle \in Nat /\ MaxCycles \in Nat
        BY RefundsTyped, CyclesAreNaturals
      <4> QED
        BY <3>1, <4>1, <4>2 DEF Cycles
    <3>4. PICK r \in Refs : adjustments[r].cycle = c /\ Over(adjustments[r].status)
      BY <1>6, <3>1, <3>2, <3>3 DEF Outstanding
    <3>5. r = x
      BY <3>1, <3>4, ActingRow
    <3> QED
      BY <3>2, <3>4, <3>5
  <2>2. m = target - a.credit
    BY <2>1 DEF Movement, CurrentCredit
  <2>3. Balanced(WithMovement(hands[w], c), Outstanding, Taken + Movement(hands[w], c))
    BY <1>1, <1>2, <1>3, MovedBalanced
  <2>4. Outstanding \ {b} = Outstanding
    BY <1>6
  <2> HIDE DEF a, b, target
  <2>5. Taken + Movement(hands[w], c) = Taken'
    BY <1>2, <2>2
  <2>6. Balanced(WithMovement(hands[w], c), Outstanding \ {b}, Taken')
    BY <2>3, <2>4, <2>5
  <2> QED
    BY <2>6 DEF b
<1>7. CASE b \in Outstanding
  <2>1. b # 0 /\ Known(Reserve(b)) /\ ~Known(Release(b)) /\ ~(a.cycle = b /\ Over(a.status))
    BY <1>1, <1>7, CyclesAreNaturals DEF Outstanding
  <2>2. c = b /\ a.credit = 0
    BY <1>5, <2>1
  <2>3. CoveredByReservation(h, c)
    BY <2>1, <2>2 DEF CoveredByReservation
  <2>4. PICK e \in entries : /\ e.key = Reserve(c) /\ e.delta \in Int
                             /\ \A f \in entries : f.key = Reserve(c) => f = e
                             /\ Sum({f \in entries : f.key = Reserve(c)}) = e.delta
    BY <2>1, <2>2, ReservedOnce
  <2>5. m = target - e.delta
    BY <2>3, <2>4 DEF Movement, CurrentCredit
  <2>6. c \in Outstanding
    BY <1>7, <2>2
  <2>7. Balanced(entries, Outstanding \ {c}, Taken + e.delta)
    BY <1>3, <2>4, <2>6, BalancedUse
  <2> DEFINE t == Taken + e.delta
  <2>8. t \in Int
    BY <1>3, <2>4
  <2>9. Balanced(WithMovement(hands[w], c), Outstanding \ {c}, t + Movement(hands[w], c))
    <3>1. Balanced(entries, Outstanding \ {c}, t)
      BY <2>7
    <3> HIDE DEF t
    <3> QED
      BY <1>1, <1>2, <2>8, <3>1, MovedBalanced
  <2> HIDE DEF a, b, target
  <2>10. t + Movement(hands[w], c) = Taken'
    BY <1>2, <1>3, <2>2, <2>4, <2>5
  <2>11. Balanced(WithMovement(hands[w], c), Outstanding \ {b}, Taken')
    BY <2>2, <2>9, <2>10
  <2> QED
    BY <2>11 DEF b
<1> QED
  BY <1>6, <1>7

\* The rows that use up a reservation are those before, and the confirmed one.
LEMMA ConfirmedUses ==
  ASSUME IInv, NEW w \in Hands, hands[w].pc = "apply", Confirms(hands[w]),
         NEW c, c = ActsFor(hands[w], hands[w].saw = "succeeded"), Moved(hands[w], c),
         NEW k, k # 0
  PROVE  (\A r \in Refs : ~(adjustments'[r].cycle = k /\ Over(adjustments'[r].status)))
           <=> /\ k # adjustments'[hands[w].ref].cycle
               /\ \A r \in Refs : ~(adjustments[r].cycle = k /\ Over(adjustments[r].status))
<1> DEFINE x == hands[w].ref
<1>1. /\ x \in Refs /\ Over(adjustments'[x].status)
      /\ \A r \in Refs \ {x} : adjustments'[r] = adjustments[r]
  BY ConfirmedIs
<1>2. adjustments[x].cycle # 0 => adjustments'[x].cycle = adjustments[x].cycle
  BY <1>1, ConfirmedGrows DEF RowsGrow
<1> HIDE DEF x
<1>3. (\A r \in Refs : ~(adjustments'[r].cycle = k /\ Over(adjustments'[r].status)))
           <=> /\ k # adjustments'[x].cycle
               /\ \A r \in Refs : ~(adjustments[r].cycle = k /\ Over(adjustments[r].status))
  BY <1>1, <1>2
<1> QED
  BY <1>3 DEF x

LEMMA MovementKnows ==
  ASSUME IInv, Keys, NEW h, h.ref \in Refs, NEW c, NEW k, NEW E, E = WithMovement(h, c)
  PROVE  /\ (\E e \in E : e.key = Reserve(k)) <=> Known(Reserve(k))
         /\ (\E e \in E : e.key = Release(k)) <=> Known(Release(k))
<1>1. /\ E = IF Movement(h, c) = 0 THEN entries ELSE entries \cup {[key |-> MoveKey(h), delta |-> Movement(h, c)]}
  BY MovementIs
<1>2. MoveKey(h) # Reserve(k) /\ MoveKey(h) # Release(k)
  BY DEF MoveKey, Reserve, Release, Key
<1>3. E = entries \/ \E e0 : E = entries \cup {e0} /\ e0.key # Reserve(k) /\ e0.key # Release(k)
  BY <1>1, <1>2
<1> QED
  BY <1>3 DEF Known

LEMMA ConfirmedBooks ==
  ASSUME IInv, IInv', Names, Keys, Pasts, Books,
         NEW w \in Hands, hands[w].pc = "apply", Confirms(hands[w]),
         NEW c, c = ActsFor(hands[w], hands[w].saw = "succeeded"), Moved(hands[w], c),
         Contained(hands[w], c) /\ NetAfter(hands[w]) = 0 => request.cycle < MaxCycles,
         entries' = EntriesAfter(hands[w], c, NetAfter(hands[w]))
  PROVE  Books'
<1> DEFINE h == hands[w]
           x == h.ref
           b == adjustments'[x].cycle
           m == Movement(h, c)
           E == WithMovement(h, c)
<1>1. x \in Refs /\ RowsGrow
  BY ConfirmedIs, ConfirmedGrows
<1>2. PastsGrow
  <2>1. \A r \in Refs \ {x} : adjustments'[r] = adjustments[r]
    BY ConfirmedIs
  <2>2. adjustments[x].past \subseteq adjustments'[x].past
    BY ConfirmedIs, PastAfterIs
  <2> HIDE DEF x
  <2> QED
    BY <2>1, <2>2 DEF PastsGrow
<1>3. /\ E = IF m = 0 THEN entries ELSE entries \cup {[key |-> MoveKey(h), delta |-> m]}
      /\ \A e \in entries : e.key # MoveKey(h)
  BY <1>1, MovementIs
<1> DEFINE n == request.cycle + 1
           e0 == [key |-> Reserve(n), delta |-> -Funded]
<1>4. \/ entries' = E
      \/ entries' = E \cup {e0} /\ Contained(h, c) /\ NetAfter(h) = 0
  BY DEF EntriesAfter
<1>5. entries \subseteq entries'
  BY <1>3, <1>4
<1>6. CASE ConfirmedUnbound \/ ToldAgain
  BY <1>1, <1>2, <1>5, <1>6, ExcuseStays
<1>7. CASE ConfirmedUnbound' \/ ToldAgain'
  BY <1>7 DEF Books
<1>8. CASE Balanced(entries, Outstanding, Taken) /\ ~ConfirmedUnbound' /\ ~ToldAgain'
  <2> DEFINE O == Outstanding \ {b}
  <2>1. Balanced(E, O, Taken')
    BY <1>5, <1>8, ConfirmedBalanced
  <2>2. \A k : k # 0 =>
          ((\A r \in Refs : ~(adjustments'[r].cycle = k /\ Over(adjustments'[r].status)))
             <=> /\ k # b
                 /\ \A r \in Refs : ~(adjustments[r].cycle = k /\ Over(adjustments[r].status)))
    BY ConfirmedUses
  <2>3. \A k : /\ (\E e \in E : e.key = Reserve(k)) <=> Known(Reserve(k))
               /\ (\E e \in E : e.key = Release(k)) <=> Known(Release(k))
    BY <1>1, MovementKnows
  <2> HIDE DEF E, b, x, h
  <2>4. CASE entries' = E
    <3>1. \A k : (Known(Reserve(k))' <=> Known(Reserve(k))) /\ (Known(Release(k))' <=> Known(Release(k)))
      BY <2>3, <2>4 DEF Known, Reserve, Release, Key
    <3>2. \A k \in 1 .. MaxCycles : k \in Outstanding' <=> k \in Outstanding /\ k # b
      <4> TAKE k \in 1 .. MaxCycles
      <4>1. k # 0
        BY CyclesAreNaturals
      <4> QED
        BY <2>2, <3>1, <4>1 DEF Outstanding
    <3>3. Outstanding \subseteq 1 .. MaxCycles /\ Outstanding' \subseteq 1 .. MaxCycles
      BY DEF Outstanding
    <3>4. Outstanding' = O
      BY <3>2, <3>3
    <3> QED
      BY <2>1, <2>4, <3>4 DEF Books
  <2>5. CASE entries' = E \cup {e0} /\ Contained(h, c) /\ NetAfter(h) = 0
    <3>1. e0.key = Reserve(n) /\ e0.delta = -Funded
      OBVIOUS
    <3>2. n \in 1 .. MaxCycles /\ n \in Nat /\ n # 0
      <4>1. request.cycle < MaxCycles
        BY <2>5 DEF h
      <4>2. request.cycle \in Nat /\ MaxCycles \in Nat
        BY RefundsTyped, CyclesAreNaturals
      <4> QED
        BY <4>1, <4>2
    <3>3. ~Known(Reserve(n)) /\ ~Known(Release(n))
      BY Fresh DEF Known
    <3>4. \A f \in E : f.key # Reserve(n)
      BY <2>3, <3>3
    <3>5. \A r \in Refs : adjustments'[r].cycle # n
      <4>1. \A r \in Refs : \/ adjustments'[r].cycle = adjustments[r].cycle
                            \/ adjustments'[r].cycle = request.cycle
        BY ConfirmedBinds
      <4>2. \A r \in Refs : adjustments[r].cycle <= request.cycle /\ adjustments[r].cycle \in Nat
        BY RowNumbers DEF IInv, Rows, PaymentsTypeOK
      <4>3. request.cycle \in Nat
        BY RefundsTyped
      <4> QED
        BY <4>1, <4>2, <4>3
    <3> HIDE DEF e0
    <3>6. \A k : /\ Known(Reserve(k))' <=> (Known(Reserve(k)) \/ k = n)
                 /\ Known(Release(k))' <=> Known(Release(k))
      <4> TAKE k
      <4>1. (\E e \in entries' : e.key = Reserve(k)) <=> (\E e \in E : e.key = Reserve(k)) \/ Reserve(n) = Reserve(k)
        BY <2>5, <3>1
      <4>2. (\E e \in entries' : e.key = Release(k)) <=> (\E e \in E : e.key = Release(k)) \/ Reserve(n) = Release(k)
        BY <2>5, <3>1
      <4>3. (Reserve(n) = Reserve(k) <=> k = n) /\ Reserve(n) # Release(k)
        BY ReserveIs
      <4>4. (Known(Reserve(k))' <=> \E e \in entries' : e.key = Reserve(k))
        BY DEF Known, Reserve, Key
      <4>5. (Known(Release(k))' <=> \E e \in entries' : e.key = Release(k))
        BY DEF Known, Release, Key
      <4> QED
        BY <2>3, <4>1, <4>2, <4>3, <4>4, <4>5
    <3> HIDE DEF n
    <3>7. \A k \in 1 .. MaxCycles : k \in Outstanding' <=> (k \in Outstanding /\ k # b) \/ k = n
      <4> TAKE k \in 1 .. MaxCycles
      <4>1. k # 0
        BY CyclesAreNaturals
      <4>2. CASE k = n
        BY <3>3, <3>5, <3>6, <4>2 DEF Outstanding
      <4>3. CASE k # n
        BY <2>2, <3>6, <4>1, <4>3 DEF Outstanding
      <4> QED
        BY <4>2, <4>3
    <3>8. Outstanding \subseteq 1 .. MaxCycles /\ Outstanding' \subseteq 1 .. MaxCycles
      BY DEF Outstanding
    <3>9. Outstanding' = O \cup {n}
      BY <3>2, <3>7, <3>8
    <3>10. Entries(entries') /\ Taken' \in Int
      BY LedgerIs, ConfirmedTakes, <1>1 DEF IInv, PaymentsTypeOK, Entries, Entry
    <3>11. Entries(E)
      BY <2>5, <3>10, SubEntries
    <3>12. e0.delta \in Int
      BY <2>5, <3>10 DEF Entries
    <3>13. Balanced(E \cup {e0}, O \cup {n}, Taken')
      <4> DEFINE t == Taken'
      <4>1. Balanced(E, O, t) /\ t \in Int
        BY <2>1, <3>10
      <4> HIDE DEF O, t
      <4>2. Balanced(E \cup {e0}, O \cup {n}, t)
        BY <3>1, <3>4, <3>11, <3>12, <4>1, BalancedReserve
      <4> QED
        BY <4>2 DEF t
    <3> QED
      BY <2>5, <3>9, <3>13 DEF Books
  <2> QED
    BY <1>4, <2>4, <2>5
<1> QED
  BY <1>6, <1>7, <1>8 DEF Books

LEMMA AppliesBooks ==
  ASSUME IInv, IInv', Names, Keys, Pasts, Books, NEW w \in Hands, Apply(w) PROVE Books'
<1>1. /\ hands[w].pc = "apply"
      /\ ApplyPending(hands[w]) \/ ReleaseRefundReservation(hands[w]) \/ ApplyConfirmedAdjustment(hands[w])
  BY DEF Apply
<1>2. CASE ApplyPending(hands[w])
  BY <1>1, <1>2, PendingIs, RecordedBooks
<1>3. CASE ReleaseRefundReservation(hands[w])
  BY <1>1, <1>3, ReleaseIs, RecordedBooks, ReturnsBooks
<1>4. CASE ApplyConfirmedAdjustment(hands[w])
  <2>1. CASE UNCHANGED <<request, adjustments, entries>>
    BY <2>1, CalmBeside, CalmBooks
  <2>2. CASE /\ adjustments[hands[w].ref].status = "REVERSED" /\ UNCHANGED <<request, entries>>
             /\ Record(hands[w], [adjustments[hands[w].ref] EXCEPT !.cycle = BoundTo(hands[w], FALSE)])
    <3>1. PICK status : Recorded(w, status)
      BY <1>1, <2>2, AnswersAreRecorded
    <3> QED
      BY <1>1, <2>2, <3>1, RecordedBooks
  <2>3. ASSUME Confirms(hands[w]), NEW c, c = ActsFor(hands[w], hands[w].saw = "succeeded"), Moved(hands[w], c),
               Contained(hands[w], c) /\ NetAfter(hands[w]) = 0 => request.cycle < MaxCycles,
               entries' = EntriesAfter(hands[w], c, NetAfter(hands[w]))
        PROVE  Books'
    BY <1>1, <2>3, ConfirmedBooks
  <2> QED
    BY <1>1, <1>4, <2>1, <2>2, <2>3, ConfirmationsAre
<1> QED
  BY <1>1, <1>2, <1>3, <1>4

LEMMA BooksInductive ==
  ASSUME IInv, IInv', Names, Keys, Pasts, Books, [Next]_vars PROVE Books'
BY StepsAre, CalmBooks, ApprovesBooks, AppliesBooks

\* Books that balance over rows that hold their share are what the money says.
LEMMA BooksMatchMoney ==
  ASSUME IInv, Shares, Books
  PROVE  CreditsMatchMoneyMostly
<1>1. CASE ConfirmedUnbound \/ ToldAgain
  BY <1>1 DEF CreditsMatchMoneyMostly
<1>2. CASE Balanced(entries, Outstanding, Taken)
  <2>1. Owed(Returned) = Withheld(Net) /\ Taken = -Withheld(Net)
    BY OwedIs DEF Shares
  <2>2. HeldOf(entries) = {e \in entries : e.key[1] # "spend"}
    BY DEF HeldOf
  <2>3. Funded = Sum(FundOf(entries))
    BY DEF Funded, FundOf
  <2>4. OutOf(entries, Outstanding) = {e \in entries : \E c \in Outstanding : e.key = Reserve(c)}
    BY DEF OutOf
  <2> DEFINE held == Sum({e \in entries : e.key[1] # "spend"})
             out == Sum({e \in entries : \E c \in Outstanding : e.key = Reserve(c)})
             w == Withheld(Net)
  <2>5. Entries(entries) /\ Taken \in Int
    BY LedgerIs
  <2>6. held \in Int /\ out \in Int /\ Funded \in Int
    BY <2>2, <2>3, <2>4, <2>5, PartsAreEntries
  <2>7. w \in Int
    <3>1. Net \in Int
      BY MoneysAreInts, NetIs DEF IInv, PaymentsTypeOK, OverRefs
    <3>2. w \in 0 .. Funded
      BY <3>1, WithheldIs DEF Shares
    <3> QED
      BY <3>2
  <2>8. held = Funded + Taken + out
    BY <1>2, <2>2, <2>3, <2>4 DEF Balanced
  <2> HIDE DEF held, out, w
  <2>9. held = Funded - w + out
    BY <2>1, <2>6, <2>7, <2>8 DEF w
  <2>10. CreditsMatchMoney
    BY <2>1, <2>9 DEF CreditsMatchMoney, held, out, w
  <2> QED
    BY <2>10 DEF CreditsMatchMoneyMostly
<1> QED
  BY <1>1, <1>2 DEF Books

\* In whatever order refunds and chargebacks are confirmed, told twice, reversed or failed,
\* the ledger holds the credits paid for, less the share of the money that is away, less
\* what is set aside for a refund under way: unless an adjustment was confirmed before it was
\* bound to a cycle that reserved credits for it, or told again after it took nothing.
THEOREM CreditsCorrect == ASSUME ~Slow PROVE Spec => []CreditsMatchMoneyMostly
<1>1. Init => Shares /\ Names /\ Keys /\ Pasts /\ Books
  BY InitShares, InitNames, InitKeysAndPasts, InitBooks
<1>2. IInv /\ IInv' /\ Shares /\ [Next]_vars => Shares'
  BY SharesInductive
<1>3. IInv /\ Names /\ [Next]_vars => Names'
  BY NamesInductive
<1>4. IInv /\ IInv' /\ Names /\ Keys /\ [Next]_vars => Keys'
  BY KeysInductive
<1>5. IInv /\ Names /\ Pasts /\ [Next]_vars => Pasts'
  BY PastsInductive
<1>6. IInv /\ IInv' /\ Names /\ Keys /\ Pasts /\ Books /\ [Next]_vars => Books'
  BY BooksInductive
<1>7. IInv /\ Shares /\ Books => CreditsMatchMoneyMostly
  BY BooksMatchMoney
<1> QED
  BY <1>1, <1>2, <1>3, <1>4, <1>5, <1>6, <1>7, Invariance, PTL DEF Spec
=============================================================================
