--------------------------- MODULE SpendLedgerKept ----------------------------
(***************************************************************************)
(* FailureSlots and CountedBeforePaid for every value of the constants.    *)
(*                                                                         *)
(* First the sums: what each operation of a grant charges to a recipient,  *)
(* reserves and gives back.  The induction that a sum needs is an argument *)
(* about a smallest counterexample: strict inclusion is well founded on    *)
(* the subsets of a finite set, so a set of counterexamples has a minimal  *)
(* element, from which one element can be taken out.                       *)
(*                                                                         *)
(* Then GrantBudget alone: every operation that the pairing service        *)
(* performs on a good budget gives a good budget, and forgets no           *)
(* reservation but the one it resolves or closes.  Then the file, the      *)
(* crashes and the payments.                                               *)
(*                                                                         *)
(* Last what SpendLedgerProofs builds on: when a budget stays balanced.    *)
(***************************************************************************)
EXTENDS SpendLedger, FiniteSetTheorems, WellFoundedInduction, TLAPS

-----------------------------------------------------------------------------
(* Sums over finite sets *)

\* A non-empty set of subsets of a finite set has a minimal member.
LEMMA Smallest ==
    ASSUME NEW S, IsFiniteSet(S), NEW T, T \subseteq SUBSET S, T # {}
    PROVE  \E t \in T : \A u \in T : ~(u \subseteq t /\ u # t)
<1>1. IsWellFoundedOn(StrictSubsetOrdering(S), SUBSET S)
  BY FS_StrictSubsetOrderingWellFounded, FS_FiniteSubsetsOfFinite, Zenon
<1>2. PICK t \in T : \A u \in T : ~(<<u, t>> \in StrictSubsetOrdering(S))
  BY <1>1, WFMin, Zenon
<1>3. \A u \in T : u \subseteq t /\ u # t => <<u, t>> \in StrictSubsetOrdering(S)
  BY Zenon DEF StrictSubsetOrdering
<1>4. \A u \in T : ~(u \subseteq t /\ u # t)
  BY <1>2, <1>3, Zenon
<1> QED BY <1>4, Zenon

-----------------------------------------------------------------------------
(* The fold behind SumFunctionOnSet *)

Pick(s) == CHOOSE x \in s : TRUE

\* g gives the sum of f over every subset of S.
Solves(f, S, g) ==
    \A s \in SUBSET S : g[s] = IF s = {} THEN 0 ELSE f[Pick(s)] + g[s \ {Pick(s)}]

\* The same as one equation, the form in which the fold states it.
SumsTo(f, S, g) ==
    g = [s \in SUBSET S |-> IF s = {} THEN 0 ELSE f[Pick(s)] + g[s \ {Pick(s)}]]

\* The element that a fold takes first.
LEMMA PickIn == ASSUME NEW s, s # {} PROVE Pick(s) \in s
BY Zenon DEF Pick

\* A sum is the value, at S, of the function that its definition chooses.
LEMMA SumIs ==
    ASSUME NEW f, NEW S
    PROVE  SumFunctionOnSet(f, S) = (CHOOSE g : SumsTo(f, S, g))[S]
BY Zenon DEF SumFunctionOnSet, FoldFunctionOnSet, MapThenFoldSet, SumsTo, Pick

\* Two such functions are the same on the subsets of S.
LEMMA Agree ==
    ASSUME NEW f, NEW S, IsFiniteSet(S), NEW g, NEW h, Solves(f, S, g), Solves(f, S, h)
    PROVE  \A s \in SUBSET S : g[s] = h[s]
<1> DEFINE bad == {s \in SUBSET S : g[s] # h[s]}
<1> SUFFICES ASSUME bad # {} PROVE FALSE
  BY Zenon
<1>1. PICK t \in bad : \A u \in bad : ~(u \subseteq t /\ u # t)
  <2>1. bad \subseteq SUBSET S
    BY Zenon
  <2> HIDE DEF bad
  <2> QED BY <2>1, Smallest
<1>2. t \in SUBSET S /\ g[t] # h[t]
  BY <1>1, Zenon
<1>3. t # {}
  BY <1>2, Zenon DEF Solves
<1>4. Pick(t) \in t
  BY <1>3, PickIn, Zenon
<1> DEFINE u == t \ {Pick(t)}
<1>5. u \in SUBSET S /\ u \subseteq t /\ u # t
  BY <1>2, <1>4, Zenon
<1>6. g[u] = h[u]
  BY <1>1, <1>5, Zenon
<1>7. g[t] = f[Pick(t)] + g[u] /\ h[t] = f[Pick(t)] + h[u]
  BY <1>2, <1>3, Zenon DEF Solves
<1> QED BY <1>2, <1>6, <1>7, Zenon

\* A solution for S is one for its subsets.
LEMMA SolvesSub ==
    ASSUME NEW f, NEW S, NEW g, Solves(f, S, g), NEW T \in SUBSET S
    PROVE  Solves(f, T, g)
BY Zenon DEF Solves

\* The recursive definition has a solution.
LEMMA Solvable ==
    ASSUME NEW f, NEW S, IsFiniteSet(S)
    PROVE  \A T \in SUBSET S : \E g : Solves(f, T, g)
<1> DEFINE bad == {T \in SUBSET S : ~\E g : Solves(f, T, g)}
<1> SUFFICES ASSUME bad # {} PROVE FALSE
  BY Zenon
<1>1. PICK T \in bad : \A u \in bad : ~(u \subseteq T /\ u # T)
  <2>1. bad \subseteq SUBSET S
    BY Zenon
  <2> HIDE DEF bad
  <2> QED BY <2>1, Smallest
<1>2. T \in SUBSET S /\ ~\E g : Solves(f, T, g)
  BY <1>1, Zenon
<1>3. \A u \in SUBSET S : u \subseteq T /\ u # T => \E g : Solves(f, u, g)
  BY <1>1, Zenon
<1> DEFINE At(u) == CHOOSE g : Solves(f, u, g)
           Rest(s) == s \ {Pick(s)}
           G == [s \in SUBSET T |-> IF s = {} THEN 0 ELSE f[Pick(s)] + At(Rest(s))[Rest(s)]]
<1>4. ASSUME NEW s \in SUBSET T, s # {}
      PROVE  Rest(s) \in SUBSET S /\ Rest(s) \subseteq T /\ Rest(s) # T /\ Rest(s) \subseteq s
  BY <1>2, <1>4, PickIn, Zenon
<1>5. ASSUME NEW s \in SUBSET T, s # {}
      PROVE  Solves(f, Rest(s), At(Rest(s)))
  <2>1. \E g : Solves(f, Rest(s), g)
    BY <1>3, <1>4, <1>5, Zenon
  <2> HIDE DEF Rest
  <2> QED BY <2>1, Zenon
<1> HIDE DEF At
<1>6. ASSUME NEW s \in SUBSET T, s # {}
      PROVE  At(Rest(s))[Rest(s)] = G[Rest(s)]
  <2> DEFINE u == Rest(s)
  <2>1. u \in SUBSET T /\ u \in SUBSET S
    BY <1>4, <1>6, Zenon
  <2>2. Solves(f, u, At(u))
    BY <1>5, <1>6, Zenon
  <2> HIDE DEF Rest
  <2>3. CASE u = {}
    BY <2>1, <2>2, <2>3, Zenon DEF Solves
  <2>4. CASE u # {}
    <3> DEFINE w == Rest(u)
    <3>1. w \in SUBSET u /\ w \in SUBSET S /\ Solves(f, w, At(w))
      BY <1>4, <1>5, <2>1, <2>4, Zenon
    <3>2. Solves(f, w, At(u))
      BY <2>2, <3>1, SolvesSub, Zenon
    <3>3. IsFiniteSet(w)
      BY <3>1, FS_Subset, Zenon
    <3>4. At(u)[w] = At(w)[w]
      BY <3>1, <3>2, <3>3, Agree
    <3>5. At(u)[u] = f[Pick(u)] + At(u)[w]
      BY <2>2, <2>4, Zenon DEF Solves, Rest
    <3>6. G[u] = f[Pick(u)] + At(w)[w]
      BY <2>1, <2>4, Zenon
    <3> QED BY <3>4, <3>5, <3>6, Zenon
  <2> QED BY <2>3, <2>4, Zenon
<1>7. Solves(f, T, G)
  BY <1>6, Zenon DEF Solves
<1> QED BY <1>2, <1>7, Zenon

\* So the chosen function is a solution.
LEMMA SumSolves ==
    ASSUME NEW f, NEW S, IsFiniteSet(S)
    PROVE  \E g : Solves(f, S, g) /\ SumFunctionOnSet(f, S) = g[S]
<1>1. PICK h : Solves(f, S, h)
  BY Solvable, Zenon
<1> DEFINE k == [s \in SUBSET S |-> h[s]]
<1>2. SumsTo(f, S, k)
  <2>1. \A s \in SUBSET S : k[s] = IF s = {} THEN 0 ELSE f[Pick(s)] + k[s \ {Pick(s)}]
    BY <1>1, Zenon DEF Solves
  <2> HIDE DEF k
  <2>2. k = [s \in SUBSET S |-> k[s]]
    BY Zenon DEF k
  <2> QED BY <2>1, <2>2, Zenon DEF SumsTo
<1> DEFINE g == CHOOSE e : SumsTo(f, S, e)
<1>3. SumsTo(f, S, g)
  <2> HIDE DEF k
  <2> QED BY <1>2, Zenon
<1>4. SumFunctionOnSet(f, S) = g[S]
  BY SumIs, Zenon
<1> HIDE DEF g
<1>5. Solves(f, S, g)
  BY <1>3, Zenon DEF SumsTo, Solves
<1> QED BY <1>4, <1>5, Zenon

-----------------------------------------------------------------------------
(* What a sum is *)

\* Nothing adds up to zero.
LEMMA SumEmpty == ASSUME NEW f PROVE SumFunctionOnSet(f, {}) = 0
<1>1. PICK g : Solves(f, {}, g) /\ SumFunctionOnSet(f, {}) = g[{}]
  BY SumSolves, FS_EmptySet, Zenon
<1> QED BY <1>1, Zenon DEF Solves

\* A sum is its first element and the sum of the others.
LEMMA SumPick ==
    ASSUME NEW f, NEW S, IsFiniteSet(S), S # {}
    PROVE  SumFunctionOnSet(f, S) = f[Pick(S)] + SumFunctionOnSet(f, S \ {Pick(S)})
<1> DEFINE u == S \ {Pick(S)}
<1>1. PICK g : Solves(f, S, g) /\ SumFunctionOnSet(f, S) = g[S]
  BY SumSolves, Zenon
<1>2. u \in SUBSET S /\ IsFiniteSet(u)
  BY FS_Subset, Zenon
<1>3. g[S] = f[Pick(S)] + g[u]
  BY <1>1, Zenon DEF Solves
<1> HIDE DEF u
<1>4. PICK h : Solves(f, u, h) /\ SumFunctionOnSet(f, u) = h[u]
  BY <1>2, SumSolves, Zenon
<1>5. Solves(f, u, g)
  BY <1>1, <1>2, SolvesSub, Zenon
<1>6. g[u] = h[u]
  BY <1>2, <1>4, <1>5, Agree
<1> QED BY <1>1, <1>3, <1>4, <1>6, Zenon DEF u

\* The sum of natural numbers, and of integers.
LEMMA SumType ==
    ASSUME NEW f, NEW S, IsFiniteSet(S)
    PROVE  /\ (\A x \in S : f[x] \in Int) => SumFunctionOnSet(f, S) \in Int
           /\ (\A x \in S : f[x] \in Nat) => SumFunctionOnSet(f, S) \in Nat
<1>1. ASSUME NEW N \in {Int, Nat}, \A x \in S : f[x] \in N
      PROVE  SumFunctionOnSet(f, S) \in N
  <2> DEFINE bad == {s \in SUBSET S : SumFunctionOnSet(f, s) \notin N}
  <2> SUFFICES ASSUME bad # {} PROVE FALSE
    BY Zenon
  <2>1. PICK t \in bad : \A u \in bad : ~(u \subseteq t /\ u # t)
    <3>1. bad \subseteq SUBSET S
      BY Zenon
    <3> HIDE DEF bad
    <3> QED BY <3>1, Smallest
  <2>2. t \in SUBSET S /\ SumFunctionOnSet(f, t) \notin N /\ IsFiniteSet(t)
    BY <2>1, FS_Subset, Zenon
  <2>3. t # {}
    BY <2>2, SumEmpty
  <2> DEFINE u == t \ {Pick(t)}
  <2>4. Pick(t) \in t /\ u \in SUBSET S /\ u \subseteq t /\ u # t
    BY <2>2, <2>3, PickIn, Zenon
  <2>5. SumFunctionOnSet(f, u) \in N /\ f[Pick(t)] \in N
    BY <1>1, <2>1, <2>2, <2>4, Zenon
  <2>6. SumFunctionOnSet(f, t) = f[Pick(t)] + SumFunctionOnSet(f, u)
    BY <2>2, <2>3, SumPick, Zenon
  <2> HIDE DEF u
  <2> QED BY <2>2, <2>5, <2>6
<1> QED BY <1>1, Zenon

\* Any element may be taken out first.
LEMMA SumTake ==
    ASSUME NEW f, NEW S, IsFiniteSet(S), \A x \in S : f[x] \in Int, NEW x \in S
    PROVE  SumFunctionOnSet(f, S) = f[x] + SumFunctionOnSet(f, S \ {x})
<1> DEFINE Takes(s) == \A y \in s : SumFunctionOnSet(f, s) = f[y] + SumFunctionOnSet(f, s \ {y})
           bad == {s \in SUBSET S : ~Takes(s)}
<1> SUFFICES ASSUME bad # {} PROVE FALSE
  BY Zenon
<1>1. PICK t \in bad : \A u \in bad : ~(u \subseteq t /\ u # t)
  <2>1. bad \subseteq SUBSET S
    BY Zenon
  <2> HIDE DEF bad
  <2> QED BY <2>1, Smallest
<1>2. t \in SUBSET S /\ ~Takes(t) /\ IsFiniteSet(t)
  BY <1>1, FS_Subset, Zenon
<1>3. PICK y \in t : SumFunctionOnSet(f, t) # f[y] + SumFunctionOnSet(f, t \ {y})
  BY <1>2, Zenon
<1> DEFINE p == Pick(t)
           u == t \ {p}
           v == t \ {y}
           w == t \ {y, p}
<1>4. p \in t /\ SumFunctionOnSet(f, t) = f[p] + SumFunctionOnSet(f, u)
  BY <1>2, <1>3, PickIn, SumPick, Zenon
<1>5. p # y
  BY <1>3, <1>4, Zenon
<1>6. u \in SUBSET S /\ u \subseteq t /\ u # t /\ v \in SUBSET S /\ v \subseteq t /\ v # t
  BY <1>2, <1>3, <1>4, Zenon
<1>7. Takes(u) /\ Takes(v)
  BY <1>1, <1>6, Zenon
<1>8. y \in u /\ p \in v /\ u \ {y} = w /\ v \ {p} = w
  BY <1>3, <1>4, <1>5, Zenon
<1>9. SumFunctionOnSet(f, u) = f[y] + SumFunctionOnSet(f, w) /\ SumFunctionOnSet(f, v) = f[p] + SumFunctionOnSet(f, w)
  BY <1>7, <1>8, Zenon
<1>10. f[p] \in Int /\ f[y] \in Int /\ SumFunctionOnSet(f, w) \in Int
  <2>1. IsFiniteSet(w) /\ \A z \in w : f[z] \in Int
    BY <1>2, FS_Subset, Zenon
  <2> QED BY <1>2, <1>3, <1>4, <2>1, SumType, Zenon
<1> HIDE DEF w, u, v, p
<1> QED BY <1>3, <1>4, <1>9, <1>10 DEF v

-----------------------------------------------------------------------------
(* Comparing sums *)

\* The sum of two functions is the sum of their sums.
LEMMA SumPlus ==
    ASSUME NEW S, IsFiniteSet(S), NEW f, NEW g, NEW h,
           \A x \in S : f[x] \in Int /\ g[x] \in Int /\ h[x] = f[x] + g[x]
    PROVE  SumFunctionOnSet(h, S) = SumFunctionOnSet(f, S) + SumFunctionOnSet(g, S)
<1> DEFINE bad == {s \in SUBSET S : SumFunctionOnSet(h, s) # SumFunctionOnSet(f, s) + SumFunctionOnSet(g, s)}
<1> SUFFICES ASSUME bad # {} PROVE FALSE
  BY Zenon
<1>1. PICK t \in bad : \A u \in bad : ~(u \subseteq t /\ u # t)
  <2>1. bad \subseteq SUBSET S
    BY Zenon
  <2> HIDE DEF bad
  <2> QED BY <2>1, Smallest
<1>2. t \in SUBSET S /\ IsFiniteSet(t)
      /\ SumFunctionOnSet(h, t) # SumFunctionOnSet(f, t) + SumFunctionOnSet(g, t)
  BY <1>1, FS_Subset, Zenon
<1>3. t # {}
  <2>1. SumFunctionOnSet(f, {}) = 0 /\ SumFunctionOnSet(g, {}) = 0 /\ SumFunctionOnSet(h, {}) = 0
    BY SumEmpty, Zenon
  <2>2. SumFunctionOnSet(h, {}) = SumFunctionOnSet(f, {}) + SumFunctionOnSet(g, {})
    BY <2>1
  <2> QED BY <1>2, <2>2, Zenon
<1> DEFINE p == Pick(t)
           u == t \ {p}
<1>4. p \in t /\ u \in SUBSET S /\ u \subseteq t /\ u # t /\ IsFiniteSet(u)
  BY <1>2, <1>3, PickIn, FS_Subset, Zenon
<1>5. SumFunctionOnSet(h, u) = SumFunctionOnSet(f, u) + SumFunctionOnSet(g, u)
  BY <1>1, <1>4, Zenon
<1>6. /\ SumFunctionOnSet(f, t) = f[p] + SumFunctionOnSet(f, u)
      /\ SumFunctionOnSet(g, t) = g[p] + SumFunctionOnSet(g, u)
      /\ SumFunctionOnSet(h, t) = h[p] + SumFunctionOnSet(h, u)
  <2> HIDE DEF bad
  <2> QED BY <1>2, <1>3, SumPick, Zenon
<1>7. p \in S
  BY <1>2, <1>4, Zenon
<1>8. SumFunctionOnSet(f, u) \in Int /\ SumFunctionOnSet(g, u) \in Int
  <2>1. \A x \in u : f[x] \in Int /\ g[x] \in Int
    BY <1>4, Zenon
  <2> QED BY <1>4, <2>1, SumType, Zenon
<1> HIDE DEF p, u
<1> QED BY <1>2, <1>5, <1>6, <1>7, <1>8

\* A sum of zeros.
LEMMA SumZero ==
    ASSUME NEW S, IsFiniteSet(S), NEW f, \A x \in S : f[x] = 0
    PROVE  SumFunctionOnSet(f, S) = 0
<1>1. SumFunctionOnSet(f, S) = SumFunctionOnSet(f, S) + SumFunctionOnSet(f, S)
  BY SumPlus
<1> QED BY <1>1, SumType

\* Functions that agree on the set.
LEMMA SumSame ==
    ASSUME NEW S, IsFiniteSet(S), NEW f, NEW g, \A x \in S : f[x] \in Int /\ g[x] = f[x]
    PROVE  SumFunctionOnSet(g, S) = SumFunctionOnSet(f, S)
<1> DEFINE z == [x \in S |-> 0]
<1>1. SumFunctionOnSet(z, S) = 0
  BY SumZero, Zenon
<1>2. SumFunctionOnSet(g, S) = SumFunctionOnSet(f, S) + SumFunctionOnSet(z, S)
  BY SumPlus
<1> QED BY <1>1, <1>2, SumType

\* A function that is nowhere larger.
LEMMA SumAtMost ==
    ASSUME NEW S, IsFiniteSet(S), NEW f, NEW g,
           \A x \in S : f[x] \in Int /\ g[x] \in Int /\ f[x] <= g[x]
    PROVE  SumFunctionOnSet(f, S) <= SumFunctionOnSet(g, S)
<1> DEFINE d == [x \in S |-> g[x] - f[x]]
<1>1. \A x \in S : d[x] \in Nat /\ d[x] \in Int /\ g[x] = f[x] + d[x]
  OBVIOUS
<1> HIDE DEF d
<1>2. SumFunctionOnSet(g, S) = SumFunctionOnSet(f, S) + SumFunctionOnSet(d, S)
  BY <1>1, SumPlus, Zenon
<1>3. SumFunctionOnSet(d, S) \in Nat /\ SumFunctionOnSet(f, S) \in Int
  BY <1>1, SumType, Zenon
<1> QED BY <1>2, <1>3

\* An element of a sum of natural numbers is at most the sum.
LEMMA SumHas ==
    ASSUME NEW S, IsFiniteSet(S), NEW f, \A x \in S : f[x] \in Nat, NEW x \in S
    PROVE  f[x] <= SumFunctionOnSet(f, S)
<1>1. IsFiniteSet(S \ {x}) /\ \A y \in S \ {x} : f[y] \in Nat
  BY FS_Subset, Zenon
<1>2. SumFunctionOnSet(f, S \ {x}) \in Nat
  BY <1>1, SumType, Zenon
<1>3. SumFunctionOnSet(f, S) = f[x] + SumFunctionOnSet(f, S \ {x})
  BY SumTake
<1> QED BY <1>2, <1>3

\* Two functions that differ at x only.
LEMMA SumChange ==
    ASSUME NEW S, IsFiniteSet(S), NEW f, NEW g, NEW x \in S,
           \A y \in S : f[y] \in Int /\ g[y] \in Int,
           \A y \in S \ {x} : g[y] = f[y]
    PROVE  SumFunctionOnSet(g, S) = SumFunctionOnSet(f, S) - f[x] + g[x]
<1>1. IsFiniteSet(S \ {x})
  BY FS_Subset, Zenon
<1>2. SumFunctionOnSet(f, S \ {x}) \in Int
  BY <1>1, SumType, Zenon
<1>3. SumFunctionOnSet(f, S) = f[x] + SumFunctionOnSet(f, S \ {x})
  BY SumTake
<1>4. SumFunctionOnSet(g, S) = g[x] + SumFunctionOnSet(g, S \ {x})
  BY SumTake
<1>5. SumFunctionOnSet(g, S \ {x}) = SumFunctionOnSet(f, S \ {x})
  BY <1>1, SumSame, Zenon
<1> QED BY <1>2, <1>3, <1>4, <1>5

\* Two functions that differ at x and y only.
LEMMA SumChangeTwo ==
    ASSUME NEW S, IsFiniteSet(S), NEW f \in [S -> Int], NEW g \in [S -> Int],
           NEW x \in S, NEW y \in S, x # y,
           \A z \in S \ {x, y} : g[z] = f[z]
    PROVE  SumFunctionOnSet(g, S) = SumFunctionOnSet(f, S) - f[x] + g[x] - f[y] + g[y]
<1> DEFINE T == S \ {x}
<1>1. IsFiniteSet(T) /\ y \in T /\ \A z \in T : z \in S
  BY FS_Subset, Zenon
<1>2. SumFunctionOnSet(f, T) \in Int /\ SumFunctionOnSet(g, T) \in Int
  BY <1>1, SumType, Zenon
<1>3. SumFunctionOnSet(f, S) = f[x] + SumFunctionOnSet(f, T)
  BY SumTake
<1>4. SumFunctionOnSet(g, S) = g[x] + SumFunctionOnSet(g, T)
  BY SumTake
<1>5. SumFunctionOnSet(g, T) = SumFunctionOnSet(f, T) - f[y] + g[y]
  <2>1. \A z \in T \ {y} : g[z] = f[z]
    BY Zenon
  <2> HIDE DEF T
  <2> QED BY <1>1, <2>1, SumChange
<1> HIDE DEF T
<1> QED BY <1>2, <1>3, <1>4, <1>5

-----------------------------------------------------------------------------
(* Reading a budget *)

\* The absence of a call is not a call.
LEMMA NoCall == None \notin CallSpends
BY NoneAssumption, Zenon DEF CallSpends, Seqs

\* The pairs of DrawnFor are the draws of the calls.
LEMMA DrawnForIs ==
    ASSUME NEW b \in Budgets, NEW i \in Ids
    PROVE  /\ \A h, s : <<h, s>> \in DrawnFor(b, i) <=>
                            h \in Holds /\ HasCall(b, h) /\ <<i, s>> \in b.call[h].draws
           /\ DrawnFor(b, i) \subseteq Holds \X Seqs
           /\ DrawnFor(b, i) = {} <=>
                 \A h \in Holds : HasCall(b, h) => \A d \in b.call[h].draws : d[1] # i
<1>1. ASSUME NEW h \in Holds, HasCall(b, h)
      PROVE  b.call[h].draws \subseteq Ids \X Seqs
  BY <1>1, Zenon DEF HasCall, Budgets, CallSpends
<1>2. ASSUME NEW h, NEW s
      PROVE  <<h, s>> \in DrawnFor(b, i) <=>
                    h \in Holds /\ HasCall(b, h) /\ <<i, s>> \in b.call[h].draws
  BY <1>1 DEF DrawnFor
<1>3. DrawnFor(b, i) \subseteq Holds \X Seqs
  BY <1>1 DEF DrawnFor
<1>4. DrawnFor(b, i) = {} <=>
          \A h \in Holds : HasCall(b, h) => \A d \in b.call[h].draws : d[1] # i
  <2>1. ASSUME NEW h \in Holds, HasCall(b, h), NEW d \in b.call[h].draws, d[1] = i
        PROVE  DrawnFor(b, i) # {}
    <3>1. d \in Ids \X Seqs
      BY <1>1, <2>1, Zenon
    <3>2. <<i, d[2]>> \in b.call[h].draws
      BY <2>1, <3>1
    <3>3. <<h, d[2]>> \in DrawnFor(b, i)
      BY <1>2, <2>1, <3>2, Zenon
    <3> QED BY <3>3, Zenon
  <2>2. ASSUME NEW p \in DrawnFor(b, i)
        PROVE  \E h \in Holds : HasCall(b, h) /\ \E d \in b.call[h].draws : d[1] = i
    BY Zenon DEF DrawnFor
  <2> QED BY <2>1, <2>2, Zenon
<1> QED BY <1>2, <1>3, <1>4, Zenon

\* What a call in a budget is made of.
LEMMA CallTypes ==
    ASSUME NEW b \in Budgets, NEW h \in Holds, HasCall(b, h)
    PROVE  /\ b.call[h] \in CallSpends /\ h \in Ids
           /\ b.call[h].peer \in Recipients
           /\ b.call[h].draws \subseteq Ids \X Seqs
BY LedgerAssumption, Zenon DEF HasCall, Budgets, CallSpends

\* An id without pending entries belongs to no draw.
LEMMA FreshNotDrawn ==
    ASSUME NEW b \in Budgets, Kept(b), NEW i \in Ids,
           \A r \in Recipients : b.pending[<<i, r>>] = 0
    PROVE  \A h \in Holds : HasCall(b, h) => \A d \in b.call[h].draws : d[1] \in Ids /\ d[1] # i
<1> SUFFICES ASSUME NEW h \in Holds, HasCall(b, h), NEW d \in b.call[h].draws
             PROVE  d[1] \in Ids /\ d[1] # i
  BY Zenon
<1>1. b.call[h].peer \in Recipients /\ d[1] \in Ids
  BY CallTypes, Zenon
<1>2. b.pending[<<d[1], b.call[h].peer>>] > 0
  BY <1>1 DEF Kept
<1> QED BY <1>1, <1>2

\* The charges of one recipient.
LEMMA OneType ==
    ASSUME NEW r, NEW amount \in Nat
    PROVE  One(r, amount) \in [Recipients -> Nat]
BY Zenon DEF One

\* GrantBudget::resolve moves only the used amounts.
LEMMA SettleKeeps ==
    ASSUME NEW b \in Budgets, NEW r \in Recipients, NEW x \in Nat, NEW y \in Nat
    PROVE  /\ Settle(b, r, x, y) \in Budgets
           /\ Settle(b, r, x, y).pending = b.pending
           /\ Settle(b, r, x, y).call = b.call
           /\ Settle(b, r, x, y).failures = b.failures
<1>1. CASE y <= x
  <2> DEFINE u == Sub(b.used, x - y)
             v == Sub(b.usedBy[r], x - y)
  <2>1. u \in Nat /\ v \in Nat
    BY <1>1 DEF Sub, Max2, Budgets
  <2>2. [b.usedBy EXCEPT ![r] = v] \in [Recipients -> Nat]
    BY <2>1, Zenon DEF Budgets
  <2>3. Settle(b, r, x, y) = [b EXCEPT !.used = u, !.usedBy = [b.usedBy EXCEPT ![r] = v]]
    BY <1>1, Zenon DEF Settle, Budgets
  <2> HIDE DEF u, v
  <2> QED BY <2>1, <2>2, <2>3, Zenon DEF Budgets
<1>2. CASE ~(y <= x)
  <2> DEFINE u == b.used + (y - x)
             v == b.usedBy[r] + (y - x)
  <2>1. u \in Nat /\ v \in Nat
    BY <1>2 DEF Budgets
  <2>2. [b.usedBy EXCEPT ![r] = v] \in [Recipients -> Nat]
    BY <2>1, Zenon DEF Budgets
  <2>3. Settle(b, r, x, y) = [b EXCEPT !.used = u, !.usedBy = [b.usedBy EXCEPT ![r] = v]]
    BY <1>2, Zenon DEF Settle, Budgets
  <2> HIDE DEF u, v
  <2> QED BY <2>1, <2>2, <2>3, Zenon DEF Budgets
<1> QED BY <1>1, <1>2, Zenon

\* open_envelope changes limits only.
LEMMA OpenEnvelopeKeeps ==
    ASSUME NEW b \in Budgets, NEW r \in Recipients, NEW x \in Nat, NEW y \in Nat
    PROVE  /\ OpenEnvelope(b, r, x, y) \in Budgets
           /\ OpenEnvelope(b, r, x, y).pending = b.pending
           /\ OpenEnvelope(b, r, x, y).call = b.call
           /\ OpenEnvelope(b, r, x, y).failures = b.failures
<1>1. Sub(b.budget, Sub(b.cap[r], b.usedBy[r])) + x \in Nat
  BY DEF Sub, Max2, Budgets
<1>2. [b.cap EXCEPT ![r] = b.usedBy[r] + x] \in [Recipients -> Nat]
  BY DEF Budgets
<1>3. [b.perAct EXCEPT ![r] = y] \in [Recipients -> Nat]
  BY Zenon DEF Budgets
<1>4. OpenEnvelope(b, r, x, y) \in Budgets
  BY <1>1, <1>2, <1>3, Zenon DEF Budgets, OpenEnvelope
<1> QED BY <1>4, Zenon DEF Budgets, OpenEnvelope

-----------------------------------------------------------------------------
(* The amounts that GrantBudget's operations leave *)

SameLimits(b, n) == n.budget = b.budget /\ n.cap = b.cap
SameMoney(b, n)  == SameLimits(b, n) /\ n.used = b.used /\ n.usedBy = b.usedBy

\* n is charged, beyond b, what "delta" says of each recipient.
Charged(b, n, delta) ==
    /\ SameLimits(b, n) /\ n.used = b.used + Total(delta)
    /\ n.usedBy = [r \in Recipients |-> b.usedBy[r] + delta[r]]

\* What b still keeps of recipient r's money, with what was paid of it.
Keeping(b, p, r) == SumFunctionOnSet([i \in Ids |-> KeptOrPaid(b, p, <<i, r>>)], Ids)

Pays == [Cells -> [st : Statuses, amt : Nat, for : (Holds \X Seqs) \cup {None}]]

\* A charge of one recipient.
LEMMA TotalOne ==
    ASSUME NEW r \in Recipients, NEW d \in Int
    PROVE  Total(One(r, d)) = d /\ One(r, d) \in [Recipients -> Int]
<1> DEFINE f == One(r, d)
           z == [q \in Recipients |-> 0]
<1>1. \A q \in Recipients : f[q] = IF q = r THEN d ELSE 0
  BY Zenon DEF One
<1>2. SumFunctionOnSet(z, Recipients) = 0
  BY LedgerAssumption, SumZero, Zenon
<1>3. \A q \in Recipients : f[q] \in Int /\ z[q] \in Int /\ z[q] = 0
  BY <1>1
<1>4. \A q \in Recipients \ {r} : f[q] = z[q]
  BY <1>1, Zenon
<1> HIDE DEF f, z
<1>5. SumFunctionOnSet(f, Recipients) = SumFunctionOnSet(z, Recipients) - z[r] + f[r]
  BY <1>3, <1>4, LedgerAssumption, SumChange
<1>6. SumFunctionOnSet(f, Recipients) = d
  BY <1>1, <1>2, <1>3, <1>5
<1> QED BY <1>6 DEF f, Total, One

\* What is kept and paid is a number.
LEMMA KeptTypes ==
    ASSUME NEW b \in Budgets, NEW p \in Pays
    PROVE  /\ \A c \in Cells : b.pending[c] \in Nat /\ KeptOrPaid(b, p, c) \in Nat
           /\ \A r \in Recipients : b.usedBy[r] \in Nat /\ Keeping(b, p, r) \in Nat
<1>1. \A c \in Cells : b.pending[c] \in Nat /\ KeptOrPaid(b, p, c) \in Nat
  BY Zenon DEF Budgets, Pays, KeptOrPaid
<1>2. ASSUME NEW r \in Recipients
      PROVE  Keeping(b, p, r) \in Nat
  <2> DEFINE f == [i \in Ids |-> KeptOrPaid(b, p, <<i, r>>)]
  <2>1. \A i \in Ids : f[i] \in Nat
    BY <1>1, Zenon DEF Cells
  <2> HIDE DEF f
  <2>2. SumFunctionOnSet(f, Ids) \in Nat
    BY <2>1, LedgerAssumption, SumType, Zenon
  <2> QED BY <2>2, Zenon DEF f, Keeping
<1> QED BY <1>1, <1>2, Zenon DEF Budgets

\* What is kept changes with the entries of at most two reservations.
LEMMA KeepingMoves ==
    ASSUME NEW b \in Budgets, NEW n \in Budgets, NEW p \in Pays, NEW r \in Recipients,
           NEW i \in Ids, NEW j \in Ids, i # j,
           \A k \in Ids \ {i, j} : n.pending[<<k, r>>] = b.pending[<<k, r>>]
    PROVE  Keeping(n, p, r) = Keeping(b, p, r)
               - KeptOrPaid(b, p, <<i, r>>) + KeptOrPaid(n, p, <<i, r>>)
               - KeptOrPaid(b, p, <<j, r>>) + KeptOrPaid(n, p, <<j, r>>)
<1> DEFINE f == [k \in Ids |-> KeptOrPaid(b, p, <<k, r>>)]
           g == [k \in Ids |-> KeptOrPaid(n, p, <<k, r>>)]
<1>1. \A k \in Ids : f[k] = KeptOrPaid(b, p, <<k, r>>) /\ g[k] = KeptOrPaid(n, p, <<k, r>>)
  BY Zenon
<1>2. \A k \in Ids : f[k] \in Int /\ g[k] \in Int
  BY KeptTypes DEF Cells
<1>3. \A k \in Ids \ {i, j} : g[k] = f[k]
  BY Zenon DEF KeptOrPaid
<1> HIDE DEF f, g
<1>4. SumFunctionOnSet(g, Ids) = SumFunctionOnSet(f, Ids) - f[i] + g[i] - f[j] + g[j]
  <2>1. IsFiniteSet(Ids)
    BY LedgerAssumption, Zenon
  <2>2. f \in [Ids -> Int] /\ g \in [Ids -> Int]
    BY <1>2, Zenon DEF f, g
  <2> QED BY <1>3, <2>1, <2>2, SumChangeTwo
<1>5. SumFunctionOnSet(g, Ids) = Keeping(n, p, r) /\ SumFunctionOnSet(f, Ids) = Keeping(b, p, r)
  BY Zenon DEF f, g, Keeping
<1> QED BY <1>1, <1>4, <1>5, Zenon

\* What is kept for a recipient moves with the one entry of it that changes.
LEMMA KeepingMovesOne ==
    ASSUME NEW b \in Budgets, NEW n \in Budgets, NEW p \in Pays, NEW r \in Recipients, NEW i \in Ids,
           \A k \in Ids \ {i} : n.pending[<<k, r>>] = b.pending[<<k, r>>]
    PROVE  Keeping(n, p, r) = Keeping(b, p, r)
               - KeptOrPaid(b, p, <<i, r>>) + KeptOrPaid(n, p, <<i, r>>)
<1> DEFINE f == [k \in Ids |-> KeptOrPaid(b, p, <<k, r>>)]
           g == [k \in Ids |-> KeptOrPaid(n, p, <<k, r>>)]
<1>1. \A k \in Ids : f[k] = KeptOrPaid(b, p, <<k, r>>) /\ g[k] = KeptOrPaid(n, p, <<k, r>>)
  BY Zenon
<1>2. \A k \in Ids : f[k] \in Int /\ g[k] \in Int
  BY KeptTypes DEF Cells
<1>3. \A k \in Ids \ {i} : g[k] = f[k]
  BY Zenon DEF KeptOrPaid
<1> HIDE DEF f, g
<1>4. SumFunctionOnSet(g, Ids) = SumFunctionOnSet(f, Ids) - f[i] + g[i]
  BY <1>2, <1>3, LedgerAssumption, SumChange, SMTT(60)
<1>5. SumFunctionOnSet(g, Ids) = Keeping(n, p, r) /\ SumFunctionOnSet(f, Ids) = Keeping(b, p, r)
  BY Zenon DEF f, g, Keeping
<1> QED BY <1>1, <1>4, <1>5, Zenon

\* A budget that is charged what it keeps more stays tallied.
LEMMA TalliedCharged ==
    ASSUME NEW b \in Budgets, NEW n \in Budgets, NEW p \in Pays, Tallied(b, p),
           NEW delta \in [Recipients -> Int], Charged(b, n, delta),
           \A r \in Recipients : Keeping(n, p, r) = Keeping(b, p, r) + delta[r]
    PROVE  Tallied(n, p)
<1>1. /\ b.used = SumFunctionOnSet(b.usedBy, Recipients)
      /\ \A r \in Recipients : b.usedBy[r] = Keeping(b, p, r)
  BY Zenon DEF Tallied, Keeping
<1>2. \A r \in Recipients : n.usedBy[r] = b.usedBy[r] + delta[r] /\ b.usedBy[r] \in Int
  BY DEF Charged, Budgets
<1>3. SumFunctionOnSet(n.usedBy, Recipients)
        = SumFunctionOnSet(b.usedBy, Recipients) + SumFunctionOnSet(delta, Recipients)
  BY <1>2, LedgerAssumption, SumPlus
<1>4. n.used = SumFunctionOnSet(n.usedBy, Recipients)
  BY <1>1, <1>3, Zenon DEF Charged, Total
<1>5. \A r \in Recipients : n.usedBy[r] = Keeping(n, p, r)
  BY <1>1, <1>2, Zenon
<1> QED BY <1>4, <1>5, Zenon DEF Tallied, Keeping

\* The charges of a tallied budget: what a cell keeps is within the used amounts.
LEMMA KeptIsUsed ==
    ASSUME NEW b \in Budgets, NEW p \in Pays, Tallied(b, p), NEW i \in Ids, NEW r \in Recipients
    PROVE  b.pending[<<i, r>>] <= b.usedBy[r] /\ b.usedBy[r] <= b.used
<1>1. b.usedBy \in [Recipients -> Nat]
  BY Zenon DEF Budgets
<1>2. b.usedBy[r] <= b.used
  BY <1>1, LedgerAssumption, SumHas, Zenon DEF Tallied
<1> DEFINE f == [k \in Ids |-> KeptOrPaid(b, p, <<k, r>>)]
<1>3. \A k \in Ids : f[k] \in Nat /\ f[k] = KeptOrPaid(b, p, <<k, r>>)
  BY KeptTypes, Zenon DEF Cells
<1>4. b.usedBy[r] = SumFunctionOnSet(f, Ids)
  BY Zenon DEF Tallied
<1> HIDE DEF f
<1>5. f[i] <= SumFunctionOnSet(f, Ids)
  BY <1>3, LedgerAssumption, SumHas, Zenon
<1>6. b.pending[<<i, r>>] <= f[i]
  BY <1>3, KeptTypes DEF KeptOrPaid, Cells
<1>7. b.pending[<<i, r>>] \in Nat /\ f[i] \in Nat
  BY <1>3, KeptTypes, Zenon DEF Cells
<1> QED BY <1>1, <1>2, <1>4, <1>5, <1>6, <1>7

-----------------------------------------------------------------------------
(* What GrantBudget's operations do *)

\* reserve
LEMMA ReserveDoes ==
    ASSUME NEW b \in Budgets, NEW charges \in [Recipients -> Nat], NEW i \in Ids
    PROVE  LET n == Pend(Debit(b, charges), i, charges)
           IN  /\ Charged(b, n, charges) /\ n.call = b.call
               /\ \A c \in Cells : n.pending[c] = IF c[1] = i THEN charges[c[2]] ELSE b.pending[c]
BY Zenon DEF Pend, Debit, Budgets, Charged, SameLimits

\* reserve_call
LEMMA HoldDoes ==
    ASSUME NEW b \in Budgets, NEW h \in Holds, NEW r \in Recipients
    PROVE  LET n == WithHold(b, h, r)
           IN  /\ Charged(b, n, One(r, Reserved))
               /\ n.call[h] = NewCall(r) /\ \A g \in Holds \ {h} : n.call[g] = b.call[g]
               /\ \A c \in Cells : n.pending[c] = IF c[1] = h THEN One(r, Reserved)[c[2]] ELSE b.pending[c]
<1> DEFINE charges == One(r, Reserved)
           m == Pend(Debit(b, charges), h, charges)
           n == WithHold(b, h, r)
<1>1. charges \in [Recipients -> Nat] /\ h \in Ids
  BY OneType, LedgerAssumption DEF Reserved
<1> HIDE DEF charges
<1>2. /\ Charged(b, m, charges) /\ m.call = b.call
      /\ \A c \in Cells : m.pending[c] = IF c[1] = h THEN charges[c[2]] ELSE b.pending[c]
  BY <1>1, ReserveDoes
<1>3. n = [m EXCEPT !.call[h] = NewCall(r)]
  BY Zenon DEF WithHold, charges
<1>4. /\ n.budget = m.budget /\ n.cap = m.cap /\ n.used = m.used /\ n.usedBy = m.usedBy
      /\ n.pending = m.pending /\ n.call = [m.call EXCEPT ![h] = NewCall(r)]
  BY <1>3, ZenonT(60) DEF Pend, Debit, Budgets
<1>5. b.call \in [Holds -> CallSpends \cup {None}]
  BY Zenon DEF Budgets
<1> HIDE DEF m, n
<1>6. Charged(b, n, charges)
  BY <1>2, <1>4, Zenon DEF Charged, SameLimits
<1>7. n.call[h] = NewCall(r) /\ \A g \in Holds \ {h} : n.call[g] = b.call[g]
  BY <1>2, <1>4, <1>5
<1> QED BY <1>2, <1>4, <1>6, <1>7, Zenon DEF n, charges

\* the top-up of reserve_quoted_readmission
LEMMA TopUpDoes ==
    ASSUME NEW b \in Budgets, NEW i \in Ids, NEW r \in Recipients, NEW amount \in Nat
    PROVE  LET n == TopUp(b, i, r, amount)
           IN  /\ Charged(b, n, One(r, amount)) /\ n.call = b.call
               /\ \A c \in Cells : n.pending[c] = b.pending[c] + IF c = <<i, r>> THEN amount ELSE 0
<1> DEFINE n == TopUp(b, i, r, amount)
           delta == One(r, amount)
<1>1. Total(delta) = amount /\ delta \in [Recipients -> Nat] /\ <<i, r>> \in Cells
  BY TotalOne, OneType DEF Cells
<1>2. /\ b.used \in Nat /\ b.usedBy \in [Recipients -> Nat] /\ b.pending \in [Cells -> Nat]
  BY Zenon DEF Budgets
<1>3. CASE amount = 0
  <2>1. n = b
    BY <1>3, Zenon DEF TopUp
  <2>2. \A q \in Recipients : delta[q] = 0
    BY <1>3, Zenon DEF One
  <2> HIDE DEF delta
  <2>3. b.usedBy = [q \in Recipients |-> b.usedBy[q] + delta[q]]
    BY <1>2, <2>2
  <2>4. b.used = b.used + Total(delta)
    BY <1>1, <1>2, <1>3
  <2>5. Charged(b, n, delta)
    BY <2>1, <2>3, <2>4, Zenon DEF Charged, SameLimits
  <2> QED BY <1>2, <1>3, <2>1, <2>5 DEF delta
<1>4. CASE amount # 0
  <2>1. n = [Debit(b, delta) EXCEPT !.pending[<<i, r>>] = @ + amount]
    BY <1>4, Zenon DEF TopUp
  <2> HIDE DEF delta
  <2>2. Charged(b, n, delta) /\ n.call = b.call
    BY <2>1, Zenon DEF Debit, Budgets, Charged, SameLimits
  <2>3. n.pending = [b.pending EXCEPT ![<<i, r>>] = @ + amount]
    BY <2>1, Zenon DEF Debit, Budgets
  <2> QED BY <1>1, <1>2, <2>2, <2>3 DEF delta
<1> QED BY <1>3, <1>4, Zenon

\* Nothing is charged.
LEMMA SameIsCharged ==
    ASSUME NEW b \in Budgets, NEW n, SameMoney(b, n), NEW r \in Recipients
    PROVE  Charged(b, n, One(r, 0))
<1> DEFINE delta == One(r, 0)
<1>1. Total(delta) = 0 /\ \A q \in Recipients : delta[q] = 0
  BY TotalOne DEF One
<1>2. b.used \in Nat /\ b.usedBy \in [Recipients -> Nat]
  BY Zenon DEF Budgets
<1> HIDE DEF delta
<1>3. b.usedBy = [q \in Recipients |-> b.usedBy[q] + delta[q]] /\ b.used = b.used + Total(delta)
  BY <1>1, <1>2
<1>4. Charged(b, n, delta)
  BY <1>3, Zenon DEF SameMoney, Charged
<1> QED BY <1>4, Zenon DEF delta

\* resolve, when the reservation was counted.
LEMMA SettleCharges ==
    ASSUME NEW b \in Budgets, NEW r \in Recipients, NEW x \in Nat, NEW y \in Nat,
           x <= b.used, x <= b.usedBy[r], NEW d \in Int, d = y - x
    PROVE  LET n == Settle(b, r, x, y)
           IN  Charged(b, n, One(r, d)) /\ n.pending = b.pending /\ n.call = b.call
<1> DEFINE n == Settle(b, r, x, y)
           delta == One(r, d)
<1>1. b.used \in Nat /\ b.usedBy \in [Recipients -> Nat]
  BY Zenon DEF Budgets
<1>2. Total(delta) = y - x /\ \A q \in Recipients : delta[q] = IF q = r THEN y - x ELSE 0
  BY TotalOne, Zenon DEF One
<1>3. /\ n.used = b.used + (y - x) /\ n.usedBy = [b.usedBy EXCEPT ![r] = b.usedBy[r] + (y - x)]
      /\ SameLimits(b, n)
  <2>1. CASE y <= x
    <3>1. Sub(b.used, x - y) = b.used + (y - x) /\ Sub(b.usedBy[r], x - y) = b.usedBy[r] + (y - x)
      BY <1>1, <2>1 DEF Sub, Max2
    <3> QED BY <1>1, <2>1, <3>1, Zenon DEF Settle, Budgets, SameLimits
  <2>2. CASE ~(y <= x)
    BY <1>1, <2>2, Zenon DEF Settle, Budgets, SameLimits
  <2> QED BY <2>1, <2>2, Zenon
<1>4. n.pending = b.pending /\ n.call = b.call
  BY SettleKeeps, Zenon
<1> HIDE DEF n, delta
<1>5. n.usedBy = [q \in Recipients |-> b.usedBy[q] + delta[q]]
  BY <1>1, <1>2, <1>3
<1>6. Charged(b, n, delta)
  BY <1>2, <1>3, <1>5, Zenon DEF Charged
<1> QED BY <1>4, <1>6, Zenon DEF n, delta

\* l is call k after record_call_outcome.
After(k, l) ==
    /\ l \in CallSpends
    /\ l.peer = k.peer /\ l.spent = k.spent /\ l.released = k.released
    /\ l.closed = k.closed /\ l.draws = k.draws
    /\ l.recorded <=> k.recorded \/ (k.closed /\ k.draws = {})
    /\ l.paidSeqs \subseteq k.paidSeqs
    /\ ~l.recorded \/ k.recorded => l.paidSeqs = k.paidSeqs

\* record_call_outcome moves no money and leaves the other calls alone.
LEMMA RecordCallDoes ==
    ASSUME NEW b \in Budgets, NEW h \in Holds, HasCall(b, h)
    PROVE  LET n == RecordCallOutcome(b, h)
           IN  /\ SameMoney(b, n) /\ n.pending = b.pending
               /\ \A g \in Holds \ {h} : n.call[g] = b.call[g]
               /\ After(b.call[h], n.call[h])
<1> DEFINE n == RecordCallOutcome(b, h)
           k == b.call[h]
           l == [k EXCEPT !.recorded = TRUE, !.paidSeqs = {}]
           m == [b EXCEPT !.call[h] = l]
<1>0. k \in CallSpends /\ k.spent \in Nat
  BY CallTypes, Zenon DEF CallSpends
<1>1. CASE ~(k.closed /\ k.draws = {} /\ ~k.recorded)
  <2>1. n = b
    BY <1>1, Zenon DEF RecordCallOutcome
  <2> QED BY <1>0, <1>1, <2>1, Zenon DEF After, SameMoney, SameLimits
<1>2. CASE k.closed /\ k.draws = {} /\ ~k.recorded
  <2>1. l \in CallSpends /\ After(k, l)
    <3>1. l \in CallSpends
      BY <1>0, Zenon DEF CallSpends
    <3>2. /\ l.peer = k.peer /\ l.spent = k.spent /\ l.released = k.released
          /\ l.closed = k.closed /\ l.draws = k.draws /\ l.recorded /\ l.paidSeqs = {}
      BY <1>0, Zenon DEF CallSpends
    <3> HIDE DEF l
    <3> QED BY <1>2, <3>1, <3>2, Zenon DEF After
  <2> HIDE DEF l
  <2>2. /\ m \in Budgets /\ m.pending = b.pending /\ SameMoney(b, m)
        /\ m.call = [b.call EXCEPT ![h] = l]
    BY <2>1, Zenon DEF Budgets, SameMoney, SameLimits
  <2>3. n = IF k.spent > 0 \/ k.failed THEN RecordOutcome(m, k.spent) ELSE m
    BY <1>2, Zenon DEF RecordCallOutcome, l
  <2> HIDE DEF m
  <2>4. LET t == RecordOutcome(m, k.spent)
        IN  SameMoney(m, t) /\ t.pending = m.pending /\ t.call = m.call
    BY <2>2, ZenonT(60) DEF RecordOutcome, Budgets, SameMoney, SameLimits
  <2>5. SameMoney(b, n) /\ n.pending = b.pending /\ n.call = m.call
    BY <2>2, <2>3, <2>4, Zenon DEF SameMoney, SameLimits
  <2>6. n.call[h] = l /\ \A g \in Holds \ {h} : n.call[g] = b.call[g]
    BY <2>2, <2>5, Zenon DEF Budgets
  <2> HIDE DEF n
  <2> QED BY <2>1, <2>5, <2>6, Zenon DEF n
<1> QED BY <1>1, <1>2, Zenon

\* The used amounts cover the entries of b: what Tallied says of them.
Covered(b) == \A i \in Ids, r \in Recipients : b.pending[<<i, r>>] <= b.usedBy[r] /\ b.usedBy[r] <= b.used

\* resolve of a reservation of its own
LEMMA ResolveDoes ==
    ASSUME NEW b \in Budgets, Covered(b), NEW i \in Ids, NEW r \in Recipients, NEW x \in Nat
    PROVE  LET n == RecordOutcome(Settle(Consume(b, <<i, r>>), r, b.pending[<<i, r>>], x), x)
           IN  /\ Charged(b, n, One(r, x - b.pending[<<i, r>>])) /\ n.call = b.call
               /\ \A c \in Cells : n.pending[c] = IF c = <<i, r>> THEN 0 ELSE b.pending[c]
<1> DEFINE y == b.pending[<<i, r>>]
           e == Consume(b, <<i, r>>)
           t == Settle(e, r, y, x)
           n == RecordOutcome(t, x)
<1>1. /\ <<i, r>> \in Cells /\ y \in Nat /\ b.used \in Nat /\ b.usedBy[r] \in Nat
      /\ b.pending \in [Cells -> Nat]
  BY Zenon DEF Budgets, Cells
<1>2. y <= b.used /\ y <= b.usedBy[r] /\ x - y \in Int
  BY <1>1 DEF Covered
<1>3. /\ e \in Budgets /\ SameMoney(b, e) /\ e.call = b.call
      /\ e.pending = [b.pending EXCEPT ![<<i, r>>] = 0]
  BY <1>1, Zenon DEF Consume, Budgets, SameMoney, SameLimits
<1> HIDE DEF e, y
<1>4. Charged(e, t, One(r, x - y)) /\ t.pending = e.pending /\ t.call = e.call /\ t \in Budgets
  <2>1. y <= e.used /\ y <= e.usedBy[r]
    BY <1>2, <1>3, Zenon DEF SameMoney
  <2>2. t \in Budgets
    BY <1>1, <1>3, SettleKeeps, Zenon
  <2> QED BY <1>1, <1>2, <1>3, <2>1, <2>2, SettleCharges
<1> HIDE DEF t
<1>5. SameMoney(t, n) /\ n.pending = t.pending /\ n.call = t.call
  BY <1>4, ZenonT(60) DEF RecordOutcome, Budgets, SameMoney, SameLimits
<1> HIDE DEF n
<1>6. Charged(b, n, One(r, x - y))
  BY <1>3, <1>4, <1>5, Zenon DEF Charged, SameMoney, SameLimits
<1>7. \A c \in Cells : n.pending[c] = IF c = <<i, r>> THEN 0 ELSE b.pending[c]
  BY <1>1, <1>3, <1>4, <1>5, Zenon
<1> QED BY <1>3, <1>4, <1>5, <1>6, <1>7, Zenon DEF n, t, e, y

\* draw_call_spend
LEMMA DrawDoes ==
    ASSUME NEW b \in Budgets, NEW h \in Holds, HasCall(b, h), NEW i \in Ids, i # h,
           NEW s \in Seqs, NEW amount \in Nat, amount <= b.pending[<<h, b.call[h].peer>>]
    PROVE  LET n == DrawFrom(b, h, i, s, amount)
               k == b.call[h]
           IN  /\ SameMoney(b, n)
               /\ n.call[h] = [k EXCEPT !.draws = k.draws \cup {<<i, s>>}]
               /\ \A g \in Holds \ {h} : n.call[g] = b.call[g]
               /\ \A c \in Cells : n.pending[c] = IF c = <<h, k.peer>> THEN b.pending[c] - amount
                                                  ELSE IF c = <<i, k.peer>> THEN amount ELSE b.pending[c]
<1> DEFINE k == b.call[h]
           n == DrawFrom(b, h, i, s, amount)
           l == [k EXCEPT !.draws = k.draws \cup {<<i, s>>}]
<1>1. k.peer \in Recipients /\ h \in Ids
  BY CallTypes, Zenon DEF CallSpends
<1>2. /\ <<h, k.peer>> \in Cells /\ <<i, k.peer>> \in Cells /\ <<h, k.peer>> # <<i, k.peer>>
      /\ b.pending \in [Cells -> Nat] /\ b.call \in [Holds -> CallSpends \cup {None}]
  BY <1>1, Zenon DEF Cells, Budgets
<1>3. /\ n.pending = [[b.pending EXCEPT ![<<h, k.peer>>] = @ - amount] EXCEPT ![<<i, k.peer>>] = amount]
      /\ n.call = [b.call EXCEPT ![h] = l]
      /\ SameMoney(b, n)
  BY Zenon DEF DrawFrom, Budgets, SameMoney, SameLimits
<1> HIDE DEF n, l
<1>4. n.call[h] = l /\ \A g \in Holds \ {h} : n.call[g] = b.call[g]
  BY <1>2, <1>3, Zenon
<1>5. \A c \in Cells : n.pending[c] = IF c = <<h, k.peer>> THEN b.pending[c] - amount
                                     ELSE IF c = <<i, k.peer>> THEN amount ELSE b.pending[c]
  BY <1>2, <1>3, Zenon
<1> QED BY <1>3, <1>4, <1>5, Zenon DEF n, l

\* l is call k after close_call, which returned x.
Closes(k, l, x) ==
    /\ l \in CallSpends
    /\ l.peer = k.peer /\ l.spent = k.spent /\ l.released = k.released + x
    /\ l.closed /\ l.draws = k.draws
    /\ k.recorded => l.recorded
    /\ l.paidSeqs \subseteq k.paidSeqs
    /\ ~l.recorded => l.paidSeqs = k.paidSeqs

\* close_call
LEMMA CloseDoes ==
    ASSUME NEW b \in Budgets, Covered(b), NEW h \in Holds, HasCall(b, h)
    PROVE  LET n == CloseHold(b, h)
               k == b.call[h]
               x == b.pending[<<h, k.peer>>]
           IN  /\ Charged(b, n, One(k.peer, 0 - x))
               /\ Closes(k, n.call[h], x) /\ \A g \in Holds \ {h} : n.call[g] = b.call[g]
               /\ \A c \in Cells : n.pending[c] = IF c = <<h, k.peer>> THEN 0 ELSE b.pending[c]
<1> DEFINE k == b.call[h]
           x == b.pending[<<h, k.peer>>]
           l == [k EXCEPT !.closed = TRUE, !.released = k.released + x]
           m == [b EXCEPT !.pending = [b.pending EXCEPT ![<<h, k.peer>>] = 0],
                          !.call = [b.call EXCEPT ![h] = l]]
           t == Settle(m, k.peer, x, 0)
           n == CloseHold(b, h)
<1>1. k \in CallSpends /\ h \in Ids /\ k.peer \in Recipients /\ k.released \in Nat
  BY CallTypes, Zenon DEF CallSpends
<1>2. /\ <<h, k.peer>> \in Cells /\ x \in Nat /\ b.used \in Nat /\ b.usedBy[k.peer] \in Nat
      /\ b.pending \in [Cells -> Nat] /\ b.call \in [Holds -> CallSpends \cup {None}]
  BY <1>1, Zenon DEF Cells, Budgets
<1>3. /\ l \in CallSpends /\ l.peer = k.peer /\ l.recorded = k.recorded /\ l.draws = k.draws
      /\ l.closed /\ l.spent = k.spent /\ l.released = k.released + x /\ l.paidSeqs = k.paidSeqs
  <2>1. k.released + x \in Nat
    BY <1>1, <1>2
  <2> QED BY <1>1, <2>1, ZenonT(60) DEF CallSpends
<1>4. n = RecordCallOutcome(t, h)
  <2>1. [b EXCEPT !.pending[<<h, k.peer>>] = 0, !.call[h] = l] = m
    BY Zenon DEF Budgets
  <2> QED BY <2>1, Zenon DEF CloseHold
<1> HIDE DEF l
<1>5. /\ m \in Budgets /\ SameMoney(b, m) /\ m.call = [b.call EXCEPT ![h] = l]
      /\ m.pending = [b.pending EXCEPT ![<<h, k.peer>>] = 0]
  BY <1>2, <1>3, Zenon DEF Budgets, SameMoney, SameLimits
<1>6. x <= b.used /\ x <= b.usedBy[k.peer] /\ 0 - x \in Int
  BY <1>1, <1>2 DEF Covered
<1> HIDE DEF m, x
<1>7. Charged(m, t, One(k.peer, 0 - x)) /\ t.pending = m.pending /\ t.call = m.call /\ t \in Budgets
  <2>1. x <= m.used /\ x <= m.usedBy[k.peer]
    BY <1>5, <1>6, Zenon DEF SameMoney
  <2>2. 0 \in Nat
    BY Zenon
  <2> HIDE DEF k
  <2>3. t \in Budgets
    BY <1>1, <1>2, <1>5, <2>2, SettleKeeps, Zenon
  <2> QED BY <1>1, <1>2, <1>5, <1>6, <2>1, <2>2, <2>3, SettleCharges
<1> HIDE DEF t
<1>8. t.call[h] = l /\ (\A g \in Holds \ {h} : t.call[g] = b.call[g]) /\ HasCall(t, h)
  BY <1>2, <1>3, <1>5, <1>7, NoCall DEF HasCall
<1>9. /\ SameMoney(t, n) /\ n.pending = t.pending
      /\ \A g \in Holds \ {h} : n.call[g] = t.call[g]
      /\ After(l, n.call[h])
  BY <1>4, <1>7, <1>8, RecordCallDoes
<1> HIDE DEF n
<1>10. Charged(b, n, One(k.peer, 0 - x))
  BY <1>5, <1>7, <1>9, Zenon DEF Charged, SameMoney, SameLimits
<1>11. Closes(k, n.call[h], x)
  <2> DEFINE o == n.call[h]
  <2>1. /\ o \in CallSpends /\ o.peer = l.peer /\ o.spent = l.spent /\ o.released = l.released
        /\ o.closed = l.closed /\ o.draws = l.draws
        /\ (l.recorded => o.recorded) /\ o.paidSeqs \subseteq l.paidSeqs
        /\ (~o.recorded => o.paidSeqs = l.paidSeqs)
    BY <1>9, Zenon DEF After
  <2> HIDE DEF o, k
  <2>2. Closes(k, o, x)
    BY <1>3, <2>1, Zenon DEF Closes
  <2> QED BY <2>2, Zenon DEF o
<1>12. \A c \in Cells : n.pending[c] = IF c = <<h, k.peer>> THEN 0 ELSE b.pending[c]
  BY <1>2, <1>5, <1>7, <1>9
<1>13. \A g \in Holds \ {h} : n.call[g] = b.call[g]
  BY <1>8, <1>9, Zenon
<1> QED BY <1>10, <1>11, <1>12, <1>13, Zenon DEF n, x

\* resolve_call_draw in three parts: the call and the entries change, the rest
\* is settled, the outcome of a finished call is recorded.
ResolvedCall(k, i, s, reserved, x, o) ==
    [k EXCEPT !.draws = k.draws \ {<<i, s>>},
              !.failed = k.failed \/ (o = "failed" /\ x = 0),
              !.paidSeqs = k.paidSeqs \cup {y \in {s} : x > 0},
              !.spent = k.spent + x,
              !.released = k.released + (IF k.closed THEN Sub(reserved, x) ELSE 0)]
ResolvedEntries(b, h, i, r, x) ==
    LET k == b.call[h] IN
    [b.pending EXCEPT ![<<i, r>>] = 0,
                      ![<<h, k.peer>>] = b.pending[<<h, k.peer>>]
                                           + (IF k.closed THEN 0 ELSE Sub(b.pending[<<i, r>>], x))]
ResolvedDraw(b, h, i, s, r, x, o) ==
    [b EXCEPT !.pending = ResolvedEntries(b, h, i, r, x),
              !.call = [b.call EXCEPT ![h] = ResolvedCall(b.call[h], i, s, b.pending[<<i, r>>], x, o)]]
SettledDraw(b, h, i, s, r, x, o) ==
    LET k == b.call[h]
        m == ResolvedDraw(b, h, i, s, r, x, o)
    IN  IF k.closed THEN Settle(m, k.peer, b.pending[<<i, r>>], x)
        ELSE Settle(m, k.peer, 0, Sub(x, b.pending[<<i, r>>]))

\* resolve_call_draw is these parts in turn.
LEMMA ResolveDrawIs ==
    ASSUME NEW b \in Budgets, Good(b), NEW i \in Ids, NEW r \in Recipients,
           b.pending[<<i, r>>] > 0,
           NEW h \in Holds, NEW s \in Seqs, <<h, s>> \in DrawnFor(b, i),
           NEW x \in Nat, NEW o \in Statuses
    PROVE  ResolveCallDraw(Consume(b, <<i, r>>), h, i, s, b.pending[<<i, r>>], x, o)
             = RecordCallOutcome(SettledDraw(b, h, i, s, r, x, o), h)
<1> DEFINE k == b.call[h]
           reserved == b.pending[<<i, r>>]
           unused == Sub(reserved, x)
           back == IF k.closed THEN 0 ELSE unused
           l == [k EXCEPT !.draws = k.draws \ {<<i, s>>},
                          !.failed = k.failed \/ (o = "failed" /\ x = 0),
                          !.paidSeqs = k.paidSeqs \cup {y \in {s} : x > 0},
                          !.spent = k.spent + x,
                          !.released = k.released + (IF k.closed THEN unused ELSE 0)]
           p == [b.pending EXCEPT ![<<i, r>>] = 0, ![<<h, k.peer>>] = b.pending[<<h, k.peer>>] + back]
           m == [b EXCEPT !.pending = p, !.call = [b.call EXCEPT ![h] = l]]
           t == IF k.closed THEN Settle(m, k.peer, reserved, x)
                ELSE Settle(m, k.peer, 0, Sub(x, reserved))
           n == ResolveCallDraw(Consume(b, <<i, r>>), h, i, s, reserved, x, o)
<1>1. HasCall(b, h) /\ <<i, s>> \in k.draws
  BY DrawnForIs, Zenon
<1>2. /\ k \in CallSpends /\ h \in Ids /\ k.peer \in Recipients /\ k.draws \subseteq Ids \X Seqs
      /\ k.released \in Nat /\ k.spent \in Nat /\ k.failed \in BOOLEAN /\ k.paidSeqs \subseteq Seqs
  BY <1>1, CallTypes, Zenon DEF CallSpends
<1>3. r = k.peer /\ i # h /\ s \in Seqs
  <2>1. <<i, s>>[1] = i
    BY Zenon
  <2> QED BY <1>1, <1>2, <2>1 DEF Good, Kept
<1>4. /\ <<h, k.peer>> \in Cells /\ <<i, r>> \in Cells
      /\ reserved \in Nat /\ b.pending[<<h, k.peer>>] \in Nat
  BY <1>2, Zenon DEF Cells, Budgets
<1>5. unused \in Nat /\ back \in Nat /\ Sub(x, reserved) \in Nat
  BY <1>4 DEF Sub, Max2
<1> HIDE DEF unused
<1>6. /\ l \in CallSpends /\ l.peer = k.peer /\ l.recorded = k.recorded /\ l.closed = k.closed
      /\ l.draws = k.draws \ {<<i, s>>}
  <2>1. k.spent + x \in Nat /\ k.released + (IF k.closed THEN unused ELSE 0) \in Nat
    BY <1>2, <1>5
  <2>2. k.failed \/ (o = "failed" /\ x = 0) \in BOOLEAN
    BY <1>2, Zenon
  <2>3. k.paidSeqs \cup {y \in {s} : x > 0} \subseteq Seqs /\ k.draws \ {<<i, s>>} \subseteq Ids \X Seqs
    BY <1>2, <1>3, Zenon
  <2> QED BY <1>2, <2>1, <2>2, <2>3, Zenon DEF CallSpends
<1>7. p \in [Cells -> Nat] /\ \A c \in Cells :
          p[c] = IF c = <<h, k.peer>> THEN b.pending[c] + back
                 ELSE IF c = <<i, r>> THEN 0 ELSE b.pending[c]
  <2>1. b.pending[<<h, k.peer>>] + back \in Nat
    BY <1>4, <1>5
  <2> QED BY <1>3, <1>4, <2>1, Zenon DEF Budgets
<1>8. n = RecordCallOutcome(t, h)
  <2> DEFINE e == Consume(b, <<i, r>>)
             f == [e EXCEPT !.call[h] = l]
  <2>1. /\ e.call = b.call /\ e.pending = [b.pending EXCEPT ![<<i, r>>] = 0]
        /\ f = [b EXCEPT !.pending = [b.pending EXCEPT ![<<i, r>>] = 0],
                         !.call = [b.call EXCEPT ![h] = l]]
    BY Zenon DEF Budgets, Consume
  <2>2. CASE k.closed
    <3>1. b.pending \in [Cells -> Nat]
      BY Zenon DEF Budgets
    <3>2. p = [b.pending EXCEPT ![<<i, r>>] = 0]
      <4> DEFINE z == [b.pending EXCEPT ![<<i, r>>] = 0]
      <4>1. z \in [Cells -> Nat] /\ \A c \in Cells : z[c] = IF c = <<i, r>> THEN 0 ELSE b.pending[c]
        BY <1>4, <3>1, Zenon
      <4>2. <<h, k.peer>> # <<i, r>> /\ back = 0
        BY <1>3, <2>2, Zenon
      <4>3. \A c \in Cells : p[c] = z[c]
        BY <1>4, <1>7, <4>1, <4>2
      <4> HIDE DEF z, p
      <4>4. p = z
        BY <1>7, <4>1, <4>3
      <4> QED BY <4>4, Zenon DEF z
    <3>3. f = m
      BY <2>1, <3>2, Zenon
    <3>4. n = RecordCallOutcome(Settle(f, k.peer, reserved, x), h)
      BY <2>1, <2>2, ZenonT(60) DEF ResolveCallDraw, unused
    <3> QED BY <2>2, <3>3, <3>4, Zenon
  <2>3. CASE ~k.closed
    <3>1. [f EXCEPT !.pending[<<h, k.peer>>] = @ + unused] = m
      <4>1. f.pending = [b.pending EXCEPT ![<<i, r>>] = 0]
        BY <2>1, Zenon DEF Budgets
      <4>2. f.pending[<<h, k.peer>>] = b.pending[<<h, k.peer>>]
        BY <1>3, <1>4, <4>1, Zenon DEF Budgets
      <4>3. [f.pending EXCEPT ![<<h, k.peer>>] = b.pending[<<h, k.peer>>] + unused] = p
        BY <2>3, <4>1, Zenon
      <4>4. [f EXCEPT !.pending[<<h, k.peer>>] = @ + unused]
              = [f EXCEPT !.pending = [f.pending EXCEPT ![<<h, k.peer>>] = f.pending[<<h, k.peer>>] + unused]]
        BY <2>1, Zenon DEF Budgets
      <4> HIDE DEF p
      <4>5. [f EXCEPT !.pending[<<h, k.peer>>] = @ + unused] = [f EXCEPT !.pending = p]
        BY <4>2, <4>3, <4>4, Zenon
      <4>6. \A y, z : [[b EXCEPT !.pending = y, !.call = z] EXCEPT !.pending = p]
                          = [b EXCEPT !.pending = p, !.call = z]
        BY Zenon DEF Budgets
      <4>7. [f EXCEPT !.pending = p] = m
        BY <2>1, <4>6, Zenon
      <4> QED BY <4>5, <4>7, Zenon
    <3>2. n = RecordCallOutcome(Settle([f EXCEPT !.pending[<<h, k.peer>>] = @ + unused],
                                       k.peer, 0, Sub(x, reserved)), h)
      BY <2>1, <2>3, ZenonT(60) DEF ResolveCallDraw, unused
    <3> QED BY <2>3, <3>1, <3>2, Zenon
  <2> QED BY <2>2, <2>3, Zenon
<1>9. l = ResolvedCall(k, i, s, reserved, x, o)
  BY Zenon DEF ResolvedCall, unused
<1>10. p = ResolvedEntries(b, h, i, r, x)
  BY Zenon DEF ResolvedEntries, unused
<1>11. m = ResolvedDraw(b, h, i, s, r, x, o)
  BY <1>9, <1>10, Zenon DEF ResolvedDraw
<1> HIDE DEF m
<1>12. t = SettledDraw(b, h, i, s, r, x, o)
  BY <1>11, Zenon DEF SettledDraw
<1> QED BY <1>8, <1>12, Zenon

\* l is call k after its draw <<i, s>> ended: y was reserved, x paid.
EndsDraw(k, l, i, s, y, x) ==
    /\ l \in CallSpends
    /\ l.peer = k.peer /\ l.closed = k.closed /\ l.draws = k.draws \ {<<i, s>>}
    /\ l.spent = k.spent + x /\ l.released = k.released + (IF k.closed THEN Sub(y, x) ELSE 0)
    /\ k.recorded => l.recorded
    /\ l.recorded => k.recorded \/ k.closed
    /\ l.paidSeqs \subseteq k.paidSeqs \cup {z \in {s} : x > 0}
    /\ ~l.recorded => l.paidSeqs = k.paidSeqs \cup {z \in {s} : x > 0}

\* What resolve_call_draw changes: the reservation y ends as a payment of x; what
\* is left of it goes back to an open call, and to the allowance after a close.
DrawResolved(b, n, h, i, s, r, x) ==
    LET k == b.call[h]
        y == b.pending[<<i, r>>]
    IN  /\ r = k.peer /\ i # h /\ <<i, s>> \in k.draws /\ HasCall(b, h)
        /\ Charged(b, n, One(r, IF k.closed THEN x - y ELSE Sub(x, y)))
        /\ EndsDraw(k, n.call[h], i, s, y, x) /\ \A g \in Holds \ {h} : n.call[g] = b.call[g]
        /\ \A c \in Cells : n.pending[c] = IF c = <<i, r>> THEN 0
                                           ELSE IF c = <<h, r>> /\ ~k.closed THEN b.pending[c] + Sub(y, x)
                                           ELSE b.pending[c]

\* resolve_call_draw
LEMMA ResolveDrawDoes ==
    ASSUME NEW b \in Budgets, Good(b), Covered(b), NEW i \in Ids, NEW r \in Recipients,
           b.pending[<<i, r>>] > 0,
           NEW h \in Holds, NEW s \in Seqs, <<h, s>> \in DrawnFor(b, i),
           NEW x \in Nat, NEW o \in Statuses
    PROVE  DrawResolved(b, ResolveCallDraw(Consume(b, <<i, r>>), h, i, s, b.pending[<<i, r>>], x, o), h, i, s, r, x)
<1> DEFINE k == b.call[h]
           y == b.pending[<<i, r>>]
           p == ResolvedEntries(b, h, i, r, x)
           l == ResolvedCall(k, i, s, y, x, o)
           m == ResolvedDraw(b, h, i, s, r, x, o)
           t == SettledDraw(b, h, i, s, r, x, o)
           n == ResolveCallDraw(Consume(b, <<i, r>>), h, i, s, y, x, o)
           d == IF k.closed THEN x - y ELSE Sub(x, y)
<1>1. HasCall(b, h) /\ <<i, s>> \in k.draws
  BY DrawnForIs, Zenon
<1>2. /\ k \in CallSpends /\ h \in Ids /\ k.peer \in Recipients /\ k.draws \subseteq Ids \X Seqs
      /\ k.released \in Nat /\ k.spent \in Nat /\ k.failed \in BOOLEAN /\ k.paidSeqs \subseteq Seqs
  BY <1>1, CallTypes, Zenon DEF CallSpends
<1>3. r = k.peer /\ i # h
  <2>1. <<i, s>>[1] = i
    BY Zenon
  <2> QED BY <1>1, <1>2, <2>1 DEF Good, Kept
<1>4. /\ <<h, r>> \in Cells /\ <<i, r>> \in Cells /\ <<h, r>> # <<i, r>>
      /\ y \in Nat /\ b.pending[<<h, r>>] \in Nat /\ b.used \in Nat /\ b.usedBy[r] \in Nat
      /\ b.pending \in [Cells -> Nat] /\ b.call \in [Holds -> CallSpends \cup {None}]
  BY <1>2, <1>3, Zenon DEF Cells, Budgets
<1>5. Sub(y, x) \in Nat /\ Sub(x, y) \in Nat /\ d \in Int
  BY <1>4 DEF Sub, Max2
<1>6. l \in CallSpends /\ EndsDraw(k, l, i, s, y, x) /\ l.recorded = k.recorded
  <2>1. k.spent + x \in Nat /\ k.released + (IF k.closed THEN Sub(y, x) ELSE 0) \in Nat
    BY <1>2, <1>5
  <2>2. k.failed \/ (o = "failed" /\ x = 0) \in BOOLEAN
    BY <1>2, Zenon
  <2>3. k.paidSeqs \cup {z \in {s} : x > 0} \subseteq Seqs /\ k.draws \ {<<i, s>>} \subseteq Ids \X Seqs
    BY <1>2, Zenon
  <2>4. l \in CallSpends
    BY <1>2, <2>1, <2>2, <2>3, Zenon DEF CallSpends, ResolvedCall
  <2>5. /\ l.peer = k.peer /\ l.closed = k.closed /\ l.draws = k.draws \ {<<i, s>>}
        /\ l.spent = k.spent + x /\ l.released = k.released + (IF k.closed THEN Sub(y, x) ELSE 0)
        /\ l.recorded = k.recorded /\ l.paidSeqs = k.paidSeqs \cup {z \in {s} : x > 0}
    BY <1>2, Zenon DEF CallSpends, ResolvedCall
  <2> HIDE DEF l, k
  <2> QED BY <2>4, <2>5, Zenon DEF EndsDraw
<1>7. p \in [Cells -> Nat] /\ \A c \in Cells :
          p[c] = IF c = <<i, r>> THEN 0
                 ELSE IF c = <<h, r>> /\ ~k.closed THEN b.pending[c] + Sub(y, x)
                 ELSE b.pending[c]
  <2>1. p = [b.pending EXCEPT ![<<i, r>>] = 0,
                              ![<<h, r>>] = b.pending[<<h, r>>] + (IF k.closed THEN 0 ELSE Sub(y, x))]
    BY <1>3, Zenon DEF ResolvedEntries
  <2>2. b.pending[<<h, r>>] + (IF k.closed THEN 0 ELSE Sub(y, x)) \in Nat
    BY <1>4, <1>5
  <2> HIDE DEF p, k, y
  <2> QED BY <1>4, <1>5, <2>1, <2>2
<1>8. n = RecordCallOutcome(t, h)
  BY ResolveDrawIs, Zenon
<1> HIDE DEF l, p
<1>9. /\ m \in Budgets /\ SameMoney(b, m) /\ m.pending = p
      /\ m.call = [b.call EXCEPT ![h] = l]
  <2>1. m = [b EXCEPT !.pending = p, !.call = [b.call EXCEPT ![h] = l]]
    BY Zenon DEF ResolvedDraw, p, l
  <2> HIDE DEF m
  <2> QED BY <1>6, <1>7, <2>1, Zenon DEF Budgets, SameMoney, SameLimits
<1> HIDE DEF m
<1>10. Charged(m, t, One(r, d)) /\ t.pending = m.pending /\ t.call = m.call /\ t \in Budgets
  <2>1. y <= m.used /\ y <= m.usedBy[r] /\ 0 <= m.used /\ 0 <= m.usedBy[r]
    BY <1>4, <1>9 DEF Covered, SameMoney
  <2>2. t = IF k.closed THEN Settle(m, r, y, x) ELSE Settle(m, r, 0, Sub(x, y))
    BY <1>3, Zenon DEF SettledDraw, m
  <2>3. CASE k.closed
    <3>1. t = Settle(m, r, y, x) /\ d = x - y
      BY <2>2, <2>3, Zenon
    <3> HIDE DEF t, d, y, k
    <3>2. t \in Budgets
      BY <1>4, <1>9, <3>1, SettleKeeps, Zenon
    <3> QED BY <1>4, <1>5, <1>9, <2>1, <3>1, <3>2, SettleCharges
  <2>4. CASE ~k.closed
    <3> DEFINE u == Sub(x, y)
    <3>1. t = Settle(m, r, 0, u) /\ d = u - 0 /\ u \in Nat /\ 0 \in Nat
      BY <1>5, <2>2, <2>4
    <3> HIDE DEF t, d, y, k, u
    <3>2. t \in Budgets
      BY <1>4, <1>9, <3>1, SettleKeeps, Zenon
    <3> QED BY <1>4, <1>5, <1>9, <2>1, <3>1, <3>2, SettleCharges, SMTT(60)
  <2> QED BY <2>3, <2>4, Zenon
<1> HIDE DEF t
<1>11. t.call[h] = l /\ (\A g \in Holds \ {h} : t.call[g] = b.call[g]) /\ HasCall(t, h)
  BY <1>4, <1>6, <1>9, <1>10, NoCall, ZenonT(60) DEF HasCall
<1>12. /\ SameMoney(t, n) /\ n.pending = t.pending
       /\ \A g \in Holds \ {h} : n.call[g] = t.call[g]
       /\ After(l, n.call[h])
  BY <1>8, <1>10, <1>11, RecordCallDoes
<1> HIDE DEF n
<1>13. Charged(b, n, One(r, d))
  BY <1>9, <1>10, <1>12, Zenon DEF Charged, SameMoney, SameLimits
<1>14. EndsDraw(k, n.call[h], i, s, y, x)
  <2> DEFINE q == n.call[h]
  <2> HIDE DEF q, k, y
  <2>1. After(l, q)
    BY <1>12, Zenon DEF q
  <2>2. EndsDraw(k, q, i, s, y, x)
    BY <1>6, <2>1, Zenon DEF EndsDraw, After
  <2> QED BY <2>2, Zenon DEF q
<1>15. \A c \in Cells : n.pending[c] = IF c = <<i, r>> THEN 0
                                       ELSE IF c = <<h, r>> /\ ~k.closed THEN b.pending[c] + Sub(y, x)
                                       ELSE b.pending[c]
  BY <1>7, <1>9, <1>10, <1>12
<1>16. \A g \in Holds \ {h} : n.call[g] = b.call[g]
  BY <1>11, <1>12, Zenon
<1> QED BY <1>1, <1>3, <1>13, <1>14, <1>15, <1>16, Zenon DEF n, d, DrawResolved

-----------------------------------------------------------------------------
(* Counting what is unresolved *)

\* breaker_status counts finite sets.
LEMMA UnresolvedFinite ==
    ASSUME NEW b
    PROVE  /\ IsFiniteSet(UnresolvedCells(b)) /\ IsFiniteSet(UnresolvedCalls(b))
           /\ Cardinality(UnresolvedCells(b)) \in Nat
           /\ Cardinality(UnresolvedCalls(b)) \in Nat
           /\ Unresolved(b) \in Nat
<1>1. IsFiniteSet(Cells)
  BY LedgerAssumption, FS_Product, Zenon DEF Cells
<1>2. IsFiniteSet(Holds)
  BY LedgerAssumption, FS_Subset, Zenon
<1>3. IsFiniteSet(UnresolvedCells(b))
  BY <1>1, FS_Subset, Zenon DEF UnresolvedCells
<1>4. IsFiniteSet(UnresolvedCalls(b))
  BY <1>2, FS_Subset, Zenon DEF UnresolvedCalls
<1> QED BY <1>3, <1>4, FS_CardinalityType DEF Unresolved

\* What joins the unresolved payments and calls bounds the slots they need.
LEMMA MoreUnresolved ==
    ASSUME NEW a, NEW b, NEW X, NEW Y, IsFiniteSet(X), IsFiniteSet(Y),
           UnresolvedCells(a) \subseteq UnresolvedCells(b) \cup X,
           UnresolvedCalls(a) \subseteq UnresolvedCalls(b) \cup Y
    PROVE  Unresolved(a) <= Unresolved(b) + Cardinality(X) + Cardinality(Y)
<1>1. ASSUME NEW S, NEW T, NEW U, IsFiniteSet(T), IsFiniteSet(U), S \subseteq T \cup U
      PROVE  Cardinality(S) <= Cardinality(T) + Cardinality(U)
  <2>1. IsFiniteSet(T \cup U) /\ Cardinality(T \cup U) <= Cardinality(T) + Cardinality(U)
    <3>1. IsFiniteSet(T \cap U)
      BY <1>1, FS_Intersection, Zenon
    <3>2. /\ IsFiniteSet(T \cup U)
          /\ Cardinality(T \cup U) = Cardinality(T) + Cardinality(U) - Cardinality(T \cap U)
      BY <1>1, FS_Union, Zenon
    <3>3. {Cardinality(T), Cardinality(U), Cardinality(T \cap U)} \subseteq Nat
      BY <1>1, <3>1, FS_CardinalityType, Zenon
    <3> QED BY <3>2, <3>3
  <2>2. IsFiniteSet(S) /\ Cardinality(S) <= Cardinality(T \cup U)
    BY <1>1, <2>1, FS_Subset, Zenon
  <2> QED BY <1>1, <2>1, <2>2, FS_CardinalityType
<1>2. Cardinality(UnresolvedCells(a)) <= Cardinality(UnresolvedCells(b)) + Cardinality(X)
  BY <1>1, UnresolvedFinite, Zenon
<1>3. Cardinality(UnresolvedCalls(a)) <= Cardinality(UnresolvedCalls(b)) + Cardinality(Y)
  BY <1>1, UnresolvedFinite, Zenon
<1>4. Cardinality(X) \in Nat /\ Cardinality(Y) \in Nat
  BY FS_CardinalityType, Zenon
<1> QED BY <1>2, <1>3, <1>4, UnresolvedFinite DEF Unresolved

\* Fewer unresolved payments and calls need no more failure slots.
LEMMA FewerUnresolved ==
    ASSUME NEW a, NEW b,
           UnresolvedCells(a) \subseteq UnresolvedCells(b),
           UnresolvedCalls(a) \subseteq UnresolvedCalls(b)
    PROVE  Unresolved(a) <= Unresolved(b)
BY MoreUnresolved, FS_EmptySet, UnresolvedFinite

\* Only the pending entries and the calls matter for what is unresolved.
LEMMA SameEntries ==
    ASSUME NEW a, NEW b, a.pending = b.pending, a.call = b.call
    PROVE  /\ Unresolved(a) = Unresolved(b)
           /\ UnresolvedCells(a) = UnresolvedCells(b)
           /\ UnresolvedCalls(a) = UnresolvedCalls(b)
           /\ Kept(b) => Kept(a)
<1>1. \A h : HasCall(a, h) <=> HasCall(b, h)
  BY Zenon DEF HasCall
<1>2. \A i : DrawnFor(a, i) = DrawnFor(b, i)
  BY <1>1 DEF DrawnFor
<1>3. UnresolvedCells(a) = UnresolvedCells(b)
  BY <1>1, <1>2, Zenon DEF UnresolvedCells
<1>4. UnresolvedCalls(a) = UnresolvedCalls(b)
  BY <1>1, Zenon DEF UnresolvedCalls
<1>5. Kept(b) => Kept(a)
  BY <1>1 DEF Kept
<1> QED BY <1>3, <1>4, <1>5, Zenon DEF Unresolved

-----------------------------------------------------------------------------
(* Operations that leave entries and calls alone *)

\* record_outcome adds at most one failure.
LEMMA RecordOutcomeKeeps ==
    ASSUME NEW b \in Budgets, NEW x \in Nat
    PROVE  /\ RecordOutcome(b, x) \in Budgets
           /\ RecordOutcome(b, x).pending = b.pending
           /\ RecordOutcome(b, x).call = b.call
           /\ RecordOutcome(b, x).failures <= b.failures + 1
<1>1. CASE x > 0
  BY <1>1 DEF Budgets, RecordOutcome
<1>2. CASE ~(x > 0)
  <2>1. b.failures + 1 \in Nat
    BY DEF Budgets
  <2>2. (b.paused \/ b.failures + 1 >= MaxFailures) \in BOOLEAN
    BY Zenon
  <2>3. RecordOutcome(b, x) \in Budgets
    BY <1>2, <2>1, <2>2, Zenon DEF Budgets, RecordOutcome
  <2> QED BY <1>2, <2>1, <2>3 DEF Budgets, RecordOutcome
<1> QED BY <1>1, <1>2, Zenon

\* reserve_within charges the used amounts.
LEMMA DebitKeeps ==
    ASSUME NEW b \in Budgets, NEW charges \in [Recipients -> Nat], Total(charges) \in Nat
    PROVE  /\ Debit(b, charges) \in Budgets
           /\ Debit(b, charges).pending = b.pending
           /\ Debit(b, charges).call = b.call
           /\ Debit(b, charges).failures = b.failures
<1> DEFINE u == b.used + Total(charges)
           v == [r \in Recipients |-> b.usedBy[r] + charges[r]]
<1>1. u \in Nat /\ v \in [Recipients -> Nat]
  BY DEF Budgets
<1>2. Debit(b, charges) = [b EXCEPT !.used = u, !.usedBy = v]
  BY Zenon DEF Debit, Budgets
<1> HIDE DEF u, v
<1> QED BY <1>1, <1>2, Zenon DEF Budgets

\* The row of a new reservation.
LEMMA PendKeeps ==
    ASSUME NEW b \in Budgets, NEW i \in Ids, NEW charges \in [Recipients -> Nat]
    PROVE  /\ Pend(b, i, charges) \in Budgets
           /\ Pend(b, i, charges).call = b.call
           /\ Pend(b, i, charges).failures = b.failures
           /\ \A j \in Ids, r \in Recipients :
                 Pend(b, i, charges).pending[<<j, r>>] =
                     IF j = i THEN charges[r] ELSE b.pending[<<j, r>>]
<1> DEFINE p == [c \in Cells |-> IF c[1] = i THEN charges[c[2]] ELSE b.pending[c]]
<1>1. p \in [Cells -> Nat]
  BY Zenon DEF Budgets, Cells
<1>2. Pend(b, i, charges) = [b EXCEPT !.pending = p]
  BY Zenon DEF Pend, Budgets
<1>3. \A j \in Ids, r \in Recipients :
          p[<<j, r>>] = IF j = i THEN charges[r] ELSE b.pending[<<j, r>>]
  BY Zenon DEF Cells
<1> HIDE DEF p
<1> QED BY <1>1, <1>2, <1>3 DEF Budgets

-----------------------------------------------------------------------------
(* Operations that change entries or calls keep a budget good *)

\* What Fits says of the total and of the failure slots.
LEMMA FitsBounds ==
    ASSUME NEW b \in Budgets, NEW charges, NEW most, Good(b), Fits(b, charges, most)
    PROVE  /\ Total(charges) \in Nat
           /\ Count(charges) <= MaxFailures - (b.failures + Unresolved(b))
<1>1. Sub(b.budget, b.used) \in Nat
  BY DEF Sub, Max2, Budgets
<1>2. Total(charges) \in 0 .. Sub(b.budget, b.used)
  BY Zenon DEF Fits
<1>3. Count(charges) <= Sub(MaxFailures, b.failures + Unresolved(b))
  BY Zenon DEF Fits
<1>4. b.failures + Unresolved(b) \in Nat
  BY UnresolvedFinite DEF Budgets
<1>5. Sub(MaxFailures, b.failures + Unresolved(b)) = MaxFailures - (b.failures + Unresolved(b))
  BY <1>4, LedgerAssumption DEF Good, Sub, Max2
<1> QED BY <1>1, <1>2, <1>3, <1>5

\* reserve_within followed by the new pending row.
LEMMA ReserveGood ==
    ASSUME NEW b \in Budgets, Good(b), NEW i \in Ids, NEW charges \in [Recipients -> Nat],
           NEW most, Fits(b, charges, most),
           \A r \in Recipients : b.pending[<<i, r>>] = 0,
           i \in Holds => ~HasCall(b, i)
    PROVE  LET n == Pend(Debit(b, charges), i, charges)
           IN  /\ Good(n) /\ n.call = b.call
               /\ \A c \in Cells : b.pending[c] > 0 => n.pending[c] > 0
<1> DEFINE n == Pend(Debit(b, charges), i, charges)
           S == {r \in Recipients : charges[r] > 0}
           X == {<<i, r>> : r \in S}
<1>1. /\ Total(charges) \in Nat
      /\ Count(charges) <= MaxFailures - (b.failures + Unresolved(b))
  BY FitsBounds, Zenon
<1>2. /\ n \in Budgets /\ n.call = b.call /\ n.failures = b.failures
      /\ \A j \in Ids, r \in Recipients :
            n.pending[<<j, r>>] = IF j = i THEN charges[r] ELSE b.pending[<<j, r>>]
  BY <1>1, DebitKeeps, PendKeeps
<1> HIDE DEF n
<1>3. \A h : HasCall(n, h) <=> HasCall(b, h)
  BY <1>2, Zenon DEF HasCall
<1>4. \A j : DrawnFor(n, j) = DrawnFor(b, j)
  BY <1>2, <1>3, SMTT(60) DEF DrawnFor
<1>5. Kept(n)
  <2>1. ASSUME NEW h \in Holds, HasCall(b, h)
        PROVE  /\ h \in Ids /\ h # i
               /\ b.call[h].peer \in Recipients
               /\ b.call[h].draws \subseteq Ids \X Seqs
    BY <2>1, LedgerAssumption, Zenon DEF HasCall, Budgets, CallSpends
  <2>2. ASSUME NEW h \in Holds, HasCall(b, h), NEW d \in b.call[h].draws
        PROVE  d[1] \in Ids /\ d[1] # i
    <3>1. d[1] \in Ids
      BY <2>1, <2>2, Zenon
    <3>2. b.pending[<<d[1], b.call[h].peer>>] > 0
      BY <2>1, <2>2 DEF Good, Kept
    <3> QED BY <2>1, <2>2, <3>1, <3>2
  <2>3. Kept(b)
    BY Zenon DEF Good
  <2> QED BY <1>2, <1>3, <2>1, <2>2, <2>3, SMTT(60) DEF Kept
<1>6. UnresolvedCells(n) \subseteq UnresolvedCells(b) \cup X
  BY <1>2, <1>3, <1>4 DEF UnresolvedCells, Cells
<1>7. UnresolvedCalls(n) \subseteq UnresolvedCalls(b) \cup {}
  BY <1>2, <1>3, Zenon DEF UnresolvedCalls
<1>8. IsFiniteSet(X) /\ Cardinality(X) <= Count(charges)
  <2>1. IsFiniteSet(S)
    BY LedgerAssumption, FS_Subset, Zenon
  <2>2. [r \in S |-> <<i, r>>] \in Surjection(S, X)
    BY Zenon DEF Surjection
  <2> QED BY <2>1, <2>2, FS_Surjection, Zenon DEF Count
<1>9. Unresolved(n) <= Unresolved(b) + Cardinality(X) + Cardinality({})
  BY <1>6, <1>7, <1>8, FS_EmptySet, MoreUnresolved, Zenon
<1>10. n.failures + Unresolved(n) <= MaxFailures
  <2>1. Cardinality(X) \in Nat /\ Count(charges) \in Nat /\ Cardinality({}) = 0
    BY <1>8, LedgerAssumption, FS_Subset, FS_EmptySet, FS_CardinalityType, Zenon DEF Count
  <2>2. b.failures \in Nat
    BY Zenon DEF Budgets
  <2> QED BY <1>1, <1>2, <1>8, <1>9, <2>1, <2>2, UnresolvedFinite, LedgerAssumption, SMTT(60)
<1>11. \A c \in Cells : b.pending[c] > 0 => n.pending[c] > 0
  BY <1>2, SMTT(60) DEF Cells
<1> QED BY <1>2, <1>5, <1>10, <1>11, Zenon DEF Good, n

\* reserve_call_spend: the hold is one unresolved call.
LEMMA HoldGood ==
    ASSUME NEW b \in Budgets, Good(b), NEW h \in Holds, NEW r \in Recipients,
           NEW most, Fits(b, One(r, Reserved), most),
           \A q \in Recipients : b.pending[<<h, q>>] = 0,
           ~HasCall(b, h)
    PROVE  LET n == WithHold(b, h, r)
           IN  /\ Good(n)
               /\ \A g \in Holds : HasCall(n, g) <=> g = h \/ HasCall(b, g)
               /\ \A j \in Ids, q \in Recipients :
                     n.pending[<<j, q>>] = IF j = h THEN One(r, Reserved)[q] ELSE b.pending[<<j, q>>]
<1> DEFINE n == WithHold(b, h, r)
           m == Pend(Debit(b, One(r, Reserved)), h, One(r, Reserved))
<1>0. h \in Ids /\ Reserved \in Nat /\ Reserved > 0
  <2>1. PerBlock * Minutes \in Nat
    BY LedgerAssumption
  <2> QED BY <2>1, LedgerAssumption DEF Reserved
<1>1. One(r, Reserved) \in [Recipients -> Nat]
  BY <1>0, Zenon DEF One
<1>2. /\ Total(One(r, Reserved)) \in Nat
      /\ Count(One(r, Reserved)) <= MaxFailures - (b.failures + Unresolved(b))
  BY FitsBounds, Zenon
<1>3. /\ m \in Budgets /\ m.call = b.call /\ m.failures = b.failures
      /\ \A j \in Ids, q \in Recipients :
            m.pending[<<j, q>>] = IF j = h THEN One(r, Reserved)[q] ELSE b.pending[<<j, q>>]
  BY <1>0, <1>1, <1>2, DebitKeeps, PendKeeps
<1>4. NewCall(r) \in CallSpends /\ NewCall(r) # None
  <2>1. NewCall(r) \in CallSpends
    BY Zenon DEF NewCall, CallSpends
  <2> QED BY <2>1, NoCall, Zenon
<1>5. n = [m EXCEPT !.call[h] = NewCall(r)]
  BY Zenon DEF WithHold
<1> HIDE DEF n, m
<1>6. /\ n \in Budgets /\ n.pending = m.pending /\ n.failures = b.failures
      /\ n.call = [b.call EXCEPT ![h] = NewCall(r)]
  BY <1>3, <1>4, <1>5, Zenon DEF Budgets
<1>7. /\ n.call[h] = NewCall(r) /\ \A g \in Holds \ {h} : n.call[g] = b.call[g]
      /\ \A g \in Holds : HasCall(n, g) <=> g = h \/ HasCall(b, g)
  BY <1>4, <1>6, Zenon DEF Budgets, HasCall
<1>8. NewCall(r).draws = {} /\ NewCall(r).peer = r /\ ~NewCall(r).closed
  BY Zenon DEF NewCall
<1>9. \A g \in Holds : HasCall(b, g) => \A d \in b.call[g].draws : d[1] \in Ids /\ d[1] # h
  BY <1>0, FreshNotDrawn, Zenon DEF Good
<1>10. \A j \in Ids : DrawnFor(n, j) = {} <=> DrawnFor(b, j) = {}
  <2> TAKE j \in Ids
  <2>1. DrawnFor(n, j) = {} <=>
            \A g \in Holds : HasCall(n, g) => \A d \in n.call[g].draws : d[1] # j
    BY <1>6, DrawnForIs, Zenon
  <2>2. DrawnFor(b, j) = {} <=>
            \A g \in Holds : HasCall(b, g) => \A d \in b.call[g].draws : d[1] # j
    BY DrawnForIs, Zenon
  <2> QED BY <1>7, <1>8, <2>1, <2>2, Zenon
<1>11. Kept(n)
  <2>1. ASSUME NEW g \in Holds, HasCall(n, g), NEW q \in Recipients
        PROVE  n.pending[<<g, q>>] > 0 => q = n.call[g].peer /\ ~n.call[g].closed
    <3>1. CASE g = h
      <4>1. n.pending[<<h, q>>] = IF q = r THEN Reserved ELSE 0
        BY <1>0, <1>3, <1>6, Zenon DEF One
      <4>2. ~(0 > 0)
        OBVIOUS
      <4> QED BY <1>7, <1>8, <3>1, <4>1, <4>2, Zenon
    <3>2. CASE g # h
      <4>0. g \in Ids
        BY LedgerAssumption, Zenon
      <4>1. n.pending[<<g, q>>] = b.pending[<<g, q>>]
        BY <1>3, <1>6, <3>2, <4>0, Zenon
      <4>2. HasCall(b, g) /\ n.call[g] = b.call[g]
        BY <1>7, <2>1, <3>2, Zenon
      <4> QED BY <4>1, <4>2, Zenon DEF Good, Kept
    <3> QED BY <3>1, <3>2, Zenon
  <2>2. ASSUME NEW g \in Holds, HasCall(n, g), NEW d \in n.call[g].draws
        PROVE  /\ g # h /\ HasCall(b, g) /\ d \in b.call[g].draws /\ n.call[g] = b.call[g]
               /\ \A q \in Recipients : n.pending[<<d[1], q>>] > 0 <=> q = n.call[g].peer
               /\ ~(d[1] \in Holds /\ HasCall(n, d[1]))
    <3>1. g # h /\ HasCall(b, g) /\ d \in b.call[g].draws /\ n.call[g] = b.call[g]
      BY <1>7, <1>8, <2>2, Zenon
    <3>2. d[1] \in Ids /\ d[1] # h
      BY <1>9, <3>1, Zenon
    <3> QED BY <1>3, <1>6, <1>7, <3>1, <3>2 DEF Good, Kept
  <2> QED BY <2>1, <2>2 DEF Good, Kept
<1>12. UnresolvedCells(n) \subseteq UnresolvedCells(b) \cup {}
  BY <1>3, <1>6, <1>7, <1>10 DEF UnresolvedCells, Cells
<1>13. UnresolvedCalls(n) \subseteq UnresolvedCalls(b) \cup {h}
  BY <1>7, Zenon DEF UnresolvedCalls
<1>14. Unresolved(n) <= Unresolved(b) + Cardinality({}) + Cardinality({h})
  BY <1>12, <1>13, FS_EmptySet, FS_Singleton, MoreUnresolved, Zenon
<1>15. Count(One(r, Reserved)) = 1
  <2>1. {q \in Recipients : One(r, Reserved)[q] > 0} = {r}
    BY <1>0, SMTT(60) DEF One
  <2> QED BY <2>1, FS_Singleton, Zenon DEF Count
<1>16. n.failures + Unresolved(n) <= MaxFailures
  <2>1. Cardinality({}) = 0 /\ Cardinality({h}) = 1 /\ b.failures \in Nat
    BY FS_EmptySet, FS_Singleton, ZenonT(60) DEF Budgets
  <2> QED BY <1>2, <1>6, <1>14, <1>15, <2>1, UnresolvedFinite, LedgerAssumption
<1> QED BY <1>3, <1>6, <1>7, <1>11, <1>16, SMTT(60) DEF Good, n

\* reserve_quoted_readmission: the top-up joins an entry that already counts.
LEMMA TopUpGood ==
    ASSUME NEW b \in Budgets, Good(b), NEW i \in Ids, NEW r \in Recipients, NEW amount \in Nat,
           b.pending[<<i, r>>] > 0, DrawnFor(b, i) = {}, ~(i \in Holds /\ HasCall(b, i)),
           amount > 0 => Total(One(r, amount)) \in Nat
    PROVE  LET n == TopUp(b, i, r, amount)
           IN  /\ Good(n) /\ n.call = b.call
               /\ \A c \in Cells : b.pending[c] > 0 <=> n.pending[c] > 0
<1>1. CASE amount = 0
  BY <1>1, Zenon DEF TopUp
<1>2. CASE amount # 0
  <2> DEFINE n == TopUp(b, i, r, amount)
             m == Debit(b, One(r, amount))
  <2>1. m \in Budgets /\ m.pending = b.pending /\ m.call = b.call /\ m.failures = b.failures
    BY <1>2, DebitKeeps DEF One
  <2>2. n = [m EXCEPT !.pending[<<i, r>>] = @ + amount]
    BY <1>2, Zenon DEF TopUp
  <2> HIDE DEF n, m
  <2>3. <<i, r>> \in Cells
    BY Zenon DEF Cells
  <2>4. n \in Budgets /\ n.call = b.call /\ n.failures = b.failures
    <3>1. [m.pending EXCEPT ![<<i, r>>] = m.pending[<<i, r>>] + amount] \in [Cells -> Nat]
      BY <2>1, <2>3 DEF Budgets
    <3>2. n = [m EXCEPT !.pending = [m.pending EXCEPT ![<<i, r>>] = m.pending[<<i, r>>] + amount]]
      BY <2>1, <2>2, Zenon DEF Budgets
    <3> QED BY <2>1, <3>1, <3>2, Zenon DEF Budgets
  <2>5. \A c \in Cells : n.pending[c] = IF c = <<i, r>> THEN b.pending[c] + amount ELSE b.pending[c]
    BY <2>1, <2>2, <2>3, Zenon DEF Budgets
  <2>6. \A c \in Cells : b.pending[c] > 0 <=> n.pending[c] > 0
    BY <2>3, <2>5 DEF Budgets
  <2>7. \A h : HasCall(n, h) <=> HasCall(b, h)
    BY <2>4, Zenon DEF HasCall
  <2>8. \A j : DrawnFor(n, j) = DrawnFor(b, j)
    BY <2>4, <2>7, SMTT(60) DEF DrawnFor
  <2>9. Kept(n)
    <3>1. \A j \in Ids, q \in Recipients : b.pending[<<j, q>>] > 0 <=> n.pending[<<j, q>>] > 0
      BY <2>6, Zenon DEF Cells
    <3>2. \A h \in Holds : HasCall(b, h) => h \in Ids /\ \A d \in b.call[h].draws : d[1] \in Ids
      BY CallTypes, Zenon
    <3>3. ASSUME NEW g \in Holds, HasCall(n, g)
         PROVE  /\ \A q \in Recipients : n.pending[<<g, q>>] > 0 => q = n.call[g].peer /\ ~n.call[g].closed
                /\ \A d \in n.call[g].draws :
                      /\ \A q \in Recipients : n.pending[<<d[1], q>>] > 0 <=> q = n.call[g].peer
                      /\ ~(d[1] \in Holds /\ HasCall(n, d[1]))
      BY <2>4, <2>7, <3>1, <3>2, <3>3, SMTT(60) DEF Good, Kept
    <3>4. ASSUME NEW f \in Holds, NEW g \in Holds, HasCall(n, f), HasCall(n, g),
                NEW d \in n.call[f].draws, NEW e \in n.call[g].draws, d[1] = e[1]
         PROVE  f = g /\ d = e
      BY <2>4, <2>7, <3>4, SMTT(60) DEF Good, Kept
    <3> QED BY <3>3, <3>4, Zenon DEF Kept
  <2>10. UnresolvedCells(n) = UnresolvedCells(b)
    BY <2>6, <2>7, <2>8, Zenon DEF UnresolvedCells
  <2>11. UnresolvedCalls(n) = UnresolvedCalls(b)
    BY <2>4, <2>7, Zenon DEF UnresolvedCalls
  <2> QED BY <2>4, <2>6, <2>9, <2>10, <2>11, Zenon DEF Good, Unresolved, n
<1> QED BY <1>1, <1>2, Zenon

\* draw_call_spend: a draw takes no slot of its own.
LEMMA DrawGood ==
    ASSUME NEW b \in Budgets, Good(b), NEW h \in Holds, HasCall(b, h), ~b.call[h].closed,
           NEW i \in Ids, NEW s \in Seqs, NEW amount \in Nat,
           amount > 0, amount <= b.pending[<<h, b.call[h].peer>>],
           \A r \in Recipients : b.pending[<<i, r>>] = 0,
           i \in Holds => ~HasCall(b, i)
    PROVE  LET n == DrawFrom(b, h, i, s, amount)
           IN  /\ Good(n)
               /\ \A g \in Holds : HasCall(n, g) <=> HasCall(b, g)
               /\ \A c \in Cells : c[1] # h /\ b.pending[c] > 0 => n.pending[c] > 0
<1> DEFINE n == DrawFrom(b, h, i, s, amount)
           k == b.call[h]
           l == [k EXCEPT !.draws = @ \cup {<<i, s>>}]
           p == [b.pending EXCEPT ![<<h, k.peer>>] = @ - amount, ![<<i, k.peer>>] = amount]
<1>1. k \in CallSpends /\ h \in Ids /\ k.peer \in Recipients /\ k.draws \subseteq Ids \X Seqs
  BY CallTypes, Zenon
<1>2. i # h
  BY Zenon
<1>3. <<h, k.peer>> \in Cells /\ <<i, k.peer>> \in Cells
  BY <1>1, Zenon DEF Cells
<1>4. /\ p \in [Cells -> Nat]
      /\ \A j \in Ids, r \in Recipients :
            p[<<j, r>>] = IF j = h /\ r = k.peer THEN b.pending[<<j, r>>] - amount
                          ELSE IF j = i /\ r = k.peer THEN amount ELSE b.pending[<<j, r>>]
  <2>1. b.pending \in [Cells -> Nat] /\ b.pending[<<h, k.peer>>] - amount \in Nat
    BY <1>3 DEF Budgets
  <2>2. p \in [Cells -> Nat]
    BY <1>3, <2>1, Zenon
  <2>3. ASSUME NEW j \in Ids, NEW r \in Recipients
        PROVE  p[<<j, r>>] = IF j = h /\ r = k.peer THEN b.pending[<<j, r>>] - amount
                          ELSE IF j = i /\ r = k.peer THEN amount ELSE b.pending[<<j, r>>]
    <3>1. <<j, r>> \in Cells
      BY Zenon DEF Cells
    <3> QED BY <1>2, <1>3, <2>1, <3>1, Zenon
  <2> QED BY <2>2, <2>3, Zenon
<1>5. /\ l \in CallSpends /\ l # None /\ l.draws = k.draws \cup {<<i, s>>}
      /\ l.peer = k.peer /\ l.closed = k.closed /\ l.recorded = k.recorded
  <2>1. l \in CallSpends
    BY <1>1 DEF CallSpends
  <2> QED BY <1>1, <2>1, NoCall, Zenon DEF CallSpends
<1>6. n = [b EXCEPT !.pending = p, !.call = [b.call EXCEPT ![h] = l]]
  BY <1>1, <1>2, Zenon DEF DrawFrom, Budgets, CallSpends
<1> HIDE DEF n, l, p
<1>7. /\ n \in Budgets /\ n.pending = p /\ n.failures = b.failures
      /\ n.call = [b.call EXCEPT ![h] = l]
  BY <1>4, <1>5, <1>6, ZenonT(60) DEF Budgets
<1>8. /\ n.call[h] = l /\ \A g \in Holds \ {h} : n.call[g] = b.call[g]
      /\ \A g \in Holds : HasCall(n, g) <=> HasCall(b, g)
  BY <1>5, <1>7, Zenon DEF Budgets, HasCall
<1>9. \A g \in Holds : HasCall(b, g) => \A d \in b.call[g].draws : d[1] \in Ids /\ d[1] # i
  BY FreshNotDrawn, Zenon DEF Good
<1>10. ASSUME NEW g \in Holds, HasCall(b, g), NEW d \in n.call[g].draws
       PROVE  \/ d \in b.call[g].draws /\ d[1] \in Ids /\ d[1] # i /\ d[1] # h
              \/ g = h /\ d = <<i, s>>
  <2>1. ASSUME d \in b.call[g].draws
        PROVE  d[1] # h
    BY <2>1, <1>10 DEF Good, Kept
  <2> QED BY <1>5, <1>8, <1>9, <1>10, <2>1, Zenon
<1>11. Kept(n)
  <2>1. ASSUME NEW g \in Holds, HasCall(n, g), NEW q \in Recipients, n.pending[<<g, q>>] > 0
        PROVE  q = n.call[g].peer /\ ~n.call[g].closed
    <3>1. HasCall(b, g) /\ g \in Ids /\ g # i /\ b.pending[<<g, q>>] \in Nat
      BY <1>8, <2>1, CallTypes, ZenonT(60) DEF Budgets, Cells
    <3>2. b.pending[<<g, q>>] > 0
      BY <1>4, <1>7, <2>1, <3>1
    <3>3. q = b.call[g].peer /\ ~b.call[g].closed
      BY <3>1, <3>2, Zenon DEF Good, Kept
    <3> QED BY <1>5, <1>8, <3>3, Zenon
  <2>2. ASSUME NEW g \in Holds, HasCall(n, g), NEW d \in n.call[g].draws
        PROVE  /\ \A q \in Recipients : n.pending[<<d[1], q>>] > 0 <=> q = n.call[g].peer
               /\ ~(d[1] \in Holds /\ HasCall(n, d[1]))
    <3>1. HasCall(b, g) /\ n.call[g].peer = b.call[g].peer
      BY <1>5, <1>8, <2>2, Zenon
    <3>2. CASE d \in b.call[g].draws /\ d[1] \in Ids /\ d[1] # i /\ d[1] # h
      <4>1. \A q \in Recipients : n.pending[<<d[1], q>>] = b.pending[<<d[1], q>>]
        BY <1>4, <1>7, <3>2, Zenon
      <4>2. Kept(b) /\ (d[1] \in Holds => (HasCall(n, d[1]) <=> HasCall(b, d[1])))
        BY <1>8, Zenon DEF Good
      <4> QED BY <3>1, <3>2, <4>1, <4>2, Zenon DEF Kept
    <3>3. CASE g = h /\ d = <<i, s>>
      BY <1>2, <1>4, <1>7, <1>8, <3>1, <3>3, SMTT(60)
    <3> QED BY <1>10, <2>2, <3>1, <3>2, <3>3, Zenon
  <2>3. ASSUME NEW f \in Holds, NEW g \in Holds, HasCall(n, f), HasCall(n, g),
               NEW d \in n.call[f].draws, NEW e \in n.call[g].draws, d[1] = e[1]
        PROVE  f = g /\ d = e
    <3>1. HasCall(b, f) /\ HasCall(b, g)
      BY <1>8, <2>3, Zenon
    <3>2. CASE d \in b.call[f].draws /\ e \in b.call[g].draws
      BY <2>3, <3>1, <3>2 DEF Good, Kept
    <3> QED BY <1>10, <2>3, <3>1, <3>2
  <2> QED BY <2>1, <2>2, <2>3, Zenon DEF Kept
<1>12. UnresolvedCells(n) \subseteq UnresolvedCells(b)
  <2>1. ASSUME NEW c \in UnresolvedCells(n)
        PROVE  c \in UnresolvedCells(b)
    <3>1. /\ c \in Cells /\ c[1] \in Ids /\ n.pending[c] > 0 /\ DrawnFor(n, c[1]) = {}
          /\ ~(c[1] \in Holds /\ HasCall(n, c[1]))
      BY Zenon DEF UnresolvedCells, Cells
    <3>2. \A g \in Holds : HasCall(n, g) => \A d \in n.call[g].draws : d[1] # c[1]
      BY <1>7, <3>1, DrawnForIs, Zenon
    <3>3. c[1] # i /\ c[1] # h
      <4>1. HasCall(n, h) /\ <<i, s>> \in n.call[h].draws
        BY <1>5, <1>8, Zenon
      <4> QED BY <3>1, <3>2, <4>1, Zenon
    <3>4. \A g \in Holds : HasCall(b, g) => \A d \in b.call[g].draws : d[1] # c[1]
      BY <1>5, <1>8, <3>2, Zenon
    <3>5. DrawnFor(b, c[1]) = {}
      BY <3>1, <3>4, DrawnForIs, Zenon
    <3>6. b.pending[c] > 0
      BY <1>4, <1>7, <3>1, <3>3 DEF Cells
    <3> QED BY <1>8, <3>1, <3>5, <3>6, Zenon DEF UnresolvedCells
  <2> QED BY <2>1, Zenon
<1>13. UnresolvedCalls(n) \subseteq UnresolvedCalls(b)
  BY <1>5, <1>8, Zenon DEF UnresolvedCalls
<1>14. n.failures + Unresolved(n) <= MaxFailures
  <2>1. b.failures \in Nat /\ Unresolved(n) <= Unresolved(b)
    BY <1>12, <1>13, FewerUnresolved, Zenon DEF Budgets
  <2> QED BY <1>7, <2>1, UnresolvedFinite, LedgerAssumption DEF Good
<1>15. \A c \in Cells : c[1] # h /\ b.pending[c] > 0 => n.pending[c] > 0
  BY <1>4, <1>7 DEF Cells
<1>16. \A g \in Holds : HasCall(n, g) <=> HasCall(b, g)
  BY <1>8, Zenon
<1>17. Good(n)
  BY <1>7, <1>11, <1>14, Zenon DEF Good
<1> QED BY <1>15, <1>16, <1>17, Zenon DEF n

\* record_outcome of an ordinary payment: its slot becomes the failure.
LEMMA ResolveGood ==
    ASSUME NEW b \in Budgets, Good(b), NEW i \in Ids, NEW r \in Recipients,
           b.pending[<<i, r>>] > 0, DrawnFor(b, i) = {}, ~(i \in Holds /\ HasCall(b, i)),
           NEW x \in Nat
    PROVE  LET n == RecordOutcome(Settle(Consume(b, <<i, r>>), r, b.pending[<<i, r>>], x), x)
           IN  /\ Good(n) /\ n.call = b.call
               /\ \A c \in Cells \ {<<i, r>>} : n.pending[c] = b.pending[c]
<1> DEFINE m == Consume(b, <<i, r>>)
           n == RecordOutcome(Settle(m, r, b.pending[<<i, r>>], x), x)
<1>1. <<i, r>> \in Cells /\ b.pending[<<i, r>>] \in Nat
  BY Zenon DEF Cells, Budgets
<1>2. /\ m \in Budgets /\ m.call = b.call /\ m.failures = b.failures
      /\ m.pending[<<i, r>>] = 0 /\ \A c \in Cells \ {<<i, r>>} : m.pending[c] = b.pending[c]
  BY <1>1, ZenonT(60) DEF Budgets, Consume
<1> HIDE DEF m
<1>3. /\ n \in Budgets /\ n.pending = m.pending /\ n.call = m.call
      /\ n.failures <= b.failures + 1
  <2> DEFINE t == Settle(m, r, b.pending[<<i, r>>], x)
  <2>1. /\ t \in Budgets /\ t.pending = m.pending /\ t.call = m.call
        /\ t.failures = b.failures
    <3>1. /\ t \in Budgets /\ t.pending = m.pending /\ t.call = m.call
          /\ t.failures = m.failures
      <4> DEFINE y == b.pending[<<i, r>>]
      <4>1. m \in Budgets /\ y \in Nat
        BY <1>1, <1>2, Zenon
      <4> HIDE DEF y
      <4> QED BY <4>1, SettleKeeps, ZenonT(60) DEF y
    <3> QED BY <1>2, <3>1, Zenon
  <2> HIDE DEF t
  <2>2. /\ RecordOutcome(t, x) \in Budgets /\ RecordOutcome(t, x).pending = t.pending
        /\ RecordOutcome(t, x).call = t.call /\ RecordOutcome(t, x).failures <= t.failures + 1
    BY <2>1, RecordOutcomeKeeps, Zenon
  <2> QED BY <2>1, <2>2, Zenon DEF t
<1> HIDE DEF n
<1>4. \A h : HasCall(n, h) <=> HasCall(b, h)
  BY <1>2, <1>3, Zenon DEF HasCall
<1>5. \A j : DrawnFor(n, j) = DrawnFor(b, j)
  BY <1>2, <1>3, <1>4 DEF DrawnFor
<1>6. \A h \in Holds : HasCall(b, h) => \A d \in b.call[h].draws : d[1] # i
  BY DrawnForIs, Zenon
<1>7. \A h \in Holds : HasCall(b, h) => h \in Ids /\ \A d \in b.call[h].draws : d[1] \in Ids
  BY CallTypes, Zenon
<1>8. Kept(n)
  <2>1. \A j \in Ids \ {i}, q \in Recipients : n.pending[<<j, q>>] = b.pending[<<j, q>>]
    BY <1>2, <1>3, Zenon DEF Cells
  <2> QED BY <1>2, <1>3, <1>4, <1>6, <1>7, <2>1, SMTT(60) DEF Good, Kept
<1>9. UnresolvedCells(n) = UnresolvedCells(b) \ {<<i, r>>}
  BY <1>1, <1>2, <1>3, <1>4, <1>5, SMTT(60) DEF UnresolvedCells
<1>10. <<i, r>> \in UnresolvedCells(b)
  BY <1>1, Zenon DEF UnresolvedCells
<1>11. Cardinality(UnresolvedCells(n)) = Cardinality(UnresolvedCells(b)) - 1
  BY <1>9, <1>10, UnresolvedFinite, FS_RemoveElement, ZenonT(60)
<1>12. UnresolvedCalls(n) = UnresolvedCalls(b)
  BY <1>2, <1>3, <1>4, Zenon DEF UnresolvedCalls
<1>13. n.failures + Unresolved(n) <= MaxFailures
  <2>1. n.failures \in Nat /\ b.failures \in Nat
    BY <1>3, Zenon DEF Budgets
  <2> QED BY <1>3, <1>11, <1>12, <2>1, UnresolvedFinite, LedgerAssumption, SMTT(60) DEF Good, Unresolved
<1>14. \A c \in Cells \ {<<i, r>>} : n.pending[c] = b.pending[c]
  BY <1>2, <1>3, Zenon
<1>15. Good(n) /\ n.call = b.call
  BY <1>2, <1>3, <1>8, <1>13, Zenon DEF Good
<1> QED BY <1>14, <1>15, Zenon DEF n, m

\* record_call_outcome: the slot of the call becomes its failure.
LEMMA RecordCallGood ==
    ASSUME NEW b \in Budgets, Good(b), NEW h \in Holds, HasCall(b, h)
    PROVE  LET n == RecordCallOutcome(b, h)
           IN  /\ Good(n) /\ n.pending = b.pending
               /\ \A g \in Holds : HasCall(n, g) <=> HasCall(b, g)
<1> DEFINE n == RecordCallOutcome(b, h)
           k == b.call[h]
           l == [k EXCEPT !.recorded = TRUE, !.paidSeqs = {}]
           m == [b EXCEPT !.call[h] = l]
<1>1. CASE ~(k.closed /\ k.draws = {} /\ ~k.recorded)
  BY <1>1, Zenon DEF RecordCallOutcome
<1>2. CASE k.closed /\ k.draws = {} /\ ~k.recorded
  <2>1. k \in CallSpends /\ k.spent \in Nat
    BY CallTypes, Zenon DEF CallSpends
  <2>2. /\ l \in CallSpends /\ l # None /\ l.draws = k.draws
        /\ l.peer = k.peer /\ l.closed = k.closed /\ l.recorded
    <3>1. l \in CallSpends
      BY <2>1, Zenon DEF CallSpends
    <3> QED BY <2>1, <3>1, NoCall, Zenon DEF CallSpends
  <2> HIDE DEF l
  <2>3. /\ m \in Budgets /\ m.pending = b.pending /\ m.failures = b.failures
        /\ m.call = [b.call EXCEPT ![h] = l]
    BY <2>2, Zenon DEF Budgets
  <2>4. n = IF k.spent > 0 \/ k.failed THEN RecordOutcome(m, k.spent) ELSE m
    BY <1>2, Zenon DEF RecordCallOutcome, l
  <2> HIDE DEF m
  <2>5. /\ n \in Budgets /\ n.pending = b.pending /\ n.call = m.call
        /\ n.failures <= b.failures + 1
    <3>1. /\ RecordOutcome(m, k.spent) \in Budgets
          /\ RecordOutcome(m, k.spent).pending = m.pending
          /\ RecordOutcome(m, k.spent).call = m.call
          /\ RecordOutcome(m, k.spent).failures <= m.failures + 1
      BY <2>1, <2>3, RecordOutcomeKeeps, ZenonT(60)
    <3>2. b.failures \in Nat
      BY Zenon DEF Budgets
    <3>3. CASE k.spent > 0 \/ k.failed
      BY <2>3, <2>4, <3>1, <3>3, Zenon
    <3>4. CASE ~(k.spent > 0 \/ k.failed)
      BY <2>3, <2>4, <3>2, <3>4, SMTT(60)
    <3> QED BY <3>3, <3>4, Zenon
  <2> HIDE DEF n
  <2>6. /\ n.call[h] = l /\ \A g \in Holds \ {h} : n.call[g] = b.call[g]
        /\ \A g \in Holds : HasCall(n, g) <=> HasCall(b, g)
    BY <2>2, <2>3, <2>5 DEF Budgets, HasCall
  <2>7. \A g \in Holds : HasCall(b, g) => /\ n.call[g].draws = b.call[g].draws
                                          /\ n.call[g].peer = b.call[g].peer
                                          /\ n.call[g].closed = b.call[g].closed
    BY <2>2, <2>6, Zenon
  <2>8. Kept(n)
    BY <2>5, <2>6, <2>7, SMTT(60) DEF Good, Kept
  <2>9. UnresolvedCells(n) = UnresolvedCells(b)
    <3>1. \A j \in Ids : DrawnFor(n, j) = {} <=> DrawnFor(b, j) = {}
      <4> TAKE j \in Ids
      <4>1. DrawnFor(n, j) = {} <=>
                \A g \in Holds : HasCall(n, g) => \A d \in n.call[g].draws : d[1] # j
        BY <2>5, DrawnForIs, Zenon
      <4>2. DrawnFor(b, j) = {} <=>
                \A g \in Holds : HasCall(b, g) => \A d \in b.call[g].draws : d[1] # j
        BY DrawnForIs, Zenon
      <4> QED BY <2>6, <2>7, <4>1, <4>2, Zenon
    <3> QED BY <2>5, <2>6, <3>1, Zenon DEF UnresolvedCells, Cells
  <2>10. UnresolvedCalls(n) = UnresolvedCalls(b) \ {h} /\ h \in UnresolvedCalls(b)
    BY <1>2, <2>2, <2>6, Zenon DEF UnresolvedCalls
  <2>11. Cardinality(UnresolvedCalls(n)) = Cardinality(UnresolvedCalls(b)) - 1
    BY <2>10, UnresolvedFinite, FS_RemoveElement, ZenonT(60)
  <2>12. n.failures + Unresolved(n) <= MaxFailures
    <3>1. n.failures \in Nat /\ b.failures \in Nat
      BY <2>5, Zenon DEF Budgets
    <3> QED BY <2>5, <2>9, <2>11, <3>1, UnresolvedFinite, LedgerAssumption, SMTT(60) DEF Good, Unresolved
  <2>13. Good(n)
    BY <2>5, <2>8, <2>12, Zenon DEF Good
  <2>14. n.pending = b.pending /\ \A g \in Holds : HasCall(n, g) <=> HasCall(b, g)
    BY <2>5, <2>6, Zenon
  <2> QED BY <2>13, <2>14, Zenon DEF n
<1> QED BY <1>1, <1>2, Zenon

\* A step of one call: its hold changes, draws end with their entries cleared.
Ended(b, n, h, j) == \E s : <<j, s>> \in b.call[h].draws \ n.call[h].draws
CallStep(b, n, h) ==
    /\ n \in Budgets /\ n.failures = b.failures
    /\ n.call[h] # None /\ \A g \in Holds \ {h} : n.call[g] = b.call[g]
    /\ n.call[h].peer = b.call[h].peer /\ n.call[h].recorded = b.call[h].recorded
    /\ n.call[h].draws \subseteq b.call[h].draws
    /\ \A q \in Recipients : n.pending[<<h, q>>] > 0 => q = b.call[h].peer /\ ~n.call[h].closed
    /\ \A j \in Ids \ {h}, q \in Recipients :
          n.pending[<<j, q>>] = IF Ended(b, n, h, j) THEN 0 ELSE b.pending[<<j, q>>]

\* A step of one call, of any kind, leaves a good budget good.
LEMMA CallStepGood ==
    ASSUME NEW b \in Budgets, Good(b), NEW h \in Holds, HasCall(b, h), NEW n, CallStep(b, n, h)
    PROVE  /\ Good(n)
           /\ \A g \in Holds : HasCall(n, g) <=> HasCall(b, g)
<1> DEFINE k == b.call[h]
           l == n.call[h]
           Over(j) == Ended(b, n, h, j)
<1>0. \A j \in Ids \ {h}, q \in Recipients :
          n.pending[<<j, q>>] = IF Over(j) THEN 0 ELSE b.pending[<<j, q>>]
  BY Zenon DEF CallStep
<1>1. h \in Ids /\ k.draws \subseteq Ids \X Seqs
  BY CallTypes, Zenon
<1>2. n \in Budgets /\ n.failures = b.failures /\ l.peer = k.peer /\ l.recorded = k.recorded
  BY Zenon DEF CallStep
<1>3. /\ \A g \in Holds \ {h} : n.call[g] = b.call[g]
      /\ \A g \in Holds : HasCall(n, g) <=> HasCall(b, g)
  BY Zenon DEF CallStep, HasCall
<1>4. ASSUME NEW g \in Holds, HasCall(n, g)
      PROVE  /\ HasCall(b, g) /\ g \in Ids
             /\ n.call[g].draws \subseteq b.call[g].draws /\ b.call[g].draws \subseteq Ids \X Seqs
             /\ n.call[g].peer = b.call[g].peer
  BY <1>2, <1>3, <1>4, CallTypes, Zenon DEF CallStep
<1>5. ASSUME NEW g \in Holds, HasCall(n, g), NEW d \in n.call[g].draws
      PROVE  d[1] \in Ids /\ d[1] # h /\ ~Over(d[1])
  <2>1. d \in b.call[g].draws /\ d \in Ids \X Seqs /\ HasCall(b, g)
    BY <1>4, <1>5, Zenon
  <2>2. d[1] # h
    BY <2>1 DEF Good, Kept
  <2>3. ASSUME NEW s, <<d[1], s>> \in k.draws \ l.draws
        PROVE  FALSE
    <3>1. g = h /\ d = <<d[1], s>>
      <4>1. <<d[1], s>>[1] = d[1]
        BY Zenon
      <4> QED BY <2>1, <2>3, <4>1, SMTT(60) DEF Good, Kept
    <3> QED BY <1>3, <1>5, <2>3, <3>1, Zenon
  <2> QED BY <2>1, <2>2, <2>3, Zenon DEF Ended
<1>6. ASSUME NEW g \in Holds, HasCall(n, g), g # h
      PROVE  ~Over(g)
  <2>1. ASSUME NEW s, <<g, s>> \in k.draws
        PROVE  FALSE
    <3>1. <<g, s>>[1] = g
      BY Zenon
    <3> QED BY <1>4, <1>6, <2>1, <3>1, SMTT(60) DEF Good, Kept
  <2> QED BY <2>1, Zenon DEF Ended
<1>7. Kept(n)
  <2>1. ASSUME NEW g \in Holds, HasCall(n, g), NEW q \in Recipients, n.pending[<<g, q>>] > 0
        PROVE  q = n.call[g].peer /\ ~n.call[g].closed
    <3>1. CASE g = h
      BY <1>2, <2>1, <3>1, Zenon DEF CallStep
    <3>2. CASE g # h
      <4>1. n.pending[<<g, q>>] = b.pending[<<g, q>>]
        BY <1>0, <1>2, <1>4, <1>6, <2>1, <3>2, Zenon
      <4> QED BY <1>3, <1>4, <2>1, <3>2, <4>1, Zenon DEF Good, Kept
    <3> QED BY <3>1, <3>2, Zenon
  <2>2. ASSUME NEW g \in Holds, HasCall(n, g), NEW d \in n.call[g].draws
        PROVE  /\ \A q \in Recipients : n.pending[<<d[1], q>>] > 0 <=> q = n.call[g].peer
               /\ ~(d[1] \in Holds /\ HasCall(n, d[1]))
    <3>1. \A q \in Recipients : n.pending[<<d[1], q>>] = b.pending[<<d[1], q>>]
      <4>1. d[1] \in Ids \ {h} /\ ~Over(d[1])
        BY <1>5, <2>2, Zenon
      <4> QED BY <1>0, <1>2, <4>1, Zenon
    <3>2. d \in b.call[g].draws /\ HasCall(b, g) /\ n.call[g].peer = b.call[g].peer
      BY <1>4, <2>2, Zenon
    <3> QED BY <1>3, <3>1, <3>2, SMTT(60) DEF Good, Kept
  <2>3. ASSUME NEW f \in Holds, NEW g \in Holds, HasCall(n, f), HasCall(n, g),
               NEW d \in n.call[f].draws, NEW e \in n.call[g].draws, d[1] = e[1]
        PROVE  f = g /\ d = e
    <3>1. HasCall(b, f) /\ HasCall(b, g) /\ d \in b.call[f].draws /\ e \in b.call[g].draws
      BY <1>4, <2>3, Zenon
    <3> QED BY <2>3, <3>1 DEF Good, Kept
  <2> QED BY <2>1, <2>2, <2>3, Zenon DEF Kept
<1>8. UnresolvedCells(n) \subseteq UnresolvedCells(b)
  <2>1. ASSUME NEW c \in UnresolvedCells(n)
        PROVE  c \in UnresolvedCells(b)
    <3>1. /\ c \in Cells /\ c = <<c[1], c[2]>> /\ c[1] \in Ids /\ c[2] \in Recipients
          /\ n.pending[c] > 0 /\ DrawnFor(n, c[1]) = {}
          /\ ~(c[1] \in Holds /\ HasCall(n, c[1]))
      BY DEF UnresolvedCells, Cells
    <3>2. \A g \in Holds : HasCall(n, g) => \A d \in n.call[g].draws : d[1] # c[1]
      <4> DEFINE j == c[1]
      <4>1. n \in Budgets /\ j \in Ids /\ DrawnFor(n, j) = {}
        BY <1>2, <3>1, Zenon
      <4> HIDE DEF j
      <4>2. \A g \in Holds : HasCall(n, g) => \A d \in n.call[g].draws : d[1] # j
        BY ONLY <4>1, DrawnForIs, Zenon
      <4> QED BY <4>2, Zenon DEF j
    <3>3. c[1] # h
      BY <1>3, <3>1, Zenon
    <3>4. n.pending[c] = IF Over(c[1]) THEN 0 ELSE b.pending[c]
      BY <1>0, <1>2, <3>1, <3>3, SMTT(60)
    <3>5. ~Over(c[1]) /\ b.pending[c] > 0
      BY <3>1, <3>4
    <3>6. ASSUME NEW g \in Holds, HasCall(b, g), NEW d \in b.call[g].draws, d[1] = c[1]
          PROVE  FALSE
      <4>1. d \in Ids \X Seqs /\ HasCall(n, g)
        BY <1>3, <1>4, <3>6, Zenon
      <4>2. d \notin n.call[g].draws
        BY <3>2, <3>6, <4>1, Zenon
      <4>3. g = h /\ d \in k.draws \ l.draws /\ d = <<c[1], d[2]>>
        BY <1>3, <3>6, <4>1, <4>2, SMTT(60)
      <4> QED BY <3>5, <4>3, Zenon DEF Ended
    <3>7. DrawnFor(b, c[1]) = {}
      BY <3>1, <3>6, DrawnForIs, Zenon
    <3> QED BY <1>3, <3>1, <3>5, <3>7, Zenon DEF UnresolvedCells
  <2> QED BY <2>1, Zenon
<1>9. UnresolvedCalls(n) \subseteq UnresolvedCalls(b)
  BY <1>2, <1>3, Zenon DEF UnresolvedCalls
<1>10. n.failures + Unresolved(n) <= MaxFailures
  <2>1. b.failures \in Nat /\ Unresolved(n) <= Unresolved(b)
    BY <1>8, <1>9, FewerUnresolved, Zenon DEF Budgets
  <2> QED BY <1>2, <2>1, UnresolvedFinite, LedgerAssumption, SMTT(60) DEF Good
<1>11. Good(n)
  BY <1>2, <1>7, <1>10, Zenon DEF Good
<1> QED BY <1>3, <1>11, Zenon

\* resolve does not change what is unresolved.
LEMMA SettleGood ==
    ASSUME NEW b \in Budgets, Good(b), NEW r \in Recipients, NEW x \in Nat, NEW y \in Nat
    PROVE  /\ Good(Settle(b, r, x, y))
           /\ Settle(b, r, x, y).pending = b.pending /\ Settle(b, r, x, y).call = b.call
<1> DEFINE n == Settle(b, r, x, y)
<1>1. n \in Budgets /\ n.pending = b.pending /\ n.call = b.call /\ n.failures = b.failures
  BY SettleKeeps
<1> HIDE DEF n
<1>2. Unresolved(n) = Unresolved(b) /\ Kept(n)
  BY <1>1, SameEntries, Zenon DEF Good
<1>3. Good(n)
  BY <1>1, <1>2, Zenon DEF Good
<1> QED BY <1>1, <1>3, Zenon DEF n

\* close_call: the hold is emptied, draws stay.
LEMMA CloseGood ==
    ASSUME NEW b \in Budgets, Good(b), NEW h \in Holds, HasCall(b, h)
    PROVE  LET n == CloseHold(b, h)
           IN  /\ Good(n)
               /\ \A g \in Holds : HasCall(n, g) <=> HasCall(b, g)
               /\ \A c \in Cells : c[1] # h => n.pending[c] = b.pending[c]
<1> DEFINE k == b.call[h]
           unused == b.pending[<<h, k.peer>>]
           l == [k EXCEPT !.closed = TRUE, !.released = k.released + unused]
           p == [b.pending EXCEPT ![<<h, k.peer>>] = 0]
           m == [b EXCEPT !.pending = p, !.call = [b.call EXCEPT ![h] = l]]
           t == Settle(m, k.peer, unused, 0)
           n == CloseHold(b, h)
<1>1. k \in CallSpends /\ h \in Ids /\ k.peer \in Recipients /\ k.released \in Nat
  BY CallTypes, Zenon DEF CallSpends
<1>2. <<h, k.peer>> \in Cells /\ unused \in Nat
  BY <1>1, Zenon DEF Cells, Budgets
<1>3. l \in CallSpends /\ l.peer = k.peer /\ l.recorded = k.recorded /\ l.draws = k.draws
  <2>1. k.released + unused \in Nat
    BY <1>1, <1>2
  <2> QED BY <1>1, <2>1, ZenonT(60) DEF CallSpends
<1>4. p \in [Cells -> Nat] /\ \A c \in Cells : p[c] = IF c = <<h, k.peer>> THEN 0 ELSE b.pending[c]
  BY <1>2, Zenon DEF Budgets
<1>5. n = RecordCallOutcome(t, h)
  <2>1. [b EXCEPT !.pending[<<h, k.peer>>] = 0, !.call[h] = l] = m
    BY Zenon DEF Budgets
  <2> QED BY <2>1, Zenon DEF CloseHold
<1>6. \A q \in Recipients : p[<<h, q>>] > 0 => q = l.peer /\ ~l.closed
  <2>1. ASSUME NEW q \in Recipients, q # k.peer
        PROVE  ~(b.pending[<<h, q>>] > 0)
    BY <2>1, Zenon DEF Good, Kept
  <2> QED BY <1>1, <1>4, <2>1 DEF Cells
<1>7. \A j \in Ids \ {h}, q \in Recipients :
          p[<<j, q>>] = IF \E s : <<j, s>> \in k.draws \ l.draws THEN 0 ELSE b.pending[<<j, q>>]
  BY <1>3, <1>4, Zenon DEF Cells
<1> HIDE DEF l, p, unused
<1>8. Good(m) /\ m.pending = p /\ \A g \in Holds : HasCall(m, g) <=> HasCall(b, g)
  <2>1. m = [b EXCEPT !.pending = p, !.call = [b.call EXCEPT ![h] = l]]
    BY Zenon
  <2>2. l.draws \subseteq k.draws
    BY <1>3, Zenon
  <2>3. /\ m \in Budgets /\ m.pending = p /\ m.failures = b.failures
        /\ m.call[h] = l /\ \A g \in Holds \ {h} : m.call[g] = b.call[g]
    BY <1>3, <1>4, <2>1, ZenonT(60) DEF Budgets
  <2>4. CallStep(b, m, h)
    <3>1. l # None
      BY <1>3, NoCall, ZenonT(60)
    <3> HIDE DEF m
    <3> QED BY <1>3, <1>6, <1>7, <2>2, <2>3, <3>1, Zenon DEF CallStep, Ended
  <2> HIDE DEF m
  <2> QED BY <2>3, <2>4, CallStepGood, Zenon
<1> HIDE DEF m
<1>9. Good(t) /\ t.pending = p /\ t.call = m.call
  <2>1. m \in Budgets /\ 0 \in Nat
    BY <1>8, Zenon DEF Good
  <2> HIDE DEF k
  <2> QED BY <1>1, <1>2, <1>8, <2>1, SettleGood, SMTT(60)
<1> HIDE DEF t
<1>10. \A g \in Holds : HasCall(t, g) <=> HasCall(b, g)
  BY <1>8, <1>9, Zenon DEF HasCall
<1>11. Good(n) /\ n.pending = t.pending /\ \A g \in Holds : HasCall(n, g) <=> HasCall(t, g)
  <2>1. t \in Budgets /\ HasCall(t, h)
    BY <1>9, <1>10, Zenon DEF Good
  <2> QED BY <1>5, <1>9, <2>1, RecordCallGood, SMTT(60)
<1>12. \A c \in Cells : c[1] # h => n.pending[c] = b.pending[c]
  BY <1>4, <1>9, <1>11
<1> HIDE DEF n
<1> QED BY <1>10, <1>11, <1>12, Zenon DEF n

\* Outside cell x and hold h, n keeps the entries of b; it has the same calls.
Spares(b, n, x, h) ==
    /\ \A g \in Holds : HasCall(n, g) <=> HasCall(b, g)
    /\ \A c \in Cells : c # x /\ c[1] # h => n.pending[c] = b.pending[c]

\* resolve_call_draw: the draw ends, its rest returns to the open hold.
LEMMA ResolveDrawGood ==
    ASSUME NEW b \in Budgets, Good(b), NEW i \in Ids, NEW r \in Recipients,
           b.pending[<<i, r>>] > 0,
           NEW h \in Holds, NEW s \in Seqs, <<h, s>> \in DrawnFor(b, i),
           NEW x \in Nat, NEW o \in Statuses
    PROVE  LET n == ResolveCallDraw(Consume(b, <<i, r>>), h, i, s,
                                    b.pending[<<i, r>>], x, o)
           IN  Good(n) /\ Spares(b, n, <<i, r>>, h)
<1> DEFINE k == b.call[h]
           reserved == b.pending[<<i, r>>]
           unused == Sub(reserved, x)
           back == IF k.closed THEN 0 ELSE unused
           l == [k EXCEPT !.draws = k.draws \ {<<i, s>>},
                          !.failed = k.failed \/ (o = "failed" /\ x = 0),
                          !.paidSeqs = k.paidSeqs \cup {y \in {s} : x > 0},
                          !.spent = k.spent + x,
                          !.released = k.released + (IF k.closed THEN unused ELSE 0)]
           p == [b.pending EXCEPT ![<<i, r>>] = 0, ![<<h, k.peer>>] = b.pending[<<h, k.peer>>] + back]
           m == [b EXCEPT !.pending = p, !.call = [b.call EXCEPT ![h] = l]]
           t == IF k.closed THEN Settle(m, k.peer, reserved, x)
                ELSE Settle(m, k.peer, 0, Sub(x, reserved))
           n == ResolveCallDraw(Consume(b, <<i, r>>), h, i, s, reserved, x, o)
<1>1. HasCall(b, h) /\ <<i, s>> \in k.draws
  BY DrawnForIs, Zenon
<1>2. /\ k \in CallSpends /\ h \in Ids /\ k.peer \in Recipients /\ k.draws \subseteq Ids \X Seqs
      /\ k.released \in Nat /\ k.spent \in Nat /\ k.failed \in BOOLEAN /\ k.paidSeqs \subseteq Seqs
  BY <1>1, CallTypes, Zenon DEF CallSpends
<1>3. r = k.peer /\ i # h /\ s \in Seqs
  <2>1. <<i, s>>[1] = i
    BY Zenon
  <2> QED BY <1>1, <1>2, <2>1 DEF Good, Kept
<1>4. /\ <<h, k.peer>> \in Cells /\ <<i, r>> \in Cells
      /\ reserved \in Nat /\ b.pending[<<h, k.peer>>] \in Nat
  BY <1>2, Zenon DEF Cells, Budgets
<1>5. unused \in Nat /\ back \in Nat /\ Sub(x, reserved) \in Nat
  BY <1>4 DEF Sub, Max2
<1> HIDE DEF unused
<1>6. /\ l \in CallSpends /\ l.peer = k.peer /\ l.recorded = k.recorded /\ l.closed = k.closed
      /\ l.draws = k.draws \ {<<i, s>>}
  <2>1. k.spent + x \in Nat /\ k.released + (IF k.closed THEN unused ELSE 0) \in Nat
    BY <1>2, <1>5
  <2>2. k.failed \/ (o = "failed" /\ x = 0) \in BOOLEAN
    BY <1>2, Zenon
  <2>3. k.paidSeqs \cup {y \in {s} : x > 0} \subseteq Seqs /\ k.draws \ {<<i, s>>} \subseteq Ids \X Seqs
    BY <1>2, <1>3, Zenon
  <2> QED BY <1>2, <2>1, <2>2, <2>3, Zenon DEF CallSpends
<1>7. p \in [Cells -> Nat] /\ \A c \in Cells :
          p[c] = IF c = <<h, k.peer>> THEN b.pending[c] + back
                 ELSE IF c = <<i, r>> THEN 0 ELSE b.pending[c]
  <2>1. b.pending[<<h, k.peer>>] + back \in Nat
    BY <1>4, <1>5
  <2> QED BY <1>3, <1>4, <2>1, Zenon DEF Budgets
<1>8. n = RecordCallOutcome(t, h)
  <2>1. l = ResolvedCall(k, i, s, reserved, x, o)
    BY Zenon DEF ResolvedCall, unused
  <2>2. p = ResolvedEntries(b, h, i, r, x)
    BY Zenon DEF ResolvedEntries, unused
  <2>3. m = ResolvedDraw(b, h, i, s, r, x, o)
    BY <2>1, <2>2, Zenon DEF ResolvedDraw
  <2> HIDE DEF m
  <2>4. t = SettledDraw(b, h, i, s, r, x, o)
    BY <2>3, Zenon DEF SettledDraw
  <2>5. n = RecordCallOutcome(SettledDraw(b, h, i, s, r, x, o), h)
    BY ResolveDrawIs, Zenon
  <2> QED BY <2>4, <2>5, Zenon
<1>9. \A q \in Recipients : p[<<h, q>>] > 0 => q = l.peer /\ ~l.closed
  <2> TAKE q \in Recipients
  <2>1. b.pending[<<h, q>>] > 0 => q = k.peer /\ ~k.closed
    BY <1>1, ZenonT(60) DEF Good, Kept
  <2>2. <<h, q>> \in Cells /\ b.pending[<<h, q>>] \in Nat
    BY <1>2, Zenon DEF Cells, Budgets
  <2> QED BY <1>3, <1>6, <1>7, <2>1, <2>2, SMTT(60)
<1>10. \A j \in Ids \ {h}, q \in Recipients :
          p[<<j, q>>] = IF \E z : <<j, z>> \in k.draws \ l.draws THEN 0 ELSE b.pending[<<j, q>>]
  <2> TAKE j \in Ids \ {h}, q \in Recipients
  <2>1. (\E z : <<j, z>> \in k.draws \ l.draws) <=> j = i
    BY <1>1, <1>6, Zenon
  <2>2. j = i /\ q # r => b.pending[<<j, q>>] = 0
    <3>1. <<i, s>>[1] = i /\ b.pending[<<j, q>>] \in Nat
      BY Zenon DEF Budgets, Cells
    <3> QED BY <1>1, <1>3, <3>1, SMTT(60) DEF Good, Kept
  <2>3. p[<<j, q>>] = IF j = i /\ q = r THEN 0 ELSE b.pending[<<j, q>>]
    BY <1>7, ZenonT(60) DEF Cells
  <2> QED BY <2>1, <2>2, <2>3, Zenon
<1> HIDE DEF l, p, back
<1>11. Good(m) /\ m.pending = p /\ \A g \in Holds : HasCall(m, g) <=> HasCall(b, g)
  <2>1. l.draws \subseteq k.draws
    BY <1>6, Zenon
  <2>2. m = [b EXCEPT !.pending = p, !.call = [b.call EXCEPT ![h] = l]]
    BY Zenon
  <2>3. /\ m \in Budgets /\ m.pending = p /\ m.failures = b.failures
        /\ m.call[h] = l /\ \A g \in Holds \ {h} : m.call[g] = b.call[g]
    BY <1>6, <1>7, <2>2, Zenon DEF Budgets
  <2>4. CallStep(b, m, h)
    <3>1. l # None
      BY <1>6, NoCall, Zenon
    <3> HIDE DEF m
    <3> QED BY <1>6, <1>9, <1>10, <2>1, <2>3, <3>1, ZenonT(60) DEF CallStep, Ended
  <2> HIDE DEF m
  <2> QED BY <1>1, <2>3, <2>4, CallStepGood, ZenonT(60)
<1> HIDE DEF m
<1>12. Good(t) /\ t.pending = p /\ t.call = m.call
  <2>1. m \in Budgets
    BY <1>11, Zenon DEF Good
  <2> DEFINE q == k.peer
             u == Sub(x, reserved)
  <2>2. q \in Recipients /\ reserved \in Nat /\ u \in Nat /\ 0 \in Nat
    BY <1>2, <1>4, <1>5, ZenonT(60)
  <2>3. t = Settle(m, q, reserved, x) \/ t = Settle(m, q, 0, u)
    BY ZenonT(60)
  <2> HIDE DEF k, reserved, q, u, t
  <2> QED BY <1>11, <2>1, <2>2, <2>3, SettleGood, SMTT(60)
<1> HIDE DEF t
<1>13. \A g \in Holds : HasCall(t, g) <=> HasCall(b, g)
  BY <1>11, <1>12, Zenon DEF HasCall
<1>14. Good(n) /\ n.pending = t.pending /\ \A g \in Holds : HasCall(n, g) <=> HasCall(t, g)
  <2>1. t \in Budgets /\ HasCall(t, h)
    BY <1>1, <1>12, <1>13, ZenonT(60) DEF Good
  <2> QED BY <1>8, <1>12, <2>1, RecordCallGood, ZenonT(60)
<1> HIDE DEF n
<1>15. Spares(b, n, <<i, r>>, h)
  <2>1. ASSUME NEW c \in Cells, c # <<i, r>>, c[1] # h
        PROVE  n.pending[c] = b.pending[c]
    <3>1. <<h, k.peer>>[1] = h
      BY Zenon
    <3>2. c # <<h, k.peer>>
      BY <2>1, <3>1, Zenon
    <3>3. p[c] = b.pending[c]
      BY <1>7, <2>1, <3>2, Zenon
    <3> QED BY <1>12, <1>14, <3>3, Zenon
  <2>2. \A g \in Holds : HasCall(n, g) <=> HasCall(b, g)
    BY <1>13, <1>14, Zenon
  <2> QED BY <2>1, <2>2, Zenon DEF Spares
<1> QED BY <1>14, <1>15, ZenonT(60) DEF n

\* prune_call_tombstones: a recorded tombstone keeps no entry.
LEMMA PruneGood ==
    ASSUME NEW b \in Budgets, Good(b), NEW h \in Holds, HasCall(b, h),
           b.call[h].closed, b.call[h].draws = {}, b.call[h].recorded
    PROVE  LET n == [b EXCEPT !.call[h] = None]
           IN  /\ Good(n) /\ n.pending = b.pending
               /\ \A g \in Holds : HasCall(n, g) => HasCall(b, g)
<1> DEFINE n == [b EXCEPT !.call[h] = None]
<1>1. /\ n \in Budgets /\ n.pending = b.pending /\ n.failures = b.failures
      /\ n.call[h] = None /\ \A g \in Holds \ {h} : n.call[g] = b.call[g]
  BY Zenon DEF Budgets
<1> HIDE DEF n
<1>2. \A g \in Holds : HasCall(n, g) <=> g # h /\ HasCall(b, g)
  BY <1>1, ZenonT(60) DEF HasCall
<1>3. Kept(n)
  <2>1. Kept(b) /\ \A g \in Holds : HasCall(n, g) => HasCall(b, g) /\ n.call[g] = b.call[g]
    BY <1>1, <1>2, Zenon DEF Good
  <2>2. \A x \in Holds : HasCall(n, x) => HasCall(b, x)
    BY <2>1, Zenon
  <2>3. ASSUME NEW g \in Holds, HasCall(n, g)
       PROVE  /\ \A q \in Recipients : n.pending[<<g, q>>] > 0 => q = n.call[g].peer /\ ~n.call[g].closed
              /\ \A d \in n.call[g].draws :
                    /\ \A q \in Recipients : n.pending[<<d[1], q>>] > 0 <=> q = n.call[g].peer
                    /\ ~(d[1] \in Holds /\ HasCall(n, d[1]))
    BY <1>1, <2>1, <2>2, <2>3, SMTT(60) DEF Kept
  <2>4. ASSUME NEW f \in Holds, NEW g \in Holds, HasCall(n, f), HasCall(n, g),
              NEW d \in n.call[f].draws, NEW e \in n.call[g].draws, d[1] = e[1]
       PROVE  f = g /\ d = e
    BY <2>1, <2>4, SMTT(60) DEF Kept
  <2> QED BY <2>3, <2>4, Zenon DEF Kept
<1>4. UnresolvedCells(n) \subseteq UnresolvedCells(b)
  <2>1. ASSUME NEW j \in Ids
        PROVE  DrawnFor(n, j) = {} <=> DrawnFor(b, j) = {}
    <3>1. DrawnFor(n, j) = {} <=>
              \A g \in Holds : HasCall(n, g) => \A d \in n.call[g].draws : d[1] # j
      BY <1>1, DrawnForIs, ZenonT(60)
    <3>2. DrawnFor(b, j) = {} <=>
              \A g \in Holds : HasCall(b, g) => \A d \in b.call[g].draws : d[1] # j
      BY DrawnForIs, ZenonT(60)
    <3> QED BY <1>1, <1>2, <3>1, <3>2, ZenonT(60)
  <2>2. \A q \in Recipients : ~(b.pending[<<h, q>>] > 0)
    BY ZenonT(60) DEF Good, Kept
  <2> QED BY <1>1, <1>2, <2>1, <2>2, SMTT(60) DEF UnresolvedCells, Cells
<1>5. UnresolvedCalls(n) \subseteq UnresolvedCalls(b)
  BY <1>1, <1>2, Zenon DEF UnresolvedCalls
<1>6. n.failures + Unresolved(n) <= MaxFailures
  <2>1. b.failures \in Nat /\ Unresolved(n) <= Unresolved(b)
    BY <1>4, <1>5, FewerUnresolved, ZenonT(60) DEF Budgets
  <2> QED BY <1>1, <2>1, UnresolvedFinite, LedgerAssumption, SMTT(60) DEF Good
<1>7. Good(n)
  BY <1>1, <1>3, <1>6, Zenon DEF Good
<1> QED BY <1>1, <1>2, <1>7, Zenon DEF n

-----------------------------------------------------------------------------
(* The service: memory, file and payments *)

\* n forgets no reservation that may still be paid.
Loyal(n) ==
    \A c \in Cells : pay[c].st \in {"none", "inflight"} /\ Counted(mem, c) => Counted(n, c)

\* What the invariant says of the budget in memory, and Free of a fresh id.
LEMMA MemGood ==
    ASSUME LedgerInv, Live
    PROVE  /\ mem \in Budgets /\ Good(mem) /\ mem \in Contents
           /\ \A i \in Ids : Free(i) => /\ \A r \in Recipients : mem.pending[<<i, r>>] = 0
                                        /\ i \in Holds => ~HasCall(mem, i)
BY Zenon DEF LedgerInv, Contents, Live, Good, Free

-----------------------------------------------------------------------------
(* The theorems *)

\* A new grant is good.
LEMMA LedgerInvInit == Init => LedgerInv
<1> SUFFICES ASSUME Init PROVE LedgerInv
  BY Zenon
<1>1. mem \in Budgets
  <2>1. {Budget, PerCallMax, 0} \subseteq Nat
    BY LedgerAssumption
  <2> QED BY <2>1, Zenon DEF Init, Budgets
<1>2. TypeOK
  BY <1>1, Zenon DEF Init, TypeOK, Unborn, Statuses
<1>3. Contents \subseteq {mem}
  BY Zenon DEF Init, Contents
<1>4. \A h \in Holds : ~HasCall(mem, h)
  BY Zenon DEF Init, HasCall
<1>5. \A c \in Cells : mem.pending[c] = 0
  BY Zenon DEF Init
<1>6. Good(mem)
  <2>1. Kept(mem)
    BY <1>4, Zenon DEF Kept
  <2>2. UnresolvedCells(mem) = {} /\ UnresolvedCalls(mem) = {}
    BY <1>4, <1>5 DEF UnresolvedCells, UnresolvedCalls
  <2>3. Unresolved(mem) = 0 /\ mem.failures = 0
    <3>1. Unresolved(mem) = 0
      BY <2>2, FS_EmptySet DEF Unresolved
    <3>2. mem.failures = 0
      BY Zenon DEF Init
    <3> QED BY <3>1, <3>2, Zenon
  <2> QED BY <1>1, <2>1, <2>3, LedgerAssumption DEF Good
<1>7. Backed
  BY <1>5, Zenon DEF Backed, Counted, Init, Unborn
<1> QED BY <1>2, <1>3, <1>6, <1>7, Zenon DEF LedgerInv

\* Every operation of the service and every payment keeps the invariant.
LEMMA LedgerInvNext == LedgerInv /\ [Next]_vars => LedgerInv'
\* persist_with_clock, whatever its outcome, keeps the invariant when the new
\* budget is good and forgets nothing.
<1>PersistKeeps.
    ASSUME LedgerInv, Live, NEW n, Good(n), Loyal(n),
           \/ mem' = n /\ disk' = {n}
           \/ mem' = mem /\ disk' \in {{n}, disk \cup {n}},
           UNCHANGED pay
    PROVE  LedgerInv'
  <2> USE <1>PersistKeeps
  <2>1. n \in Budgets
    BY Zenon DEF Good
  <2>2. TypeOK'
    BY <2>1, Zenon DEF LedgerInv, TypeOK
  <2>3. Contents' \subseteq Contents \cup {n} /\ (disk' \ {None}) \subseteq (disk \ {None}) \cup {n}
    BY Zenon DEF Contents
  <2>4. mem \in Contents
    BY Zenon DEF Contents, Live
  <2>5. \A b \in Contents' : Good(b)
    BY <2>3, Zenon DEF LedgerInv
  <2>6. Backed'
    <3> SUFFICES ASSUME NEW c \in Cells
                 PROVE  /\ Live' /\ pay[c].st \in {"none", "inflight"} /\ Counted(mem', c)
                            => \A b \in disk' \ {None} : Counted(b, c)
                        /\ pay[c].st = "inflight" => \A b \in Contents' : Counted(b, c)
      BY Zenon DEF Backed
    <3>1. pay[c].st = "inflight" => \A b \in Contents : Counted(b, c)
      BY Zenon DEF LedgerInv, Backed
    <3>2. pay[c].st \in {"none", "inflight"} /\ Counted(mem, c) =>
              /\ \A b \in disk \ {None} : Counted(b, c)
              /\ Counted(n, c)
      BY Zenon DEF LedgerInv, Backed, Loyal
    <3>3. CASE mem' = n /\ disk' = {n}
      BY <2>3, <2>4, <3>1, <3>2, <3>3, Zenon
    <3>4. CASE mem' = mem
      BY <2>3, <2>4, <3>1, <3>2, <3>4, Zenon
    <3> QED BY <3>3, <3>4, Zenon
  <2>7. (\A b \in Contents : Good(b))'
    BY <2>5, Zenon
  <2> QED BY <2>2, <2>6, <2>7, Zenon DEF LedgerInv

\* reserve_spend_locked
<1>ReserveStep.
    ASSUME LedgerInv, NEW i \in Ids, Free(i), NEW charges \in Charges, Reserve(i, charges)
    PROVE  LedgerInv'
  <2> USE <1>ReserveStep
  <2> DEFINE n == Pend(Debit(mem, charges), i, charges)
  <2>1. Live /\ Fits(mem, charges, charges) /\ Persist(n) /\ UNCHANGED pay
    BY Zenon DEF Reserve
  <2>2. charges \in [Recipients -> Nat]
    BY LedgerAssumption DEF Charges
  <2>3. Good(n) /\ n.call = mem.call /\ \A c \in Cells : mem.pending[c] > 0 => n.pending[c] > 0
    BY <2>1, <2>2, MemGood, ReserveGood, Zenon
  <2> HIDE DEF n
  <2>4. Loyal(n)
    BY <2>3, Zenon DEF Loyal, Counted, HasCall
  <2> QED BY <2>1, <2>3, <2>4, <1>PersistKeeps, Zenon DEF Persist

\* reserve_call_spend
<1>ReserveCallStep.
    ASSUME LedgerInv, NEW h \in Holds, Free(h), NEW r \in Recipients, ReserveCall(h, r)
    PROVE  LedgerInv'
  <2> USE <1>ReserveCallStep
  <2> DEFINE n == WithHold(mem, h, r)
  <2>1. Live /\ Fits(mem, One(r, Reserved), One(r, PerBlock)) /\ Persist(n) /\ UNCHANGED pay
    BY Zenon DEF ReserveCall, HoldAllowed
  <2>2. h \in Ids /\ \A q \in Recipients : mem.pending[<<h, q>>] = 0
    BY <2>1, MemGood, LedgerAssumption, ZenonT(60)
  <2>3. /\ Good(n)
        /\ \A g \in Holds : HasCall(n, g) <=> g = h \/ HasCall(mem, g)
        /\ \A j \in Ids, q \in Recipients :
              n.pending[<<j, q>>] = IF j = h THEN One(r, Reserved)[q] ELSE mem.pending[<<j, q>>]
    BY <2>1, <2>2, MemGood, HoldGood, ZenonT(60)
  <2> HIDE DEF n
  <2>4. Loyal(n)
    BY <2>2, <2>3 DEF Loyal, Counted, Cells
  <2> QED BY <2>1, <2>3, <2>4, <1>PersistKeeps, Zenon DEF Persist

\* reserve_call_with_offer
<1>ReserveCallWithOfferStep.
    ASSUME LedgerInv, NEW i \in Ids, Free(i), NEW h \in Holds \ {i}, Free(h),
           NEW r \in Recipients, NEW amount \in Nat, ReserveCallWithOffer(h, i, r, amount)
    PROVE  LedgerInv'
  <2> USE <1>ReserveCallWithOfferStep
  <2> DEFINE b == WithHold(mem, h, r)
             n == Pend(Debit(b, One(r, amount)), i, One(r, amount))
  <2>1. /\ Live /\ Fits(mem, One(r, Reserved), One(r, PerBlock))
        /\ Fits(b, One(r, amount), One(r, amount)) /\ Persist(n) /\ UNCHANGED pay
    BY Zenon DEF ReserveCallWithOffer, HoldAllowed
  <2>2. /\ h \in Ids /\ \A q \in Recipients : mem.pending[<<h, q>>] = 0 /\ mem.pending[<<i, q>>] = 0
        /\ i \in Holds => ~HasCall(mem, i)
    BY <2>1, MemGood, LedgerAssumption, ZenonT(60)
  <2>3. /\ Good(b)
        /\ \A g \in Holds : HasCall(b, g) <=> g = h \/ HasCall(mem, g)
        /\ \A j \in Ids, q \in Recipients :
              b.pending[<<j, q>>] = IF j = h THEN One(r, Reserved)[q] ELSE mem.pending[<<j, q>>]
    BY <2>1, <2>2, MemGood, HoldGood, ZenonT(60)
  <2> HIDE DEF b
  <2>4. b \in Budgets /\ (\A q \in Recipients : b.pending[<<i, q>>] = 0) /\ (i \in Holds => ~HasCall(b, i))
    BY <2>2, <2>3, Zenon DEF Good
  <2>5. Good(n) /\ n.call = b.call /\ \A c \in Cells : b.pending[c] > 0 => n.pending[c] > 0
    BY <2>1, <2>3, <2>4, OneType, ReserveGood, Zenon
  <2> HIDE DEF n
  <2>6. \A g \in Holds : HasCall(n, g) <=> g = h \/ HasCall(mem, g)
    BY <2>3, <2>5, Zenon DEF HasCall
  <2>7. Loyal(n)
    <3>1. ASSUME NEW c \in Cells, Counted(mem, c)
          PROVE  Counted(n, c)
      <4>1. c[1] \in Ids /\ c[2] \in Recipients /\ c = <<c[1], c[2]>>
        BY SMTT(60) DEF Cells
      <4>2. c[1] # h
        <5>1. mem.pending[<<c[1], c[2]>>] > 0
          BY <3>1, <4>1, Zenon DEF Counted
        <5>2. mem.pending[<<h, c[2]>>] = 0
          BY <2>2, <4>1, Zenon
        <5> QED BY <5>1, <5>2
      <4>3. n.pending[c] > 0
        BY <2>3, <2>5, <3>1, <4>1, <4>2, Zenon DEF Counted
      <4> QED BY <2>6, <3>1, <4>2, <4>3, Zenon DEF Counted
    <3> QED BY <3>1, Zenon DEF Loyal
  <2> QED BY <2>1, <2>5, <2>7, <1>PersistKeeps, Zenon DEF Persist

\* reserve_quoted_readmission
<1>ReadmitStep.
    ASSUME LedgerInv, NEW i \in Ids, NEW r \in Recipients, NEW amount \in Nat,
           NEW j \in Ids, Free(j), NEW admission \in Nat, Readmit(i, r, amount, j, admission)
    PROVE  LedgerInv'
  <2> USE <1>ReadmitStep
  <2> DEFINE b == TopUp(mem, i, r, amount)
             n == Pend(Debit(b, One(r, admission)), j, One(r, admission))
  <2>1. /\ Live /\ Parent(i, r) /\ (amount > 0 => Fits(mem, One(r, amount), One(r, amount)))
        /\ Fits(b, One(r, admission), One(r, admission)) /\ Persist(n) /\ UNCHANGED pay
    BY Zenon DEF Readmit
  <2>2. amount > 0 => Total(One(r, amount)) \in Nat
    BY <2>1, MemGood, FitsBounds, Zenon
  <2>3. Good(b) /\ b.call = mem.call /\ \A c \in Cells : mem.pending[c] > 0 <=> b.pending[c] > 0
    <3>1. mem.pending[<<i, r>>] > 0 /\ DrawnFor(mem, i) = {} /\ ~(i \in Holds /\ HasCall(mem, i))
      BY <2>1, ZenonT(60) DEF Parent
    <3> QED BY <2>1, <2>2, <3>1, MemGood, TopUpGood, Zenon
  <2> HIDE DEF b
  <2>4. b \in Budgets /\ (\A q \in Recipients : b.pending[<<j, q>>] = 0) /\ (j \in Holds => ~HasCall(b, j))
    <3>1. b \in Budgets
      BY <2>3, Zenon DEF Good
    <3>2. \A q \in Recipients : mem.pending[<<j, q>>] = 0 /\ <<j, q>> \in Cells /\ b.pending[<<j, q>>] \in Nat
      BY <2>1, <3>1, MemGood, Zenon DEF Cells, Budgets
    <3> QED BY <2>1, <2>3, <3>1, <3>2, MemGood, SMTT(60) DEF HasCall
  <2>5. Good(n) /\ n.call = b.call /\ \A c \in Cells : b.pending[c] > 0 => n.pending[c] > 0
    BY <2>1, <2>3, <2>4, OneType, ReserveGood, Zenon
  <2> HIDE DEF n
  <2>6. Loyal(n)
    BY <2>3, <2>5, Zenon DEF Loyal, Counted, HasCall
  <2> QED BY <2>1, <2>5, <2>6, <1>PersistKeeps, Zenon DEF Persist

\* reserve_quoted_readmission, refused after the top-up was written
<1>ReadmitRefusedStep.
    ASSUME LedgerInv, NEW i \in Ids, NEW r \in Recipients, NEW amount \in Nat, ReadmitRefused(i, r, amount)
    PROVE  LedgerInv'
  <2> USE <1>ReadmitRefusedStep
  <2> DEFINE n == TopUp(mem, i, r, amount)
  <2>1. /\ Live /\ Parent(i, r) /\ Fits(mem, One(r, amount), One(r, amount)) /\ UNCHANGED pay
        /\ mem' = mem /\ disk' \in {{n}, disk \cup {n}}
    BY Zenon DEF ReadmitRefused
  <2>2. Total(One(r, amount)) \in Nat
    BY <2>1, MemGood, FitsBounds, Zenon
  <2>3. Good(n) /\ n.call = mem.call /\ \A c \in Cells : mem.pending[c] > 0 <=> n.pending[c] > 0
    <3>1. mem.pending[<<i, r>>] > 0 /\ DrawnFor(mem, i) = {} /\ ~(i \in Holds /\ HasCall(mem, i))
      BY <2>1, Zenon DEF Parent
    <3> QED BY <2>1, <2>2, <3>1, MemGood, TopUpGood, Zenon
  <2> HIDE DEF n
  <2>4. Loyal(n)
    BY <2>3, Zenon DEF Loyal, Counted, HasCall
  <2> QED BY <2>1, <2>3, <2>4, <1>PersistKeeps, Zenon

\* draw_call_spend_for_grant, reserve_call_closing_spend
<1>DrawStep.
    ASSUME LedgerInv, NEW h \in Holds, NEW i \in Ids, Free(i), NEW s \in Seqs,
           NEW amount \in Nat, amount > 0, Draw(h, i, s, amount)
    PROVE  LedgerInv'
  <2> USE <1>DrawStep
  <2> DEFINE n == DrawFrom(mem, h, i, s, amount)
  <2>1. /\ Live /\ HasCall(mem, h) /\ ~mem.call[h].closed
        /\ amount <= mem.pending[<<h, mem.call[h].peer>>] /\ Persist(n) /\ UNCHANGED pay
    BY Zenon DEF Draw
  <2>2. /\ Good(n) /\ \A g \in Holds : HasCall(n, g) <=> HasCall(mem, g)
        /\ \A c \in Cells : c[1] # h /\ mem.pending[c] > 0 => n.pending[c] > 0
    BY <2>1, MemGood, DrawGood, Zenon
  <2> HIDE DEF n
  <2>3. Loyal(n)
    BY <2>1, <2>2, Zenon DEF Loyal, Counted
  <2> QED BY <2>1, <2>2, <2>3, <1>PersistKeeps, Zenon DEF Persist

\* close_call_spend, enforce_call_hold_limit
<1>CloseStep.
    ASSUME LedgerInv, NEW h \in Holds, CloseCall(h) \/ EnforceHoldLimit(h)
    PROVE  LedgerInv'
  <2> USE <1>CloseStep
  <2> DEFINE n == CloseHold(mem, h)
  <2>1. Live /\ HasCall(mem, h) /\ Persist(n) /\ UNCHANGED pay
    BY Zenon DEF CloseCall, EnforceHoldLimit
  <2>2. /\ Good(n) /\ \A g \in Holds : HasCall(n, g) <=> HasCall(mem, g)
        /\ \A c \in Cells : c[1] # h => n.pending[c] = mem.pending[c]
    BY <2>1, MemGood, CloseGood, Zenon
  <2> HIDE DEF n
  <2>3. Loyal(n)
    BY <2>1, <2>2, Zenon DEF Loyal, Counted
  <2> QED BY <2>1, <2>2, <2>3, <1>PersistKeeps, Zenon DEF Persist

\* prune_call_tombstones
<1>PruneStep.
    ASSUME LedgerInv, NEW h \in Holds, PruneTombstone(h)
    PROVE  LedgerInv'
  <2> USE <1>PruneStep
  <2> DEFINE n == [mem EXCEPT !.call[h] = None]
  <2>1. /\ Live /\ HasCall(mem, h) /\ Persist(n) /\ UNCHANGED pay
        /\ mem.call[h].closed /\ mem.call[h].draws = {} /\ mem.call[h].recorded
    BY Zenon DEF PruneTombstone
  <2>2. Good(n) /\ n.pending = mem.pending /\ \A g \in Holds : HasCall(n, g) => HasCall(mem, g)
    BY <2>1, MemGood, PruneGood, Zenon
  <2> HIDE DEF n
  <2>3. Loyal(n)
    BY <2>2, Zenon DEF Loyal, Counted
  <2> QED BY <2>1, <2>2, <2>3, <1>PersistKeeps, Zenon DEF Persist

\* try_resolve_spend_outcome
<1>ResolveStep.
    ASSUME LedgerInv, NEW i \in Ids, NEW r \in Recipients, Resolve(i, r)
    PROVE  LedgerInv'
  <2> USE <1>ResolveStep
  <2> DEFINE c == <<i, r>>
             x == IF pay[c].st = "paid" THEN pay[c].amt ELSE 0
             e == Consume(mem, c)
  <2>1. /\ Live /\ mem.pending[c] > 0 /\ ~(i \in Holds /\ HasCall(mem, i))
        /\ pay[c].st \in {"void", "failed", "paid"} /\ UNCHANGED pay
    BY Zenon DEF Resolve
  <2>2. c \in Cells /\ x \in Nat
    <3>1. c \in Cells
      BY Zenon DEF Cells
    <3>2. x \in Nat
      BY <3>1, Zenon DEF LedgerInv, TypeOK
    <3> QED BY <3>1, <3>2, Zenon
  <2>3. pay[c].st \notin {"none", "inflight"}
    BY <2>1, Zenon
  <2>4. CASE DrawnFor(mem, i) = {} /\ Persist(RecordOutcome(Settle(e, r, mem.pending[c], x), x))
    <3> DEFINE n == RecordOutcome(Settle(e, r, mem.pending[c], x), x)
    <3>1. Good(n) /\ n.call = mem.call /\ \A d \in Cells \ {c} : n.pending[d] = mem.pending[d]
      BY <2>1, <2>2, <2>4, MemGood, ResolveGood, ZenonT(60)
    <3>2. Persist(n)
      BY <2>4, Zenon
    <3> HIDE DEF n
    <3>3. Loyal(n)
      BY <2>3, <3>1, Zenon DEF Loyal, Counted, HasCall
    <3> QED BY <2>1, <3>1, <3>2, <3>3, <1>PersistKeeps, Zenon DEF Persist
  <2>5. ASSUME NEW hs \in DrawnFor(mem, i),
               Persist(ResolveCallDraw(e, hs[1], i, hs[2], mem.pending[c], x, pay[c].st))
        PROVE  LedgerInv'
    <3>1. PICK h \in Holds, s \in Seqs : hs = <<h, s>>
      <4>1. hs \in Holds \X Seqs
        BY <2>1, MemGood, DrawnForIs, Zenon
      <4> QED BY <4>1
    <3>2. <<h, s>> \in DrawnFor(mem, i) /\ hs[1] = h /\ hs[2] = s
      BY <3>1, Zenon
    <3>3. HasCall(mem, h)
      BY <2>1, <3>2, MemGood, DrawnForIs, Zenon
    <3> DEFINE n == ResolveCallDraw(e, h, i, s, mem.pending[c], x, pay[c].st)
    <3>4. Persist(n)
      BY <2>5, <3>2, Zenon
    <3> HIDE DEF x
    <3>5. /\ Good(n) /\ \A g \in Holds : HasCall(n, g) <=> HasCall(mem, g)
          /\ \A d \in Cells : d # c /\ d[1] # h => n.pending[d] = mem.pending[d]
      <4>1. mem \in Budgets /\ Good(mem)
        BY <2>1, MemGood, Zenon
      <4>2. pay[c].st \in Statuses
        BY <2>2, Zenon DEF LedgerInv, TypeOK
      <4>3. Good(n)
        BY <2>1, <2>2, <3>2, <4>1, <4>2, ResolveDrawGood, Zenon
      <4>4. Spares(mem, n, c, h)
        BY <2>1, <2>2, <3>2, <4>1, <4>2, ResolveDrawGood, Zenon
      <4> HIDE DEF n, c
      <4> QED BY <4>3, <4>4, Zenon DEF Spares
    <3> HIDE DEF n
    <3>6. Loyal(n)
      BY <2>3, <3>3, <3>5, Zenon DEF Loyal, Counted
    <3> QED BY <2>1, <3>4, <3>5, <3>6, <1>PersistKeeps, Zenon DEF Persist
  <2> QED BY <2>4, <2>5, Zenon DEF Resolve

\* open_envelope
<1>RenewStep.
    ASSUME LedgerInv, NEW r \in Recipients, NEW amount \in Nat, NEW act \in Nat, Renew(r, amount, act)
    PROVE  LedgerInv'
  <2> USE <1>RenewStep
  <2> DEFINE n == OpenEnvelope(mem, r, amount, act)
  <2>1. Live /\ Persist(n) /\ UNCHANGED pay
    BY Zenon DEF Renew
  <2>2. n \in Budgets /\ n.pending = mem.pending /\ n.call = mem.call /\ n.failures = mem.failures
    BY <2>1, MemGood, OpenEnvelopeKeeps, Zenon
  <2> HIDE DEF n
  <2>3. Good(n)
    BY <2>1, <2>2, MemGood, SameEntries, Zenon DEF Good
  <2>4. Loyal(n)
    BY <2>2, Zenon DEF Loyal, Counted, HasCall
  <2> QED BY <2>1, <2>3, <2>4, <1>PersistKeeps, Zenon DEF Persist

\* reset_breakers
<1>ResetStep.
    ASSUME LedgerInv, ResetBreakers
    PROVE  LedgerInv'
  <2> USE <1>ResetStep
  <2> DEFINE n == [mem EXCEPT !.failures = 0, !.paused = FALSE]
  <2>1. Live /\ Persist(n) /\ UNCHANGED pay
    BY Zenon DEF ResetBreakers
  <2>2. n \in Budgets /\ n.pending = mem.pending /\ n.call = mem.call /\ n.failures = 0
    BY <2>1, MemGood, ZenonT(60) DEF Budgets
  <2> HIDE DEF n
  <2>3. Good(n)
    <3>1. Kept(n) /\ Unresolved(n) = Unresolved(mem) /\ mem.failures \in Nat
      BY <2>1, <2>2, MemGood, SameEntries, Zenon DEF Good, Budgets
    <3> QED BY <2>1, <2>2, <3>1, MemGood, UnresolvedFinite, LedgerAssumption, SMTT(60) DEF Good
  <2>4. Loyal(n)
    BY <2>2, Zenon DEF Loyal, Counted, HasCall
  <2> QED BY <2>1, <2>3, <2>4, <1>PersistKeeps, Zenon DEF Persist

\* revoke_grants and a restart only drop contents.
<1>RestartStep.
    ASSUME LedgerInv, Revoke \/ Crash
    PROVE  LedgerInv'
  <2> USE <1>RestartStep
  <2>1. TypeOK' /\ UNCHANGED pay
    BY Zenon DEF LedgerInv, TypeOK, Revoke, Crash
  <2>2. Contents' \subseteq Contents
    BY Zenon DEF Contents, Revoke, Crash
  <2>3. (\A b \in Contents : Good(b))'
    BY <2>2, Zenon DEF LedgerInv
  <2>4. Backed'
    <3> SUFFICES ASSUME NEW c \in Cells
                 PROVE  /\ Live' /\ pay[c].st \in {"none", "inflight"} /\ Counted(mem', c)
                            => \A b \in disk' \ {None} : Counted(b, c)
                        /\ pay[c].st = "inflight" => \A b \in Contents' : Counted(b, c)
      BY <2>1, Zenon DEF Backed
    <3>1. pay[c].st = "inflight" => \A b \in Contents' : Counted(b, c)
      BY <2>2, Zenon DEF LedgerInv, Backed
    <3>2. ASSUME Live', Counted(mem', c)
          PROVE  \A b \in disk' \ {None} : Counted(b, c)
      BY <3>2, Zenon DEF Revoke, Crash, Live
    <3> QED BY <3>1, <3>2, Zenon
  <2> QED BY <2>1, <2>3, <2>4, Zenon DEF LedgerInv

\* Only a dispatch, of a reservation that every content holds, puts a payment
\* under way.
<1>PaymentStep.
    ASSUME LedgerInv, NEW i \in Ids, NEW r \in Recipients,
           Dispatch(i, r) \/ Decline(i, r) \/ PaymentFails(<<i, r>>) \/ PaymentSettles(<<i, r>>)
    PROVE  LedgerInv'
  <2> USE <1>PaymentStep
  <2> DEFINE c == <<i, r>>
             Payment == [st : Statuses, amt : Nat, for : (Holds \X Seqs) \cup {None}]
  <2>1. c \in Cells /\ pay \in [Cells -> Payment]
    BY Zenon DEF Cells, LedgerInv, TypeOK
  <2>2. UNCHANGED <<mem, disk>>
    BY ZenonT(60) DEF Dispatch, Decline, PaymentFails, PaymentSettles, Outcome
  <2>3. /\ pay' \in [Cells -> Payment]
        /\ \A d \in Cells \ {c} : pay'[d] = pay[d]
        /\ \/ pay'[c].st \notin {"none", "inflight"}
           \/ Live /\ pay[c].st = "none" /\ Counted(mem, c)
    <3>1. CASE Dispatch(i, r)
      <4>1. Live /\ pay[c].st = "none" /\ mem.pending[c] > 0 /\ ~(i \in Holds /\ HasCall(mem, i))
        BY <3>1, ZenonT(60) DEF Dispatch
      <4>2. PICK for \in IF DrawnFor(mem, i) = {} THEN {None} ELSE DrawnFor(mem, i) :
                pay' = [pay EXCEPT ![c] = [st |-> "inflight", amt |-> mem.pending[c], for |-> for]]
        BY <3>1, Zenon DEF Dispatch
      <4>3. for \in (Holds \X Seqs) \cup {None} /\ mem.pending[c] \in Nat
        BY <2>1, <4>1, MemGood, DrawnForIs, ZenonT(60) DEF Budgets
      <4>4. [st |-> "inflight", amt |-> mem.pending[c], for |-> for] \in Payment
        BY <4>3, ZenonT(60) DEF Statuses
      <4> HIDE DEF Payment
      <4>5. pay' \in [Cells -> Payment] /\ \A d \in Cells \ {c} : pay'[d] = pay[d]
        BY <2>1, <4>2, <4>4, Zenon
      <4> QED BY <4>1, <4>5, Zenon DEF Counted
    <3>2. ASSUME NEW from, NEW to \in Statuses \ {"none", "inflight"}, NEW amount \in Nat,
                 Outcome(c, from, to, amount)
          PROVE  /\ pay' \in [Cells -> Payment]
                 /\ \A d \in Cells \ {c} : pay'[d] = pay[d]
                 /\ pay'[c].st \notin {"none", "inflight"}
      BY <2>1, <3>2, Zenon DEF Outcome
    <3>3. CASE Decline(i, r)
      <4>1. "void" \in Statuses \ {"none", "inflight"} /\ 0 \in Nat
        BY Zenon DEF Statuses
      <4> QED BY <3>2, <3>3, <4>1, Zenon DEF Decline
    <3>4. CASE PaymentFails(c)
      <4>1. "failed" \in Statuses \ {"none", "inflight"} /\ 0 \in Nat
        BY Zenon DEF Statuses
      <4> QED BY <3>2, <3>4, <4>1, Zenon DEF PaymentFails
    <3>5. CASE PaymentSettles(c)
      <4>1. "paid" \in Statuses \ {"none", "inflight"}
        BY Zenon DEF Statuses
      <4>2. PICK amount \in 1 .. pay[c].amt + MaxOverrun : Outcome(c, "inflight", "paid", amount)
        BY <3>5, Zenon DEF PaymentSettles
      <4>3. amount \in Nat
        BY <2>1, LedgerAssumption
      <4> QED BY <3>2, <4>1, <4>2, <4>3, Zenon
    <3> QED BY <3>1, <3>3, <3>4, <3>5, Zenon
  <2>4. TypeOK'
    BY <2>2, <2>3, Zenon DEF LedgerInv, TypeOK
  <2>5. Contents' = Contents /\ (Live' <=> Live)
    BY <2>2, Zenon DEF Contents, Live
  <2>6. (\A b \in Contents : Good(b))'
    BY <2>5, Zenon DEF LedgerInv
  <2>7. Backed'
    <3> SUFFICES ASSUME NEW d \in Cells
                 PROVE  /\ Live /\ pay'[d].st \in {"none", "inflight"} /\ Counted(mem, d)
                            => \A b \in disk \ {None} : Counted(b, d)
                        /\ pay'[d].st = "inflight" => \A b \in Contents : Counted(b, d)
      BY <2>2, <2>5, Zenon DEF Backed
    <3>1. /\ Live /\ pay[d].st \in {"none", "inflight"} /\ Counted(mem, d)
               => \A b \in disk \ {None} : Counted(b, d)
          /\ pay[d].st = "inflight" => \A b \in Contents : Counted(b, d)
      BY Zenon DEF LedgerInv, Backed
    <3>2. CASE d # c
      BY <2>3, <3>1, <3>2, Zenon
    <3>3. CASE d = c
      BY <2>3, <3>1, <3>3, Zenon DEF Contents
    <3> QED BY <3>2, <3>3, Zenon
  <2> QED BY <2>4, <2>6, <2>7, Zenon DEF LedgerInv
<1> SUFFICES ASSUME LedgerInv, [Next]_vars PROVE LedgerInv'
  BY Zenon
<1>1. CASE UNCHANGED vars
  BY <1>1, Zenon DEF vars, LedgerInv, TypeOK, Contents, Backed, Live
<1>2. ASSUME NEW a \in Amounts PROVE a \in Nat /\ a > 0
  BY LedgerAssumption DEF Amounts, Max2
<1>3. ASSUME NEW i \in Ids, Free(i), NEW charges \in Charges, Reserve(i, charges)
      PROVE  LedgerInv'
  BY <1>3, <1>ReserveStep, Zenon
<1>4. ASSUME NEW i \in Holds, Free(i), NEW r \in Recipients, ReserveCall(i, r)
      PROVE  LedgerInv'
  BY <1>4, <1>ReserveCallStep, Zenon
<1>5. ASSUME NEW i \in Ids, Free(i), NEW h \in Holds \ {i}, NEW r \in Recipients,
             NEW a \in Amounts, Free(h), ReserveCallWithOffer(h, i, r, a)
      PROVE  LedgerInv'
  BY <1>2, <1>5, <1>ReserveCallWithOfferStep, Zenon
<1>6. ASSUME NEW i \in Ids, Free(i), NEW p \in Ids, NEW r \in Recipients,
             NEW t \in Amounts \cup {0}, NEW a \in Amounts, Readmit(p, r, t, i, a)
      PROVE  LedgerInv'
  BY <1>2, <1>6, <1>ReadmitStep, Zenon
<1>7. ASSUME NEW i \in Ids, Free(i), NEW h \in Holds, NEW s \in Seqs, NEW a \in Amounts,
             Draw(h, i, s, a)
      PROVE  LedgerInv'
  BY <1>2, <1>7, <1>DrawStep, Zenon
<1>8. ASSUME NEW i \in Ids, NEW r \in Recipients, NEW a \in Amounts, ReadmitRefused(i, r, a)
      PROVE  LedgerInv'
  BY <1>2, <1>8, <1>ReadmitRefusedStep, Zenon
<1>9. ASSUME NEW i \in Ids, NEW r \in Recipients,
             \/ Resolve(i, r) \/ Dispatch(i, r) \/ Decline(i, r)
             \/ PaymentFails(<<i, r>>) \/ PaymentSettles(<<i, r>>)
      PROVE  LedgerInv'
  BY <1>9, <1>ResolveStep, <1>PaymentStep, Zenon
<1>10. ASSUME NEW h \in Holds, CloseCall(h) \/ EnforceHoldLimit(h) \/ PruneTombstone(h)
       PROVE  LedgerInv'
  BY <1>10, <1>CloseStep, <1>PruneStep, Zenon
<1>11. ASSUME NEW r \in Recipients, NEW a \in Envelopes, NEW act \in Amounts, Renew(r, a, act)
       PROVE  LedgerInv'
  BY <1>2, <1>11, LedgerAssumption, <1>RenewStep, Zenon
<1>12. CASE ResetBreakers \/ Revoke \/ Crash
  BY <1>12, <1>ResetStep, <1>RestartStep, Zenon
<1> QED
  BY <1>1, <1>3, <1>4, <1>5, <1>6, <1>7, <1>8, <1>9, <1>10, <1>11, <1>12, Zenon DEF Next

\* The ledger is always well formed, with every payable reservation in the file.
THEOREM LedgerAlwaysKept == Spec => []LedgerInv
BY LedgerInvInit, LedgerInvNext, PTL DEF Spec

\* breaker_status and reserve_bounded: failures counted and failures still
\* possible never exceed max_consecutive_failures, over crashes and failed writes.
THEOREM FailuresAreBounded == Spec => []FailureSlots
<1>1. LedgerInv => FailureSlots
  BY Zenon DEF LedgerInv, Good, FailureSlots
<1> QED BY <1>1, LedgerAlwaysKept, PTL

\* with_call_spend_authority: nothing is paid that a restart would not find reserved.
THEOREM PaymentsAreCounted == Spec => []CountedBeforePaid
<1>1. LedgerInv => CountedBeforePaid
  BY Zenon DEF LedgerInv, Backed, Counted, Contents, CountedBeforePaid
<1> QED BY <1>1, LedgerAlwaysKept, PTL

-----------------------------------------------------------------------------
(* When a budget stays balanced *)

\* n is good and has the calls of b (each operation does this).
GoodAlike(b, n) == Good(n) /\ \A g \in Holds : HasCall(n, g) <=> HasCall(b, g)

\* A charge within the limits keeps the envelopes' sum.
LEMMA CappedCharged ==
    ASSUME NEW b \in Budgets, NEW n \in Budgets, Capped(b),
           NEW delta \in [Recipients -> Int], Charged(b, n, delta),
           n.used <= n.budget, \A r \in Recipients : n.usedBy[r] <= n.cap[r]
    PROVE  Capped(n)
<1> SUFFICES ASSUME RecipientsOnly PROVE Enveloped(n)
  BY Zenon DEF Capped
<1> DEFINE f == [r \in Recipients |-> Sub(b.cap[r], b.usedBy[r])]
           g == [r \in Recipients |-> Sub(n.cap[r], n.usedBy[r])]
<1>1. /\ b.cap \in [Recipients -> Nat] /\ b.usedBy \in [Recipients -> Nat] /\ b.used \in Nat
      /\ n.cap = b.cap /\ n.budget = b.budget /\ n.usedBy \in [Recipients -> Nat]
      /\ n.used = b.used + Total(delta)
  BY Zenon DEF Budgets, Charged, SameLimits
<1>2. \A r \in Recipients : b.usedBy[r] <= b.cap[r] /\ n.usedBy[r] = b.usedBy[r] + delta[r]
  BY Zenon DEF Capped, Charged
<1>3. \A r \in Recipients : g[r] \in Int /\ delta[r] \in Int /\ f[r] = g[r] + delta[r]
  BY <1>1, <1>2 DEF Sub, Max2
<1>4. b.budget = b.used + SumFunctionOnSet(f, Recipients)
  BY Zenon DEF Capped, Enveloped
<1> HIDE DEF f, g
<1>5. SumFunctionOnSet(f, Recipients) = SumFunctionOnSet(g, Recipients) + Total(delta)
  BY <1>3, LedgerAssumption, SumPlus, Zenon DEF Total
<1>6. SumFunctionOnSet(g, Recipients) \in Int /\ Total(delta) \in Int
  BY <1>3, LedgerAssumption, SumType, Zenon DEF Total
<1>7. n.budget = n.used + SumFunctionOnSet(g, Recipients)
  <2>1. ASSUME NEW x \in Nat, NEW y \in Int, NEW z \in Int PROVE x + (y + z) = (x + z) + y
    OBVIOUS
  <2> QED BY <1>1, <1>4, <1>5, <1>6, <2>1, Zenon
<1> QED BY <1>7, Zenon DEF g, Enveloped

\* A charge of one recipient that gives back, or charges nothing.
LEMMA CappedLess ==
    ASSUME NEW b \in Budgets, NEW n \in Budgets, Capped(b), NEW r \in Recipients, NEW d \in Int, d <= 0,
           Charged(b, n, One(r, d))
    PROVE  Capped(n)
<1>1. One(r, d) \in [Recipients -> Int] /\ Total(One(r, d)) = d
  BY TotalOne, Zenon
<1>2. /\ b.used \in Nat /\ b.budget \in Nat /\ b.used <= b.budget /\ n.budget = b.budget /\ n.used = b.used + d
  BY <1>1, Zenon DEF Budgets, Capped, Charged, SameLimits
<1>3. \A q \in Recipients : n.usedBy[q] <= n.cap[q]
  <2> TAKE q \in Recipients
  <2>1. /\ b.usedBy[q] \in Nat /\ b.cap[q] \in Nat /\ b.usedBy[q] <= b.cap[q] /\ n.cap = b.cap
        /\ n.usedBy[q] = b.usedBy[q] + One(r, d)[q]
    BY Zenon DEF Budgets, Capped, Charged, SameLimits
  <2>2. One(r, d)[q] \in Int /\ One(r, d)[q] <= 0
    BY DEF One
  <2> QED BY <2>1, <2>2
<1> HIDE DEF One
<1> QED BY <1>1, <1>2, <1>3, CappedCharged

\* A charge of one recipient.
LEMMA OneTally ==
    ASSUME NEW b \in Budgets, NEW n \in Budgets, NEW p \in Pays, Tallied(b, p),
           NEW r \in Recipients, NEW d \in Int, Charged(b, n, One(r, d)),
           \A c \in Cells : c[2] # r => n.pending[c] = b.pending[c],
           Keeping(n, p, r) = Keeping(b, p, r) + d
    PROVE  Tallied(n, p)
<1> DEFINE delta == One(r, d)
<1>1. delta \in [Recipients -> Int] /\ \A q \in Recipients : delta[q] = IF q = r THEN d ELSE 0
  BY DEF One
<1>2. ASSUME NEW q \in Recipients, q # r
      PROVE  Keeping(n, p, q) = Keeping(b, p, q)
  <2> DEFINE f == [i \in Ids |-> KeptOrPaid(b, p, <<i, q>>)]
             g == [i \in Ids |-> KeptOrPaid(n, p, <<i, q>>)]
  <2>1. \A i \in Ids : n.pending[<<i, q>>] = b.pending[<<i, q>>]
    BY <1>2, Zenon DEF Cells
  <2>2. \A i \in Ids : f[i] = g[i]
    BY <2>1, Zenon DEF KeptOrPaid
  <2>3. f = g
    BY <2>2, Zenon
  <2> QED BY <2>3, Zenon DEF Keeping
<1>3. \A q \in Recipients : Keeping(n, p, q) = Keeping(b, p, q) + delta[q]
  BY <1>1, <1>2, KeptTypes
<1> HIDE DEF delta
<1>4. Charged(b, n, delta)
  BY Zenon DEF delta
<1> QED BY <1>1, <1>3, <1>4, TalliedCharged, SMTT(60)

\* Tallied gives what the operations need of the used amounts.
LEMMA TalliedCovers ==
    ASSUME NEW b \in Budgets, NEW p \in Pays, Tallied(b, p)
    PROVE  Covered(b)
BY KeptIsUsed, Zenon DEF Covered

\* A call keeps its balance when its entries do not change.
LEMMA ConservedSame ==
    ASSUME NEW b \in Budgets, NEW n \in Budgets, NEW h \in Holds, HasCall(b, h), Conserved(b, h),
           n.call[h] = b.call[h],
           n.pending[<<h, b.call[h].peer>>] = b.pending[<<h, b.call[h].peer>>],
           \A d \in b.call[h].draws :
               n.pending[<<d[1], b.call[h].peer>>] = b.pending[<<d[1], b.call[h].peer>>]
    PROVE  Conserved(n, h)
<1> DEFINE k == b.call[h]
           f == [d \in k.draws |-> b.pending[<<d[1], k.peer>>]]
           g == [d \in k.draws |-> n.pending[<<d[1], k.peer>>]]
<1>1. f = g
  BY Zenon
<1> QED BY <1>1, Zenon DEF Conserved

\* Nothing refers to id i.
Unused(b, p, i) ==
    /\ \A r \in Recipients : b.pending[<<i, r>>] = 0 /\ p[<<i, r>>].st = "none"
    /\ i \in Holds => ~HasCall(b, i)

\* A new reservation, of its own or of a call, that fits.
LEMMA ReservedMoney ==
    ASSUME NEW b \in Budgets, NEW n \in Budgets, NEW p \in Pays, NEW i \in Ids, Unused(b, p, i),
           NEW charges \in [Recipients -> Nat], NEW most, Fits(b, charges, most),
           Charged(b, n, charges), Tallied(b, p),
           \A c \in Cells : n.pending[c] = IF c[1] = i THEN charges[c[2]] ELSE b.pending[c]
    PROVE  Tallied(n, p) /\ (Sized(b, p) => Sized(n, p)) /\ (Capped(b) => Capped(n))
<1>1. ASSUME NEW r \in Recipients
      PROVE  Keeping(n, p, r) = Keeping(b, p, r) + charges[r]
  <2>1. \A k \in Ids \ {i} : n.pending[<<k, r>>] = b.pending[<<k, r>>]
    BY Zenon DEF Cells
  <2>2. Keeping(n, p, r) = Keeping(b, p, r) - KeptOrPaid(b, p, <<i, r>>) + KeptOrPaid(n, p, <<i, r>>)
    BY <2>1, KeepingMovesOne, Zenon
  <2>3. /\ b.pending[<<i, r>>] = 0 /\ n.pending[<<i, r>>] = charges[r] /\ charges[r] \in Nat
        /\ p[<<i, r>>].st = "none"
    BY Zenon DEF Unused, Cells
  <2>4. KeptOrPaid(b, p, <<i, r>>) = 0 /\ KeptOrPaid(n, p, <<i, r>>) = charges[r]
    BY <2>3 DEF KeptOrPaid
  <2> QED BY <2>2, <2>3, <2>4, KeptTypes
<1>2. charges \in [Recipients -> Int]
  OBVIOUS
<1>3. Tallied(n, p)
  BY <1>1, <1>2, TalliedCharged, Zenon
<1>4. ASSUME Sized(b, p) PROVE Sized(n, p)
  <2> SUFFICES ASSUME NEW c \in Cells, n.pending[c] > 0, p[c].st \in {"inflight", "paid"}
               PROVE  p[c].amt <= n.pending[c]
    BY Zenon DEF Sized
  <2>1. c[1] # i
    BY DEF Unused, Cells
  <2> QED BY <1>4, <2>1, Zenon DEF Sized
<1>5. ASSUME Capped(b) PROVE Capped(n)
  <2>1. /\ b.used \in Nat /\ b.budget \in Nat /\ b.cap \in [Recipients -> Nat]
        /\ b.usedBy \in [Recipients -> Nat]
    BY Zenon DEF Budgets
  <2>2. /\ b.used <= b.budget /\ \A r \in Recipients : b.usedBy[r] <= b.cap[r]
    BY <1>5, Zenon DEF Capped
  <2>3. Total(charges) \in 0 .. (b.budget - b.used)
    BY <2>1, <2>2, SMTT(60) DEF Fits, Sub, Max2
  <2>4. n.used <= n.budget
    <3>1. n.used = b.used + Total(charges) /\ n.budget = b.budget
      BY Zenon DEF Charged, SameLimits
    <3> QED BY <2>1, <2>3, <3>1, SMTT(60)
  <2>5. \A r \in Recipients : n.usedBy[r] <= n.cap[r]
    <3> SUFFICES ASSUME NEW r \in Recipients PROVE n.usedBy[r] <= n.cap[r]
      BY Zenon
    <3>1. charges[r] > 0 => charges[r] <= b.cap[r] - b.usedBy[r]
      BY <2>1, <2>2 DEF Fits, Sub, Max2
    <3>2. n.usedBy[r] = b.usedBy[r] + charges[r] /\ n.cap = b.cap /\ charges[r] \in Nat
      BY Zenon DEF Charged, SameLimits
    <3> QED BY <2>1, <2>2, <3>1, <3>2, SMTT(60)
  <2> QED BY <1>2, <1>5, <2>4, <2>5, CappedCharged, Zenon
<1> QED BY <1>3, <1>4, <1>5, Zenon

\* The calls of b keep their balance when nothing else refers to i.
LEMMA ReservedCalls ==
    ASSUME NEW b \in Budgets, NEW n \in Budgets, Kept(b), NEW i \in Ids,
           \A r \in Recipients : b.pending[<<i, r>>] = 0,
           NEW h \in Holds \ {i}, HasCall(b, h), Conserved(b, h), n.call[h] = b.call[h],
           \A c \in Cells : c[1] # i => n.pending[c] = b.pending[c]
    PROVE  Conserved(n, h)
<1>1. h \in Ids /\ b.call[h].peer \in Recipients
  BY CallTypes, Zenon
<1>2. \A d \in b.call[h].draws : d[1] \in Ids /\ d[1] # i
  BY FreshNotDrawn, Zenon
<1>3. n.pending[<<h, b.call[h].peer>>] = b.pending[<<h, b.call[h].peer>>]
  BY <1>1, Zenon DEF Cells
<1>4. \A d \in b.call[h].draws :
          n.pending[<<d[1], b.call[h].peer>>] = b.pending[<<d[1], b.call[h].peer>>]
  BY <1>1, <1>2, Zenon DEF Cells
<1> QED BY <1>3, <1>4, ConservedSame, Zenon

\* What depends on the calls alone.
LEMMA SameCalls ==
    ASSUME NEW b, NEW n, NEW p, n.call = b.call
    PROVE  /\ HoldsUnpaid(b, p) => HoldsUnpaid(n, p)
           /\ BlocksApart(b) => BlocksApart(n)
           /\ Known(b, p) => Known(n, p)
BY Zenon DEF HoldsUnpaid, BlocksApart, Known, HasCall, Draws

\* A budget promises what it has.
LEMMA PromisedItself ==
    ASSUME NEW b \in Budgets, NEW p
    PROVE  Promised(b, b, p)
<1> SUFFICES ASSUME NEW c \in Cells
             PROVE  b.pending[c] <= b.pending[c] /\ \A fs \in DrawnFor(b, c[1]) : Draws(b, c, fs)
  BY Zenon DEF Promised
<1>1. b.pending[c] \in Nat /\ c[1] \in Ids
  BY Zenon DEF Budgets, Cells
<1>2. ASSUME NEW fs \in DrawnFor(b, c[1]) PROVE Draws(b, c, fs)
  <2>1. PICK h \in Holds, s \in Seqs : fs = <<h, s>>
    <3>1. fs \in Holds \X Seqs
      BY <1>1, DrawnForIs, Zenon
    <3> QED BY <3>1
  <2>2. HasCall(b, h) /\ <<c[1], s>> \in b.call[h].draws
    BY <1>1, <2>1, DrawnForIs, Zenon
  <2> QED BY <2>1, <2>2, Zenon DEF Draws
<1> QED BY <1>1, <1>2

\* The calls keep their balance when only entries change that no call has.
LEMMA OtherCalls ==
    ASSUME NEW b \in Budgets, NEW n \in Budgets, NEW i \in Ids, ~(i \in Holds /\ HasCall(b, i)),
           DrawnFor(b, i) = {}, \A c \in Cells : c[1] # i => n.pending[c] = b.pending[c],
           NEW h \in Holds, HasCall(b, h), Conserved(b, h), n.call[h] = b.call[h]
    PROVE  Conserved(n, h)
<1>1. /\ h \in Ids /\ h # i /\ b.call[h].peer \in Recipients
      /\ b.call[h].draws \subseteq Ids \X Seqs
  BY CallTypes, ZenonT(60)
<1>2. \A d \in b.call[h].draws : d[1] \in Ids /\ d[1] # i
  BY <1>1, DrawnForIs
<1>3. n.pending[<<h, b.call[h].peer>>] = b.pending[<<h, b.call[h].peer>>]
  BY <1>1, Zenon DEF Cells
<1>4. \A d \in b.call[h].draws :
          n.pending[<<d[1], b.call[h].peer>>] = b.pending[<<d[1], b.call[h].peer>>]
  BY <1>1, <1>2, Zenon DEF Cells
<1> QED BY <1>3, <1>4, ConservedSame, Zenon

\* The promise follows the entries when the calls stay.
LEMMA PromisedSame ==
    ASSUME NEW b \in Budgets, NEW n, NEW p, n.call = b.call,
           \A c \in Cells : Counted(b, c) /\ p[c].st = "none" => b.pending[c] <= n.pending[c]
    PROVE  Promised(b, n, p)
<1>1. \A c \in Cells : Counted(b, c) /\ p[c].st = "none" =>
          \A fs \in DrawnFor(b, c[1]) : Draws(b, c, fs)
  BY PromisedItself, Zenon DEF Promised
<1> QED BY <1>1, Zenon DEF Promised, Draws, HasCall

\* A call has finitely many draws, also with one more or with fewer.
LEMMA DrawsFinite ==
    ASSUME NEW b \in Budgets, NEW h \in Holds, HasCall(b, h)
    PROVE  /\ IsFiniteSet(b.call[h].draws)
           /\ \A x : IsFiniteSet(b.call[h].draws \cup {x})
           /\ \A D \in SUBSET b.call[h].draws : IsFiniteSet(D)
<1>1. b.call[h].draws \subseteq Ids \X Seqs
  BY CallTypes, Zenon
<1>2. IsFiniteSet(Seqs)
  <2>1. 0 \in Int /\ Minutes \in Int
    BY LedgerAssumption
  <2> QED BY <2>1, FS_Interval, Zenon DEF Seqs
<1>3. IsFiniteSet(Ids \X Seqs)
  BY <1>2, LedgerAssumption, FS_Product, Zenon
<1>4. \A D \in SUBSET b.call[h].draws : IsFiniteSet(D)
  BY <1>1, <1>3, FS_Subset, Zenon
<1> QED BY <1>4, FS_AddElement, Zenon

\* The entry of a draw, and the entry of the hold, at the peer.
LEMMA DrawEntries ==
    ASSUME NEW b \in Budgets, Kept(b), NEW h \in Holds, HasCall(b, h), NEW d \in b.call[h].draws
    PROVE  /\ d[1] \in Ids /\ d[1] # h /\ d = <<d[1], d[2]>>
           /\ b.pending[<<d[1], b.call[h].peer>>] > 0 /\ b.pending[<<d[1], b.call[h].peer>>] \in Nat
           /\ ~(d[1] \in Holds /\ HasCall(b, d[1]))
<1>1. b.call[h].draws \subseteq Ids \X Seqs /\ b.call[h].peer \in Recipients
  BY CallTypes, Zenon
<1> QED BY <1>1 DEF Kept, Budgets, Cells

\* A step of call h that ends a draw only with what became of its payment.
LEMMA KnownCall ==
    ASSUME NEW b \in Budgets, NEW n, NEW p \in Pays, Known(b, p), NEW h \in Holds,
           HasCall(b, h), HasCall(n, h), \A g \in Holds \ {h} : n.call[g] = b.call[g],
           n.call[h].peer = b.call[h].peer, b.call[h].recorded => n.call[h].recorded,
           ~n.call[h].recorded => b.call[h].paidSeqs \subseteq n.call[h].paidSeqs,
           \A c \in Cells : p[c].for # None /\ p[c].for[1] = h /\ c[2] = b.call[h].peer
                              /\ <<c[1], p[c].for[2]>> \in b.call[h].draws \ n.call[h].draws =>
               /\ p[c].st # "inflight"
               /\ p[c].st = "paid" /\ ~n.call[h].recorded => p[c].for[2] \in n.call[h].paidSeqs
    PROVE  Known(n, p)
<1> SUFFICES ASSUME NEW c \in Cells, p[c].for # None, NEW fs, fs = p[c].for
             PROVE  /\ HasCall(n, fs[1]) => c[2] = n.call[fs[1]].peer
                    /\ p[c].st = "inflight" => Draws(n, c, fs)
                    /\ p[c].st = "paid" /\ HasCall(n, fs[1]) =>
                          Draws(n, c, fs) \/ fs[2] \in n.call[fs[1]].paidSeqs \/ n.call[fs[1]].recorded
  BY Zenon DEF Known
<1>1. fs[1] \in Holds
  BY Zenon DEF Pays
<1>2. /\ HasCall(b, fs[1]) => c[2] = b.call[fs[1]].peer
      /\ p[c].st = "inflight" => Draws(b, c, fs)
      /\ p[c].st = "paid" /\ HasCall(b, fs[1]) =>
            Draws(b, c, fs) \/ fs[2] \in b.call[fs[1]].paidSeqs \/ b.call[fs[1]].recorded
  BY Zenon DEF Known
<1>3. CASE fs[1] # h
  BY <1>1, <1>2, <1>3, Zenon DEF Draws, HasCall
<1>4. CASE fs[1] = h
  BY <1>2, <1>4, Zenon DEF Draws
<1> QED BY <1>3, <1>4, Zenon

\* A step of call h that pays no block with a draw.
LEMMA ApartCall ==
    ASSUME NEW b, NEW n, BlocksApart(b), NEW h \in Holds,
           HasCall(b, h), \A g \in Holds \ {h} : n.call[g] = b.call[g],
           n.call[h].recorded => n.call[h].closed,
           n.call[h].draws \subseteq b.call[h].draws,
           \A d \in n.call[h].draws : d[2] \in n.call[h].paidSeqs => d[2] \in b.call[h].paidSeqs
    PROVE  BlocksApart(n)
<1> SUFFICES ASSUME NEW g \in Holds, HasCall(n, g)
             PROVE  /\ n.call[g].recorded => n.call[g].closed
                    /\ \A d, e \in n.call[g].draws : d[2] = e[2] => d = e
                    /\ \A d \in n.call[g].draws : d[2] \notin n.call[g].paidSeqs
  BY Zenon DEF BlocksApart
<1>1. CASE g # h
  BY <1>1, Zenon DEF BlocksApart, HasCall
<1>2. CASE g = h
  BY <1>2, Zenon DEF BlocksApart
<1> QED BY <1>1, <1>2, Zenon
===============================================================================
