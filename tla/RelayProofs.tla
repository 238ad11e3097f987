------------------------------ MODULE RelayProofs ------------------------------
(***************************************************************************)
(* Proofs about module RelayStore for any nodes, messages, sizes, quotas   *)
(* and lifetimes: the bytes of a binding are exactly what it holds, a node *)
(* registers no faster than the cooldown, and the store implements the     *)
(* mailboxes of module Relay.                                              *)
(*                                                                         *)
(* Rows that expired stay in the store until somebody prunes them.  The    *)
(* mailbox a binding stands for (LiveBox) leaves them out, so that pruning *)
(* is a step that does not show, and the passing of time one that does.    *)
(***************************************************************************)
EXTENDS RelayStore, FiniteSetTheorems, WellFoundedInduction, TLAPS

-----------------------------------------------------------------------------
(* Sums over finite sets *)

\* A non-empty set of subsets of a finite set has a minimal member.
LEMMA Smallest ==
    ASSUME NEW S, IsFiniteSet(S), NEW T, T \subseteq SUBSET S, T # {}
    PROVE  \E t \in T : \A u \in T : ~(u \subseteq t /\ u # t)
<1>1. IsWellFoundedOn(StrictSubsetOrdering(S), SUBSET S)
  BY FS_StrictSubsetOrderingWellFounded, FS_FiniteSubsetsOfFinite, Zenon
<1>2. PICK t \in T : \A u \in T : ~(<<u, t>> \in StrictSubsetOrdering(S))
  BY <1>1, WFMin, Zenon
<1>3. \A u \in T : u \subseteq t /\ u # t => <<u, t>> \in StrictSubsetOrdering(S)
  BY Zenon DEF StrictSubsetOrdering
<1>4. \A u \in T : ~(u \subseteq t /\ u # t)
  BY <1>2, <1>3, Zenon
<1> QED BY <1>4, Zenon

-----------------------------------------------------------------------------
(* The fold behind Bytes *)

Pick(s) == CHOOSE x \in s : TRUE

\* The function g sums the sizes over every subset of S.
Solves(S, g) ==
    \A s \in SUBSET S : g[s] = IF s = {} THEN 0 ELSE Pick(s).size + g[s \ {Pick(s)}]

\* The same as one equation, the form in which the fold states it.
SumsTo(S, g) ==
    g = [s \in SUBSET S |-> IF s = {} THEN 0 ELSE Pick(s).size + g[s \ {Pick(s)}]]

\* The element that a fold takes first.
LEMMA PickIn == ASSUME NEW s, s # {} PROVE Pick(s) \in s
BY Zenon DEF Pick

\* A sum is the value, at S, of the function that its definition chooses.
LEMMA BytesIs ==
    ASSUME NEW S
    PROVE  Bytes(S) = (CHOOSE g : SumsTo(S, g))[S]
BY Zenon DEF Bytes, MapThenSumSet, MapThenFoldSet, SumsTo, Pick

\* Two such functions are the same on the subsets of S.
LEMMA Agree ==
    ASSUME NEW S, IsFiniteSet(S), NEW g, NEW h, Solves(S, g), Solves(S, h)
    PROVE  \A s \in SUBSET S : g[s] = h[s]
<1> DEFINE bad == {s \in SUBSET S : g[s] # h[s]}
<1> SUFFICES ASSUME bad # {} PROVE FALSE
  BY Zenon
<1>1. PICK t \in bad : \A u \in bad : ~(u \subseteq t /\ u # t)
  <2>1. bad \subseteq SUBSET S
    BY Zenon
  <2> HIDE DEF bad
  <2> QED BY <2>1, Smallest
<1>2. t \in SUBSET S /\ g[t] # h[t]
  BY <1>1, Zenon
<1>3. t # {}
  BY <1>2, Zenon DEF Solves
<1>4. Pick(t) \in t
  BY <1>3, PickIn, Zenon
<1> DEFINE u == t \ {Pick(t)}
<1>5. u \in SUBSET S /\ u \subseteq t /\ u # t
  BY <1>2, <1>4, Zenon
<1>6. g[u] = h[u]
  BY <1>1, <1>5, Zenon
<1>7. g[t] = Pick(t).size + g[u] /\ h[t] = Pick(t).size + h[u]
  BY <1>2, <1>3, Zenon DEF Solves
<1> QED BY <1>2, <1>6, <1>7, Zenon

\* A solution for S is one for its subsets.
LEMMA SolvesSub ==
    ASSUME NEW S, NEW g, Solves(S, g), NEW T \in SUBSET S
    PROVE  Solves(T, g)
BY Zenon DEF Solves

\* The recursive definition has a solution.
LEMMA Solvable ==
    ASSUME NEW S, IsFiniteSet(S)
    PROVE  \A T \in SUBSET S : \E g : Solves(T, g)
<1> DEFINE bad == {T \in SUBSET S : ~\E g : Solves(T, g)}
<1> SUFFICES ASSUME bad # {} PROVE FALSE
  BY Zenon
<1>1. PICK T \in bad : \A u \in bad : ~(u \subseteq T /\ u # T)
  <2>1. bad \subseteq SUBSET S
    BY Zenon
  <2> HIDE DEF bad
  <2> QED BY <2>1, Smallest
<1>2. T \in SUBSET S /\ ~\E g : Solves(T, g)
  BY <1>1, Zenon
<1>3. \A u \in SUBSET S : u \subseteq T /\ u # T => \E g : Solves(u, g)
  BY <1>1, Zenon
<1> DEFINE At(u) == CHOOSE g : Solves(u, g)
           Rest(s) == s \ {Pick(s)}
           G == [s \in SUBSET T |-> IF s = {} THEN 0 ELSE Pick(s).size + At(Rest(s))[Rest(s)]]
<1>4. ASSUME NEW s \in SUBSET T, s # {}
      PROVE  Rest(s) \in SUBSET S /\ Rest(s) \subseteq T /\ Rest(s) # T /\ Rest(s) \subseteq s
  BY <1>2, <1>4, PickIn, Zenon
<1>5. ASSUME NEW s \in SUBSET T, s # {}
      PROVE  Solves(Rest(s), At(Rest(s)))
  <2>1. \E g : Solves(Rest(s), g)
    BY <1>3, <1>4, <1>5, Zenon
  <2> HIDE DEF Rest
  <2> QED BY <2>1, Zenon
<1> HIDE DEF At
<1>6. ASSUME NEW s \in SUBSET T, s # {}
      PROVE  At(Rest(s))[Rest(s)] = G[Rest(s)]
  <2> DEFINE u == Rest(s)
  <2>1. u \in SUBSET T /\ u \in SUBSET S
    BY <1>4, <1>6, Zenon
  <2>2. Solves(u, At(u))
    BY <1>5, <1>6, Zenon
  <2> HIDE DEF Rest
  <2>3. CASE u = {}
    BY <2>1, <2>2, <2>3, Zenon DEF Solves
  <2>4. CASE u # {}
    <3> DEFINE w == Rest(u)
    <3>1. w \in SUBSET u /\ w \in SUBSET S /\ Solves(w, At(w))
      BY <1>4, <1>5, <2>1, <2>4, Zenon
    <3>2. Solves(w, At(u))
      BY <2>2, <3>1, SolvesSub, Zenon
    <3>3. IsFiniteSet(w)
      BY <3>1, FS_Subset, Zenon
    <3>4. At(u)[w] = At(w)[w]
      BY <3>1, <3>2, <3>3, Agree
    <3>5. At(u)[u] = Pick(u).size + At(u)[w]
      BY <2>2, <2>4, Zenon DEF Solves, Rest
    <3>6. G[u] = Pick(u).size + At(w)[w]
      BY <2>1, <2>4, Zenon
    <3> QED BY <3>4, <3>5, <3>6, Zenon
  <2> QED BY <2>3, <2>4, Zenon
<1>7. Solves(T, G)
  BY <1>6, Zenon DEF Solves
<1> QED BY <1>2, <1>7, Zenon

\* So the chosen function is a solution.
LEMMA BytesSolves ==
    ASSUME NEW S, IsFiniteSet(S)
    PROVE  \E g : Solves(S, g) /\ Bytes(S) = g[S]
<1>1. PICK h : Solves(S, h)
  BY Solvable, Zenon
<1> DEFINE k == [s \in SUBSET S |-> h[s]]
<1>2. SumsTo(S, k)
  <2>1. \A s \in SUBSET S : k[s] = IF s = {} THEN 0 ELSE Pick(s).size + k[s \ {Pick(s)}]
    BY <1>1, Zenon DEF Solves
  <2> HIDE DEF k
  <2>2. k = [s \in SUBSET S |-> k[s]]
    BY Zenon DEF k
  <2> QED BY <2>1, <2>2, Zenon DEF SumsTo
<1> DEFINE g == CHOOSE e : SumsTo(S, e)
<1>3. SumsTo(S, g)
  <2> HIDE DEF k
  <2> QED BY <1>2, Zenon
<1>4. Bytes(S) = g[S]
  BY BytesIs, Zenon
<1> HIDE DEF g
<1>5. Solves(S, g)
  BY <1>3, Zenon DEF SumsTo, Solves
<1> QED BY <1>4, <1>5, Zenon

-----------------------------------------------------------------------------
(* What a sum is *)

\* Nothing adds up to zero.
LEMMA BytesEmpty == Bytes({}) = 0
<1>1. PICK g : Solves({}, g) /\ Bytes({}) = g[{}]
  BY BytesSolves, FS_EmptySet, Zenon
<1> QED BY <1>1, Zenon DEF Solves

\* A sum is its first element and the sum of the others.
LEMMA BytesPick ==
    ASSUME NEW S, IsFiniteSet(S), S # {}
    PROVE  Bytes(S) = Pick(S).size + Bytes(S \ {Pick(S)})
<1> DEFINE u == S \ {Pick(S)}
<1>1. PICK g : Solves(S, g) /\ Bytes(S) = g[S]
  BY BytesSolves, Zenon
<1>2. u \in SUBSET S /\ IsFiniteSet(u)
  BY FS_Subset, Zenon
<1>3. g[S] = Pick(S).size + g[u]
  BY <1>1, Zenon DEF Solves
<1> HIDE DEF u
<1>4. PICK h : Solves(u, h) /\ Bytes(u) = h[u]
  BY <1>2, BytesSolves, Zenon
<1>5. Solves(u, g)
  BY <1>1, <1>2, SolvesSub, Zenon
<1>6. g[u] = h[u]
  BY <1>2, <1>4, <1>5, Agree
<1> QED BY <1>1, <1>3, <1>4, <1>6, Zenon DEF u

\* The sum of natural numbers, and of integers.
LEMMA BytesType ==
    ASSUME NEW S, IsFiniteSet(S)
    PROVE  /\ (\A x \in S : x.size \in Int) => Bytes(S) \in Int
           /\ (\A x \in S : x.size \in Nat) => Bytes(S) \in Nat
<1>1. ASSUME NEW N \in {Int, Nat}, \A x \in S : x.size \in N
      PROVE  Bytes(S) \in N
  <2> DEFINE bad == {s \in SUBSET S : Bytes(s) \notin N}
  <2> SUFFICES ASSUME bad # {} PROVE FALSE
    BY Zenon
  <2>1. PICK t \in bad : \A u \in bad : ~(u \subseteq t /\ u # t)
    <3>1. bad \subseteq SUBSET S
      BY Zenon
    <3> HIDE DEF bad
    <3> QED BY <3>1, Smallest
  <2>2. t \in SUBSET S /\ Bytes(t) \notin N /\ IsFiniteSet(t)
    BY <2>1, FS_Subset, Zenon
  <2>3. t # {}
    BY <2>2, BytesEmpty
  <2> DEFINE u == t \ {Pick(t)}
  <2>4. Pick(t) \in t /\ u \in SUBSET S /\ u \subseteq t /\ u # t
    BY <2>2, <2>3, PickIn, Zenon
  <2>5. Bytes(u) \in N /\ Pick(t).size \in N
    BY <1>1, <2>1, <2>2, <2>4, Zenon
  <2>6. Bytes(t) = Pick(t).size + Bytes(u)
    BY <2>2, <2>3, BytesPick, Zenon
  <2> HIDE DEF u
  <2> QED BY <2>2, <2>5, <2>6
<1> QED BY <1>1, Zenon

\* Any element may be taken out first.
LEMMA BytesTake ==
    ASSUME NEW S, IsFiniteSet(S), \A x \in S : x.size \in Int, NEW x \in S
    PROVE  Bytes(S) = x.size + Bytes(S \ {x})
<1> DEFINE Takes(s) == \A y \in s : Bytes(s) = y.size + Bytes(s \ {y})
           bad == {s \in SUBSET S : ~Takes(s)}
<1> SUFFICES ASSUME bad # {} PROVE FALSE
  BY Zenon
<1>1. PICK t \in bad : \A u \in bad : ~(u \subseteq t /\ u # t)
  <2>1. bad \subseteq SUBSET S
    BY Zenon
  <2> HIDE DEF bad
  <2> QED BY <2>1, Smallest
<1>2. t \in SUBSET S /\ ~Takes(t) /\ IsFiniteSet(t)
  BY <1>1, FS_Subset, Zenon
<1>3. PICK y \in t : Bytes(t) # y.size + Bytes(t \ {y})
  BY <1>2, Zenon
<1> DEFINE p == Pick(t)
           u == t \ {p}
           v == t \ {y}
           w == t \ {y, p}
<1>4. p \in t /\ Bytes(t) = p.size + Bytes(u)
  BY <1>2, <1>3, PickIn, BytesPick, Zenon
<1>5. p # y
  BY <1>3, <1>4, Zenon
<1>6. u \in SUBSET S /\ u \subseteq t /\ u # t /\ v \in SUBSET S /\ v \subseteq t /\ v # t
  BY <1>2, <1>3, <1>4, Zenon
<1>7. Takes(u) /\ Takes(v)
  BY <1>1, <1>6, Zenon
<1>8. y \in u /\ p \in v /\ u \ {y} = w /\ v \ {p} = w
  BY <1>3, <1>4, <1>5, Zenon
<1>9. Bytes(u) = y.size + Bytes(w) /\ Bytes(v) = p.size + Bytes(w)
  BY <1>7, <1>8, Zenon
<1>10. p.size \in Int /\ y.size \in Int /\ Bytes(w) \in Int
  <2>1. IsFiniteSet(w) /\ \A z \in w : z.size \in Int
    BY <1>2, FS_Subset, Zenon
  <2> QED BY <1>2, <1>3, <1>4, <2>1, BytesType, Zenon
<1> HIDE DEF w, u, v, p
<1> QED BY <1>3, <1>4, <1>9, <1>10 DEF v

-----------------------------------------------------------------------------
(* What the bytes of the holds add up to *)

Sized(S) == IsFiniteSet(S) /\ \A h \in S : h.size \in Nat

\* A deposit charges its size.
LEMMA BytesAdd ==
    ASSUME NEW S, Sized(S), NEW x, x \notin S, x.size \in Nat
    PROVE  Bytes(S \cup {x}) = Bytes(S) + x.size /\ Sized(S \cup {x})
<1> DEFINE T == S \cup {x}
<1>1. IsFiniteSet(T)
  BY FS_AddElement, Zenon DEF Sized
<1>2. \A h \in T : h.size \in Nat
  BY Zenon DEF Sized
<1>3. T \ {x} = S /\ x \in T
  BY Zenon
<1>4. \A h \in T : h.size \in Int
  BY <1>2
<1> HIDE DEF T
<1>5. Bytes(T) = x.size + Bytes(S)
  BY <1>1, <1>3, <1>4, BytesTake, Zenon
<1>6. Bytes(S) \in Nat
  BY BytesType, Zenon DEF Sized
<1>7. Bytes(T) = Bytes(S) + x.size /\ Sized(T)
  BY <1>1, <1>2, <1>5, <1>6 DEF Sized
<1> QED BY <1>7, Zenon DEF T

\* Part of a set of sized rows has a size.
LEMMA SizedSub == ASSUME NEW S, Sized(S), NEW T \in SUBSET S PROVE Sized(T) /\ Bytes(T) \in Nat
<1>1. Sized(T)
  BY FS_Subset, Zenon DEF Sized
<1> QED BY <1>1, BytesType, Zenon DEF Sized

\* What goes gives back exactly what it was charged.
LEMMA BytesWithout ==
    ASSUME NEW S, Sized(S), NEW T \in SUBSET S
    PROVE  /\ Bytes(S) = Bytes(S \ T) + Bytes(T)
           /\ Bytes(S \ T) \in Nat /\ Bytes(T) \in Nat /\ Sized(S \ T)
<1> DEFINE bad == {t \in SUBSET S : Bytes(S) # Bytes(S \ t) + Bytes(t)}
<1>1. ASSUME bad # {} PROVE FALSE
  <2>1. PICK t \in bad : \A u \in bad : ~(u \subseteq t /\ u # t)
    <3>1. bad \subseteq SUBSET S /\ IsFiniteSet(S)
      BY Zenon DEF Sized
    <3> HIDE DEF bad
    <3> QED BY <1>1, <3>1, Smallest
  <2>2. t \in SUBSET S /\ Bytes(S) # Bytes(S \ t) + Bytes(t)
    BY <2>1, Zenon
  <2>3. t # {}
    <3>1. S \ {} = S /\ Bytes({}) = 0 /\ Bytes(S) \in Nat
      BY BytesEmpty, SizedSub, Zenon
    <3> QED BY <2>2, <3>1
  <2> DEFINE x == Pick(t)
             u == t \ {x}
  <2>4. x \in t /\ u \in SUBSET S /\ u \subseteq t /\ u # t /\ x \in S
    BY <2>2, <2>3, PickIn, Zenon
  <2>5. Bytes(S) = Bytes(S \ u) + Bytes(u)
    BY <2>1, <2>4, Zenon
  <2>6. S \ u = (S \ t) \cup {x} /\ t = u \cup {x} /\ x \notin S \ t /\ x \notin u
    BY <2>4, Zenon
  <2>7. Sized(S \ t) /\ Sized(u) /\ x.size \in Nat /\ Bytes(S \ t) \in Nat /\ Bytes(u) \in Nat
    BY <2>2, <2>4, SizedSub, Zenon DEF Sized
  <2>8. Bytes(S \ u) = Bytes(S \ t) + x.size /\ Bytes(t) = Bytes(u) + x.size
    BY <2>6, <2>7, BytesAdd, Zenon
  <2> HIDE DEF bad, x, u
  <2> QED BY <2>2, <2>5, <2>7, <2>8
<1>2. Bytes(S) = Bytes(S \ T) + Bytes(T)
  BY <1>1, Zenon
<1>3. S \ T \in SUBSET S
  BY Zenon
<1> QED BY <1>2, <1>3, SizedSub, Zenon

-----------------------------------------------------------------------------
(* One binding *)

\* A row of relay_bindings agrees with its rows of relay_held.
BindingInv(b) ==
    /\ b \in Rows /\ IsFiniteSet(b.held)
    /\ b.held_bytes = Bytes(b.held) /\ b.held_bytes <= Lesser(b.quota, MaxQuota)
    /\ \A h \in b.held : h.seq < b.next_sequence

Live(b, t) == [quota |-> b.quota, next |-> b.next_sequence, held |-> {h \in b.held : h.expires > t}]

\* What a binding holds has a size.
LEMMA HeldSized ==
    ASSUME RelayConstants, NEW b, BindingInv(b)
    PROVE  Sized(b.held) /\ \A h \in b.held : h \in Held
<1>1. IsFiniteSet(b.held) /\ \A h \in b.held : h \in Held
  BY DEF BindingInv, Rows
<1>2. \A h \in Held : h.size \in Nat
  BY Zenon DEF Held, RelayConstants
<1> QED BY <1>1, <1>2, Zenon DEF Sized

\* A binding with other rows held is a binding.
LEMMA RowTypes ==
    ASSUME NEW b \in Rows, NEW held \in SUBSET Held, NEW bytes \in Nat
    PROVE  [b EXCEPT !.held = held, !.held_bytes = bytes] \in Rows
BY Zenon DEF Rows

\* Rows that go, by expiry or acknowledgement.
LEMMA WithoutKeeps ==
    ASSUME RelayConstants, NEW b, BindingInv(b), NEW gone \in SUBSET b.held
    PROVE  LET n == [b EXCEPT !.held = @ \ gone, !.held_bytes = Less(@, Bytes(gone))]
           IN  /\ BindingInv(n) /\ n.held = b.held \ gone
               /\ n.quota = b.quota /\ n.next_sequence = b.next_sequence
<1> DEFINE n == [b EXCEPT !.held = @ \ gone, !.held_bytes = Less(@, Bytes(gone))]
<1>1. Sized(b.held) /\ b \in Rows
  BY HeldSized, Zenon DEF BindingInv
<1>2. /\ Bytes(b.held) = Bytes(b.held \ gone) + Bytes(gone)
      /\ Bytes(b.held \ gone) \in Nat /\ Bytes(gone) \in Nat /\ Sized(b.held \ gone)
  BY <1>1, BytesWithout, Zenon
<1>3. /\ n.held = b.held \ gone /\ n.held_bytes = Less(b.held_bytes, Bytes(gone))
      /\ n.quota = b.quota /\ n.next_sequence = b.next_sequence
  BY <1>1 DEF Rows
<1>4. n.held_bytes = Bytes(b.held \ gone)
  BY <1>2, <1>3 DEF Less, BindingInv
<1>5. n \in Rows
  <2>1. b.held \ gone \in SUBSET Held
    BY <1>1 DEF Rows
  <2>2. n = [b EXCEPT !.held = b.held \ gone, !.held_bytes = Less(b.held_bytes, Bytes(gone))]
    BY <1>1 DEF Rows
  <2>3. Less(b.held_bytes, Bytes(gone)) \in Nat
    BY <1>2, <1>3, <1>4
  <2> HIDE DEF n
  <2> QED BY <1>1, <2>1, <2>2, <2>3, RowTypes, Zenon
<1> HIDE DEF n
<1>6. n.held_bytes <= Lesser(n.quota, MaxQuota)
  <2>1. b.held_bytes <= Lesser(b.quota, MaxQuota) /\ b.held_bytes = Bytes(b.held)
    BY Zenon DEF BindingInv
  <2>2. b.quota \in Nat /\ MaxQuota \in Nat
    BY <1>1, Zenon DEF Rows, RelayConstants
  <2> DEFINE lim == Lesser(b.quota, MaxQuota)
  <2>3. lim \in Nat /\ n.held_bytes <= b.held_bytes /\ n.held_bytes \in Nat /\ b.held_bytes \in Nat
    BY <1>2, <1>4, <2>1, <2>2 DEF Lesser
  <2>4. n.held_bytes <= lim
    <3> HIDE DEF lim
    <3> QED BY <2>1, <2>3 DEF lim
  <2> QED BY <1>3, <2>4, Zenon
<1>7. BindingInv(n)
  <2>1. \A h \in n.held : h.seq < n.next_sequence
    BY <1>3, Zenon DEF BindingInv
  <2> QED BY <1>2, <1>3, <1>4, <1>5, <1>6, <2>1, Zenon DEF BindingInv, Sized
<1> QED BY <1>3, <1>7, Zenon DEF n

\* prune_held_rows drops what has expired; a second prune finds nothing.
LEMMA PruneKeeps ==
    ASSUME RelayConstants, now \in Nat, NEW b, BindingInv(b)
    PROVE  /\ BindingInv(prune_held_rows(b)) /\ Live(prune_held_rows(b), now) = Live(b, now)
           /\ prune_held_rows(b).held = {h \in b.held : h.expires > now}
           /\ prune_held_rows(b).quota = b.quota /\ prune_held_rows(b).next_sequence = b.next_sequence
<1> DEFINE gone == {h \in b.held : h.expires <= now}
           p == [b EXCEPT !.held = @ \ gone, !.held_bytes = Less(@, Bytes(gone))]
<1>1. prune_held_rows(b) = p
  BY Zenon DEF prune_held_rows
<1>2. gone \in SUBSET b.held
  BY Zenon
<1> HIDE DEF gone
<1>3. BindingInv(p) /\ p.held = b.held \ gone /\ p.quota = b.quota /\ p.next_sequence = b.next_sequence
  BY <1>2, WithoutKeeps, Zenon
<1>4. b.held \ gone = {h \in b.held : h.expires > now}
  <2>1. \A h \in b.held : h.expires \in Nat
    BY HeldSized DEF Held
  <2>2. \A h \in b.held : h.expires > now <=> ~(h.expires <= now)
    BY <2>1
  <2> QED BY <2>2, Zenon DEF gone
<1> HIDE DEF p
<1>5. Live(p, now) = Live(b, now)
  BY <1>3, <1>4, Zenon DEF Live
<1> QED BY <1>1, <1>3, <1>4, <1>5, Zenon

\* hold_envelope after validate_deposit: the new hold has a sequence number of its own,
\* and both quotas count it.
LEMMA HoldKeeps ==
    ASSUME RelayConstants, now \in Nat, NEW b, BindingInv(b),
           NEW d \in Nodes, NEW m \in Messages, NEW size \in Sizes, NEW ttl \in Ttls,
           validate_deposit(b, size, TRUE), Holds(b, d, m, size, ttl)
    PROVE  LET x == [seq |-> b.next_sequence, id |-> m, by |-> d, size |-> size, expires |-> now + ttl]
               n == hold_envelope(b, d, m, size, ttl)
           IN  /\ BindingInv(n) /\ n.held = b.held \cup {x} /\ n.quota = b.quota
               /\ n.next_sequence = b.next_sequence + 1
               /\ Bytes(b.held \cup {x}) <= Lesser(b.quota, MaxQuota)
               /\ Bytes({h \in b.held \cup {x} : h.by = d}) <= Lesser(b.quota, PerDepositor)
<1> DEFINE x == [seq |-> b.next_sequence, id |-> m, by |-> d, size |-> size, expires |-> now + ttl]
           n == hold_envelope(b, d, m, size, ttl)
           own == {h \in b.held : h.by = d}
<1>0. /\ b \in Rows /\ b.next_sequence \in Nat /\ b.held_bytes \in Nat /\ b.quota \in Nat
      /\ size \in Nat /\ ttl \in Nat /\ MaxQuota \in Nat /\ PerDepositor \in Nat
  BY Zenon DEF BindingInv, Rows, RelayConstants
<1>1. Sized(b.held) /\ \A h \in b.held : h \in Held /\ h.seq < b.next_sequence
  BY HeldSized, Zenon DEF BindingInv
<1>2. x \in Held /\ x.size = size /\ x.seq = b.next_sequence /\ x.by = d
  BY <1>0 DEF Held
<1>3. x \notin b.held
  BY <1>0, <1>1, <1>2
<1>4. /\ n.held = b.held \cup {x} /\ n.quota = b.quota /\ n.next_sequence = b.next_sequence + 1
      /\ n.held_bytes = b.held_bytes + size
      /\ n = [b EXCEPT !.held = b.held \cup {x}, !.held_bytes = b.held_bytes + size,
                       !.next_sequence = b.next_sequence + 1]
  BY <1>0 DEF hold_envelope, NextSequence, Rows
<1> HIDE DEF x, n
<1>5. Bytes(b.held \cup {x}) = Bytes(b.held) + size /\ Sized(b.held \cup {x})
  BY <1>0, <1>1, <1>2, <1>3, BytesAdd
<1>6. b.held_bytes = Bytes(b.held)
  BY Zenon DEF BindingInv
<1>7. b.held_bytes + size <= Lesser(b.quota, MaxQuota)
  <2>1. size <= Less(Lesser(b.quota, MaxQuota), b.held_bytes) /\ b.held_bytes <= Lesser(b.quota, MaxQuota)
    BY Zenon DEF validate_deposit, BindingInv
  <2> DEFINE lim == Lesser(b.quota, MaxQuota)
  <2>2. lim \in Nat
    BY <1>0 DEF Lesser
  <2>3. b.held_bytes + size <= lim
    <3> HIDE DEF lim
    <3> QED BY <1>0, <2>1, <2>2 DEF Less, lim
  <2> QED BY <2>3, Zenon
<1>8. n \in Rows
  <2>1. b.held \cup {x} \in SUBSET Held /\ b.held_bytes + size \in Nat /\ b.next_sequence + 1 \in Nat
    BY <1>0, <1>1, <1>2
  <2> QED BY <1>0, <1>4, <2>1, Zenon DEF Rows
<1>9. BindingInv(n)
  <2>1. \A h \in n.held : h.seq < n.next_sequence
    <3>1. \A h \in b.held : h.seq \in Nat
      BY <1>1 DEF Held
    <3> QED BY <1>0, <1>1, <1>2, <1>4, <3>1
  <2> QED BY <1>4, <1>5, <1>6, <1>7, <1>8, <2>1, Zenon DEF BindingInv, Sized
<1>10. Bytes({h \in b.held \cup {x} : h.by = d}) <= Lesser(b.quota, PerDepositor)
  <2>1. {h \in b.held \cup {x} : h.by = d} = own \cup {x} /\ x \notin own /\ own \in SUBSET b.held
    BY <1>2, <1>3, Zenon
  <2>2. Sized(own) /\ Bytes(own) \in Nat
    BY <1>1, <2>1, SizedSub, Zenon
  <2>3. Bytes(own) + size <= Lesser(PerDepositor, b.quota)
    BY Zenon DEF Holds
  <2> HIDE DEF own
  <2>4. Bytes(own \cup {x}) = Bytes(own) + size
    BY <1>0, <1>2, <2>1, <2>2, BytesAdd
  <2>5. Lesser(PerDepositor, b.quota) = Lesser(b.quota, PerDepositor)
    BY <1>0 DEF Lesser
  <2> QED BY <2>1, <2>3, <2>4, <2>5, Zenon
<1> QED BY <1>4, <1>5, <1>6, <1>7, <1>9, <1>10, Zenon DEF x, n

-----------------------------------------------------------------------------
(* The engine *)

RelayInv ==
    /\ bindings \in [Nodes -> Rows \cup {None}] /\ now \in 0 .. MaxTime
    /\ \A n \in Nodes : bindings[n] # None => BindingInv(bindings[n])

\* The memory of an admitted registration is as young as the last one it let through.
SpacingInv ==
    /\ cooldowns \in [Nodes -> (0 .. MaxTime) \cup {Never}] /\ opened \in [Nodes -> SUBSET (0 .. MaxTime)]
    /\ \A n \in Nodes : /\ cooldowns[n] # Never => cooldowns[n] <= now
                        /\ \A t \in opened[n] : cooldowns[n] # Never /\ t <= cooldowns[n]
    /\ RegistrationsSpaced

\* What one operation leaves of the binding of n.
DepositLeaves(n, v) ==
    LET b == bindings[n]  p == prune_held_rows(b) IN
    \/ v = p
    \/ \E d \in Nodes, m \in Messages, size \in Sizes, ttl \in Ttls :
          LET x == [seq |-> b.next_sequence, id |-> m, by |-> d, size |-> size, expires |-> now + ttl] IN
          /\ v.held = p.held \cup {x} /\ v.next_sequence = b.next_sequence + 1
          /\ Bytes(p.held \cup {x}) <= Lesser(b.quota, MaxQuota)
          /\ Bytes({h \in p.held \cup {x} : h.by = d}) <= Lesser(b.quota, PerDepositor)

\* A deposit prunes the binding of its recipient and then adds one row, or none.
LEMMA DepositDoes ==
    ASSUME RelayConstants, RelayInv, NEW d \in Nodes, NEW n \in Nodes, NEW m \in Messages,
           NEW size \in Sizes, NEW ttl \in Ttls, NEW ok \in BOOLEAN, handle_deposit(d, n, m, size, ttl, ok)
    PROVE  \E v : /\ bindings' = [bindings EXCEPT ![n] = v] /\ BindingInv(v) /\ bindings[n] # None
                  /\ v.quota = bindings[n].quota /\ DepositLeaves(n, v)
<1> DEFINE b == bindings[n]
           p == prune_held_rows(b)
           q == prune_held_rows(p)
<1>0. BindingInv(b) /\ b # None /\ now \in Nat
  BY DEF RelayInv, handle_deposit
<1>1. /\ BindingInv(p) /\ p.held = {h \in b.held : h.expires > now}
      /\ p.quota = b.quota /\ p.next_sequence = b.next_sequence
  BY <1>0, PruneKeeps, Zenon
<1>2. BindingInv(q) /\ q.held = {h \in p.held : h.expires > now}
      /\ q.quota = p.quota /\ q.next_sequence = p.next_sequence
  BY <1>0, <1>1, PruneKeeps, Zenon
<1>3. q.held = p.held /\ q.held_bytes = p.held_bytes
  BY <1>1, <1>2, Zenon DEF BindingInv
<1>4. bindings' = [bindings EXCEPT ![n] = IF validate_deposit(p, size, ok) /\ Holds(q, d, m, size, ttl)
                                          THEN hold_envelope(q, d, m, size, ttl) ELSE p]
  BY Zenon DEF handle_deposit
<1> HIDE DEF q, p
<1>5. CASE validate_deposit(p, size, ok) /\ Holds(q, d, m, size, ttl)
  <2> DEFINE v == hold_envelope(q, d, m, size, ttl)
             x == [seq |-> q.next_sequence, id |-> m, by |-> d, size |-> size, expires |-> now + ttl]
  <2>1. validate_deposit(q, size, TRUE)
    BY <1>2, <1>3, <1>5 DEF validate_deposit
  <2>2. /\ BindingInv(v) /\ v.held = q.held \cup {x} /\ v.quota = q.quota
        /\ v.next_sequence = q.next_sequence + 1
        /\ Bytes(q.held \cup {x}) <= Lesser(q.quota, MaxQuota)
        /\ Bytes({h \in q.held \cup {x} : h.by = d}) <= Lesser(q.quota, PerDepositor)
    BY <1>0, <1>2, <1>5, <2>1, HoldKeeps, Zenon
  <2>3. bindings' = [bindings EXCEPT ![n] = v]
    BY <1>4, <1>5, Zenon
  <2>4. DepositLeaves(n, v)
    <3> HIDE DEF v
    <3> QED BY <1>1, <1>2, <1>3, <2>2, Zenon DEF DepositLeaves, p
  <2> HIDE DEF v
  <2> QED BY <1>0, <1>1, <1>2, <2>2, <2>3, <2>4, Zenon
<1>6. CASE ~(validate_deposit(p, size, ok) /\ Holds(q, d, m, size, ttl))
  <2>1. bindings' = [bindings EXCEPT ![n] = p]
    BY <1>4, <1>6, Zenon
  <2>2. DepositLeaves(n, p)
    BY Zenon DEF DepositLeaves, p
  <2> QED BY <1>0, <1>1, <2>1, <2>2, Zenon
<1> QED BY <1>5, <1>6, Zenon

\* One binding changes, and it is good.
LEMMA RowKeeps ==
    ASSUME RelayInv, NEW n \in Nodes, NEW v, v = None \/ BindingInv(v),
           bindings' = [bindings EXCEPT ![n] = v], now' = now
    PROVE  RelayInv'
<1>1. v \in Rows \cup {None}
  BY Zenon DEF BindingInv
<1>2. bindings' \in [Nodes -> Rows \cup {None}] /\ \A k \in Nodes : bindings'[k] = IF k = n THEN v ELSE bindings[k]
  BY <1>1 DEF RelayInv
<1>3. \A k \in Nodes : bindings'[k] # None => BindingInv(bindings'[k])
  BY <1>2, Zenon DEF RelayInv
<1>4. \A k \in Nodes : BindingInv(bindings'[k]) <=> BindingInv(bindings[k])'
  BY DEF BindingInv
<1> QED BY <1>2, <1>3, <1>4 DEF RelayInv

\* handle_register opens an empty binding.
LEMMA NewBinding ==
    ASSUME RelayConstants, NEW quota \in Quotas
    PROVE  BindingInv([quota |-> quota, next_sequence |-> 0, held |-> {}, held_bytes |-> 0])
<1> DEFINE b == [quota |-> quota, next_sequence |-> 0, held |-> {}, held_bytes |-> 0]
<1>1. b \in Rows
  BY DEF Rows
<1>2. IsFiniteSet(b.held) /\ Bytes(b.held) = 0
  BY FS_EmptySet, BytesEmpty
<1>3. 0 <= Lesser(b.quota, MaxQuota)
  BY DEF Lesser, RelayConstants
<1> QED BY <1>1, <1>2, <1>3 DEF BindingInv

\* handle_ack deletes rows and gives back their bytes.
LEMMA AckDoes ==
    ASSUME RelayConstants, RelayInv, NEW n \in Nodes, NEW ids \in SUBSET Messages, handle_ack(n, ids)
    PROVE  \E v : /\ bindings' = [bindings EXCEPT ![n] = v] /\ BindingInv(v) /\ bindings[n] # None
                  /\ v.held = {h \in bindings[n].held : h.id \notin ids}
                  /\ v.quota = bindings[n].quota /\ v.next_sequence = bindings[n].next_sequence
<1> DEFINE b == bindings[n]
           gone == {h \in b.held : h.id \in ids}
           v == [b EXCEPT !.held = @ \ gone, !.held_bytes = Less(@, Bytes(gone))]
<1>0. BindingInv(b) /\ b # None /\ b \in Rows /\ bindings \in [Nodes -> Rows \cup {None}]
  BY DEF RelayInv, handle_ack, BindingInv
<1>1. bindings' = [bindings EXCEPT ![n].held = @ \ gone, ![n].held_bytes = Less(@, Bytes(gone))]
  BY Zenon DEF handle_ack
<1>2. gone \in SUBSET b.held /\ b.held \ gone = {h \in b.held : h.id \notin ids}
  BY Zenon
<1> HIDE DEF gone
<1>3. bindings' = [bindings EXCEPT ![n] = v]
  BY <1>0, <1>1, Zenon DEF Rows
<1>4. BindingInv(v) /\ v.held = b.held \ gone /\ v.quota = b.quota /\ v.next_sequence = b.next_sequence
  BY <1>0, <1>2, WithoutKeeps, ZenonT(60)
<1> HIDE DEF v
<1> QED BY <1>0, <1>2, <1>3, <1>4, Zenon

\* Every operation keeps the held bytes of every binding exact.
LEMMA RelayNext == RelayConstants /\ RelayInv /\ [Next]_vars => RelayInv'
<1> SUFFICES ASSUME RelayConstants, RelayInv, [Next]_vars PROVE RelayInv'
  OBVIOUS
<1>0. UNCHANGED <<bindings, now>> => RelayInv'
  BY DEF RelayInv, BindingInv
<1>1. CASE UNCHANGED vars
  BY <1>0, <1>1, Zenon DEF vars
<1>2. ASSUME NEW n \in Nodes, NEW quota \in Quotas, handle_register(n, quota)
      PROVE  RelayInv'
  <2> DEFINE v == [quota |-> quota, next_sequence |-> 0, held |-> {}, held_bytes |-> 0]
  <2>1. UNCHANGED <<bindings, now>> \/ (bindings' = [bindings EXCEPT ![n] = v] /\ now' = now)
    BY <1>2, Zenon DEF handle_register
  <2>2. BindingInv(v)
    BY NewBinding, Zenon
  <2> HIDE DEF v
  <2> QED BY <1>0, <2>1, <2>2, RowKeeps, Zenon
<1>3. ASSUME NEW d \in Nodes, NEW n \in Nodes, NEW m \in Messages, NEW size \in Sizes, NEW ttl \in Ttls,
             NEW ok \in BOOLEAN, handle_deposit(d, n, m, size, ttl, ok)
      PROVE  RelayInv'
  <2>1. now' = now
    BY <1>3, Zenon DEF handle_deposit
  <2>2. PICK v : bindings' = [bindings EXCEPT ![n] = v] /\ BindingInv(v)
    <3>1. \E v : /\ bindings' = [bindings EXCEPT ![n] = v] /\ BindingInv(v) /\ bindings[n] # None
                 /\ v.quota = bindings[n].quota /\ DepositLeaves(n, v)
      BY <1>3, DepositDoes
    <3> QED BY <3>1, Zenon
  <2> QED BY <2>1, <2>2, RowKeeps, Zenon
<1>4. ASSUME NEW n \in Nodes, handle_drain_request(n) \/ handle_unregister(n)
      PROVE  RelayInv'
  <2>1. CASE handle_drain_request(n)
    <3>1. bindings' = [bindings EXCEPT ![n] = prune_held_rows(bindings[n])] /\ now' = now
          /\ BindingInv(bindings[n]) /\ now \in Nat
      BY <2>1 DEF handle_drain_request, RelayInv
    <3> QED BY <3>1, PruneKeeps, RowKeeps, Zenon
  <2>2. CASE handle_unregister(n)
    BY <2>2, RowKeeps, Zenon DEF handle_unregister
  <2> QED BY <1>4, <2>1, <2>2, Zenon
<1>5. ASSUME NEW n \in Nodes, NEW ids \in SUBSET Messages, handle_ack(n, ids)
      PROVE  RelayInv'
  <2>1. now' = now
    BY <1>5, Zenon DEF handle_ack
  <2> QED BY <1>5, <2>1, AckDoes, RowKeeps, Zenon
<1>6. CASE Tick
  <2>1. bindings' = bindings /\ now' \in 0 .. MaxTime
    BY <1>6 DEF Tick, RelayInv, RelayConstants
  <2> QED BY <2>1 DEF RelayInv, BindingInv
<1>7. CASE Restart
  BY <1>0, <1>7, Zenon DEF Restart
<1> QED BY <1>1, <1>2, <1>3, <1>4, <1>5, <1>6, <1>7, Zenon DEF Next

-----------------------------------------------------------------------------
(* The cooldown *)

\* Every operation keeps the memory of the registrations.
LEMMA SpacingNext == RelayConstants /\ RelayInv /\ SpacingInv /\ [Next]_vars => SpacingInv'
<1> SUFFICES ASSUME RelayConstants, RelayInv, SpacingInv, [Next]_vars PROVE SpacingInv'
  OBVIOUS
<1>0. now \in 0 .. MaxTime /\ Cooldown \in Nat /\ MaxTime \in Nat /\ now # Never
  BY DEF RelayInv, RelayConstants, Never
<1>1. UNCHANGED <<cooldowns, opened, now>> => SpacingInv'
  BY DEF SpacingInv, RegistrationsSpaced, Never
<1>2. ASSUME NEW n \in Nodes, NEW quota \in Quotas, handle_register(n, quota)
      PROVE  SpacingInv'
  <2>1. /\ cooldowns[n] = Never \/ now - cooldowns[n] >= Cooldown
        /\ cooldowns' = [cooldowns EXCEPT ![n] = now] /\ now' = now
        /\ opened' = opened \/ opened' = [opened EXCEPT ![n] = @ \cup {now}]
    BY <1>2, Zenon DEF handle_register, register_allowed
  <2>2. /\ cooldowns' \in [Nodes -> (0 .. MaxTime) \cup {Never}] /\ opened' \in [Nodes -> SUBSET (0 .. MaxTime)]
    BY <1>0, <2>1 DEF SpacingInv
  <2>3. /\ \A k \in Nodes \ {n} : cooldowns'[k] = cooldowns[k] /\ opened'[k] = opened[k]
        /\ cooldowns'[n] = now /\ opened'[n] \subseteq opened[n] \cup {now}
    BY <2>1 DEF SpacingInv
  <2>4. \A t \in opened[n] : t \in 0 .. MaxTime /\ t <= now /\ now - t >= Cooldown
    <3> SUFFICES ASSUME NEW t \in opened[n] PROVE t \in 0 .. MaxTime /\ t <= now /\ now - t >= Cooldown
      OBVIOUS
    <3>1. cooldowns[n] # Never /\ t <= cooldowns[n] /\ cooldowns[n] <= now
      BY DEF SpacingInv
    <3>2. t \in 0 .. MaxTime /\ cooldowns[n] \in 0 .. MaxTime
      BY <3>1 DEF SpacingInv
    <3> QED BY <1>0, <2>1, <3>1, <3>2
  <2>5. ASSUME NEW k \in Nodes
        PROVE  /\ cooldowns'[k] # Never => cooldowns'[k] <= now
               /\ \A t \in opened'[k] : cooldowns'[k] # Never /\ t <= cooldowns'[k]
               /\ \A s, t \in opened'[k] : s < t => t - s >= Cooldown
    <3>1. CASE k = n
      <4>1. \A t \in opened'[n] : t = now \/ t \in opened[n]
        BY <2>3
      <4>2. \A t \in opened'[n] : t <= now
        BY <1>0, <2>4, <4>1, SMTT(60)
      <4>3. \A s, t \in opened[n] : s < t => t - s >= Cooldown
        BY DEF SpacingInv, RegistrationsSpaced
      <4>4. \A s, t \in opened'[n] : s < t => t - s >= Cooldown
        <5> SUFFICES ASSUME NEW s \in opened'[n], NEW t \in opened'[n], s < t PROVE t - s >= Cooldown
          OBVIOUS
        <5>1. s # now
          BY <1>0, <2>4, <4>1, SMTT(60)
        <5> QED BY <2>4, <4>1, <4>3, <5>1, SMTT(60)
      <4> QED BY <1>0, <2>3, <3>1, <4>2, <4>4, SMTT(60)
    <3>2. CASE k # n
      BY <2>3, <3>2 DEF SpacingInv, RegistrationsSpaced
    <3> QED BY <3>1, <3>2
  <2>6. Never' = Never
    BY DEF Never
  <2> QED BY <2>1, <2>2, <2>5, <2>6, SMTT(60) DEF SpacingInv, RegistrationsSpaced
<1>3. CASE Tick
  <2>1. UNCHANGED <<cooldowns, opened>> /\ now' = now + 1
    BY <1>3, Zenon DEF Tick
  <2>2. \A n \in Nodes : cooldowns[n] # Never => cooldowns[n] <= now'
    BY <1>0, <2>1 DEF SpacingInv
  <2> QED BY <2>1, <2>2 DEF SpacingInv, RegistrationsSpaced, Never
<1>4. CASE Restart
  <2>1. cooldowns' = [n \in Nodes |-> Never] /\ opened' = [n \in Nodes |-> {}]
    BY <1>4, Zenon DEF Restart
  <2> QED BY <2>1 DEF SpacingInv, RegistrationsSpaced, Never
<1>5. CASE \/ \E d, n \in Nodes, m \in Messages, size \in Sizes, ttl \in Ttls, ok \in BOOLEAN :
                 handle_deposit(d, n, m, size, ttl, ok)
           \/ \E n \in Nodes : handle_drain_request(n) \/ handle_unregister(n)
           \/ \E n \in Nodes, ids \in SUBSET Messages : handle_ack(n, ids)
  <2>1. UNCHANGED <<cooldowns, opened, now>>
    BY <1>5, Zenon DEF handle_deposit, handle_drain_request, handle_unregister, handle_ack
  <2> QED BY <1>1, <2>1, Zenon
<1>6. CASE UNCHANGED vars
  BY <1>1, <1>6, Zenon DEF vars
<1> QED BY <1>2, <1>3, <1>4, <1>5, <1>6, Zenon DEF Next

-----------------------------------------------------------------------------
(* Types and bounds *)

\* The bound of the model on the deposits to one binding.
CountInv == \A n \in Nodes : bindings[n] # None => bindings[n].next_sequence <= MaxDeposits

\* One binding changes, and its counter stays in bounds.
LEMMA CountKeeps ==
    ASSUME RelayInv, CountInv, NEW n \in Nodes, NEW v, v = None \/ v.next_sequence <= MaxDeposits,
           bindings' = [bindings EXCEPT ![n] = v]
    PROVE  CountInv'
<1>1. bindings \in [Nodes -> Rows \cup {None}]
  BY DEF RelayInv
<1>2. \A k \in Nodes : bindings'[k] = IF k = n THEN v ELSE bindings[k]
  BY <1>1
<1> QED BY <1>2, Zenon DEF CountInv

\* A deposit past the last sequence number is refused.
LEMMA CountNext == RelayConstants /\ RelayInv /\ CountInv /\ [Next]_vars => CountInv'
<1> SUFFICES ASSUME RelayConstants, RelayInv, CountInv, [Next]_vars PROVE CountInv'
  OBVIOUS
<1>0. bindings' = bindings => CountInv'
  BY Zenon DEF CountInv
<1>1. CASE UNCHANGED vars
  BY <1>0, <1>1, Zenon DEF vars
<1>2. ASSUME NEW n \in Nodes, NEW quota \in Quotas, handle_register(n, quota)
      PROVE  CountInv'
  <2> DEFINE v == [quota |-> quota, next_sequence |-> 0, held |-> {}, held_bytes |-> 0]
  <2>1. bindings' = bindings \/ bindings' = [bindings EXCEPT ![n] = v]
    BY <1>2, Zenon DEF handle_register
  <2>2. v.next_sequence <= MaxDeposits
    BY DEF RelayConstants
  <2> HIDE DEF v
  <2> QED BY <1>0, <2>1, <2>2, CountKeeps, Zenon
<1>3. ASSUME NEW d \in Nodes, NEW n \in Nodes, NEW m \in Messages, NEW size \in Sizes, NEW ttl \in Ttls,
             NEW ok \in BOOLEAN, handle_deposit(d, n, m, size, ttl, ok)
      PROVE  CountInv'
  <2> DEFINE b == bindings[n]
  <2>0. BindingInv(b) /\ b # None /\ now \in Nat /\ b.next_sequence < MaxDeposits /\ MaxDeposits \in Nat
    BY <1>3 DEF RelayInv, handle_deposit, RelayConstants
  <2>1. PICK v : bindings' = [bindings EXCEPT ![n] = v] /\ DepositLeaves(n, v)
    <3>1. \E v : /\ bindings' = [bindings EXCEPT ![n] = v] /\ BindingInv(v) /\ bindings[n] # None
                 /\ v.quota = bindings[n].quota /\ DepositLeaves(n, v)
      BY <1>3, DepositDoes
    <3> QED BY <3>1, Zenon
  <2>2. prune_held_rows(b).next_sequence = b.next_sequence /\ b.next_sequence \in Nat
    <3>1. prune_held_rows(b).next_sequence = b.next_sequence
      BY <2>0, PruneKeeps, Zenon
    <3> QED BY <2>0, <3>1 DEF BindingInv, Rows
  <2>3. v.next_sequence \in {b.next_sequence, b.next_sequence + 1}
    BY <2>1, <2>2, Zenon DEF DepositLeaves
  <2>4. v.next_sequence <= MaxDeposits
    BY <2>0, <2>2, <2>3
  <2> QED BY <2>1, <2>4, CountKeeps, Zenon
<1>4. ASSUME NEW n \in Nodes, handle_drain_request(n)
      PROVE  CountInv'
  <2>1. bindings' = [bindings EXCEPT ![n] = prune_held_rows(bindings[n])] /\ bindings[n] # None
        /\ BindingInv(bindings[n]) /\ now \in Nat
    BY <1>4 DEF handle_drain_request, RelayInv
  <2>2. prune_held_rows(bindings[n]).next_sequence = bindings[n].next_sequence
    BY <2>1, PruneKeeps, Zenon
  <2>3. prune_held_rows(bindings[n]).next_sequence <= MaxDeposits
    BY <2>1, <2>2, Zenon DEF CountInv
  <2> QED BY <2>1, <2>3, CountKeeps, Zenon
<1>5. ASSUME NEW n \in Nodes, handle_unregister(n)
      PROVE  CountInv'
  BY <1>5, CountKeeps, Zenon DEF handle_unregister
<1>6. ASSUME NEW n \in Nodes, NEW ids \in SUBSET Messages, handle_ack(n, ids)
      PROVE  CountInv'
  <2>1. PICK v : /\ bindings' = [bindings EXCEPT ![n] = v] /\ bindings[n] # None
                 /\ v.next_sequence = bindings[n].next_sequence
    <3>1. \E v : /\ bindings' = [bindings EXCEPT ![n] = v] /\ BindingInv(v) /\ bindings[n] # None
                 /\ v.held = {h \in bindings[n].held : h.id \notin ids}
                 /\ v.quota = bindings[n].quota /\ v.next_sequence = bindings[n].next_sequence
      BY <1>6, AckDoes
    <3> QED BY <3>1, Zenon
  <2>2. v.next_sequence <= MaxDeposits
    BY <2>1, Zenon DEF CountInv
  <2> QED BY <2>1, <2>2, CountKeeps, Zenon
<1>7. CASE Tick \/ Restart
  BY <1>0, <1>7, Zenon DEF Tick, Restart
<1> QED BY <1>1, <1>2, <1>3, <1>4, <1>5, <1>6, <1>7, Zenon DEF Next

\* The invariants imply the types.
LEMMA TypesHold == RelayConstants /\ RelayInv /\ SpacingInv /\ CountInv => TypeOK
<1> SUFFICES ASSUME RelayConstants, RelayInv, SpacingInv, CountInv PROVE TypeOK
  OBVIOUS
<1>1. ASSUME NEW n \in Nodes, bindings[n] # None
      PROVE  /\ bindings[n].quota \in Quotas /\ bindings[n].held_bytes \in Nat
             /\ bindings[n].next_sequence \in 0 .. MaxDeposits
             /\ bindings[n].held \subseteq [seq : 0 .. MaxDeposits, id : Messages, by : Nodes,
                                            size : Sizes, expires : Nat]
  <2> DEFINE b == bindings[n]
  <2>1. BindingInv(b) /\ b.next_sequence <= MaxDeposits /\ MaxDeposits \in Nat
    BY <1>1, Zenon DEF RelayInv, CountInv, RelayConstants
  <2>2. b.quota \in Quotas /\ b.held_bytes \in Nat /\ b.next_sequence \in Nat /\ b.held \subseteq Held
        /\ \A h \in b.held : h.seq < b.next_sequence
    BY <2>1 DEF BindingInv, Rows
  <2> HIDE DEF b
  <2>3. \A h \in b.held : h \in [seq : 0 .. MaxDeposits, id : Messages, by : Nodes, size : Sizes, expires : Nat]
    BY <2>1, <2>2 DEF Held
  <2>4. b.next_sequence \in 0 .. MaxDeposits
    BY <2>1, <2>2
  <2> QED BY <2>2, <2>3, <2>4, Zenon DEF b
<1> QED BY <1>1, Zenon DEF TypeOK, RelayInv, SpacingInv

\* The relay store keeps its types and bounds, its byte column and the cooldown together,
\* for every number of nodes, messages, sizes, quotas and lifetimes.
THEOREM RelayIsSafe ==
    Spec => []RelaySafe
<1>1. Init => RelayInv /\ SpacingInv /\ CountInv
  BY RelayAssumption DEF Init, RelayInv, SpacingInv, CountInv, RegistrationsSpaced, RelayConstants
<1>2. RelayInv /\ SpacingInv /\ CountInv /\ [Next]_vars => RelayInv' /\ SpacingInv' /\ CountInv'
  BY RelayAssumption, RelayNext, SpacingNext, CountNext, Zenon
<1>3. RelayInv /\ SpacingInv /\ CountInv => RelaySafe
  <2>1. RelayInv => HeldBytesExact
    BY Zenon DEF RelayInv, BindingInv, HeldBytesExact
  <2>2. SpacingInv => RegistrationsSpaced
    BY Zenon DEF SpacingInv
  <2> QED BY <2>1, <2>2, RelayAssumption, TypesHold, Zenon DEF RelaySafe
<1> QED BY <1>1, <1>2, <1>3, PTL DEF Spec

-----------------------------------------------------------------------------
(* The engine over the store is the mailbox of module Relay *)

\* The mailbox a binding stands for is what it holds and has not expired.
LEMMA LiveIs ==
    ASSUME RelayConstants, RelayInv, NEW n \in Nodes
    PROVE  /\ bindings[n] # None => LiveBox[n] = Live(bindings[n], now) /\ LiveBox[n] # None
           /\ bindings[n] = None => LiveBox[n] = None
<1>1. bindings[n] # None => LiveBox[n] = Live(bindings[n], now)
  BY Zenon DEF LiveBox, Live
<1>2. bindings[n] # None => Live(bindings[n], now) \in Boxes
  <2> SUFFICES ASSUME bindings[n] # None PROVE Live(bindings[n], now) \in Boxes
    OBVIOUS
  <2>1. bindings[n] \in Rows
    BY DEF RelayInv
  <2> QED BY <2>1 DEF Live, Rows, Boxes
<1>3. bindings[n] = None => LiveBox[n] = None
  BY Zenon DEF LiveBox
<1> QED BY <1>1, <1>2, <1>3 DEF RelayConstants

\* An operation on one binding is an operation on one mailbox.
LEMMA LiveRow ==
    ASSUME NEW n \in Nodes, NEW v, bindings \in [Nodes -> Rows \cup {None}],
           bindings' = [bindings EXCEPT ![n] = v], now' = now
    PROVE  LiveBox' = [LiveBox EXCEPT ![n] = IF v = None THEN None ELSE Live(v, now)]
<1>1. \A k \in Nodes : bindings'[k] = IF k = n THEN v ELSE bindings[k]
  OBVIOUS
<1> QED BY <1>1, Zenon DEF LiveBox, Live

\* Both specifications count the same mailboxes.
LEMMA BoundIs ==
    ASSUME RelayConstants, RelayInv
    PROVE  Mailbox!Bound = {n \in Nodes : bindings[n] # None} /\ binding_count = Cardinality(Mailbox!Bound)
<1>1. \A n \in Nodes : LiveBox[n] # None <=> bindings[n] # None
  BY LiveIs, Zenon
<1>2. Mailbox!Bound = {n \in Nodes : bindings[n] # None}
  BY <1>1, Zenon DEF Mailbox!Bound
<1> QED BY <1>2, Zenon DEF binding_count

\* What a prune leaves is the same mailbox.
LEMMA QuietRow ==
    ASSUME RelayConstants, RelayInv, NEW n \in Nodes, bindings[n] # None, now' = now,
           bindings' = [bindings EXCEPT ![n] = prune_held_rows(bindings[n])]
    PROVE  LiveBox' = LiveBox
<1> DEFINE b == bindings[n]
           p == prune_held_rows(b)
<1>1. BindingInv(b) /\ now \in Nat /\ bindings \in [Nodes -> Rows \cup {None}]
  BY DEF RelayInv
<1>2. BindingInv(p) /\ Live(p, now) = Live(b, now)
  BY <1>1, PruneKeeps, Zenon
<1>3. p # None
  BY <1>2 DEF BindingInv, RelayConstants
<1> HIDE DEF p
<1>4. LiveBox' = [LiveBox EXCEPT ![n] = Live(b, now)]
  BY <1>1, <1>2, <1>3, LiveRow, Zenon DEF p
<1>5. LiveBox[n] = Live(b, now)
  BY LiveIs, Zenon
<1> QED BY <1>4, <1>5, Zenon DEF LiveBox

\* The sums, minima and counts of the mailbox are the store's.
LEMMA SameArithmetic ==
    /\ \A S : Mailbox!Bytes(S) = Bytes(S)
    /\ \A x, y : Mailbox!Lesser(x, y) = Lesser(x, y)
    /\ \A S : Mailbox!Cardinality(S) = Cardinality(S)
<1>1. \A S : Mailbox!Bytes(S) = Bytes(S)
  BY Zenon DEF Mailbox!Bytes, Bytes, Mailbox!MapThenSumSet, MapThenSumSet, Mailbox!MapThenFoldSet, MapThenFoldSet
<1>2. \A x, y : Mailbox!Lesser(x, y) = Lesser(x, y)
  BY Zenon DEF Mailbox!Lesser, Lesser
<1>3. \A S : Mailbox!Cardinality(S) = Cardinality(S)
  BY Zenon DEF Mailbox!Cardinality, Cardinality
<1> QED BY <1>1, <1>2, <1>3

\* A mailbox with new contents and a new sequence number.
LEMMA BoxUpdate ==
    ASSUME NEW B, NEW live, NEW next, B = [quota |-> B.quota, next |-> B.next, held |-> B.held]
    PROVE  [B EXCEPT !.held = live, !.next = next] = [quota |-> B.quota, next |-> next, held |-> live]
<1> DEFINE Q == {B.quota}
           N == {B.next, next}
           H == {B.held, live}
           r == [B EXCEPT !.held = live, !.next = next]
<1>1. live \in H /\ next \in N /\ B.quota \in Q /\ B.next \in N /\ B.held \in H
  OBVIOUS
<1> HIDE DEF Q, N, H
<1>2. B \in [quota : Q, next : N, held : H]
  BY <1>1
<1>3. r \in [quota : Q, next : N, held : H] /\ r.quota = B.quota /\ r.next = next /\ r.held = live
  BY <1>1, <1>2, Zenon
<1> HIDE DEF r
<1>4. r = [quota |-> r.quota, next |-> r.next, held |-> r.held]
  BY <1>3
<1> QED BY <1>3, <1>4, Zenon DEF r

\* A deposit in the store is a deposit in the mailbox, or nothing that shows.
LEMMA MailboxDeposit ==
    ASSUME RelayConstants, RelayInv, NEW d \in Nodes, NEW n \in Nodes, NEW m \in Messages,
           NEW size \in Sizes, NEW ttl \in Ttls, NEW ok \in BOOLEAN, handle_deposit(d, n, m, size, ttl, ok)
    PROVE  LiveBox' = LiveBox \/ \E e \in Nodes : Mailbox!Deposit(e, n)
<1> DEFINE b == bindings[n]
           p == prune_held_rows(b)
<1>0. now' = now /\ now \in Nat /\ b # None /\ BindingInv(b) /\ bindings \in [Nodes -> Rows \cup {None}]
  BY DEF handle_deposit, RelayInv
<1>1. PICK v : /\ bindings' = [bindings EXCEPT ![n] = v] /\ BindingInv(v)
               /\ v.quota = b.quota /\ DepositLeaves(n, v)
  <2>1. \E v : /\ bindings' = [bindings EXCEPT ![n] = v] /\ BindingInv(v) /\ bindings[n] # None
               /\ v.quota = bindings[n].quota /\ DepositLeaves(n, v)
    BY DepositDoes
  <2> QED BY <2>1, Zenon
<1>2. LiveBox' = [LiveBox EXCEPT ![n] = Live(v, now)]
  <2>1. v # None
    BY <1>1 DEF BindingInv, RelayConstants
  <2> QED BY <1>0, <1>1, <2>1, LiveRow, Zenon
<1>3. CASE v = p
  BY <1>0, <1>1, <1>3, QuietRow, Zenon
<1>4. ASSUME NEW e \in Nodes, NEW id \in Messages, NEW sz \in Sizes, NEW life \in Ttls, NEW x,
             x = [seq |-> b.next_sequence, id |-> id, by |-> e, size |-> sz, expires |-> now + life],
             v.held = p.held \cup {x}, v.next_sequence = b.next_sequence + 1,
             Bytes(p.held \cup {x}) <= Lesser(b.quota, MaxQuota),
             Bytes({h \in p.held \cup {x} : h.by = e}) <= Lesser(b.quota, PerDepositor)
      PROVE  Mailbox!Deposit(e, n)
  <2> DEFINE B == LiveBox[n]
  <2>1. B = Live(b, now) /\ n \in Mailbox!Bound
    BY <1>0, LiveIs, BoundIs, Zenon
  <2>2. p.held = {h \in b.held : h.expires > now}
    BY <1>0, PruneKeeps, Zenon
  <2>3. B.held = p.held /\ B.quota = b.quota /\ B.next = b.next_sequence
    BY <2>1, <2>2, SMTT(60) DEF Live
  <2> DEFINE live == {h \in B.held \cup {x} : h.expires > now}
  <2>4. Live(v, now) = [quota |-> B.quota, next |-> B.next + 1, held |-> live]
    <3>1. v.held = B.held \cup {x} /\ v.next_sequence = B.next + 1 /\ v.quota = B.quota
      BY <1>1, <1>4, <2>3, Zenon
    <3> HIDE DEF B
    <3> QED BY <3>1, Zenon DEF Live
  <2>5. LiveBox' = [LiveBox EXCEPT ![n].held = live, ![n].next = @ + 1]
    <3>1. B = [quota |-> B.quota, next |-> B.next, held |-> B.held]
      BY <2>1 DEF Live
    <3> HIDE DEF live, B, p
    <3>2. [B EXCEPT !.held = live, !.next = @ + 1] = [quota |-> B.quota, next |-> B.next + 1, held |-> live]
      BY <3>1, BoxUpdate, Zenon
    <3>3. LiveBox' = [LiveBox EXCEPT ![n] = [B EXCEPT !.held = live, !.next = @ + 1]]
      BY <1>2, <2>4, <3>2, Zenon
    <3> QED BY <3>3, Zenon DEF B
  <2>6. x = [seq |-> B.next, id |-> id, by |-> e, size |-> sz, expires |-> now + life]
    BY <1>4, <2>3, Zenon
  <2>7. /\ Mailbox!Bytes(B.held \cup {x}) <= Mailbox!Lesser(B.quota, MaxQuota)
        /\ Mailbox!Bytes({h \in B.held \cup {x} : h.by = e}) <= Mailbox!Lesser(B.quota, PerDepositor)
    BY <1>4, <2>3, SameArithmetic, Zenon
  <2> HIDE DEF B
  <2> QED BY <1>0, <2>1, <2>5, <2>6, <2>7, Zenon DEF Mailbox!Deposit, B
<1> QED BY <1>1, <1>3, <1>4, ZenonT(60) DEF DepositLeaves

\* An acknowledgement takes the acknowledged holds from the mailbox.
LEMMA MailboxAck ==
    ASSUME RelayConstants, RelayInv, NEW n \in Nodes, NEW ids \in SUBSET Messages, handle_ack(n, ids)
    PROVE  Mailbox!Ack(n)
<1> DEFINE b == bindings[n]
           B == LiveBox[n]
           live == {h \in B.held : h.id \notin ids}
<1>0. now' = now /\ b # None /\ bindings \in [Nodes -> Rows \cup {None}]
  BY Zenon DEF handle_ack, RelayInv
<1>1. PICK v : /\ bindings' = [bindings EXCEPT ![n] = v] /\ BindingInv(v)
               /\ v.held = {h \in b.held : h.id \notin ids}
               /\ v.quota = b.quota /\ v.next_sequence = b.next_sequence
  <2>1. \E v : /\ bindings' = [bindings EXCEPT ![n] = v] /\ BindingInv(v) /\ bindings[n] # None
               /\ v.held = {h \in bindings[n].held : h.id \notin ids}
               /\ v.quota = bindings[n].quota /\ v.next_sequence = bindings[n].next_sequence
    BY AckDoes
  <2> QED BY <2>1, Zenon
<1>2. LiveBox' = [LiveBox EXCEPT ![n] = Live(v, now)]
  <2>1. v # None
    BY <1>1 DEF BindingInv, RelayConstants
  <2> QED BY <1>0, <1>1, <2>1, LiveRow, ZenonT(60)
<1>3. B = Live(b, now) /\ n \in Mailbox!Bound
  BY <1>0, LiveIs, BoundIs, Zenon
<1>4. B.held = {h \in b.held : h.expires > now} /\ B.quota = b.quota /\ B.next = b.next_sequence
      /\ B = [quota |-> B.quota, next |-> B.next, held |-> B.held]
  BY <1>3 DEF Live
<1> HIDE DEF B
<1>5. Live(v, now) = [quota |-> B.quota, next |-> B.next, held |-> live]
  <2>1. {h \in v.held : h.expires > now} = live
    BY <1>1, <1>4, Zenon
  <2> QED BY <1>1, <1>4, <2>1, Zenon DEF Live
<1> HIDE DEF live
<1>6. [B EXCEPT !.held = live] = [quota |-> B.quota, next |-> B.next, held |-> live]
  <2>0. B = [quota |-> B.quota, next |-> B.next, held |-> B.held]
    BY <1>4, Zenon
  <2>1. [B EXCEPT !.held = live, !.next = B.next] = [quota |-> B.quota, next |-> B.next, held |-> live]
    BY <2>0, BoxUpdate, Zenon
  <2>2. B \in [quota : {B.quota}, next : {B.next}, held : {B.held, live}]
    BY <1>4
  <2> QED BY <1>4, <2>1, <2>2, SMTT(60)
<1>7. LiveBox' = [LiveBox EXCEPT ![n].held = {h \in @ : h.id \notin ids}]
  <2>1. LiveBox' = [LiveBox EXCEPT ![n] = [B EXCEPT !.held = live]]
    BY <1>2, <1>5, <1>6, Zenon
  <2> QED BY <2>1 DEF B, live
<1> QED BY <1>0, <1>3, <1>7, Zenon DEF Mailbox!Ack

\* Time takes the holds that expire.
LEMMA MailboxPasses ==
    ASSUME RelayConstants, RelayInv, Tick
    PROVE  Mailbox!Passes
<1>0. bindings' = bindings /\ now' = now + 1 /\ now \in Nat
  BY DEF Tick, RelayInv
<1>1. ASSUME NEW n \in Nodes, bindings[n] # None
      PROVE  Live(bindings[n], now') = [LiveBox[n] EXCEPT !.held = {h \in @ : h.expires > now'}]
  <2> DEFINE b == bindings[n]
             B == LiveBox[n]
             live == {h \in B.held : h.expires > now'}
  <2>1. B = Live(b, now)
    BY <1>1, LiveIs, Zenon
  <2>2. B.held = {h \in b.held : h.expires > now} /\ B.quota = b.quota /\ B.next = b.next_sequence
        /\ B = [quota |-> B.quota, next |-> B.next, held |-> B.held]
    BY <2>1 DEF Live
  <2> HIDE DEF B
  <2>3. live = {h \in b.held : h.expires > now'}
    <3>1. \A h \in b.held : h.expires \in Nat
      BY <1>1, HeldSized, SMTT(60) DEF Held, RelayInv
    <3>2. \A h \in b.held : h.expires > now' => h.expires > now
      BY <1>0, <3>1, SMTT(60)
    <3> QED BY <2>2, <3>2, Zenon
  <2> HIDE DEF live
  <2>4. [B EXCEPT !.held = live, !.next = B.next] = [quota |-> B.quota, next |-> B.next, held |-> live]
    BY <2>2, BoxUpdate, ZenonT(60)
  <2>5. B \in [quota : {B.quota}, next : {B.next}, held : {B.held, live}]
    BY <2>2
  <2>6. [B EXCEPT !.held = live] = [quota |-> B.quota, next |-> B.next, held |-> live]
    BY <2>4, <2>5
  <2>7. Live(b, now') = [quota |-> B.quota, next |-> B.next, held |-> live]
    BY <2>2, <2>3, Zenon DEF Live
  <2>8. Live(b, now') = [B EXCEPT !.held = live]
    BY <2>6, <2>7, Zenon
  <2> QED BY <2>8, Zenon DEF live, B
<1>2. LiveBox' = [n \in Nodes |-> IF bindings[n] = None THEN None ELSE Live(bindings[n], now')]
  BY <1>0, Zenon DEF LiveBox, Live
<1>3. \A n \in Nodes : LiveBox[n] = None <=> bindings[n] = None
  BY LiveIs, Zenon
<1>4. LiveBox' = [n \in Nodes |-> IF LiveBox[n] = None THEN None
                                  ELSE [LiveBox[n] EXCEPT !.held = {h \in @ : h.expires > now'}]]
  BY <1>1, <1>2, <1>3, Zenon
<1> QED BY <1>0, <1>4, Zenon DEF Mailbox!Passes

\* Each operation of the engine is an operation of the mailbox, or none.
LEMMA MailboxNext == RelayConstants /\ RelayInv /\ [Next]_vars => [Mailbox!ANext]_(Mailbox!avars)
<1> SUFFICES ASSUME RelayConstants, RelayInv, [Next]_vars PROVE Mailbox!ANext \/ (LiveBox' = LiveBox /\ now' = now)
  BY Zenon DEF Mailbox!avars
<1>0. UNCHANGED <<bindings, now>> => LiveBox' = LiveBox /\ now' = now
  BY Zenon DEF LiveBox
<1>1. CASE UNCHANGED vars
  BY <1>0, <1>1, Zenon DEF vars
<1>2. ASSUME NEW n \in Nodes, NEW quota \in Quotas, handle_register(n, quota)
      PROVE  Mailbox!Register(n) \/ UNCHANGED <<bindings, now>>
  <2> DEFINE v == [quota |-> quota, next_sequence |-> 0, held |-> {}, held_bytes |-> 0]
             B == [quota |-> quota, next |-> 0, held |-> {}]
  <2>1. CASE bindings[n] # None
    BY <1>2, <2>1, Zenon DEF handle_register
  <2>2. CASE bindings[n] = None
    <3>1. binding_count < MaxBindings /\ now' = now
          /\ (binding_count >= MaxBindings \/ bindings' = [bindings EXCEPT ![n] = v])
          /\ (binding_count >= MaxBindings => UNCHANGED <<bindings, now>>)
      BY <1>2, <2>2, Zenon DEF handle_register, register_allowed
    <3>2. BindingInv(v) /\ v # None
      BY NewBinding, SMTT(60) DEF BindingInv, RelayConstants
    <3>3. Live(v, now) = B
      BY DEF Live
    <3>4. ASSUME bindings' = [bindings EXCEPT ![n] = v] PROVE Mailbox!Register(n)
      <4>1. LiveBox' = [LiveBox EXCEPT ![n] = B]
        <5>1. bindings \in [Nodes -> Rows \cup {None}]
          BY DEF RelayInv
        <5> HIDE DEF v, B
        <5> QED BY <3>1, <3>2, <3>3, <3>4, <5>1, LiveRow, Zenon
      <4>2. n \notin Mailbox!Bound /\ Mailbox!Cardinality(Mailbox!Bound) < MaxBindings
        BY <2>2, <3>1, BoundIs, SameArithmetic, Zenon
      <4>3. now' = now
        BY <3>1, Zenon
      <4> QED BY <4>1, <4>2, <4>3, Zenon DEF Mailbox!Register
    <3> QED BY <3>1, <3>4, Zenon
  <2> QED BY <2>1, <2>2
<1>3. ASSUME NEW d \in Nodes, NEW n \in Nodes, NEW m \in Messages, NEW size \in Sizes, NEW ttl \in Ttls,
             NEW ok \in BOOLEAN, handle_deposit(d, n, m, size, ttl, ok)
      PROVE  (LiveBox' = LiveBox /\ now' = now) \/ \E e \in Nodes : Mailbox!Deposit(e, n)
  <2>1. now' = now
    BY <1>3, Zenon DEF handle_deposit
  <2>2. LiveBox' = LiveBox \/ \E e \in Nodes : Mailbox!Deposit(e, n)
    BY <1>3, MailboxDeposit
  <2> QED BY <2>1, <2>2, Zenon
<1>4. ASSUME NEW n \in Nodes, handle_drain_request(n)
      PROVE  LiveBox' = LiveBox /\ now' = now
  BY <1>4, QuietRow, Zenon DEF handle_drain_request
<1>5. ASSUME NEW n \in Nodes, handle_unregister(n)
      PROVE  Mailbox!Unregister(n)
  <2>1. bindings \in [Nodes -> Rows \cup {None}] /\ bindings' = [bindings EXCEPT ![n] = None]
        /\ now' = now /\ bindings[n] # None
    BY <1>5, Zenon DEF RelayInv, handle_unregister
  <2>2. LiveBox' = [LiveBox EXCEPT ![n] = None]
    BY <2>1, LiveRow, Zenon
  <2>3. n \in Mailbox!Bound
    BY <2>1, BoundIs, Zenon
  <2> QED BY <2>1, <2>2, <2>3, Zenon DEF Mailbox!Unregister
<1>6. ASSUME NEW n \in Nodes, NEW ids \in SUBSET Messages, handle_ack(n, ids)
      PROVE  Mailbox!Ack(n)
  BY <1>6, MailboxAck
<1>7. CASE Tick
  BY <1>7, MailboxPasses, Zenon DEF Mailbox!ANext
<1>8. CASE Restart
  BY <1>0, <1>8, Zenon DEF Restart
<1>9. \A n \in Nodes : Mailbox!Register(n) \/ Mailbox!Ack(n) \/ Mailbox!Unregister(n) => Mailbox!ANext
  BY Zenon DEF Mailbox!ANext
<1>10. \A e, n \in Nodes : Mailbox!Deposit(e, n) => Mailbox!ANext
  BY Zenon DEF Mailbox!ANext
<1>11. CASE Next
  <2> DEFINE Goal == Mailbox!ANext \/ (LiveBox' = LiveBox /\ now' = now)
  <2>1. ASSUME NEW n \in Nodes, NEW quota \in Quotas, handle_register(n, quota) PROVE Goal
    BY <1>0, <1>2, <1>9, <2>1, Zenon
  <2>2. ASSUME NEW d \in Nodes, NEW n \in Nodes, NEW m \in Messages, NEW size \in Sizes, NEW ttl \in Ttls,
               NEW ok \in BOOLEAN, handle_deposit(d, n, m, size, ttl, ok) PROVE Goal
    <3>1. (LiveBox' = LiveBox /\ now' = now) \/ \E e \in Nodes : Mailbox!Deposit(e, n)
      BY <1>3, <2>2
    <3> QED BY <1>10, <3>1, Zenon
  <2>3. ASSUME NEW n \in Nodes, handle_drain_request(n) \/ handle_unregister(n) PROVE Goal
    BY <1>4, <1>5, <1>9, <2>3, Zenon
  <2>4. ASSUME NEW n \in Nodes, NEW ids \in SUBSET Messages, handle_ack(n, ids) PROVE Goal
    BY <1>6, <1>9, <2>4, Zenon
  <2> HIDE DEF Goal
  <2>5. Goal
    BY <1>7, <1>8, <1>11, <2>1, <2>2, <2>3, <2>4, Zenon DEF Next, Goal
  <2> QED BY <2>5, Zenon DEF Goal
<1> QED BY <1>1, <1>11, Zenon

\* RelayBindingStore: with its byte column, its lazy pruning and its restarts, the
\* engine over the durable store is the mailbox that module Relay describes.
THEOREM MailboxIsImplemented ==
    Spec => IsMailbox
<1>1. Init => RelayInv
  BY RelayAssumption DEF Init, RelayInv, RelayConstants
<1>2. RelayInv /\ [Next]_vars => RelayInv'
  BY RelayAssumption, RelayNext, Zenon
<1>3. Init => Mailbox!AInit
  BY Zenon DEF Init, Mailbox!AInit, LiveBox
<1>4. RelayInv /\ [Next]_vars => [Mailbox!ANext]_(Mailbox!avars)
  BY RelayAssumption, MailboxNext, Zenon
<1> QED BY <1>1, <1>2, <1>3, <1>4, PTL DEF Spec, IsMailbox, Mailbox!ASpec

===============================================================================
