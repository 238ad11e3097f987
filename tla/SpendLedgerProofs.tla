-------------------------- MODULE SpendLedgerProofs ---------------------------
(***************************************************************************)
(* The money of a grant, for every value of the constants: the used        *)
(* amounts are what is reserved and what was paid (Tally), they stay       *)
(* within what the owner approved (WithinApproval, EnvelopeTotal), a call  *)
(* neither loses nor doubles what it reserved (CallConserved), and a block *)
(* is paid once (BlockPaidOnce).                                           *)
(*                                                                         *)
(* First GrantBudget alone: every operation on a balanced budget leaves a  *)
(* balanced budget.  The used amounts are what is reserved and what was    *)
(* paid, no envelope is overdrawn but by a provider, and every call        *)
(* conserves its reservation.  Then the file, the crashes and the          *)
(* payments.                                                               *)
(***************************************************************************)
EXTENDS SpendLedgerKept

-----------------------------------------------------------------------------
(* Every operation leaves a balanced budget *)

\* reserve
LEMMA ReserveBalances ==
    ASSUME NEW b \in Budgets, Good(b), NEW p \in Pays, Balanced(b, p), NEW i \in Ids, Unused(b, p, i),
           NEW charges \in [Recipients -> Nat], NEW most, Fits(b, charges, most),
           Good(Pend(Debit(b, charges), i, charges)),
           NEW a, \A r \in Recipients : a.pending[<<i, r>>] = 0, Promised(a, b, p)
    PROVE  LET n == Pend(Debit(b, charges), i, charges)
           IN  Balanced(n, p) /\ Promised(a, n, p)
<1> DEFINE n == Pend(Debit(b, charges), i, charges)
<1>1. Good(n) /\ n \in Budgets
  BY ZenonT(60) DEF Good
<1>2. /\ Charged(b, n, charges) /\ n.call = b.call
      /\ \A c \in Cells : n.pending[c] = IF c[1] = i THEN charges[c[2]] ELSE b.pending[c]
  BY ReserveDoes, ZenonT(60)
<1> HIDE DEF n
<1>3. Tallied(n, p) /\ (Sized(b, p) => Sized(n, p)) /\ (Capped(b) => Capped(n))
  BY <1>1, <1>2, ReservedMoney DEF Balanced
<1>4. HoldsUnpaid(n, p) /\ BlocksApart(n) /\ Known(n, p)
  BY <1>2, SameCalls, Zenon DEF Balanced
<1>5. ASSUME NEW h \in Holds, HasCall(n, h), Conserved(b, h)
      PROVE  Conserved(n, h)
  <2>1. HasCall(b, h) /\ h # i
    BY <1>2, <1>5, Zenon DEF HasCall, Unused
  <2> QED BY <1>1, <1>2, <1>5, <2>1, ReservedCalls, SMTT(60) DEF Good, Unused
<1>6. Balanced(n, p)
  BY <1>2, <1>3, <1>4, <1>5, Zenon DEF Balanced, HasCall
<1>7. Promised(a, n, p)
  <2> SUFFICES ASSUME NEW c \in Cells, Counted(a, c), p[c].st = "none"
               PROVE  /\ a.pending[c] <= n.pending[c]
                      /\ \A fs \in DrawnFor(a, c[1]) : Draws(n, c, fs)
    BY Zenon DEF Promised
  <2>1. /\ a.pending[c] <= b.pending[c]
        /\ \A fs \in DrawnFor(a, c[1]) : Draws(b, c, fs)
    BY ZenonT(60) DEF Promised
  <2>2. c[1] # i
    BY DEF Counted, Cells
  <2> QED BY <1>2, <2>1, <2>2, Zenon DEF Draws, HasCall
<1> QED BY <1>6, <1>7, Zenon DEF n

\* reserve_call
LEMMA HoldBalances ==
    ASSUME NEW b \in Budgets, Good(b), NEW p \in Pays, Balanced(b, p), NEW h \in Holds, Unused(b, p, h),
           NEW r \in Recipients, NEW most, Fits(b, One(r, Reserved), most),
           \A c \in Cells : p[c].for # None => p[c].for[1] # h, Good(WithHold(b, h, r))
    PROVE  LET n == WithHold(b, h, r)
           IN  Balanced(n, p) /\ Promised(b, n, p)
<1> DEFINE n == WithHold(b, h, r)
           charges == One(r, Reserved)
<1>1. /\ Reserved \in Nat /\ h \in Ids /\ charges \in [Recipients -> Nat]
      /\ charges[r] = Reserved
  BY OneType, LedgerAssumption, SMTT(60) DEF Reserved, One
<1>3. /\ Charged(b, n, charges)
      /\ n.call[h] = NewCall(r) /\ \A g \in Holds \ {h} : n.call[g] = b.call[g]
      /\ \A c \in Cells : n.pending[c] = IF c[1] = h THEN charges[c[2]] ELSE b.pending[c]
  BY HoldDoes
<1>20. Good(n) /\ n \in Budgets /\ NewCall(r) \in CallSpends
  BY Zenon DEF Good, NewCall, CallSpends, Seqs
<1> HIDE DEF n, charges
<1>2. Good(n) /\ n \in Budgets /\ \A g \in Holds : HasCall(n, g) <=> g = h \/ HasCall(b, g)
  BY <1>3, <1>20, NoCall, ZenonT(60) DEF HasCall
<1>4. Tallied(n, p) /\ (Sized(b, p) => Sized(n, p)) /\ (Capped(b) => Capped(n))
  <2>1. Fits(b, charges, most)
    BY Zenon DEF charges
  <2> QED BY <1>1, <1>2, <1>3, <2>1, ReservedMoney, SMTT(60) DEF Balanced
<1>5. ~HasCall(b, h) /\ \A q \in Recipients : b.pending[<<h, q>>] = 0 /\ p[<<h, q>>].st = "none"
  BY Zenon DEF Unused
<1>6. HoldsUnpaid(n, p)
  BY <1>2, <1>5, Zenon DEF HoldsUnpaid, Balanced
<1>7. NewCall(r).draws = {} /\ ~NewCall(r).recorded /\ NewCall(r).spent = 0 /\ NewCall(r).released = 0
      /\ NewCall(r).peer = r
  BY Zenon DEF NewCall
<1>8. BlocksApart(n)
  <2> SUFFICES ASSUME NEW g \in Holds, HasCall(n, g)
               PROVE  /\ n.call[g].recorded => n.call[g].closed
                      /\ \A d, e \in n.call[g].draws : d[2] = e[2] => d = e
                      /\ \A d \in n.call[g].draws : d[2] \notin n.call[g].paidSeqs
    BY Zenon DEF BlocksApart
  <2>1. CASE g = h
    BY <1>3, <1>7, <2>1, Zenon
  <2>2. CASE g # h
    BY <1>2, <1>3, <2>2, Zenon DEF Balanced, BlocksApart
  <2> QED BY <2>1, <2>2, Zenon
<1>9. Known(n, p)
  <2> SUFFICES ASSUME NEW c \in Cells, p[c].for # None, NEW fs, fs = p[c].for
               PROVE  /\ HasCall(n, fs[1]) => c[2] = n.call[fs[1]].peer
                      /\ p[c].st = "inflight" => Draws(n, c, fs)
                      /\ p[c].st = "paid" /\ HasCall(n, fs[1]) =>
                            Draws(n, c, fs) \/ fs[2] \in n.call[fs[1]].paidSeqs \/ n.call[fs[1]].recorded
    BY Zenon DEF Known
  <2>1. fs[1] \in Holds /\ fs[1] # h
    BY Zenon DEF Pays
  <2>2. n.call[fs[1]] = b.call[fs[1]]
    BY <1>3, <2>1, Zenon
  <2>3. /\ HasCall(b, fs[1]) => c[2] = b.call[fs[1]].peer
        /\ p[c].st = "inflight" => Draws(b, c, fs)
        /\ p[c].st = "paid" /\ HasCall(b, fs[1]) =>
              Draws(b, c, fs) \/ fs[2] \in b.call[fs[1]].paidSeqs \/ b.call[fs[1]].recorded
    BY Zenon DEF Balanced, Known
  <2> QED BY <2>2, <2>3, Zenon DEF Draws, HasCall
<1>10. ASSUME NEW g \in Holds, HasCall(n, g), HasCall(b, g) => Conserved(b, g)
       PROVE  Conserved(n, g)
  <2>1. CASE g = h
    <3>1. n.pending[<<h, r>>] = Reserved
      BY <1>1, <1>3, Zenon DEF Cells
    <3> DEFINE k == n.call[h]
               f == [d \in k.draws |-> n.pending[<<d[1], k.peer>>]]
    <3>2. k.draws = {} /\ k.spent = 0 /\ k.released = 0 /\ k.peer = r
      BY <1>3, <1>7, Zenon
    <3>3. SumFunctionOnSet(f, k.draws) = 0
      BY <3>2, SumEmpty, ZenonT(60)
    <3>4. Reserved = k.spent + k.released + n.pending[<<h, k.peer>>] + SumFunctionOnSet(f, k.draws)
      BY <1>1, <3>1, <3>2, <3>3, SMTT(60)
    <3> QED BY <2>1, <3>4, Zenon DEF Conserved
  <2>2. CASE g # h
    BY <1>1, <1>2, <1>3, <1>5, <1>10, <2>2, ReservedCalls, SMTT(60) DEF Good
  <2> QED BY <2>1, <2>2, Zenon
<1>11. Balanced(n, p)
  BY <1>4, <1>6, <1>8, <1>9, <1>10, Zenon DEF Balanced
<1>12. Promised(b, n, p)
  <2> SUFFICES ASSUME NEW c \in Cells, Counted(b, c), p[c].st = "none"
               PROVE  /\ b.pending[c] <= n.pending[c]
                      /\ \A fs \in DrawnFor(b, c[1]) : Draws(n, c, fs)
    BY Zenon DEF Promised
  <2>1. /\ b.pending[c] <= b.pending[c]
        /\ \A fs \in DrawnFor(b, c[1]) : Draws(b, c, fs)
    BY PromisedItself, ZenonT(60) DEF Promised
  <2>2. c[1] # h
    BY <1>5 DEF Counted, Cells
  <2>3. ASSUME NEW fs \in DrawnFor(b, c[1]) PROVE Draws(n, c, fs)
    <3>1. fs[1] \in Holds /\ Draws(b, c, fs)
      BY <2>1, DrawnForIs DEF Cells
    <3> QED BY <1>2, <1>3, <1>5, <3>1, ZenonT(60) DEF Draws
  <2> QED BY <1>3, <2>1, <2>2, <2>3, Zenon
<1> QED BY <1>11, <1>12, ZenonT(60) DEF n

\* the top-up of reserve_quoted_readmission
LEMMA TopUpBalances ==
    ASSUME NEW b \in Budgets, Good(b), NEW p \in Pays, Balanced(b, p),
           NEW i \in Ids, NEW r \in Recipients, NEW amount \in Nat,
           b.pending[<<i, r>>] > 0, p[<<i, r>>].st = "none",
           DrawnFor(b, i) = {}, ~(i \in Holds /\ HasCall(b, i)),
           NEW most, amount > 0 => Fits(b, One(r, amount), most), Good(TopUp(b, i, r, amount))
    PROVE  LET n == TopUp(b, i, r, amount)
           IN  Balanced(n, p) /\ Promised(b, n, p)
<1> DEFINE n == TopUp(b, i, r, amount)
           delta == One(r, amount)
<1>1. /\ delta \in [Recipients -> Int] /\ Total(delta) = amount /\ <<i, r>> \in Cells
      /\ \A q \in Recipients : delta[q] = IF q = r THEN amount ELSE 0
  BY TotalOne DEF Cells, One
<1>2. Good(n) /\ n \in Budgets
  BY Zenon DEF Good
<1>3. /\ Charged(b, n, delta) /\ n.call = b.call
      /\ \A c \in Cells : n.pending[c] = b.pending[c] + IF c = <<i, r>> THEN amount ELSE 0
  BY TopUpDoes, ZenonT(60)
<1> HIDE DEF n
<1>4. \A c \in Cells : b.pending[c] \in Nat /\ n.pending[c] \in Nat /\ b.pending[c] <= n.pending[c]
  BY <1>2, <1>3, KeptTypes, SMTT(60) DEF Budgets
<1>5. \A c \in Cells : c # <<i, r>> => n.pending[c] = b.pending[c]
  BY <1>3, <1>4, SMTT(60)
<1>6. Tallied(n, p)
  <2>1. \A k \in Ids \ {i} : n.pending[<<k, r>>] = b.pending[<<k, r>>]
    BY <1>5, Zenon DEF Cells
  <2>2. Keeping(n, p, r) = Keeping(b, p, r) - KeptOrPaid(b, p, <<i, r>>) + KeptOrPaid(n, p, <<i, r>>)
    BY <1>2, <2>1, KeepingMovesOne, ZenonT(60)
  <2>3. KeptOrPaid(n, p, <<i, r>>) = KeptOrPaid(b, p, <<i, r>>) + amount
    BY <1>1, <1>3, <1>4, SMTT(60) DEF KeptOrPaid
  <2>4. Keeping(n, p, r) = Keeping(b, p, r) + amount
    BY <1>1, <1>2, <2>2, <2>3, KeptTypes, SMTT(60)
  <2>5. \A c \in Cells : c[2] # r => n.pending[c] = b.pending[c]
    BY <1>5, SMTT(60)
  <2>6. Tallied(b, p) /\ amount \in Int /\ Charged(b, n, One(r, amount))
    BY <1>3 DEF Balanced, delta
  <2> QED BY <1>2, <2>4, <2>5, <2>6, OneTally, SMTT(60)
<1>7. ASSUME Sized(b, p) PROVE Sized(n, p)
  <2> SUFFICES ASSUME NEW c \in Cells, n.pending[c] > 0, p[c].st \in {"inflight", "paid"}
               PROVE  p[c].amt <= n.pending[c]
    BY Zenon DEF Sized
  <2>1. c # <<i, r>>
    BY Zenon
  <2> QED BY <1>5, <1>7, <2>1, Zenon DEF Sized
<1>8. ASSUME Capped(b) PROVE Capped(n)
  <2>1. /\ b.used \in Nat /\ b.budget \in Nat /\ b.cap \in [Recipients -> Nat]
        /\ b.usedBy \in [Recipients -> Nat]
    BY Zenon DEF Budgets
  <2>2. /\ b.used <= b.budget /\ \A q \in Recipients : b.usedBy[q] <= b.cap[q]
    BY <1>8, ZenonT(60) DEF Capped
  <2>3. amount <= b.budget - b.used /\ amount <= b.cap[r] - b.usedBy[r]
    <3>1. CASE amount > 0
      BY <1>1, <2>1, <2>2, <3>1, SMTT(60) DEF Fits, Sub, Max2
    <3>2. CASE amount = 0
      BY <2>1, <2>2, <3>2, SMTT(60)
    <3> QED BY <3>1, <3>2, SMTT(60)
  <2>4. n.used <= n.budget
    BY <1>1, <1>3, <2>1, <2>3, SMTT(60) DEF Charged, SameLimits
  <2>5. \A q \in Recipients : n.usedBy[q] <= n.cap[q]
    <3> TAKE q \in Recipients
    <3>1. n.usedBy[q] = b.usedBy[q] + delta[q] /\ n.cap = b.cap
      BY <1>3, Zenon DEF Charged, SameLimits
    <3> QED BY <1>1, <2>1, <2>2, <2>3, <3>1, SMTT(60)
  <2> HIDE DEF delta
  <2> QED BY <1>1, <1>2, <1>3, <1>8, <2>4, <2>5, CappedCharged, Zenon
<1>9. ASSUME NEW h \in Holds, HasCall(n, h), Conserved(b, h)
      PROVE  Conserved(n, h)
  <2>1. HasCall(b, h) /\ n.call[h] = b.call[h]
    BY <1>3, <1>9, ZenonT(60) DEF HasCall
  <2>2. \A c \in Cells : c[1] # i => n.pending[c] = b.pending[c]
    BY <1>5
  <2> QED BY <1>2, <1>9, <2>1, <2>2, OtherCalls, Zenon
<1>10. HoldsUnpaid(n, p) /\ BlocksApart(n) /\ Known(n, p)
  BY <1>3, SameCalls, Zenon DEF Balanced
<1>11. Balanced(n, p)
  BY <1>3, <1>6, <1>7, <1>8, <1>9, <1>10, Zenon DEF Balanced, HasCall
<1>12. Promised(b, n, p)
  BY <1>3, <1>4, PromisedSame, Zenon
<1> QED BY <1>11, <1>12, Zenon DEF n

\* draw_call_spend
LEMMA DrawBalances ==
    ASSUME NEW b \in Budgets, Good(b), NEW p \in Pays, Balanced(b, p),
           NEW h \in Holds, HasCall(b, h), ~b.call[h].closed,
           NEW i \in Ids, Unused(b, p, i), NEW s \in Seqs, NEW amount \in Nat,
           amount > 0, amount <= b.pending[<<h, b.call[h].peer>>],
           s \notin b.call[h].paidSeqs, (\A d \in b.call[h].draws : d[2] # s),
           GoodAlike(b, DrawFrom(b, h, i, s, amount))
    PROVE  LET n == DrawFrom(b, h, i, s, amount)
           IN  Balanced(n, p) /\ Promised(b, n, p)
<1> DEFINE n == DrawFrom(b, h, i, s, amount)
           k == b.call[h]
           r == k.peer
           l == [k EXCEPT !.draws = k.draws \cup {<<i, s>>}]
<1>1. /\ k \in CallSpends /\ r \in Recipients /\ h \in Ids /\ i # h /\ Kept(b)
      /\ <<h, r>> \in Cells /\ <<i, r>> \in Cells
      /\ \A c \in Cells : b.pending[c] \in Nat
  BY CallTypes, Zenon DEF Unused, Good, Cells, Budgets
<1>2. Good(n) /\ n \in Budgets /\ \A g \in Holds : HasCall(n, g) <=> HasCall(b, g)
  BY Zenon DEF GoodAlike, Good
<1>3. /\ SameMoney(b, n) /\ n.call[h] = l
      /\ \A g \in Holds \ {h} : n.call[g] = b.call[g]
      /\ \A c \in Cells : n.pending[c] = IF c = <<h, r>> THEN b.pending[c] - amount
                                         ELSE IF c = <<i, r>> THEN amount ELSE b.pending[c]
  BY <1>1, DrawDoes
<1>4. /\ l.peer = r /\ l.closed = k.closed /\ l.recorded = k.recorded /\ l.paidSeqs = k.paidSeqs
      /\ l.spent = k.spent /\ l.released = k.released /\ l.draws = k.draws \cup {<<i, s>>}
  BY <1>1, Zenon DEF CallSpends
<1> HIDE DEF n, l
<1>5. /\ b.pending[<<i, r>>] = 0 /\ p[<<i, r>>].st = "none" /\ p[<<h, r>>].st = "none"
      /\ \A q \in Recipients : b.pending[<<i, q>>] = 0
  BY <1>1, Zenon DEF Unused, Balanced, HoldsUnpaid
<1>6. n.pending[<<h, r>>] = b.pending[<<h, r>>] - amount /\ n.pending[<<i, r>>] = amount
  BY <1>1, <1>3, Zenon
<1>7. \A c \in Cells : c # <<h, r>> /\ c # <<i, r>> => n.pending[c] = b.pending[c]
  BY <1>3, ZenonT(60)
<1>8. Tallied(n, p)
  <2>1. \A j \in Ids \ {h, i} : n.pending[<<j, r>>] = b.pending[<<j, r>>]
    BY <1>1, <1>7, ZenonT(60) DEF Cells
  <2>2. Keeping(n, p, r) = Keeping(b, p, r)
               - KeptOrPaid(b, p, <<h, r>>) + KeptOrPaid(n, p, <<h, r>>)
               - KeptOrPaid(b, p, <<i, r>>) + KeptOrPaid(n, p, <<i, r>>)
    BY <1>1, <1>2, <2>1, KeepingMoves, SMTT(60)
  <2>3. /\ KeptOrPaid(b, p, <<h, r>>) = b.pending[<<h, r>>]
        /\ KeptOrPaid(n, p, <<h, r>>) = b.pending[<<h, r>>] - amount
        /\ KeptOrPaid(b, p, <<i, r>>) = 0 /\ KeptOrPaid(n, p, <<i, r>>) = amount
    BY <1>1, <1>5, <1>6, SMTT(60) DEF KeptOrPaid
  <2>4. Keeping(n, p, r) = Keeping(b, p, r) + 0
    BY <1>1, <2>2, <2>3, KeptTypes, SMTT(60)
  <2>5. \A c \in Cells : c[2] # r => n.pending[c] = b.pending[c]
    BY <1>7, SMTT(60)
  <2>6. Tallied(b, p) /\ 0 \in Int /\ Charged(b, n, One(r, 0))
    BY <1>1, <1>3, SameIsCharged DEF Balanced
  <2> HIDE DEF r
  <2> QED BY <1>1, <1>2, <2>4, <2>5, <2>6, OneTally, SMTT(60)
<1>9. HoldsUnpaid(n, p)
  BY <1>2, Zenon DEF HoldsUnpaid, Balanced
<1>10. ASSUME Sized(b, p) PROVE Sized(n, p)
  BY <1>5, <1>7, <1>10, Zenon DEF Sized
<1>11. ASSUME Capped(b) PROVE Capped(n)
  BY <1>3, <1>11, Zenon DEF Capped, SameMoney, SameLimits, Enveloped
<1>12. ASSUME NEW g \in Holds, HasCall(n, g), Conserved(b, g)
       PROVE  Conserved(n, g)
  <2>0. HasCall(b, g)
    BY <1>2, <1>12, Zenon
  <2>1. CASE g # h
    <3>1. g \in Ids /\ b.call[g].peer \in Recipients /\ g # i
      BY <2>0, CallTypes, Zenon DEF Unused
    <3>2. \A d \in b.call[g].draws : d[1] \in Ids /\ d[1] # i /\ d[1] # h
      <4>1. \A d \in b.call[g].draws : d[1] \in Ids /\ d[1] # i
        BY <1>1, <1>5, <2>0, FreshNotDrawn, Zenon
      <4>2. \A d \in b.call[g].draws : ~(d[1] \in Holds /\ HasCall(b, d[1]))
        BY <1>1, <2>0, DrawEntries, Zenon
      <4> QED BY <4>1, <4>2, Zenon
    <3>3. n.pending[<<g, b.call[g].peer>>] = b.pending[<<g, b.call[g].peer>>]
      BY <1>7, <2>1, <3>1, Zenon DEF Cells
    <3>4. \A d \in b.call[g].draws :
              n.pending[<<d[1], b.call[g].peer>>] = b.pending[<<d[1], b.call[g].peer>>]
      BY <1>7, <3>1, <3>2, Zenon DEF Cells
    <3>5. n.call[g] = b.call[g]
      BY <1>3, <2>1, Zenon
    <3> QED BY <1>2, <1>12, <2>0, <3>3, <3>4, <3>5, ConservedSame, Zenon
  <2>2. CASE g = h
    <3> DEFINE f == [d \in k.draws |-> b.pending[<<d[1], r>>]]
               e == [d \in l.draws |-> n.pending[<<d[1], r>>]]
    <3>1. /\ IsFiniteSet(k.draws) /\ IsFiniteSet(l.draws) /\ <<i, s>> \in l.draws
          /\ l.draws \ {<<i, s>>} = k.draws
      <4>1. <<i, s>> \notin k.draws
        BY <1>1, <1>5, FreshNotDrawn, Zenon
      <4>2. IsFiniteSet(k.draws)
        BY DrawsFinite, Zenon
      <4>3. IsFiniteSet(k.draws \cup {<<i, s>>})
        BY DrawsFinite, Zenon
      <4> QED BY <1>4, <4>1, <4>2, <4>3, Zenon
    <3>2. \A d \in k.draws : d[1] \in Ids /\ d[1] # i /\ d[1] # h
      <4>1. \A d \in k.draws : d[1] \in Ids /\ d[1] # i
        BY <1>1, <1>5, FreshNotDrawn, Zenon
      <4>2. \A d \in k.draws : d[1] # h
        BY <1>1, DrawEntries, Zenon
      <4> QED BY <4>1, <4>2, Zenon
    <3>3. \A d \in k.draws : f[d] \in Int /\ e[d] = f[d]
      BY <1>1, <1>4, <1>7, <3>2, SMTT(60) DEF Cells
    <3>4. e[<<i, s>>] = amount /\ \A d \in l.draws : e[d] \in Int
      <4>1. e[<<i, s>>] = n.pending[<<i, r>>]
        BY <3>1, Zenon
      <4>2. \A d \in l.draws : d \in k.draws \/ d = <<i, s>>
        BY <1>4, Zenon
      <4>3. \A d \in k.draws : e[d] \in Int
        BY <3>3, ZenonT(60)
      <4> HIDE DEF e, k
      <4>4. e[<<i, s>>] = amount /\ amount \in Int
        BY <1>6, <4>1
      <4> QED BY <4>2, <4>3, <4>4, Zenon
    <3>5. Reserved = k.spent + k.released + b.pending[<<h, r>>] + SumFunctionOnSet(f, k.draws)
      BY <1>12, <2>2, ZenonT(60) DEF Conserved
    <3> HIDE DEF f, e
    <3>6. SumFunctionOnSet(e, l.draws) = e[<<i, s>>] + SumFunctionOnSet(e, l.draws \ {<<i, s>>})
      BY <3>1, <3>4, SumTake
    <3>7. SumFunctionOnSet(e, k.draws) = SumFunctionOnSet(f, k.draws)
      BY <3>1, <3>3, SumSame, Zenon
    <3>8. SumFunctionOnSet(f, k.draws) \in Int
      BY <3>1, <3>3, SumType, Zenon
    <3>9. k.spent \in Nat /\ k.released \in Nat /\ b.pending[<<h, r>>] \in Nat
      BY <1>1, ZenonT(60) DEF CallSpends
    <3>10. Reserved = l.spent + l.released + n.pending[<<h, r>>] + SumFunctionOnSet(e, l.draws)
      <4>1. SumFunctionOnSet(e, l.draws) = amount + SumFunctionOnSet(f, k.draws)
        BY <3>1, <3>4, <3>6, <3>7, Zenon
      <4> HIDE DEF k, r
      <4> QED BY <1>4, <1>6, <3>5, <3>8, <3>9, <4>1, SMTT(60)
    <3> QED BY <1>3, <1>4, <2>2, <3>10, Zenon DEF Conserved, e
  <2> QED BY <2>1, <2>2, Zenon
<1>13. BlocksApart(n)
  <2> SUFFICES ASSUME NEW g \in Holds, HasCall(n, g)
               PROVE  /\ n.call[g].recorded => n.call[g].closed
                      /\ \A d, e \in n.call[g].draws : d[2] = e[2] => d = e
                      /\ \A d \in n.call[g].draws : d[2] \notin n.call[g].paidSeqs
    BY Zenon DEF BlocksApart
  <2>1. /\ b.call[g].recorded => b.call[g].closed
        /\ \A d, e \in b.call[g].draws : d[2] = e[2] => d = e
        /\ \A d \in b.call[g].draws : d[2] \notin b.call[g].paidSeqs
    BY <1>2, Zenon DEF Balanced, BlocksApart
  <2>2. CASE g # h
    BY <1>3, <2>1, <2>2, ZenonT(60)
  <2>3. CASE g = h
    BY <1>3, <1>4, <2>1, <2>3, SMTT(60)
  <2> QED BY <2>2, <2>3, Zenon
<1>14. \A c, fs : fs[1] \in Holds /\ Draws(b, c, fs) => Draws(n, c, fs)
  BY <1>2, <1>3, <1>4, Zenon DEF Draws
<1>15. Known(n, p)
  <2> SUFFICES ASSUME NEW c \in Cells, p[c].for # None, NEW fs, fs = p[c].for
               PROVE  /\ HasCall(n, fs[1]) => c[2] = n.call[fs[1]].peer
                      /\ p[c].st = "inflight" => Draws(n, c, fs)
                      /\ p[c].st = "paid" /\ HasCall(n, fs[1]) =>
                            Draws(n, c, fs) \/ fs[2] \in n.call[fs[1]].paidSeqs \/ n.call[fs[1]].recorded
    BY Zenon DEF Known
  <2>1. fs[1] \in Holds
    BY Zenon DEF Pays
  <2>2. /\ HasCall(b, fs[1]) => c[2] = b.call[fs[1]].peer
        /\ p[c].st = "inflight" => Draws(b, c, fs)
        /\ p[c].st = "paid" /\ HasCall(b, fs[1]) =>
              Draws(b, c, fs) \/ fs[2] \in b.call[fs[1]].paidSeqs \/ b.call[fs[1]].recorded
    BY Zenon DEF Balanced, Known
  <2>3. /\ n.call[fs[1]].paidSeqs = b.call[fs[1]].paidSeqs
        /\ n.call[fs[1]].recorded = b.call[fs[1]].recorded
        /\ n.call[fs[1]].peer = b.call[fs[1]].peer
    BY <1>3, <1>4, <2>1, Zenon
  <2> QED BY <1>2, <1>14, <2>1, <2>2, <2>3, Zenon
<1>16. Balanced(n, p)
  BY <1>2, <1>8, <1>9, <1>10, <1>11, <1>12, <1>13, <1>15, Zenon DEF Balanced
<1>17. Promised(b, n, p)
  <2> SUFFICES ASSUME NEW c \in Cells, Counted(b, c), p[c].st = "none"
               PROVE  /\ b.pending[c] <= n.pending[c]
                      /\ \A fs \in DrawnFor(b, c[1]) : Draws(n, c, fs)
    BY ZenonT(60) DEF Promised
  <2>1. \A fs \in DrawnFor(b, c[1]) : fs[1] \in Holds /\ Draws(b, c, fs)
    BY PromisedItself, DrawnForIs, SMTT(60) DEF Promised, Cells
  <2>2. c # <<h, r>> /\ c # <<i, r>>
    BY <1>5 DEF Counted
  <2> QED BY <1>1, <1>7, <1>14, <2>1, <2>2, SMTT(60)
<1> QED BY <1>16, <1>17, Zenon DEF n

\* close_call
LEMMA CloseBalances ==
    ASSUME NEW b \in Budgets, Good(b), NEW p \in Pays, Balanced(b, p), NEW h \in Holds, HasCall(b, h),
           GoodAlike(b, CloseHold(b, h))
    PROVE  LET n == CloseHold(b, h)
           IN  Balanced(n, p) /\ Promised(b, n, p)
<1> DEFINE n == CloseHold(b, h)
           k == b.call[h]
           l == n.call[h]
           r == k.peer
           x == b.pending[<<h, r>>]
<1>1. /\ k \in CallSpends /\ r \in Recipients /\ h \in Ids /\ Kept(b) /\ <<h, r>> \in Cells
      /\ x \in Nat /\ \A c \in Cells : b.pending[c] \in Nat
  BY CallTypes, Zenon DEF Good, Cells, Budgets
<1>2. Good(n) /\ n \in Budgets /\ \A g \in Holds : HasCall(n, g) <=> HasCall(b, g)
  BY Zenon DEF GoodAlike, Good
<1>3. /\ Charged(b, n, One(r, 0 - x)) /\ Closes(k, l, x) /\ \A g \in Holds \ {h} : n.call[g] = b.call[g]
      /\ \A c \in Cells : n.pending[c] = IF c = <<h, r>> THEN 0 ELSE b.pending[c]
  BY CloseDoes, TalliedCovers, Zenon DEF Balanced
<1> HIDE DEF n, l
<1>4. /\ l.peer = r /\ l.spent = k.spent /\ l.released = k.released + x /\ l.closed /\ l.draws = k.draws
      /\ (k.recorded => l.recorded) /\ l.paidSeqs \subseteq k.paidSeqs
      /\ (~l.recorded => l.paidSeqs = k.paidSeqs)
  BY <1>3, Zenon DEF Closes
<1>5. p[<<h, r>>].st = "none" /\ n.pending[<<h, r>>] = 0
      /\ \A c \in Cells : c # <<h, r>> => n.pending[c] = b.pending[c]
  BY <1>1, <1>3, Zenon DEF Balanced, HoldsUnpaid
<1>6. Tallied(n, p)
  <2>1. \A j \in Ids \ {h} : n.pending[<<j, r>>] = b.pending[<<j, r>>]
    BY <1>1, <1>5, ZenonT(60) DEF Cells
  <2>2. Keeping(n, p, r) = Keeping(b, p, r) - KeptOrPaid(b, p, <<h, r>>) + KeptOrPaid(n, p, <<h, r>>)
    BY <1>1, <1>2, <2>1, KeepingMovesOne, ZenonT(60)
  <2>3. KeptOrPaid(b, p, <<h, r>>) = x /\ KeptOrPaid(n, p, <<h, r>>) = 0
    BY <1>1, <1>5, SMTT(60) DEF KeptOrPaid
  <2>4. Keeping(n, p, r) = Keeping(b, p, r) + (0 - x) /\ 0 - x \in Int
    BY <1>1, <2>2, <2>3, KeptTypes, SMTT(60)
  <2>5. \A c \in Cells : c[2] # r => n.pending[c] = b.pending[c]
    BY <1>5
  <2>6. Tallied(b, p)
    BY Zenon DEF Balanced
  <2> HIDE DEF r, x
  <2> QED BY <1>1, <1>2, <1>3, <2>4, <2>5, <2>6, OneTally, SMTT(60)
<1>7. HoldsUnpaid(n, p)
  BY <1>2, Zenon DEF HoldsUnpaid, Balanced
<1>8. ASSUME Sized(b, p) PROVE Sized(n, p)
  BY <1>5, <1>8, Zenon DEF Sized
<1>9. ASSUME Capped(b) PROVE Capped(n)
  <2>1. 0 - x \in Int /\ 0 - x <= 0
    BY <1>1
  <2> HIDE DEF r, x
  <2> QED BY <1>1, <1>2, <1>3, <1>9, <2>1, CappedLess, Zenon
<1>10. ASSUME NEW g \in Holds, HasCall(n, g), Conserved(b, g)
       PROVE  Conserved(n, g)
  <2>0. HasCall(b, g) /\ g \in Ids /\ b.call[g].peer \in Recipients
    BY <1>2, <1>10, CallTypes, Zenon
  <2>1. \A d \in b.call[g].draws : d[1] \in Ids /\ d[1] # h
    <3>1. \A d \in b.call[g].draws : d[1] \in Ids /\ ~(d[1] \in Holds /\ HasCall(b, d[1]))
      BY <1>1, <2>0, DrawEntries, Zenon
    <3> QED BY <3>1, Zenon
  <2>2. \A d \in b.call[g].draws :
            n.pending[<<d[1], b.call[g].peer>>] = b.pending[<<d[1], b.call[g].peer>>]
    BY <1>5, <2>0, <2>1, Zenon DEF Cells
  <2>3. CASE g # h
    <3>1. n.pending[<<g, b.call[g].peer>>] = b.pending[<<g, b.call[g].peer>>] /\ n.call[g] = b.call[g]
      BY <1>3, <1>5, <2>0, <2>3, Zenon DEF Cells
    <3> QED BY <1>2, <1>10, <2>0, <2>2, <3>1, ConservedSame, Zenon
  <2>4. CASE g = h
    <3> DEFINE f == [d \in k.draws |-> b.pending[<<d[1], r>>]]
               e == [d \in l.draws |-> n.pending[<<d[1], r>>]]
    <3>1. f = e
      BY <1>4, <2>2, <2>4, Zenon
    <3>2. SumFunctionOnSet(f, k.draws) \in Int
      <4>1. IsFiniteSet(k.draws)
        BY DrawsFinite, Zenon
      <4>2. \A d \in k.draws : f[d] \in Int
        BY <1>1, <2>1, <2>4, SMTT(60) DEF Cells
      <4> HIDE DEF f, k
      <4> QED BY <4>1, <4>2, SumType, Zenon
    <3>3. Reserved = k.spent + k.released + x + SumFunctionOnSet(f, k.draws)
      BY <1>10, <2>4, Zenon DEF Conserved
    <3>4. k.spent \in Nat /\ k.released \in Nat
      BY <1>1, Zenon DEF CallSpends
    <3>5. Reserved = l.spent + l.released + n.pending[<<h, r>>] + SumFunctionOnSet(e, l.draws)
      <4>1. SumFunctionOnSet(e, l.draws) = SumFunctionOnSet(f, k.draws)
        BY <1>4, <3>1, Zenon
      <4> HIDE DEF f, e, k, r, x
      <4> QED BY <1>1, <1>4, <1>5, <3>2, <3>3, <3>4, <4>1, SMTT(60)
    <3> QED BY <1>4, <2>4, <3>5, Zenon DEF Conserved, l
  <2> QED BY <2>3, <2>4, Zenon
<1>11. BlocksApart(n)
  <2>1. BlocksApart(b) /\ l.draws \subseteq k.draws
        /\ \A d \in l.draws : d[2] \in l.paidSeqs => d[2] \in k.paidSeqs
    BY <1>4, Zenon DEF Balanced
  <2> QED BY <1>3, <1>4, <2>1, ApartCall, Zenon DEF l
<1>12. Known(n, p)
  <2>1. Known(b, p) /\ HasCall(n, h)
    BY <1>2, Zenon DEF Balanced
  <2>2. n.call[h].draws = b.call[h].draws /\ n.call[h].peer = b.call[h].peer
        /\ (b.call[h].recorded => n.call[h].recorded)
        /\ (~n.call[h].recorded => b.call[h].paidSeqs \subseteq n.call[h].paidSeqs)
    BY <1>4, Zenon DEF l
  <2>3. \A c \in Cells : <<c[1], p[c].for[2]>> \notin b.call[h].draws \ n.call[h].draws
    BY <2>2, Zenon
  <2> QED BY <1>3, <2>1, <2>2, <2>3, KnownCall, ZenonT(60)
<1>13. Balanced(n, p)
  BY <1>2, <1>6, <1>7, <1>8, <1>9, <1>10, <1>11, <1>12, Zenon DEF Balanced
<1>14. Promised(b, n, p)
  <2> SUFFICES ASSUME NEW c \in Cells, Counted(b, c), p[c].st = "none"
               PROVE  /\ b.pending[c] <= n.pending[c]
                      /\ \A fs \in DrawnFor(b, c[1]) : Draws(n, c, fs)
    BY Zenon DEF Promised
  <2>1. \A fs \in DrawnFor(b, c[1]) : fs[1] \in Holds /\ Draws(b, c, fs)
    BY PromisedItself, DrawnForIs, SMTT(60) DEF Promised, Cells
  <2>2. c # <<h, r>>
    BY DEF Counted
  <2>3. \A fs : fs[1] \in Holds /\ Draws(b, c, fs) => Draws(n, c, fs)
    BY <1>2, <1>3, <1>4, Zenon DEF Draws, l
  <2> QED BY <1>1, <1>5, <2>1, <2>2, <2>3, SMTT(60)
<1> QED BY <1>13, <1>14, Zenon DEF n

\* prune_call_tombstones
LEMMA PruneBalances ==
    ASSUME NEW b \in Budgets, Good(b), NEW p \in Pays, Balanced(b, p), NEW h \in Holds, HasCall(b, h),
           b.call[h].draws = {}
    PROVE  LET n == [b EXCEPT !.call[h] = None]
           IN  Balanced(n, p) /\ Promised(b, n, p)
<1> DEFINE n == [b EXCEPT !.call[h] = None]
<1>1. /\ SameMoney(b, n) /\ n.pending = b.pending /\ n.call[h] = None
      /\ \A g \in Holds \ {h} : n.call[g] = b.call[g]
  BY Zenon DEF Budgets, SameMoney, SameLimits
<1> HIDE DEF n
<1>2. \A g \in Holds : HasCall(n, g) => g # h /\ HasCall(b, g) /\ n.call[g] = b.call[g]
  BY <1>1, Zenon DEF HasCall
<1>3. Tallied(n, p)
  BY <1>1, Zenon DEF Balanced, Tallied, KeptOrPaid, SameMoney
<1>4. HoldsUnpaid(n, p)
  BY <1>2, Zenon DEF Balanced, HoldsUnpaid
<1>5. (Sized(b, p) => Sized(n, p)) /\ (Capped(b) => Capped(n))
  BY <1>1, Zenon DEF Sized, Capped, SameMoney, SameLimits, Enveloped
<1>6. \A g \in Holds : HasCall(n, g) /\ Conserved(b, g) => Conserved(n, g)
  BY <1>1, <1>2, Zenon DEF Conserved
<1>7. BlocksApart(n)
  BY <1>2, Zenon DEF Balanced, BlocksApart
<1>8. \A c, fs : fs[1] \in Holds /\ Draws(b, c, fs) => Draws(n, c, fs)
  <2> SUFFICES ASSUME NEW c, NEW fs, fs[1] \in Holds, Draws(b, c, fs)
               PROVE  Draws(n, c, fs)
    BY Zenon
  <2>1. fs[1] # h
    BY Zenon DEF Draws
  <2> QED BY <1>1, <2>1, Zenon DEF Draws, HasCall
<1>9. Known(n, p)
  <2> SUFFICES ASSUME NEW c \in Cells, p[c].for # None, NEW fs, fs = p[c].for
               PROVE  /\ HasCall(n, fs[1]) => c[2] = n.call[fs[1]].peer
                      /\ p[c].st = "inflight" => Draws(n, c, fs)
                      /\ p[c].st = "paid" /\ HasCall(n, fs[1]) =>
                            Draws(n, c, fs) \/ fs[2] \in n.call[fs[1]].paidSeqs \/ n.call[fs[1]].recorded
    BY Zenon DEF Known
  <2>1. fs[1] \in Holds
    BY Zenon DEF Pays
  <2>2. /\ HasCall(b, fs[1]) => c[2] = b.call[fs[1]].peer
        /\ p[c].st = "inflight" => Draws(b, c, fs)
        /\ p[c].st = "paid" /\ HasCall(b, fs[1]) =>
              Draws(b, c, fs) \/ fs[2] \in b.call[fs[1]].paidSeqs \/ b.call[fs[1]].recorded
    BY Zenon DEF Balanced, Known
  <2> QED BY <1>2, <1>8, <2>1, <2>2, Zenon
<1>10. Balanced(n, p)
  BY <1>2, <1>3, <1>4, <1>5, <1>6, <1>7, <1>9, Zenon DEF Balanced
<1>11. Promised(b, n, p)
  <2> SUFFICES ASSUME NEW c \in Cells, Counted(b, c), p[c].st = "none"
               PROVE  /\ b.pending[c] <= n.pending[c]
                      /\ \A fs \in DrawnFor(b, c[1]) : Draws(n, c, fs)
    BY Zenon DEF Promised
  <2>1. \A fs \in DrawnFor(b, c[1]) : fs[1] \in Holds /\ Draws(b, c, fs)
    BY PromisedItself, DrawnForIs DEF Promised, Cells
  <2>2. b.pending[c] \in Nat
    BY Zenon DEF Budgets
  <2> QED BY <1>1, <1>8, <2>1, <2>2, SMTT(60)
<1> QED BY <1>10, <1>11, Zenon DEF n

\* resolve of a reservation of its own
LEMMA ResolveBalances ==
    ASSUME NEW b \in Budgets, Good(b), NEW p \in Pays, Balanced(b, p),
           NEW i \in Ids, NEW r \in Recipients, b.pending[<<i, r>>] > 0,
           DrawnFor(b, i) = {}, ~(i \in Holds /\ HasCall(b, i)),
           p[<<i, r>>].st \in {"void", "failed", "paid"},
           NEW x \in Nat, x = IF p[<<i, r>>].st = "paid" THEN p[<<i, r>>].amt ELSE 0,
           Good(RecordOutcome(Settle(Consume(b, <<i, r>>), r, b.pending[<<i, r>>], x), x))
    PROVE  LET n == RecordOutcome(Settle(Consume(b, <<i, r>>), r, b.pending[<<i, r>>], x), x)
           IN  Balanced(n, p) /\ Promised(b, n, p)
<1> DEFINE y == b.pending[<<i, r>>]
           n == RecordOutcome(Settle(Consume(b, <<i, r>>), r, y, x), x)
<1>1. /\ <<i, r>> \in Cells /\ y \in Nat /\ \A c \in Cells : b.pending[c] \in Nat
  BY Zenon DEF Cells, Budgets
<1>2. Good(n) /\ n \in Budgets
  BY Zenon DEF Good
<1>3. /\ Charged(b, n, One(r, x - y)) /\ n.call = b.call
      /\ \A c \in Cells : n.pending[c] = IF c = <<i, r>> THEN 0 ELSE b.pending[c]
  <2>1. Covered(b)
    BY TalliedCovers, Zenon DEF Balanced
  <2> QED BY <2>1, ResolveDoes, ZenonT(60)
<1> HIDE DEF n
<1>4. n.pending[<<i, r>>] = 0 /\ \A c \in Cells : c # <<i, r>> => n.pending[c] = b.pending[c]
  BY <1>1, <1>3, Zenon
<1>5. Tallied(n, p)
  <2>1. \A j \in Ids \ {i} : n.pending[<<j, r>>] = b.pending[<<j, r>>]
    BY <1>4, Zenon DEF Cells
  <2>2. Keeping(n, p, r) = Keeping(b, p, r) - KeptOrPaid(b, p, <<i, r>>) + KeptOrPaid(n, p, <<i, r>>)
    BY <1>2, <2>1, KeepingMovesOne, Zenon
  <2>3. KeptOrPaid(b, p, <<i, r>>) = y /\ KeptOrPaid(n, p, <<i, r>>) = x
    BY <1>1, <1>4 DEF KeptOrPaid
  <2>4. Keeping(n, p, r) = Keeping(b, p, r) + (x - y) /\ x - y \in Int
    BY <1>1, <2>2, <2>3, KeptTypes, SMTT(60)
  <2>5. \A c \in Cells : c[2] # r => n.pending[c] = b.pending[c]
    BY <1>4
  <2>6. Tallied(b, p)
    BY Zenon DEF Balanced
  <2> HIDE DEF y
  <2> QED BY <1>2, <1>3, <2>4, <2>5, <2>6, OneTally
<1>6. HoldsUnpaid(n, p) /\ BlocksApart(n) /\ Known(n, p)
  BY <1>3, SameCalls, Zenon DEF Balanced
<1>7. ASSUME Sized(b, p) PROVE Sized(n, p)
  BY <1>4, <1>7 DEF Sized
<1>8. ASSUME Sized(b, p), Capped(b) PROVE Capped(n)
  <2>1. x - y \in Int /\ x - y <= 0
    BY <1>1, <1>8 DEF Sized
  <2> HIDE DEF y
  <2> QED BY <1>2, <1>3, <1>8, <2>1, CappedLess, Zenon
<1>9. ASSUME NEW h \in Holds, HasCall(n, h), Conserved(b, h)
      PROVE  Conserved(n, h)
  <2>1. HasCall(b, h) /\ n.call[h] = b.call[h]
    BY <1>3, <1>9, Zenon DEF HasCall
  <2>2. \A c \in Cells : c[1] # i => n.pending[c] = b.pending[c]
    BY <1>4
  <2> QED BY <1>2, <1>9, <2>1, <2>2, OtherCalls, Zenon
<1>10. Balanced(n, p)
  BY <1>3, <1>5, <1>6, <1>7, <1>8, <1>9, Zenon DEF Balanced, HasCall
<1>11. Promised(b, n, p)
  <2>1. \A c \in Cells : p[c].st = "none" => b.pending[c] <= n.pending[c]
    BY <1>1, <1>4
  <2> QED BY <1>3, <2>1, PromisedSame, Zenon
<1> QED BY <1>10, <1>11, Zenon DEF n

\* A draw of call h, reserved as id i at peer r for block s, ends in n as its
\* payment did: with what was paid, or with nothing.
DrawEnded(b, n, p, h, i, s, r, x) ==
    /\ b \in Budgets /\ Kept(b) /\ n \in Budgets /\ p \in Pays
    /\ i \in Ids /\ r \in Recipients /\ h \in Holds /\ s \in Seqs /\ x \in Nat
    /\ \A g \in Holds : HasCall(n, g) <=> HasCall(b, g)
    /\ p[<<i, r>>].st \in {"void", "failed", "paid"}
    /\ p[<<i, r>>].st = "paid" => p[<<i, r>>].amt > 0
    /\ x = IF p[<<i, r>>].st = "paid" THEN p[<<i, r>>].amt ELSE 0
    /\ b.pending[<<i, r>>] > 0
    /\ DrawResolved(b, n, h, i, s, r, x)

\* What is left of the draw: its entry y is gone, and the hold has w more.
EntriesEnded(b, n, h, i, r, x, y, w) ==
    /\ <<i, r>> \in Cells /\ <<h, r>> \in Cells /\ i # h /\ h \in Ids
    /\ y \in Nat /\ w \in Nat /\ b.pending[<<h, r>>] \in Nat
    /\ n.pending[<<i, r>>] = 0 /\ n.pending[<<h, r>>] = b.pending[<<h, r>>] + w
    /\ \A c \in Cells : c # <<i, r>> /\ c # <<h, r>> => n.pending[c] = b.pending[c]
    /\ Charged(b, n, One(r, (x - y) + w))

\* The rest of a draw that ends with a payment of x goes back to an open call.
Rest(k, y, x) == IF k.closed THEN 0 ELSE Sub(y, x)

\* What the end of a draw does to its call k: it is l in n.
CallEnded(b, n, k, l, h, i, s, r, x) ==
    /\ HasCall(b, h) /\ HasCall(n, h) /\ \A g \in Holds \ {h} : n.call[g] = b.call[g]
    /\ r = k.peer /\ l.peer = r /\ l.closed = k.closed
    /\ <<i, s>> \in k.draws /\ l.draws = k.draws \ {<<i, s>>}
    /\ k.spent \in Nat /\ k.released \in Nat /\ l.spent = k.spent + x
    /\ l.released = k.released + (IF k.closed THEN Sub(b.pending[<<i, r>>], x) ELSE 0)
    /\ k.recorded => l.recorded
    /\ l.recorded => k.recorded \/ k.closed
    /\ l.paidSeqs \subseteq k.paidSeqs \cup {v \in {s} : x > 0}
    /\ ~l.recorded => l.paidSeqs = k.paidSeqs \cup {v \in {s} : x > 0}

\* A draw that ends leaves every balance of the budget true.
LEMMA EndedBalances ==
    \A b, n, p, h, i, s, r, x :
        DrawEnded(b, n, p, h, i, s, r, x) /\ Balanced(b, p) => Balanced(n, p) /\ Promised(b, n, p)

\* resolve_call_draw, the entries: the draw's goes, the hold's may grow.
<1>EndedEntries.
    ASSUME NEW b, NEW n, NEW p, NEW h, NEW i, NEW s, NEW r, NEW x, DrawEnded(b, n, p, h, i, s, r, x)
    PROVE  EntriesEnded(b, n, h, i, r, x, b.pending[<<i, r>>], Rest(b.call[h], b.pending[<<i, r>>], x))
  <2> USE <1>EndedEntries
  <2> DEFINE y == b.pending[<<i, r>>]
             w == Rest(b.call[h], y, x)
  <2>1. /\ r = b.call[h].peer /\ i # h /\ HasCall(b, h) /\ i \in Ids /\ h \in Holds /\ r \in Recipients
        /\ b \in Budgets /\ x \in Nat
    BY Zenon DEF DrawEnded, DrawResolved
  <2>2. \A c \in Cells : n.pending[c] = IF c = <<i, r>> THEN 0
                                        ELSE IF c = <<h, r>> /\ ~b.call[h].closed THEN b.pending[c] + Sub(y, x)
                                        ELSE b.pending[c]
    BY Zenon DEF DrawEnded, DrawResolved
  <2>3. Charged(b, n, One(r, IF b.call[h].closed THEN x - y ELSE Sub(x, y)))
    BY Zenon DEF DrawEnded, DrawResolved
  <2>4. h \in Ids /\ <<i, r>> \in Cells /\ <<h, r>> \in Cells /\ <<i, r>> # <<h, r>>
    BY <2>1, CallTypes, Zenon DEF Cells
  <2>5. y \in Nat /\ b.pending[<<h, r>>] \in Nat
    BY <2>1, <2>4, Zenon DEF Budgets
  <2> HIDE DEF y
  <2>6. w \in Nat /\ (IF b.call[h].closed THEN x - y ELSE Sub(x, y)) = (x - y) + w
    BY <2>1, <2>5, SMTT(60) DEF Sub, Max2, Rest
  <2>7. n.pending[<<i, r>>] = 0 /\ n.pending[<<h, r>>] = b.pending[<<h, r>>] + w
    BY <2>2, <2>4, <2>5, SMTT(60) DEF Rest
  <2>8. \A c \in Cells : c # <<i, r>> /\ c # <<h, r>> => n.pending[c] = b.pending[c]
    BY <2>2, Zenon
  <2>9. Charged(b, n, One(r, (x - y) + w))
    BY <2>3, <2>6, Zenon
  <2> QED BY <2>1, <2>4, <2>5, <2>6, <2>7, <2>8, <2>9, Zenon DEF y, EntriesEnded

\* resolve_call_draw, the call: one draw less, its block paid if money went.
<1>EndedCall.
    ASSUME NEW b, NEW n, NEW p, NEW h, NEW i, NEW s, NEW r, NEW x, DrawEnded(b, n, p, h, i, s, r, x)
    PROVE  CallEnded(b, n, b.call[h], n.call[h], h, i, s, r, x)
  <2> USE <1>EndedCall
  <2>1. DrawResolved(b, n, h, i, s, r, x) /\ h \in Holds /\ b \in Budgets
        /\ (HasCall(n, h) <=> HasCall(b, h))
    BY Zenon DEF DrawEnded
  <2>2. /\ r = b.call[h].peer /\ <<i, s>> \in b.call[h].draws /\ HasCall(b, h)
        /\ EndsDraw(b.call[h], n.call[h], i, s, b.pending[<<i, r>>], x)
        /\ \A g \in Holds \ {h} : n.call[g] = b.call[g]
    BY <2>1, Zenon DEF DrawResolved
  <2>3. b.call[h].spent \in Nat /\ b.call[h].released \in Nat
    BY <2>1, <2>2, CallTypes, ZenonT(60) DEF CallSpends
  <2> QED BY <2>1, <2>2, <2>3, Zenon DEF EndsDraw, CallEnded

\* The used amounts follow.
<1>EndedTallied.
    ASSUME NEW b, NEW n, NEW p, NEW h, NEW i, NEW s, NEW r, NEW x, DrawEnded(b, n, p, h, i, s, r, x),
           Tallied(b, p), HoldsUnpaid(b, p)
    PROVE  Tallied(n, p)
  <2> USE <1>EndedTallied
  <2> DEFINE y == b.pending[<<i, r>>]
             w == Rest(b.call[h], y, x)
             z == (x - y) + w
  <2>a. EntriesEnded(b, n, h, i, r, x, y, w)
    BY <1>EndedEntries, Zenon
  <2>b. CallEnded(b, n, b.call[h], n.call[h], h, i, s, r, x)
    BY <1>EndedCall, Zenon
  <2>1. /\ b \in Budgets /\ n \in Budgets /\ p \in Pays /\ i \in Ids /\ r \in Recipients /\ h \in Holds /\ x \in Nat
        /\ y > 0 /\ p[<<i, r>>].st \in {"void", "failed", "paid"}
        /\ x = IF p[<<i, r>>].st = "paid" THEN p[<<i, r>>].amt ELSE 0
    BY Zenon DEF DrawEnded
  <2>2. /\ <<i, r>> \in Cells /\ <<h, r>> \in Cells /\ i # h /\ h \in Ids
        /\ y \in Nat /\ w \in Nat /\ b.pending[<<h, r>>] \in Nat
        /\ n.pending[<<i, r>>] = 0 /\ n.pending[<<h, r>>] = b.pending[<<h, r>>] + w
        /\ \A c \in Cells : c # <<i, r>> /\ c # <<h, r>> => n.pending[c] = b.pending[c]
        /\ Charged(b, n, One(r, z))
    BY <2>a, Zenon DEF EntriesEnded
  <2>3. p[<<h, r>>].st = "none"
    BY <2>1, <2>b, Zenon DEF HoldsUnpaid, CallEnded
  <2> HIDE DEF y, w, DrawEnded
  <2>4. \A j \in Ids \ {i, h} : n.pending[<<j, r>>] = b.pending[<<j, r>>]
    BY <2>1, <2>2, ZenonT(60) DEF Cells
  <2>5. Keeping(n, p, r) = Keeping(b, p, r)
               - KeptOrPaid(b, p, <<i, r>>) + KeptOrPaid(n, p, <<i, r>>)
               - KeptOrPaid(b, p, <<h, r>>) + KeptOrPaid(n, p, <<h, r>>)
    BY <2>1, <2>2, <2>4, KeepingMoves, SMTT(60)
  <2>6. b.pending[<<i, r>>] = y
    BY Zenon DEF y
  <2>7. KeptOrPaid(b, p, <<i, r>>) = y /\ KeptOrPaid(n, p, <<i, r>>) = x
    BY <2>1, <2>2, <2>6, SMTT(60) DEF KeptOrPaid
  <2>8. KeptOrPaid(b, p, <<h, r>>) = b.pending[<<h, r>>] /\ KeptOrPaid(n, p, <<h, r>>) = b.pending[<<h, r>>] + w
    BY <2>2, <2>3, SMTT(60) DEF KeptOrPaid
  <2>9. Keeping(b, p, r) \in Nat
    BY <2>1, KeptTypes, ZenonT(60)
  <2>10. Keeping(n, p, r) = Keeping(b, p, r) + z /\ z \in Int
    BY <2>1, <2>2, <2>5, <2>7, <2>8, <2>9, SMTT(60)
  <2>11. \A c \in Cells : c[2] # r => n.pending[c] = b.pending[c]
    BY <2>2
  <2> HIDE DEF z
  <2> QED BY <2>1, <2>2, <2>10, <2>11, OneTally, SMTT(60)

\* No payment is larger than its reservation, and the limits hold, if that was so.
<1>EndedWithin.
    ASSUME NEW b, NEW n, NEW p, NEW h, NEW i, NEW s, NEW r, NEW x, DrawEnded(b, n, p, h, i, s, r, x),
           HoldsUnpaid(b, p), Sized(b, p)
    PROVE  Sized(n, p) /\ x <= b.pending[<<i, r>>] /\ (Capped(b) => Capped(n))
  <2> USE <1>EndedWithin
  <2> DEFINE y == b.pending[<<i, r>>]
             w == Rest(b.call[h], y, x)
             z == (x - y) + w
  <2>a. EntriesEnded(b, n, h, i, r, x, y, w)
    BY <1>EndedEntries, Zenon
  <2>b. CallEnded(b, n, b.call[h], n.call[h], h, i, s, r, x)
    BY <1>EndedCall, Zenon
  <2>1. /\ b \in Budgets /\ n \in Budgets /\ p \in Pays /\ i \in Ids /\ r \in Recipients /\ h \in Holds /\ x \in Nat
        /\ y > 0 /\ p[<<i, r>>].st \in {"void", "failed", "paid"}
        /\ x = IF p[<<i, r>>].st = "paid" THEN p[<<i, r>>].amt ELSE 0
    BY Zenon DEF DrawEnded
  <2>2. /\ <<i, r>> \in Cells /\ <<h, r>> \in Cells
        /\ y \in Nat /\ w \in Nat /\ n.pending[<<i, r>>] = 0
        /\ \A c \in Cells : c # <<i, r>> /\ c # <<h, r>> => n.pending[c] = b.pending[c]
        /\ Charged(b, n, One(r, z))
    BY <2>a, Zenon DEF EntriesEnded
  <2>3. p[<<h, r>>].st = "none"
    BY <2>1, <2>b, ZenonT(60) DEF HoldsUnpaid, CallEnded
  <2>4. x <= y
    BY <2>1, <2>2, SMTT(60) DEF Sized
  <2>5. Sized(n, p)
    BY <2>2, <2>3, SMTT(60) DEF Sized
  <2>6. z \in Int /\ z <= 0
    BY <2>1, <2>2, <2>4, SMTT(60) DEF Sub, Max2, Rest
  <2>7. ASSUME Capped(b) PROVE Capped(n)
    <3> HIDE DEF z
    <3> QED BY <2>1, <2>2, <2>6, <2>7, CappedLess, Zenon
  <2> QED BY <2>4, <2>5, <2>7, Zenon

\* Each call keeps the sum of its reservation.
<1>EndedConserved.
    ASSUME NEW b, NEW n, NEW p, NEW h, NEW i, NEW s, NEW r, NEW x, DrawEnded(b, n, p, h, i, s, r, x),
           x <= b.pending[<<i, r>>], NEW g \in Holds, HasCall(b, g), Conserved(b, g)
    PROVE  Conserved(n, g)
  <2> USE <1>EndedConserved
  <2> DEFINE k == b.call[h]
             l == n.call[h]
             y == b.pending[<<i, r>>]
             w == Rest(k, y, x)
  <2>a. EntriesEnded(b, n, h, i, r, x, y, w)
    BY <1>EndedEntries, Zenon
  <2>b. CallEnded(b, n, k, l, h, i, s, r, x)
    BY <1>EndedCall, Zenon
  <2>1. /\ b \in Budgets /\ n \in Budgets /\ Kept(b) /\ i \in Ids /\ r \in Recipients /\ h \in Holds /\ x \in Nat
    BY Zenon DEF DrawEnded
  <2>2. /\ i # h /\ h \in Ids /\ y \in Nat /\ b.pending[<<h, r>>] \in Nat
        /\ n.pending[<<h, r>>] = b.pending[<<h, r>>] + w
        /\ \A c \in Cells : c # <<i, r>> /\ c # <<h, r>> => n.pending[c] = b.pending[c]
    BY <2>a, Zenon DEF EntriesEnded
  <2>3. /\ HasCall(b, h) /\ r = k.peer /\ l.peer = r /\ <<i, s>> \in k.draws /\ l.draws = k.draws \ {<<i, s>>}
        /\ \A e \in Holds \ {h} : n.call[e] = b.call[e]
    BY <2>b, Zenon DEF CallEnded
  <2>4. /\ k.spent \in Nat /\ k.released \in Nat /\ l.spent = k.spent + x
        /\ l.released = k.released + (IF k.closed THEN Sub(y, x) ELSE 0)
    BY <2>b, Zenon DEF CallEnded
  <2> HIDE DEF DrawEnded, k, l, y, w
  <2>5. g \in Ids /\ b.call[g].peer \in Recipients
    BY <2>1, CallTypes, Zenon
  <2>6. \A d \in b.call[g].draws :
            d[1] \in Ids /\ ~(d[1] \in Holds /\ HasCall(b, d[1])) /\ (d[1] = i => g = h /\ d = <<i, s>>)
    <3>1. \A d \in b.call[g].draws : d[1] \in Ids /\ ~(d[1] \in Holds /\ HasCall(b, d[1]))
      BY <2>1, DrawEntries, Zenon
    <3>2. \A d \in b.call[g].draws, e \in b.call[h].draws : d[1] = e[1] => g = h /\ d = e
      BY <2>1, <2>3, Zenon DEF Kept
    <3>3. <<i, s>>[1] = i /\ <<i, s>> \in b.call[h].draws
      BY <2>3, Zenon DEF k
    <3> QED BY <3>1, <3>2, <3>3, Zenon
  <2>7. \A d \in b.call[g].draws : d # <<i, s>> \/ g # h =>
            n.pending[<<d[1], b.call[g].peer>>] = b.pending[<<d[1], b.call[g].peer>>]
    <3> SUFFICES ASSUME NEW d \in b.call[g].draws, d # <<i, s>> \/ g # h
                 PROVE  n.pending[<<d[1], b.call[g].peer>>] = b.pending[<<d[1], b.call[g].peer>>]
      BY Zenon
    <3>1. d[1] \in Ids /\ d[1] # i /\ d[1] # h
      BY <2>1, <2>3, <2>6, Zenon
    <3> QED BY <2>2, <2>5, <3>1, Zenon DEF Cells
  <2>8. CASE g # h
    <3>1. ~(i \in Holds /\ HasCall(b, i))
      <4>1. <<i, s>>[1] = i /\ <<i, s>> \in b.call[h].draws
        BY <2>3, Zenon DEF k
      <4> QED BY <2>1, <2>3, <4>1, DrawEntries, ZenonT(60)
    <3>2. n.pending[<<g, b.call[g].peer>>] = b.pending[<<g, b.call[g].peer>>] /\ n.call[g] = b.call[g]
      BY <2>2, <2>3, <2>5, <2>8, <3>1, Zenon DEF Cells
    <3> QED BY <2>1, <2>7, <2>8, <3>2, ConservedSame, Zenon
  <2>9. CASE g = h
    <3> DEFINE f == [d \in k.draws |-> b.pending[<<d[1], r>>]]
               e == [d \in l.draws |-> n.pending[<<d[1], r>>]]
    <3>1. IsFiniteSet(k.draws) /\ IsFiniteSet(l.draws)
      <4>1. IsFiniteSet(k.draws) /\ \A D \in SUBSET k.draws : IsFiniteSet(D)
        BY <2>1, <2>3, DrawsFinite, ZenonT(60) DEF k
      <4> QED BY <2>3, <4>1, Zenon
    <3>2. \A d \in k.draws : f[d] \in Int
      BY <2>1, <2>6, <2>9, SMTT(60) DEF Cells, Budgets, k
    <3>3. \A d \in l.draws : e[d] = f[d]
      BY <2>3, <2>7, <2>9, Zenon DEF k
    <3>4. f[<<i, s>>] = y
      BY <2>3, Zenon DEF y
    <3>5. Reserved = k.spent + k.released + b.pending[<<h, r>>] + SumFunctionOnSet(f, k.draws)
      BY <2>3, <2>9, Zenon DEF Conserved, k
    <3> HIDE DEF f, e
    <3>6. SumFunctionOnSet(f, k.draws) = f[<<i, s>>] + SumFunctionOnSet(f, k.draws \ {<<i, s>>})
      BY <2>3, <3>1, <3>2, SumTake, SMTT(60)
    <3>7. SumFunctionOnSet(e, l.draws) = SumFunctionOnSet(f, l.draws)
      BY <2>3, <3>1, <3>2, <3>3, SumSame, Zenon
    <3>8. SumFunctionOnSet(f, l.draws) \in Int
      BY <2>3, <3>1, <3>2, SumType, Zenon
    <3>9. SumFunctionOnSet(f, k.draws) = y + SumFunctionOnSet(e, l.draws) /\ SumFunctionOnSet(e, l.draws) \in Int
      BY <2>3, <3>4, <3>6, <3>7, <3>8, Zenon
    <3>10. Sub(y, x) = y - x
      BY <2>1, <2>2, SMTT(60) DEF Sub, Max2, y
    <3>11. Reserved = l.spent + l.released + n.pending[<<h, r>>] + SumFunctionOnSet(e, l.draws)
      BY <2>1, <2>2, <2>4, <3>5, <3>9, <3>10, SMTT(60) DEF w, Rest
    <3> QED BY <2>3, <2>9, <3>11, Zenon DEF Conserved, l, e
  <2> QED BY <2>8, <2>9, Zenon

\* No block becomes payable again, and the payments stay known to their call.
<1>EndedBlocks.
    ASSUME NEW b, NEW n, NEW p, NEW h, NEW i, NEW s, NEW r, NEW x, DrawEnded(b, n, p, h, i, s, r, x),
           BlocksApart(b), Known(b, p)
    PROVE  BlocksApart(n) /\ Known(n, p)
  <2> USE <1>EndedBlocks
  <2> DEFINE k == b.call[h]
             l == n.call[h]
  <2>b. CallEnded(b, n, k, l, h, i, s, r, x)
    BY <1>EndedCall, Zenon
  <2>1. /\ b \in Budgets /\ p \in Pays /\ h \in Holds
        /\ p[<<i, r>>].st \in {"void", "failed", "paid"}
        /\ p[<<i, r>>].st = "paid" => x > 0
    BY Zenon DEF DrawEnded
  <2>2. /\ HasCall(b, h) /\ HasCall(n, h) /\ r = k.peer /\ l.peer = r /\ l.closed = k.closed
        /\ <<i, s>> \in k.draws /\ l.draws = k.draws \ {<<i, s>>}
        /\ \A e \in Holds \ {h} : n.call[e] = b.call[e]
    BY <2>b, Zenon DEF CallEnded
  <2>3. /\ (k.recorded => l.recorded) /\ (l.recorded => k.recorded \/ k.closed)
        /\ l.paidSeqs \subseteq k.paidSeqs \cup {v \in {s} : x > 0}
        /\ (~l.recorded => l.paidSeqs = k.paidSeqs \cup {v \in {s} : x > 0})
    BY <2>b, Zenon DEF CallEnded
  <2> HIDE DEF DrawEnded
  <2>4. /\ k.recorded => k.closed
        /\ \A d, e \in k.draws : d[2] = e[2] => d = e
    BY <2>1, <2>2, Zenon DEF BlocksApart
  <2>5. BlocksApart(n)
    <3>1. \A d \in l.draws : d[2] \in l.paidSeqs => d[2] \in k.paidSeqs
      <4> SUFFICES ASSUME NEW d \in l.draws, d[2] = s PROVE FALSE
        BY <2>3, Zenon
      <4>1. d \in k.draws /\ d # <<i, s>> /\ <<i, s>>[2] = s
        BY <2>2, Zenon
      <4> QED BY <2>2, <2>4, <4>1, Zenon
    <3>2. (l.recorded => l.closed) /\ l.draws \subseteq k.draws
      BY <2>2, <2>3, <2>4, Zenon
    <3> QED BY <2>1, <2>2, <3>1, <3>2, ApartCall, Zenon
  <2>6. Known(n, p)
    <3>1. ASSUME NEW c \in Cells, p[c].for # None, p[c].for[1] = h, c[2] = b.call[h].peer,
                 <<c[1], p[c].for[2]>> \in b.call[h].draws \ n.call[h].draws
          PROVE  /\ p[c].st # "inflight"
                 /\ p[c].st = "paid" /\ ~n.call[h].recorded => p[c].for[2] \in n.call[h].paidSeqs
      <4>1. <<c[1], p[c].for[2]>> = <<i, s>>
        BY <2>2, <3>1, Zenon
      <4>2. c[1] = i /\ p[c].for[2] = s /\ c = <<i, r>>
        <5>1. c = <<c[1], c[2]>>
          BY DEF Cells
        <5> QED BY <2>2, <3>1, <4>1, <5>1, Zenon
      <4> QED BY <2>1, <2>3, <4>2, Zenon
    <3>2. (~n.call[h].recorded => b.call[h].paidSeqs \subseteq n.call[h].paidSeqs)
          /\ n.call[h].peer = b.call[h].peer
      BY <2>2, <2>3, Zenon
    <3>3. \A c \in Cells : p[c].for # None /\ p[c].for[1] = h /\ c[2] = b.call[h].peer
                               /\ <<c[1], p[c].for[2]>> \in b.call[h].draws \ n.call[h].draws =>
              /\ p[c].st # "inflight"
              /\ p[c].st = "paid" /\ ~n.call[h].recorded => p[c].for[2] \in n.call[h].paidSeqs
      BY <3>1, Zenon
    <3>4. b.call[h].recorded => n.call[h].recorded
      BY <2>3, Zenon
    <3> HIDE DEF k, l
    <3> QED BY <2>1, <2>2, <3>2, <3>3, <3>4, KnownCall, ZenonT(60)
  <2> QED BY <2>5, <2>6, Zenon

\* What was promised and not dispatched is not the draw.
<1>EndedPromised.
    ASSUME NEW b, NEW n, NEW p, NEW h, NEW i, NEW s, NEW r, NEW x, DrawEnded(b, n, p, h, i, s, r, x)
    PROVE  Promised(b, n, p)
  <2> USE <1>EndedPromised
  <2>a. EntriesEnded(b, n, h, i, r, x, b.pending[<<i, r>>], Rest(b.call[h], b.pending[<<i, r>>], x))
    BY <1>EndedEntries, Zenon
  <2>b. CallEnded(b, n, b.call[h], n.call[h], h, i, s, r, x)
    BY <1>EndedCall, Zenon
  <2>1. /\ b \in Budgets /\ Kept(b) /\ h \in Holds /\ p[<<i, r>>].st # "none"
        /\ \A g \in Holds : HasCall(n, g) <=> HasCall(b, g)
    BY Zenon DEF DrawEnded
  <2>2. \A c \in Cells : c # <<i, r>> /\ c # <<h, r>> => n.pending[c] = b.pending[c]
    BY <2>a, Zenon DEF EntriesEnded
  <2>3. /\ HasCall(b, h) /\ r = b.call[h].peer /\ <<i, s>> \in b.call[h].draws
        /\ n.call[h].draws = b.call[h].draws \ {<<i, s>>} /\ \A g \in Holds \ {h} : n.call[g] = b.call[g]
    BY <2>b, Zenon DEF CallEnded
  <2> HIDE DEF DrawEnded
  <2> SUFFICES ASSUME NEW c \in Cells, Counted(b, c), p[c].st = "none"
               PROVE  /\ b.pending[c] <= n.pending[c]
                      /\ \A fs \in DrawnFor(b, c[1]) : Draws(n, c, fs)
    BY Zenon DEF Promised
  <2>4. \A fs \in DrawnFor(b, c[1]) : fs[1] \in Holds /\ Draws(b, c, fs)
    BY <2>1, PromisedItself, DrawnForIs, SMTT(60) DEF Promised, Cells
  <2>5. c # <<i, r>> /\ c # <<h, r>>
    <3>1. <<h, r>>[1] = h
      BY Zenon
    <3> QED BY <2>1, <2>3, <3>1, Zenon DEF Counted
  <2>6. ASSUME NEW fs \in DrawnFor(b, c[1]) PROVE Draws(n, c, fs)
    <3>1. <<c[1], fs[2]>> # <<i, s>>
      <4> SUFFICES ASSUME c[1] = i PROVE FALSE
        BY ZenonT(60)
      <4>1. \A q \in Recipients : b.pending[<<i, q>>] > 0 => q = r
        <5>1. <<i, s>>[1] = i
          BY Zenon
        <5> QED BY <2>1, <2>3, <5>1, SMTT(60) DEF Kept
      <4>2. c[2] \in Recipients /\ c = <<c[1], c[2]>> /\ b.pending[c] > 0
        BY DEF Cells, Counted
      <4> QED BY <2>5, <4>1, <4>2, Zenon
    <3> QED BY <2>1, <2>3, <2>4, <3>1, Zenon DEF Draws
  <2>7. b.pending[c] \in Nat
    BY <2>1, Zenon DEF Budgets
  <2> QED BY <2>2, <2>5, <2>6, <2>7, SMTT(60)
<1> SUFFICES ASSUME NEW b, NEW n, NEW p, NEW h, NEW i, NEW s, NEW r, NEW x,
                    DrawEnded(b, n, p, h, i, s, r, x), Balanced(b, p)
             PROVE  Balanced(n, p) /\ Promised(b, n, p)
  BY Zenon
<1>1. Tallied(b, p) /\ HoldsUnpaid(b, p) /\ BlocksApart(b) /\ Known(b, p)
  BY Zenon DEF Balanced
<1>2. MaxOverrun = 0 =>
          Sized(b, p) /\ Capped(b) /\ \A g \in Holds : HasCall(b, g) => Conserved(b, g)
  BY Zenon DEF Balanced
<1>3. \A g \in Holds : HasCall(n, g) <=> HasCall(b, g)
  BY Zenon DEF DrawEnded
<1>4. Tallied(n, p)
  BY <1>1, <1>EndedTallied, Zenon
<1>5. HoldsUnpaid(n, p)
  BY <1>1, <1>3, Zenon DEF HoldsUnpaid
<1>6. BlocksApart(n) /\ Known(n, p)
  BY <1>1, <1>EndedBlocks, Zenon
<1>7. Promised(b, n, p)
  BY <1>EndedPromised, Zenon
<1>8. ASSUME MaxOverrun = 0
      PROVE  Sized(n, p) /\ Capped(n) /\ \A g \in Holds : HasCall(n, g) => Conserved(n, g)
  <2>1. Sized(n, p) /\ x <= b.pending[<<i, r>>] /\ (Capped(b) => Capped(n))
    BY <1>1, <1>2, <1>8, <1>EndedWithin, Zenon
  <2>2. ASSUME NEW g \in Holds, HasCall(n, g) PROVE Conserved(n, g)
    <3>1. HasCall(b, g) /\ Conserved(b, g)
      BY <1>2, <1>3, <1>8, <2>2, Zenon
    <3> QED BY <2>1, <3>1, <1>EndedConserved, Zenon
  <2> QED BY <1>2, <1>8, <2>1, <2>2, Zenon
<1> QED BY <1>4, <1>5, <1>6, <1>7, <1>8, Zenon DEF Balanced

\* resolve_call_draw
LEMMA ResolveDrawBalances ==
    ASSUME NEW b \in Budgets, Good(b), NEW p \in Pays, Balanced(b, p),
           NEW i \in Ids, NEW r \in Recipients, b.pending[<<i, r>>] > 0,
           NEW h \in Holds, NEW s \in Seqs, <<h, s>> \in DrawnFor(b, i),
           p[<<i, r>>].st \in {"void", "failed", "paid"},
           p[<<i, r>>].st = "paid" => p[<<i, r>>].amt > 0,
           NEW x \in Nat, x = IF p[<<i, r>>].st = "paid" THEN p[<<i, r>>].amt ELSE 0,
           GoodAlike(b, ResolveCallDraw(Consume(b, <<i, r>>), h, i, s, b.pending[<<i, r>>], x, p[<<i, r>>].st))
    PROVE  LET n == ResolveCallDraw(Consume(b, <<i, r>>), h, i, s, b.pending[<<i, r>>], x, p[<<i, r>>].st)
           IN  Balanced(n, p) /\ Promised(b, n, p)
<1> DEFINE n == ResolveCallDraw(Consume(b, <<i, r>>), h, i, s, b.pending[<<i, r>>], x, p[<<i, r>>].st)
<1>1. Kept(b) /\ p[<<i, r>>].st \in Statuses /\ Covered(b)
  BY TalliedCovers, Zenon DEF Good, Pays, Cells, Balanced
<1>2. DrawResolved(b, n, h, i, s, r, x)
  BY <1>1, ResolveDrawDoes, Zenon
<1>3. GoodAlike(b, n)
  BY Zenon
<1> HIDE DEF n
<1>4. DrawEnded(b, n, p, h, i, s, r, x)
  BY <1>1, <1>2, <1>3, Zenon DEF DrawEnded, GoodAlike, Good
<1>5. Balanced(n, p) /\ Promised(b, n, p)
  BY <1>4, EndedBalances, Zenon
<1> QED BY <1>5, Zenon DEF n

\* Nothing but the limits and the breakers changes.
LEMMA LimitsBalance ==
    ASSUME NEW b \in Budgets, NEW n \in Budgets, NEW p \in Pays, Balanced(b, p),
           n.pending = b.pending, n.call = b.call, n.used = b.used, n.usedBy = b.usedBy,
           MaxOverrun = 0 => Capped(n)
    PROVE  Balanced(n, p) /\ Promised(b, n, p)
<1>1. Tallied(n, p)
  BY Zenon DEF Balanced, Tallied, KeptOrPaid
<1>2. HoldsUnpaid(n, p) /\ BlocksApart(n) /\ Known(n, p)
  BY SameCalls, Zenon DEF Balanced
<1>3. ASSUME MaxOverrun = 0 PROVE Sized(n, p)
  BY <1>3, Zenon DEF Balanced, Sized
<1>4. ASSUME MaxOverrun = 0, NEW h \in Holds, HasCall(n, h) PROVE Conserved(n, h)
  BY <1>4, Zenon DEF Balanced, Conserved, HasCall
<1>5. Promised(b, n, p)
  <2>1. \A c \in Cells : b.pending[c] \in Nat
    BY Zenon DEF Budgets
  <2>2. \A c \in Cells : b.pending[c] <= n.pending[c]
    BY <2>1
  <2> QED BY <2>2, PromisedSame, Zenon
<1> QED BY <1>1, <1>2, <1>3, <1>4, <1>5, Zenon DEF Balanced

\* open_envelope: the new envelope replaces what was left of the old one.
LEMMA RenewBalances ==
    ASSUME NEW b \in Budgets, NEW p \in Pays, Balanced(b, p), RecipientsOnly,
           NEW r \in Recipients, NEW x \in Nat, NEW act \in Nat
    PROVE  LET n == OpenEnvelope(b, r, x, act)
           IN  Balanced(n, p) /\ Promised(b, n, p)
<1> DEFINE n == OpenEnvelope(b, r, x, act)
           left == Sub(b.cap[r], b.usedBy[r])
           f == [q \in Recipients |-> Sub(b.cap[q], b.usedBy[q])]
           g == [q \in Recipients |-> Sub(n.cap[q], n.usedBy[q])]
<1>1. n \in Budgets /\ n.pending = b.pending /\ n.call = b.call
  BY OpenEnvelopeKeeps, Zenon
<1>2. /\ n.used = b.used /\ n.usedBy = b.usedBy /\ n.budget = Sub(b.budget, left) + x
      /\ n.cap[r] = b.usedBy[r] + x /\ \A q \in Recipients \ {r} : n.cap[q] = b.cap[q]
  BY Zenon DEF OpenEnvelope, Budgets
<1> HIDE DEF n
<1>3. ASSUME Capped(b) PROVE Capped(n)
  <2>1. /\ b.used \in Nat /\ b.budget \in Nat
        /\ \A q \in Recipients : b.cap[q] \in Nat /\ b.usedBy[q] \in Nat
    BY Zenon DEF Budgets
  <2>2. (\A q \in Recipients : f[q] \in Nat /\ g[q] \in Nat) /\ f[r] = left /\ g[r] = x
        /\ \A q \in Recipients \ {r} : g[q] = f[q]
    BY <1>1, <1>2, <2>1, SMTT(60) DEF Sub, Max2, Budgets
  <2>3. b.budget = b.used + SumFunctionOnSet(f, Recipients)
    BY <1>3, Zenon DEF Capped, Enveloped
  <2>4. \A q \in Recipients : n.usedBy[q] <= n.cap[q]
    BY <1>2, <1>3, <2>1, SMTT(60) DEF Capped
  <2> HIDE DEF f, g, left
  <2>5. left <= SumFunctionOnSet(f, Recipients) /\ SumFunctionOnSet(f, Recipients) \in Nat /\ left \in Nat
    BY <2>2, SumHas, SumType, LedgerAssumption, Zenon
  <2>6. SumFunctionOnSet(g, Recipients) = SumFunctionOnSet(f, Recipients) - left + x
    <3>1. \A q \in Recipients : f[q] \in Int /\ g[q] \in Int
      BY <2>2
    <3>2. IsFiniteSet(Recipients) /\ \A q \in Recipients \ {r} : g[q] = f[q]
      BY <2>2, LedgerAssumption, Zenon
    <3>3. SumFunctionOnSet(g, Recipients) = SumFunctionOnSet(f, Recipients) - f[r] + g[r]
      BY <3>1, <3>2, SumChange, SMTT(60)
    <3> QED BY <2>2, <3>3, Zenon
  <2>7. n.budget = b.budget - left + x
    BY <1>2, <2>1, <2>3, <2>5, SMTT(60) DEF Sub, Max2
  <2>8. n.budget = n.used + SumFunctionOnSet(g, Recipients) /\ n.used <= n.budget
    BY <1>2, <2>1, <2>3, <2>5, <2>6, <2>7, SMTT(60)
  <2> QED BY <2>4, <2>8, Zenon DEF Capped, Enveloped, g
<1> QED BY <1>1, <1>2, <1>3, LimitsBalance, Zenon DEF Balanced, n

\* reset_breakers
LEMMA ResetBalances ==
    ASSUME NEW b \in Budgets, NEW p \in Pays, Balanced(b, p)
    PROVE  LET n == [b EXCEPT !.failures = 0, !.paused = FALSE]
           IN  Balanced(n, p) /\ Promised(b, n, p)
<1> DEFINE n == [b EXCEPT !.failures = 0, !.paused = FALSE]
<1>1. n \in Budgets
  BY Zenon DEF Budgets
<1>2. /\ n.pending = b.pending /\ n.call = b.call /\ n.used = b.used /\ n.usedBy = b.usedBy
      /\ n.budget = b.budget /\ n.cap = b.cap
  BY Zenon DEF Budgets
<1> HIDE DEF n
<1>3. Capped(b) => Capped(n)
  BY <1>2, Zenon DEF Capped, Enveloped
<1> QED BY <1>1, <1>2, <1>3, LimitsBalance, Zenon DEF Balanced, n

-----------------------------------------------------------------------------
(* The money: every operation and every payment keeps MoneyInv *)

\* What the invariants say of the budget in memory, and Free of a fresh id.
LEMMA MemBalanced ==
    ASSUME LedgerInv, MoneyInv, Live
    PROVE  /\ mem \in Budgets /\ Good(mem) /\ pay \in Pays /\ Balanced(mem, pay) /\ Promised(mem, mem, pay)
           /\ \A i \in Ids : Free(i) => /\ Unused(mem, pay, i)
                                        /\ i \in Holds => \A c \in Cells : pay[c].for # None => pay[c].for[1] # i
<1>1. mem \in Budgets /\ Good(mem) /\ mem \in Contents
  BY MemGood, Zenon
<1>2. pay \in Pays
  BY Zenon DEF LedgerInv, TypeOK, Pays
<1>3. Balanced(mem, pay) /\ Promised(mem, mem, pay)
  BY <1>1, PromisedItself, Zenon DEF MoneyInv
<1>4. ASSUME NEW i \in Ids, Free(i)
      PROVE  Unused(mem, pay, i) /\ (i \in Holds => \A c \in Cells : pay[c].for # None => pay[c].for[1] # i)
  <2>1. \A r \in Recipients : mem.pending[<<i, r>>] = 0 /\ pay[<<i, r>>].st = "none"
    BY <1>1, <1>4, SMTT(60) DEF Free, Unborn
  <2>2. i \in Holds => ~HasCall(mem, i) /\ \A c \in Cells : pay[c].for # None => pay[c].for[1] # i
    BY <1>1, <1>4, Zenon DEF Free
  <2> QED BY <2>1, <2>2, Zenon DEF Unused
<1> QED BY <1>1, <1>2, <1>3, <1>4, Zenon

\* persist_with_clock, whatever its outcome, keeps the money when the new budget
\* is balanced and keeps what memory may still pay.
LEMMA PersistMoney ==
    ASSUME LedgerInv, MoneyInv, Live, NEW n, Good(n), Balanced(n, pay), Promised(mem, n, pay),
           \/ mem' = n /\ disk' = {n}
           \/ mem' = mem /\ disk' \in {{n}, disk \cup {n}},
           UNCHANGED pay
    PROVE  MoneyInv'
<1>1. Contents' \subseteq Contents \cup {n} /\ (disk' \ {None}) \subseteq (disk \ {None}) \cup {n}
  BY Zenon DEF Contents, Live
<1>2. (\A b \in Contents : Balanced(b, pay))'
  BY <1>1, Zenon DEF MoneyInv
<1>3. ASSUME NEW b \in disk' \ {None} PROVE Promised(mem', b, pay)
  <2>1. CASE mem' = n /\ disk' = {n}
    <3>1. n \in Budgets
      BY Zenon DEF Good
    <3> QED BY <1>3, <2>1, <3>1, PromisedItself, Zenon
  <2>2. CASE mem' = mem
    BY <1>1, <1>3, <2>2, Zenon DEF MoneyInv
  <2> QED BY <2>1, <2>2, Zenon
<1>4. (Live => \A b \in disk \ {None} : Promised(mem, b, pay))'
  BY <1>3, Zenon
<1> QED BY <1>2, <1>4, Zenon DEF MoneyInv, BlockPaidOnce

\* reserve_spend_locked
LEMMA ReserveMoney ==
    ASSUME LedgerInv, MoneyInv, NEW i \in Ids, Free(i), NEW charges \in Charges, Reserve(i, charges)
    PROVE  MoneyInv'
<1> DEFINE n == Pend(Debit(mem, charges), i, charges)
<1>1. Live /\ Fits(mem, charges, charges) /\ Persist(n) /\ UNCHANGED pay
  BY Zenon DEF Reserve
<1>2. charges \in [Recipients -> Nat]
  BY LedgerAssumption DEF Charges
<1>3. Unused(mem, pay, i) /\ \A r \in Recipients : mem.pending[<<i, r>>] = 0
  BY <1>1, MemBalanced, Zenon DEF Unused
<1>4. Good(n)
  BY <1>1, <1>2, MemGood, ReserveGood, Zenon
<1>5. Balanced(n, pay) /\ Promised(mem, n, pay)
  BY <1>1, <1>2, <1>3, <1>4, MemBalanced, ReserveBalances, Zenon
<1> HIDE DEF n
<1> QED BY <1>1, <1>4, <1>5, PersistMoney, Zenon DEF Persist

\* reserve_call_spend
LEMMA ReserveCallMoney ==
    ASSUME LedgerInv, MoneyInv, NEW h \in Holds, Free(h), NEW r \in Recipients, ReserveCall(h, r)
    PROVE  MoneyInv'
<1> DEFINE n == WithHold(mem, h, r)
<1>1. Live /\ Fits(mem, One(r, Reserved), One(r, PerBlock)) /\ Persist(n) /\ UNCHANGED pay
  BY Zenon DEF ReserveCall, HoldAllowed
<1>2. h \in Ids /\ Unused(mem, pay, h) /\ (\A c \in Cells : pay[c].for # None => pay[c].for[1] # h)
  BY <1>1, MemBalanced, LedgerAssumption, Zenon
<1>3. Good(n)
  <2>1. \A q \in Recipients : mem.pending[<<h, q>>] = 0
    BY <1>2, Zenon DEF Unused
  <2> QED BY <1>1, <1>2, <2>1, MemGood, HoldGood, Zenon
<1>4. Balanced(n, pay) /\ Promised(mem, n, pay)
  BY <1>1, <1>2, <1>3, MemBalanced, HoldBalances, Zenon
<1> HIDE DEF n
<1> QED BY <1>1, <1>3, <1>4, PersistMoney, Zenon DEF Persist

\* reserve_call_with_offer
LEMMA ReserveCallWithOfferMoney ==
    ASSUME LedgerInv, MoneyInv, NEW i \in Ids, Free(i), NEW h \in Holds \ {i}, Free(h),
           NEW r \in Recipients, NEW amount \in Nat, ReserveCallWithOffer(h, i, r, amount)
    PROVE  MoneyInv'
<1> DEFINE b == WithHold(mem, h, r)
           n == Pend(Debit(b, One(r, amount)), i, One(r, amount))
<1>1. /\ Live /\ Fits(mem, One(r, Reserved), One(r, PerBlock))
      /\ Fits(b, One(r, amount), One(r, amount)) /\ Persist(n) /\ UNCHANGED pay
  BY Zenon DEF ReserveCallWithOffer, HoldAllowed
<1>2. /\ h \in Ids /\ Unused(mem, pay, h) /\ Unused(mem, pay, i)
      /\ \A c \in Cells : pay[c].for # None => pay[c].for[1] # h
  BY <1>1, MemBalanced, LedgerAssumption, ZenonT(60)
<1>3. /\ Good(b)
      /\ \A g \in Holds : HasCall(b, g) <=> g = h \/ HasCall(mem, g)
      /\ \A j \in Ids, q \in Recipients :
            b.pending[<<j, q>>] = IF j = h THEN One(r, Reserved)[q] ELSE mem.pending[<<j, q>>]
  <2>1. \A q \in Recipients : mem.pending[<<h, q>>] = 0
    BY <1>2, Zenon DEF Unused
  <2> QED BY <1>1, <1>2, <2>1, MemGood, HoldGood, SMTT(60)
<1>4. Balanced(b, pay) /\ Promised(mem, b, pay)
  BY <1>1, <1>2, <1>3, MemBalanced, HoldBalances, Zenon
<1> HIDE DEF b
<1>5. b \in Budgets /\ Unused(b, pay, i)
  BY <1>2, <1>3, Zenon DEF Good, Unused
<1>6. One(r, amount) \in [Recipients -> Nat] /\ pay \in Pays /\ \A q \in Recipients : mem.pending[<<i, q>>] = 0
  BY <1>1, <1>2, MemBalanced, OneType, Zenon DEF Unused
<1>7. Good(n)
  BY <1>1, <1>3, <1>5, <1>6, ReserveGood, Zenon DEF Unused
<1>8. Balanced(n, pay) /\ Promised(mem, n, pay)
  BY <1>1, <1>3, <1>4, <1>5, <1>6, <1>7, ReserveBalances, Zenon
<1> HIDE DEF n
<1> QED BY <1>1, <1>7, <1>8, PersistMoney, Zenon DEF Persist

\* reserve_quoted_readmission
LEMMA ReadmitMoney ==
    ASSUME LedgerInv, MoneyInv, NEW i \in Ids, NEW r \in Recipients, NEW amount \in Nat,
           NEW j \in Ids, Free(j), NEW admission \in Nat, Readmit(i, r, amount, j, admission)
    PROVE  MoneyInv'
<1> DEFINE b == TopUp(mem, i, r, amount)
           n == Pend(Debit(b, One(r, admission)), j, One(r, admission))
<1>1. /\ Live /\ Parent(i, r) /\ (amount > 0 => Fits(mem, One(r, amount), One(r, amount)))
      /\ Fits(b, One(r, admission), One(r, admission)) /\ Persist(n) /\ UNCHANGED pay
  BY Zenon DEF Readmit
<1>2. /\ mem.pending[<<i, r>>] > 0 /\ pay[<<i, r>>].st = "none"
      /\ DrawnFor(mem, i) = {} /\ ~(i \in Holds /\ HasCall(mem, i))
  BY <1>1, Zenon DEF Parent
<1>3. Good(b) /\ b.call = mem.call /\ \A c \in Cells : mem.pending[c] > 0 <=> b.pending[c] > 0
  <2>1. amount > 0 => Total(One(r, amount)) \in Nat
    BY <1>1, MemGood, FitsBounds, Zenon
  <2> QED BY <1>1, <1>2, <2>1, MemGood, TopUpGood, Zenon
<1>4. Balanced(b, pay) /\ Promised(mem, b, pay)
  BY <1>1, <1>2, <1>3, MemBalanced, TopUpBalances, Zenon
<1> HIDE DEF b
<1>5. Unused(mem, pay, j) /\ pay \in Pays /\ One(r, admission) \in [Recipients -> Nat] /\ b \in Budgets
  BY <1>1, <1>3, MemBalanced, OneType, Zenon DEF Good
<1>6. Unused(b, pay, j) /\ \A q \in Recipients : mem.pending[<<j, q>>] = 0
  <2>1. \A q \in Recipients : <<j, q>> \in Cells /\ b.pending[<<j, q>>] \in Nat /\ mem.pending[<<j, q>>] = 0
    BY <1>5, Zenon DEF Cells, Budgets, Unused
  <2> QED BY <1>3, <1>5, <2>1, SMTT(60) DEF Unused, HasCall
<1>7. Good(n)
  BY <1>1, <1>3, <1>5, <1>6, ReserveGood, Zenon DEF Unused
<1>8. Balanced(n, pay) /\ Promised(mem, n, pay)
  BY <1>1, <1>3, <1>4, <1>5, <1>6, <1>7, ReserveBalances, Zenon
<1> HIDE DEF n
<1> QED BY <1>1, <1>7, <1>8, PersistMoney, Zenon DEF Persist

\* reserve_quoted_readmission, refused after the top-up was written
LEMMA ReadmitRefusedMoney ==
    ASSUME LedgerInv, MoneyInv, NEW i \in Ids, NEW r \in Recipients, NEW amount \in Nat,
           ReadmitRefused(i, r, amount)
    PROVE  MoneyInv'
<1> DEFINE n == TopUp(mem, i, r, amount)
<1>1. /\ Live /\ Parent(i, r) /\ Fits(mem, One(r, amount), One(r, amount)) /\ UNCHANGED pay
      /\ mem' = mem /\ disk' \in {{n}, disk \cup {n}}
  BY Zenon DEF ReadmitRefused
<1>2. /\ mem.pending[<<i, r>>] > 0 /\ pay[<<i, r>>].st = "none"
      /\ DrawnFor(mem, i) = {} /\ ~(i \in Holds /\ HasCall(mem, i))
  BY <1>1, Zenon DEF Parent
<1>3. Good(n)
  <2>1. Total(One(r, amount)) \in Nat
    BY <1>1, MemGood, FitsBounds, Zenon
  <2> QED BY <1>1, <1>2, <2>1, MemGood, TopUpGood, Zenon
<1>4. Balanced(n, pay) /\ Promised(mem, n, pay)
  BY <1>1, <1>2, <1>3, MemBalanced, TopUpBalances, Zenon
<1> HIDE DEF n
<1> QED BY <1>1, <1>3, <1>4, PersistMoney, Zenon

\* draw_call_spend_for_grant, reserve_call_closing_spend
LEMMA DrawMoney ==
    ASSUME LedgerInv, MoneyInv, NEW h \in Holds, NEW i \in Ids, Free(i), NEW s \in Seqs,
           NEW amount \in Nat, amount > 0, Draw(h, i, s, amount)
    PROVE  MoneyInv'
<1> DEFINE n == DrawFrom(mem, h, i, s, amount)
<1>1. /\ Live /\ HasCall(mem, h) /\ ~mem.call[h].closed
      /\ s \notin mem.call[h].paidSeqs /\ \A d \in mem.call[h].draws : d[2] # s
      /\ amount <= mem.pending[<<h, mem.call[h].peer>>] /\ Persist(n) /\ UNCHANGED pay
  BY Zenon DEF Draw
<1>2. Good(n) /\ GoodAlike(mem, n)
  BY <1>1, MemGood, DrawGood, Zenon DEF GoodAlike
<1>3. Balanced(n, pay) /\ Promised(mem, n, pay)
  BY <1>1, <1>2, MemBalanced, DrawBalances, Zenon
<1> HIDE DEF n
<1> QED BY <1>1, <1>2, <1>3, PersistMoney, Zenon DEF Persist

\* close_call_spend, enforce_call_hold_limit
LEMMA CloseMoney ==
    ASSUME LedgerInv, MoneyInv, NEW h \in Holds, CloseCall(h) \/ EnforceHoldLimit(h)
    PROVE  MoneyInv'
<1> DEFINE n == CloseHold(mem, h)
<1>1. Live /\ HasCall(mem, h) /\ Persist(n) /\ UNCHANGED pay
  BY Zenon DEF CloseCall, EnforceHoldLimit
<1>2. Good(n) /\ GoodAlike(mem, n)
  BY <1>1, MemGood, CloseGood, Zenon DEF GoodAlike
<1>3. Balanced(n, pay) /\ Promised(mem, n, pay)
  BY <1>1, <1>2, MemBalanced, CloseBalances, Zenon
<1> HIDE DEF n
<1> QED BY <1>1, <1>2, <1>3, PersistMoney, Zenon DEF Persist

\* prune_call_tombstones
LEMMA PruneMoney ==
    ASSUME LedgerInv, MoneyInv, NEW h \in Holds, PruneTombstone(h)
    PROVE  MoneyInv'
<1> DEFINE n == [mem EXCEPT !.call[h] = None]
<1>1. /\ Live /\ HasCall(mem, h) /\ Persist(n) /\ UNCHANGED pay
      /\ mem.call[h].closed /\ mem.call[h].draws = {} /\ mem.call[h].recorded
  BY Zenon DEF PruneTombstone
<1>2. Good(n)
  BY <1>1, MemGood, PruneGood, Zenon
<1>3. Balanced(n, pay) /\ Promised(mem, n, pay)
  BY <1>1, MemBalanced, PruneBalances, Zenon
<1> HIDE DEF n
<1> QED BY <1>1, <1>2, <1>3, PersistMoney, Zenon DEF Persist

\* try_resolve_spend_outcome
LEMMA ResolveMoney ==
    ASSUME LedgerInv, MoneyInv, NEW i \in Ids, NEW r \in Recipients, Resolve(i, r)
    PROVE  MoneyInv'
<1> DEFINE c == <<i, r>>
           x == IF pay[c].st = "paid" THEN pay[c].amt ELSE 0
           e == Consume(mem, c)
<1>1. /\ Live /\ mem.pending[c] > 0 /\ ~(i \in Holds /\ HasCall(mem, i))
      /\ pay[c].st \in {"void", "failed", "paid"} /\ UNCHANGED pay
  BY Zenon DEF Resolve
<1>2. c \in Cells /\ x \in Nat /\ pay[c].st \in Statuses /\ (pay[c].st = "paid" => pay[c].amt > 0)
  <2>1. c \in Cells
    BY Zenon DEF Cells
  <2>2. x \in Nat /\ pay[c].st \in Statuses
    BY <2>1, Zenon DEF LedgerInv, TypeOK
  <2>3. pay[c].st = "paid" => pay[c].amt > 0
    BY <2>1, Zenon DEF MoneyInv
  <2> QED BY <2>1, <2>2, <2>3, Zenon
<1>3. mem \in Budgets /\ Good(mem) /\ pay \in Pays /\ Balanced(mem, pay)
  BY <1>1, MemBalanced, Zenon
<1>4. CASE DrawnFor(mem, i) = {} /\ Persist(RecordOutcome(Settle(e, r, mem.pending[c], x), x))
  <2> DEFINE n == RecordOutcome(Settle(e, r, mem.pending[c], x), x)
  <2>1. Good(n)
    BY <1>1, <1>2, <1>3, <1>4, ResolveGood, ZenonT(60)
  <2>2. Balanced(n, pay) /\ Promised(mem, n, pay)
    BY <1>1, <1>2, <1>3, <1>4, <2>1, ResolveBalances, ZenonT(60)
  <2>3. Persist(n)
    BY <1>4, Zenon
  <2> HIDE DEF n
  <2> QED BY <1>1, <2>1, <2>2, <2>3, PersistMoney, Zenon DEF Persist
<1>5. ASSUME NEW hs \in DrawnFor(mem, i),
             Persist(ResolveCallDraw(e, hs[1], i, hs[2], mem.pending[c], x, pay[c].st))
      PROVE  MoneyInv'
  <2>1. PICK h \in Holds, s \in Seqs : hs = <<h, s>>
    <3>1. hs \in Holds \X Seqs
      BY <1>3, DrawnForIs, Zenon
    <3> QED BY <3>1
  <2>2. <<h, s>> \in DrawnFor(mem, i) /\ hs[1] = h /\ hs[2] = s
    BY <2>1, Zenon
  <2> DEFINE n == ResolveCallDraw(e, h, i, s, mem.pending[c], x, pay[c].st)
  <2>3. Persist(n)
    BY <1>5, <2>2, Zenon
  <2>41. Good(n) /\ Spares(mem, n, c, h)
    BY <1>1, <1>2, <1>3, <2>2, ResolveDrawGood, ZenonT(60)
  <2>4. Good(n) /\ GoodAlike(mem, n)
    <3> HIDE DEF n
    <3> QED BY <2>41, Zenon DEF GoodAlike, Spares
  <2>5. Balanced(n, pay) /\ Promised(mem, n, pay)
    BY <1>1, <1>2, <1>3, <2>2, <2>4, ResolveDrawBalances, ZenonT(60)
  <2> HIDE DEF n
  <2> QED BY <1>1, <2>3, <2>4, <2>5, PersistMoney, Zenon DEF Persist
<1> QED BY <1>4, <1>5, Zenon DEF Resolve

\* open_envelope
LEMMA RenewMoney ==
    ASSUME LedgerInv, MoneyInv, NEW r \in Recipients, NEW amount \in Nat, NEW act \in Nat, Renew(r, amount, act)
    PROVE  MoneyInv'
<1> DEFINE n == OpenEnvelope(mem, r, amount, act)
<1>1. Live /\ RecipientsOnly /\ Persist(n) /\ UNCHANGED pay
  BY Zenon DEF Renew
<1>2. n \in Budgets /\ n.pending = mem.pending /\ n.call = mem.call /\ n.failures = mem.failures
  BY <1>1, MemGood, OpenEnvelopeKeeps, SMTT(60)
<1>3. Balanced(n, pay) /\ Promised(mem, n, pay)
  BY <1>1, MemBalanced, RenewBalances, Zenon
<1> HIDE DEF n
<1>4. Good(n)
  BY <1>1, <1>2, MemGood, SameEntries, Zenon DEF Good
<1> QED BY <1>1, <1>3, <1>4, PersistMoney, Zenon DEF Persist

\* reset_breakers
LEMMA ResetMoney ==
    ASSUME LedgerInv, MoneyInv, ResetBreakers
    PROVE  MoneyInv'
<1> DEFINE n == [mem EXCEPT !.failures = 0, !.paused = FALSE]
<1>1. Live /\ Persist(n) /\ UNCHANGED pay
  BY Zenon DEF ResetBreakers
<1>2. Balanced(n, pay) /\ Promised(mem, n, pay)
  BY <1>1, MemBalanced, ResetBalances, Zenon
<1>3. n \in Budgets /\ n.pending = mem.pending /\ n.call = mem.call /\ n.failures = 0
  BY <1>1, MemGood, ZenonT(60) DEF Budgets
<1> HIDE DEF n
<1>4. Good(n)
  <2>1. Kept(n) /\ Unresolved(n) = Unresolved(mem) /\ mem.failures \in Nat
    BY <1>1, <1>3, MemGood, SameEntries, Zenon DEF Good, Budgets
  <2> QED BY <1>1, <1>3, <2>1, MemGood, UnresolvedFinite, LedgerAssumption, SMTT(60) DEF Good
<1> QED BY <1>1, <1>2, <1>4, PersistMoney, Zenon DEF Persist

\* revoke_grants and a restart only drop contents.
LEMMA RestartMoney ==
    ASSUME LedgerInv, MoneyInv, Revoke \/ Crash
    PROVE  MoneyInv'
<1>1. Contents' \subseteq Contents /\ UNCHANGED pay
  BY Zenon DEF Contents, Revoke, Crash
<1>2. (\A b \in Contents : Balanced(b, pay))'
  BY <1>1, Zenon DEF MoneyInv
<1>3. ASSUME Live', NEW b \in disk' \ {None} PROVE Promised(mem', b, pay)
  <2>1. b = mem' /\ b \in Budgets
    BY <1>3 DEF Revoke, Crash, Live, LedgerInv, TypeOK
  <2> QED BY <2>1, PromisedItself, Zenon
<1>4. (Live => \A b \in disk \ {None} : Promised(mem, b, pay))'
  BY <1>1, <1>3, Zenon
<1> QED BY <1>1, <1>2, <1>4, Zenon DEF MoneyInv, BlockPaidOnce

\* A payment of a reservation that b counts takes a step from p to q; q pays no
\* more than b reserves, and for the block of which it is the draw.
LEMMA PaymentBalances ==
    ASSUME NEW b \in Budgets, NEW p \in Pays, NEW q \in Pays, Balanced(b, p),
           NEW c \in Cells, Counted(b, c), \A d \in Cells \ {c} : q[d] = p[d],
           MaxOverrun = 0 /\ q[c].st \in {"inflight", "paid"} => q[c].amt <= b.pending[c],
           q[c].for # None =>
               /\ HasCall(b, q[c].for[1]) => c[2] = b.call[q[c].for[1]].peer
               /\ q[c].st \in {"inflight", "paid"} => Draws(b, c, q[c].for)
    PROVE  Balanced(b, q)
<1>1. Tallied(b, q)
  <2>1. \A d \in Cells : KeptOrPaid(b, q, d) = KeptOrPaid(b, p, d)
    BY Zenon DEF KeptOrPaid, Counted
  <2>2. ASSUME NEW r \in Recipients
        PROVE  [i \in Ids |-> KeptOrPaid(b, q, <<i, r>>)] = [i \in Ids |-> KeptOrPaid(b, p, <<i, r>>)]
    BY <2>1, Zenon DEF Cells
  <2> QED BY <2>2, Zenon DEF Balanced, Tallied
<1>2. HoldsUnpaid(b, q)
  <2> SUFFICES ASSUME NEW h \in Holds, HasCall(b, h), NEW r \in Recipients
               PROVE  q[<<h, r>>].st = "none"
    BY Zenon DEF HoldsUnpaid
  <2>1. p[<<h, r>>].st = "none"
    BY ZenonT(60) DEF Balanced, HoldsUnpaid
  <2>2. <<h, r>> \in Cells /\ <<h, r>> # c
    BY LedgerAssumption DEF Cells, Counted
  <2> QED BY <2>1, <2>2, Zenon
<1>3. ASSUME MaxOverrun = 0 PROVE Sized(b, q)
  BY <1>3, Zenon DEF Balanced, Sized
<1>4. Known(b, q)
  <2> SUFFICES ASSUME NEW d \in Cells, q[d].for # None, NEW fs, fs = q[d].for
               PROVE  /\ HasCall(b, fs[1]) => d[2] = b.call[fs[1]].peer
                      /\ q[d].st = "inflight" => Draws(b, d, fs)
                      /\ q[d].st = "paid" /\ HasCall(b, fs[1]) =>
                            Draws(b, d, fs) \/ fs[2] \in b.call[fs[1]].paidSeqs \/ b.call[fs[1]].recorded
    BY Zenon DEF Known
  <2>1. CASE d = c
    BY <2>1, Zenon
  <2>2. CASE d # c
    BY <2>2, Zenon DEF Balanced, Known
  <2> QED BY <2>1, <2>2, Zenon
<1> QED BY <1>1, <1>2, <1>3, <1>4, Zenon DEF Balanced

\* A payment step leaves memory and file alone: what is left to show.
LEMMA PaymentKeepsMoney ==
    ASSUME LedgerInv, MoneyInv, NEW c \in Cells, UNCHANGED <<mem, disk>>, pay' \in Pays,
           \A d \in Cells \ {c} : pay'[d] = pay[d], pay'[c].st # "none",
           pay'[c].st = "paid" => pay'[c].amt > 0,
           \A b \in Contents : Balanced(b, pay'),
           \A d \in Cells : /\ pay'[c].for # None /\ pay'[c].st \in {"inflight", "paid"}
                            /\ pay[d].for = pay'[c].for /\ pay[d].st \in {"inflight", "paid"}
                            => d = c
    PROVE  MoneyInv'
<1>1. Contents' = Contents /\ (Live' <=> Live)
  BY Zenon DEF Contents, Live
<1>2. (\A b \in Contents : Balanced(b, pay))'
  BY <1>1, Zenon
<1>3. (Live => \A b \in disk \ {None} : Promised(mem, b, pay))'
  <2>1. ASSUME Live, NEW b \in disk \ {None} PROVE Promised(mem, b, pay')
    BY <2>1, Zenon DEF MoneyInv, Promised
  <2> QED BY <1>1, <2>1, Zenon
<1>4. BlockPaidOnce'
  <2> SUFFICES ASSUME NEW d \in Cells, NEW e \in Cells, pay'[d].for # None, pay'[d].for = pay'[e].for,
                      pay'[d].st \in {"inflight", "paid"}, pay'[e].st \in {"inflight", "paid"}
               PROVE  d = e
    BY Zenon DEF BlockPaidOnce
  <2>1. CASE d = c \/ e = c
    BY <2>1, ZenonT(60)
  <2>2. CASE d # c /\ e # c
    BY <2>2, SMTT(60) DEF MoneyInv, BlockPaidOnce
  <2> QED BY <2>1, <2>2, Zenon
<1>5. (\A d \in Cells : (pay[d].for # None => pay[d].st # "none") /\ (pay[d].st = "paid" => pay[d].amt > 0))'
  BY Zenon DEF MoneyInv
<1> QED BY <1>2, <1>3, <1>4, <1>5, Zenon DEF MoneyInv

\* A draw belongs to one call and one block, at the peer of the call.
LEMMA DrawAtPeer ==
    ASSUME NEW b \in Budgets, Kept(b), NEW c \in Cells, b.pending[c] > 0,
           NEW fs \in Holds \X Seqs, Draws(b, c, fs)
    PROVE  c[2] = b.call[fs[1]].peer
<1>1. fs[1] \in Holds /\ HasCall(b, fs[1]) /\ <<c[1], fs[2]>> \in b.call[fs[1]].draws
  BY Zenon DEF Draws
<1>2. c = <<c[1], c[2]>> /\ c[2] \in Recipients
  BY DEF Cells
<1>3. <<c[1], fs[2]>>[1] = c[1]
  BY Zenon
<1> QED BY <1>1, <1>2, <1>3, SMTT(60) DEF Kept

\* with_call_spend_authority
LEMMA DispatchMoney ==
    ASSUME LedgerInv, MoneyInv, NEW i \in Ids, NEW r \in Recipients, Dispatch(i, r)
    PROVE  MoneyInv'
<1> DEFINE c == <<i, r>>
<1>1. c \in Cells /\ c[1] = i /\ c[2] = r
  BY Zenon DEF Cells
<1>2. /\ Live /\ pay[c].st = "none" /\ Counted(mem, c) /\ UNCHANGED <<mem, disk>>
      /\ \A hs \in DrawnFor(mem, i) : ~mem.call[hs[1]].closed
  BY ZenonT(60) DEF Dispatch, Counted
<1>3. PICK for \in IF DrawnFor(mem, i) = {} THEN {None} ELSE DrawnFor(mem, i) :
          pay' = [pay EXCEPT ![c] = [st |-> "inflight", amt |-> mem.pending[c], for |-> for]]
  BY Zenon DEF Dispatch
<1>4. mem \in Budgets /\ Good(mem) /\ pay \in Pays /\ Balanced(mem, pay) /\ Promised(mem, mem, pay)
  BY <1>2, MemBalanced, Zenon
<1>5. for # None => for \in DrawnFor(mem, i) /\ for \in Holds \X Seqs
  BY <1>3, <1>4, DrawnForIs, Zenon
<1> HIDE DEF c
<1>6. /\ pay'[c].st = "inflight" /\ pay'[c].amt = mem.pending[c] /\ pay'[c].for = for
      /\ \A d \in Cells \ {c} : pay'[d] = pay[d]
  BY <1>1, <1>3, <1>4, Zenon DEF Pays
<1>7. pay' \in Pays
  <2>1. mem.pending[c] \in Nat
    BY <1>1, <1>4, Zenon DEF Budgets
  <2>2. for \in (Holds \X Seqs) \cup {None}
    BY <1>5, Zenon
  <2>3. [st |-> "inflight", amt |-> mem.pending[c], for |-> for]
            \in [st : Statuses, amt : Nat, for : (Holds \X Seqs) \cup {None}]
    BY <2>1, <2>2, ZenonT(60) DEF Statuses
  <2> QED BY <1>3, <1>4, <2>3, Zenon DEF Pays
<1>8. ASSUME NEW b \in Contents
      PROVE  /\ Good(b) /\ b \in Budgets /\ Counted(b, c) /\ Balanced(b, pay) /\ mem.pending[c] <= b.pending[c]
             /\ for # None => Draws(b, c, for)
  <2>1. Good(b) /\ b \in Budgets /\ Balanced(b, pay)
    BY Zenon DEF LedgerInv, Good, MoneyInv
  <2>2. Counted(b, c)
    BY <1>1, <1>2, Zenon DEF LedgerInv, Backed, Contents
  <2>3. Promised(mem, b, pay)
    BY <1>2, <1>4, Zenon DEF MoneyInv, Contents
  <2>4. mem.pending[c] <= b.pending[c] /\ \A fs \in DrawnFor(mem, c[1]) : Draws(b, c, fs)
    BY <1>1, <1>2, <2>3, Zenon DEF Promised
  <2> QED BY <1>1, <1>5, <2>1, <2>2, <2>4, Zenon
<1>9. ASSUME NEW b \in Contents PROVE Balanced(b, pay')
  <2>1. for # None => c[2] = b.call[for[1]].peer
    BY <1>1, <1>5, <1>8, DrawAtPeer, Zenon DEF Good, Counted
  <2> QED BY <1>1, <1>4, <1>6, <1>7, <1>8, <2>1, PaymentBalances, Zenon
<1>10. ASSUME NEW d \in Cells, for # None, pay[d].for = for, pay[d].st \in {"inflight", "paid"}
       PROVE  d = c
  <2> DEFINE k == mem.call[for[1]]
  <2>1. mem \in Contents
    BY <1>2, MemGood, Zenon
  <2>2. HasCall(mem, for[1]) /\ <<c[1], for[2]>> \in k.draws /\ c[2] = k.peer /\ ~k.closed /\ for[1] \in Holds
    <3>1. Draws(mem, c, for) /\ for \in Holds \X Seqs /\ for \in DrawnFor(mem, i)
      BY <1>5, <1>8, <1>10, <2>1, Zenon
    <3>2. c[2] = k.peer
      BY <1>1, <1>2, <1>4, <3>1, DrawAtPeer, Zenon DEF Good, Counted
    <3> QED BY <1>2, <3>1, <3>2, Zenon DEF Draws
  <2>3. /\ k.recorded => k.closed
        /\ \A e, f \in k.draws : e[2] = f[2] => e = f
        /\ \A e \in k.draws : e[2] \notin k.paidSeqs
    BY <1>4, <2>2, Zenon DEF Balanced, BlocksApart
  <2>4. /\ d[2] = k.peer
        /\ Draws(mem, d, for) \/ for[2] \in k.paidSeqs \/ k.recorded
    BY <1>4, <1>10, <2>2, Zenon DEF Balanced, Known
  <2>5. <<c[1], for[2]>>[2] = for[2] /\ <<d[1], for[2]>>[2] = for[2]
    BY Zenon
  <2>6. <<d[1], for[2]>> \in k.draws
    BY <2>2, <2>3, <2>4, <2>5, Zenon DEF Draws
  <2>7. <<d[1], for[2]>> = <<c[1], for[2]>>
    BY <2>2, <2>3, <2>5, <2>6, Zenon
  <2>8. d[1] = c[1] /\ d[2] = c[2] /\ d = <<d[1], d[2]>> /\ c = <<c[1], c[2]>>
    BY <1>1, <2>2, <2>4, <2>7, SMTT(60) DEF Cells
  <2> QED BY <2>8, Zenon
<1> QED BY <1>1, <1>2, <1>6, <1>7, <1>9, <1>10, PaymentKeepsMoney, Zenon

\* The outcomes: given up, failed, settled.
LEMMA OutcomeMoney ==
    ASSUME LedgerInv, MoneyInv, NEW c \in Cells, \A b \in Contents : Counted(b, c),
           NEW from \in {"none", "inflight"}, NEW to \in {"void", "failed", "paid"}, NEW amount \in Nat,
           Outcome(c, from, to, amount),
           to = "paid" => /\ from = "inflight" /\ amount > 0
                          /\ MaxOverrun = 0 => amount <= pay[c].amt
    PROVE  MoneyInv'
<1>1. pay \in Pays /\ pay[c].st = from /\ UNCHANGED <<mem, disk>>
  BY Zenon DEF LedgerInv, TypeOK, Pays, Outcome
<1>2. /\ pay'[c].st = to /\ pay'[c].amt = amount /\ pay'[c].for = pay[c].for
      /\ \A d \in Cells \ {c} : pay'[d] = pay[d]
  BY <1>1, Zenon DEF Outcome, Pays
<1>3. pay' \in Pays
  BY <1>1, ZenonT(60) DEF Outcome, Pays, Statuses
<1>4. ASSUME NEW b \in Contents PROVE Balanced(b, pay')
  <2>1. b \in Budgets /\ Balanced(b, pay) /\ Counted(b, c) /\ b.pending[c] \in Nat
    BY ZenonT(60) DEF LedgerInv, Good, MoneyInv, Budgets
  <2>2. MaxOverrun = 0 /\ to = "paid" => amount <= b.pending[c]
    <3>1. pay[c].amt \in Nat
      BY <1>1, Zenon DEF Pays
    <3> QED BY <1>1, <2>1, <3>1, SMTT(60) DEF Balanced, Sized, Counted
  <2>3. pay[c].for # None =>
            /\ HasCall(b, pay[c].for[1]) => c[2] = b.call[pay[c].for[1]].peer
            /\ to = "paid" => Draws(b, c, pay[c].for)
    BY <1>1, <2>1, Zenon DEF Balanced, Known
  <2> QED BY <1>1, <1>2, <1>3, <2>1, <2>2, <2>3, PaymentBalances
<1>5. ASSUME NEW d \in Cells, pay[c].for # None, to = "paid", pay[d].for = pay[c].for,
             pay[d].st \in {"inflight", "paid"}
      PROVE  d = c
  BY <1>1, <1>5, Zenon DEF MoneyInv, BlockPaidOnce
<1> QED BY <1>1, <1>2, <1>3, <1>4, <1>5, PaymentKeepsMoney, SMTT(60)

\* The holder gives up, or the payment ends.
LEMMA EndMoney ==
    ASSUME LedgerInv, MoneyInv, NEW i \in Ids, NEW r \in Recipients,
           Decline(i, r) \/ PaymentFails(<<i, r>>) \/ PaymentSettles(<<i, r>>)
    PROVE  MoneyInv'
<1> DEFINE c == <<i, r>>
<1>1. c \in Cells /\ c[1] = i
  BY Zenon DEF Cells
<1>2. CASE Decline(i, r)
  <2>1. Live /\ Counted(mem, c) /\ pay[c].st = "none" /\ Outcome(c, "none", "void", 0)
    BY <1>1, <1>2, Zenon DEF Decline, Counted, Outcome
  <2>2. \A b \in Contents : Counted(b, c)
    BY <1>1, <2>1, Zenon DEF LedgerInv, Backed, Contents
  <2> HIDE DEF c
  <2> QED BY <1>1, <2>1, <2>2, OutcomeMoney, Zenon
<1>3. CASE PaymentFails(c)
  <2>1. pay[c].st = "inflight" /\ Outcome(c, "inflight", "failed", 0)
    BY <1>3, Zenon DEF PaymentFails, Outcome
  <2>2. \A b \in Contents : Counted(b, c)
    BY <1>1, <2>1, Zenon DEF LedgerInv, Backed
  <2> HIDE DEF c
  <2> QED BY <1>1, <2>1, <2>2, OutcomeMoney, Zenon
<1>4. CASE PaymentSettles(c)
  <2>1. PICK amount \in 1 .. pay[c].amt + MaxOverrun : Outcome(c, "inflight", "paid", amount)
    BY <1>4, Zenon DEF PaymentSettles
  <2>2. pay[c].st = "inflight" /\ \A b \in Contents : Counted(b, c)
    BY <1>1, <2>1, ZenonT(60) DEF LedgerInv, Backed, Outcome
  <2>3. amount \in Nat /\ amount > 0 /\ (MaxOverrun = 0 => amount <= pay[c].amt)
    <3>1. pay[c].amt \in Nat
      BY <1>1, Zenon DEF LedgerInv, TypeOK
    <3> HIDE DEF c
    <3> QED BY <3>1, LedgerAssumption, SMTT(60)
  <2> HIDE DEF c
  <2> QED BY <1>1, <2>1, <2>2, <2>3, OutcomeMoney, Zenon
<1> QED BY <1>2, <1>3, <1>4, Zenon

\* A new grant has used nothing, and has the envelopes it has (none, or one budget).
LEMMA MoneyInvInit == Init => MoneyInv
<1> SUFFICES ASSUME Init PROVE MoneyInv
  BY Zenon
<1>1. mem \in Budgets /\ pay \in Pays
  <2>1. {Budget, PerCallMax, 0} \subseteq Nat
    BY LedgerAssumption
  <2>2. mem \in Budgets
    BY <2>1, Zenon DEF Init, Budgets
  <2> QED BY <2>2, LedgerInvInit, Zenon DEF LedgerInv, TypeOK, Pays
<1>2. /\ Contents \subseteq {mem} /\ disk = {mem}
      /\ \A h \in Holds : ~HasCall(mem, h)
      /\ \A c \in Cells : pay[c].st = "none" /\ pay[c].for = None
  BY Zenon DEF Init, Contents, HasCall, Unborn
<1>3. mem.used = 0 /\ (\A r \in Recipients : mem.usedBy[r] = 0) /\ \A c \in Cells : mem.pending[c] = 0
  BY Zenon DEF Init
<1>4. Tallied(mem, pay)
  <2>1. SumFunctionOnSet(mem.usedBy, Recipients) = 0
    BY <1>3, SumZero, LedgerAssumption, Zenon
  <2>2. ASSUME NEW r \in Recipients
        PROVE  SumFunctionOnSet([i \in Ids |-> KeptOrPaid(mem, pay, <<i, r>>)], Ids) = 0
    <3> DEFINE f == [i \in Ids |-> KeptOrPaid(mem, pay, <<i, r>>)]
    <3>1. \A i \in Ids : f[i] = 0
      BY <1>2, <1>3, SMTT(60) DEF KeptOrPaid, Cells
    <3> HIDE DEF f
    <3>2. SumFunctionOnSet(f, Ids) = 0
      BY <3>1, SumZero, LedgerAssumption, Zenon
    <3> QED BY <3>2, Zenon DEF f
  <2> QED BY <1>3, <2>1, <2>2, Zenon DEF Tallied
<1>5. Capped(mem)
  <2>1. mem.used <= mem.budget /\ \A r \in Recipients : mem.usedBy[r] <= mem.cap[r]
    BY <1>1, <1>3, SMTT(60) DEF Budgets
  <2>2. ASSUME RecipientsOnly PROVE Enveloped(mem)
    <3> DEFINE f == [r \in Recipients |-> Sub(mem.cap[r], mem.usedBy[r])]
    <3>1. mem.budget = 0 /\ \A r \in Recipients : mem.cap[r] = 0
      BY <2>2, Zenon DEF Init
    <3>2. \A r \in Recipients : f[r] = 0
      BY <1>3, <3>1, SMTT(60) DEF Sub, Max2
    <3> HIDE DEF f
    <3>3. SumFunctionOnSet(f, Recipients) = 0
      BY <3>2, SumZero, LedgerAssumption, Zenon
    <3> QED BY <1>3, <3>1, <3>3, SMTT(60) DEF Enveloped, f
  <2> QED BY <2>1, <2>2, Zenon DEF Capped
<1>6. Balanced(mem, pay)
  BY <1>2, <1>3, <1>4, <1>5, Zenon DEF Balanced, HoldsUnpaid, Sized, BlocksApart, Known
<1>7. Promised(mem, mem, pay)
  BY <1>1, PromisedItself, Zenon
<1> QED BY <1>2, <1>6, <1>7, Zenon DEF MoneyInv, BlockPaidOnce

\* Every operation of the service and every payment keeps the money.
LEMMA MoneyInvNext == LedgerInv /\ MoneyInv /\ [Next]_vars => MoneyInv'
<1> SUFFICES ASSUME LedgerInv, MoneyInv, [Next]_vars PROVE MoneyInv'
  BY Zenon
<1>1. CASE UNCHANGED vars
  BY <1>1, Zenon DEF vars, MoneyInv, Contents, Live, BlockPaidOnce
<1>2. ASSUME NEW a \in Amounts PROVE a \in Nat /\ a > 0
  BY LedgerAssumption DEF Amounts, Max2
<1>3. ASSUME NEW i \in Ids, Free(i), NEW charges \in Charges, Reserve(i, charges)
      PROVE  MoneyInv'
  BY <1>3, ReserveMoney, Zenon
<1>4. ASSUME NEW i \in Holds, Free(i), NEW r \in Recipients, ReserveCall(i, r)
      PROVE  MoneyInv'
  BY <1>4, ReserveCallMoney, Zenon
<1>5. ASSUME NEW i \in Ids, Free(i), NEW h \in Holds \ {i}, NEW r \in Recipients,
             NEW a \in Amounts, Free(h), ReserveCallWithOffer(h, i, r, a)
      PROVE  MoneyInv'
  BY <1>2, <1>5, ReserveCallWithOfferMoney, Zenon
<1>6. ASSUME NEW i \in Ids, Free(i), NEW p \in Ids, NEW r \in Recipients,
             NEW t \in Amounts \cup {0}, NEW a \in Amounts, Readmit(p, r, t, i, a)
      PROVE  MoneyInv'
  BY <1>2, <1>6, ReadmitMoney, Zenon
<1>7. ASSUME NEW i \in Ids, Free(i), NEW h \in Holds, NEW s \in Seqs, NEW a \in Amounts,
             Draw(h, i, s, a)
      PROVE  MoneyInv'
  BY <1>2, <1>7, DrawMoney, Zenon
<1>8. ASSUME NEW i \in Ids, NEW r \in Recipients, NEW a \in Amounts, ReadmitRefused(i, r, a)
      PROVE  MoneyInv'
  BY <1>2, <1>8, ReadmitRefusedMoney, Zenon
<1>9. ASSUME NEW i \in Ids, NEW r \in Recipients,
             \/ Resolve(i, r) \/ Dispatch(i, r) \/ Decline(i, r)
             \/ PaymentFails(<<i, r>>) \/ PaymentSettles(<<i, r>>)
      PROVE  MoneyInv'
  BY <1>9, ResolveMoney, DispatchMoney, EndMoney, Zenon
<1>10. ASSUME NEW h \in Holds, CloseCall(h) \/ EnforceHoldLimit(h) \/ PruneTombstone(h)
       PROVE  MoneyInv'
  BY <1>10, CloseMoney, PruneMoney, Zenon
<1>11. ASSUME NEW r \in Recipients, NEW a \in Envelopes, NEW act \in Amounts, Renew(r, a, act)
       PROVE  MoneyInv'
  BY <1>2, <1>11, LedgerAssumption, RenewMoney, Zenon
<1>12. CASE ResetBreakers \/ Revoke \/ Crash
  BY <1>12, ResetMoney, RestartMoney, Zenon
<1> QED
  BY <1>1, <1>3, <1>4, <1>5, <1>6, <1>7, <1>8, <1>9, <1>10, <1>11, <1>12, Zenon DEF Next

\* Both invariants hold after any history.
THEOREM MoneyAlwaysKept == Spec => [](LedgerInv /\ MoneyInv)
<1>1. Init => LedgerInv /\ MoneyInv
  BY LedgerInvInit, MoneyInvInit, Zenon
<1>2. (LedgerInv /\ MoneyInv) /\ [Next]_vars => (LedgerInv /\ MoneyInv)'
  BY LedgerInvNext, MoneyInvNext, Zenon
<1> QED BY <1>1, <1>2, PTL DEF Spec

\* reserve, resolve, resolve_call_draw, close_call: the used amounts are exactly
\* what was paid and what is still reserved, in memory and in whatever a restart finds.
THEOREM TallyIsExact == Spec => []Tally
<1>1. MoneyInv => Tally
  BY Zenon DEF MoneyInv, Balanced, Tally
<1> QED BY <1>1, MoneyAlwaysKept, PTL

\* close_call, resolve_call_draw: a call's reservation is spent, released, drawn or held.
THEOREM CallsConserve == Spec => []CallConserved
<1>1. MoneyInv => CallConserved
  BY Zenon DEF MoneyInv, Balanced, CallConserved
<1> QED BY <1>1, MoneyAlwaysKept, PTL

\* draw_call_spend, with_call_spend_authority: a block is paid at most once.
THEOREM BlocksArePaidOnce == Spec => []BlockPaidOnce
<1>1. MoneyInv => BlockPaidOnce
  BY Zenon DEF MoneyInv
<1> QED BY <1>1, MoneyAlwaysKept, PTL

\* What is paid or under way to a recipient is counted as used for it.
LEMMA ExposedIsUsed ==
    ASSUME LedgerInv, MoneyInv, Live, MaxOverrun = 0, NEW r \in Recipients
    PROVE  Exposed(r) \in Nat /\ Exposed(r) <= mem.usedBy[r]
<1> DEFINE f == [i \in Ids |-> IF pay[<<i, r>>].st \in {"inflight", "paid"} THEN pay[<<i, r>>].amt ELSE 0]
           g == [i \in Ids |-> KeptOrPaid(mem, pay, <<i, r>>)]
<1>1. mem \in Budgets /\ pay \in Pays /\ Balanced(mem, pay) /\ mem \in Contents
  BY MemBalanced, MemGood, ZenonT(60)
<1>2. ASSUME NEW i \in Ids PROVE f[i] \in Nat /\ g[i] \in Nat /\ f[i] <= g[i]
  <2>1. <<i, r>> \in Cells
    BY Zenon DEF Cells
  <2>2. /\ pay[<<i, r>>].amt \in Nat /\ mem.pending[<<i, r>>] \in Nat
        /\ pay[<<i, r>>].st = "inflight" => mem.pending[<<i, r>>] > 0
    BY <1>1, <2>1, Zenon DEF Pays, Budgets, LedgerInv, Backed, Counted
  <2>3. mem.pending[<<i, r>>] > 0 /\ pay[<<i, r>>].st \in {"inflight", "paid"} =>
            pay[<<i, r>>].amt <= mem.pending[<<i, r>>]
    BY <1>1, <2>1, Zenon DEF Balanced, Sized
  <2> QED BY <2>2, <2>3, SMTT(60) DEF KeptOrPaid
<1>3. mem.usedBy[r] = SumFunctionOnSet(g, Ids)
  BY <1>1, ZenonT(60) DEF Balanced, Tallied
<1> HIDE DEF f, g
<1>4. SumFunctionOnSet(f, Ids) \in Nat /\ SumFunctionOnSet(f, Ids) <= SumFunctionOnSet(g, Ids)
  BY <1>2, SumType, SumAtMost, LedgerAssumption, SMTT(60)
<1> QED BY <1>3, <1>4, Zenon DEF Exposed, f

\* reserve_bounded, check_envelopes, open_envelope: with providers that keep to
\* the reservation, what left the wallet or may still leave it stays within the
\* limits of each recipient and of the grant, and the envelopes add up.
THEOREM ApprovalIsKept == Spec => [](WithinApproval /\ EnvelopeTotal)
<1>1. LedgerInv /\ MoneyInv => WithinApproval
  <2> SUFFICES ASSUME LedgerInv, MoneyInv, MaxOverrun = 0, Live
               PROVE  /\ \A r \in Recipients : Exposed(r) <= mem.cap[r]
                      /\ SumFunctionOnSet([r \in Recipients |-> Exposed(r)], Recipients) <= mem.budget
    BY Zenon DEF WithinApproval
  <2> DEFINE f == [r \in Recipients |-> Exposed(r)]
  <2>1. mem \in Budgets /\ Capped(mem) /\ Tallied(mem, pay)
    BY MemBalanced, Zenon DEF Balanced
  <2>2. /\ mem.used \in Nat /\ mem.budget \in Nat /\ mem.used <= mem.budget
        /\ mem.used = SumFunctionOnSet(mem.usedBy, Recipients)
        /\ \A r \in Recipients : /\ mem.usedBy[r] \in Nat /\ mem.cap[r] \in Nat
                                 /\ mem.usedBy[r] <= mem.cap[r]
    BY <2>1, Zenon DEF Budgets, Capped, Tallied
  <2>3. \A r \in Recipients : Exposed(r) \in Nat /\ Exposed(r) <= mem.usedBy[r] /\ f[r] = Exposed(r)
    BY ExposedIsUsed, Zenon
  <2> HIDE DEF f
  <2>4. SumFunctionOnSet(f, Recipients) \in Nat /\ SumFunctionOnSet(f, Recipients) <= mem.used
    BY <2>2, <2>3, SumType, SumAtMost, LedgerAssumption, SMTT(60)
  <2>5. SumFunctionOnSet(f, Recipients) <= mem.budget
    BY <2>2, <2>4, SMTT(60)
  <2>6. \A r \in Recipients : Exposed(r) <= mem.cap[r]
    BY <2>2, <2>3, SMTT(60)
  <2> QED BY <2>5, <2>6, Zenon DEF f
<1>2. MoneyInv => EnvelopeTotal
  BY Zenon DEF MoneyInv, Balanced, Capped, EnvelopeTotal
<1> QED BY <1>1, <1>2, MoneyAlwaysKept, PTL
===============================================================================
