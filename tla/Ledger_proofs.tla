--------------------------- MODULE Ledger_proofs ---------------------------
(***************************************************************************)
(* The coins of SendFunds add up, for any number of transfers and          *)
(* dispatches: the escrow can pay every refund, and an account holds what  *)
(* transfers brought less what dispatches took.                            *)
(*                                                                         *)
(* The sums are folds over finite sets.  What a fold computes is found by  *)
(* induction over the subsets of a set, taken in the form of a minimal     *)
(* counterexample, for which a set of sets stands in for the formula.      *)
(***************************************************************************)
EXTENDS IcaTransfers_proofs, FiniteSetTheorems, WellFoundedInduction

-----------------------------------------------------------------------------
(* Sums over finite sets.                                                  *)

(* Induction over the subsets of a finite set, stated of a set P of sets.  *)
LEMMA SubsetInduction ==
    ASSUME NEW S, IsFiniteSet(S), NEW P,
           \A s \in SUBSET S :
               (\A u \in SUBSET s : u # s => u \in P) => s \in P
    PROVE  \A s \in SUBSET S : s \in P
<1> DEFINE T == {s \in SUBSET S : s \notin P}
<1>1. IsWellFoundedOn(StrictSubsetOrdering(S), SUBSET S)
  BY FS_StrictSubsetOrderingWellFounded, FS_FiniteSubsetsOfFinite
<1>2. ASSUME T # {} PROVE FALSE
  <2>1. PICK x \in T : \A y \in T : ~(<<y, x>> \in StrictSubsetOrdering(S))
    <3>1. T \subseteq SUBSET S
      OBVIOUS
    <3> HIDE DEF T
    <3> QED
      BY <1>1, <1>2, <3>1, WFMin
  <2>2. \A u \in SUBSET x : u # x => u \in P
    BY <2>1 DEF StrictSubsetOrdering
  <2> QED
    BY <2>1, <2>2
<1> QED
  BY <1>2

Pick(s) == CHOOSE x \in s : TRUE

(* What a fold computes, as a property of the function it defines.         *)
Tally(w, S, g) ==
    g = [s \in SUBSET S |-> IF s = {} THEN 0 ELSE w[Pick(s)] + g[s \ {Pick(s)}]]

(* The element a fold takes next.                                          *)
LEMMA PickIn == ASSUME NEW s, s # {} PROVE Pick(s) \in s
  BY DEF Pick

(* What a tally says of a nonempty set,                                    *)
LEMMA TallyAt ==
    ASSUME NEW w, NEW S, NEW g, Tally(w, S, g), NEW s \in SUBSET S, s # {}
    PROVE  g[s] = w[Pick(s)] + g[s \ {Pick(s)}]
  BY Zenon DEF Tally

(* and of the empty one.                                                   *)
LEMMA TallyNone ==
    ASSUME NEW w, NEW S, NEW g, Tally(w, S, g)
    PROVE  g[{}] = 0
  BY Zenon DEF Tally

(* Two tallies of what is the same on v agree on v.                        *)
LEMMA TallyUnique ==
    ASSUME NEW w, NEW S, NEW g, Tally(w, S, g),
           NEW x, NEW U, NEW h, Tally(x, U, h),
           NEW V, IsFiniteSet(V), V \subseteq S, V \subseteq U,
           \A e \in V : w[e] = x[e]
    PROVE  g[V] = h[V]
<1> DEFINE P == {s \in SUBSET V : g[s] = h[s]}
<1>1. ASSUME NEW s \in SUBSET V, \A u \in SUBSET s : u # s => u \in P PROVE s \in P
  <2>1. CASE s = {}
    BY <2>1, TallyNone
  <2>2. CASE s # {}
    <3>1. /\ g[s] = w[Pick(s)] + g[s \ {Pick(s)}]
          /\ h[s] = x[Pick(s)] + h[s \ {Pick(s)}]
      <4>1. \A t \in SUBSET S : t # {} => g[t] = w[Pick(t)] + g[t \ {Pick(t)}]
        BY TallyAt
      <4>2. \A t \in SUBSET U : t # {} => h[t] = x[Pick(t)] + h[t \ {Pick(t)}]
        BY TallyAt
      <4>3. s \in SUBSET S /\ s \in SUBSET U
        OBVIOUS
      <4> QED
        BY <2>2, <4>1, <4>2, <4>3
    <3>2. Pick(s) \in s
      BY <2>2, PickIn
    <3>3. s \ {Pick(s)} \in P
      BY <1>1, <3>2
    <3>4. w[Pick(s)] = x[Pick(s)]
      BY <3>2
    <3> QED
      BY <3>1, <3>3, <3>4
  <2> QED
    BY <2>1, <2>2
<1>2. \A s \in SUBSET V : s \in P
  <2> HIDE DEF P
  <2> QED
    BY <1>1, SubsetInduction
<1> QED
  BY <1>2

(* Every finite set has a tally: that of a set is put together from those  *)
(* of its strict subsets.                                                  *)
LEMMA TallyExists ==
    ASSUME NEW w, NEW S, IsFiniteSet(S)
    PROVE  \E g : Tally(w, S, g)
<1> DEFINE P == {s \in SUBSET S : \E g : Tally(w, s, g)}
<1>1. ASSUME NEW s \in SUBSET S, \A u \in SUBSET s : u # s => u \in P PROVE s \in P
  <2> DEFINE G(u) == CHOOSE g : Tally(w, u, g)
             f == [u \in SUBSET s |-> IF u = {} THEN 0
                     ELSE w[Pick(u)] + G(u \ {Pick(u)})[u \ {Pick(u)}]]
  <2>1. ASSUME NEW u \in SUBSET s, u # s PROVE Tally(w, u, G(u))
    <3>1. \E g : Tally(w, u, g)
      BY <1>1, <2>1
    <3> QED
      BY <3>1
  <2>2. ASSUME NEW u \in SUBSET s, u # s PROVE f[u] = G(u)[u]
    <3>1. CASE u = {}
      <4>1. Tally(w, {}, G({}))
        BY <2>1, <2>2, <3>1
      <4>2. G({})[{}] = 0
        BY <4>1, TallyNone
      <4> QED
        BY <3>1, <4>2
    <3>2. CASE u # {}
      <4> DEFINE v == u \ {Pick(u)}
      <4>1. Pick(u) \in u
        BY <3>2, PickIn
      <4>2. v \in SUBSET s /\ v # s /\ v \subseteq u
        BY <4>1
      <4>3. G(u)[u] = w[Pick(u)] + G(u)[v]
        <5>1. Tally(w, u, G(u))
          BY <2>1, <2>2
        <5> HIDE DEF G
        <5> QED
          BY <3>2, <5>1, TallyAt
      <4>4. IsFiniteSet(v)
        BY <4>2, FS_Subset
      <4>5. G(u)[v] = G(v)[v]
        <5>1. Tally(w, u, G(u)) /\ Tally(w, v, G(v))
          BY <2>1, <2>2, <4>2
        <5> HIDE DEF G
        <5> QED
          BY <4>2, <4>4, <5>1, TallyUnique
      <4>6. f[u] = w[Pick(u)] + G(v)[v]
        <5> HIDE DEF G
        <5> QED
          BY <3>2
      <4> QED
        BY <4>3, <4>5, <4>6
    <3> QED
      BY <3>1, <3>2
  <2>3. ASSUME NEW u \in SUBSET s, u # {} PROVE f[u] = w[Pick(u)] + f[u \ {Pick(u)}]
    <3>1. Pick(u) \in u
      BY <2>3, PickIn
    <3>2. u \ {Pick(u)} \in SUBSET s /\ u \ {Pick(u)} # s
      BY <3>1
    <3>3. f[u \ {Pick(u)}] = G(u \ {Pick(u)})[u \ {Pick(u)}]
      <4> HIDE DEF f, G
      <4> QED
        BY <2>2, <3>2
    <3>4. f[u] = w[Pick(u)] + G(u \ {Pick(u)})[u \ {Pick(u)}]
      <4> HIDE DEF G
      <4> QED
        BY <2>3
    <3> QED
      BY <3>3, <3>4
  <2>4. f = [u \in SUBSET s |-> IF u = {} THEN 0 ELSE f[u]]
    OBVIOUS
  <2>5. Tally(w, s, f)
    <3> HIDE DEF f
    <3> QED
      BY <2>3, <2>4 DEF Tally
  <2> QED
    BY <2>5
<1>2. \A s \in SUBSET S : s \in P
  <2> HIDE DEF P
  <2> QED
    BY <1>1, SubsetInduction
<1> QED
  BY <1>2

(* The sum of the weights of a set's elements.                             *)
Total(w, S) == (CHOOSE g : Tally(w, S, g))[S]

Weighs(w, S) == IsFiniteSet(S) /\ \A e \in S : w[e] \in Nat

(* A total is the value of some tally.                                     *)
LEMMA TotalTallies ==
    ASSUME NEW w, NEW S, IsFiniteSet(S)
    PROVE  \E g : Tally(w, S, g) /\ Total(w, S) = g[S]
<1>1. \E g : Tally(w, S, g)
  BY TallyExists
<1>2. Tally(w, S, CHOOSE g : Tally(w, S, g))
  BY <1>1
<1> QED
  BY <1>2 DEF Total

(* Nothing weighs nothing.                                                 *)
LEMMA TotalNone == ASSUME NEW w PROVE Total(w, {}) = 0
<1>1. IsFiniteSet({})
  BY FS_EmptySet
<1> QED
  BY <1>1, TotalTallies, TallyNone

(* A part of a tally is the tally of the part.                             *)
LEMMA TallyTotal ==
    ASSUME NEW w, NEW S, IsFiniteSet(S), NEW g, Tally(w, S, g)
    PROVE  \A s \in SUBSET S : g[s] = Total(w, s)
<1> TAKE s \in SUBSET S
<1>1. IsFiniteSet(s)
  BY FS_Subset
<1>2. PICK h : Tally(w, s, h) /\ Total(w, s) = h[s]
  BY <1>1, TotalTallies
<1>3. g[s] = h[s]
  BY <1>1, <1>2, TallyUnique
<1> QED
  BY <1>2, <1>3

(* Any tally of a set gives its total.                                     *)
LEMMA TotalIs ==
    ASSUME NEW w, NEW S, IsFiniteSet(S), NEW g, Tally(w, S, g)
    PROVE  Total(w, S) = g[S]
<1>1. PICK h : Tally(w, S, h) /\ Total(w, S) = h[S]
  BY TotalTallies
<1>2. g[S] = h[S]
  BY <1>1, TallyUnique
<1> QED
  BY <1>1, <1>2

(* A total is one element's weight and the total of the rest.              *)
LEMMA TotalPicked ==
    ASSUME NEW w, NEW S, IsFiniteSet(S), S # {}
    PROVE  Total(w, S) = w[Pick(S)] + Total(w, S \ {Pick(S)})
<1>1. PICK g : Tally(w, S, g) /\ Total(w, S) = g[S]
  BY TotalTallies
<1>2. g[S] = w[Pick(S)] + g[S \ {Pick(S)}]
  BY <1>1, TallyAt
<1>3. g[S \ {Pick(S)}] = Total(w, S \ {Pick(S)})
  <2>1. \A s \in SUBSET S : g[s] = Total(w, s)
    <3>1. IsFiniteSet(S) /\ Tally(w, S, g)
      BY <1>1
    <3> QED
      BY <3>1, TallyTotal, ZenonT(30)
  <2>2. S \ {Pick(S)} \in SUBSET S
    OBVIOUS
  <2> QED
    BY <2>1, <2>2
<1> QED
  BY <1>1, <1>2, <1>3

(* A total of numbers is a number.                                         *)
LEMMA TotalTyped ==
    ASSUME NEW w, NEW S, Weighs(w, S)
    PROVE  Total(w, S) \in Nat
<1> USE DEF Weighs
<1> DEFINE P == {s \in SUBSET S : Total(w, s) \in Nat}
<1>1. ASSUME NEW s \in SUBSET S, \A u \in SUBSET s : u # s => u \in P PROVE s \in P
  <2>1. CASE s = {}
    BY <2>1, TotalNone
  <2>2. CASE s # {}
    <3>1. Pick(s) \in s
      BY <2>2, PickIn
    <3>2. Total(w, s) = w[Pick(s)] + Total(w, s \ {Pick(s)})
      BY <2>2, TotalPicked, FS_Subset
    <3>3. s \ {Pick(s)} \in P
      BY <1>1, <3>1
    <3>4. w[Pick(s)] \in Nat
      BY <3>1
    <3> QED
      BY <3>2, <3>3, <3>4
  <2> QED
    BY <2>1, <2>2
<1>2. \A s \in SUBSET S : s \in P
  <2> HIDE DEF P
  <2> QED
    BY <1>1, SubsetInduction
<1> QED
  BY <1>2

(* Any element may be taken out first.                                     *)
LEMMA TotalRemove ==
    ASSUME NEW w, NEW S, Weighs(w, S), NEW e \in S
    PROVE  Total(w, S) = w[e] + Total(w, S \ {e})
<1> USE DEF Weighs
<1> DEFINE P == {s \in SUBSET S : \A d \in s : Total(w, s) = w[d] + Total(w, s \ {d})}
<1>1. ASSUME NEW s \in SUBSET S, \A u \in SUBSET s : u # s => u \in P PROVE s \in P
  <2>1. ASSUME NEW d \in s PROVE Total(w, s) = w[d] + Total(w, s \ {d})
    <3> DEFINE p == Pick(s)
    <3>1. p \in s
      BY PickIn
    <3>2. IsFiniteSet(s)
      BY FS_Subset
    <3>3. Total(w, s) = w[p] + Total(w, s \ {p})
      BY <3>2, TotalPicked
    <3>4. CASE d = p
      BY <3>3, <3>4
    <3>5. CASE d # p
      <4> HIDE DEF p
      <4>1. s \ {p} \in P /\ s \ {d} \in P
        BY <1>1, <3>1
      <4>2. Total(w, s \ {p}) = w[d] + Total(w, (s \ {p}) \ {d})
        BY <3>5, <4>1
      <4>3. Total(w, s \ {d}) = w[p] + Total(w, (s \ {d}) \ {p})
        BY <3>1, <3>5, <4>1
      <4>4. (s \ {p}) \ {d} = (s \ {d}) \ {p}
        OBVIOUS
      <4>5. Weighs(w, (s \ {p}) \ {d})
        BY FS_Subset
      <4>6. Total(w, (s \ {p}) \ {d}) \in Nat
        BY <4>5, TotalTyped
      <4>7. w[p] \in Nat /\ w[d] \in Nat
        BY <3>1
      <4> QED
        BY <3>3, <4>2, <4>3, <4>4, <4>6, <4>7
    <3> QED
      BY <3>4, <3>5
  <2> QED
    BY <2>1
<1>2. \A s \in SUBSET S : s \in P
  <2> HIDE DEF P
  <2> QED
    BY <1>1, SubsetInduction
<1> QED
  BY <1>2
-----------------------------------------------------------------------------
(* The two sums of the model.                                              *)

AmountOf == [t \in TransferPacket |-> t.amount]

AmountsFold(ts, g) ==
    g = [s \in SUBSET ts |->
           IF s = {} THEN 0
           ELSE (CHOOSE t \in s : TRUE).amount + g[s \ {CHOOSE t \in s : TRUE}]]

(* The fold that Amounts is a tally of the amounts.                        *)
LEMMA AmountsAreTotal ==
    ASSUME NEW ts \in SUBSET TransferPacket, IsFiniteSet(ts)
    PROVE  Amounts(ts) = Total(AmountOf, ts)
<1>1. Amounts(ts) = (CHOOSE g : AmountsFold(ts, g))[ts]
  BY DEF Amounts, MapThenSumSet, MapThenFoldSet, AmountsFold
<1>2. ASSUME NEW g PROVE AmountsFold(ts, g) <=> Tally(AmountOf, ts, g)
  <2>1. \A s \in SUBSET ts :
            s # {} => AmountOf[Pick(s)] = (CHOOSE t \in s : TRUE).amount
    BY PickIn DEF AmountOf, Pick
  <2> DEFINE L == [s \in SUBSET ts |->
                     IF s = {} THEN 0
                     ELSE (CHOOSE t \in s : TRUE).amount + g[s \ {CHOOSE t \in s : TRUE}]]
             R == [s \in SUBSET ts |->
                     IF s = {} THEN 0 ELSE AmountOf[Pick(s)] + g[s \ {Pick(s)}]]
  <2>2. L = R
    BY <2>1 DEF Pick
  <2> QED
    BY <2>2 DEF AmountsFold, Tally
<1>3. \E g : AmountsFold(ts, g)
  BY <1>2, TallyExists
<1> DEFINE h == CHOOSE g : AmountsFold(ts, g)
<1>4. AmountsFold(ts, h)
  BY <1>3
<1>5. Amounts(ts) = h[ts]
  BY <1>1
<1> HIDE DEF h
<1>6. Tally(AmountOf, ts, h)
  BY <1>2, <1>4
<1>7. Total(AmountOf, ts) = h[ts]
  BY <1>6, TotalIs
<1> QED
  BY <1>5, <1>7

(* No transfers, no amount.                                                *)
LEMMA AmountsNone == Amounts({}) = 0
  BY AmountsAreTotal, TotalNone, FS_EmptySet

(* What transfers amount to is never negative.                             *)
LEMMA AmountsTyped ==
    ASSUME NEW ts \in SUBSET TransferPacket, IsFiniteSet(ts)
    PROVE  Amounts(ts) \in Nat
<1>1. Weighs(AmountOf, ts)
  BY DEF Weighs, AmountOf, TransferPacket
<1> QED
  BY <1>1, AmountsAreTotal, TotalTyped

(* One transfer more adds its amount.                                      *)
LEMMA AmountsAdd ==
    ASSUME NEW ts \in SUBSET TransferPacket, IsFiniteSet(ts),
           NEW t \in TransferPacket, t \notin ts
    PROVE  Amounts(ts \cup {t}) = Amounts(ts) + t.amount
<1> DEFINE us == ts \cup {t}
<1>1. us \in SUBSET TransferPacket /\ IsFiniteSet(us)
  BY FS_AddElement
<1>2. Weighs(AmountOf, us)
  BY <1>1 DEF Weighs, AmountOf, TransferPacket
<1>3. t \in us /\ us \ {t} = ts
  OBVIOUS
<1> HIDE DEF us
<1>4. Total(AmountOf, us) = AmountOf[t] + Total(AmountOf, ts)
  BY <1>2, <1>3, TotalRemove
<1>5. AmountOf[t] = t.amount /\ t.amount \in Nat
  BY DEF AmountOf, TransferPacket
<1>6. Amounts(us) = Total(AmountOf, us) /\ Amounts(ts) = Total(AmountOf, ts)
  BY <1>1, AmountsAreTotal
<1>7. Amounts(us) = Amounts(ts) + t.amount
  BY <1>4, <1>5, <1>6, AmountsTyped
<1> QED
  BY <1>7 DEF us

Answers == [packet : Packet, ack : StdAck]

SpentBy == [w \in Answers |-> w.packet.data.batch.total]

SpentFold(ws, g) ==
    g = [s \in SUBSET ws |->
           IF s = {} THEN 0
           ELSE (CHOOSE w \in s : TRUE).packet.data.batch.total
                    + g[s \ {CHOOSE w \in s : TRUE}]]

(* The fold that TotalSpent is tallies the totals of the batches.          *)
LEMMA SpentIsTotal ==
    ASSUME NEW ws \in SUBSET Answers, IsFiniteSet(ws)
    PROVE  TotalSpent(ws) = Total(SpentBy, ws)
<1>1. TotalSpent(ws) = (CHOOSE g : SpentFold(ws, g))[ws]
  BY DEF TotalSpent, MapThenSumSet, MapThenFoldSet, SpentFold
<1>2. ASSUME NEW g PROVE SpentFold(ws, g) <=> Tally(SpentBy, ws, g)
  <2>1. \A s \in SUBSET ws :
            s # {} => SpentBy[Pick(s)] = (CHOOSE w \in s : TRUE).packet.data.batch.total
    BY PickIn DEF SpentBy, Pick
  <2> DEFINE L == [s \in SUBSET ws |->
                     IF s = {} THEN 0
                     ELSE (CHOOSE w \in s : TRUE).packet.data.batch.total
                              + g[s \ {CHOOSE w \in s : TRUE}]]
             R == [s \in SUBSET ws |->
                     IF s = {} THEN 0 ELSE SpentBy[Pick(s)] + g[s \ {Pick(s)}]]
  <2>2. L = R
    BY <2>1 DEF Pick
  <2> QED
    BY <2>2 DEF SpentFold, Tally
<1>3. \E g : SpentFold(ws, g)
  BY <1>2, TallyExists
<1> DEFINE h == CHOOSE g : SpentFold(ws, g)
<1>4. SpentFold(ws, h)
  BY <1>3
<1>5. TotalSpent(ws) = h[ws]
  BY <1>1
<1> HIDE DEF h
<1>6. Tally(SpentBy, ws, h)
  BY <1>2, <1>4
<1>7. Total(SpentBy, ws) = h[ws]
  BY <1>6, TotalIs
<1> QED
  BY <1>5, <1>7

(* No dispatches, nothing spent.                                           *)
LEMMA SpentNone == TotalSpent({}) = 0
  BY SpentIsTotal, TotalNone, FS_EmptySet

(* A dispatch's batch has a total.                                         *)
LEMMA TotalOfDispatch ==
    ASSUME NEW p \in Packet, p.data.type = "dispatch"
    PROVE  p.data.batch.total \in Nat
<1>1. p.data \in PacketMsg
  BY DEF Packet
<1>2. p.data.batch \in Batches
  BY <1>1 DEF PacketMsg, WhoAmI, Balances
<1> QED
  BY <1>2, InputAssumption DEF Batch

(* One more dispatch adds its batch's total.                               *)
LEMMA SpentAdd ==
    ASSUME NEW ws \in SUBSET Answers, IsFiniteSet(ws), \A v \in ws : Spends(v),
           NEW w \in Answers, w \notin ws, Spends(w)
    PROVE  /\ TotalSpent(ws) \in Nat
           /\ TotalSpent(ws \cup {w}) = TotalSpent(ws) + w.packet.data.batch.total
<1> DEFINE us == ws \cup {w}
<1>1. us \in SUBSET Answers /\ IsFiniteSet(us)
  BY FS_AddElement
<1>2. \A v \in us : SpentBy[v] = v.packet.data.batch.total /\ SpentBy[v] \in Nat
  BY TotalOfDispatch DEF SpentBy, Spends, Answers
<1>3. Weighs(SpentBy, us) /\ Weighs(SpentBy, ws)
  BY <1>1, <1>2 DEF Weighs
<1>4. w \in us /\ us \ {w} = ws
  OBVIOUS
<1> HIDE DEF us
<1>5. Total(SpentBy, us) = SpentBy[w] + Total(SpentBy, ws)
  BY <1>3, <1>4, TotalRemove
<1>6. Total(SpentBy, ws) \in Nat
  BY <1>3, TotalTyped
<1>7. TotalSpent(us) = Total(SpentBy, us) /\ TotalSpent(ws) = Total(SpentBy, ws)
  BY <1>1, SpentIsTotal
<1>8. SpentBy[w] = w.packet.data.batch.total /\ SpentBy[w] \in Nat
  BY <1>2, <1>4
<1>9. TotalSpent(us) = TotalSpent(ws) + w.packet.data.batch.total
  BY <1>5, <1>6, <1>7, <1>8
<1> QED
  BY <1>6, <1>7, <1>9 DEF us

(* What a channel's dispatches have spent is never negative.               *)
LEMMA SpentTyped ==
    ASSUME acks \subseteq Answers, IsFiniteSet(acks), NEW c
    PROVE  TotalSpent(SpendsOn(c)) \in Nat
<1>1. SpendsOn(c) \in SUBSET Answers /\ IsFiniteSet(SpendsOn(c))
  BY FS_Subset DEF SpendsOn
<1>2. \A w \in SpendsOn(c) : SpentBy[w] \in Nat
  BY TotalOfDispatch DEF SpendsOn, SpentBy, Spends, Answers
<1>3. Weighs(SpentBy, SpendsOn(c))
  BY <1>1, <1>2 DEF Weighs
<1> QED
  BY <1>1, <1>3, SpentIsTotal, TotalTyped

-----------------------------------------------------------------------------
(* The escrow.  A transfer sent is new, and one that was refused was not   *)
(* credited, so what leaves the escrow is backed by nothing else.          *)

NumberedTransfers ==
    \A t \in transfers \cup CreditedTransfers : t.seq < nextTransfer

OneVerdict == \A t \in CreditedTransfers : Refused(t) \notin receipts

(* The escrow covers every voucher there is and every transfer that may    *)
(* still be refunded, and no more.                                         *)
EscrowBacked ==
    coins[Escrow] = Amounts(transfers \cup CreditedTransfers)

EscrowInv ==
    /\ IsFiniteSet(transfers)
    /\ IsFiniteSet(CreditedTransfers)
    /\ NumberedTransfers
    /\ OneVerdict
    /\ EscrowBacked

(* At the start nothing is in escrow.                                      *)
LEMMA EscrowInvInit == AllInit => EscrowInv
<1> SUFFICES ASSUME AllInit PROVE EscrowInv
  OBVIOUS
<1>1. transfers = {} /\ CreditedTransfers = {}
  BY DEF AllInit, TransferInit, CreditedTransfers
<1>2. coins[Escrow] = 0
  BY TransferAssumption DEF AllInit, TransferInit
<1> QED
  BY <1>1, <1>2, AmountsNone, FS_EmptySet
  DEF EscrowInv, NumberedTransfers, OneVerdict, EscrowBacked

(* What crediting and refusing do to the set of credited transfers.        *)
LEMMA CreditAdds ==
    ASSUME NEW t, receipts' = receipts \cup {Credited(t)}
    PROVE  /\ CreditedTransfers' = CreditedTransfers \cup {t}
           /\ \A u : Refused(u) \in receipts' <=> Refused(u) \in receipts
<1>1. {q \in receipts' : q.credited} = {q \in receipts : q.credited} \cup {Credited(t)}
  BY DEF Credited
<1>2. CreditedTransfers' = CreditedTransfers \cup {Credited(t).transfer}
  BY <1>1 DEF CreditedTransfers
<1>3. Credited(t).transfer = t
  BY DEF Credited
<1>4. \A u : Refused(u) # Credited(t)
  BY DEF Refused, Credited
<1> QED
  BY <1>2, <1>3, <1>4

(* A refusal credits nothing.                                              *)
LEMMA RefuseAdds ==
    ASSUME NEW t, receipts' = receipts \cup {Refused(t)}
    PROVE  /\ CreditedTransfers' = CreditedTransfers
           /\ \A u : Refused(u) \in receipts' <=> Refused(u) \in receipts \/ u = t
<1>1. {q \in receipts' : q.credited} = {q \in receipts : q.credited}
  BY DEF Refused
<1>2. \A u : Refused(u) = Refused(t) <=> u = t
  BY DEF Refused
<1> QED
  BY <1>1, <1>2 DEF CreditedTransfers

(* A transfer is credited if its receipt says so.                          *)
LEMMA IsCredited ==
    ASSUME TransferInv, NEW t
    PROVE  t \in CreditedTransfers <=> Credited(t) \in receipts
<1>1. ASSUME Credited(t) \in receipts PROVE t \in CreditedTransfers
  <2>1. Credited(t).credited /\ Credited(t).transfer = t
    BY DEF Credited
  <2> QED
    BY <1>1, <2>1 DEF CreditedTransfers
<1>2. ASSUME t \in CreditedTransfers PROVE Credited(t) \in receipts
  <2>1. PICK r \in receipts : r.credited /\ r.transfer = t
    BY <1>2 DEF CreditedTransfers
  <2>2. r = Credited(t)
    BY <2>1 DEF TransferInv, Credited
  <2> QED
    BY <2>1, <2>2
<1> QED
  BY <1>1, <1>2

(* What is credited was a transfer.                                        *)
LEMMA CreditedTyped ==
    ASSUME TransferInv
    PROVE  CreditedTransfers \subseteq TransferPacket
  BY DEF TransferInv, CreditedTransfers

(* Every step keeps the escrow backed.                                     *)
LEMMA EscrowInvStep ==
    ASSUME IInv, TransferInv, EscrowInv, [AllNext]_allVars
    PROVE  EscrowInv'
<1> USE DEF EscrowInv
<1>1. /\ transfers \subseteq TransferPacket
      /\ CreditedTransfers \subseteq TransferPacket
      /\ nextTransfer \in Nat
      /\ coins \in [Senders \cup {SimpleIcaController, Escrow} -> Int]
  BY CreditedTyped DEF TransferInv
<1>2. \A t \in TransferPacket : t.seq \in Nat /\ t.amount \in Nat
  BY DEF TransferPacket
<1>3. /\ transfers \cup CreditedTransfers \in SUBSET TransferPacket
      /\ IsFiniteSet(transfers \cup CreditedTransfers)
  BY <1>1, FS_Union
<1>4. ASSUME UNCHANGED transferVars PROVE EscrowInv'
  BY <1>4 DEF transferVars, CreditedTransfers, NumberedTransfers, OneVerdict, EscrowBacked
<1>5. ASSUME NEW user \in Users, NEW c \in Channels, NEW amount \in 1 .. Purse,
             SendFunds(user, c, amount)
      PROVE  EscrowInv'
  <2>1. PICK t \in TransferPacket :
            t.seq = nextTransfer /\ t.amount = amount /\ transfers' = transfers \cup {t}
    BY <1>5, SendFundsSends
  <2>2. /\ coins' = [coins EXCEPT ![user] = @ - amount, ![Escrow] = @ + amount]
        /\ nextTransfer' = nextTransfer + 1
        /\ receipts' = receipts
    BY <1>5, SendFundsSends
  <2>3. CreditedTransfers' = CreditedTransfers
    BY <2>2 DEF CreditedTransfers
  <2>4. t \notin transfers \cup CreditedTransfers
    BY <1>1, <2>1 DEF NumberedTransfers
  <2>5. IsFiniteSet(transfers')
    BY <2>1, FS_AddElement
  <2>6. NumberedTransfers'
    BY <1>1, <1>2, <2>1, <2>2, <2>3 DEF NumberedTransfers
  <2>7. OneVerdict'
    BY <2>2, <2>3 DEF OneVerdict
  <2>8. coins'[Escrow] = coins[Escrow] + amount
    BY <1>1, <2>2, TransferAssumption DEF Users
  <2>9. Amounts((transfers \cup CreditedTransfers) \cup {t})
            = Amounts(transfers \cup CreditedTransfers) + amount
    BY <1>3, <2>1, <2>4, AmountsAdd
  <2>10. (transfers \cup CreditedTransfers)' = (transfers \cup CreditedTransfers) \cup {t}
    BY <2>1, <2>3
  <2>11. EscrowBacked'
    BY <2>8, <2>9, <2>10 DEF EscrowBacked
  <2> QED
    BY <2>3, <2>5, <2>6, <2>7, <2>11
<1>6. ASSUME NEW t \in transfers, Credit(t) PROVE EscrowInv'
  <2>1. /\ UNCHANGED <<coins, nextTransfer, transfers>>
        /\ receipts' = receipts \cup {Credited(t)}
        /\ ~Arrived(t)
    BY <1>6 DEF Credit, CreditTransfer, CanArrive
  <2>2. /\ CreditedTransfers' = CreditedTransfers \cup {t}
        /\ \A u : Refused(u) \in receipts' <=> Refused(u) \in receipts
    BY <2>1, CreditAdds
  <2>3. (transfers \cup CreditedTransfers)' = transfers \cup CreditedTransfers
    BY <2>1, <2>2
  <2>4. OneVerdict'
    BY <2>1, <2>2 DEF OneVerdict, Arrived
  <2>5. IsFiniteSet(CreditedTransfers')
    BY <2>2, FS_AddElement
  <2> QED
    BY <2>1, <2>3, <2>4, <2>5 DEF NumberedTransfers, EscrowBacked
<1>7. ASSUME NEW t \in transfers, Refuse(t) PROVE EscrowInv'
  <2>1. /\ UNCHANGED <<coins, nextTransfer, transfers>>
        /\ receipts' = receipts \cup {Refused(t)}
        /\ ~Arrived(t)
    BY <1>7 DEF Refuse, RefuseTransfer, CanArrive
  <2>2. /\ CreditedTransfers' = CreditedTransfers
        /\ \A u : Refused(u) \in receipts' <=> Refused(u) \in receipts \/ u = t
    BY <2>1, RefuseAdds
  <2>3. t \notin CreditedTransfers
    BY <2>1, IsCredited DEF Arrived
  <2> QED
    BY <2>1, <2>2, <2>3 DEF NumberedTransfers, OneVerdict, EscrowBacked
<1>8. ASSUME NEW t \in transfers, SettleTransfer(t) PROVE EscrowInv'
  <2>1. /\ transfers' = transfers \ {t}
        /\ UNCHANGED <<nextTransfer, receipts>>
        /\ \/ t \in CreditedTransfers /\ coins' = coins
           \/ t \notin CreditedTransfers /\ Refund(t)
    BY <1>8, IsCredited DEF SettleTransfer, AcknowledgeTransfer, TimeoutTransfer, Arrived,
       OneVerdict
  <2>2. CreditedTransfers' = CreditedTransfers
    BY <2>1 DEF CreditedTransfers
  <2>3. IsFiniteSet(transfers')
    BY <2>1, FS_RemoveElement
  <2>4. NumberedTransfers' /\ OneVerdict'
    BY <2>1, <2>2 DEF NumberedTransfers, OneVerdict
  <2>5. CASE t \in CreditedTransfers /\ coins' = coins
    <3>1. (transfers \cup CreditedTransfers)' = transfers \cup CreditedTransfers
      BY <2>1, <2>2, <2>5
    <3>2. EscrowBacked'
      BY <2>5, <3>1 DEF EscrowBacked
    <3> QED
      BY <2>2, <2>3, <2>4, <3>2
  <2>6. CASE t \notin CreditedTransfers /\ Refund(t)
    <3> DEFINE ts == (transfers \cup CreditedTransfers)'
    <3>1. /\ transfers \cup CreditedTransfers = ts \cup {t}
          /\ t \notin ts
      BY <2>1, <2>2, <2>6
    <3>2. ts \in SUBSET TransferPacket /\ IsFiniteSet(ts)
      BY <1>3, <2>1, <2>2, FS_Subset
    <3>3. t \in TransferPacket /\ t.amount \in Nat
      BY <1>1, <1>2
    <3>4. coins'[Escrow] = coins[Escrow] - t.amount
      BY <1>1, <2>6, TransferAssumption DEF Refund
    <3> HIDE DEF ts
    <3>5. Amounts(ts \cup {t}) = Amounts(ts) + t.amount /\ Amounts(ts) \in Nat
      BY <3>1, <3>2, <3>3, AmountsAdd, AmountsTyped
    <3>6. coins'[Escrow] = Amounts(ts)
      BY <3>1, <3>3, <3>4, <3>5 DEF EscrowBacked
    <3>7. EscrowBacked'
      BY <3>6 DEF EscrowBacked, ts
    <3> QED
      BY <2>2, <2>3, <2>4, <3>7
  <2> QED
    BY <2>1, <2>5, <2>6
<1> QED
  BY <1>4, <1>5, <1>6, <1>7, <1>8 DEF AllNext, allVars, CapturerSendFunds

(* The escrow's invariant holds throughout.                                *)
LEMMA EscrowInductive == AllSpec => [](IInv /\ TransferInv /\ EscrowInv)
<1>1. AllInit => EscrowInv
  BY EscrowInvInit
<1>2. IInv /\ TransferInv /\ EscrowInv /\ [AllNext]_allVars => EscrowInv'
  BY EscrowInvStep
<1> QED
  BY <1>1, <1>2, AllInductive, PTL DEF AllSpec

-----------------------------------------------------------------------------
(* Nobody's holdings go below zero: a sender's because the call that takes *)
(* the coins fails without them, the escrow's because it covers what is    *)
(* refunded.                                                               *)

Solvent == coins \in [Senders \cup {SimpleIcaController, Escrow} -> Nat]

(* A transfer under way can be refunded from the escrow.                   *)
LEMMA RefundCovered ==
    ASSUME TransferInv, EscrowInv, NEW t \in transfers
    PROVE  t.amount \in Nat /\ coins[Escrow] >= t.amount
<1> DEFINE ts == transfers \cup CreditedTransfers
<1>1. t \in TransferPacket /\ t.amount \in Nat
  BY DEF TransferInv, TransferPacket
<1>2. ts \in SUBSET TransferPacket /\ IsFiniteSet(ts)
  BY CreditedTyped, FS_Union DEF TransferInv, EscrowInv
<1>3. /\ ts \ {t} \in SUBSET TransferPacket
      /\ IsFiniteSet(ts \ {t})
      /\ t \notin ts \ {t}
  BY <1>2, FS_RemoveElement
<1>4. Amounts((ts \ {t}) \cup {t}) = Amounts(ts \ {t}) + t.amount
  BY <1>1, <1>3, AmountsAdd
<1>5. (ts \ {t}) \cup {t} = ts
  OBVIOUS
<1>6. Amounts(ts \ {t}) \in Nat
  BY <1>3, AmountsTyped
<1>7. coins[Escrow] = Amounts(ts)
  BY DEF EscrowInv, EscrowBacked
<1>8. coins[Escrow] = Amounts(ts \ {t}) + t.amount
  BY <1>4, <1>5, <1>7
<1> QED
  BY <1>1, <1>6, <1>8

(* No step makes anybody's coins negative.                                 *)
LEMMA SolventStep ==
    ASSUME IInv, TransferInv, EscrowInv, Solvent, [AllNext]_allVars
    PROVE  Solvent'
<1> USE DEF Solvent
<1>1. ASSUME coins' = coins PROVE Solvent'
  BY <1>1
<1>2. ASSUME NEW user \in Users, NEW c \in Channels, NEW amount \in 1 .. Purse,
             SendFunds(user, c, amount)
      PROVE  Solvent'
  <2>1. /\ coins[user] >= amount
        /\ coins' = [coins EXCEPT ![user] = @ - amount, ![Escrow] = @ + amount]
    BY <1>2, SendFundsSends
  <2>2. user \in Senders /\ user # Escrow /\ amount \in Nat
    BY TransferAssumption DEF Users
  <2> QED
    BY <2>1, <2>2
<1>3. ASSUME NEW t \in transfers, SettleTransfer(t) PROVE Solvent'
  <2>1. coins' = coins \/ Refund(t)
    BY <1>3 DEF SettleTransfer, AcknowledgeTransfer, TimeoutTransfer
  <2>2. t.amount \in Nat /\ coins[Escrow] >= t.amount
    BY RefundCovered
  <2> QED
    BY <2>1, <2>2, TransferAssumption DEF Refund
<1>4. ASSUME NEW t \in transfers, Credit(t) \/ Refuse(t) PROVE coins' = coins
  BY <1>4 DEF Credit, CreditTransfer, Refuse, RefuseTransfer
<1> QED
  BY <1>1, <1>2, <1>3, <1>4 DEF AllNext, allVars, transferVars, CapturerSendFunds

(* Every variable keeps its type; for the coins that is the fact that a    *)
(* refund never finds the escrow short.                                    *)
THEOREM AllTyped == AllSpec => []AllTypeOK
<1>1. AllInit => Solvent
  BY TransferAssumption DEF AllInit, TransferInit, Solvent
<1>2. IInv /\ TransferInv /\ EscrowInv /\ Solvent /\ [AllNext]_allVars => Solvent'
  BY SolventStep
<1>3. IInv /\ TransferInv /\ Solvent => AllTypeOK
  BY DEF IInv, TypeInv, TransferInv, Solvent, AllTypeOK, TransferTypeOK
<1> QED
  BY <1>1, <1>2, <1>3, EscrowInductive, PTL DEF AllSpec

-----------------------------------------------------------------------------
(* The accounts.                                                           *)

SpendersOwned ==
    \A w \in acks : Spends(w) => \E a \in Addrs : owner[a] = w.packet.chan

LedgerInv ==
    /\ IsFiniteSet(acks)
    /\ SpendersOwned
    /\ AccountLedger

Spent(a) == IF owner[a] = None THEN 0 ELSE TotalSpent(SpendsOn(owner[a]))

BroughtTo(a) == {t \in CreditedTransfers : t.to = a}

(* A step of either chain other than a transfer: what leaves an account is *)
(* what its channel's dispatches have spent more.                          *)
LevelFor(a) == balance'[a] + Spent(a)' = balance[a] + Spent(a)

AcksKept ==
    /\ IsFiniteSet(acks')
    /\ SpendersOwned'
    /\ \A a \in Addrs : LevelFor(a)

(* The variables that the ledger is about.                                 *)
LEMMA AckTypes ==
    ASSUME IInv
    PROVE  /\ acks \subseteq Answers
           /\ owner \in [Addrs -> Channels \cup {None}]
           /\ hostAccounts \in [Channels -> Addrs \cup {None}]
           /\ balance \in [Addrs \cup {HostAddr} -> Nat]
           /\ \A p \in commitments : p \in Packet /\ p.chan \in Channels
  BY DEF IInv, TypeInv, TypeOK, IbcTypeOK, HostTypeOK, Cw1TypeOK, Answers, Packet

(* Making an instance spends nothing: no dispatch on its channel can have  *)
(* succeeded before.                                                       *)
LEMMA HostConnectsLevel ==
    ASSUME IInv, LedgerInv, NEW c \in Channels, HostConnects(c)
    PROVE  AcksKept
<1> USE DEF LedgerInv
<1>1. /\ acks \subseteq Answers
      /\ owner \in [Addrs -> Channels \cup {None}]
      /\ balance \in [Addrs \cup {HostAddr} -> Nat]
  BY AckTypes
<1>2. acks' = acks /\ balance' = balance
  BY DEF HostConnects
<1>3. PICK b \in Addrs : owner[b] = None /\ owner' = [owner EXCEPT ![b] = c]
  BY DEF HostConnects
<1>4. \A a \in Addrs : owner[a] # c
  BY DEF HostConnects
<1>5. \A d : SpendsOn(d)' = SpendsOn(d)
  BY <1>2 DEF SpendsOn
<1>6. SpendsOn(c) = {}
  BY <1>4 DEF SpendersOwned, SpendsOn
<1>7. \A d : TotalSpent(SpendsOn(d)') = TotalSpent(SpendsOn(d))
  BY <1>5
<1>8. TotalSpent(SpendsOn(c)) = 0
  BY <1>6, SpentNone
<1>9. ASSUME NEW a \in Addrs PROVE LevelFor(a)
  <2>1. CASE a = b
    <3>1. Spent(a) = 0
      BY <1>3, <2>1 DEF Spent
    <3>2. owner'[a] = c /\ c # None
      BY <1>1, <1>3, <2>1, NoneAssumption
    <3>3. Spent(a)' = 0
      BY <1>7, <1>8, <3>2 DEF Spent
    <3> QED
      BY <1>2, <3>1, <3>3 DEF LevelFor
  <2>2. CASE a # b
    <3>1. owner'[a] = owner[a]
      BY <1>3, <2>2
    <3>2. Spent(a)' = Spent(a)
      BY <1>7, <3>1 DEF Spent
    <3> QED
      BY <1>2, <3>2 DEF LevelFor
  <2> QED
    BY <2>1, <2>2
<1>10. SpendersOwned'
  <2>1. \A a \in Addrs : owner[a] # None => owner'[a] = owner[a]
    BY <1>1, <1>3
  <2>2. \A w \in acks : w.packet.chan # None
    BY <1>1, NoneAssumption DEF Answers, Packet
  <2> QED
    BY <1>2, <2>1, <2>2 DEF SpendersOwned, Spends
<1> QED
  BY <1>2, <1>9, <1>10 DEF AcksKept

(* Receiving a packet either spends its batch from the account listed for  *)
(* its channel and says so, or moves nothing.                              *)
LEMMA ReceiptSpends ==
    ASSUME IInv, NEW p \in commitments, RecvPacket(p)
    PROVE  \E w \in Answers :
              /\ w.packet = p
              /\ w \notin acks
              /\ acks' = acks \cup {w}
              /\ \/ balance' = balance /\ ~Spends(w)
                 \/ /\ Spends(w)
                    /\ hostAccounts[p.chan] # None
                    /\ Covers(hostAccounts[p.chan], p.data.batch)
                    /\ Spend(hostAccounts[p.chan], p.data.batch)
<1>1. acks' \subseteq Answers
  <2>1. TypeInv'
    BY IInvStep DEF IInv, Next, HostChainNext
  <2> QED
    BY <2>1 DEF TypeInv, TypeOK, IbcTypeOK, Answers
<1> DEFINE Written(ack) == [packet |-> p, ack |-> ack]
<1>2. \A ack : Written(ack) \notin acks
  BY DEF RecvPacket, CanReceive, Received
<1>3. \A ack : Written(ack).packet = p /\ Written(ack).ack = ack
  OBVIOUS
<1>4. CASE p.data.type = "dispatch" /\ ReceiveDispatch(p)
  <2>1. CASE hostAccounts[p.chan] # None /\ Covers(hostAccounts[p.chan], p.data.batch)
    <3>1. acks' = acks \cup {Written(DispatchAck)} /\ Spend(hostAccounts[p.chan], p.data.batch)
      BY <1>4, <2>1 DEF ReceiveDispatch, WriteAck
    <3>2. Spends(Written(DispatchAck))
      BY <1>3, <1>4 DEF Spends, IsSuccess, DispatchAck, Success
    <3>3. Written(DispatchAck) \in Answers
      BY <1>1, <3>1
    <3> QED
      BY <1>2, <1>3, <2>1, <3>1, <3>2, <3>3
  <2>2. CASE ~(hostAccounts[p.chan] # None /\ Covers(hostAccounts[p.chan], p.data.batch))
    <3>1. acks' = acks \cup {Written(Fail)} /\ balance' = balance
      BY <1>4, <2>2 DEF ReceiveDispatch, WriteAck
    <3>2. ~Spends(Written(Fail))
      BY <1>3 DEF Spends, IsSuccess, Fail
    <3>3. Written(Fail) \in Answers
      BY <1>1, <3>1
    <3> QED
      BY <1>2, <1>3, <3>1, <3>2, <3>3
  <2> QED
    BY <2>1, <2>2
<1>5. CASE p.data.type # "dispatch"
  <2>1. PICK ack : acks' = acks \cup {Written(ack)} /\ balance' = balance
    BY <1>5
    DEF RecvPacket, HostPacketReceive, ReceiveQuery, ReceiveWhoAmI, ReceiveBalances,
        WriteAck, cw1Vars
  <2>2. ~Spends(Written(ack))
    BY <1>3, <1>5 DEF Spends
  <2>3. Written(ack) \in Answers
    BY <1>1, <2>1
  <2> QED
    BY <1>2, <1>3, <2>1, <2>2, <2>3
<1> QED
  BY <1>4, <1>5 DEF RecvPacket, HostPacketReceive

(* What a receipt takes from an account is what its answer adds to the     *)
(* dispatches of the account's channel, and of no other account's.         *)
LEMMA ReceiptLevel ==
    ASSUME IInv, LedgerInv, NEW p \in commitments, RecvPacket(p)
    PROVE  AcksKept
<1> USE DEF LedgerInv
<1>1. /\ acks \subseteq Answers
      /\ owner \in [Addrs -> Channels \cup {None}]
      /\ hostAccounts \in [Channels -> Addrs \cup {None}]
      /\ balance \in [Addrs \cup {HostAddr} -> Nat]
      /\ p \in Packet
      /\ p.chan \in Channels
  BY AckTypes
<1>2. owner' = owner
  BY ReceiptWrites
<1>3. PICK w \in Answers :
          /\ w.packet = p
          /\ w \notin acks
          /\ acks' = acks \cup {w}
          /\ \/ balance' = balance /\ ~Spends(w)
             \/ /\ Spends(w)
                /\ hostAccounts[p.chan] # None
                /\ Covers(hostAccounts[p.chan], p.data.batch)
                /\ Spend(hostAccounts[p.chan], p.data.batch)
  BY ReceiptSpends
<1>4. IsFiniteSet(acks')
  BY <1>3, FS_AddElement
<1>5. CASE balance' = balance /\ ~Spends(w)
  <2>1. \A d : SpendsOn(d)' = SpendsOn(d)
    BY <1>3, <1>5 DEF SpendsOn
  <2>2. \A a \in Addrs : LevelFor(a)
    BY <1>2, <1>5, <2>1 DEF LevelFor, Spent
  <2>3. SpendersOwned'
    BY <1>2, <1>3, <1>5 DEF SpendersOwned
  <2> QED
    BY <1>4, <2>2, <2>3 DEF AcksKept
<1>6. CASE /\ Spends(w)
           /\ hostAccounts[p.chan] # None
           /\ Covers(hostAccounts[p.chan], p.data.batch)
           /\ Spend(hostAccounts[p.chan], p.data.batch)
  <2> DEFINE b == hostAccounts[p.chan]
  <2>1. b \in Addrs /\ owner[b] = p.chan
    BY <1>1, <1>6 DEF IInv, HostOwned
  <2>2. p.data.batch.total \in Nat
    BY <1>1, <1>3, <1>6, TotalOfDispatch DEF Spends
  <2>3. balance' = [balance EXCEPT ![b] = @ - p.data.batch.total]
    BY <1>6 DEF Spend
  <2> HIDE DEF b
  <2>4. SpendersOwned'
    BY <1>2, <1>3, <2>1 DEF SpendersOwned
  <2>5. ASSUME NEW a \in Addrs PROVE LevelFor(a)
    <3>1. CASE a = b
      <4>1. SpendsOn(p.chan)' = SpendsOn(p.chan) \cup {w}
        BY <1>3, <1>6 DEF SpendsOn
      <4>2. /\ SpendsOn(p.chan) \in SUBSET Answers
            /\ IsFiniteSet(SpendsOn(p.chan))
            /\ \A v \in SpendsOn(p.chan) : Spends(v)
            /\ w \notin SpendsOn(p.chan)
        BY <1>1, <1>3, FS_Subset DEF SpendsOn
      <4>3. /\ TotalSpent(SpendsOn(p.chan)) \in Nat
            /\ TotalSpent(SpendsOn(p.chan) \cup {w})
                  = TotalSpent(SpendsOn(p.chan)) + p.data.batch.total
        BY <1>3, <1>6, <4>2, SpentAdd
      <4>4. Spent(a) = TotalSpent(SpendsOn(p.chan))
        BY <1>1, <2>1, <3>1, NoneAssumption DEF Spent
      <4>5. Spent(a)' = TotalSpent(SpendsOn(p.chan) \cup {w})
        BY <1>1, <1>2, <2>1, <3>1, <4>1, NoneAssumption DEF Spent
      <4>6. balance'[a] = balance[a] - p.data.batch.total /\ balance[a] \in Nat
        BY <1>1, <2>1, <2>3, <3>1
      <4> QED
        BY <2>2, <4>3, <4>4, <4>5, <4>6 DEF LevelFor
    <3>2. CASE a # b
      <4>1. owner[a] # p.chan
        BY <1>1, <2>1, <3>2, NoneAssumption DEF IInv, OneInstance
      <4>2. SpendsOn(owner[a])' = SpendsOn(owner[a])
        BY <1>2, <1>3, <4>1 DEF SpendsOn
      <4>3. balance'[a] = balance[a]
        BY <1>1, <2>3, <3>2
      <4> QED
        BY <1>2, <4>2, <4>3 DEF LevelFor, Spent
    <3> QED
      BY <3>1, <3>2
  <2> QED
    BY <1>4, <2>4, <2>5 DEF AcksKept
<1> QED
  BY <1>3, <1>5, <1>6

(* Every step of the two chains that is not a transfer.                    *)
LEMMA ChainLevel ==
    ASSUME IInv, LedgerInv, CtrlChainNext \/ HostChainNext \/ UNCHANGED vars
    PROVE  AcksKept
<1>1. ASSUME UNCHANGED <<acks, owner, balance>> PROVE AcksKept
  <2>1. \A d : SpendsOn(d)' = SpendsOn(d)
    BY <1>1 DEF SpendsOn
  <2> QED
    BY <1>1, <2>1 DEF AcksKept, LedgerInv, SpendersOwned, LevelFor, Spent
<1>2. ASSUME \/ \E c \in Channels, data \in PacketMsg, t \in Nat : Sends(c, data, t)
             \/ \E w \in acks : AckPacket(w)
             \/ \E p \in commitments : TimeoutPacket(p)
             \/ \E user \in Users, b \in Senders : UpdateAdmin(user, b)
             \/ \E c \in Channels : CtrlForgets(c)
             \/ Quiet
      PROVE  UNCHANGED <<acks, owner, balance>>
  BY <1>2
  DEF Sends, AckPacket, TimeoutPacket, UpdateAdmin, CtrlForgets, Quiet, hostVars, cw1Vars,
      ibcVars
<1> QED
  BY <1>1, <1>2, ChainStepKinds, HostConnectsLevel, ReceiptLevel DEF ChainKinds

(* A credited transfer is new to the account it is paid to.                *)
LEMMA CreditBrings ==
    ASSUME IInv, TransferInv, EscrowInv, LedgerInv, NEW t \in transfers, Credit(t),
           NEW a \in Addrs
    PROVE  Amounts(BroughtTo(a)') = balance'[a] + Spent(a)'
<1>1. /\ UNCHANGED <<acks, owner>>
      /\ balance' = [balance EXCEPT ![t.to] = @ + t.amount]
      /\ receipts' = receipts \cup {Credited(t)}
      /\ ~Arrived(t)
  BY DEF Credit, CreditTransfer, CanArrive, ibcVars
<1>2. /\ t \in TransferPacket
      /\ t.to \in Addrs
      /\ t.amount \in Nat
  BY DEF TransferInv, TransferPacket
<1>3. balance \in [Addrs \cup {HostAddr} -> Nat]
  BY AckTypes
<1>4. Spent(a)' = Spent(a)
  <2>1. \A d : SpendsOn(d)' = SpendsOn(d)
    BY <1>1 DEF SpendsOn
  <2> QED
    BY <1>1, <2>1 DEF Spent
<1>5. CreditedTransfers' = CreditedTransfers \cup {t} /\ t \notin CreditedTransfers
  BY <1>1, CreditAdds, IsCredited DEF Arrived
<1>6. Amounts(BroughtTo(a)) = balance[a] + Spent(a)
  BY DEF LedgerInv, AccountLedger, BroughtTo, Spent
<1>7. /\ BroughtTo(a) \in SUBSET TransferPacket
      /\ IsFiniteSet(BroughtTo(a))
      /\ t \notin BroughtTo(a)
  BY <1>5, CreditedTyped, FS_Subset DEF BroughtTo, EscrowInv
<1>8. CASE t.to = a
  <2>1. BroughtTo(a)' = BroughtTo(a) \cup {t}
    BY <1>5, <1>8 DEF BroughtTo
  <2>2. /\ Amounts(BroughtTo(a) \cup {t}) = Amounts(BroughtTo(a)) + t.amount
        /\ Amounts(BroughtTo(a)) \in Nat
    BY <1>2, <1>7, AmountsAdd, AmountsTyped
  <2>3. balance'[a] = balance[a] + t.amount /\ balance[a] \in Nat
    BY <1>1, <1>2, <1>3, <1>8
  <2>4. Spent(a) \in Nat
    <3>1. /\ acks \subseteq Answers
          /\ IsFiniteSet(acks)
      BY AckTypes DEF LedgerInv
    <3> QED
      BY <3>1, SpentTyped DEF Spent
  <2> QED
    BY <1>2, <1>4, <1>6, <2>1, <2>2, <2>3, <2>4
<1>9. CASE t.to # a
  <2>1. BroughtTo(a)' = BroughtTo(a)
    BY <1>5, <1>9 DEF BroughtTo
  <2>2. balance'[a] = balance[a]
    BY <1>1, <1>2, <1>3, <1>9
  <2> QED
    BY <1>4, <1>6, <2>1, <2>2
<1> QED
  BY <1>8, <1>9

(* Every step keeps the ledger.                                            *)
LEMMA LedgerInvStep ==
    ASSUME IInv, TransferInv, EscrowInv, LedgerInv, [AllNext]_allVars
    PROVE  LedgerInv'
<1>1. ASSUME CtrlChainNext \/ HostChainNext \/ UNCHANGED vars,
             CreditedTransfers' = CreditedTransfers
      PROVE  LedgerInv'
  <2>1. AcksKept
    BY <1>1, ChainLevel
  <2>2. ASSUME NEW a \in Addrs
        PROVE  Amounts(BroughtTo(a)') = balance'[a] + Spent(a)'
    <3>1. BroughtTo(a)' = BroughtTo(a)
      BY <1>1 DEF BroughtTo
    <3>2. Amounts(BroughtTo(a)) = balance[a] + Spent(a)
      BY DEF LedgerInv, AccountLedger, BroughtTo, Spent
    <3>3. balance'[a] + Spent(a)' = balance[a] + Spent(a)
      BY <2>1 DEF AcksKept, LevelFor
    <3> QED
      BY <3>1, <3>2, <3>3
  <2>3. AccountLedger'
    BY <2>2 DEF AccountLedger, BroughtTo, Spent
  <2> QED
    BY <2>1, <2>3 DEF AcksKept, LedgerInv
<1>2. ASSUME UNCHANGED transferVars PROVE CreditedTransfers' = CreditedTransfers
  BY <1>2 DEF transferVars, CreditedTransfers
<1>3. ASSUME NEW user \in Users, NEW c \in Channels, NEW amount \in 1 .. Purse,
             SendFunds(user, c, amount)
      PROVE  UNCHANGED vars /\ CreditedTransfers' = CreditedTransfers
  <2>1. UNCHANGED vars
    BY <1>3 DEF SendFunds
  <2>2. receipts' = receipts
    BY <1>3, SendFundsSends
  <2> QED
    BY <2>1, <2>2 DEF CreditedTransfers
<1>4. ASSUME NEW t \in transfers, Refuse(t)
      PROVE  UNCHANGED vars /\ CreditedTransfers' = CreditedTransfers
  <2>1. UNCHANGED vars /\ receipts' = receipts \cup {Refused(t)}
    BY <1>4 DEF Refuse, RefuseTransfer, vars, hostVars, cw1Vars
  <2> QED
    BY <2>1, RefuseAdds
<1>5. ASSUME NEW t \in transfers, SettleTransfer(t)
      PROVE  UNCHANGED vars /\ CreditedTransfers' = CreditedTransfers
  BY <1>5
  DEF SettleTransfer, AcknowledgeTransfer, TimeoutTransfer, CreditedTransfers
<1>6. ASSUME NEW t \in transfers, Credit(t) PROVE LedgerInv'
  <2>1. UNCHANGED <<acks, owner>>
    BY <1>6 DEF Credit, CreditTransfer, ibcVars
  <2>2. AccountLedger'
    BY <1>6, CreditBrings DEF AccountLedger, BroughtTo, Spent
  <2> QED
    BY <2>1, <2>2 DEF LedgerInv, SpendersOwned
<1> QED
  BY <1>1, <1>2, <1>3, <1>4, <1>5, <1>6 DEF AllNext, allVars, CapturerSendFunds

(* At the start no account holds or has spent anything.                    *)
LEMMA LedgerInvInit == AllInit => LedgerInv
<1> SUFFICES ASSUME AllInit PROVE LedgerInv
  OBVIOUS
<1>1. acks = {} /\ CreditedTransfers = {}
  BY DEF AllInit, Init, IbcInit, TransferInit, CreditedTransfers
<1>2. ASSUME NEW a \in Addrs PROVE owner[a] = None /\ balance[a] = 0
  BY DEF AllInit, Init, Cw1Init
<1>3. \A a \in Addrs : BroughtTo(a) = {}
  BY <1>1 DEF BroughtTo
<1>4. ASSUME NEW a \in Addrs PROVE Amounts(BroughtTo(a)) = balance[a] + Spent(a)
  BY <1>2, <1>3, AmountsNone DEF Spent
<1>5. AccountLedger
  BY <1>4 DEF AccountLedger, BroughtTo, Spent
<1> QED
  BY <1>1, <1>5, FS_EmptySet DEF LedgerInv, SpendersOwned

(* What transfers brought to an account is in it or was taken out by a     *)
(* dispatch on its channel that was answered with success, closed or not   *)
(* (receive_dispatch and ibc_channel_close of the host).                   *)
THEOREM AccountsAddUp == AllSpec => []AccountLedger
<1>1. AllInit => LedgerInv
  BY LedgerInvInit
<1>2. IInv /\ TransferInv /\ EscrowInv /\ LedgerInv /\ [AllNext]_allVars => LedgerInv'
  BY LedgerInvStep
<1>3. LedgerInv => AccountLedger
  BY DEF LedgerInv
<1> QED
  BY <1>1, <1>2, <1>3, EscrowInductive, PTL DEF AllSpec
=============================================================================
