----------------------- MODULE MeasureTxPower_proofs -----------------------
(***************************************************************************)
(* What the rows of a measurement say, for every list of transaction       *)
(* counts, a chain of any height and any number of connection faults.      *)
(***************************************************************************)
EXTENDS MeasureTxPower, SequenceTheorems, FiniteSetTheorems, WellFoundedInduction, TLAPS

-----------------------------------------------------------------------------
(* Running totals.  TLAPS does not know what a recursive function computes:  *)
(* TotalsExist shows that the equation of InRange has a solution.            *)

(* Induction on the natural numbers, for a set in place of a predicate.      *)
LEMMA CountingUp ==
    ASSUME NEW Good, 0 \in Good, \A n \in Nat : n \in Good => n + 1 \in Good
    PROVE  Nat \subseteq Good
<1> DEFINE Bad == Nat \ Good
           Less == OpToRel(<, Nat)
<1>1. IsWellFoundedOn(Less, Nat)
  BY NatLessThanWellFounded
<1>2. Less = {ss \in Nat \X Nat : ss[1] < ss[2]}
  BY DEF OpToRel
<1> HIDE DEF Less
<1>3. ASSUME Bad # {} PROVE FALSE
  <2>1. PICK n \in Bad : \A m \in Bad : <<m, n>> \notin Less
    <3>1. Bad \subseteq Nat
      OBVIOUS
    <3> HIDE DEF Bad
    <3> QED
      BY <1>1, <1>3, <3>1, WFMin
  <2>2. n \in Nat /\ n \notin Good /\ n # 0
    OBVIOUS
  <2>3. n - 1 \in Nat /\ n = (n - 1) + 1
    BY <2>2
  <2>4. <<n - 1, n>> \in Less
    BY <1>2, <2>2, <2>3
  <2>5. n - 1 \in Good
    BY <2>1, <2>3, <2>4
  <2> QED
    BY <2>2, <2>3, <2>5
<1> QED
  BY <1>3

(* What the blocks after from hold, up to each block, without the unread.    *)
Part(counts, unread, b) == IF b \in unread THEN 0 ELSE counts[b]

Totals(counts, from, unread) ==
    CHOOSE f : f = [b \in 0..Len(counts) |->
        IF b <= from THEN 0 ELSE f[b - 1] + Part(counts, unread, b)]

CountedIn(counts, b) == Totals(counts, 0, {})[b]

LEMMA InRangeIsTotal == ASSUME NEW unread
                        PROVE  InRange(unread) = Totals(sizes, start_block, unread)[end_block]
  BY DEF InRange, Totals, Part

(* A function that obeys the equation up to n yields one that obeys it up to *)
(* n + 1.                                                                    *)
LEMMA TotalsExist ==
    ASSUME NEW counts \in Seq(Nat), NEW from \in Nat, NEW unread
    PROVE  /\ Totals(counts, from, unread) \in [0..Len(counts) -> Nat]
           /\ \A b \in 0..Len(counts) :
                /\ b <= from => Totals(counts, from, unread)[b] = 0
                /\ b > from => Totals(counts, from, unread)[b] =
                      Totals(counts, from, unread)[b - 1] + Part(counts, unread, b)
<1> DEFINE D == 0..Len(counts)
           F(g, b) == IF b <= from THEN 0 ELSE g[b - 1] + Part(counts, unread, b)
           Good == {n \in Nat : \E g \in [D -> Nat] : \A b \in D : b <= n => g[b] = F(g, b)}
<1>0. Len(counts) \in Nat
  OBVIOUS
<1>1. \A b \in D : b > from => b - 1 \in D /\ Part(counts, unread, b) \in Nat
  BY DEF Part
<1>2. ASSUME NEW g \in [D -> Nat], NEW b \in D PROVE F(g, b) \in Nat
  <2>1. CASE b <= from
    BY <2>1
  <2>2. CASE b > from
    <3>1. g[b - 1] \in Nat /\ Part(counts, unread, b) \in Nat
      BY <1>1, <2>2
    <3> QED
      BY <2>2, <3>1
  <2> QED
    BY <2>1, <2>2
<1>3. 0 \in Good
  <2> DEFINE g == [b \in D |-> 0]
  <2>1. \A b \in D : b <= 0 => g[b] = F(g, b)
    OBVIOUS
  <2> QED
    BY <2>1
<1>4. ASSUME NEW n \in Nat, n \in Good PROVE n + 1 \in Good
  <2>1. PICK g \in [D -> Nat] : \A b \in D : b <= n => g[b] = F(g, b)
    BY <1>4
  <2> DEFINE h == [b \in D |-> F(g, b)]
  <2>2. h \in [D -> Nat]
    BY <1>2
  <2>3. ASSUME NEW b \in D, b <= n + 1 PROVE h[b] = F(h, b)
    <3>1. CASE b <= from
      BY <3>1
    <3>2. CASE b > from
      <4>1. b - 1 \in D /\ b - 1 <= n
        BY <1>1, <2>3, <3>2
      <4>2. h[b - 1] = g[b - 1]
        BY <2>1, <4>1
      <4>3. h[b] = F(g, b)
        OBVIOUS
      <4> QED
        BY <3>2, <4>2, <4>3
    <3> QED
      BY <3>1, <3>2
  <2> HIDE DEF h
  <2> QED
    BY <2>2, <2>3
<1>5. PICK g \in [D -> Nat] : \A b \in D : g[b] = F(g, b)
  <2>1. Len(counts) \in Good
    <3> HIDE DEF Good
    <3> QED
      BY <1>0, <1>3, <1>4, CountingUp
  <2> QED
    BY <2>1
<1> DEFINE T == Totals(counts, from, unread)
<1>6. T = [b \in D |-> F(T, b)]
  <2>1. g = [b \in D |-> F(g, b)]
    BY <1>5
  <2> QED
    BY <2>1 DEF Totals
<1> HIDE DEF T
<1>7. \A b \in D : T[b] = F(T, b)
  BY <1>6
<1> DEFINE Typed == {n \in Nat : n \in D => T[n] \in Nat}
<1>8. 0 \in Typed
  BY <1>7
<1>9. ASSUME NEW n \in Nat, n \in Typed PROVE n + 1 \in Typed
  <2> SUFFICES ASSUME n + 1 \in D PROVE T[n + 1] \in Nat
    OBVIOUS
  <2>1. T[n + 1] = F(T, n + 1)
    BY <1>7
  <2>2. CASE n + 1 <= from
    BY <2>1, <2>2
  <2>3. CASE n + 1 > from
    <3>1. T[n] \in Nat /\ Part(counts, unread, n + 1) \in Nat /\ (n + 1) - 1 = n
      BY <1>0, <1>1, <1>9, <2>3
    <3> QED
      BY <2>1, <2>3, <3>1
  <2> QED
    BY <2>2, <2>3
<1>10. \A b \in D : T[b] \in Nat
  <2> HIDE DEF Typed
  <2>1. Nat \subseteq Typed
    BY <1>8, <1>9, CountingUp
  <2> QED
    BY <2>1 DEF Typed
<1>11. T \in [D -> Nat]
  BY <1>6, <1>10
<1>12. \A b \in D : (b <= from => T[b] = 0) /\ (b > from => T[b] = T[b - 1] + Part(counts, unread, b))
  BY <1>0, <1>7
<1> QED
  BY <1>11, <1>12 DEF T

(* The total of the whole chain. *)
LEMMA WholeTotal ==
    ASSUME NEW counts \in Seq(Nat)
    PROVE  /\ Totals(counts, 0, {}) \in [0..Len(counts) -> Nat]
           /\ Totals(counts, 0, {})[0] = 0
           /\ \A b \in 1..Len(counts) :
                Totals(counts, 0, {})[b] = Totals(counts, 0, {})[b - 1] + counts[b]
<1>1. Totals(counts, 0, {}) \in [0..Len(counts) -> Nat]
  BY TotalsExist
<1>2. Totals(counts, 0, {})[0] = 0
  <2>1. 0 \in 0..Len(counts) /\ 0 <= 0
    OBVIOUS
  <2> QED
    BY <2>1, TotalsExist
<1>3. ASSUME NEW b \in 1..Len(counts)
      PROVE  Totals(counts, 0, {})[b] = Totals(counts, 0, {})[b - 1] + counts[b]
  <2>1. b \in 0..Len(counts) /\ b > 0 /\ Part(counts, {}, b) = counts[b]
    BY DEF Part
  <2> QED
    BY <2>1, TotalsExist
<1> QED
  BY <1>1, <1>2, <1>3

(* What a range of blocks holds is what the chain counted over it, and no    *)
(* more when some of them are not read.                                      *)
LEMMA RangeTotal ==
    ASSUME NEW counts \in Seq(Nat), NEW from \in 0..Len(counts), NEW unread,
           NEW upto \in 0..Len(counts), from <= upto
    PROVE  /\ CountedIn(counts, from) \in Nat /\ CountedIn(counts, upto) \in Nat
           /\ Totals(counts, from, unread)[upto] \in Nat
           /\ Totals(counts, from, {})[upto] = CountedIn(counts, upto) - CountedIn(counts, from)
           /\ Totals(counts, from, unread)[upto] <= Totals(counts, from, {})[upto]
<1> DEFINE D == 0..Len(counts)
           W == Totals(counts, 0, {})
           A == Totals(counts, from, {})
           U == Totals(counts, from, unread)
           Good == {n \in Nat : from <= n /\ n <= Len(counts) =>
                                A[n] = W[n] - W[from] /\ U[n] <= A[n]}
<1>0. Len(counts) \in Nat /\ from \in Nat
  OBVIOUS
<1>1. /\ W \in [D -> Nat] /\ A \in [D -> Nat] /\ U \in [D -> Nat]
      /\ \A b \in D : /\ b > 0 => W[b] = W[b - 1] + counts[b]
                      /\ b <= from => A[b] = 0 /\ U[b] = 0
                      /\ b > from => /\ A[b] = A[b - 1] + counts[b]
                                     /\ U[b] = U[b - 1] + Part(counts, unread, b)
  <2>1. \A b : Part(counts, {}, b) = counts[b]
    BY DEF Part
  <2> QED
    BY <1>0, <2>1, TotalsExist
<1> HIDE DEF W, A, U
<1>2. 0 \in Good
  BY <1>0, <1>1
<1>3. ASSUME NEW n \in Nat, n \in Good PROVE n + 1 \in Good
  <2> SUFFICES ASSUME from <= n + 1, n + 1 <= Len(counts)
               PROVE  A[n + 1] = W[n + 1] - W[from] /\ U[n + 1] <= A[n + 1]
    OBVIOUS
  <2>0. n + 1 \in D /\ from \in D /\ W[from] \in Nat /\ W[n + 1] \in Nat
    <3>1. n + 1 \in D /\ from \in D
      BY <1>0
    <3> QED
      BY <1>1, <3>1
  <2>1. CASE from = n + 1
    BY <1>1, <2>0, <2>1
  <2>2. CASE from # n + 1
    <3>1. n \in D /\ from <= n /\ n + 1 > from /\ n + 1 > 0 /\ (n + 1) - 1 = n
      BY <1>0, <2>2
    <3>2. A[n] = W[n] - W[from] /\ U[n] <= A[n]
      BY <1>3, <3>1
    <3>3. /\ W[n + 1] = W[n] + counts[n + 1]
          /\ A[n + 1] = A[n] + counts[n + 1]
          /\ U[n + 1] = U[n] + Part(counts, unread, n + 1)
      BY <1>1, <2>0, <3>1
    <3>4. counts[n + 1] \in Nat
      <4>1. n + 1 \in 1..Len(counts)
        BY <2>0, <3>1
      <4> QED
        BY <4>1, ElementOfSeq
    <3>5. Part(counts, unread, n + 1) \in Nat /\ Part(counts, unread, n + 1) <= counts[n + 1]
      BY <3>4 DEF Part
    <3>6. W[n] \in Nat /\ A[n] \in Nat /\ U[n] \in Nat
      BY <1>1, <3>1
    <3>7. A[n + 1] = W[n + 1] - W[from]
      BY <2>0, <3>2, <3>3, <3>4, <3>6
    <3>8. U[n + 1] <= A[n + 1]
      BY <3>2, <3>3, <3>4, <3>5, <3>6
    <3> QED
      BY <3>7, <3>8
  <2> QED
    BY <2>1, <2>2
<1>4. upto \in Good
  <2>1. upto \in Nat
    OBVIOUS
  <2> HIDE DEF Good
  <2> QED
    BY <1>2, <1>3, <2>1, CountingUp
<1>5. A[upto] = W[upto] - W[from] /\ U[upto] <= A[upto]
  BY <1>0, <1>4
<1>6. W[from] \in Nat /\ W[upto] \in Nat /\ U[upto] \in Nat
  BY <1>1
<1> QED
  BY <1>5, <1>6 DEF W, A, U, CountedIn

(* A new block leaves what was counted before it, and adds its transfers.    *)
LEMMA CountedAfterAppend ==
    ASSUME NEW counts \in Seq(Nat), NEW x \in Nat
    PROVE  /\ \A b \in 0..Len(counts) : CountedIn(Append(counts, x), b) = CountedIn(counts, b)
           /\ CountedIn(Append(counts, x), Len(counts) + 1) = CountedIn(counts, Len(counts)) + x
<1> DEFINE longer == Append(counts, x)
           W == Totals(counts, 0, {})
           V == Totals(longer, 0, {})
           Good == {n \in Nat : n <= Len(counts) => V[n] = W[n]}
<1>0. /\ Len(counts) \in Nat /\ longer \in Seq(Nat) /\ Len(longer) = Len(counts) + 1
      /\ \A b \in 1..Len(counts) : longer[b] = counts[b]
      /\ longer[Len(counts) + 1] = x
  OBVIOUS
<1> HIDE DEF longer
<1>1. /\ W \in [0..Len(counts) -> Nat] /\ W[0] = 0 /\ V[0] = 0
      /\ \A b \in 1..Len(counts) : W[b] = W[b - 1] + counts[b]
      /\ \A b \in 1..Len(longer) : V[b] = V[b - 1] + longer[b]
  BY <1>0, WholeTotal
<1> HIDE DEF W, V
<1>2. 0 \in Good
  BY <1>1
<1>3. ASSUME NEW n \in Nat, n \in Good PROVE n + 1 \in Good
  <2> SUFFICES ASSUME n + 1 <= Len(counts) PROVE V[n + 1] = W[n + 1]
    OBVIOUS
  <2>1. V[n] = W[n] /\ (n + 1) - 1 = n /\ n + 1 \in 1..Len(counts) /\ n + 1 \in 1..Len(longer)
    BY <1>0, <1>3
  <2> QED
    BY <1>0, <1>1, <2>1
<1>4. \A b \in 0..Len(counts) : V[b] = W[b]
  <2> HIDE DEF Good
  <2>1. Nat \subseteq Good
    BY <1>2, <1>3, CountingUp
  <2> QED
    BY <1>0, <2>1 DEF Good
<1>5. V[Len(counts) + 1] = V[Len(counts)] + x
  BY <1>0, <1>1
<1>6. V[Len(counts)] = W[Len(counts)]
  BY <1>0, <1>4
<1> QED
  BY <1>4, <1>5, <1>6 DEF V, W, CountedIn, longer

LEMMA NothingCounted == CountedIn(<<>>, 0) = 0
<1>1. <<>> \in Seq(Nat)
  OBVIOUS
<1> QED
  BY <1>1, WholeTotal DEF CountedIn

-----------------------------------------------------------------------------
(* The inductive invariant.                                                  *)

(* The numbers of transfers sent and included, and what the chain counted up *)
(* to a block.                                                               *)
sent(s) == nonce[s] + Cardinality(pooled[s])
all_sent == sent(Alice) + sent(Bob)
included == nonce[Alice] + nonce[Bob]
Counted(b) == CountedIn(sizes, b)

InRun == pc \in {"read_alice", "read_bob", "inject", "wait", "end", "report"}

(* Did the run before this one see its transfers included? *)
PrevCleared == results = <<>> \/ results[Len(results)].cleared

Row == [tx_count : Nat \ {0}, actual_extrinsics : Nat, start_block : 0..MaxHeight,
        end_block : 0..MaxHeight, cleared : BOOLEAN, complete : BOOLEAN]

MeasureType ==
    /\ MeasureTypeOK
    /\ results \in Seq(Row)
    /\ pc = "start" \/ InRun => Len(results) < Len(TxCounts)
    /\ InRun => i <= tx_count

(* The pool holds what follows the on-chain nonce, without a gap, and a      *)
(* counter of the script never runs ahead of what it has sent.  A fault      *)
(* while submitting ends the script, so it leaves no later transfer behind.  *)
PoolGapless ==
    \A s \in Senders : /\ sent(s) \in Nat
                       /\ pooled[s] = nonce[s]..(sent(s) - 1)
                       /\ next[s] <= sent(s)

(* Where a run stands: what was sent before it is included no later than its *)
(* start block only if the run before saw it included.                       *)
RunCounts ==
    /\ start_block <= height
    /\ Counted(start_block) <= all_sent - i
    /\ PrevCleared => Counted(start_block) = all_sent - i
    /\ pc \in {"wait", "end", "report"} => i = tx_count
    /\ pc \in {"end", "report"} /\ cleared => included = all_sent
    /\ pc = "report" =>
          /\ start_block <= end_block /\ end_block <= height
          /\ Counted(end_block) <= all_sent
          /\ cleared => Counted(end_block) = all_sent

(* The rows so far lie before the run that is next. *)
RowsBefore ==
    /\ \A k \in DOMAIN results : results[k].end_block <= height
    /\ InRun => \A k \in DOMAIN results : results[k].end_block <= start_block

MeasureInv ==
    /\ MeasureType
    /\ Counted(height) = included
    /\ pc # "crashed" => PoolGapless
    /\ InRun => RunCounts
    /\ pc = "start" /\ PrevCleared => included = all_sent
    /\ RowsBefore
    /\ RangesDisjoint
    /\ RowsExact

LEMMA Constants ==
    /\ Alice \in Senders /\ Bob \in Senders /\ Alice # Bob
    /\ \A s \in Senders : s = Alice \/ s = Bob
    /\ MaxHeight \in Nat /\ FaultBound \in Nat
    /\ Len(TxCounts) \in Nat \ {0}
    /\ \A n \in 0..(Len(TxCounts) - 1) : TxCounts[n + 1] \in Nat \ {0}
<1>1. Len(TxCounts) \in Nat \ {0}
  BY MeasureAssumption
<1>2. ASSUME NEW n \in 0..(Len(TxCounts) - 1) PROVE TxCounts[n + 1] \in Nat \ {0}
  <2>1. n + 1 \in 1..Len(TxCounts) /\ TxCounts \in Seq(Nat \ {0})
    BY <1>1, MeasureAssumption
  <2> QED
    BY <2>1, ElementOfSeq
<1> QED
  BY <1>1, <1>2, MeasureAssumption

(* Integer intervals: how many numbers they hold. *)
LEMMA IntervalSize ==
    ASSUME NEW m \in Nat, NEW n \in Nat, m <= n
    PROVE  Cardinality(m..(n - 1)) = n - m
<1>1. CASE m = n
  <2>1. m..(n - 1) = {}
    BY <1>1
  <2> QED
    BY <1>1, <2>1, FS_EmptySet
<1>2. CASE m < n
  BY <1>2, FS_Interval
<1> QED
  BY <1>1, <1>2

(* A pool without gaps holds as many transfers as were sent and are not yet  *)
(* included.                                                                 *)
LEMMA NotIncludedYet ==
    ASSUME MeasureTypeOK, PoolGapless, NEW s \in Senders
    PROVE  /\ nonce[s] \in Nat /\ next[s] \in Nat /\ sent(s) \in Nat
           /\ nonce[s] <= sent(s) /\ next[s] <= sent(s)
           /\ pooled[s] = nonce[s]..(sent(s) - 1)
<1>1. nonce[s] \in Nat /\ next[s] \in Nat /\ sent(s) \in Nat /\ pooled[s] = nonce[s]..(sent(s) - 1)
  BY DEF MeasureTypeOK, PoolGapless
<1>2. sent(s) = nonce[s] + Cardinality(nonce[s]..(sent(s) - 1))
  BY <1>1 DEF sent
<1>3. IsFiniteSet(nonce[s]..(sent(s) - 1))
  BY <1>1, FS_Interval
<1>4. Cardinality(nonce[s]..(sent(s) - 1)) \in Nat
  BY <1>3, FS_CardinalityType
<1>5. nonce[s] <= sent(s)
  <2> DEFINE c == Cardinality(nonce[s]..(sent(s) - 1))
  <2>1. sent(s) = nonce[s] + c /\ c \in Nat
    BY <1>2, <1>4
  <2> HIDE DEF c
  <2> QED
    BY <1>1, <2>1
<1> QED
  BY <1>1, <1>5 DEF PoolGapless

(* A list of pending extrinsics that is seen empty: all that was sent is     *)
(* included.                                                                 *)
LEMMA ClearIsIncluded ==
    ASSUME MeasureTypeOK, PoolGapless, sees_clear
    PROVE  included = all_sent
<1>1. ASSUME NEW s \in Senders PROVE nonce[s] = sent(s)
  <2>1. SUFFICES ASSUME nonce[s] < sent(s) PROVE FALSE
    BY NotIncludedYet
  <2>2. nonce[s] \in pooled[s] /\ nonce[s] \in Nat
    BY <2>1, NotIncludedYet
  <2>3. nonce[s]..nonce[s] \subseteq pooled[s]
    BY <2>2
  <2>4. nonce[s] \in Ready(s)
    BY <2>2, <2>3 DEF Ready
  <2>5. <<s, nonce[s]>> \in PendingExtrinsics
    BY <2>4 DEF PendingExtrinsics
  <2> QED
    BY <2>5 DEF sees_clear
<1> QED
  BY <1>1, Constants DEF included, all_sent

(* A read nonce is never ahead of what was sent.                             *)
LEMMA ReadsBehind ==
    ASSUME MeasureTypeOK, PoolGapless, NEW s \in Senders, NEW n \in NonceReads(s)
    PROVE  n \in Nat /\ n <= sent(s)
<1>1. /\ nonce[s] \in Nat /\ sent(s) \in Nat /\ nonce[s] <= sent(s)
      /\ pooled[s] = nonce[s]..(sent(s) - 1)
  BY NotIncludedYet
<1>2. ASSUME NEW r \in Ready(s) PROVE r + 1 \in Nat /\ r + 1 <= sent(s)
  BY <1>1 DEF Ready
<1> QED
  BY <1>1, <1>2 DEF NonceReads

(* An accepted transfer is the next one of its sender. *)
LEMMA AcceptedIsNext ==
    ASSUME MeasureTypeOK, PoolGapless, NEW s \in Senders, Accepts(s, next[s])
    PROVE  next[s] = sent(s)
<1>1. /\ nonce[s] \in Nat /\ next[s] \in Nat /\ sent(s) \in Nat /\ next[s] <= sent(s)
      /\ pooled[s] = nonce[s]..(sent(s) - 1)
  BY NotIncludedYet
<1>2. next[s] >= nonce[s] /\ next[s] \notin Ready(s)
  BY DEF Accepts
<1>3. next[s] \notin pooled[s]
  <2>1. next[s] \in pooled[s] => nonce[s]..next[s] \subseteq pooled[s]
    BY <1>1
  <2> QED
    BY <1>2, <2>1 DEF Ready
<1> QED
  BY <1>1, <1>2, <1>3

LEMMA AddedNext ==
    ASSUME MeasureTypeOK, PoolGapless, NEW s \in Senders, add(s, sent(s))
    PROVE  /\ pooled' \in [Senders -> SUBSET Nat]
           /\ \A t \in Senders : pooled'[t] = nonce[t]..(sent(t)' - 1)
           /\ \A t \in Senders : t # s => sent(t)' = sent(t)
           /\ sent(s)' = sent(s) + 1
           /\ nonce' = nonce
<1>1. pooled \in [Senders -> SUBSET Nat] /\ pooled' = [pooled EXCEPT ![s] = @ \cup {sent(s)}]
      /\ nonce' = nonce
  BY DEF MeasureTypeOK, add
<1>2. \A t \in Senders : t # s => pooled'[t] = pooled[t]
  BY <1>1
<1>3. /\ nonce[s] \in Nat /\ sent(s) \in Nat /\ nonce[s] <= sent(s)
      /\ pooled[s] = nonce[s]..(sent(s) - 1)
  BY NotIncludedYet
<1>4. pooled'[s] = nonce[s]..((sent(s) + 1) - 1)
  <2>1. pooled'[s] = pooled[s] \cup {sent(s)}
    BY <1>1
  <2> HIDE DEF sent
  <2>2. (nonce[s]..(sent(s) - 1)) \cup {sent(s)} = nonce[s]..((sent(s) + 1) - 1)
    BY <1>3
  <2> QED
    BY <1>3, <2>1, <2>2
<1>5. Cardinality(pooled'[s]) = (sent(s) + 1) - nonce[s]
  <2>1. sent(s) + 1 \in Nat /\ nonce[s] <= sent(s) + 1
    BY <1>3
  <2>2. Cardinality(nonce[s]..((sent(s) + 1) - 1)) = (sent(s) + 1) - nonce[s]
    BY <1>3, <2>1, IntervalSize
  <2> QED
    BY <1>4, <2>2
<1>6. sent(s)' = sent(s) + 1
  BY <1>1, <1>3, <1>5 DEF sent
<1>7. \A t \in Senders : t # s => sent(t)' = sent(t)
  BY <1>1, <1>2 DEF sent
<1>8. pooled' \in [Senders -> SUBSET Nat]
  BY <1>1, <1>3
<1>9. \A t \in Senders : pooled'[t] = nonce[t]..(sent(t)' - 1)
  BY <1>2, <1>4, <1>6, <1>7, NotIncludedYet
<1> QED
  BY <1>1, <1>6, <1>7, <1>8, <1>9

(* A block moves transfers from the pool to the chain. *)
LEMMA AuthoredTypes ==
    ASSUME MeasureTypeOK, NEW upto \in Blocks, author(upto)
    PROVE  /\ nonce' \in [Senders -> Nat] /\ pooled' \in [Senders -> SUBSET Nat]
           /\ \A s \in Senders : nonce[s] \in Nat /\ nonce[s] <= nonce'[s]
           /\ Taken(upto) \in Nat
           /\ included' = included + Taken(upto)
<1>1. nonce \in [Senders -> Nat] /\ pooled \in [Senders -> SUBSET Nat]
  BY DEF MeasureTypeOK
<1>2. upto = [s \in Senders |-> upto[s]]
  BY DEF Blocks
<1>3. ASSUME NEW s \in Senders
      PROVE  upto[s] \in Nat /\ nonce[s] \in Nat /\ nonce[s] <= upto[s]
  <2>1. upto[s] \in {nonce[s]} \cup {n + 1 : n \in Ready(s)}
    BY DEF Blocks
  <2>2. \A n \in Ready(s) : n \in Nat /\ n >= nonce[s]
    BY <1>1 DEF Ready
  <2> QED
    BY <1>1, <2>1, <2>2
<1>4. nonce' = upto /\ pooled' = [s \in Senders |-> {n \in pooled[s] : n >= upto[s]}]
  BY DEF author
<1>5. nonce' \in [Senders -> Nat] /\ pooled' \in [Senders -> SUBSET Nat]
  BY <1>1, <1>2, <1>3, <1>4
<1>6. Taken(upto) \in Nat /\ included' = included + Taken(upto)
  BY <1>3, <1>4, Constants DEF Taken, included
<1> QED
  BY <1>3, <1>4, <1>5, <1>6

LEMMA AuthoredPool ==
    ASSUME MeasureTypeOK, PoolGapless, NEW upto \in Blocks, author(upto)
    PROVE  /\ \A s \in Senders : /\ sent(s)' = sent(s)
                                 /\ pooled'[s] = nonce'[s]..(sent(s) - 1)
           /\ included <= included' /\ included' <= all_sent /\ all_sent' = all_sent
<1>1. ASSUME NEW s \in Senders
      PROVE  /\ nonce'[s] \in Nat /\ nonce[s] <= nonce'[s] /\ nonce'[s] <= sent(s)
             /\ nonce[s] \in Nat /\ sent(s) \in Nat
             /\ sent(s)' = sent(s) /\ pooled'[s] = nonce'[s]..(sent(s) - 1)
  <2>1. /\ nonce[s] \in Nat /\ sent(s) \in Nat /\ nonce[s] <= sent(s)
        /\ pooled[s] = nonce[s]..(sent(s) - 1)
    BY NotIncludedYet
  <2>2. nonce'[s] \in Nat /\ nonce[s] <= nonce'[s]
    BY AuthoredTypes
  <2>3. nonce'[s] <= sent(s)
    <3>1. nonce'[s] \in {nonce[s]} \cup {n + 1 : n \in Ready(s)}
      BY DEF author, Blocks
    <3>2. \A n \in Ready(s) : n + 1 <= sent(s)
      BY <2>1 DEF Ready
    <3> QED
      BY <2>1, <3>1, <3>2
  <2>4. pooled'[s] = nonce'[s]..(sent(s) - 1)
    <3>1. pooled'[s] = {n \in pooled[s] : n >= nonce'[s]}
      BY DEF author
    <3> QED
      BY <2>1, <2>2, <3>1
  <2>5. Cardinality(pooled'[s]) = sent(s) - nonce'[s]
    BY <2>1, <2>2, <2>3, <2>4, IntervalSize
  <2>6. sent(s)' = sent(s)
    <3>1. sent(s)' = nonce'[s] + Cardinality(pooled'[s])
      BY DEF sent
    <3> QED
      BY <2>1, <2>2, <2>5, <3>1
  <2> QED
    BY <2>1, <2>2, <2>3, <2>4, <2>6
<1>2. included <= included' /\ included' <= all_sent
  BY <1>1, Constants DEF included, all_sent
<1>3. all_sent' = all_sent
  BY <1>1, Constants DEF all_sent
<1> QED
  BY <1>1, <1>2, <1>3

-----------------------------------------------------------------------------
(* Every step keeps the invariant. *)

LEMMA InitInv == MeasureInit => MeasureInv
<1> SUFFICES ASSUME MeasureInit PROVE MeasureInv
  OBVIOUS
<1>1. sizes = <<>> /\ results = <<>> /\ pc = "start" /\ height = 0
  BY DEF MeasureInit, height
<1>2. \A s \in Senders : nonce[s] = 0 /\ pooled[s] = {} /\ next[s] = 0
  BY DEF MeasureInit, PoolInit
<1>3. \A s \in Senders : sent(s) = 0
  BY <1>2, FS_EmptySet DEF sent
<1>4. included = 0 /\ all_sent = 0
  BY <1>2, <1>3, Constants DEF included, all_sent
<1>5. Counted(height) = 0
  BY <1>1, NothingCounted DEF Counted
<1>6. PoolGapless
  <2> SUFFICES ASSUME NEW s \in Senders
               PROVE  sent(s) \in Nat /\ pooled[s] = nonce[s]..(sent(s) - 1) /\ next[s] <= sent(s)
    BY DEF PoolGapless
  <2>1. nonce[s]..(sent(s) - 1) = {}
    BY <1>2, <1>3
  <2>2. pooled[s] = {}
    BY <1>2
  <2>3. sent(s) \in Nat /\ next[s] <= sent(s)
    BY <1>2, <1>3
  <2> QED
    BY <2>1, <2>2, <2>3
<1>7. MeasureTypeOK
  <2>1. nonce \in [Senders -> Nat] /\ pooled \in [Senders -> SUBSET Nat] /\ next \in [Senders -> Nat]
    BY DEF MeasureInit, PoolInit
  <2>2. sizes \in Seq(Nat) /\ Len(sizes) = 0 /\ Len(results) = 0 /\ DOMAIN results = {}
    BY <1>1
  <2>3. i = 0 /\ start_block = 0 /\ end_block = 0 /\ cleared = FALSE /\ faults = 0
    BY DEF MeasureInit
  <2>4. Len(sizes) <= MaxHeight /\ Len(results) <= Len(TxCounts)
    BY <2>2, Constants
  <2>5. start_block \in 0..MaxHeight /\ end_block \in 0..MaxHeight /\ faults \in 0..FaultBound
    BY <2>3, Constants
  <2>6. /\ pc \in {"start", "read_alice", "read_bob", "inject", "wait", "end", "report",
                  "saved", "crashed"}
        /\ pc \notin {"inject", "wait", "end", "report"}
    BY <1>1
  <2> QED
    BY <2>1, <2>2, <2>3, <2>4, <2>5, <2>6 DEF MeasureTypeOK
<1>8. MeasureType
  BY <1>1, <1>7, Constants DEF MeasureType, InRun
<1>9. RowsBefore /\ RangesDisjoint /\ RowsExact
  BY <1>1 DEF RowsBefore, RangesDisjoint, RowsExact
<1> QED
  BY <1>1, <1>4, <1>5, <1>6, <1>8, <1>9 DEF MeasureInv, InRun

(* What a run's counts and the rows speak about, in a step that leaves the   *)
(* chain and the rows alone.                                                 *)
LEMMA ChainAndRowsStay ==
    ASSUME MeasureInv, UNCHANGED sizes, UNCHANGED results
    PROVE  /\ height' = height /\ tx_count' = tx_count /\ PrevCleared' = PrevCleared
           /\ \A b : Counted(b)' = Counted(b)
           /\ RangesDisjoint' /\ RowsExact'
<1>1. RangesDisjoint /\ RowsExact
  BY DEF MeasureInv
<1>2. RangesDisjoint' /\ RowsExact'
  BY <1>1 DEF RangesDisjoint, RowsExact
<1> QED
  BY <1>2 DEF height, tx_count, PrevCleared, Counted

LEMMA PoolStays ==
    ASSUME UNCHANGED poolVars
    PROVE  included' = included /\ all_sent' = all_sent /\ \A s : sent(s)' = sent(s)
  BY DEF poolVars, included, all_sent, sent

(* The types that a state of the invariant gives to what a run counts. *)
LEMMA CountTypes ==
    ASSUME MeasureInv
    PROVE  /\ MeasureType /\ MeasureTypeOK
           /\ height \in Nat /\ included \in Nat /\ i \in Nat
           /\ \A b \in 0..height : Counted(b) \in Nat
           /\ \A b \in 0..height : Counted(b) <= included
           /\ pc # "crashed" => all_sent \in Nat /\ included <= all_sent
           /\ pc = "start" \/ InRun => tx_count \in Nat \ {0}
<1>1. MeasureType /\ MeasureTypeOK
  BY DEF MeasureInv, MeasureType
<1>2. sizes \in Seq(Nat) /\ height \in Nat /\ i \in Nat
  BY <1>1 DEF MeasureTypeOK, height
<1>3. included \in Nat
  BY <1>1, Constants DEF MeasureTypeOK, included
<1>4. ASSUME NEW b \in 0..height PROVE Counted(b) \in Nat /\ Counted(b) <= included
  <2>1. b <= height /\ height \in 0..Len(sizes) /\ height = Len(sizes)
    BY <1>2 DEF height
  <2>2. /\ CountedIn(sizes, b) \in Nat /\ CountedIn(sizes, height) \in Nat
        /\ Totals(sizes, b, {})[height] \in Nat
        /\ Totals(sizes, b, {})[height] = CountedIn(sizes, height) - CountedIn(sizes, b)
    BY <1>2, <2>1, RangeTotal
  <2>3. CountedIn(sizes, height) = included
    BY DEF MeasureInv, Counted
  <2> QED
    BY <1>3, <2>2, <2>3 DEF Counted
<1>5. ASSUME pc # "crashed" PROVE all_sent \in Nat /\ included <= all_sent
  <2>1. PoolGapless
    BY <1>5 DEF MeasureInv
  <2>2. \A s \in Senders : nonce[s] \in Nat /\ sent(s) \in Nat /\ nonce[s] <= sent(s)
    BY <1>1, <2>1, NotIncludedYet
  <2> QED
    BY <2>2, Constants DEF included, all_sent
<1>6. ASSUME pc = "start" \/ InRun PROVE tx_count \in Nat \ {0}
  <2>1. Len(results) < Len(TxCounts) /\ Len(results) \in Nat
    BY <1>1, <1>6 DEF MeasureType
  <2> QED
    BY <2>1, Constants DEF tx_count
<1> QED
  BY <1>1, <1>2, <1>3, <1>4, <1>5, <1>6

LEMMA StartInv == ASSUME MeasureInv, read_start_block, UNCHANGED <<results, faults>>
                  PROVE  MeasureInv'
<1> USE DEF read_start_block, chainVars
<1>1. /\ MeasureType /\ MeasureTypeOK /\ PoolGapless /\ RowsBefore
      /\ Counted(height) = included /\ (PrevCleared => included = all_sent)
      /\ height \in Nat /\ included \in Nat /\ all_sent \in Nat /\ included <= all_sent
      /\ tx_count \in Nat \ {0} /\ pc = "start"
  BY CountTypes DEF MeasureInv
<1>2. /\ height' = height /\ tx_count' = tx_count /\ PrevCleared' = PrevCleared
      /\ \A b : Counted(b)' = Counted(b)
      /\ RangesDisjoint' /\ RowsExact'
      /\ included' = included /\ all_sent' = all_sent /\ \A s : sent(s)' = sent(s)
  BY ChainAndRowsStay, PoolStays
<1>3. start_block' = height /\ i' = 0 /\ pc' = "read_alice"
  BY DEF goto
<1>4. MeasureTypeOK'
  BY <1>1, <1>3 DEF MeasureTypeOK, poolVars, height
<1>5. MeasureType'
  BY <1>1, <1>2, <1>3, <1>4 DEF MeasureType, InRun
<1>6. PoolGapless'
  BY <1>1, <1>2 DEF PoolGapless, poolVars
<1>7. RunCounts'
  <2>1. Counted(start_block)' = included
    BY <1>1, <1>2, <1>3 DEF Counted
  <2> QED
    BY <1>1, <1>2, <1>3, <2>1 DEF RunCounts
<1>8. RowsBefore'
  BY <1>1, <1>2, <1>3 DEF RowsBefore, InRun
<1>9. (Counted(height) = included)'
  BY <1>1, <1>2 DEF Counted
<1> QED
  BY <1>2, <1>3, <1>5, <1>6, <1>7, <1>8, <1>9 DEF MeasureInv, InRun

LEMMA ReadInv ==
    ASSUME MeasureInv, UNCHANGED <<results, faults>>, NEW s \in Senders,
           NEW here \in {"read_alice", "read_bob"}, NEW there \in {"read_bob", "inject"},
           read_nonce(s, here, there)
    PROVE  MeasureInv'
<1> USE DEF read_nonce, chainVars
<1>1. /\ MeasureType /\ MeasureTypeOK /\ PoolGapless /\ RowsBefore /\ RunCounts
      /\ Counted(height) = included /\ i \in Nat /\ i <= tx_count
      /\ InRun /\ pc \notin {"wait", "end", "report", "start", "crashed"}
  BY CountTypes DEF MeasureInv, MeasureType, InRun
<1>2. /\ height' = height /\ tx_count' = tx_count /\ PrevCleared' = PrevCleared
      /\ \A b : Counted(b)' = Counted(b)
      /\ RangesDisjoint' /\ RowsExact'
      /\ included' = included /\ all_sent' = all_sent /\ \A t \in Senders : sent(t)' = sent(t)
  BY ChainAndRowsStay, PoolStays
<1>3. pc' = there /\ start_block' = start_block /\ i' = i
  BY DEF goto
<1>4. PICK n \in NonceReads(s) : next' = [next EXCEPT ![s] = n]
  OBVIOUS
<1>5. n \in Nat /\ n <= sent(s)
  BY <1>1, ReadsBehind
<1>6. MeasureTypeOK'
  BY <1>1, <1>2, <1>3, <1>4, <1>5 DEF MeasureTypeOK, poolVars
<1>7. MeasureType'
  BY <1>1, <1>2, <1>3, <1>6 DEF MeasureType, InRun
<1>8. PoolGapless'
  <2>1. \A t \in Senders : next'[t] = IF t = s THEN n ELSE next[t]
    BY <1>1, <1>4 DEF MeasureTypeOK
  <2> QED
    BY <1>1, <1>2, <1>5, <2>1 DEF PoolGapless, poolVars
<1>9. RunCounts'
  BY <1>1, <1>2, <1>3 DEF RunCounts, Counted
<1>10. RowsBefore'
  BY <1>1, <1>2, <1>3 DEF RowsBefore, InRun
<1>11. (Counted(height) = included)'
  BY <1>1, <1>2 DEF Counted
<1> QED
  BY <1>2, <1>3, <1>7, <1>8, <1>9, <1>10, <1>11 DEF MeasureInv, InRun

LEMMA InjectInv == ASSUME MeasureInv, inject_transaction, UNCHANGED <<results, faults>>
                   PROVE  MeasureInv'
<1> USE DEF inject_transaction
<1>1. /\ MeasureType /\ MeasureTypeOK /\ PoolGapless /\ RowsBefore /\ RunCounts
      /\ Counted(height) = included /\ i \in Nat /\ i < tx_count /\ tx_count \in Nat
      /\ all_sent \in Nat
      /\ InRun /\ pc = "inject"
  BY CountTypes DEF MeasureInv, InRun, injecting
<1>2. PICK s \in Senders : s = Sender(i)
  BY Constants DEF Sender
<1>3. Accepts(s, next[s]) /\ add(s, next[s]) /\ next' = [next EXCEPT ![s] = @ + 1]
  BY <1>2
<1>4. next[s] = sent(s) /\ add(s, sent(s))
  <2>1. next[s] = sent(s)
    BY <1>1, <1>3, AcceptedIsNext
  <2> QED
    BY <1>3, <2>1 DEF add
<1>5. /\ pooled' \in [Senders -> SUBSET Nat]
      /\ \A t \in Senders : pooled'[t] = nonce[t]..(sent(t)' - 1)
      /\ \A t \in Senders : t # s => sent(t)' = sent(t)
      /\ sent(s)' = sent(s) + 1
      /\ nonce' = nonce
  BY <1>1, <1>4, AddedNext
<1>6. /\ height' = height /\ tx_count' = tx_count /\ PrevCleared' = PrevCleared
      /\ \A b : Counted(b)' = Counted(b)
      /\ RangesDisjoint' /\ RowsExact'
  BY ChainAndRowsStay
<1>7. sent(Alice) \in Nat /\ sent(Bob) \in Nat
  BY <1>1, Constants DEF PoolGapless
<1>8. all_sent' = all_sent + 1 /\ included' = included
  <2>1. included' = included
    BY <1>5 DEF included
  <2>2. \/ sent(Alice)' = sent(Alice) + 1 /\ sent(Bob)' = sent(Bob)
        \/ sent(Alice)' = sent(Alice) /\ sent(Bob)' = sent(Bob) + 1
    BY <1>5, Constants
  <2>3. all_sent' = sent(Alice)' + sent(Bob)'
    BY DEF all_sent
  <2> QED
    BY <1>7, <2>1, <2>2, <2>3 DEF all_sent
<1>9. pc' = pc /\ start_block' = start_block /\ i' = i + 1
  OBVIOUS
<1>10. \A t \in Senders : next[t] \in Nat /\ next'[t] = IF t = s THEN next[t] + 1 ELSE next[t]
  BY <1>1, <1>3 DEF MeasureTypeOK
<1>11. next' \in [Senders -> Nat]
  <2>1. next \in [Senders -> Nat] /\ next[s] + 1 \in Nat
    BY <1>1, <1>10 DEF MeasureTypeOK
  <2> QED
    BY <1>3, <2>1
<1>12. MeasureTypeOK'
  BY <1>1, <1>5, <1>6, <1>9, <1>11 DEF MeasureTypeOK
<1>13. MeasureType'
  BY <1>1, <1>6, <1>9, <1>12 DEF MeasureType, InRun
<1>14. PoolGapless'
  <2>1. ASSUME NEW t \in Senders PROVE sent(t)' \in Nat /\ next'[t] <= sent(t)'
    <3>1. sent(t) \in Nat /\ next[t] <= sent(t) /\ next[t] \in Nat
      BY <1>1, <1>10 DEF PoolGapless
    <3>2. sent(t)' = IF t = s THEN sent(t) + 1 ELSE sent(t)
      BY <1>5
    <3> QED
      BY <1>10, <3>1, <3>2
  <2> QED
    BY <1>5, <2>1 DEF PoolGapless
<1>15. RunCounts'
  <2>1. all_sent' - i' = all_sent - i
    BY <1>1, <1>8, <1>9
  <2> QED
    BY <1>1, <1>6, <1>9, <2>1 DEF RunCounts, Counted
<1>16. RowsBefore'
  BY <1>1, <1>6, <1>9 DEF RowsBefore, InRun
<1>17. (Counted(height) = included)'
  BY <1>1, <1>6, <1>8 DEF Counted
<1> QED
  BY <1>1, <1>6, <1>9, <1>13, <1>14, <1>15, <1>16, <1>17 DEF MeasureInv, InRun

LEMMA WaitInv ==
    ASSUME MeasureInv, start_waiting \/ wait_for_pending_clear \/ read_end_block,
           UNCHANGED <<results, faults>>
    PROVE  MeasureInv'
<1> USE DEF start_waiting, wait_for_pending_clear, read_end_block, chainVars, goto
<1>1. /\ MeasureType /\ MeasureTypeOK /\ PoolGapless /\ RowsBefore /\ RunCounts
      /\ Counted(height) = included /\ i \in Nat /\ i <= tx_count
      /\ included <= all_sent /\ height \in Nat
      /\ InRun /\ pc \in {"inject", "wait", "end"}
  BY CountTypes DEF MeasureInv, MeasureType, InRun
<1>2. /\ height' = height /\ tx_count' = tx_count /\ PrevCleared' = PrevCleared
      /\ \A b : Counted(b)' = Counted(b)
      /\ RangesDisjoint' /\ RowsExact'
      /\ included' = included /\ all_sent' = all_sent /\ \A t \in Senders : sent(t)' = sent(t)
  BY ChainAndRowsStay, PoolStays
<1>3. pc' \in {"wait", "end", "report"} /\ start_block' = start_block /\ i' = i /\ next' = next
  OBVIOUS
<1>4. MeasureTypeOK'
  <2>1. end_block' \in 0..MaxHeight
    <3>1. height \in 0..MaxHeight /\ end_block \in 0..MaxHeight
      BY <1>1, Constants DEF MeasureTypeOK, height
    <3> QED
      BY <3>1
  <2>2. cleared' \in BOOLEAN
    BY <1>1 DEF MeasureTypeOK
  <2> QED
    BY <1>1, <1>2, <1>3, <2>1, <2>2 DEF MeasureTypeOK, poolVars
<1>5. MeasureType'
  BY <1>1, <1>2, <1>3, <1>4 DEF MeasureType, InRun
<1>6. PoolGapless'
  BY <1>1, <1>2, <1>3 DEF PoolGapless, poolVars
<1>7. RunCounts'
  <2>1. CASE start_waiting
    BY <1>1, <1>2, <1>3, <2>1 DEF RunCounts, Counted
  <2>2. CASE wait_for_pending_clear
    <3>1. cleared' => included = all_sent
      BY <1>1, <2>2, ClearIsIncluded
    <3> QED
      BY <1>1, <1>2, <1>3, <2>2, <3>1 DEF RunCounts, Counted
  <2>3. CASE read_end_block
    <3>1. end_block' = height /\ cleared' = cleared /\ pc = "end"
      BY <2>3
    <3>2. Counted(end_block)' = included
      BY <1>1, <1>2, <3>1 DEF Counted
    <3> QED
      BY <1>1, <1>2, <1>3, <2>3, <3>1, <3>2 DEF RunCounts, Counted
  <2> QED
    BY <2>1, <2>2, <2>3
<1>8. RowsBefore'
  BY <1>1, <1>2, <1>3 DEF RowsBefore, InRun
<1>9. (Counted(height) = included)'
  BY <1>1, <1>2 DEF Counted
<1> QED
  BY <1>2, <1>3, <1>5, <1>6, <1>7, <1>8, <1>9 DEF MeasureInv, InRun

LEMMA RaiseInv == ASSUME MeasureInv, run_raises PROVE MeasureInv'
<1> USE DEF run_raises, refused, broken, chainVars, goto, fault
<1>1. /\ MeasureType /\ MeasureTypeOK /\ PoolGapless /\ RowsBefore
      /\ Counted(height) = included
  BY CountTypes DEF MeasureInv, injecting
<1>2. sizes' = sizes /\ results' = results
  OBVIOUS
<1>3. /\ height' = height /\ tx_count' = tx_count
      /\ \A b : Counted(b)' = Counted(b)
      /\ RangesDisjoint' /\ RowsExact'
  BY <1>2, ChainAndRowsStay
<1>4. pc' = "crashed" /\ nonce' = nonce /\ included' = included
  BY DEF add, poolVars, included
<1>5. pooled' \in [Senders -> SUBSET Nat]
  <2>1. Sender(i) \in Senders
    BY Constants DEF Sender
  <2>2. pooled \in [Senders -> SUBSET Nat] /\ next[Sender(i)] \in Nat
    BY <1>1, <2>1 DEF MeasureTypeOK
  <2> QED
    BY <2>1, <2>2 DEF poolVars, add
<1>6. faults' \in 0..FaultBound
  BY <1>1, Constants DEF MeasureTypeOK
<1>7. MeasureTypeOK'
  BY <1>1, <1>2, <1>4, <1>5, <1>6 DEF MeasureTypeOK
<1>8. MeasureType'
  BY <1>1, <1>2, <1>4, <1>7 DEF MeasureType, InRun
<1>9. RowsBefore'
  BY <1>1, <1>2, <1>3, <1>4 DEF RowsBefore, InRun
<1>10. (Counted(height) = included)'
  BY <1>1, <1>3, <1>4 DEF Counted
<1> QED
  BY <1>3, <1>4, <1>8, <1>9, <1>10 DEF MeasureInv, InRun

LEMMA AuthorInv == ASSUME MeasureInv, author_block, UNCHANGED <<results, faults>>
                   PROVE  MeasureInv'
<1> USE DEF author_block, runVars
<1>1. /\ MeasureType /\ MeasureTypeOK /\ RowsBefore /\ RangesDisjoint /\ RowsExact
      /\ Counted(height) = included /\ height \in Nat /\ included \in Nat
      /\ \A b \in 0..height : Counted(b) \in Nat
  BY CountTypes DEF MeasureInv
<1>2. PICK upto \in Blocks : author(upto) /\ sizes' = Append(sizes, Taken(upto))
  OBVIOUS
<1>3. /\ nonce' \in [Senders -> Nat] /\ pooled' \in [Senders -> SUBSET Nat]
      /\ Taken(upto) \in Nat /\ included' = included + Taken(upto)
  BY <1>1, <1>2, AuthoredTypes
<1>4. sizes \in Seq(Nat) /\ height = Len(sizes) /\ height < MaxHeight
  BY <1>1 DEF MeasureTypeOK, height
<1>5. sizes' \in Seq(Nat) /\ height' = height + 1 /\ Len(sizes') = height + 1
  BY <1>2, <1>3, <1>4 DEF height
<1>6. /\ \A b \in 0..height : Counted(b)' = Counted(b)
      /\ CountedIn(sizes', height + 1) = Counted(height) + Taken(upto)
  BY <1>2, <1>3, <1>4, CountedAfterAppend DEF Counted
<1>7. (Counted(height) = included)'
  BY <1>1, <1>3, <1>5, <1>6 DEF Counted
<1>8. /\ pc' = pc /\ i' = i /\ next' = next /\ start_block' = start_block
      /\ end_block' = end_block /\ cleared' = cleared
      /\ results' = results /\ faults' = faults
      /\ tx_count' = tx_count /\ PrevCleared' = PrevCleared /\ InRun' = InRun
  BY DEF tx_count, PrevCleared, InRun
<1>9. MeasureTypeOK'
  <2>1. Len(sizes') <= MaxHeight
    BY <1>1, <1>4, <1>5, Constants
  <2> QED
    BY <1>1, <1>3, <1>5, <1>8, <2>1 DEF MeasureTypeOK
<1>10. MeasureType'
  BY <1>1, <1>8, <1>9 DEF MeasureType
<1>11. RowsBefore'
  <2>1. ASSUME NEW k \in DOMAIN results PROVE results[k].end_block <= height + 1
    <3>1. results[k] \in Row
      BY <1>1 DEF MeasureType
    <3>2. results[k].end_block \in 0..MaxHeight /\ results[k].end_block <= height
      BY <1>1, <3>1 DEF Row, RowsBefore
    <3> QED
      BY <1>1, <3>2, Constants
  <2> QED
    BY <1>1, <1>5, <1>8, <2>1 DEF RowsBefore
<1>12. RangesDisjoint' /\ RowsExact'
  BY <1>1, <1>8 DEF RangesDisjoint, RowsExact
<1>13. ASSUME pc # "crashed"
       PROVE  /\ PoolGapless' /\ all_sent' = all_sent /\ all_sent \in Nat
              /\ included <= included' /\ included' <= all_sent /\ included' \in Nat
  <2>1. PoolGapless /\ all_sent \in Nat
    BY <1>13, CountTypes DEF MeasureInv
  <2>2. /\ \A s \in Senders : /\ sent(s)' = sent(s)
                              /\ pooled'[s] = nonce'[s]..(sent(s) - 1)
        /\ included <= included' /\ included' <= all_sent /\ all_sent' = all_sent
    BY <1>1, <1>2, <2>1, AuthoredPool
  <2>3. PoolGapless'
    BY <1>8, <2>1, <2>2 DEF PoolGapless
  <2> QED
    BY <1>1, <1>3, <2>1, <2>2, <2>3
<1>14. ASSUME InRun PROVE RunCounts'
  <2>1. RunCounts /\ pc # "crashed"
    BY <1>14 DEF MeasureInv, InRun
  <2>2. start_block \in 0..height /\ (Counted(start_block) = CountedIn(sizes', start_block))
    BY <1>1, <1>6, <2>1 DEF RunCounts, MeasureTypeOK, Counted
  <2>3. (Counted(start_block))' = Counted(start_block)
    BY <1>8, <2>2 DEF Counted
  <2>4. pc = "report" => (Counted(end_block))' = Counted(end_block)
    <3>1. pc = "report" => end_block \in 0..height
      BY <1>1, <2>1 DEF RunCounts, MeasureTypeOK
    <3> QED
      BY <1>6, <1>8, <3>1 DEF Counted
  <2>5. start_block <= height' /\ (pc = "report" => end_block <= height')
    BY <1>1, <1>5, <2>1, <2>2 DEF RunCounts, MeasureTypeOK
  <2>6. included = all_sent => included' = all_sent
    BY <1>1, <1>13, <2>1
  <2> QED
    BY <1>8, <1>13, <2>1, <2>3, <2>4, <2>5, <2>6 DEF RunCounts
<1>15. pc = "start" /\ PrevCleared => included' = all_sent'
  <2>1. pc = "start" /\ PrevCleared => included = all_sent
    BY DEF MeasureInv
  <2> QED
    BY <1>1, <1>13, <2>1
<1> QED
  BY <1>7, <1>8, <1>10, <1>11, <1>12, <1>13, <1>14, <1>15 DEF MeasureInv

(* The new row: too few transfers only with a wait that timed out or a block *)
(* that was not read, too many only after a wait that timed out.             *)
LEMMA NewRowExact ==
    ASSUME MeasureInv, pc = "report", NEW unread
    PROVE  /\ row(unread) \in Row
           /\ InRange(unread) < tx_count => ~cleared \/ unread # {}
           /\ InRange(unread) > tx_count => ~PrevCleared
<1>1. /\ RunCounts /\ MeasureTypeOK /\ tx_count \in Nat \ {0} /\ height \in Nat
      /\ i = tx_count /\ all_sent \in Nat
  BY CountTypes DEF MeasureInv, InRun, RunCounts
<1>2. /\ start_block \in 0..height /\ end_block \in 0..height /\ start_block <= end_block
      /\ sizes \in Seq(Nat) /\ height = Len(sizes)
  BY <1>1 DEF RunCounts, MeasureTypeOK, height
<1>3. /\ Counted(start_block) \in Nat /\ Counted(end_block) \in Nat
      /\ InRange(unread) \in Nat
      /\ InRange({}) = Counted(end_block) - Counted(start_block)
      /\ InRange(unread) <= InRange({})
  BY <1>2, RangeTotal, InRangeIsTotal DEF Counted
<1>4. row(unread) \in Row
  BY <1>1, <1>3 DEF row, Row, MeasureTypeOK
<1>5. /\ Counted(start_block) <= all_sent - tx_count
      /\ PrevCleared => Counted(start_block) = all_sent - tx_count
      /\ Counted(end_block) <= all_sent
      /\ cleared => Counted(end_block) = all_sent
  BY <1>1 DEF RunCounts
<1>6. ASSUME InRange(unread) < tx_count, cleared, unread = {} PROVE FALSE
  BY <1>1, <1>3, <1>5, <1>6
<1>7. ASSUME InRange(unread) > tx_count, PrevCleared PROVE FALSE
  BY <1>1, <1>3, <1>5, <1>7
<1> QED
  BY <1>4, <1>6, <1>7

LEMMA ReportInv == ASSUME MeasureInv, report PROVE MeasureInv'
<1> USE DEF report, chainVars, goto
<1>1. /\ MeasureType /\ MeasureTypeOK /\ RowsBefore /\ RangesDisjoint /\ RowsExact
      /\ PoolGapless /\ RunCounts /\ pc = "report" /\ InRun
      /\ Counted(height) = included /\ tx_count \in Nat \ {0}
  BY CountTypes DEF MeasureInv, InRun
<1>2. PICK unread : results' = Append(results, row(unread))
  OBVIOUS
<1>3. /\ row(unread) \in Row
      /\ InRange(unread) < tx_count => ~cleared \/ unread # {}
      /\ InRange(unread) > tx_count => ~PrevCleared
  BY <1>1, NewRowExact
<1>4. /\ row(unread).tx_count = tx_count /\ row(unread).actual_extrinsics = InRange(unread)
      /\ row(unread).start_block = start_block /\ row(unread).end_block = end_block
      /\ row(unread).cleared = cleared /\ row(unread).complete = (unread = {})
  BY DEF row
<1> DEFINE N == Len(results)
           new == row(unread)
<1>5. /\ results \in Seq(Row) /\ results' \in Seq(Row)
      /\ N \in Nat /\ Len(results') = N + 1 /\ results' # <<>>
      /\ DOMAIN results = 1..N /\ DOMAIN results' = 1..(N + 1)
      /\ results'[N + 1] = new /\ \A k \in 1..N : results'[k] = results[k]
  BY <1>1, <1>2, <1>3 DEF MeasureType
<1> HIDE DEF new
<1>6. /\ pc' \in {"saved", "start"} /\ (pc' = "start" => N + 1 # Len(TxCounts))
      /\ sizes' = sizes /\ nonce' = nonce /\ pooled' = pooled /\ next' = next /\ i' = i
      /\ start_block' = start_block /\ end_block' = end_block /\ cleared' = cleared
  BY DEF poolVars
<1>7. /\ height' = height /\ \A b : Counted(b)' = Counted(b)
      /\ included' = included /\ all_sent' = all_sent /\ \A s : sent(s)' = sent(s)
  BY <1>6, PoolStays DEF height, Counted, poolVars
<1>8. N < Len(TxCounts) /\ Len(TxCounts) \in Nat
  BY <1>1, Constants DEF MeasureType
<1>9. MeasureTypeOK'
  <2>1. ASSUME NEW k \in DOMAIN results'
        PROVE  results'[k].tx_count \in Nat /\ results'[k].actual_extrinsics \in Nat
    <3>1. results'[k] \in Row
      BY <1>5
    <3> QED
      BY <3>1 DEF Row
  <2>2. faults' \in 0..FaultBound
    BY <1>1, Constants DEF MeasureTypeOK, fault
  <2>3. Len(results') <= Len(TxCounts)
    BY <1>5, <1>8
  <2> QED
    BY <1>1, <1>6, <2>1, <2>2, <2>3 DEF MeasureTypeOK
<1>10. ~InRun'
  BY <1>6 DEF InRun
<1>11. MeasureType'
  BY <1>5, <1>6, <1>8, <1>9, <1>10 DEF MeasureType
<1>12. PoolGapless'
  BY <1>1, <1>6, <1>7 DEF PoolGapless
<1>13. RowsBefore'
  <2>1. new.end_block <= height
    BY <1>1, <1>4 DEF RunCounts, new
  <2> QED
    BY <1>1, <1>5, <1>7, <1>10, <2>1 DEF RowsBefore
<1>14. RangesDisjoint'
  <2>1. ASSUME NEW k \in 1..(N + 1), NEW j \in 1..(k - 1)
        PROVE  results'[k].start_block <= results'[k].end_block
               /\ results'[j].end_block <= results'[k].start_block
    <3>1. j \in 1..N /\ results'[j] = results[j]
      BY <1>5
    <3>2. CASE k = N + 1
      BY <1>1, <1>4, <1>5, <3>1, <3>2 DEF RowsBefore, RunCounts, new
    <3>3. CASE k # N + 1
      <4>1. k \in 1..N /\ results'[k] = results[k]
        BY <1>5, <3>3
      <4> QED
        BY <1>1, <1>5, <3>1, <4>1 DEF RangesDisjoint
    <3> QED
      BY <3>2, <3>3
  <2>2. ASSUME NEW k \in 1..(N + 1)
        PROVE  results'[k].start_block <= results'[k].end_block
    <3>1. CASE k = N + 1
      BY <1>1, <1>4, <1>5, <3>1 DEF RunCounts, new
    <3>2. CASE k # N + 1
      <4>1. k \in 1..N /\ results'[k] = results[k]
        BY <1>5, <3>2
      <4> QED
        BY <1>1, <1>5, <4>1 DEF RangesDisjoint
    <3> QED
      BY <3>1, <3>2
  <2> QED
    BY <1>5, <2>1, <2>2 DEF RangesDisjoint
<1>15. RowsExact'
  <2>1. ASSUME NEW k \in 1..(N + 1)
        PROVE  /\ results'[k].actual_extrinsics < results'[k].tx_count =>
                     ~results'[k].cleared \/ ~results'[k].complete
               /\ results'[k].actual_extrinsics > results'[k].tx_count =>
                     \E j \in 1..(k - 1) : ~results'[j].cleared
    <3>1. CASE k = N + 1
      <4>1. results'[k] = new
        BY <1>5, <3>1
      <4>2. new.actual_extrinsics < new.tx_count => ~new.cleared \/ ~new.complete
        BY <1>3, <1>4 DEF new
      <4>3. ASSUME new.actual_extrinsics > new.tx_count
            PROVE  \E j \in 1..(k - 1) : ~results'[j].cleared
        <5>1. ~PrevCleared
          BY <1>3, <1>4, <4>3 DEF new
        <5>2. N # 0 /\ ~results[N].cleared
          BY <1>5, <5>1 DEF PrevCleared
        <5>3. N \in 1..(k - 1) /\ results'[N] = results[N]
          BY <1>5, <3>1, <5>2
        <5> QED
          BY <5>2, <5>3
      <4> QED
        BY <4>1, <4>2, <4>3
    <3>2. CASE k # N + 1
      <4>1. k \in 1..N /\ results'[k] = results[k] /\ \A j \in 1..(k - 1) : results'[j] = results[j]
        BY <1>5, <3>2
      <4> QED
        BY <1>1, <1>5, <4>1 DEF RowsExact
    <3> QED
      BY <3>1, <3>2
  <2> QED
    BY <1>5, <2>1 DEF RowsExact
<1>16. PrevCleared' => included' = all_sent'
  <2>1. PrevCleared' => cleared
    BY <1>4, <1>5 DEF PrevCleared, new
  <2> QED
    BY <1>1, <1>7, <2>1 DEF RunCounts
<1>17. (Counted(height) = included)'
  BY <1>1, <1>7 DEF Counted, height
<1> QED
  BY <1>10, <1>11, <1>12, <1>13, <1>14, <1>15, <1>16, <1>17 DEF MeasureInv

LEMMA NextInv == MeasureInv /\ [MeasureNext]_measureVars => MeasureInv'
<1> SUFFICES ASSUME MeasureInv, [MeasureNext]_measureVars PROVE MeasureInv'
  OBVIOUS
<1>1. CASE one_run /\ UNCHANGED <<results, faults>>
  <2>1. CASE read_start_block
    BY <1>1, <2>1, StartInv
  <2>2. CASE read_nonce(Alice, "read_alice", "read_bob") \/ read_nonce(Bob, "read_bob", "inject")
    BY <1>1, <2>2, ReadInv, Constants
  <2>3. CASE inject_transaction
    BY <1>1, <2>3, InjectInv
  <2>4. CASE start_waiting \/ wait_for_pending_clear \/ read_end_block
    BY <1>1, <2>4, WaitInv
  <2> QED
    BY <1>1, <2>1, <2>2, <2>3, <2>4 DEF one_run
<1>2. CASE run_raises
  BY <1>2, RaiseInv
<1>3. CASE report
  BY <1>3, ReportInv
<1>4. CASE author_block /\ UNCHANGED <<results, faults>>
  BY <1>4, AuthorInv
<1>5. CASE UNCHANGED measureVars
  BY <1>5
  DEF measureVars, chainVars, poolVars, runVars, MeasureInv, MeasureType, MeasureTypeOK, InRun,
      PrevCleared, PoolGapless, RunCounts, RowsBefore, RangesDisjoint, RowsExact, Counted,
      included, all_sent, sent, height, tx_count
<1> QED
  BY <1>1, <1>2, <1>3, <1>4, <1>5 DEF MeasureNext, script_step, run_step

(* The invariant holds in every reachable state. *)
THEOREM MeasureInvariance == MeasureSpec => []MeasureInv
  BY InitInv, NextInv, PTL DEF MeasureSpec

(* The variables of the script keep their types, and no run injects more     *)
(* transfers than its count.                                                 *)
THEOREM MeasureTypeCorrect == MeasureSpec => []MeasureTypeOK
<1>1. MeasureInv => MeasureTypeOK
  BY DEF MeasureInv, MeasureType
<1> QED
  BY MeasureInvariance, <1>1, PTL

(* No block is counted in two rows, whatever the runs see of the chain.      *)
THEOREM BlocksCountOnce == MeasureSpec => []RangesDisjoint
<1>1. MeasureInv => RangesDisjoint
  BY DEF MeasureInv
<1> QED
  BY MeasureInvariance, <1>1, PTL

(* A row of read_start_block, wait_for_pending_clear and                     *)
(* get_extrinsics_in_range counts its run's transfers exactly, unless a wait *)
(* timed out or a block could not be read.                                   *)
THEOREM RowsCountTheirRuns == MeasureSpec => []RowsExact
<1>1. MeasureInv => RowsExact
  BY DEF MeasureInv
<1> QED
  BY MeasureInvariance, <1>1, PTL

=============================================================================
