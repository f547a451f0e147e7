-------------------------- MODULE QxRuntime_proofs --------------------------
(***************************************************************************)
(* First the faucet by itself (Spec of QxFaucet): its limits and its pot,  *)
(* for every number of accounts, every drip, cooldown and limit, and a     *)
(* pool of any longevity.  Then accounts, nonces and the faucet within the *)
(* whole runtime (RuntimeSpec), for every genesis, every fee and every     *)
(* number of accounts and extrinsics.                                      *)
(***************************************************************************)
EXTENDS QxRuntime, SequenceTheorems, FiniteSetTheorems, WellFoundedInduction, TLAPS

-----------------------------------------------------------------------------
(* Sums over a finite set.  TLAPS does not know what a recursive definition  *)
(* computes: SumsExist shows that SumFunctionOnSet is a sum.                 *)

(* Induction on the natural numbers, for a set in place of a predicate: the  *)
(* least number outside the set has no predecessor.                          *)
LEMMA CountingUp ==
    ASSUME NEW Good, 0 \in Good, \A n \in Nat : n \in Good => n + 1 \in Good
    PROVE  Nat \subseteq Good
<1> DEFINE Bad == Nat \ Good
           Less == OpToRel(<, Nat)
<1>1. IsWellFoundedOn(Less, Nat)
  BY NatLessThanWellFounded
<1>2. Less = {ss \in Nat \X Nat : ss[1] < ss[2]}
  BY DEF OpToRel
<1> HIDE DEF Less
<1>3. ASSUME Bad # {} PROVE FALSE
  <2>1. PICK n \in Bad : \A m \in Bad : <<m, n>> \notin Less
    <3>1. Bad \subseteq Nat
      OBVIOUS
    <3> HIDE DEF Bad
    <3> QED
      BY <1>1, <1>3, <3>1, WFMin
  <2>2. n \in Nat /\ n \notin Good /\ n # 0
    OBVIOUS
  <2>3. n - 1 \in Nat /\ n = (n - 1) + 1
    BY <2>2
  <2>4. <<n - 1, n>> \in Less
    BY <1>2, <2>2, <2>3
  <2>5. n - 1 \in Good
    BY <2>1, <2>3, <2>4
  <2> QED
    BY <2>2, <2>3, <2>5
<1> QED
  BY <1>3

(* How SumFunctionOnSet adds up: an element and the sum of the others.       *)
First(s) == CHOOSE x \in s : TRUE
AddUp(f, sums, s) == IF s = {} THEN 0 ELSE f[First(s)] + sums[s \ {First(s)}]
Sums(f, S) == CHOOSE sums : sums = [s \in SUBSET S |-> AddUp(f, sums, s)]

LEMMA AddUpCases ==
    ASSUME NEW f, NEW sums, NEW s
    PROVE  /\ s = {} => AddUp(f, sums, s) = 0
           /\ s # {} => AddUp(f, sums, s) = f[First(s)] + sums[s \ {First(s)}]
  BY DEF AddUp

LEMMA SumIsRecursive ==
    ASSUME NEW S, NEW f
    PROVE  SumFunctionOnSet(f, S) = Sums(f, S)[S]
  BY DEF SumFunctionOnSet, FoldFunctionOnSet, MapThenFoldSet, Sums, AddUp, First

(* The first element of a set of numbered accounts leaves one element less.  *)
LEMMA TakeFirst ==
    ASSUME NEW S, IsFiniteSet(S), NEW s \in SUBSET S
    PROVE  /\ IsFiniteSet(s) /\ Cardinality(s) \in Nat
           /\ Cardinality(s) = 0 <=> s = {}
           /\ s # {} => /\ First(s) \in s
                        /\ s \ {First(s)} \in SUBSET S
                        /\ Cardinality(s \ {First(s)}) = Cardinality(s) - 1
<1>1. IsFiniteSet(s) /\ Cardinality(s) \in Nat
  BY FS_Subset, FS_CardinalityType
<1>2. Cardinality(s) = 0 <=> s = {}
  BY <1>1, FS_EmptySet
<1>3. ASSUME s # {} PROVE First(s) \in s
  BY <1>3 DEF First
<1>4. ASSUME s # {} PROVE Cardinality(s \ {First(s)}) = Cardinality(s) - 1
  BY <1>1, <1>3, <1>4, FS_RemoveElement
<1> QED
  BY <1>1, <1>2, <1>3, <1>4

(* The recursion defines a sum for every subset.  A function that obeys it   *)
(* for sets of up to n elements yields one for sets of up to n + 1.          *)
LEMMA SumsExist ==
    ASSUME NEW S, IsFiniteSet(S), NEW f, \A x \in S : f[x] \in Int
    PROVE  /\ Sums(f, S) \in [SUBSET S -> Int]
           /\ \A s \in SUBSET S : Sums(f, S)[s] = AddUp(f, Sums(f, S), s)
<1> DEFINE Obeys(g, n) == \A s \in SUBSET S : Cardinality(s) <= n => g[s] = AddUp(f, g, s)
           Good == {n \in Nat : \E g \in [SUBSET S -> Int] : Obeys(g, n)}
<1>1. \A s \in SUBSET S :
         /\ Cardinality(s) \in Nat
         /\ Cardinality(s) = 0 <=> s = {}
         /\ s # {} => /\ First(s) \in s
                      /\ s \ {First(s)} \in SUBSET S
                      /\ Cardinality(s \ {First(s)}) = Cardinality(s) - 1
  BY TakeFirst
<1>2. ASSUME NEW g \in [SUBSET S -> Int], NEW s \in SUBSET S
      PROVE  AddUp(f, g, s) \in Int
  <2>1. CASE s = {}
    BY <2>1 DEF AddUp
  <2>2. CASE s # {}
    <3>1. f[First(s)] \in Int /\ g[s \ {First(s)}] \in Int
      BY <1>1, <2>2
    <3> QED
      BY <2>2, <3>1 DEF AddUp
  <2> QED
    BY <2>1, <2>2
<1>3. 0 \in Good
  <2> DEFINE g == [s \in SUBSET S |-> 0]
  <2>1. g \in [SUBSET S -> Int]
    OBVIOUS
  <2>2. ASSUME NEW s \in SUBSET S, Cardinality(s) <= 0
        PROVE  g[s] = AddUp(f, g, s)
    <3>1. s = {}
      <4>1. Cardinality(s) \in Nat /\ (Cardinality(s) = 0 <=> s = {})
        BY <1>1
      <4> QED
        BY <2>2, <4>1
    <3> QED
      BY <3>1, AddUpCases
  <2> QED
    BY <2>1, <2>2
<1>4. ASSUME NEW n \in Nat, n \in Good PROVE n + 1 \in Good
  <2>1. PICK g \in [SUBSET S -> Int] : Obeys(g, n)
    BY <1>4
  <2> DEFINE h == [s \in SUBSET S |-> AddUp(f, g, s)]
  <2>2. h \in [SUBSET S -> Int]
    BY <1>2
  <2>3. ASSUME NEW s \in SUBSET S, Cardinality(s) <= n + 1
        PROVE  h[s] = AddUp(f, h, s)
    <3>1. CASE s = {}
      BY <3>1 DEF AddUp
    <3>2. CASE s # {}
      <4> DEFINE r == s \ {First(s)}
      <4>1. r \in SUBSET S /\ Cardinality(r) <= n
        BY <1>1, <2>3, <3>2
      <4>2. g[r] = AddUp(f, g, r)
        BY <2>1, <4>1
      <4>3. h[r] = g[r]
        BY <4>1, <4>2
      <4> QED
        BY <3>2, <4>3 DEF AddUp
    <3> QED
      BY <3>1, <3>2
  <2>4. Obeys(h, n + 1)
    BY <2>3
  <2> HIDE DEF h
  <2> QED
    BY <2>2, <2>4
<1>5. PICK g \in [SUBSET S -> Int] : \A s \in SUBSET S : g[s] = AddUp(f, g, s)
  <2>1. Cardinality(S) \in Good
    <3>1. Cardinality(S) \in Nat
      BY FS_CardinalityType
    <3> HIDE DEF Good
    <3> QED
      BY <1>3, <1>4, <3>1, CountingUp
  <2>2. \A s \in SUBSET S : Cardinality(s) <= Cardinality(S)
    BY FS_Subset
  <2> QED
    BY <2>1, <2>2
<1>6. g = [s \in SUBSET S |-> AddUp(f, g, s)]
  BY <1>5
<1> DEFINE sums == Sums(f, S)
<1>7. sums = [s \in SUBSET S |-> AddUp(f, sums, s)]
  BY <1>6 DEF Sums
<1> HIDE DEF sums
<1>8. \A s \in SUBSET S : sums[s] = AddUp(f, sums, s)
  BY <1>7
<1> DEFINE Whole == {n \in Nat : \A s \in SUBSET S : Cardinality(s) = n => sums[s] \in Int}
<1>9. 0 \in Whole
  <2> SUFFICES ASSUME NEW s \in SUBSET S, Cardinality(s) = 0
               PROVE  sums[s] \in Int
    OBVIOUS
  <2>1. s = {}
    BY <1>1
  <2>2. sums[s] = 0
    BY <1>8, <2>1, AddUpCases
  <2> QED
    BY <2>2
<1>10. ASSUME NEW n \in Nat, n \in Whole PROVE n + 1 \in Whole
  <2> SUFFICES ASSUME NEW s \in SUBSET S, Cardinality(s) = n + 1
               PROVE  sums[s] \in Int
    OBVIOUS
  <2>1. s # {} /\ Cardinality(s \ {First(s)}) = n /\ First(s) \in S
    BY <1>1
  <2>2. sums[s \ {First(s)}] \in Int
    BY <1>1, <1>10, <2>1
  <2>3. sums[s] = AddUp(f, sums, s)
    BY <1>8
  <2>4. AddUp(f, sums, s) = f[First(s)] + sums[s \ {First(s)}]
    BY <2>1, AddUpCases
  <2> QED
    BY <2>1, <2>2, <2>3, <2>4
<1>11. \A s \in SUBSET S : sums[s] \in Int
  <2> HIDE DEF Whole
  <2>1. Nat \subseteq Whole
    BY <1>9, <1>10, CountingUp
  <2> QED
    BY <1>1, <2>1 DEF Whole
<1>12. sums \in [SUBSET S -> Int]
  BY <1>7, <1>11
<1> QED
  BY <1>8, <1>12 DEF sums

(* A function that differs in one place has a sum that differs by as much,   *)
(* and the same sum when the place is not added up.                          *)
LEMMA SumChange ==
    ASSUME NEW S, IsFiniteSet(S), NEW f, NEW h, NEW a,
           \A x \in S : f[x] \in Int /\ h[x] \in Int,
           \A x \in S : x # a => h[x] = f[x]
    PROVE  /\ SumFunctionOnSet(f, S) \in Int
           /\ SumFunctionOnSet(h, S) \in Int
           /\ a \in S => SumFunctionOnSet(h, S) = SumFunctionOnSet(f, S) + h[a] - f[a]
           /\ a \notin S => SumFunctionOnSet(h, S) = SumFunctionOnSet(f, S)
<1> DEFINE sf == Sums(f, S)
           sh == Sums(h, S)
           d == IF a \in S THEN h[a] - f[a] ELSE 0
           by(s) == IF a \in s THEN d ELSE 0
           Good == {n \in Nat : \A s \in SUBSET S : Cardinality(s) = n => sh[s] = sf[s] + by(s)}
<1>1. \A s \in SUBSET S :
         /\ Cardinality(s) \in Nat
         /\ Cardinality(s) = 0 <=> s = {}
         /\ s # {} => /\ First(s) \in s
                      /\ s \ {First(s)} \in SUBSET S
                      /\ Cardinality(s \ {First(s)}) = Cardinality(s) - 1
  BY TakeFirst
<1>2. /\ sf \in [SUBSET S -> Int] /\ \A s \in SUBSET S : sf[s] = AddUp(f, sf, s)
      /\ sh \in [SUBSET S -> Int] /\ \A s \in SUBSET S : sh[s] = AddUp(h, sh, s)
  BY SumsExist
<1> HIDE DEF sf, sh
<1>3. 0 \in Good
  <2> SUFFICES ASSUME NEW s \in SUBSET S, Cardinality(s) = 0
               PROVE  sh[s] = sf[s] + by(s)
    OBVIOUS
  <2>1. s = {}
    BY <1>1
  <2>2. sf[s] = 0 /\ sh[s] = 0 /\ by(s) = 0
    BY <1>2, <2>1, AddUpCases
  <2> QED
    BY <2>2
<1>4. ASSUME NEW n \in Nat, n \in Good PROVE n + 1 \in Good
  <2> SUFFICES ASSUME NEW s \in SUBSET S, Cardinality(s) = n + 1
               PROVE  sh[s] = sf[s] + by(s)
    OBVIOUS
  <2> DEFINE x == First(s)
             r == s \ {First(s)}
  <2>1. s # {} /\ x \in s /\ x \in S /\ r \in SUBSET S /\ Cardinality(r) = n
    BY <1>1
  <2>2. sh[r] = sf[r] + by(r)
    BY <1>4, <2>1
  <2>3. sf[s] = f[x] + sf[r] /\ sh[s] = h[x] + sh[r]
    BY <1>2, <2>1, AddUpCases
  <2>4. f[x] \in Int /\ h[x] \in Int /\ sf[r] \in Int /\ sh[r] \in Int
    BY <1>2, <2>1
  <2> HIDE DEF x
  <2>5. CASE x = a
    <3>1. by(s) = h[x] - f[x] /\ by(r) = 0
      BY <2>1, <2>5 DEF x
    <3> HIDE DEF by, r
    <3> QED
      BY <2>2, <2>3, <2>4, <3>1
  <2>6. CASE x # a
    <3>1. by(s) = by(r) /\ h[x] = f[x]
      BY <2>1, <2>6 DEF x
    <3>2. by(r) \in Int
      OBVIOUS
    <3> HIDE DEF by, r
    <3> QED
      BY <2>2, <2>3, <2>4, <3>1, <3>2
  <2> QED
    BY <2>5, <2>6
<1>5. sh[S] = sf[S] + by(S)
  <2> HIDE DEF Good
  <2>1. Nat \subseteq Good
    BY <1>3, <1>4, CountingUp
  <2> QED
    BY <1>1, <2>1 DEF Good
<1>6. SumFunctionOnSet(f, S) = sf[S] /\ SumFunctionOnSet(h, S) = sh[S]
  BY SumIsRecursive DEF sf, sh
<1> QED
  BY <1>2, <1>5, <1>6

(* Nothing adds up to nothing.                                               *)
LEMMA SumOfZeros ==
    ASSUME NEW S, IsFiniteSet(S), NEW f, \A x \in S : f[x] = 0
    PROVE  SumFunctionOnSet(f, S) = 0
<1> DEFINE sums == Sums(f, S)
           Good == {n \in Nat : \A s \in SUBSET S : Cardinality(s) = n => sums[s] = 0}
<1>1. \A s \in SUBSET S :
         /\ Cardinality(s) \in Nat
         /\ Cardinality(s) = 0 <=> s = {}
         /\ s # {} => /\ First(s) \in s
                      /\ s \ {First(s)} \in SUBSET S
                      /\ Cardinality(s \ {First(s)}) = Cardinality(s) - 1
  BY TakeFirst
<1>2. \A s \in SUBSET S : sums[s] = AddUp(f, sums, s)
  <2>1. \A x \in S : f[x] \in Int
    OBVIOUS
  <2> QED
    BY <2>1, SumsExist
<1> HIDE DEF sums
<1>3. 0 \in Good
  <2> SUFFICES ASSUME NEW s \in SUBSET S, Cardinality(s) = 0
               PROVE  sums[s] = 0
    OBVIOUS
  <2>1. s = {}
    BY <1>1
  <2> QED
    BY <1>2, <2>1, AddUpCases
<1>4. ASSUME NEW n \in Nat, n \in Good PROVE n + 1 \in Good
  <2> SUFFICES ASSUME NEW s \in SUBSET S, Cardinality(s) = n + 1
               PROVE  sums[s] = 0
    OBVIOUS
  <2>1. s # {}
    BY <1>1
  <2>2. /\ First(s) \in S /\ s \ {First(s)} \in SUBSET S
        /\ Cardinality(s \ {First(s)}) = n
    BY <1>1, <2>1
  <2>3. sums[s \ {First(s)}] = 0 /\ f[First(s)] = 0
    BY <1>4, <2>2
  <2>4. AddUp(f, sums, s) = f[First(s)] + sums[s \ {First(s)}]
    BY <2>1, AddUpCases
  <2> QED
    BY <1>2, <2>3, <2>4
<1>5. sums[S] = 0
  <2> HIDE DEF Good
  <2>1. Nat \subseteq Good
    BY <1>3, <1>4, CountingUp
  <2> QED
    BY <1>1, <2>1 DEF Good
<1> QED
  BY <1>5, SumIsRecursive DEF sums

-----------------------------------------------------------------------------
(* The limits.                                                               *)

(* What relates the two maps of the pallet to the Claimed events: the count  *)
(* is their number, within the limit, and LastClaim is the block of the last *)
(* one, with all earlier ones at least a cooldown apart.                     *)
ClaimsRecorded ==
    \A a \in Claimants :
        /\ Len(claimed[a]) = ClaimCount[a]
        /\ ClaimCount[a] <= MaxClaimsPerAccount
        /\ LastClaim[a] = None => claimed[a] = <<>>
        /\ \A i \in DOMAIN claimed[a] :
              LastClaim[a] # None /\ claimed[a][i] <= LastClaim[a]
        /\ \A i, j \in DOMAIN claimed[a] :
              i < j => claimed[a][j] - claimed[a][i] >= ClaimCooldown

FaucetInv ==
    /\ TypeOK
    /\ block_number <= LastBlock
    /\ ClaimsRecorded

(* The constants, each of its type. *)
LEMMA Constants ==
    /\ DripAmount \in Nat /\ ClaimCooldown \in Nat /\ MaxClaimsPerAccount \in Nat
    /\ ExistentialDeposit \in Nat /\ Longevity \in Nat
    /\ MaxBlockNumber \in Nat /\ LastBlock \in Nat
    /\ 1 <= LastBlock /\ LastBlock < MaxBlockNumber
    /\ None \notin Nat
    /\ FaucetPot \in Claimants
  BY FaucetAssumption DEF Claimants

(* A transfer that succeeds leaves natural balances, and a source that pays  *)
(* keeps its existential deposit.                                            *)
LEMMA Transfer ==
    ASSUME balance \in [Claimants -> Nat], NEW from \in Claimants, NEW to \in Claimants,
           NEW amount \in Nat, transfer_succeeds(from, to, amount)
    PROVE  /\ moved(from, to, amount) \in [Claimants -> Nat]
           /\ balance[from] >= ExistentialDeposit =>
                 moved(from, to, amount)[from] >= ExistentialDeposit
           /\ \A a \in Claimants :
                 a # from => moved(from, to, amount)[a] >= balance[a]
<1>1. CASE from = to
  BY <1>1, Constants DEF moved
<1>2. CASE from # to
  <2>1. balance[from] \in Nat /\ balance[to] \in Nat
    OBVIOUS
  <2>2. /\ balance[from] - amount \in Nat
        /\ balance[to] + amount \in Nat
        /\ balance[from] >= ExistentialDeposit => balance[from] - amount >= ExistentialDeposit
    BY <1>2, <2>1, Constants DEF transfer_succeeds
  <2>3. moved(from, to, amount) =
           [balance EXCEPT ![from] = balance[from] - amount, ![to] = balance[to] + amount]
    BY <1>2 DEF moved
  <2> QED
    BY <1>2, <2>1, <2>2, <2>3
<1> QED
  BY <1>1, <1>2

(* A fresh faucet: nobody has claimed, whatever the balances. *)
LEMMA FaucetInitInv == FaucetInit /\ balance \in [Claimants -> Nat] => FaucetInv
<1> SUFFICES ASSUME FaucetInit, balance \in [Claimants -> Nat] PROVE FaucetInv
  OBVIOUS
<1>1. 1 \in Blocks
  BY Constants DEF Blocks
<1>2. head \in [number : Blocks, last : [Claimants -> Blocks \cup {None}],
                count : [Claimants -> Nat], pot : Nat]
  BY <1>1, Constants DEF FaucetInit, View
<1>3. TypeOK
  BY <1>1, <1>2 DEF FaucetInit, TypeOK
<1>4. ClaimsRecorded
  BY Constants DEF FaucetInit, ClaimsRecorded
<1> QED
  BY <1>3, <1>4, Constants DEF FaucetInv, FaucetInit

(* A claim that passes its checks is recorded within the limits. *)
LEMMA CountClaim ==
    ASSUME FaucetInv, NEW a \in Claimants, count_claim(a),
           CooldownOver(LastClaim[a], block_number), ClaimsLeft(ClaimCount[a])
    PROVE  /\ LastClaim' \in [Claimants -> Blocks \cup {None}]
           /\ ClaimCount' \in [Claimants -> Nat]
           /\ claimed' \in [Claimants -> Seq(Blocks)]
           /\ ClaimsRecorded'
<1> DEFINE now == block_number
           s == claimed[a]
           t == Append(claimed[a], block_number)
<1>1. /\ now \in Blocks /\ now \in Nat /\ now <= LastBlock
      /\ s \in Seq(Blocks)
      /\ ClaimCount[a] \in Nat
      /\ LastClaim[a] \in Blocks \cup {None}
  BY Constants DEF FaucetInv, TypeOK, Blocks
<1>2. /\ LastClaim' = [LastClaim EXCEPT ![a] = now]
      /\ ClaimCount' = [ClaimCount EXCEPT ![a] = ClaimCount[a] + 1]
      /\ claimed' = [claimed EXCEPT ![a] = t]
  BY DEF count_claim
<1>3. /\ t \in Seq(Blocks)
      /\ Len(t) = Len(s) + 1
      /\ \A i \in 1 .. Len(s) : t[i] = s[i]
      /\ t[Len(s) + 1] = now
  BY <1>1, AppendProperties
<1>4. Len(s) \in Nat /\ DOMAIN s = 1 .. Len(s) /\ DOMAIN t = 1 .. Len(s) + 1
  BY <1>1, <1>3, LenProperties
<1>5. /\ LastClaim' \in [Claimants -> Blocks \cup {None}]
      /\ ClaimCount' \in [Claimants -> Nat]
      /\ claimed' \in [Claimants -> Seq(Blocks)]
  BY <1>1, <1>2, <1>3 DEF FaucetInv, TypeOK
<1>6. /\ LastClaim'[a] = now /\ ClaimCount'[a] = ClaimCount[a] + 1 /\ claimed'[a] = t
      /\ \A b \in Claimants : b # a =>
            LastClaim'[b] = LastClaim[b] /\ ClaimCount'[b] = ClaimCount[b] /\ claimed'[b] = claimed[b]
  BY <1>2 DEF FaucetInv, TypeOK
<1>7. ASSUME NEW i \in DOMAIN s
      PROVE  s[i] \in Nat /\ now - s[i] >= ClaimCooldown
  <2>1. LastClaim[a] # None /\ s[i] <= LastClaim[a]
    <3>1. ClaimsRecorded /\ i \in DOMAIN claimed[a]
      BY DEF FaucetInv
    <3>2. LastClaim[a] # None /\ claimed[a][i] <= LastClaim[a]
      BY <3>1 DEF ClaimsRecorded
    <3> QED
      BY <3>2
  <2>2. LastClaim[a] \in Nat /\ s[i] \in Nat
    <3>1. s[i] \in Blocks
      BY <1>1, <1>4, ElementOfSeq
    <3>2. LastClaim[a] \in Blocks
      BY <1>1, <2>1
    <3> QED
      BY <3>1, <3>2, Constants DEF Blocks
  <2>3. now >= saturating_add(LastClaim[a], ClaimCooldown)
    BY <2>1 DEF CooldownOver
  <2>4. now >= LastClaim[a] + ClaimCooldown
    BY <1>1, <2>2, <2>3, Constants DEF saturating_add
  <2> QED
    BY <1>1, <2>1, <2>2, <2>4, Constants
<1>8. Len(t) = ClaimCount[a] + 1 /\ ClaimCount[a] + 1 <= MaxClaimsPerAccount
  BY <1>1, <1>3, Constants DEF FaucetInv, ClaimsRecorded, ClaimsLeft
<1>9. ASSUME NEW i \in DOMAIN t
      PROVE  t[i] <= now
  <2>1. CASE i \in DOMAIN s
    BY <1>1, <1>3, <1>4, <1>7, <2>1, Constants
  <2>2. CASE i = Len(s) + 1
    BY <1>1, <1>3, <2>2
  <2> QED
    BY <1>4, <2>1, <2>2
<1>10. ASSUME NEW i \in DOMAIN t, NEW j \in DOMAIN t, i < j
       PROVE  t[j] - t[i] >= ClaimCooldown
  <2>1. i \in DOMAIN s
    BY <1>4, <1>10
  <2>2. CASE j \in DOMAIN s
    BY <1>3, <1>4, <1>10, <2>1, <2>2 DEF FaucetInv, ClaimsRecorded
  <2>3. CASE j = Len(s) + 1
    BY <1>3, <1>4, <1>7, <2>1, <2>3
  <2> QED
    BY <1>4, <2>2, <2>3
<1>11. now # None
  BY <1>1, Constants
<1>12. ASSUME NEW b \in Claimants
       PROVE  /\ Len(claimed'[b]) = ClaimCount'[b]
              /\ ClaimCount'[b] <= MaxClaimsPerAccount
              /\ LastClaim'[b] = None => claimed'[b] = <<>>
              /\ \A i \in DOMAIN claimed'[b] :
                    LastClaim'[b] # None /\ claimed'[b][i] <= LastClaim'[b]
              /\ \A i, j \in DOMAIN claimed'[b] :
                    i < j => claimed'[b][j] - claimed'[b][i] >= ClaimCooldown
  <2> HIDE DEF t, s, now
  <2>1. CASE b = a
    BY <1>6, <1>8, <1>9, <1>10, <1>11, <2>1
  <2>2. CASE b # a
    BY <1>6, <2>2 DEF FaucetInv, ClaimsRecorded
  <2> QED
    BY <2>1, <2>2
<1> QED
  BY <1>5, <1>12 DEF ClaimsRecorded

(* Blocks, and claims on their way through the pool, preserve the invariant. *)
LEMMA ClaimStepInv ==
    ASSUME FaucetInv,
           \/ next_block
           \/ \E a \in Claimants : admit(a) \/ revalidate(a) \/ include(a)
    PROVE  FaucetInv'
<1>1. CASE next_block
  <2>1. block_number' \in Blocks /\ block_number' <= LastBlock
    BY <1>1, Constants DEF next_block, FaucetInv, TypeOK, Blocks
  <2>2. head' \in [number : Blocks, last : [Claimants -> Blocks \cup {None}],
                   count : [Claimants -> Nat], pot : Nat]
    BY <1>1, <2>1, Constants DEF next_block, View, FaucetInv, TypeOK
  <2>3. pool' \in [Claimants -> Nat \cup {None}]
    BY <1>1 DEF next_block, FaucetInv, TypeOK
  <2> QED
    BY <1>1, <2>1, <2>2, <2>3
       DEF next_block, chainVars, FaucetInv, TypeOK, ClaimsRecorded
<1>2. ASSUME NEW a \in Claimants, admit(a)
      PROVE  FaucetInv'
  <2>1. head.number + Longevity \in Nat
    BY Constants DEF FaucetInv, TypeOK, Blocks
  <2> QED
    BY <1>2, <2>1 DEF admit, chainVars, FaucetInv, TypeOK, ClaimsRecorded
<1>3. ASSUME NEW a \in Claimants, revalidate(a)
      PROVE  FaucetInv'
  BY <1>3 DEF revalidate, chainVars, FaucetInv, TypeOK, ClaimsRecorded
<1>4. ASSUME NEW a \in Claimants, include(a)
      PROVE  FaucetInv'
  <2>1. pool' \in [Claimants -> Nat \cup {None}] /\ UNCHANGED <<block_number, head, funded>>
    BY <1>4 DEF include, FaucetInv, TypeOK
  <2>2. CASE UNCHANGED <<chainVars, claimed>>
    <3>1. outcome' \in {"None", "Ok", "ClaimTooSoon", "MaxClaimsReached", "FaucetEmpty", "Transfer"}
      BY <1>4 DEF include, claim, claim_error, FaucetInv, TypeOK
    <3> QED
      BY <2>1, <2>2, <3>1 DEF chainVars, FaucetInv, TypeOK, ClaimsRecorded
  <2>3. CASE claim(a) /\ claim_error(a) = "Ok"
    <3>1. /\ CooldownOver(LastClaim[a], block_number)
          /\ ClaimsLeft(ClaimCount[a])
          /\ transfer_succeeds(FaucetPot, a, DripAmount)
      BY <2>3 DEF claim_error
    <3>2. outcome' = "Ok" /\ balance' = moved(FaucetPot, a, DripAmount) /\ count_claim(a)
      BY <2>3 DEF claim
    <3>3. balance' \in [Claimants -> Nat]
      BY <3>1, <3>2, Transfer, Constants DEF FaucetInv, TypeOK
    <3>4. /\ LastClaim' \in [Claimants -> Blocks \cup {None}]
          /\ ClaimCount' \in [Claimants -> Nat]
          /\ claimed' \in [Claimants -> Seq(Blocks)]
          /\ ClaimsRecorded'
      BY <3>1, <3>2, CountClaim
    <3> QED
      BY <2>1, <3>2, <3>3, <3>4 DEF FaucetInv, TypeOK
  <2> QED
    BY <1>4, <2>2, <2>3 DEF include, claim
<1> QED
  BY <1>1, <1>2, <1>3, <1>4

(* Every step of the faucet and of the pool preserves the invariant. *)
LEMMA FaucetNextInv == FaucetInv /\ [Next]_vars => FaucetInv'
<1> SUFFICES ASSUME FaucetInv, [Next]_vars PROVE FaucetInv'
  OBVIOUS
<1>1. ASSUME NEW a \in Accounts, NEW n \in FundAmounts, fund_faucet(a, n)
      PROVE  FaucetInv'
  <2>1. a \in Claimants /\ n \in Nat
    BY FaucetAssumption DEF Claimants
  <2>2. balance' \in [Claimants -> Nat] /\ funded' \in Nat
    BY <1>1, <2>1, Transfer, Constants DEF fund_faucet, FaucetInv, TypeOK
  <2> QED
    BY <1>1, <2>2 DEF fund_faucet, FaucetInv, TypeOK, ClaimsRecorded
<1>2. CASE UNCHANGED vars
  BY <1>2 DEF vars, chainVars, FaucetInv, TypeOK, ClaimsRecorded
<1> QED
  BY <1>1, <1>2, ClaimStepInv DEF Next

(* The inductive invariant holds in every reachable state. *)
THEOREM FaucetInvariance == Spec => []FaucetInv
<1>1. Init => FaucetInv
  BY FaucetInitInv, FaucetAssumption DEF Init
<1> QED
  BY <1>1, FaucetNextInv, PTL DEF Spec

(* Every storage item keeps its type: in particular no balance is overdrawn. *)
THEOREM FaucetTypeCorrect == Spec => []TypeOK
<1>1. FaucetInv => TypeOK
  BY DEF FaucetInv
<1> QED
  BY <1>1, FaucetInvariance, PTL

(* Nobody is paid more often than the lifetime limit or twice in a cooldown, *)
(* and remaining_claims is what is left, for a pool view of any age.         *)
THEOREM ClaimsStayLimited == Spec => []ClaimsLimited
<1>1. FaucetInv => ClaimsLimited
  BY Constants DEF FaucetInv, TypeOK, ClaimsRecorded, ClaimsLimited, remaining_claims
<1> QED
  BY <1>1, FaucetInvariance, PTL

(* A claim that is put into a block passed the checks in that very state.    *)
LEMMA ClaimStepChecks ==
    ASSUME FaucetInv, IncludedClaimPassesChecks,
           \/ next_block
           \/ \E a \in Claimants : admit(a) \/ revalidate(a) \/ include(a)
    PROVE  IncludedClaimPassesChecks'
<1>1. CASE UNCHANGED outcome
  BY <1>1 DEF IncludedClaimPassesChecks
<1>2. ASSUME NEW a \in Claimants, pre_dispatch(a), claim(a)
      PROVE  IncludedClaimPassesChecks'
  <2>1. /\ CooldownOver(LastClaim[a], block_number)
        /\ ClaimsLeft(ClaimCount[a])
        /\ balance[FaucetPot] >= DripAmount
    BY <1>2 DEF pre_dispatch, validate_unsigned, View
  <2>2. ~(balance[FaucetPot] < DripAmount) => outcome' \in {"Transfer", "Ok"}
    BY <1>2, <2>1 DEF claim, claim_error
  <2>3. ~(balance[FaucetPot] < DripAmount)
    BY <2>1, Constants DEF FaucetInv, TypeOK
  <2> QED
    BY <2>2, <2>3 DEF IncludedClaimPassesChecks
<1> QED
  BY <1>1, <1>2 DEF next_block, admit, revalidate, include

(* The checks inside `claim` repeat what pre_dispatch established in the same *)
(* state: none of them ever fails in a block.                                *)
THEOREM ChecksNeverFailInBlock == Spec => []IncludedClaimPassesChecks
<1>1. Init => IncludedClaimPassesChecks
  BY DEF Init, FaucetInit, IncludedClaimPassesChecks
<1>2. FaucetInv /\ IncludedClaimPassesChecks /\ [Next]_vars => IncludedClaimPassesChecks'
  <2>1. ASSUME IncludedClaimPassesChecks, UNCHANGED outcome
        PROVE  IncludedClaimPassesChecks'
    BY <2>1 DEF IncludedClaimPassesChecks
  <2> QED
    BY <2>1, ClaimStepChecks DEF Next, vars, fund_faucet
<1> QED
  BY <1>1, <1>2, FaucetInvariance, PTL DEF Spec

(* A claim that pays leaves the pot with its existential deposit.            *)
LEMMA ClaimLeavesPot ==
    ASSUME FaucetInv, balance[FaucetPot] >= ExistentialDeposit,
           \/ next_block
           \/ \E a \in Claimants : admit(a) \/ revalidate(a) \/ include(a)
    PROVE  balance'[FaucetPot] >= ExistentialDeposit
<1>1. CASE UNCHANGED balance
  BY <1>1
<1>2. ASSUME NEW a \in Claimants, claim(a), claim_error(a) = "Ok"
      PROVE  balance'[FaucetPot] >= ExistentialDeposit
  <2>1. transfer_succeeds(FaucetPot, a, DripAmount)
    BY <1>2 DEF claim_error
  <2> QED
    BY <1>2, <2>1, Transfer, Constants DEF claim, FaucetInv, TypeOK
<1> QED
  BY <1>1, <1>2 DEF chainVars, next_block, admit, revalidate, include, claim

(* No claim and no funding takes an existing pot below its existential       *)
(* deposit.                                                                  *)
THEOREM PotIsNeverReaped == Spec => PotOutlivesClaims
<1> DEFINE Step == balance[FaucetPot] >= ExistentialDeposit
                      => balance'[FaucetPot] >= ExistentialDeposit
<1>1. FaucetInv /\ [Next]_vars => [Step]_vars
  <2> SUFFICES ASSUME FaucetInv, [Next]_vars, balance[FaucetPot] >= ExistentialDeposit
               PROVE  balance'[FaucetPot] >= ExistentialDeposit
    OBVIOUS
  <2>1. CASE UNCHANGED balance
    BY <2>1
  <2>2. ASSUME NEW a \in Accounts, NEW n \in FundAmounts, fund_faucet(a, n)
        PROVE  balance'[FaucetPot] >= ExistentialDeposit
    <3>1. a \in Claimants /\ a # FaucetPot /\ n \in Nat
      BY FaucetAssumption DEF Claimants
    <3>2. balance[FaucetPot] \in Nat
      BY Constants DEF FaucetInv, TypeOK
    <3>3. CASE transfer_succeeds(a, FaucetPot, n)
      <4>1. moved(a, FaucetPot, n) \in [Claimants -> Nat]
            /\ moved(a, FaucetPot, n)[FaucetPot] >= balance[FaucetPot]
        BY <3>1, <3>3, Transfer, Constants DEF FaucetInv, TypeOK
      <4>2. balance' = moved(a, FaucetPot, n)
        BY <2>2, <3>3 DEF fund_faucet
      <4>3. balance'[FaucetPot] \in Nat /\ balance'[FaucetPot] >= balance[FaucetPot]
        BY <4>1, <4>2, Constants
      <4> QED
        BY <3>2, <4>3, Constants
    <3> QED
      BY <2>1, <2>2, <3>3 DEF fund_faucet
  <2> QED
    BY <2>1, <2>2, ClaimLeavesPot DEF Next, vars, chainVars
<1> QED
  BY <1>1, FaucetInvariance, PTL DEF Spec, PotOutlivesClaims

-----------------------------------------------------------------------------
(* The ledger of the pot.                                                    *)

(* One drip more, or one funding.                                            *)
LEMMA LedgerArithmetic ==
    ASSUME NEW d \in Int, NEW n \in Int
    PROVE  d * n \in Int /\ d * (n + 1) = d * n + d
  OBVIOUS

(* A claim takes one drip from the pot for an account, and nothing when it   *)
(* is the pot's own.                                                         *)
LEMMA ClaimKeepsLedger ==
    ASSUME FaucetInv, PotLedger, NEW a \in Claimants, claim(a), claim_error(a) = "Ok",
           funded' = funded
    PROVE  PotLedger'
<1> DEFINE before == SumFunctionOnSet(ClaimCount, Accounts)
           after == SumFunctionOnSet(ClaimCount', Accounts)
<1>1. /\ balance' = moved(FaucetPot, a, DripAmount)
      /\ ClaimCount' = [ClaimCount EXCEPT ![a] = ClaimCount[a] + 1]
  BY DEF claim, count_claim
<1>2. /\ ClaimCount \in [Claimants -> Nat] /\ balance \in [Claimants -> Nat]
      /\ funded \in Nat /\ Genesis[FaucetPot] \in Nat
  BY FaucetAssumption, Constants DEF FaucetInv, TypeOK
<1>3. \A x \in Accounts : ClaimCount[x] \in Int /\ ClaimCount'[x] \in Int
  BY <1>1, <1>2 DEF Claimants
<1>4. \A x \in Accounts : x # a => ClaimCount'[x] = ClaimCount[x]
  BY <1>1, <1>2 DEF Claimants
<1>5. /\ before \in Int /\ after \in Int
      /\ a \in Accounts => after = before + ClaimCount'[a] - ClaimCount[a]
      /\ a \notin Accounts => after = before
  BY <1>3, <1>4, SumChange, FaucetAssumption
<1> HIDE DEF before, after
<1>6. balance[FaucetPot] + DripAmount * before = Genesis[FaucetPot] + funded
  BY DEF PotLedger, before
<1>7. balance[FaucetPot] \in Int /\ DripAmount \in Int
  BY <1>2, Constants
<1>8. balance'[FaucetPot] + DripAmount * after = Genesis[FaucetPot] + funded
  <2>1. CASE a = FaucetPot
    <3>1. balance'[FaucetPot] = balance[FaucetPot] /\ after = before
      BY <1>1, <1>5, <2>1, FaucetAssumption DEF moved
    <3> QED
      BY <1>6, <3>1
  <2>2. CASE a # FaucetPot
    <3>1. a \in Accounts /\ ClaimCount'[a] = ClaimCount[a] + 1 /\ ClaimCount[a] \in Int
      BY <1>1, <1>2, <2>2 DEF Claimants
    <3>2. balance'[FaucetPot] = balance[FaucetPot] - DripAmount
      BY <1>1, <1>2, <2>2, Constants DEF moved
    <3>3. after = before + 1
      BY <1>5, <3>1
    <3>4. DripAmount * before \in Int /\ DripAmount * after = DripAmount * before + DripAmount
      BY <1>5, <1>7, <3>3, LedgerArithmetic
    <3> QED
      BY <1>2, <1>6, <1>7, <3>2, <3>4
  <2> QED
    BY <2>1, <2>2
<1> QED
  BY <1>8 DEF PotLedger, after

(* The pot accounts for every unit, for any number of accounts, claims and   *)
(* fundings: what it paid is one drip for each claim that was counted.       *)
THEOREM PotAccountsForAll == Spec => []PotLedger
<1>1. Init => PotLedger
  <2> SUFFICES ASSUME Init PROVE PotLedger
    OBVIOUS
  <2>1. SumFunctionOnSet(ClaimCount, Accounts) = 0
    <3>1. \A x \in Accounts : ClaimCount[x] = 0
      BY DEF Init, FaucetInit, Claimants
    <3> QED
      BY <3>1, SumOfZeros, FaucetAssumption
  <2>2. balance[FaucetPot] = Genesis[FaucetPot] /\ funded = 0
        /\ Genesis[FaucetPot] \in Nat /\ DripAmount \in Nat
    BY FaucetAssumption, Constants DEF Init, FaucetInit
  <2> QED
    BY <2>1, <2>2 DEF PotLedger
<1>2. FaucetInv /\ PotLedger /\ [Next]_vars => PotLedger'
  <2> SUFFICES ASSUME FaucetInv, PotLedger, [Next]_vars PROVE PotLedger'
    OBVIOUS
  <2>1. CASE UNCHANGED <<balance, ClaimCount, funded>>
    BY <2>1 DEF PotLedger
  <2>2. ASSUME NEW a \in Claimants, include(a)
        PROVE  PotLedger'
    <3>1. CASE claim(a) /\ claim_error(a) = "Ok"
      BY <2>2, <3>1, ClaimKeepsLedger DEF include
    <3> QED
      BY <2>1, <2>2, <3>1 DEF include, claim, chainVars
  <2>3. ASSUME NEW a \in Accounts, NEW n \in FundAmounts, fund_faucet(a, n)
        PROVE  PotLedger'
    <3>1. CASE UNCHANGED <<balance, funded>>
      BY <2>1, <2>3, <3>1 DEF fund_faucet
    <3>2. CASE balance' = moved(a, FaucetPot, n) /\ funded' = funded + n
      <4>1. /\ a \in Claimants /\ a # FaucetPot /\ n \in Nat
            /\ balance \in [Claimants -> Nat] /\ funded \in Nat
            /\ Genesis[FaucetPot] \in Nat /\ FaucetPot \in Claimants
        BY FaucetAssumption, Constants DEF Claimants, FaucetInv, TypeOK
      <4>2. balance'[FaucetPot] = balance[FaucetPot] + n
        BY <3>2, <4>1 DEF moved
      <4> DEFINE paid_out == DripAmount * SumFunctionOnSet(ClaimCount, Accounts)
      <4>3. paid_out \in Int
        <5>1. \A x \in Accounts : ClaimCount[x] \in Int
          BY DEF FaucetInv, TypeOK, Claimants
        <5>2. SumFunctionOnSet(ClaimCount, Accounts) \in Int
          BY <5>1, SumChange, FaucetAssumption
        <5> QED
          BY <5>2, LedgerArithmetic, Constants
      <4>4. balance[FaucetPot] + paid_out = Genesis[FaucetPot] + funded
        BY DEF PotLedger
      <4> HIDE DEF paid_out
      <4>5. balance'[FaucetPot] + paid_out = Genesis[FaucetPot] + (funded + n)
        BY <4>1, <4>2, <4>3, <4>4
      <4>6. ClaimCount' = ClaimCount
        BY <2>3 DEF fund_faucet
      <4> QED
        BY <3>2, <4>5, <4>6 DEF PotLedger, paid_out
    <3> QED
      BY <2>3, <3>1, <3>2 DEF fund_faucet
  <2> QED
    BY <2>1, <2>2, <2>3 DEF Next, vars, chainVars, next_block, admit, revalidate
<1> QED
  BY <1>1, <1>2, FaucetInvariance, PTL DEF Spec

-----------------------------------------------------------------------------
(* The runtime. *)

(* Every balance is none or at least the existential deposit, and an account *)
(* without one has no nonce.                                                 *)
AccountsExist ==
    \A a \in Claimants :
        /\ balance[a] > 0 => balance[a] >= ExistentialDeposit
        /\ nonce[a] > 0 => balance[a] > 0

SystemTypeOK ==
    /\ nonce \in [Claimants -> 0 .. MaxNonce]
    /\ sudo_key \in ChainSpecs!Holders
    /\ life \in [Claimants -> 0 .. MaxLives]
    /\ ran \in [Claimants -> Seq([life : 0 .. MaxLives, nonce : 0 .. MaxNonce])]

(* x comes before y: of an earlier life, or of the same with a lower nonce.   *)
Earlier(x, y) == x.life < y.life \/ (x.life = y.life /\ x.nonce < y.nonce)

(* What an account signed next comes after all it ran.                       *)
NextOf(a) == [life |-> life[a], nonce |-> nonce[a]]

RanIsPast == \A a \in Claimants : \A i \in DOMAIN ran[a] : Earlier(ran[a][i], NextOf(a))

RuntimeInv == FaucetInv /\ SystemTypeOK /\ AccountsExist /\ RanIsPast /\ OncePerLife

(* The constants of the runtime, each of its type. *)
LEMMA RuntimeConstants ==
    /\ Fee \in Nat /\ MaxNonce \in Nat /\ MaxLives \in Nat
    /\ ExistentialDeposit \in Nat /\ 1 <= ExistentialDeposit
    /\ DripAmount \in Nat
    /\ FundAmounts \subseteq Nat /\ Amounts \subseteq Nat
    /\ Accounts \subseteq ChainSpecs!Holders
    /\ Accounts \subseteq Claimants /\ FaucetPot \in Claimants /\ FaucetPot \notin Accounts
  BY RuntimeAssumption, FaucetAssumption DEF Claimants

(* What a call that moves something names: an account it takes from, the     *)
(* signer's own unless the call is wrapped, and another that it gives to.    *)
LEMMA CallShape ==
    ASSUME TypeOK, NEW who \in Accounts, NEW call \in Calls(who), call.kind \in Moving
    PROVE  /\ call.from \in Claimants /\ call.amount \in Nat
           /\ call.kind \notin Wrapped => call.from = who
           /\ call.kind \in Transfers => call.to \in Claimants /\ call.to # call.from
<1> USE DEF Moving, Transfers, Wrapped
<1>1. who \in Claimants /\ who # FaucetPot
  BY RuntimeConstants
<1>2. CASE call \in [kind : {"transfer"}, from : {who}, to : Claimants \ {who},
                     amount : Amounts \cup ({balance[who] - Fee} \cap Nat)]
  BY <1>1, <1>2, RuntimeConstants
<1>3. CASE call \in [kind : {"fund_faucet"}, from : {who}, to : {FaucetPot},
                     amount : FundAmounts]
  BY <1>1, <1>3, RuntimeConstants
<1>4. CASE call \in [kind : {"burn"}, from : {who}, amount : Amounts]
  BY <1>1, <1>4, RuntimeConstants
<1>5. CASE call \in {c \in [kind : {"force_transfer"}, from : Claimants, to : Claimants,
                            amount : Amounts] : c.from # c.to}
  BY <1>5, RuntimeConstants
<1>6. CASE call \in [kind : {"force_set_balance"}, from : Claimants, amount : Amounts \cup {0}]
  BY <1>6, RuntimeConstants
<1>7. CASE \/ call \in [kind : {"worker", "claim", "request", "sudo"}]
           \/ call \in [kind : {"set_key"}, key : Accounts]
  BY <1>7
<1> QED
  BY <1>2, <1>3, <1>4, <1>5, <1>6, <1>7 DEF Calls

(* Balances of which each is none or at least the existential deposit.       *)
Sound(b) ==
    /\ b \in [Claimants -> Nat]
    /\ \A a \in Claimants : b[a] = 0 \/ b[a] >= ExistentialDeposit

(* The fee leaves its payer the deposit. *)
LEMMA Charge ==
    ASSUME TypeOK, AccountsExist, NEW who \in Accounts, NEW call,
           ChargeTransactionPayment(who, call)
    PROVE  /\ Sound(balance) /\ Sound(charged(who, call))
           /\ fee(call) \in Nat
           /\ charged(who, call)[who] = balance[who] - fee(call)
           /\ \A a \in Claimants : a # who => charged(who, call)[a] = balance[a]
<1>1. balance \in [Claimants -> Nat] /\ who \in Claimants /\ balance[who] \in Nat
  BY RuntimeConstants DEF TypeOK
<1>2. fee(call) \in Nat
  BY RuntimeConstants DEF fee
<1>3. Sound(balance)
  BY <1>1 DEF Sound, AccountsExist
<1>4. balance[who] - fee(call) \in Nat
      /\ (fee(call) > 0 => balance[who] - fee(call) >= ExistentialDeposit)
  BY <1>1, <1>2, RuntimeConstants DEF ChargeTransactionPayment
<1>5. charged(who, call) = [balance EXCEPT ![who] = balance[who] - fee(call)]
  BY DEF charged
<1>6. /\ charged(who, call) \in [Claimants -> Nat]
      /\ charged(who, call)[who] = balance[who] - fee(call)
      /\ \A a \in Claimants : a # who => charged(who, call)[a] = balance[a]
  BY <1>1, <1>4, <1>5
<1>7. balance[who] - fee(call) = 0 \/ balance[who] - fee(call) >= ExistentialDeposit
  BY <1>1, <1>2, <1>3, <1>4 DEF Sound
<1> QED
  BY <1>2, <1>3, <1>6, <1>7 DEF Sound

(* A call that moves something takes it from one account, what it leaves     *)
(* below the deposit included, and gives it to another.                      *)
LEMMA MovedBy ==
    ASSUME TypeOK, NEW who \in Accounts, NEW call \in Calls(who), call.kind \in Moving,
           NEW b, Sound(b), enough(b, call)
    PROVE  /\ Sound(moved_by(b, call))
           /\ rest(b, call) \in Nat
           /\ moved_by(b, call)[call.from] = rest(b, call) - dust(rest(b, call))
           /\ call.kind \in Transfers => moved_by(b, call)[call.to] = b[call.to] + call.amount
           /\ \A a \in Claimants :
                 a # call.from /\ ~(call.kind \in Transfers /\ a = call.to)
                    => moved_by(b, call)[a] = b[a]
<1> DEFINE r == rest(b, call)
           kept == IF r < ExistentialDeposit THEN 0 ELSE r
           debited == [b EXCEPT ![call.from] = kept]
<1>1. /\ call.from \in Claimants /\ call.amount \in Nat
      /\ call.kind \in Transfers => call.to \in Claimants /\ call.to # call.from
  BY CallShape
<1>2. b \in [Claimants -> Nat] /\ b[call.from] \in Nat /\ ExistentialDeposit \in Nat
  BY <1>1, RuntimeConstants DEF Sound
<1>3. r \in Nat
  BY <1>1, <1>2 DEF rest, enough
<1>4. kept \in Nat /\ (kept = 0 \/ kept >= ExistentialDeposit) /\ kept = r - dust(r)
  BY <1>2, <1>3 DEF dust
<1>5. /\ moved_by(b, call) = IF call.kind \in Transfers
                            THEN [debited EXCEPT ![call.to] = debited[call.to] + call.amount]
                            ELSE debited
  BY DEF moved_by
<1> HIDE DEF r, kept
<1>6. /\ debited \in [Claimants -> Nat] /\ debited[call.from] = kept
      /\ \A a \in Claimants : a # call.from => debited[a] = b[a]
  BY <1>1, <1>2, <1>4
<1>7. Sound(debited)
  BY <1>4, <1>6 DEF Sound
<1> HIDE DEF debited
<1>8. CASE call.kind \in Transfers
  <2>1. /\ call.to \in Claimants /\ call.to # call.from /\ debited[call.to] = b[call.to]
        /\ b[call.to] \in Nat /\ b[call.to] + call.amount >= ExistentialDeposit
    BY <1>1, <1>2, <1>6, <1>8 DEF enough
  <2>2. moved_by(b, call) = [debited EXCEPT ![call.to] = b[call.to] + call.amount]
    BY <1>5, <1>8, <2>1
  <2>3. /\ moved_by(b, call) \in [Claimants -> Nat]
        /\ moved_by(b, call)[call.to] = b[call.to] + call.amount
        /\ \A a \in Claimants : a # call.to => moved_by(b, call)[a] = debited[a]
    BY <1>1, <1>6, <2>1, <2>2
  <2>4. Sound(moved_by(b, call))
    BY <1>7, <2>1, <2>3 DEF Sound
  <2>5. moved_by(b, call)[call.from] = kept
    BY <1>1, <1>6, <2>1, <2>3
  <2>6. \A a \in Claimants : a # call.from /\ a # call.to => moved_by(b, call)[a] = b[a]
    BY <1>6, <2>3
  <2> QED
    BY <1>3, <1>4, <1>8, <2>3, <2>4, <2>5, <2>6 DEF r
<1>9. CASE call.kind \notin Transfers
  BY <1>3, <1>4, <1>5, <1>6, <1>7, <1>9 DEF r
<1> QED
  BY <1>8, <1>9

(* Whatever is dispatched and refunded, no balance is overdrawn and none is  *)
(* left below the deposit.                                                   *)
LEMMA After ==
    ASSUME TypeOK, AccountsExist, NEW who \in Accounts, NEW call \in Calls(who),
           ChargeTransactionPayment(who, call)
    PROVE  Sound(dispatched(who, call)) /\ Sound(balances_after(who, call))
<1>1. Sound(charged(who, call)) /\ fee(call) \in Nat /\ who \in Claimants
  BY Charge, RuntimeConstants
<1>2. Sound(dispatched(who, call))
  BY <1>1, MovedBy DEF dispatched, moves
<1> DEFINE d == dispatched(who, call)
<1>3. refunded(who, call) => d[who] > 0
  BY DEF refunded
<1>4. balances_after(who, call) = IF refunded(who, call) THEN [d EXCEPT ![who] = d[who] + fee(call)]
                         ELSE d
  BY DEF balances_after
<1>5. d \in [Claimants -> Nat] /\ \A a \in Claimants : d[a] = 0 \/ d[a] >= ExistentialDeposit
  BY <1>2 DEF Sound
<1> HIDE DEF d
<1>6. CASE refunded(who, call)
  <2>1. d[who] \in Nat /\ d[who] + fee(call) \in Nat /\ d[who] + fee(call) >= ExistentialDeposit
    BY <1>1, <1>3, <1>5, <1>6, RuntimeConstants
  <2>2. /\ balances_after(who, call) \in [Claimants -> Nat]
        /\ balances_after(who, call)[who] = d[who] + fee(call)
        /\ \A a \in Claimants : a # who => balances_after(who, call)[a] = d[a]
    BY <1>1, <1>4, <1>5, <1>6, <2>1
  <2> QED
    BY <1>2, <1>5, <2>1, <2>2 DEF Sound
<1>7. CASE ~refunded(who, call)
  BY <1>2, <1>4, <1>7 DEF d
<1> QED
  BY <1>6, <1>7

(* A transfer of the faucet leaves each account with at least the deposit,   *)
(* or as it was.                                                             *)
LEMMA TransferLeavesDeposit ==
    ASSUME balance \in [Claimants -> Nat], NEW from \in Claimants, NEW to \in Claimants,
           NEW amount \in Nat, transfer_succeeds(from, to, amount), NEW a \in Claimants
    PROVE  \/ moved(from, to, amount)[a] = balance[a]
           \/ moved(from, to, amount)[a] >= ExistentialDeposit
<1>1. balance[from] \in Nat /\ balance[to] \in Nat /\ ExistentialDeposit \in Nat
  BY RuntimeConstants
<1>2. CASE from = to
  BY <1>2 DEF moved
<1>3. CASE from # to
  <2>1. moved(from, to, amount) =
           [balance EXCEPT ![from] = balance[from] - amount, ![to] = balance[to] + amount]
    BY <1>3 DEF moved
  <2>2. amount = 0 \/ /\ balance[from] - amount >= ExistentialDeposit
                      /\ balance[to] + amount >= ExistentialDeposit
    BY <1>3 DEF transfer_succeeds
  <2> QED
    BY <1>1, <1>3, <2>1, <2>2
<1> QED
  BY <1>2, <1>3

-----------------------------------------------------------------------------
(* The invariant of the runtime. *)

(* Every genesis starts without nonces, on endowments of at least the        *)
(* existential deposit.                                                      *)
LEMMA RuntimeInitInv == RuntimeInit => RuntimeInv
<1> SUFFICES ASSUME RuntimeInit PROVE RuntimeInv
  OBVIOUS
<1>1. PICK spec \in Specs :
         /\ balance = [a \in Claimants |-> ChainSpecs!genesis[spec].endowed[a]]
         /\ sudo_key = ChainSpecs!genesis[spec].sudo
  BY DEF RuntimeInit
<1>2. /\ sudo_key \in ChainSpecs!Holders
      /\ \A a \in Claimants :
            balance[a] \in Nat /\ (balance[a] > 0 => balance[a] >= ExistentialDeposit)
  BY <1>1, RuntimeAssumption
<1>3. balance \in [Claimants -> Nat]
  BY <1>1, <1>2
<1>4. FaucetInv
  BY <1>3, FaucetInitInv DEF RuntimeInit
<1>5. SystemTypeOK
  BY <1>2, RuntimeConstants DEF RuntimeInit, SystemTypeOK
<1>6. AccountsExist
  BY <1>2 DEF RuntimeInit, AccountsExist
<1>7. RanIsPast /\ OncePerLife
  <2>1. \A a \in Claimants : DOMAIN ran[a] = {}
    BY DEF RuntimeInit
  <2> QED
    BY <2>1 DEF RanIsPast, OncePerLife
<1> QED
  BY <1>4, <1>5, <1>6, <1>7 DEF RuntimeInv

(* A step that leaves nonces, lives and history alone keeps what they say.    *)
LEMMA HistoryUntouched ==
    ASSUME SystemTypeOK, RanIsPast, OncePerLife, UNCHANGED <<nonce, sudo_key, life, ran>>
    PROVE  SystemTypeOK' /\ RanIsPast' /\ OncePerLife'
<1>1. SystemTypeOK'
  BY DEF SystemTypeOK
<1>2. RanIsPast'
  <2>1. ASSUME NEW a \in Claimants, NEW i \in DOMAIN ran'[a]
        PROVE  Earlier(ran'[a][i], NextOf(a)')
    <3>1. Earlier(ran[a][i], NextOf(a))
      BY <2>1 DEF RanIsPast
    <3> QED
      BY <3>1 DEF Earlier, NextOf
  <2> QED
    BY <2>1 DEF RanIsPast, Earlier
<1>3. OncePerLife'
  BY DEF OncePerLife
<1> QED
  BY <1>1, <1>2, <1>3

(* An unsigned claim creates or tops up an account and touches no nonce.     *)
LEMMA UnsignedStep ==
    ASSUME RuntimeInv, UNCHANGED systemVars,
           \/ next_block
           \/ \E a \in Claimants : admit(a) \/ revalidate(a) \/ include(a)
    PROVE  RuntimeInv'
<1>1. FaucetInv'
  BY ClaimStepInv DEF RuntimeInv
<1>2. SystemTypeOK' /\ RanIsPast' /\ OncePerLife'
  BY HistoryUntouched DEF RuntimeInv, systemVars
<1>3. /\ balance \in [Claimants -> Nat] /\ balance' \in [Claimants -> Nat]
      /\ nonce' = nonce
  BY <1>1 DEF RuntimeInv, FaucetInv, TypeOK, systemVars
<1>4. ASSUME NEW b \in Claimants
      PROVE  balance'[b] = balance[b] \/ balance'[b] >= ExistentialDeposit
  <2>1. CASE balance' = balance
    BY <2>1
  <2>2. ASSUME NEW a \in Claimants, claim(a), claim_error(a) = "Ok"
        PROVE  balance'[b] = balance[b] \/ balance'[b] >= ExistentialDeposit
    <3>1. transfer_succeeds(FaucetPot, a, DripAmount)
      BY <2>2 DEF claim_error
    <3>2. balance' = moved(FaucetPot, a, DripAmount)
      BY <2>2 DEF claim
    <3> QED
      BY <1>3, <3>1, <3>2, TransferLeavesDeposit, RuntimeConstants
  <2> QED
    BY <2>1, <2>2 DEF next_block, admit, revalidate, include, claim, chainVars
<1>5. AccountsExist'
  <2> SUFFICES ASSUME NEW b \in Claimants
               PROVE  /\ balance'[b] > 0 => balance'[b] >= ExistentialDeposit
                      /\ nonce'[b] > 0 => balance'[b] > 0
    BY DEF AccountsExist
  <2>1. /\ balance[b] > 0 => balance[b] >= ExistentialDeposit
        /\ nonce[b] > 0 => balance[b] > 0
    BY DEF RuntimeInv, AccountsExist
  <2>2. balance'[b] \in Nat
    BY <1>3
  <2> QED
    BY <1>3, <1>4, <2>1, <2>2, RuntimeConstants
<1> QED
  BY <1>1, <1>2, <1>5 DEF RuntimeInv

(* What an extrinsic leaves of the accounts: sound balances, and no nonce of  *)
(* an account that is gone.                                                  *)
LEMMA SettledAccounts ==
    ASSUME SystemTypeOK, AccountsExist, balance \in [Claimants -> Nat],
           NEW who \in Claimants, balance[who] > 0, nonce[who] < MaxNonce,
           NEW n, NEW left, Sound(left), settle(who, n, left, nonce[who] + 1)
    PROVE  nonce' \in [Claimants -> 0 .. MaxNonce] /\ AccountsExist'
<1>1. /\ balance' = left
      /\ nonce' = [a \in Claimants |-> IF reaped(a, left) THEN 0
                                       ELSE IF a = who THEN nonce[who] + 1 ELSE nonce[a]]
  BY DEF settle
<1>2. /\ nonce \in [Claimants -> 0 .. MaxNonce] /\ MaxNonce \in Nat
      /\ nonce[who] + 1 \in 0 .. MaxNonce
  BY RuntimeConstants DEF SystemTypeOK
<1>3. nonce' \in [Claimants -> 0 .. MaxNonce]
  BY <1>1, <1>2
<1>4. ASSUME NEW a \in Claimants
      PROVE  /\ balance'[a] > 0 => balance'[a] >= ExistentialDeposit
             /\ nonce'[a] > 0 => balance'[a] > 0
  <2>1. /\ left[a] \in Nat /\ balance[a] \in Nat /\ nonce[a] \in Nat
        /\ left[a] = 0 \/ left[a] >= ExistentialDeposit
        /\ nonce[a] > 0 => balance[a] > 0
        /\ nonce'[a] = IF reaped(a, left) THEN 0
                       ELSE IF a = who THEN nonce[who] + 1 ELSE nonce[a]
    BY <1>1, <1>2 DEF Sound, AccountsExist
  <2> QED
    BY <1>1, <2>1 DEF reaped
<1> QED
  BY <1>3, <1>4 DEF AccountsExist

(* An extrinsic that passed CheckNonce comes after all its signer ran, and    *)
(* before all it can still run.                                              *)
LEMMA SettledHistory ==
    ASSUME SystemTypeOK, RanIsPast, OncePerLife, NEW who \in Claimants, nonce[who] < MaxNonce,
           NEW left, \A a \in Claimants : reaped(a, left) => life[a] < MaxLives,
           settle(who, nonce[who], left, nonce[who] + 1)
    PROVE  /\ life' \in [Claimants -> 0 .. MaxLives]
           /\ ran' \in [Claimants -> Seq([life : 0 .. MaxLives, nonce : 0 .. MaxNonce])]
           /\ RanIsPast' /\ OncePerLife'
<1> DEFINE Runs == [life : 0 .. MaxLives, nonce : 0 .. MaxNonce]
           e == NextOf(who)
<1>1. /\ nonce' = [a \in Claimants |-> IF reaped(a, left) THEN 0
                                       ELSE IF a = who THEN nonce[who] + 1 ELSE nonce[a]]
      /\ life' = [a \in Claimants |-> IF reaped(a, left) THEN life[a] + 1 ELSE life[a]]
      /\ ran' = [ran EXCEPT ![who] = Append(ran[who], e)]
  BY DEF settle, NextOf
<1>2. /\ nonce \in [Claimants -> 0 .. MaxNonce] /\ life \in [Claimants -> 0 .. MaxLives]
      /\ ran \in [Claimants -> Seq(Runs)] /\ MaxNonce \in Nat /\ MaxLives \in Nat
  BY RuntimeConstants DEF SystemTypeOK
<1>3. e \in Runs /\ e.life = life[who] /\ e.nonce = nonce[who]
  BY <1>2 DEF NextOf
<1>4. life' \in [Claimants -> 0 .. MaxLives]
  BY <1>1, <1>2
<1> HIDE DEF e, Runs
<1>5. /\ Append(ran[who], e) \in Seq(Runs)
      /\ DOMAIN Append(ran[who], e) = 1 .. Len(ran[who]) + 1
      /\ DOMAIN ran[who] = 1 .. Len(ran[who]) /\ Len(ran[who]) \in Nat
      /\ \A i \in 1 .. Len(ran[who]) : Append(ran[who], e)[i] = ran[who][i]
      /\ Append(ran[who], e)[Len(ran[who]) + 1] = e
  <2>1. ran[who] \in Seq(Runs)
    BY <1>2
  <2> QED
    BY <2>1, <1>3, AppendProperties
<1>6. /\ ran' \in [Claimants -> Seq(Runs)]
      /\ ran'[who] = Append(ran[who], e)
      /\ \A a \in Claimants : a # who => ran'[a] = ran[a]
  BY <1>1, <1>2, <1>5
(* Nothing an account can still run precedes what it could run before.       *)
<1>7. ASSUME NEW a \in Claimants, NEW x \in Runs, Earlier(x, NextOf(a))
      PROVE  Earlier(x, NextOf(a)')
  <2>1. /\ x.life \in Int /\ x.nonce \in Int /\ life[a] \in Int /\ nonce[a] \in Int
        /\ life'[a] = IF reaped(a, left) THEN life[a] + 1 ELSE life[a]
        /\ nonce'[a] = IF reaped(a, left) THEN 0
                       ELSE IF a = who THEN nonce[who] + 1 ELSE nonce[a]
    BY <1>1, <1>2 DEF Runs
  <2>2. x.life < life[a] \/ (x.life = life[a] /\ x.nonce < nonce[a])
    BY <1>7 DEF Earlier, NextOf
  <2>3. x.life < life'[a] \/ (x.life = life'[a] /\ x.nonce < nonce'[a])
    BY <2>1, <2>2
  <2> QED
    BY <2>3 DEF Earlier, NextOf
<1>8. Earlier(e, NextOf(who)')
  <2>1. /\ life[who] \in Int /\ nonce[who] \in Int
        /\ life'[who] = IF reaped(who, left) THEN life[who] + 1 ELSE life[who]
        /\ nonce'[who] = IF reaped(who, left) THEN 0 ELSE nonce[who] + 1
    BY <1>1, <1>2
  <2>2. e.life < life'[who] \/ (e.life = life'[who] /\ e.nonce < nonce'[who])
    BY <2>1, <1>3
  <2> QED
    BY <2>2 DEF Earlier, NextOf
<1>9. RanIsPast'
  <2>1. ASSUME NEW a \in Claimants, NEW i \in DOMAIN ran'[a]
        PROVE  Earlier(ran'[a][i], NextOf(a)')
    <3>1. CASE a = who /\ i = Len(ran[who]) + 1
      BY <1>5, <1>6, <1>8, <3>1
    <3>2. CASE ~(a = who /\ i = Len(ran[who]) + 1)
      <4>1. ran[a] \in Seq(Runs)
        BY <1>2
      <4>2. i \in DOMAIN ran[a] /\ ran'[a][i] = ran[a][i]
        BY <1>5, <1>6, <2>1, <3>2
      <4>3. ran[a][i] \in Runs
        BY <4>1, <4>2
      <4> QED
        BY <1>7, <4>2, <4>3 DEF RanIsPast
    <3> QED
      BY <3>1, <3>2
  <2> QED
    BY <2>1 DEF RanIsPast, Earlier
<1>10. OncePerLife'
  <2>1. ASSUME NEW a \in Claimants, NEW i \in DOMAIN ran'[a], NEW j \in DOMAIN ran'[a], i < j
        PROVE  Earlier(ran'[a][i], ran'[a][j])
    <3>1. CASE a = who /\ j = Len(ran[who]) + 1
      <4>1. i \in DOMAIN ran[who] /\ ran'[a][i] = ran[who][i] /\ ran'[a][j] = e
        BY <1>5, <1>6, <2>1, <3>1
      <4> QED
        BY <4>1 DEF RanIsPast, e
    <3>2. CASE ~(a = who /\ j = Len(ran[who]) + 1)
      <4>1. /\ i \in DOMAIN ran[a] /\ ran'[a][i] = ran[a][i]
            /\ j \in DOMAIN ran[a] /\ ran'[a][j] = ran[a][j]
        BY <1>5, <1>6, <2>1, <3>2
      <4> QED
        BY <2>1, <4>1 DEF OncePerLife, Earlier
    <3> QED
      BY <3>1, <3>2
  <2> QED
    BY <2>1 DEF OncePerLife, Earlier
<1> QED
  BY <1>4, <1>6, <1>9, <1>10 DEF Runs

(* A signed extrinsic uses up its nonce; accounts it leaves without the       *)
(* deposit go with theirs.                                                   *)
LEMMA SignedStep ==
    ASSUME RuntimeInv, NEW who \in Accounts, NEW n \in 0 .. MaxNonce,
           NEW call \in Calls(who), apply_signed(who, n, call)
    PROVE  RuntimeInv'
<1> DEFINE left == balances_after(who, call)
<1>1. /\ who \in Claimants /\ TypeOK /\ balance \in [Claimants -> Nat]
      /\ balance[who] > 0 /\ n = nonce[who] /\ nonce[who] < MaxNonce
      /\ ChargeTransactionPayment(who, call)
      /\ SystemTypeOK /\ AccountsExist /\ RanIsPast /\ OncePerLife
  BY RuntimeConstants DEF RuntimeInv, FaucetInv, TypeOK, apply_signed, CheckNonce
<1>2. Sound(left)
  BY <1>1, After
<1>3. /\ settle(who, nonce[who], left, nonce[who] + 1)
      /\ \A a \in Claimants : reaped(a, left) => life[a] < MaxLives
      /\ UNCHANGED <<block_number, LastClaim, ClaimCount, head, pool, outcome, claimed>>
  BY <1>1 DEF apply_signed, nonce_after, faucetOnly
<1>4. funded' \in Nat
  <2>1. moves(who, call) => call.amount \in Nat
    BY <1>1, CallShape DEF moves
  <2> QED
    BY <1>1, <2>1 DEF apply_signed, TypeOK
<1>5. sudo_key' \in ChainSpecs!Holders
  <2>1. call.kind = "set_key" => call.key \in Accounts
    BY DEF Calls
  <2> QED
    BY <1>1, <2>1, RuntimeConstants DEF apply_signed, SystemTypeOK
<1> HIDE DEF left
<1>6. nonce' \in [Claimants -> 0 .. MaxNonce] /\ AccountsExist'
  BY <1>1, <1>2, <1>3, SettledAccounts
<1>7. /\ life' \in [Claimants -> 0 .. MaxLives]
      /\ ran' \in [Claimants -> Seq([life : 0 .. MaxLives, nonce : 0 .. MaxNonce])]
      /\ RanIsPast' /\ OncePerLife'
  BY <1>1, <1>3, SettledHistory
<1>8. balance' \in [Claimants -> Nat]
  BY <1>2, <1>3 DEF settle, Sound
<1>9. FaucetInv'
  BY <1>3, <1>4, <1>8 DEF RuntimeInv, FaucetInv, TypeOK, ClaimsRecorded
<1> QED
  BY <1>5, <1>6, <1>7, <1>9 DEF RuntimeInv, SystemTypeOK

(* Every step of the runtime keeps its invariant. *)
LEMMA RuntimeNextInv == RuntimeInv /\ [RuntimeNext]_runtimeVars => RuntimeInv'
<1> SUFFICES ASSUME RuntimeInv, [RuntimeNext]_runtimeVars
             PROVE  RuntimeInv'
  OBVIOUS
<1>1. CASE next_block /\ UNCHANGED systemVars
  BY <1>1, UnsignedStep
<1>2. CASE \E a \in Claimants :
              \/ admit(a) /\ UNCHANGED systemVars
              \/ revalidate(a) /\ UNCHANGED systemVars
              \/ apply_unsigned(a)
  <2>1. UNCHANGED systemVars /\ \E a \in Claimants : admit(a) \/ revalidate(a) \/ include(a)
    BY <1>2 DEF apply_unsigned
  <2> QED
    BY <2>1, UnsignedStep
<1>3. ASSUME NEW who \in Accounts, NEW n \in 0 .. MaxNonce, NEW call \in Calls(who),
             apply_signed(who, n, call)
      PROVE  RuntimeInv'
  BY <1>3, SignedStep
<1>4. CASE UNCHANGED runtimeVars
  <2>1. UNCHANGED vars /\ UNCHANGED systemVars
    BY <1>4 DEF runtimeVars
  <2>2. FaucetInv'
    BY <2>1, FaucetNextInv DEF RuntimeInv
  <2>3. UNCHANGED <<balance, nonce, sudo_key, life, ran>>
    BY <2>1 DEF vars, chainVars, systemVars
  <2>4. SystemTypeOK' /\ RanIsPast' /\ OncePerLife'
    BY <2>3, HistoryUntouched DEF RuntimeInv
  <2>5. AccountsExist'
    BY <2>3 DEF RuntimeInv, AccountsExist
  <2> QED
    BY <2>2, <2>4, <2>5 DEF RuntimeInv
<1> QED
  BY <1>1, <1>2, <1>3, <1>4 DEF RuntimeNext

-----------------------------------------------------------------------------

(* The invariant of the runtime holds in every state of it. *)
THEOREM RuntimeInvariance == RuntimeSpec => []RuntimeInv
<1> QED
  BY RuntimeInitInv, RuntimeNextInv, PTL DEF RuntimeSpec

(* Every variable keeps its type, no account survives below the existential  *)
(* deposit, and no nonce survives the account: whatever extrinsics succeed   *)
(* or fail, pay or are free, in whatever order.                              *)
THEOREM RuntimeTypeCorrect == RuntimeSpec => []RuntimeTypeOK
<1>1. RuntimeInv => RuntimeTypeOK
  BY DEF RuntimeInv, FaucetInv, SystemTypeOK, AccountsExist, RuntimeTypeOK
<1> QED
  BY <1>1, RuntimeInvariance, PTL

(* In one life of an account no signed extrinsic of it runs twice or out of  *)
(* order, whatever nonces are submitted, and however often the account is    *)
(* removed and created again.                                                *)
THEOREM NoncesRunOnce == RuntimeSpec => []OncePerLife
<1>1. RuntimeInv => OncePerLife
  BY DEF RuntimeInv
<1> QED
  BY <1>1, RuntimeInvariance, PTL

(* The faucet's limit of claims holds beside signed extrinsics that move the *)
(* same balances and remove accounts: a new life of an account is no new     *)
(* allowance of the faucet.                                                  *)
THEOREM LimitsInContext == RuntimeSpec => []ClaimsLimited
<1>1. RuntimeInv => ClaimsLimited
  BY Constants DEF RuntimeInv, FaucetInv, TypeOK, ClaimsRecorded, ClaimsLimited, remaining_claims
<1> QED
  BY <1>1, RuntimeInvariance, PTL

(* What pre_dispatch established holds in the call, beside signed extrinsics *)
(* that take from the pot's claimants and give to the pot.                   *)
THEOREM ChecksHoldInContext == RuntimeSpec => []IncludedClaimPassesChecks
<1>1. RuntimeInit => IncludedClaimPassesChecks
  BY DEF RuntimeInit, FaucetInit, IncludedClaimPassesChecks
<1>2. RuntimeInv /\ IncludedClaimPassesChecks /\ [RuntimeNext]_runtimeVars
         => IncludedClaimPassesChecks'
  <2>1. ASSUME IncludedClaimPassesChecks, UNCHANGED outcome
        PROVE  IncludedClaimPassesChecks'
    BY <2>1 DEF IncludedClaimPassesChecks
  <2> QED
    BY <2>1, ClaimStepChecks
       DEF RuntimeInv, RuntimeNext, apply_unsigned, apply_signed, faucetOnly,
           runtimeVars, vars
<1> QED
  BY <1>1, <1>2, RuntimeInvariance, PTL DEF RuntimeSpec

(* But for the sudo key nobody takes anything out of the pot except by a      *)
(* claim that pays a drip, is recorded, and leaves the pot its deposit.      *)
THEOREM PotIsGuarded == RuntimeSpec => PotPaysOnlyClaims
<1> DEFINE ByKey == \E a \in Accounts : a = sudo_key /\ ran'[a] # ran[a]
           ByClaim == \E a \in Accounts :
                          /\ Len(claimed'[a]) = Len(claimed[a]) + 1
                          /\ balance' = moved(FaucetPot, a, DripAmount)
                          /\ balance'[FaucetPot] >= ExistentialDeposit
           Step == balance'[FaucetPot] < balance[FaucetPot] => ByKey \/ ByClaim
<1>1. RuntimeInv /\ [RuntimeNext]_runtimeVars => [Step]_runtimeVars
  <2> SUFFICES ASSUME RuntimeInv, [RuntimeNext]_runtimeVars,
                      balance'[FaucetPot] < balance[FaucetPot]
               PROVE  ByKey \/ ByClaim
    OBVIOUS
  <2>0. /\ TypeOK /\ AccountsExist /\ SystemTypeOK
        /\ balance \in [Claimants -> Nat] /\ FaucetPot \in Claimants /\ FaucetPot \notin Accounts
        /\ balance[FaucetPot] \in Nat
    BY RuntimeConstants DEF RuntimeInv, FaucetInv, TypeOK
  <2>1. ASSUME balance' = balance
        PROVE  FALSE
    BY <2>0, <2>1
  <2>2. ASSUME NEW a \in Claimants, claim(a)
        PROVE  ByClaim
    <3>1. claim_error(a) = "Ok" /\ balance' = moved(FaucetPot, a, DripAmount) /\ count_claim(a)
      BY <2>1, <2>2 DEF claim, chainVars
    <3>2. a \in Accounts
      BY <2>1, <3>1 DEF moved, Claimants
    <3>3. Len(claimed'[a]) = Len(claimed[a]) + 1
      <4>1. claimed \in [Claimants -> Seq(Blocks)] /\ block_number \in Blocks
        BY <2>0 DEF TypeOK
      <4>2. claimed'[a] = Append(claimed[a], block_number) /\ claimed[a] \in Seq(Blocks)
        BY <2>2, <3>1, <4>1 DEF count_claim
      <4> QED
        BY <4>1, <4>2, AppendProperties
    <3>4. balance'[FaucetPot] >= ExistentialDeposit
      <4>1. transfer_succeeds(FaucetPot, a, DripAmount) /\ a # FaucetPot
        BY <3>1, <3>2, <2>0 DEF claim_error
      <4>2. balance'[FaucetPot] = balance[FaucetPot] - DripAmount
        BY <2>0, <3>1, <4>1 DEF moved
      <4> QED
        BY <2>0, <4>1, <4>2, RuntimeConstants DEF transfer_succeeds
    <3> QED
      BY <3>1, <3>2, <3>3, <3>4
  <2>3. ASSUME NEW who \in Accounts, NEW n \in 0 .. MaxNonce, NEW call \in Calls(who),
               apply_signed(who, n, call)
        PROVE  ByKey
    <3> DEFINE c == charged(who, call)
    <3>1. /\ ChargeTransactionPayment(who, call) /\ who \in Claimants /\ who # FaucetPot
          /\ balance' = balances_after(who, call)
          /\ ran' = [ran EXCEPT ![who] = Append(ran[who], [life |-> life[who], nonce |-> n])]
      BY <2>0, <2>3, RuntimeConstants DEF apply_signed, settle
    <3>2. Sound(c) /\ c[FaucetPot] = balance[FaucetPot] /\ Sound(dispatched(who, call))
      BY <2>0, <3>1, Charge, After
    <3>3. balance'[FaucetPot] = dispatched(who, call)[FaucetPot]
      BY <2>0, <3>1, <3>2 DEF balances_after, Sound
    <3>4. moves(who, call) /\ dispatched(who, call) = moved_by(c, call)
      BY <2>0, <3>2, <3>3 DEF dispatched
    <3>5. call.kind \in Moving /\ enough(c, call) /\ authorised(who, call)
      BY <3>4 DEF moves
    <3>6. call.from = FaucetPot
      <4>1. /\ call.amount \in Nat
            /\ call.kind \in Transfers => moved_by(c, call)[call.to] = c[call.to] + call.amount
            /\ \A a \in Claimants :
                  a # call.from /\ ~(call.kind \in Transfers /\ a = call.to)
                     => moved_by(c, call)[a] = c[a]
        BY <2>0, <3>2, <3>5, MovedBy, CallShape
      <4> HIDE DEF c
      <4> QED
        BY <2>0, <3>2, <3>3, <3>4, <4>1
    <3>7. who = sudo_key
      BY <2>0, <3>1, <3>5, <3>6, CallShape DEF authorised
    <3>8. ran'[who] # ran[who]
      <4> DEFINE x == [life |-> life[who], nonce |-> n]
                 Runs == [life : 0 .. MaxLives, nonce : 0 .. MaxNonce]
      <4>1. ran \in [Claimants -> Seq(Runs)] /\ x \in Runs
        BY <2>0, <3>1 DEF SystemTypeOK
      <4>2. ran' = [ran EXCEPT ![who] = Append(ran[who], x)]
        BY <3>1
      <4> HIDE DEF x, Runs
      <4>3. ran'[who] = Append(ran[who], x) /\ ran[who] \in Seq(Runs)
        BY <3>1, <4>1, <4>2
      <4>4. Len(Append(ran[who], x)) = Len(ran[who]) + 1 /\ Len(ran[who]) \in Nat
        BY <4>1, <4>3, AppendProperties
      <4> QED
        BY <4>3, <4>4
    <3> QED
      BY <3>7, <3>8
  <2>4. \/ UNCHANGED balance
        \/ \E a \in Claimants : claim(a)
        \/ \E who \in Accounts : \E call \in Calls(who), n \in 0 .. MaxNonce :
              apply_signed(who, n, call)
    BY DEF RuntimeNext, apply_unsigned, next_block, admit, revalidate, include,
           runtimeVars, vars, chainVars
  <2> HIDE DEF ByKey, ByClaim
  <2> QED
    BY <2>1, <2>2, <2>3, <2>4
<1> QED
  BY <1>1, RuntimeInvariance, PTL DEF RuntimeSpec, PotPaysOnlyClaims

-----------------------------------------------------------------------------
(* The total issuance.                                                       *)

(* What all accounts hold together. *)
Held(b) == SumFunctionOnSet(b, Claimants)

LEMMA ClaimantsFinite == IsFiniteSet(Claimants)
  BY FaucetAssumption, FS_AddElement DEF Claimants

(* A change of one balance changes the sum by as much. *)
LEMMA HeldAfterChange ==
    ASSUME NEW b \in [Claimants -> Int], NEW c \in [Claimants -> Int], NEW a \in Claimants,
           \A x \in Claimants : x # a => c[x] = b[x]
    PROVE  /\ Held(b) \in Int
           /\ Held(c) = Held(b) + c[a] - b[a]
<1>1. \A x \in Claimants : b[x] \in Int /\ c[x] \in Int
  OBVIOUS
<1>2. /\ SumFunctionOnSet(b, Claimants) \in Int
      /\ SumFunctionOnSet(c, Claimants) = SumFunctionOnSet(b, Claimants) + c[a] - b[a]
  BY <1>1, ClaimantsFinite, SumChange
<1> QED
  BY <1>2 DEF Held

(* A transfer between two accounts leaves the sum alone. *)
LEMMA HeldAfterTransfer ==
    ASSUME NEW b \in [Claimants -> Int], NEW c \in [Claimants -> Int],
           NEW from \in Claimants, NEW to \in Claimants, from # to, NEW n \in Int,
           c[from] = b[from] - n, c[to] = b[to] + n,
           \A x \in Claimants : x # from /\ x # to => c[x] = b[x]
    PROVE  Held(c) = Held(b)
<1> DEFINE m == [b EXCEPT ![from] = b[from] - n]
<1>1. /\ m \in [Claimants -> Int] /\ m[from] = b[from] - n
      /\ \A x \in Claimants : x # from => m[x] = b[x]
      /\ b[from] \in Int /\ b[to] \in Int
  OBVIOUS
<1> HIDE DEF m
<1>2. Held(b) \in Int /\ Held(m) = Held(b) + m[from] - b[from]
  BY <1>1, HeldAfterChange
<1>3. Held(c) = Held(m) + c[to] - m[to]
  <2>1. \A x \in Claimants : x # to => c[x] = m[x]
    BY <1>1
  <2> QED
    BY <1>1, <2>1, HeldAfterChange
<1>4. m[to] = b[to]
  BY <1>1
<1> QED
  BY <1>1, <1>2, <1>3, <1>4

(* A call that moves something takes from the sum what it destroys. *)
LEMMA HeldAfterMove ==
    ASSUME TypeOK, NEW who \in Accounts, NEW call \in Calls(who), call.kind \in Moving,
           NEW b, Sound(b), enough(b, call)
    PROVE  /\ destroyed(b, call) \in Int /\ Held(b) \in Int
           /\ Held(moved_by(b, call)) = Held(b) - destroyed(b, call)
<1> DEFINE from == call.from
           r == rest(b, call)
           c == moved_by(b, call)
           m == [b EXCEPT ![from] = r - dust(r)]
<1>1. /\ from \in Claimants /\ call.amount \in Nat
      /\ call.kind \in Transfers => call.to \in Claimants /\ call.to # from
  BY CallShape
<1>2. /\ Sound(c) /\ r \in Nat /\ c[from] = r - dust(r)
      /\ call.kind \in Transfers => c[call.to] = b[call.to] + call.amount
      /\ \A a \in Claimants : a # from /\ ~(call.kind \in Transfers /\ a = call.to)
                                => c[a] = b[a]
  BY MovedBy
<1>3. b \in [Claimants -> Int] /\ c \in [Claimants -> Int] /\ b[from] \in Int
  BY <1>1, <1>2 DEF Sound
<1>4. dust(r) \in Int
  BY <1>2 DEF dust
<1>5. destroyed(b, call) = CASE call.kind = "force_set_balance" -> b[from] - r + dust(r)
                             [] call.kind = "burn" -> call.amount + dust(r)
                             [] OTHER -> dust(r)
  BY DEF destroyed, rest
<1>6. call.kind # "force_set_balance" => r = b[from] - call.amount
  BY DEF rest
<1> HIDE DEF r, c
<1>7. /\ m \in [Claimants -> Int] /\ m[from] = r - dust(r)
      /\ \A a \in Claimants : a # from => m[a] = b[a]
  BY <1>1, <1>2, <1>3, <1>4
<1> HIDE DEF m
<1>8. Held(b) \in Int /\ Held(m) = Held(b) + m[from] - b[from]
  BY <1>1, <1>3, <1>7, HeldAfterChange
<1>9. CASE call.kind \in Transfers
  <2>1. /\ m[call.to] = b[call.to] /\ b[call.to] \in Int
        /\ c[call.to] = b[call.to] + call.amount
    BY <1>1, <1>2, <1>3, <1>7, <1>9
  <2>2. \A a \in Claimants : a # call.to => c[a] = m[a]
    BY <1>2, <1>7, <1>9
  <2>3. Held(m) \in Int /\ Held(c) = Held(m) + c[call.to] - m[call.to]
    BY <1>1, <1>3, <1>7, <1>9, <2>2, HeldAfterChange
  <2>4. destroyed(b, call) = dust(r) /\ r = b[from] - call.amount
    BY <1>5, <1>6, <1>9 DEF Transfers
  <2> QED
    BY <1>1, <1>2, <1>3, <1>4, <1>7, <1>8, <2>1, <2>3, <2>4 DEF c
<1>10. CASE call.kind \notin Transfers
  <2>1. \A a \in Claimants : a # from => c[a] = b[a]
    BY <1>2, <1>10
  <2>2. Held(c) = Held(b) + c[from] - b[from]
    BY <1>1, <1>3, <2>1, HeldAfterChange
  <2>3. call.kind = "force_set_balance" \/ call.kind = "burn"
    BY <1>10 DEF Moving
  <2>4. CASE call.kind = "force_set_balance"
    BY <1>2, <1>3, <1>4, <1>5, <1>8, <2>2, <2>4 DEF c
  <2>5. CASE call.kind = "burn"
    BY <1>1, <1>2, <1>3, <1>4, <1>5, <1>6, <1>8, <2>2, <2>5 DEF c
  <2> QED
    BY <2>3, <2>4, <2>5
<1> QED
  BY <1>9, <1>10

(* A signed extrinsic takes from the issuance what its signer paid, and what *)
(* its call destroyed.                                                       *)
LEMMA SignedIssuance ==
    ASSUME RuntimeInv, issuance = Held(balance), NEW who \in Accounts,
           NEW n \in 0 .. MaxNonce, NEW call \in Calls(who), apply_signed(who, n, call)
    PROVE  issuance' = Held(balance')
<1> DEFINE c == charged(who, call)
           d == dispatched(who, call)
           gone == IF moves(who, call) THEN destroyed(c, call) ELSE 0
<1>1. /\ TypeOK /\ AccountsExist /\ who \in Claimants /\ ChargeTransactionPayment(who, call)
  BY RuntimeConstants DEF RuntimeInv, FaucetInv, apply_signed
<1>2. /\ balance' = balances_after(who, call)
      /\ issuance' = issuance - paid(who, call) - gone
  BY DEF apply_signed, settle
<1>3. /\ Sound(balance) /\ Sound(c) /\ fee(call) \in Nat
      /\ c[who] = balance[who] - fee(call)
      /\ \A a \in Claimants : a # who => c[a] = balance[a]
  BY <1>1, Charge
<1>4. Sound(d) /\ Sound(balances_after(who, call))
  BY <1>1, After
<1>5. gone \in Int /\ Held(c) \in Int /\ Held(d) = Held(c) - gone
  <2>1. CASE moves(who, call)
    <3>1. call.kind \in Moving /\ enough(c, call) /\ d = moved_by(c, call)
      BY <2>1 DEF moves, dispatched
    <3> QED
      BY <1>1, <1>3, <2>1, <3>1, HeldAfterMove
  <2>2. CASE ~moves(who, call)
    <3>1. d = c /\ c \in [Claimants -> Int]
      BY <1>3, <2>2 DEF dispatched, Sound
    <3>2. Held(c) \in Int
      BY <1>1, <3>1, HeldAfterChange
    <3> QED
      BY <2>2, <3>1, <3>2
  <2> QED
    BY <2>1, <2>2
<1>6. paid(who, call) = IF refunded(who, call) THEN 0 ELSE fee(call)
  BY DEF paid
<1>7. balances_after(who, call) = IF refunded(who, call) THEN [d EXCEPT ![who] = d[who] + fee(call)]
                         ELSE d
  BY DEF balances_after
<1> HIDE DEF c, d, gone
<1>8. Held(balance) \in Int /\ Held(c) = Held(balance) + c[who] - balance[who]
  <2>1. balance \in [Claimants -> Int] /\ c \in [Claimants -> Int]
    BY <1>3 DEF Sound
  <2> QED
    BY <1>1, <1>3, <2>1, HeldAfterChange
<1>9. balance[who] \in Int /\ d \in [Claimants -> Int] /\ d[who] \in Int
  BY <1>1, <1>3, <1>4 DEF Sound
<1>10. CASE refunded(who, call)
  <2>1. /\ balance' \in [Claimants -> Int] /\ balance'[who] = d[who] + fee(call)
        /\ \A a \in Claimants : a # who => balance'[a] = d[a]
    BY <1>1, <1>2, <1>3, <1>7, <1>9, <1>10
  <2>2. Held(d) \in Int /\ Held(balance') = Held(d) + balance'[who] - d[who]
    BY <1>1, <1>9, <2>1, HeldAfterChange
  <2> QED
    BY <1>2, <1>3, <1>5, <1>6, <1>8, <1>9, <1>10, <2>1, <2>2
<1>11. CASE ~refunded(who, call)
  BY <1>2, <1>3, <1>5, <1>6, <1>7, <1>8, <1>9, <1>11
<1> QED
  BY <1>10, <1>11

(* A claim moves a drip and creates nothing. *)
LEMMA UnsignedIssuance ==
    ASSUME RuntimeInv, issuance = Held(balance), UNCHANGED systemVars,
           \/ next_block
           \/ \E a \in Claimants : admit(a) \/ revalidate(a) \/ include(a)
    PROVE  issuance' = Held(balance')
<1>1. issuance' = issuance
  BY DEF systemVars
<1>2. CASE UNCHANGED balance
  BY <1>1, <1>2
<1>3. ASSUME NEW a \in Claimants, claim(a), claim_error(a) = "Ok"
      PROVE  Held(balance') = Held(balance)
  <2>1. /\ balance' = moved(FaucetPot, a, DripAmount)
        /\ balance \in [Claimants -> Int] /\ FaucetPot \in Claimants /\ DripAmount \in Int
    BY <1>3, RuntimeConstants DEF claim, RuntimeInv, FaucetInv, TypeOK
  <2>2. CASE a = FaucetPot
    BY <2>1, <2>2 DEF moved
  <2>3. CASE a # FaucetPot
    <3>1. /\ balance' \in [Claimants -> Int]
          /\ balance'[FaucetPot] = balance[FaucetPot] - DripAmount
          /\ balance'[a] = balance[a] + DripAmount
          /\ \A x \in Claimants : x # FaucetPot /\ x # a => balance'[x] = balance[x]
      BY <2>1, <2>3 DEF moved
    <3> QED
      BY <2>1, <2>3, <3>1, HeldAfterTransfer
  <2> QED
    BY <2>2, <2>3
<1> QED
  BY <1>1, <1>2, <1>3 DEF chainVars, next_block, admit, revalidate, include, claim

(* The total issuance is the sum of all balances, for any number of accounts *)
(* and any mix of claims, transfers, fees, refunds and removals.             *)
THEOREM IssuanceIsHeld == RuntimeSpec => []IssuanceAccounted
<1> DEFINE Inv == issuance = Held(balance)
<1>1. ASSUME RuntimeInv
      PROVE  IssuanceAccounted <=> Inv
  <2>1. DOMAIN balance = Claimants
    BY <1>1 DEF RuntimeInv, FaucetInv, TypeOK
  <2> QED
    BY <2>1 DEF IssuanceAccounted, SumFunction, Held
<1>2. RuntimeInit => Inv
  <2> SUFFICES ASSUME RuntimeInit PROVE Inv
    OBVIOUS
  <2>1. IssuanceAccounted
    BY DEF RuntimeInit, IssuanceAccounted
  <2> QED
    BY <1>1, <2>1, RuntimeInitInv
<1>3. RuntimeInv /\ Inv /\ [RuntimeNext]_runtimeVars => Inv'
  <2> SUFFICES ASSUME RuntimeInv, Inv, [RuntimeNext]_runtimeVars PROVE Inv'
    OBVIOUS
  <2>1. CASE UNCHANGED <<balance, issuance>>
    BY <2>1
  <2> QED
    BY <2>1, SignedIssuance, UnsignedIssuance
       DEF RuntimeNext, apply_unsigned, runtimeVars, vars, chainVars, systemVars
<1> QED
  BY <1>1, <1>2, <1>3, RuntimeInvariance, PTL DEF RuntimeSpec
=============================================================================
