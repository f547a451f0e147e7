------------------------------ MODULE QxFaucet ------------------------------
(***************************************************************************)
(* pallet-qx-faucet with what it runs on: the balances it moves and the    *)
(* way of an unsigned claim through the transaction pool into a block.     *)
(*                                                                         *)
(* A claim is validated when it reaches the pool, against the state at the *)
(* end of the last block; it is validated again (pre_dispatch) when an     *)
(* author puts it into a block, where other claims may have run since, and *)
(* only then dispatched.  A dispatched call that returns Err changes no    *)
(* storage but stays in the block.                                         *)
(***************************************************************************)
EXTENDS Integers, Sequences, FiniteSets, Functions

CONSTANTS
    Accounts,
    FaucetPot,              \* Config: the account derived from the pallet id
    None,                   \* Option::None
    DripAmount,             \* Config
    ClaimCooldown,          \* Config
    MaxClaimsPerAccount,    \* Config
    ExistentialDeposit,     \* Config of pallet_balances
    Longevity,              \* blocks an admitted claim may wait in the pool
    Genesis,                \* genesis balances of Accounts and the pot
    FundAmounts,            \* the amounts fund_faucet is called with
    MaxBlockNumber,         \* BlockNumber::max_value()
    LastBlock               \* bound of the model: no block after this one

Claimants == Accounts \cup {FaucetPot}
Blocks == 0 .. MaxBlockNumber

ASSUME FaucetAssumption ==
    /\ FaucetPot \notin Accounts /\ IsFiniteSet(Accounts)
    /\ {DripAmount, ClaimCooldown, MaxClaimsPerAccount, ExistentialDeposit,
        Longevity, MaxBlockNumber, LastBlock} \subseteq Nat
    /\ Genesis \in [Claimants -> Nat]
    /\ FundAmounts \subseteq Nat
    /\ 1 <= LastBlock /\ LastBlock < MaxBlockNumber
    /\ None \notin Nat

VARIABLES
    block_number,   \* the block under construction
    LastClaim,
    ClaimCount,
    balance,        \* pallet_balances: free balances
    head,           \* what the pool validates against: the last block's state
    pool,           \* pool[a]: the last block for the pooled claim of a, or None
    outcome,        \* what became of the last claim that was put into a block
    claimed,        \* history: the blocks of the Claimed events of each account
    funded          \* history: the sum of the FaucetFunded events

chainVars == <<LastClaim, ClaimCount, balance>>
vars == <<block_number, chainVars, head, pool, outcome, claimed, funded>>

-----------------------------------------------------------------------------
(* pallet_balances, as the faucet uses it: Currency::transfer with KeepAlive. *)

transfer_unchecked(from, to, amount) == TRUE

transfer_allow_death(from, to, amount) ==
    from = to \/ (balance[from] >= amount /\ balance[to] + amount >= ExistentialDeposit)

transfer_succeeds(from, to, amount) ==
    \/ amount = 0 \/ from = to
    \/ /\ balance[from] - amount >= ExistentialDeposit
       /\ balance[to] + amount >= ExistentialDeposit

moved(from, to, amount) ==
    IF from = to THEN balance
    ELSE [balance EXCEPT ![from] = @ - amount, ![to] = @ + amount]

-----------------------------------------------------------------------------

saturating_add(a, b) == IF a + b > MaxBlockNumber THEN MaxBlockNumber ELSE a + b

CooldownOver_off_by_one(last, now) ==
    last # None => now + 1 >= saturating_add(last, ClaimCooldown)

(* `if let Some(last) = LastClaim::get(account)`: now >= last + cooldown. *)
CooldownOver(last, now) ==
    last # None => now >= saturating_add(last, ClaimCooldown)

ClaimsLeft_off_by_one(count) == count <= MaxClaimsPerAccount

ClaimsLeft(count) == count < MaxClaimsPerAccount

(* The state of the chain as `validate_unsigned` sees it at some block. *)
View == [number |-> block_number, last |-> LastClaim, count |-> ClaimCount,
         pot |-> balance[FaucetPot]]

validate_unsigned(view, account) ==
    /\ CooldownOver(view.last[account], view.number)
    /\ ClaimsLeft(view.count[account])
    /\ view.pot >= DripAmount

can_claim(account) ==
    /\ ClaimsLeft(ClaimCount[account])
    /\ CooldownOver(LastClaim[account], block_number)
    /\ balance[FaucetPot] >= DripAmount

remaining_claims(account) ==
    IF ClaimCount[account] > MaxClaimsPerAccount THEN 0
    ELSE MaxClaimsPerAccount - ClaimCount[account]

-----------------------------------------------------------------------------

FaucetInit ==
    /\ block_number = 1
    /\ LastClaim = [a \in Claimants |-> None]
    /\ ClaimCount = [a \in Claimants |-> 0]
    /\ head = View
    /\ pool = [a \in Claimants |-> None]
    /\ outcome = "None"
    /\ claimed = [a \in Claimants |-> <<>>]
    /\ funded = 0

Init == balance = Genesis /\ FaucetInit

(* The author seals the block: the pool sees its state and lets go of the    *)
(* claims whose longevity is over.                                           *)
next_block ==
    /\ block_number < LastBlock
    /\ block_number' = block_number + 1
    /\ head' = [View EXCEPT !.number = block_number + 1]
    /\ pool' = [a \in Claimants |->
          IF pool[a] # None /\ pool[a] < block_number + 1 THEN None ELSE pool[a]]
    /\ UNCHANGED <<chainVars, outcome, claimed, funded>>

(* A claim for an account arrives over RPC or gossip.  Claims for one account *)
(* provide one tag and have one priority: the pool holds one at a time.       *)
admit(account) ==
    /\ pool[account] = None
    /\ validate_unsigned(head, account)
    /\ pool' = [pool EXCEPT ![account] = head.number + Longevity]
    /\ UNCHANGED <<block_number, chainVars, head, outcome, claimed, funded>>

(* The pool revalidates what it holds against the last block. *)
revalidate(account) ==
    /\ pool[account] # None
    /\ ~validate_unsigned(head, account)
    /\ pool' = [pool EXCEPT ![account] = None]
    /\ UNCHANGED <<block_number, chainVars, head, outcome, claimed, funded>>

(* The checks of the call, in the order in which it makes them. *)
claim_error(account) ==
    CASE ~CooldownOver(LastClaim[account], block_number) -> "ClaimTooSoon"
      [] ~ClaimsLeft(ClaimCount[account]) -> "MaxClaimsReached"
      [] balance[FaucetPot] < DripAmount -> "FaucetEmpty"
      [] ~transfer_succeeds(FaucetPot, account, DripAmount) -> "Transfer"
      [] OTHER -> "Ok"

count_claim(account) ==
    /\ LastClaim' = [LastClaim EXCEPT ![account] = block_number]
    /\ ClaimCount' = [ClaimCount EXCEPT ![account] = @ + 1]
    /\ claimed' = [claimed EXCEPT ![account] = Append(@, block_number)]

claim_ignores_transfer(account) ==
    /\ outcome' = claim_error(account)
    /\ IF claim_error(account) \in {"Ok", "Transfer"}
       THEN /\ count_claim(account)
            /\ balance' = IF claim_error(account) = "Ok"
                          THEN moved(FaucetPot, account, DripAmount) ELSE balance
       ELSE UNCHANGED <<chainVars, claimed>>

claim(account) ==
    /\ outcome' = claim_error(account)
    /\ IF claim_error(account) = "Ok"
       THEN /\ balance' = moved(FaucetPot, account, DripAmount)
            /\ count_claim(account)
       ELSE UNCHANGED <<chainVars, claimed>>

pre_dispatch_skipped(account) == TRUE

(* ValidateUnsigned::pre_dispatch is not overridden: it validates again.     *)
pre_dispatch(account) == validate_unsigned(View, account)

(* The author takes a pooled claim: into the block, or, when it is no longer *)
(* valid there, out of the pool.                                             *)
include(account) ==
    /\ pool[account] # None
    /\ pool' = [pool EXCEPT ![account] = None]
    /\ IF pre_dispatch(account)
       THEN claim(account)
       ELSE UNCHANGED <<chainVars, outcome, claimed>>
    /\ UNCHANGED <<block_number, head, funded>>

(* Anyone funds the pot; a transfer that fails fails the call. *)
fund_faucet(who, amount) ==
    /\ IF transfer_succeeds(who, FaucetPot, amount)
       THEN balance' = moved(who, FaucetPot, amount) /\ funded' = funded + amount
       ELSE UNCHANGED <<balance, funded>>
    /\ UNCHANGED <<block_number, LastClaim, ClaimCount, head, pool, outcome, claimed>>

Next ==
    \/ next_block
    \/ \E a \in Claimants : admit(a) \/ revalidate(a) \/ include(a)
    \/ \E a \in Accounts, n \in FundAmounts : fund_faucet(a, n)

Spec == Init /\ [][Next]_vars

-----------------------------------------------------------------------------

(* Every variable holds a value of its type. *)
TypeOK ==
    /\ block_number \in Blocks
    /\ LastClaim \in [Claimants -> Blocks \cup {None}]
    /\ ClaimCount \in [Claimants -> Nat]
    /\ balance \in [Claimants -> Nat]
    /\ head \in [number : Blocks, last : [Claimants -> Blocks \cup {None}],
                 count : [Claimants -> Nat], pot : Nat]
    /\ pool \in [Claimants -> Nat \cup {None}]
    /\ outcome \in {"None", "Ok", "ClaimTooSoon", "MaxClaimsReached", "FaucetEmpty",
                    "Transfer"}
    /\ claimed \in [Claimants -> Seq(Blocks)]
    /\ funded \in Nat

(* No account is ever paid more often than the lifetime limit, of which      *)
(* remaining_claims tells what is left, nor twice within a cooldown, however *)
(* stale the state was on which the pool admitted its claims.                *)
ClaimsLimited ==
    \A a \in Claimants :
        /\ Len(claimed[a]) + remaining_claims(a) = MaxClaimsPerAccount
        /\ \A i, j \in DOMAIN claimed[a] :
              i < j => claimed[a][j] - claimed[a][i] >= ClaimCooldown

(* The pot accounts for every unit: what it had, plus what it was funded     *)
(* with, less one drip for each claim that was counted.  A claim for the pot *)
(* itself is counted and moves nothing.                                      *)
PotLedger ==
    balance[FaucetPot] + DripAmount * SumFunctionOnSet(ClaimCount, Accounts)
      = Genesis[FaucetPot] + funded

(* Only a claim that meets the cooldown, the limit and the pot's balance in  *)
(* the state it runs in gets into a block; the checks in `claim` itself      *)
(* never fail, however the pool's view has aged.                             *)
IncludedClaimPassesChecks ==
    outcome \notin {"ClaimTooSoon", "MaxClaimsReached", "FaucetEmpty"}

(* What the comment on `can_claim` says, "Check if account can claim now":    *)
(* where it answers true, a claim pays.                                      *)
CanClaimMeansClaimPays ==
    \A a \in Accounts :
        can_claim(a) => transfer_succeeds(FaucetPot, a, DripAmount)

(* Paying claims never destroys the pot: once it exists it keeps its         *)
(* existential deposit.                                                      *)
PotOutlivesClaims ==
    [][balance[FaucetPot] >= ExistentialDeposit
          => balance'[FaucetPot] >= ExistentialDeposit]_vars

=============================================================================
