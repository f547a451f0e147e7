----------------------------- MODULE QxRuntime -----------------------------
(***************************************************************************)
(* The runtime around the pallets: how an extrinsic is checked, charged    *)
(* and dispatched, over the accounts that it creates and reaps.            *)
(*                                                                         *)
(* A signed extrinsic goes through SignedExtra in order.  The nonce and    *)
(* the fee are taken before the call and outside its storage transaction:  *)
(* a call that fails keeps both.  A faucet claim is unsigned and passes    *)
(* none of this.  An account whose balance falls below the existential     *)
(* deposit is removed together with its nonce, and may be created again;   *)
(* the sudo key can do that to any account.                                *)
(***************************************************************************)
EXTENDS QxFaucet

CONSTANTS
    Rich, Poor, PotEndowment, PresetEndowment,  \* the amounts of ChainSpec
    Specs,      \* the genesis states the chain may start from
    Fee,        \* of a call that pays: IdentityFee of its weight and length
    Amounts,    \* the amounts that are moved, burned, or set by root
    MaxNonce,   \* bound of the model: extrinsics of an account in one life
    MaxLives,   \* bound of the model: removals of an account
    MaxSigned   \* bound of the model: signed extrinsics of a behaviour

ChainSpecs == INSTANCE ChainSpec

ASSUME RuntimeAssumption ==
    /\ Accounts \subseteq ChainSpecs!Holders
    /\ {Fee, MaxNonce, MaxLives, MaxSigned} \subseteq Nat
    /\ Amounts \subseteq Nat \ {0}
    /\ 1 <= ExistentialDeposit /\ ExistentialDeposit + Fee <= DripAmount
    /\ \A spec \in Specs :
          /\ ChainSpecs!genesis[spec].sudo \in ChainSpecs!Holders
          /\ \A a \in Claimants : LET e == ChainSpecs!genesis[spec].endowed[a]
                                IN  e \in Nat /\ (e > 0 => e >= ExistentialDeposit)

VARIABLES
    nonce,      \* frame_system: the nonce of each account, 0 where there is none
    issuance,   \* pallet_balances: TotalIssuance
    sudo_key,   \* pallet_sudo: Key
    life,       \* history: how often the account was removed
    ran         \* history: its extrinsics that ran, each with the life and
                \* the nonce it was signed for

faucetOnly == <<block_number, LastClaim, ClaimCount, head, pool, outcome, claimed>>
systemVars == <<nonce, issuance, sudo_key, life, ran>>
runtimeVars == <<vars, systemVars>>

RuntimeInit ==
    /\ \E spec \in Specs :
          /\ balance = [a \in Claimants |-> ChainSpecs!genesis[spec].endowed[a]]
          /\ sudo_key = ChainSpecs!genesis[spec].sudo
    /\ FaucetInit
    /\ nonce = [a \in Claimants |-> 0]
    /\ issuance = SumFunction(balance)
    /\ life = [a \in Claimants |-> 0]
    /\ ran = [a \in Claimants |-> <<>>]

-----------------------------------------------------------------------------
(* The calls, by what the runtime tells apart.  "worker" is a call with      *)
(* Pays::No (update_ai_worker_status, submit_inference), "request" one that  *)
(* pays: the pallets say whether they succeed, and no balance depends on it. *)
(* "claim" is a signed claim, which ensure_none refuses.  transfer_all is a  *)
(* transfer of all the fee leaves.  Wrapped calls need the sudo key: "sudo" is a  *)
(* root call of the pallets of QX, and sudo_as a transfer that root forces.  *)

Wrapped == {"sudo", "set_key", "force_transfer", "force_set_balance"}
Transfers == {"transfer", "fund_faucet", "force_transfer"}
Moving == Transfers \cup {"burn", "force_set_balance"}

Calls(who) ==
    [kind : {"worker", "claim", "request", "sudo"}]
        \cup [kind : {"set_key"}, key : Accounts]
        \cup [kind : {"transfer"}, from : {who}, to : Claimants \ {who},
              amount : Amounts \cup ({balance[who] - Fee} \cap Nat)]
        \cup [kind : {"fund_faucet"}, from : {who}, to : {FaucetPot}, amount : FundAmounts]
        \cup [kind : {"burn"}, from : {who}, amount : Amounts]
        \cup {call \in [kind : {"force_transfer"}, from : Claimants, to : Claimants,
                        amount : Amounts] : call.from # call.to}
        \cup [kind : {"force_set_balance"}, from : Claimants, amount : Amounts \cup {0}]

fee(call) == IF call.kind \in {"worker", "claim"} THEN 0 ELSE Fee

-----------------------------------------------------------------------------
(* SignedExtra: what a signed extrinsic must pass, and what it pays.         *)

CheckNonce_of_nobody(who, n) == n = nonce[who]

CheckNonce_of_the_past(who, n) == balance[who] > 0 /\ n <= nonce[who]

(* An account that does not exist can sign nothing, however cheap. *)
CheckNonce(who, n) == balance[who] > 0 /\ n = nonce[who]

(* SkipCheckIfFeeless skips nothing, since no call has a `feeless_if`; the   *)
(* fee is withdrawn exactly and leaves the account alive.                    *)
ChargeTransactionPayment(who, call) ==
    fee(call) > 0 => balance[who] >= fee(call) + ExistentialDeposit

nonce_after(who, call) == nonce[who] + 1

-----------------------------------------------------------------------------
(* The dispatch, on balances b from which the fee is gone. *)

charged(who, call) == [balance EXCEPT ![who] = @ - fee(call)]

anybody(who, call) == TRUE

(* pallet_sudo: a wrapped call of anybody but the key fails. *)
authorised(who, call) == call.kind \in Wrapped => who = sudo_key

enough(b, call) ==
    /\ call.kind # "force_set_balance" => b[call.from] >= call.amount
    /\ call.kind = "fund_faucet" => b[call.from] - call.amount >= ExistentialDeposit
    /\ call.kind \in Transfers => b[call.to] + call.amount >= ExistentialDeposit

moves(who, call) ==
    call.kind \in Moving /\ authorised(who, call) /\ enough(charged(who, call), call)

dust_kept(x) == 0

(* DustRemoval = (): what is left below the existential deposit goes out of  *)
(* issuance, and the account with it.                                        *)
dust(x) == IF x < ExistentialDeposit THEN x ELSE 0

rest(b, call) ==
    IF call.kind = "force_set_balance" THEN call.amount ELSE b[call.from] - call.amount

moved_by(b, call) ==
    LET debited == [b EXCEPT ![call.from] = IF rest(b, call) < ExistentialDeposit
                                            THEN 0 ELSE rest(b, call)]
    IN  IF call.kind \in Transfers
        THEN [debited EXCEPT ![call.to] = @ + call.amount] ELSE debited

(* What the call takes from issuance: dust, what is burned, and by how much  *)
(* a balance was set down, or up.                                            *)
destroyed(b, call) ==
    CASE call.kind = "force_set_balance" -> b[call.from] - call.amount + dust(call.amount)
      [] call.kind = "burn" -> call.amount + dust(rest(b, call))
      [] OTHER -> dust(rest(b, call))

dispatched(who, call) ==
    IF moves(who, call) THEN moved_by(charged(who, call), call) ELSE charged(who, call)

(* A wrapped call by the key gets its fee back, whatever the inner call did, *)
(* if the account is still there to receive it.                              *)
refunded(who, call) ==
    call.kind \in Wrapped /\ who = sudo_key /\ dispatched(who, call)[who] > 0

paid(who, call) == IF refunded(who, call) THEN 0 ELSE fee(call)

(* Balances after the extrinsic. *)
balances_after(who, call) ==
    IF refunded(who, call) THEN [dispatched(who, call) EXCEPT ![who] = @ + fee(call)]
    ELSE dispatched(who, call)

reaped(a, left) == balance[a] > 0 /\ left[a] = 0

(* What the extrinsic leaves behind: an account without a balance goes with  *)
(* its nonce, the signer's too.                                              *)
settle(who, n, left, nonce_of_who) ==
    /\ balance' = left
    /\ nonce' = [a \in Claimants |-> IF reaped(a, left) THEN 0
                                     ELSE IF a = who THEN nonce_of_who ELSE nonce[a]]
    /\ life' = [a \in Claimants |-> IF reaped(a, left) THEN life[a] + 1 ELSE life[a]]
    /\ ran' = [ran EXCEPT ![who] = Append(@, [life |-> life[who], nonce |-> n])]

apply_signed(who, n, call) ==
    /\ CheckNonce(who, n)
    /\ ChargeTransactionPayment(who, call)
    /\ nonce[who] < MaxNonce
    /\ SumFunction([a \in Claimants |-> Len(ran[a])]) < MaxSigned
    /\ LET left == balances_after(who, call)
       IN  /\ \A a \in Claimants : reaped(a, left) => life[a] < MaxLives
           /\ settle(who, n, left, nonce_after(who, call))
    /\ issuance' = issuance - paid(who, call)
          - (IF moves(who, call) THEN destroyed(charged(who, call), call) ELSE 0)
    /\ funded' = IF moves(who, call) /\ call.kind = "fund_faucet"
                 THEN funded + call.amount ELSE funded
    /\ sudo_key' = IF call.kind = "set_key" /\ authorised(who, call)
                   THEN call.key ELSE sudo_key
    /\ UNCHANGED faucetOnly

apply_unsigned_of_account(account) ==
    balance[account] > 0 /\ include(account) /\ UNCHANGED systemVars

(* A claim has no signer: no nonce, no fee, and no account is needed. *)
apply_unsigned(account) == include(account) /\ UNCHANGED systemVars

RuntimeNext ==
    \/ next_block /\ UNCHANGED systemVars
    \/ \E a \in Claimants :
          \/ admit(a) /\ UNCHANGED systemVars
          \/ revalidate(a) /\ UNCHANGED systemVars
          \/ apply_unsigned(a)
    \/ \E who \in Accounts : \E call \in Calls(who), n \in 0 .. MaxNonce :
          apply_signed(who, n, call)

(* An author goes on taking claims from its pool; whoever claims for an      *)
(* account goes on submitting the claim.                                     *)
RuntimeFairness ==
    \A a \in Accounts :
        /\ WF_runtimeVars(admit(a) /\ UNCHANGED systemVars)
        /\ WF_runtimeVars(apply_unsigned(a))

RuntimeSpec == RuntimeInit /\ [][RuntimeNext]_runtimeVars /\ RuntimeFairness

-----------------------------------------------------------------------------

(* Every variable but the issuance, of which IssuanceAccounted says what it  *)
(* is, holds a value of its type; a balance is none or at least              *)
(* the existential deposit, and only an account that has one has a nonce.    *)
RuntimeTypeOK ==
    /\ TypeOK
    /\ nonce \in [Claimants -> 0 .. MaxNonce]
    /\ sudo_key \in ChainSpecs!Holders
    /\ life \in [Claimants -> 0 .. MaxLives]
    /\ ran \in [Claimants -> Seq([life : 0 .. MaxLives, nonce : 0 .. MaxNonce])]
    /\ \A a \in Claimants :
          /\ balance[a] > 0 => balance[a] >= ExistentialDeposit
          /\ nonce[a] > 0 => balance[a] > 0

(* In one life of an account every extrinsic of it runs at most once and in  *)
(* the order of the nonces, the free ones and those that fail included: a    *)
(* signed extrinsic can come a second time only after the account was        *)
(* removed and created again.                                                *)
OncePerLife ==
    \A a \in Claimants : \A i, j \in DOMAIN ran[a] :
        i < j => \/ ran[a][i].life < ran[a][j].life
                 \/ /\ ran[a][i].life = ran[a][j].life
                    /\ ran[a][i].nonce < ran[a][j].nonce

(* The total issuance is what the accounts hold, over fees, refunds, dust,   *)
(* burns, claims, root's changes and accounts that come and go.              *)
IssuanceAccounted == issuance = SumFunction(balance)

(* But for the sudo key nobody gets anything out of the pot except by a claim: *)
(* it pays an account a drip, the claim is recorded in the same step, and the *)
(* pot keeps its existential deposit.                                        *)
PotPaysOnlyClaims ==
    [][balance'[FaucetPot] < balance[FaucetPot] =>
          \/ \E a \in Accounts : a = sudo_key /\ ran'[a] # ran[a]
          \/ \E a \in Accounts :
                /\ Len(claimed'[a]) = Len(claimed[a]) + 1
                /\ balance' = moved(FaucetPot, a, DripAmount)
                /\ balance'[FaucetPot] >= ExistentialDeposit]_runtimeVars

(* "accounts with zero balance can claim their first tokens without paying   *)
(* gas": somebody who has nothing and never claimed gets an account that can *)
(* pay, unless the pot, or the pool's view of it, falls short of a drip.     *)
NewcomerServed ==
    \A a \in Accounts :
        balance[a] = 0 /\ ClaimCount[a] = 0
          ~> \/ balance[a] >= ExistentialDeposit + Fee
             \/ head.pot < DripAmount
             \/ balance[FaucetPot] < DripAmount + ExistentialDeposit

=============================================================================
