----------------------------- MODULE ChainSpec -----------------------------
(***************************************************************************)
(* The genesis states a QX chain can start from: the chain specifications  *)
(* the node builds, and the presets the runtime answers to chain spec      *)
(* builders.  An account is its name, an amount one of a few classes: the  *)
(* order of the classes and the existential deposit is what matters.       *)
(***************************************************************************)
EXTENDS Naturals, Sequences, Functions

CONSTANTS
    FaucetPot,      \* the account of FaucetPotAccount and faucet_pot_account()
    Rich,           \* 1_000_000_000_000_000
    Poor,           \* 2_000_000_000_000
    PotEndowment,   \* 1_000_000_000_000_000_000
    PresetEndowment \* Balance::MAX / 1000

WellKnown == {"Alice", "Bob", "Charlie", "Dave", "Eve", "Ferdie"}

Validators == <<"validator-01", "validator-02", "validator-03", "validator-04">>

Holders == WellKnown \cup Range(Validators) \cup {FaucetPot}

localnet_endowed ==
    [a \in Holders |-> CASE a \in {"Alice", "Bob", "Charlie"} -> Rich
                         [] a \in {"Dave", "Eve", "Ferdie"} -> Poor
                         [] a = FaucetPot -> PotEndowment
                         [] OTHER -> 0]

localnet_genesis(authorities) ==
    [authorities |-> authorities, sudo |-> "Alice", endowed |-> localnet_endowed]

mainnet_genesis ==
    [authorities |-> Validators, sudo |-> Validators[1],
     endowed |-> [a \in Holders |-> CASE a = Validators[1] -> Rich
                                      [] a = FaucetPot -> PotEndowment
                                      [] OTHER -> 0]]

(* The presets of the runtime endow the well-known keys (and their stash     *)
(* accounts, left out here), and no pot.                                     *)
preset(authorities) ==
    [authorities |-> authorities, sudo |-> "Alice",
     endowed |-> [a \in Holders |-> IF a \in WellKnown THEN PresetEndowment ELSE 0]]

genesis ==
    [localnet_single |-> localnet_genesis(<<"Alice">>),
     localnet        |-> localnet_genesis(<<"Alice", "Bob">>),
     mainnet         |-> mainnet_genesis,
     development     |-> preset(<<"Alice">>),
     local_testnet   |-> preset(<<"Alice", "Bob", "Charlie", "Dave">>)]

(* What `load_spec` finds by name; any other name is a file. *)
Named == {"localnet_single", "localnet", "mainnet"}

(* The id names the directory of the database under the base path. *)
chain_id == [s \in Named |-> IF s = "mainnet" THEN "qxchain_mainnet" ELSE "qxchain_local"]

authorities(spec) == Range(genesis[spec].authorities)

=============================================================================
